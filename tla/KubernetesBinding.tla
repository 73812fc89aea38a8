-------------------------- MODULE KubernetesBinding --------------------------
(***************************************************************************)
(* The binding controller (kubernetes/internal/binding): it keeps a Secret *)
(* or ConfigMap, the target, at what Configra answers for a ConfigraBinding*)
(* in a cluster where users change, delete and take over the same objects. *)
(*                                                                         *)
(* Every call of Reconcile to the API server or to Configra is one action. *)
(* A new leader may start while a call of the old one is still going on.   *)
(* Targets are read from the informers' caches, which may lag behind; the  *)
(* binding is read from the API server, as unstructured objects are.       *)
(*                                                                         *)
(* Objects carry no resource versions: fresh tells whose read of an object *)
(* is still of its latest version, which is all an update compares.        *)
(***************************************************************************)
EXTENDS Integers

CONSTANTS
    Targets,        \* kinds and names a binding may choose for its target
    FirstTarget,    \* the one it begins with
    Terms,          \* leaders of the controller there may be, one after another
    MaxChanges,     \* bound of this model on all that happens besides
    None            \* no object

ASSUME BindingAssumption ==
    /\ MaxChanges \in Nat
    /\ Terms \in Nat \ {0}
    /\ FirstTarget \in Targets
    /\ {None, "binding"} \cap Targets = {}

VARIABLES
    binding,        \* the ConfigraBinding, None while there is none
    created,        \* how many there have been; the last one's UID
    target,         \* Secrets and ConfigMaps of these names
    cached,         \* the target as a cache that lags has it
    lagging,        \* targets of which a cache may lag
    upstream,       \* version of what Configra answers
    leader,         \* who has got the lease of the leader election
    changes,        \* changes there may still be
    pc,             \* the next call of each controller
    object,         \* the binding as it was read
    before,         \* the target as it was read, before the fetch
    fetched,        \* the version that was fetched
    fresh,          \* whose read of what is of its latest version
    delivered       \* what targets have been written

(* A replica that leads again counts as another.                           *)
Controllers == 1..Terms

cacheVars == <<cached, lagging>>
clusterVars == <<binding, created, target, cacheVars, upstream>>
readVars == <<object, before, fetched>>
vars == <<clusterVars, leader, changes, pc, readVars, fresh, delivered>>

Delivery == [uid : Nat, target : Targets, generation : Nat, version : Nat]

(* generation, target and valid: the spec. The rest is the status: ready   *)
(* with its generation, and the last target and version it was ready with. *)
Binding == [uid : Nat, generation : Nat, target : Targets, valid : BOOLEAN,
            ready : BOOLEAN, observed : Nat, last : Targets \cup {None}, version : Nat]

(* Each generation asks for content of its own. An object that no binding  *)
(* controls is of owner 0.                                                 *)
Object == [owner : Nat, generation : Nat, version : Nat]

Foreign == [owner |-> 0, generation |-> 0, version |-> 0]

ASSUME NoneAssumption == None \notin Binding \cup Object

Steps == {"idle", "target", "fetch", "recheck", "write", "cleanup", "delete",
          "status", "failure"}

TypeOK ==
    /\ binding \in Binding \cup {None}
    /\ created \in Nat
    /\ target \in [Targets -> Object \cup {None}]
    /\ cached \in [Targets -> Object \cup {None}]
    /\ lagging \subseteq Targets
    /\ upstream \in Nat
    /\ leader \in Controllers
    /\ changes \in Nat
    /\ pc \in [Controllers -> Steps]
    /\ object \in [Controllers -> Binding \cup {None}]
    /\ before \in [Controllers -> Object \cup {None}]
    /\ fetched \in [Controllers -> Nat]
    /\ fresh \subseteq Controllers \X (Targets \cup {"binding"})
    /\ delivered \subseteq Delivery

NewBinding(uid, t) ==
    [uid |-> uid, generation |-> 1, target |-> t, valid |-> TRUE,
     ready |-> FALSE, observed |-> 0, last |-> None, version |-> 0]

Init ==
    /\ binding = NewBinding(1, FirstTarget)
    /\ created = 1
    /\ target = [t \in Targets |-> None]
    /\ cached = target
    /\ lagging = {}
    /\ upstream = 1
    /\ leader = 1
    /\ changes = MaxChanges
    /\ pc = [c \in Controllers |-> "idle"]
    /\ object = [c \in Controllers |-> None]
    /\ before = [c \in Controllers |-> None]
    /\ fetched = [c \in Controllers |-> 0]
    /\ fresh = {}
    /\ delivered = {}

-----------------------------------------------------------------------------
(* What users, Configra and the cluster do.                                *)

(* What was read of x is of its latest version no more.                    *)
Touched(x) == fresh' = fresh \ (Controllers \X {x})

(* The target becomes o; caches keep what they have until they are synced. *)
Put(t, o) ==
    /\ target' = [target EXCEPT ![t] = o]
    /\ lagging' = lagging \cup {t}
    /\ Touched(t)
    /\ UNCHANGED cached

Change == changes > 0 /\ changes' = changes - 1

ControllersUnchanged == UNCHANGED <<leader, pc, readVars, delivered>>

(* The binding with another spec, and its status as it is.                 *)
Specified(t, valid) ==
    [uid |-> binding.uid, generation |-> binding.generation + 1, target |-> t, valid |-> valid,
     ready |-> binding.ready, observed |-> binding.observed, last |-> binding.last,
     version |-> binding.version]

ChangeSpec ==
    /\ Change
    /\ binding # None
    /\ \E t \in Targets, valid \in BOOLEAN :
          binding' = Specified(t, valid)
    /\ Touched("binding")
    /\ UNCHANGED <<created, target, cacheVars, upstream>> /\ ControllersUnchanged

DeleteBinding ==
    /\ Change
    /\ binding # None
    /\ binding' = None
    /\ Touched("binding")
    /\ UNCHANGED <<created, target, cacheVars, upstream>> /\ ControllersUnchanged

CreateBinding ==
    /\ Change
    /\ binding = None
    /\ \E t \in Targets : binding' = NewBinding(created + 1, t)
    /\ created' = created + 1
    /\ UNCHANGED <<target, cacheVars, upstream, fresh>> /\ ControllersUnchanged

(* A user puts an object where none is, takes one over or deletes it.      *)
ChangeTarget(t) ==
    /\ Change
    /\ \E o \in {None, Foreign} :
          /\ o # target[t]
          /\ Put(t, o)
    /\ UNCHANGED <<binding, created, upstream>> /\ ControllersUnchanged

ChangeUpstream ==
    /\ Change
    /\ upstream' = upstream + 1
    /\ UNCHANGED <<binding, created, target, cacheVars, fresh>> /\ ControllersUnchanged

TakeOver ==
    /\ leader < Terms
    /\ leader' = leader + 1
    /\ UNCHANGED <<clusterVars, changes, pc, readVars, fresh, delivered>>

Controls(o, uid) == o # None /\ o.owner = uid

(* Garbage collection of what a deleted binding has left.                  *)
CollectGarbage ==
    /\ \E t \in Targets :
          /\ target[t] # None
          /\ target[t].owner # 0
          /\ ~(binding # None /\ Controls(target[t], binding.uid))
          /\ Put(t, None)
    /\ UNCHANGED <<binding, created, upstream, leader, changes, pc, readVars, delivered>>

(* The watch of the caches catches up.                                     *)
Sync(t) ==
    /\ t \in lagging
    /\ lagging' = lagging \ {t}
    /\ cached' = [cached EXCEPT ![t] = target[t]]
    /\ UNCHANGED <<binding, created, target, upstream, leader, changes, pc, readVars, fresh,
                   delivered>>

-----------------------------------------------------------------------------
(* Reconcile.                                                              *)

At(c, step) == pc[c] = step

Goto(c, step) == pc' = [pc EXCEPT ![c] = step]

(* It ends, to be called again after an interval or a back-off.            *)
Return(c) ==
    /\ Goto(c, "idle")
    /\ object' = [object EXCEPT ![c] = None]
    /\ before' = [before EXCEPT ![c] = None]
    /\ fetched' = [fetched EXCEPT ![c] = 0]

(* c's reads are fresh: it has just made one of x, or is done with all.    *)
Reading(c, x) == fresh' = fresh \cup {<<c, x>>}

(* c finds o for t in its cache, which may lag.                            *)
ReadCached(c, t, o) ==
    \/ o = target[t] /\ Reading(c, t)
    \/ t \in lagging /\ o = cached[t] /\ UNCHANGED fresh

Forget(c) == fresh' = fresh \ ({c} \X (Targets \cup {"binding"}))

(* Mutant: a generation that has been observed is done with.               *)
Start_Observed(c) ==
    /\ At(c, "idle")
    /\ c = leader
    /\ binding # None
    /\ ~(binding.ready /\ binding.observed = binding.generation)
    /\ object' = [object EXCEPT ![c] = binding]
    /\ Reading(c, "binding")
    /\ Goto(c, IF binding.valid THEN "target" ELSE "failure")
    /\ UNCHANGED <<clusterVars, leader, changes, before, fetched, delivered>>

Start(c) ==
    /\ At(c, "idle")
    /\ c = leader
    /\ binding # None
    /\ object' = [object EXCEPT ![c] = binding]
    /\ Reading(c, "binding")
    /\ Goto(c, IF binding.valid THEN "target" ELSE "failure")
    /\ UNCHANGED <<clusterVars, leader, changes, before, fetched, delivered>>

(* With the credential before it.                                          *)
ReadTarget(c) ==
    /\ At(c, "target")
    /\ \E o \in {target[object[c].target], cached[object[c].target]} :
          /\ ReadCached(c, object[c].target, o)
          /\ before' = [before EXCEPT ![c] = o]
    /\ Goto(c, "fetch")
    /\ UNCHANGED <<clusterVars, leader, changes, object, fetched, delivered>>

Fetch(c) ==
    /\ At(c, "fetch")
    /\ fetched' = [fetched EXCEPT ![c] = upstream]
    /\ Goto(c, "recheck")
    /\ UNCHANGED <<clusterVars, leader, changes, object, before, fresh, delivered>>

(* Mutant: only that the binding still exists.                             *)
Superseded_Gone(c) == binding = None

(* It is gone, or another one, or of another spec.                         *)
Superseded(c) ==
    ~ /\ binding # None
      /\ binding.uid = object[c].uid
      /\ binding.generation = object[c].generation

Recheck(c) ==
    /\ At(c, "recheck")
    /\ \/ Superseded(c) /\ Return(c) /\ Forget(c)
       \/ ~Superseded(c) /\ Goto(c, "write") /\ UNCHANGED <<readVars, fresh>>
    /\ UNCHANGED <<clusterVars, leader, changes, delivered>>

Wanted(c) ==
    [owner |-> object[c].uid, generation |-> object[c].generation, version |-> fetched[c]]

Delivering(c) ==
    [uid |-> object[c].uid, target |-> object[c].target,
     generation |-> object[c].generation, version |-> fetched[c]]

(* Mutants: an update and a deletion of whatever is there.                 *)
Accepted_Always(c, t) == TRUE

(* The API server compares what c has read with the object's version.      *)
Accepted(c, t) == <<c, t>> \in fresh

(* Mutant: the version annotation alone is compared.                       *)
Same_Version(c) == before[c] # None /\ before[c].version = fetched[c]

Same(c) == before[c] = Wanted(c)

(* The target of the status as it was read is not the one of the spec.     *)
Moved(c) == object[c].last \notin {None, object[c].target}

(* Created if it was missing, left as it is if it was right, or updated.   *)
WriteTarget(c) ==
    LET t == object[c].target
        collision == before[c] # None /\ ~Controls(before[c], object[c].uid)
        refused == IF before[c] = None THEN target[t] # None ELSE ~(Same(c) \/ Accepted(c, t)) IN
    /\ At(c, "write")
    /\ before' = [before EXCEPT ![c] = None]
    /\ \/ /\ collision \/ refused
          /\ Goto(c, "failure")
          /\ UNCHANGED <<target, cacheVars, fresh, delivered>>
       \/ /\ ~(collision \/ refused)
          /\ Goto(c, IF Moved(c) THEN "cleanup" ELSE "status")
          /\ IF Same(c) THEN UNCHANGED <<target, cacheVars, fresh, delivered>>
             ELSE Put(t, Wanted(c)) /\ delivered' = delivered \cup {Delivering(c)}
    /\ UNCHANGED <<binding, created, upstream, leader, changes, object, fetched>>

(* Others' objects are left.                                               *)
FindPrevious(c) ==
    LET t == object[c].last IN
    /\ At(c, "cleanup")
    /\ \E o \in {target[t], cached[t]} :
          /\ ReadCached(c, t, o)
          /\ Goto(c, IF Controls(o, object[c].uid) THEN "delete" ELSE "status")
    /\ UNCHANGED <<clusterVars, leader, changes, readVars, delivered>>

DeletePrevious(c) ==
    LET t == object[c].last IN
    /\ At(c, "delete")
    /\ \/ target[t] # None /\ Accepted(c, t) /\ Put(t, None) /\ Goto(c, "status")
       \/ /\ ~(target[t] # None /\ Accepted(c, t))
          /\ Goto(c, IF target[t] = None THEN "status" ELSE "failure")
          /\ UNCHANGED <<target, cacheVars, fresh>>
    /\ UNCHANGED <<binding, created, upstream, leader, changes, readVars, delivered>>

(* A failure keeps the target and the version of the last success.         *)
Status(c) ==
    LET b == object[c]
        success == At(c, "status") IN
    [uid |-> b.uid, generation |-> b.generation, target |-> b.target, valid |-> b.valid,
     ready |-> success, observed |-> b.generation,
     last |-> IF success THEN b.target ELSE b.last,
     version |-> IF success THEN fetched[c] ELSE b.version]

(* An update that finds the binding changed is an error, and all is done   *)
(* again; one that would change nothing is left out.                       *)
SetStatus(c) ==
    /\ pc[c] \in {"status", "failure"}
    /\ \/ /\ binding # None /\ Accepted(c, "binding")
          /\ binding' = Status(c)
          /\ fresh' = {r \in fresh : r[1] # c /\ r[2] # "binding"}
       \/ /\ ~(binding # None /\ Accepted(c, "binding")) \/ Status(c) = object[c]
          /\ UNCHANGED binding
          /\ Forget(c)
    /\ Return(c)
    /\ UNCHANGED <<created, target, cacheVars, upstream, leader, changes, delivered>>

(* A call fails, or what Configra answers cannot be put into the target;   *)
(* or the answer to the write or the deletion before is lost.              *)
CallFails(c) ==
    /\ Change
    /\ pc[c] \in {"target", "fetch", "write", "cleanup", "delete", "status"}
    /\ Goto(c, "failure")
    /\ UNCHANGED <<clusterVars, leader, readVars, fresh, delivered>>

(* The process stops, or the 45 seconds are over.                          *)
Stop(c) ==
    /\ Change
    /\ ~At(c, "idle")
    /\ Return(c)
    /\ Forget(c)
    /\ UNCHANGED <<clusterVars, leader, delivered>>

-----------------------------------------------------------------------------
Step(c) ==
    \/ Start(c)
    \/ ReadTarget(c)
    \/ Fetch(c)
    \/ Recheck(c)
    \/ WriteTarget(c)
    \/ FindPrevious(c)
    \/ DeletePrevious(c)
    \/ SetStatus(c)

Next ==
    \/ ChangeSpec
    \/ DeleteBinding
    \/ CreateBinding
    \/ \E t \in Targets : ChangeTarget(t)
    \/ ChangeUpstream
    \/ TakeOver
    \/ CollectGarbage
    \/ \E t \in Targets : Sync(t)
    \/ \E c \in Controllers : Step(c) \/ CallFails(c) \/ Stop(c)

Spec == Init /\ [][Next]_vars

(* Reconcile is called again after every end of it: after 30 seconds, the  *)
(* interval or a back-off, or because an object has changed. Nothing is    *)
(* assumed of a call that an earlier leader has left behind.               *)
FairSpec ==
    /\ Spec
    /\ \A c \in Controllers : WF_vars(c = leader /\ Step(c))
    /\ \A t \in Targets : WF_vars(Sync(t))
    /\ WF_vars(CollectGarbage)

-----------------------------------------------------------------------------
(* Properties.                                                             *)

(* The controller "refuses to overwrite an unrelated object", and "an      *)
(* object replaced or taken over between the ownership check and deletion  *)
(* is left untouched": Reconcile changes what is missing or controlled by  *)
(* its own binding at that moment, and nothing else.                       *)
OthersObjectsAreLeft ==
    [][\A c \in Controllers, t \in Targets :
          target[t] # None /\ target'[t] # target[t] /\ Step(c)
          => Controls(target[t], object[c].uid)]_vars

(* "A replaced leader's late response must not overwrite a target delivered*)
(* by another reconcile": the content of an object never goes back, to an  *)
(* older spec or to what Configra answered earlier.                        *)
NeverGoesBack ==
    [][\A t \in Targets :
          /\ target[t] # None
          /\ target'[t] # None
          /\ target[t].owner = target'[t].owner
          => /\ target'[t].generation >= target[t].generation
             /\ target'[t].version >= target[t].version]_vars

(* A binding that says it is ready has been: its target has been written   *)
(* with the version and for the generation that the status names.          *)
ReadyWasDelivered ==
    binding # None /\ binding.ready =>
        [uid |-> binding.uid, target |-> binding.last, generation |-> binding.observed,
         version |-> binding.version] \in delivered

(* The spec cannot be followed, or the target and the status are what it   *)
(* and Configra say.                                                       *)
Synchronized ==
    \/ binding = None
    \/ ~binding.valid
    \/ target[binding.target] # None /\ target[binding.target].owner = 0
    \/ /\ target[binding.target] =
             [owner |-> binding.uid, generation |-> binding.generation, version |-> upstream]
       /\ binding.ready
       /\ binding.observed = binding.generation
       /\ binding.last = binding.target
       /\ binding.version = upstream

(* Whatever was interrupted, refused or written late: once nothing changes *)
(* any more, the target and the status become right and stay so.           *)
SettlesOnLatest == <>[]Synchronized
=============================================================================
