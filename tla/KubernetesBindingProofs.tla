----------------------- MODULE KubernetesBindingProofs -----------------------
(***************************************************************************)
(* Proofs about KubernetesBinding: what Reconcile may touch, that content  *)
(* never goes back, and that a ready status names what was delivered.      *)
(*                                                                         *)
(* The inductive invariant says of every object that was read, is cached   *)
(* or is stored: a binding that has been or is wrote it, from an answer and*)
(* a spec no newer than the present ones; of every controller: what a fresh*)
(* read tells is so still, and the write after the recheck is newer than   *)
(* what was read before the fetch.                                         *)
(***************************************************************************)
EXTENDS KubernetesBinding, TLAPS

Content(o, t) ==
    [uid |-> o.owner, target |-> t, generation |-> o.generation, version |-> o.version]

(* An object that a user did not make.                                     *)
Sound(o, t) ==
    o # None /\ o # Foreign =>
        /\ o.owner # 0
        /\ o.owner <= created
        /\ o.version <= upstream
        /\ binding # None /\ binding.uid = o.owner => o.generation <= binding.generation
        /\ Content(o, t) \in delivered

ObjectsOK == \A t \in Targets : Sound(target[t], t) /\ Sound(cached[t], t)

BindingOK ==
    /\ created # 0
    /\ binding # None => binding.uid = created

(* A read of the binding is of one there has been.                         *)
ObjectOK(c) ==
    /\ pc[c] = "idle" <=> object[c] = None
    /\ object[c] # None =>
          /\ object[c].uid # 0
          /\ object[c].uid <= created
          /\ binding # None /\ binding.uid = object[c].uid
             => object[c].generation <= binding.generation

FreshBinding(c) == <<c, "binding">> \in fresh => binding # None /\ object[c] = binding

FreshTarget(c) ==
    \A t \in Targets : <<c, t>> \in fresh =>
        /\ pc[c] \notin {"idle", "target"}
        /\ \/ t = object[c].target
           \/ t = object[c].last /\ pc[c] \in {"delete", "failure", "status"}
        /\ pc[c] \in {"fetch", "recheck", "write"} => before[c] = target[t]
        /\ pc[c] = "delete" /\ t = object[c].last => Controls(target[t], object[c].uid)

BeforeOK(c) ==
    before[c] # None => object[c] # None /\ Sound(before[c], object[c].target)

(* What was fetched after the target was read is no older than the target. *)
FetchedOK(c) ==
    pc[c] \in {"recheck", "write"} =>
        /\ fetched[c] <= upstream
        /\ before[c] # None => before[c].version <= fetched[c]

RecheckedOK(c) ==
    pc[c] = "write" /\ before[c] # None /\ before[c].owner = object[c].uid
    => before[c].generation <= object[c].generation

DeliveredOK(c) ==
    /\ pc[c] \in {"cleanup", "delete", "status"} => Delivering(c) \in delivered
    /\ pc[c] \in {"cleanup", "delete"} => Moved(c)

ControllerOK(c) ==
    /\ ObjectOK(c)
    /\ FreshBinding(c)
    /\ FreshTarget(c)
    /\ BeforeOK(c)
    /\ FetchedOK(c)
    /\ RecheckedOK(c)
    /\ DeliveredOK(c)

IInv ==
    /\ TypeOK
    /\ ObjectsOK
    /\ BindingOK
    /\ \A c \in Controllers : ControllerOK(c)
    /\ ReadyWasDelivered

USE BindingAssumption

-----------------------------------------------------------------------------

(* Types.                                                                  *)

LEMMA RecordTypes ==
    /\ Foreign \in Object
    /\ \A uid \in Nat, t \in Targets : NewBinding(uid, t) \in Binding
    /\ None \notin Binding
    /\ None \notin Object
  BY NoneAssumption DEF Foreign, Object, NewBinding, Binding

LEMMA SpecifiedType ==
  ASSUME binding \in Binding, NEW t \in Targets, NEW v \in BOOLEAN
  PROVE  Specified(t, v) \in Binding
  BY DEF Binding, Specified

LEMMA StatusType ==
  ASSUME NEW c \in Controllers, object[c] \in Binding, fetched[c] \in Nat
  PROVE  Status(c) \in Binding
  <1>1. (pc[c] = "status") \in BOOLEAN
    OBVIOUS
  <1>2. (IF pc[c] = "status" THEN object[c].target ELSE object[c].last) \in Targets \cup {None}
    BY DEF Binding
  <1>3. (IF pc[c] = "status" THEN fetched[c] ELSE object[c].version) \in Nat
    BY DEF Binding
  <1> QED BY <1>1, <1>2, <1>3 DEF Binding, Status, At

LEMMA WantedType ==
  ASSUME NEW c \in Controllers, object[c] \in Binding, fetched[c] \in Nat
  PROVE  /\ Wanted(c) \in Object
         /\ Delivering(c) \in Delivery
         /\ object[c].target \in Targets
  BY DEF Binding, Wanted, Object, Delivering, Delivery

(* The pieces of the type invariant.                                       *)
ClusterTypeOK ==
    /\ binding \in Binding \cup {None}
    /\ created \in Nat
    /\ target \in [Targets -> Object \cup {None}]
    /\ cached \in [Targets -> Object \cup {None}]
    /\ lagging \subseteq Targets
    /\ upstream \in Nat

ReadTypeOK ==
    /\ object \in [Controllers -> Binding \cup {None}]
    /\ before \in [Controllers -> Object \cup {None}]
    /\ fetched \in [Controllers -> Nat]

RestTypeOK ==
    /\ leader \in Controllers
    /\ changes \in Nat
    /\ pc \in [Controllers -> Steps]
    /\ fresh \subseteq Controllers \X (Targets \cup {"binding"})
    /\ delivered \subseteq Delivery

LEMMA TypePieces == TypeOK <=> ClusterTypeOK /\ ReadTypeOK /\ RestTypeOK
  BY DEF TypeOK, ClusterTypeOK, ReadTypeOK, RestTypeOK

Busy == \A c \in Controllers : pc[c] # "idle" => object[c] # None

Moving == \A c \in Controllers : pc[c] \in {"cleanup", "delete"} => Moved(c)

(* Next, an action a line.                                                 *)
LEMMA NextCases ==
  ASSUME [Next]_vars
  PROVE  \/ ChangeSpec
         \/ DeleteBinding
         \/ CreateBinding
         \/ \E t \in Targets : ChangeTarget(t)
         \/ ChangeUpstream
         \/ TakeOver
         \/ CollectGarbage
         \/ \E t \in Targets : Sync(t)
         \/ \E c \in Controllers : Start(c)
         \/ \E c \in Controllers : ReadTarget(c)
         \/ \E c \in Controllers : Fetch(c)
         \/ \E c \in Controllers : Recheck(c)
         \/ \E c \in Controllers : WriteTarget(c)
         \/ \E c \in Controllers : FindPrevious(c)
         \/ \E c \in Controllers : DeletePrevious(c)
         \/ \E c \in Controllers : SetStatus(c)
         \/ \E c \in Controllers : CallFails(c)
         \/ \E c \in Controllers : Stop(c)
         \/ UNCHANGED vars
  BY DEF Next, Step

LEMMA PutType ==
  ASSUME ClusterTypeOK, fresh \subseteq Controllers \X (Targets \cup {"binding"}),
         NEW t \in Targets, NEW o \in Object \cup {None}, Put(t, o)
  PROVE  /\ target' \in [Targets -> Object \cup {None}]
         /\ cached' \in [Targets -> Object \cup {None}]
         /\ lagging' \subseteq Targets
         /\ fresh' \subseteq Controllers \X (Targets \cup {"binding"})
  BY DEF ClusterTypeOK, Put, Touched

LEMMA ReturnType ==
  ASSUME ReadTypeOK, RestTypeOK, NEW c \in Controllers, Return(c)
  PROVE  ReadTypeOK' /\ pc' \in [Controllers -> Steps]
  BY DEF ReadTypeOK, RestTypeOK, Return, Goto, Steps

LEMMA ReadCachedType ==
  ASSUME ClusterTypeOK, RestTypeOK, NEW c \in Controllers, NEW t \in Targets,
         NEW o, ReadCached(c, t, o)
  PROVE  /\ o \in Object \cup {None}
         /\ fresh' \subseteq Controllers \X (Targets \cup {"binding"})
  BY DEF ClusterTypeOK, RestTypeOK, ReadCached, Reading

LEMMA TypeStep ==
  ASSUME TypeOK, Busy, Moving, [Next]_vars
  PROVE  TypeOK'
  <1> USE NoneAssumption
  <1>p. ClusterTypeOK /\ ReadTypeOK /\ RestTypeOK
    BY TypePieces
  <1>q. SUFFICES ClusterTypeOK' /\ ReadTypeOK' /\ RestTypeOK'
    BY TypePieces DEF TypeOK, ClusterTypeOK, ReadTypeOK, RestTypeOK
  <1> HIDE DEF TypeOK
  <1>b. \A c \in Controllers : pc[c] # "idle" => object[c] \in Binding
    BY <1>p DEF Busy, ReadTypeOK
  <1>t. \A b \in Binding : b.target \in Targets /\ b.last \in Targets \cup {None}
    BY DEF Binding
  <1>1. CASE ChangeSpec
    <2>1. binding \in Binding
      BY <1>1, <1>p DEF ChangeSpec, ClusterTypeOK
    <2>2. binding' \in Binding
      BY <1>1, <2>1, SpecifiedType DEF ChangeSpec
    <2> QED BY <1>1, <1>p, <2>2 DEF ChangeSpec, Change, ControllersUnchanged, cacheVars, readVars,
                                    Touched, ClusterTypeOK, ReadTypeOK, RestTypeOK
  <1>2. CASE DeleteBinding
    BY <1>2, <1>p DEF DeleteBinding, Change, ControllersUnchanged, cacheVars, readVars, Touched,
                      ClusterTypeOK, ReadTypeOK, RestTypeOK
  <1>3. CASE CreateBinding
    <2>1. binding' \in Binding
      BY <1>3, <1>p, RecordTypes DEF CreateBinding, ClusterTypeOK
    <2> QED BY <1>3, <1>p, <2>1 DEF CreateBinding, Change, ControllersUnchanged, cacheVars, readVars,
                                    ClusterTypeOK, ReadTypeOK, RestTypeOK
  <1>4. CASE \E t \in Targets : ChangeTarget(t)
    <2>1. PICK t \in Targets : ChangeTarget(t)
      BY <1>4
    <2>2. PICK o \in {None, Foreign} : Put(t, o)
      BY <2>1 DEF ChangeTarget
    <2>3. o \in Object \cup {None}
      BY RecordTypes
    <2>4. /\ target' \in [Targets -> Object \cup {None}]
          /\ cached' \in [Targets -> Object \cup {None}]
          /\ lagging' \subseteq Targets
          /\ fresh' \subseteq Controllers \X (Targets \cup {"binding"})
      BY <1>p, <2>2, <2>3, PutType DEF RestTypeOK
    <2> QED BY <2>1, <1>p, <2>4 DEF ChangeTarget, Change, ControllersUnchanged, readVars,
                                    ClusterTypeOK, ReadTypeOK, RestTypeOK
  <1>5. CASE ChangeUpstream
    BY <1>5, <1>p DEF ChangeUpstream, Change, ControllersUnchanged, cacheVars, readVars,
                      ClusterTypeOK, ReadTypeOK, RestTypeOK
  <1>6. CASE TakeOver
    BY <1>6, <1>p DEF TakeOver, clusterVars, cacheVars, readVars, Controllers,
                      ClusterTypeOK, ReadTypeOK, RestTypeOK
  <1>7. CASE CollectGarbage
    <2>1. PICK t \in Targets : Put(t, None)
      BY <1>7 DEF CollectGarbage
    <2>2. /\ target' \in [Targets -> Object \cup {None}]
          /\ cached' \in [Targets -> Object \cup {None}]
          /\ lagging' \subseteq Targets
          /\ fresh' \subseteq Controllers \X (Targets \cup {"binding"})
      BY <1>p, <2>1, PutType DEF RestTypeOK
    <2> QED BY <1>7, <1>p, <2>2 DEF CollectGarbage, readVars, ClusterTypeOK, ReadTypeOK, RestTypeOK
  <1>8. CASE \E t \in Targets : Sync(t)
    BY <1>8, <1>p DEF Sync, readVars, ClusterTypeOK, ReadTypeOK, RestTypeOK
  <1>9. CASE \E c \in Controllers : Start(c)
    BY <1>9, <1>p DEF Start, Reading, Goto, Steps, clusterVars, cacheVars,
                      ClusterTypeOK, ReadTypeOK, RestTypeOK
  <1>10. CASE \E c \in Controllers : ReadTarget(c)
    <2>1. PICK c \in Controllers : ReadTarget(c)
      BY <1>10
    <2>2. object[c].target \in Targets
      BY <2>1, <1>b, <1>t DEF ReadTarget, At
    <2>3. PICK o : ReadCached(c, object[c].target, o) /\ before' = [before EXCEPT ![c] = o]
      BY <2>1 DEF ReadTarget
    <2>4. o \in Object \cup {None} /\ fresh' \subseteq Controllers \X (Targets \cup {"binding"})
      BY <2>2, <2>3, <1>p, ReadCachedType
    <2> QED BY <2>1, <2>3, <2>4, <1>p DEF ReadTarget, Goto, Steps, clusterVars, cacheVars,
                                          ClusterTypeOK, ReadTypeOK, RestTypeOK
  <1>11. CASE \E c \in Controllers : Fetch(c)
    BY <1>11, <1>p DEF Fetch, Goto, Steps, clusterVars, cacheVars,
                       ClusterTypeOK, ReadTypeOK, RestTypeOK
  <1>12. CASE \E c \in Controllers : Recheck(c)
    <2>1. PICK c \in Controllers : Recheck(c)
      BY <1>12
    <2>2. CASE Return(c) /\ Forget(c)
      BY <2>1, <2>2, <1>p, ReturnType DEF Recheck, Forget, clusterVars, cacheVars,
                                          ClusterTypeOK, RestTypeOK
    <2>3. CASE Goto(c, "write") /\ UNCHANGED <<readVars, fresh>>
      BY <2>1, <2>3, <1>p DEF Recheck, Goto, Steps, readVars, clusterVars, cacheVars,
                              ClusterTypeOK, ReadTypeOK, RestTypeOK
    <2> QED BY <2>1, <2>2, <2>3 DEF Recheck
  <1>13. CASE \E c \in Controllers : WriteTarget(c)
    <2>1. PICK c \in Controllers : WriteTarget(c)
      BY <1>13
    <2>2. object[c] \in Binding /\ fetched[c] \in Nat
      BY <2>1, <1>b, <1>p DEF WriteTarget, At, ReadTypeOK
    <2>3. /\ target' \in [Targets -> Object \cup {None}]
          /\ cached' \in [Targets -> Object \cup {None}]
          /\ lagging' \subseteq Targets
          /\ fresh' \subseteq Controllers \X (Targets \cup {"binding"})
          /\ delivered' \subseteq Delivery
      <3>1. CASE UNCHANGED <<target, cacheVars, fresh, delivered>>
        BY <3>1, <1>p DEF cacheVars, ClusterTypeOK, RestTypeOK
      <3>2. CASE Put(object[c].target, Wanted(c)) /\ delivered' = delivered \cup {Delivering(c)}
        <4>1. /\ Wanted(c) \in Object \cup {None}
              /\ object[c].target \in Targets
              /\ Delivering(c) \in Delivery
          BY <2>2, WantedType
        <4>2. delivered' \subseteq Delivery
          BY <3>2, <4>1, <1>p DEF RestTypeOK
        <4> QED BY <3>2, <4>1, <4>2, <1>p, PutType DEF RestTypeOK
      <3> QED BY <2>1, <3>1, <3>2 DEF WriteTarget
    <2>4. pc' \in [Controllers -> Steps] /\ before' \in [Controllers -> Object \cup {None}]
      BY <2>1, <1>p DEF WriteTarget, Goto, Steps, ReadTypeOK, RestTypeOK
    <2> QED BY <2>1, <2>3, <2>4, <1>p DEF WriteTarget, ClusterTypeOK, ReadTypeOK, RestTypeOK
  <1>m. \A c \in Controllers : pc[c] \in {"cleanup", "delete"} => object[c].last \in Targets
    BY <1>b, <1>t DEF Moving, Moved
  <1>14. CASE \E c \in Controllers : FindPrevious(c)
    <2>1. PICK c \in Controllers : FindPrevious(c)
      BY <1>14
    <2>2. object[c].last \in Targets
      BY <2>1, <1>m DEF FindPrevious, At
    <2>3. PICK o : ReadCached(c, object[c].last, o)
      BY <2>1 DEF FindPrevious
    <2>4. fresh' \subseteq Controllers \X (Targets \cup {"binding"})
      BY <2>2, <2>3, <1>p, ReadCachedType
    <2>5. pc' \in [Controllers -> Steps]
      BY <2>1, <1>p DEF FindPrevious, Goto, Steps, RestTypeOK
    <2> QED BY <2>1, <2>4, <2>5, <1>p DEF FindPrevious, readVars, clusterVars, cacheVars,
                                          ClusterTypeOK, ReadTypeOK, RestTypeOK
  <1>15. CASE \E c \in Controllers : DeletePrevious(c)
    <2>1. PICK c \in Controllers : DeletePrevious(c)
      BY <1>15
    <2>2. object[c].last \in Targets
      BY <2>1, <1>m DEF DeletePrevious, At
    <2>3. /\ target' \in [Targets -> Object \cup {None}]
          /\ cached' \in [Targets -> Object \cup {None}]
          /\ lagging' \subseteq Targets
          /\ fresh' \subseteq Controllers \X (Targets \cup {"binding"})
      <3>1. CASE UNCHANGED <<target, cacheVars, fresh>>
        BY <3>1, <1>p DEF cacheVars, ClusterTypeOK, RestTypeOK
      <3>2. CASE Put(object[c].last, None)
        BY <3>2, <2>2, <1>p, PutType DEF RestTypeOK
      <3> QED BY <2>1, <3>1, <3>2 DEF DeletePrevious
    <2>4. pc' \in [Controllers -> Steps]
      BY <2>1, <1>p DEF DeletePrevious, Goto, Steps, RestTypeOK
    <2> QED BY <2>1, <2>3, <2>4, <1>p DEF DeletePrevious, readVars,
                                          ClusterTypeOK, ReadTypeOK, RestTypeOK
  <1>16. CASE \E c \in Controllers : SetStatus(c)
    <2>1. PICK c \in Controllers : SetStatus(c)
      BY <1>16
    <2>2. object[c] \in Binding /\ fetched[c] \in Nat
      BY <2>1, <1>b, <1>p DEF SetStatus, ReadTypeOK
    <2>3. Status(c) \in Binding
      BY <2>2, StatusType
    <2>4. ReadTypeOK' /\ pc' \in [Controllers -> Steps]
      BY <2>1, <1>p, ReturnType DEF SetStatus
    <2>5. binding' \in Binding \cup {None} /\ fresh' \subseteq fresh
      BY <2>1, <2>3, <1>p DEF SetStatus, Forget, ClusterTypeOK
    <2> QED BY <2>1, <2>4, <2>5, <1>p DEF SetStatus, cacheVars, ClusterTypeOK, RestTypeOK
  <1>17. CASE \E c \in Controllers : CallFails(c)
    BY <1>17, <1>p DEF CallFails, Change, Goto, Steps, readVars, clusterVars, cacheVars,
                       ClusterTypeOK, ReadTypeOK, RestTypeOK
  <1>18. CASE \E c \in Controllers : Stop(c)
    <2>1. PICK c \in Controllers : Stop(c)
      BY <1>18
    <2>2. ReadTypeOK' /\ pc' \in [Controllers -> Steps]
      BY <2>1, <1>p, ReturnType DEF Stop
    <2> QED BY <2>1, <2>2, <1>p DEF Stop, Change, Forget, clusterVars, cacheVars,
                                    ClusterTypeOK, RestTypeOK
  <1>19. CASE UNCHANGED vars
    BY <1>19, <1>p DEF vars, clusterVars, cacheVars, readVars,
                       ClusterTypeOK, ReadTypeOK, RestTypeOK
  <1> QED BY <1>1, <1>2, <1>3, <1>4, <1>5, <1>6, <1>7, <1>8, <1>9, <1>10, <1>11, <1>12, <1>13,
             <1>14, <1>15, <1>16, <1>17, <1>18, <1>19, NextCases

-----------------------------------------------------------------------------
(* How the cluster grows.                                                  *)

Growth ==
    /\ created <= created'
    /\ upstream <= upstream'
    /\ delivered \subseteq delivered'
    /\ binding' # None =>
          \/ /\ binding # None
             /\ binding'.uid = binding.uid
             /\ binding.generation <= binding'.generation
          \/ binding'.uid = created' /\ created' = created + 1

LEMMA SetStatusKeeps ==
  ASSUME TypeOK, Busy, NEW c \in Controllers, FreshBinding(c), SetStatus(c), binding' # binding
  PROVE  /\ binding # None
         /\ object[c] = binding
         /\ binding' = Status(c)
         /\ binding' \in Binding
         /\ binding'.uid = binding.uid
         /\ binding'.generation = binding.generation
  <1>1. object[c] \in Binding /\ fetched[c] \in Nat
    BY DEF SetStatus, Busy, TypeOK
  <1>2. binding # None /\ object[c] = binding /\ binding' = Status(c)
    BY DEF SetStatus, Accepted, FreshBinding
  <1>3. Status(c) \in Binding
    BY <1>1, StatusType
  <1>4. Status(c).uid = object[c].uid /\ Status(c).generation = object[c].generation
    BY DEF Status
  <1> QED BY <1>2, <1>3, <1>4

LEMMA Grows ==
  ASSUME TypeOK, Busy, \A c \in Controllers : FreshBinding(c), [Next]_vars
  PROVE  Growth
  <1>t. /\ binding # None => binding \in Binding /\ binding.uid \in Nat /\ binding.generation \in Nat
        /\ created \in Nat /\ upstream \in Nat
    BY DEF TypeOK, Binding
  <1>1. CASE ChangeSpec
    <2>1. /\ binding # None
          /\ binding'.uid = binding.uid
          /\ binding'.generation = binding.generation + 1
      BY <1>1 DEF ChangeSpec, Specified
    <2> QED BY <1>1, <1>t, <2>1 DEF ChangeSpec, ControllersUnchanged, Growth
  <1>2. CASE DeleteBinding
    BY <1>2, <1>t DEF DeleteBinding, ControllersUnchanged, Growth
  <1>3. CASE CreateBinding
    <2>1. binding'.uid = created + 1
      BY <1>3 DEF CreateBinding, NewBinding
    <2> QED BY <1>3, <1>t, <2>1 DEF CreateBinding, ControllersUnchanged, Growth
  <1>4. CASE \E t \in Targets : ChangeTarget(t)
    BY <1>4, <1>t DEF ChangeTarget, ControllersUnchanged, Growth
  <1>5. CASE ChangeUpstream
    BY <1>5, <1>t DEF ChangeUpstream, ControllersUnchanged, Growth
  <1>6. CASE TakeOver
    BY <1>6, <1>t DEF TakeOver, clusterVars, Growth
  <1>7. CASE CollectGarbage
    BY <1>7, <1>t DEF CollectGarbage, Growth
  <1>8. CASE \E t \in Targets : Sync(t)
    BY <1>8, <1>t DEF Sync, Growth
  <1>9. CASE \E c \in Controllers : Start(c)
    BY <1>9, <1>t DEF Start, clusterVars, Growth
  <1>10. CASE \E c \in Controllers : ReadTarget(c)
    BY <1>10, <1>t DEF ReadTarget, clusterVars, Growth
  <1>11. CASE \E c \in Controllers : Fetch(c)
    BY <1>11, <1>t DEF Fetch, clusterVars, Growth
  <1>12. CASE \E c \in Controllers : Recheck(c)
    BY <1>12, <1>t DEF Recheck, clusterVars, Growth
  <1>13. CASE \E c \in Controllers : WriteTarget(c)
    BY <1>13, <1>t DEF WriteTarget, Growth
  <1>14. CASE \E c \in Controllers : FindPrevious(c)
    BY <1>14, <1>t DEF FindPrevious, clusterVars, Growth
  <1>15. CASE \E c \in Controllers : DeletePrevious(c)
    BY <1>15, <1>t DEF DeletePrevious, Growth
  <1>16. CASE \E c \in Controllers : SetStatus(c)
    <2>1. PICK c \in Controllers : SetStatus(c)
      BY <1>16
    <2>2. CASE binding' = binding
      BY <2>1, <2>2, <1>t DEF SetStatus, Growth
    <2>3. CASE binding' # binding
      BY <2>1, <2>3, <1>t, SetStatusKeeps DEF SetStatus, Growth
    <2> QED BY <2>2, <2>3
  <1>17. CASE \E c \in Controllers : CallFails(c)
    BY <1>17, <1>t DEF CallFails, clusterVars, Growth
  <1>18. CASE \E c \in Controllers : Stop(c)
    BY <1>18, <1>t DEF Stop, clusterVars, Growth
  <1>19. CASE UNCHANGED vars
    BY <1>19, <1>t DEF vars, clusterVars, Growth
  <1> QED BY <1>1, <1>2, <1>3, <1>4, <1>5, <1>6, <1>7, <1>8, <1>9, <1>10, <1>11, <1>12, <1>13,
             <1>14, <1>15, <1>16, <1>17, <1>18, <1>19, NextCases

(* What there was to say of an object or a read stays true.                *)
LEMMA SoundStays ==
  ASSUME TypeOK, TypeOK', BindingOK, Growth,
         NEW t \in Targets, NEW o \in Object \cup {None}, Sound(o, t)
  PROVE  Sound(o, t)'
  <1>1. SUFFICES ASSUME o # None, o # Foreign
                 PROVE  /\ o.owner # 0
                        /\ o.owner <= created'
                        /\ o.version <= upstream'
                        /\ binding' # None /\ binding'.uid = o.owner
                           => o.generation <= binding'.generation
                        /\ Content(o, t) \in delivered'
    BY DEF Sound
  <1>2. /\ o.owner # 0
        /\ o.owner <= created
        /\ o.version <= upstream
        /\ binding # None /\ binding.uid = o.owner => o.generation <= binding.generation
        /\ Content(o, t) \in delivered
    BY <1>1 DEF Sound
  <1>3. o.owner \in Nat /\ o.generation \in Nat /\ o.version \in Nat
    BY <1>1 DEF Object
  <1>4. /\ created \in Nat /\ created' \in Nat /\ upstream \in Nat /\ upstream' \in Nat
        /\ binding # None => binding.generation \in Nat
        /\ binding' # None => binding'.generation \in Nat
    BY DEF TypeOK, Binding
  <1> QED BY <1>2, <1>3, <1>4 DEF Growth

-----------------------------------------------------------------------------
(* The objects.                                                            *)

(* A write that is made is new to the target, or as it should be.          *)
LEMMA WriteCases ==
  ASSUME NEW c \in Controllers, WriteTarget(c)
  PROVE  \/ /\ Goto(c, "failure")
            /\ UNCHANGED <<target, cacheVars, fresh, delivered>>
         \/ /\ before[c] = Wanted(c)
            /\ Goto(c, IF Moved(c) THEN "cleanup" ELSE "status")
            /\ UNCHANGED <<target, cacheVars, fresh, delivered>>
         \/ /\ \/ before[c] = None /\ target[object[c].target] = None
               \/ /\ before[c] # None
                  /\ Controls(before[c], object[c].uid)
                  /\ <<c, object[c].target>> \in fresh
            /\ Goto(c, IF Moved(c) THEN "cleanup" ELSE "status")
            /\ Put(object[c].target, Wanted(c))
            /\ delivered' = delivered \cup {Delivering(c)}
  BY DEF WriteTarget, Same, Accepted

LEMMA WantedIsSound ==
  ASSUME IInv, TypeOK', Growth, NEW c \in Controllers, WriteTarget(c),
         delivered' = delivered \cup {Delivering(c)}
  PROVE  Sound(Wanted(c), object[c].target)'
  <1>1. pc[c] = "write" /\ object[c] # None
    BY DEF WriteTarget, At, IInv, ControllerOK, ObjectOK
  <1>2. object[c] \in Binding /\ fetched[c] \in Nat
    BY <1>1 DEF IInv, TypeOK
  <1>3. /\ object[c].uid # 0
        /\ object[c].uid <= created
        /\ binding # None /\ binding.uid = object[c].uid => object[c].generation <= binding.generation
        /\ fetched[c] <= upstream
    BY <1>1 DEF IInv, ControllerOK, ObjectOK, FetchedOK
  <1>4. /\ UNCHANGED <<binding, created, upstream, object, fetched>>
    BY DEF WriteTarget
  <1>5. /\ Wanted(c).owner = object[c].uid
        /\ Wanted(c).generation = object[c].generation
        /\ Wanted(c).version = fetched[c]
        /\ Content(Wanted(c), object[c].target) = Delivering(c)
    BY DEF Wanted, Content, Delivering
  <1>6. Wanted(c)' = Wanted(c) /\ Content(Wanted(c), object[c].target)' = Content(Wanted(c), object[c].target)
    BY <1>4 DEF Wanted, Content
  <1> QED BY <1>3, <1>4, <1>5, <1>6 DEF Sound

LEMMA TargetCases ==
  ASSUME TypeOK, ObjectsOK, [Next]_vars, NEW t \in Targets
  PROVE  /\ cached'[t] \in {cached[t], target[t]}
         /\ \/ target'[t] \in {target[t], None}
            \/ target'[t] = Foreign /\ (target[t] = None \/ target[t].owner # 0)
            \/ \E c \in Controllers :
                  /\ WriteTarget(c)
                  /\ t = object[c].target
                  /\ target'[t] = Wanted(c)
                  /\ delivered' = delivered \cup {Delivering(c)}
                  /\ \/ before[c] = None /\ target[t] = None
                     \/ /\ before[c] # None
                        /\ Controls(before[c], object[c].uid)
                        /\ <<c, t>> \in fresh
  <1>t. target \in [Targets -> Object \cup {None}] /\ cached \in [Targets -> Object \cup {None}]
    BY DEF TypeOK
  <1>1. CASE ChangeSpec
    BY <1>1 DEF ChangeSpec, cacheVars
  <1>2. CASE DeleteBinding
    BY <1>2 DEF DeleteBinding, cacheVars
  <1>3. CASE CreateBinding
    BY <1>3 DEF CreateBinding, cacheVars
  <1>4. CASE \E u \in Targets : ChangeTarget(u)
    <2>1. PICK u \in Targets, o \in {None, Foreign} : o # target[u] /\ Put(u, o)
      BY <1>4 DEF ChangeTarget
    <2>2. target[u] = Foreign \/ target[u] = None \/ target[u].owner # 0
      BY DEF ObjectsOK, Sound
    <2> QED BY <2>1, <2>2, <1>t DEF Put
  <1>5. CASE ChangeUpstream
    BY <1>5 DEF ChangeUpstream, cacheVars
  <1>6. CASE TakeOver
    BY <1>6 DEF TakeOver, clusterVars, cacheVars
  <1>7. CASE CollectGarbage
    BY <1>7, <1>t DEF CollectGarbage, Put
  <1>8. CASE \E u \in Targets : Sync(u)
    BY <1>8, <1>t DEF Sync
  <1>9. CASE \E c \in Controllers : Start(c)
    BY <1>9 DEF Start, clusterVars, cacheVars
  <1>10. CASE \E c \in Controllers : ReadTarget(c)
    BY <1>10 DEF ReadTarget, clusterVars, cacheVars
  <1>11. CASE \E c \in Controllers : Fetch(c)
    BY <1>11 DEF Fetch, clusterVars, cacheVars
  <1>12. CASE \E c \in Controllers : Recheck(c)
    BY <1>12 DEF Recheck, clusterVars, cacheVars
  <1>13. CASE \E c \in Controllers : WriteTarget(c)
    <2>1. PICK c \in Controllers : WriteTarget(c)
      BY <1>13
    <2>2. CASE UNCHANGED <<target, cacheVars, fresh, delivered>>
      BY <2>2 DEF cacheVars
    <2>3. CASE /\ \/ before[c] = None /\ target[object[c].target] = None
                  \/ /\ before[c] # None
                     /\ Controls(before[c], object[c].uid)
                     /\ <<c, object[c].target>> \in fresh
               /\ Put(object[c].target, Wanted(c))
               /\ delivered' = delivered \cup {Delivering(c)}
      <3>1. CASE t = object[c].target
        BY <2>1, <2>3, <3>1, <1>t DEF Put
      <3>2. CASE t # object[c].target
        BY <2>3, <3>2, <1>t DEF Put
      <3> QED BY <3>1, <3>2
    <2> QED BY <2>1, <2>2, <2>3, WriteCases
  <1>14. CASE \E c \in Controllers : FindPrevious(c)
    BY <1>14 DEF FindPrevious, clusterVars, cacheVars
  <1>15. CASE \E c \in Controllers : DeletePrevious(c)
    BY <1>15, <1>t DEF DeletePrevious, cacheVars, Put
  <1>16. CASE \E c \in Controllers : SetStatus(c)
    BY <1>16 DEF SetStatus, cacheVars
  <1>17. CASE \E c \in Controllers : CallFails(c)
    BY <1>17 DEF CallFails, clusterVars, cacheVars
  <1>18. CASE \E c \in Controllers : Stop(c)
    BY <1>18 DEF Stop, clusterVars, cacheVars
  <1>19. CASE UNCHANGED vars
    BY <1>19 DEF vars, clusterVars, cacheVars
  <1> QED BY <1>1, <1>2, <1>3, <1>4, <1>5, <1>6, <1>7, <1>8, <1>9, <1>10, <1>11, <1>12, <1>13,
             <1>14, <1>15, <1>16, <1>17, <1>18, <1>19, NextCases

(* An object is a user's, or of an owner that is a binding.                *)
LEMMA ObjectsStep ==
  ASSUME IInv, TypeOK', Busy, Moving, Growth, [Next]_vars
  PROVE  ObjectsOK'
  <1>t. TypeOK /\ BindingOK /\ ObjectsOK
    BY DEF IInv
  <1>1. SUFFICES ASSUME NEW t \in Targets
                 PROVE  Sound(target[t], t)' /\ Sound(cached[t], t)'
    BY DEF ObjectsOK
  <1>2. target[t] \in Object \cup {None} /\ cached[t] \in Object \cup {None}
    BY <1>t DEF TypeOK
  <1>3. \A o \in {target[t], cached[t]} : Sound(o, t)
    BY <1>t DEF ObjectsOK
  <1>4. ASSUME NEW o \in {target[t], cached[t]} PROVE Sound(o, t)'
    BY <1>t, <1>2, <1>3, SoundStays
  <1>5. Sound(None, t)' /\ Sound(Foreign, t)'
    BY DEF Sound
  <1>6. Sound(cached[t], t)'
    BY <1>t, <1>4, TargetCases DEF Sound, Content
  <1>7. Sound(target[t], t)'
    <2>1. CASE target'[t] = target[t]
      BY <1>4, <2>1 DEF Sound, Content
    <2>2. CASE target'[t] \in {None, Foreign}
      BY <2>2 DEF Sound
    <2>3. ASSUME NEW c \in Controllers, WriteTarget(c), t = object[c].target,
                 target'[t] = Wanted(c), delivered' = delivered \cup {Delivering(c)}
          PROVE  Sound(target[t], t)'
      <3>1. Sound(Wanted(c), object[c].target)'
        BY <2>3, WantedIsSound
      <3>2. object' = object /\ fetched' = fetched
        BY <2>3 DEF WriteTarget
      <3> QED BY <2>3, <3>1, <3>2 DEF Sound, Content, Wanted
    <2> QED BY <1>t, <2>1, <2>2, <2>3, TargetCases
  <1> QED BY <1>6, <1>7

-----------------------------------------------------------------------------
(* The controllers.                                                        *)

(* Nothing c remembers changes, and what it has read freshly stays so.     *)
Undisturbed(c) ==
    /\ pc'[c] = pc[c]
    /\ object'[c] = object[c]
    /\ before'[c] = before[c]
    /\ fetched'[c] = fetched[c]
    /\ <<c, "binding">> \in fresh' => <<c, "binding">> \in fresh /\ binding' = binding
    /\ \A t \in Targets : <<c, t>> \in fresh' => <<c, t>> \in fresh /\ target'[t] = target[t]

LEMMA BeforeStays ==
  ASSUME IInv, TypeOK', Growth, NEW c \in Controllers,
         object'[c] = object[c], before'[c] = before[c]
  PROVE  BeforeOK(c)'
  <1>1. SUFFICES ASSUME before[c] # None
                 PROVE  object[c] # None /\ Sound(before[c], object[c].target)'
    BY DEF BeforeOK
  <1>2. object[c] # None /\ Sound(before[c], object[c].target)
    BY <1>1 DEF IInv, ControllerOK, BeforeOK
  <1>3. object[c].target \in Targets /\ before[c] \in Object \cup {None}
    BY <1>2 DEF IInv, TypeOK, Binding
  <1>4. ASSUME NEW t \in Targets, NEW o \in Object \cup {None}, Sound(o, t)
        PROVE  Sound(o, t)'
    BY <1>4, SoundStays DEF IInv
  <1> QED BY <1>2, <1>3, <1>4 DEF Sound, Content

LEMMA Bystander ==
  ASSUME IInv, TypeOK', Growth, NEW c \in Controllers, Undisturbed(c)
  PROVE  ControllerOK(c)'
  <1>c. ControllerOK(c)
    BY DEF IInv
  <1>t. /\ created \in Nat /\ created' \in Nat /\ upstream \in Nat /\ upstream' \in Nat
        /\ fetched[c] \in Nat
        /\ binding # None => binding \in Binding
        /\ binding' # None => binding' \in Binding
        /\ object[c] # None => object[c] \in Binding
        /\ before[c] # None => before[c] \in Object
    BY DEF IInv, TypeOK
  <1>n. /\ \A b \in Binding : b.uid \in Nat /\ b.generation \in Nat
        /\ \A o \in Object : o.version \in Nat
    BY DEF Binding, Object
  <1>1. ObjectOK(c)'
    BY <1>c, <1>t, <1>n DEF ControllerOK, ObjectOK, Undisturbed, Growth, IInv, BindingOK
  <1>2. FreshBinding(c)'
    BY <1>c DEF ControllerOK, FreshBinding, Undisturbed
  <1>3. FreshTarget(c)'
    BY <1>c DEF ControllerOK, FreshTarget, Undisturbed, Controls
  <1>4. BeforeOK(c)'
    BY BeforeStays DEF Undisturbed
  <1>5. FetchedOK(c)'
    BY <1>c, <1>t, <1>n DEF ControllerOK, FetchedOK, Undisturbed, Growth
  <1>6. RecheckedOK(c)'
    BY <1>c DEF ControllerOK, RecheckedOK, Undisturbed
  <1>7. DeliveredOK(c)'
    BY <1>c DEF ControllerOK, DeliveredOK, Undisturbed, Growth, Delivering, Moved
  <1> QED BY <1>1, <1>2, <1>3, <1>4, <1>5, <1>6, <1>7 DEF ControllerOK

LEMMA PutKeeps ==
  ASSUME TypeOK, NEW t \in Targets, NEW o, Put(t, o), NEW c \in Controllers
  PROVE  /\ fresh' \subseteq fresh
         /\ \A u \in Targets : <<c, u>> \in fresh' => u # t /\ target'[u] = target[u]
  BY DEF TypeOK, Put, Touched

(* A step of the cluster.                                                  *)
LEMMA ClusterDisturbsNone ==
  ASSUME IInv, NEW c \in Controllers,
         \/ ChangeSpec
         \/ DeleteBinding
         \/ CreateBinding
         \/ \E t \in Targets : ChangeTarget(t)
         \/ ChangeUpstream
         \/ TakeOver
         \/ CollectGarbage
         \/ \E t \in Targets : Sync(t)
         \/ UNCHANGED vars
  PROVE  Undisturbed(c)
  <1>t. TypeOK
    BY DEF IInv
  <1>1. CASE ChangeSpec
    BY <1>1 DEF ChangeSpec, Touched, ControllersUnchanged, readVars, Undisturbed
  <1>2. CASE DeleteBinding
    BY <1>2 DEF DeleteBinding, Touched, ControllersUnchanged, readVars, Undisturbed
  <1>3. CASE CreateBinding
    BY <1>3 DEF CreateBinding, ControllersUnchanged, readVars, Undisturbed,
                IInv, ControllerOK, FreshBinding
  <1>4. CASE \E t \in Targets : ChangeTarget(t)
    <2>1. PICK t \in Targets, o \in {None, Foreign} : Put(t, o)
      BY <1>4 DEF ChangeTarget
    <2> QED BY <1>4, <1>t, <2>1, PutKeeps DEF ChangeTarget, ControllersUnchanged, readVars, Undisturbed
  <1>5. CASE ChangeUpstream
    BY <1>5 DEF ChangeUpstream, ControllersUnchanged, readVars, Undisturbed
  <1>6. CASE TakeOver
    BY <1>6 DEF TakeOver, clusterVars, readVars, Undisturbed
  <1>7. CASE CollectGarbage
    <2>1. PICK t \in Targets : Put(t, None)
      BY <1>7 DEF CollectGarbage
    <2> QED BY <1>7, <1>t, <2>1, PutKeeps DEF CollectGarbage, readVars, Undisturbed
  <1>8. CASE \E t \in Targets : Sync(t)
    BY <1>8 DEF Sync, readVars, Undisturbed
  <1>9. CASE UNCHANGED vars
    BY <1>9 DEF vars, clusterVars, readVars, Undisturbed
  <1> QED BY <1>1, <1>2, <1>3, <1>4, <1>5, <1>6, <1>7, <1>8, <1>9

(* A step of another controller.                                           *)
LEMMA OthersDisturbNone ==
  ASSUME IInv, NEW c \in Controllers, NEW d \in Controllers, d # c,
         Step(d) \/ CallFails(d) \/ Stop(d)
  PROVE  Undisturbed(c)
  <1>t. TypeOK
    BY DEF IInv
  <1>f. /\ pc \in [Controllers -> Steps]
        /\ object \in [Controllers -> Binding \cup {None}]
        /\ before \in [Controllers -> Object \cup {None}]
        /\ fetched \in [Controllers -> Nat]
        /\ \A e \in Controllers : object[e] # None => object[e].target \in Targets
        /\ \A e \in Controllers : pc[e] # "idle" => object[e] # None
        /\ \A e \in Controllers : pc[e] = "delete" => object[e].last \in Targets
    BY DEF IInv, TypeOK, Binding, ControllerOK, ObjectOK, DeliveredOK, Moved
  <1>1. CASE Start(d)
    BY <1>1, <1>f DEF Start, Reading, Goto, clusterVars, Undisturbed
  <1>2. CASE ReadTarget(d)
    BY <1>2, <1>f DEF ReadTarget, ReadCached, Reading, Goto, clusterVars, Undisturbed
  <1>3. CASE Fetch(d)
    BY <1>3, <1>f DEF Fetch, Goto, clusterVars, Undisturbed
  <1>4. CASE Recheck(d)
    BY <1>4, <1>f DEF Recheck, Return, Forget, Goto, readVars, clusterVars, Undisturbed
  <1>5. CASE WriteTarget(d)
    <2>1. object[d].target \in Targets
      BY <1>5, <1>f DEF WriteTarget, At
    <2>2. CASE UNCHANGED <<target, cacheVars, fresh, delivered>>
      BY <1>5, <2>2, <1>f DEF WriteTarget, Goto, Undisturbed
    <2>3. CASE Put(object[d].target, Wanted(d))
      <3>1. /\ fresh' \subseteq fresh
            /\ \A u \in Targets : <<c, u>> \in fresh' => target'[u] = target[u]
        BY <2>1, <2>3, <1>t, PutKeeps
      <3> QED BY <1>5, <3>1, <1>f DEF WriteTarget, Goto, Undisturbed
    <2> QED BY <1>5, <2>2, <2>3, WriteCases
  <1>6. CASE FindPrevious(d)
    BY <1>6, <1>f DEF FindPrevious, ReadCached, Reading, Goto, readVars, clusterVars, Undisturbed
  <1>7. CASE DeletePrevious(d)
    <2>1. object[d].last \in Targets
      BY <1>7, <1>f DEF DeletePrevious, At
    <2>2. CASE UNCHANGED <<target, cacheVars, fresh>>
      BY <1>7, <2>2, <1>f DEF DeletePrevious, Goto, readVars, Undisturbed
    <2>3. CASE Put(object[d].last, None)
      <3>1. /\ fresh' \subseteq fresh
            /\ \A u \in Targets : <<c, u>> \in fresh' => target'[u] = target[u]
        BY <2>1, <2>3, <1>t, PutKeeps
      <3> QED BY <1>7, <3>1, <1>f DEF DeletePrevious, Goto, readVars, Undisturbed
    <2> QED BY <1>7, <2>2, <2>3 DEF DeletePrevious
  <1>8. CASE SetStatus(d)
    BY <1>8, <1>f DEF SetStatus, Return, Forget, Goto, Undisturbed
  <1>9. CASE CallFails(d)
    BY <1>9, <1>f DEF CallFails, Goto, readVars, clusterVars, Undisturbed
  <1>10. CASE Stop(d)
    BY <1>10, <1>f DEF Stop, Return, Forget, Goto, clusterVars, Undisturbed
  <1> QED BY <1>1, <1>2, <1>3, <1>4, <1>5, <1>6, <1>7, <1>8, <1>9, <1>10 DEF Step

(* A step of its own.                                                      *)

LEMMA ReturnOK ==
  ASSUME TypeOK, NEW c \in Controllers, Return(c),
         \A x \in Targets \cup {"binding"} : <<c, x>> \notin fresh'
  PROVE  ControllerOK(c)'
  <1>1. pc'[c] = "idle" /\ object'[c] = None /\ before'[c] = None
    BY DEF TypeOK, Return, Goto
  <1> QED BY <1>1 DEF ControllerOK, ObjectOK, FreshBinding, FreshTarget, BeforeOK, FetchedOK,
                      RecheckedOK, DeliveredOK

LEMMA StartOK ==
  ASSUME IInv, NEW c \in Controllers, Start(c)
  PROVE  ControllerOK(c)'
  <1>1. /\ pc[c] = "idle" /\ pc'[c] \in {"target", "failure"}
        /\ binding \in Binding /\ binding # None /\ object'[c] = binding
        /\ UNCHANGED <<binding, created, target, before>>
        /\ fresh' = fresh \cup {<<c, "binding">>}
    BY DEF IInv, TypeOK, Start, At, Reading, Goto, clusterVars
  <1>2. /\ \A t \in Targets : <<c, t>> \notin fresh
        /\ binding.uid = created /\ created # 0 /\ created \in Nat /\ binding.generation \in Nat
    BY <1>1 DEF IInv, TypeOK, Binding, BindingOK, ControllerOK, FreshTarget
  <1>3. before[c] = None
    BY <1>1 DEF IInv, ControllerOK, ObjectOK, BeforeOK
  <1> QED BY <1>1, <1>2, <1>3 DEF ControllerOK, ObjectOK, FreshBinding, FreshTarget, BeforeOK,
                                  FetchedOK, RecheckedOK, DeliveredOK

LEMMA ReadTargetOK ==
  ASSUME IInv, TypeOK', Growth, NEW c \in Controllers, ReadTarget(c)
  PROVE  ControllerOK(c)'
  <1> DEFINE t == object[c].target
  <1>1. /\ pc[c] = "target" /\ pc'[c] = "fetch"
        /\ UNCHANGED <<binding, created, target, cached, upstream, object, fetched, delivered>>
    BY DEF IInv, TypeOK, ReadTarget, At, Goto, clusterVars, cacheVars
  <1>2. /\ object[c] # None
        /\ object[c] \in Binding
        /\ t \in Targets
        /\ \A u \in Targets : <<c, u>> \notin fresh
        /\ ObjectOK(c) /\ FreshBinding(c)
    BY <1>1 DEF IInv, TypeOK, Binding, ControllerOK, ObjectOK, FreshTarget
  <1>3. PICK o \in {target[t], cached[t]} : ReadCached(c, t, o) /\ before' = [before EXCEPT ![c] = o]
    BY DEF ReadTarget
  <1>4. before'[c] = o
    BY <1>3 DEF IInv, TypeOK
  <1>5. Sound(o, t)
    BY <1>2, <1>3 DEF IInv, ObjectsOK
  <1>6. \/ o = target[t] /\ fresh' = fresh \cup {<<c, t>>}
        \/ fresh' = fresh
    BY <1>3 DEF ReadCached, Reading
  <1>7. t # "binding"
    BY <1>2
  <1>8. ObjectOK(c)' /\ FreshBinding(c)'
    BY <1>1, <1>2, <1>6, <1>7 DEF ObjectOK, FreshBinding
  <1>9. FreshTarget(c)'
    BY <1>1, <1>2, <1>4, <1>6 DEF FreshTarget
  <1>10. BeforeOK(c)'
    BY <1>1, <1>2, <1>4, <1>5 DEF BeforeOK, Sound, Content
  <1> QED BY <1>1, <1>8, <1>9, <1>10 DEF ControllerOK, FetchedOK, RecheckedOK, DeliveredOK

LEMMA FetchOK ==
  ASSUME IInv, TypeOK', Growth, NEW c \in Controllers, Fetch(c)
  PROVE  ControllerOK(c)'
  <1>1. /\ pc[c] = "fetch" /\ pc'[c] = "recheck" /\ fetched'[c] = upstream
        /\ UNCHANGED <<binding, created, target, upstream, object, before, fresh, delivered>>
    BY DEF IInv, TypeOK, Fetch, At, Goto, clusterVars
  <1>c. ControllerOK(c) /\ upstream \in Nat
    BY DEF IInv, TypeOK
  <1>2. before[c] # None => before[c].version <= upstream
    BY <1>c DEF ControllerOK, BeforeOK, Sound, Foreign
  <1>3. ObjectOK(c)' /\ FreshBinding(c)' /\ FreshTarget(c)'
    BY <1>1, <1>c DEF ControllerOK, ObjectOK, FreshBinding, FreshTarget
  <1>4. BeforeOK(c)'
    BY <1>1, BeforeStays
  <1>5. FetchedOK(c)'
    BY <1>1, <1>2, <1>c DEF FetchedOK
  <1> QED BY <1>1, <1>3, <1>4, <1>5 DEF ControllerOK, RecheckedOK, DeliveredOK

(* The target was read when the binding was of no later generation than it *)
(* is now, and now it is of the one that was read.                         *)
LEMMA RecheckOK ==
  ASSUME IInv, TypeOK', Growth, NEW c \in Controllers, Recheck(c)
  PROVE  ControllerOK(c)'
  <1>t. TypeOK /\ ControllerOK(c)
    BY DEF IInv
  <1>1. CASE Return(c) /\ Forget(c)
    BY <1>1, <1>t, ReturnOK DEF Forget
  <1>2. CASE ~Superseded(c) /\ Goto(c, "write") /\ UNCHANGED <<readVars, fresh>>
    <2>1. /\ pc[c] = "recheck" /\ pc'[c] = "write"
          /\ UNCHANGED <<binding, created, target, upstream, object, before, fetched, fresh, delivered>>
      BY <1>2, <1>t DEF TypeOK, Recheck, At, Goto, readVars, clusterVars
    <2>2. /\ object[c] # None
          /\ object[c].uid # 0
          /\ binding # None
          /\ binding.uid = object[c].uid
          /\ binding.generation = object[c].generation
      BY <1>2, <1>t, <2>1 DEF Superseded, ControllerOK, ObjectOK
    <2>3. before[c] # None /\ before[c].owner = object[c].uid
          => before[c].generation <= object[c].generation
      BY <1>t, <2>2 DEF ControllerOK, BeforeOK, Sound, Foreign
    <2>4. ObjectOK(c)' /\ FreshBinding(c)' /\ FreshTarget(c)'
      BY <2>1, <1>t DEF ControllerOK, ObjectOK, FreshBinding, FreshTarget
    <2>5. BeforeOK(c)'
      BY <2>1, BeforeStays
    <2>6. FetchedOK(c)' /\ RecheckedOK(c)'
      BY <2>1, <2>3, <1>t DEF ControllerOK, FetchedOK, RecheckedOK
    <2> QED BY <2>1, <2>4, <2>5, <2>6 DEF ControllerOK, DeliveredOK
  <1> QED BY <1>1, <1>2 DEF Recheck

LEMMA WriteTargetOK ==
  ASSUME IInv, TypeOK', Growth, NEW c \in Controllers, WriteTarget(c)
  PROVE  ControllerOK(c)'
  <1> DEFINE t == object[c].target
  <1>t. TypeOK /\ ControllerOK(c)
    BY DEF IInv
  <1>1. /\ pc[c] = "write" /\ pc'[c] \in {"failure", "cleanup", "status"}
        /\ before'[c] = None
        /\ UNCHANGED <<binding, created, upstream, object, fetched>>
    BY <1>t DEF TypeOK, WriteTarget, At, Goto
  <1>2. /\ object[c] # None /\ object[c] \in Binding /\ t \in Targets
        /\ object[c].uid # 0
        /\ \A u \in Targets : <<c, u>> \in fresh => u = t
    BY <1>1, <1>t DEF TypeOK, Binding, ControllerOK, ObjectOK, FreshTarget
  <1>3. fresh' \subseteq fresh
    <2>1. CASE Put(t, Wanted(c))
      BY <2>1, <1>t, <1>2, PutKeeps
    <2> QED BY <2>1, WriteCases
  <1>4. ObjectOK(c)' /\ FreshBinding(c)'
    BY <1>1, <1>2, <1>3, <1>t DEF ControllerOK, ObjectOK, FreshBinding
  <1>5. FreshTarget(c)'
    BY <1>1, <1>2, <1>3 DEF FreshTarget
  <1>6. ASSUME before[c] = Wanted(c) PROVE Delivering(c) \in delivered
    <2>1. /\ Wanted(c).owner = object[c].uid
          /\ Content(Wanted(c), t) = Delivering(c)
      BY DEF Wanted, Content, Delivering
    <2>2. Wanted(c) # Foreign /\ Wanted(c) # None
      BY <1>2, <1>t, <2>1, WantedType, RecordTypes DEF Foreign, TypeOK
    <2> QED BY <1>6, <1>t, <2>1, <2>2 DEF ControllerOK, BeforeOK, Sound
  <1>7. DeliveredOK(c)'
    <2>1. pc'[c] = "failure" \/ Delivering(c) \in delivered'
      <3>1. CASE Goto(c, "failure")
        BY <3>1, <1>t DEF TypeOK, Goto
      <3>2. CASE before[c] = Wanted(c) /\ UNCHANGED <<target, cacheVars, fresh, delivered>>
        BY <3>2, <1>6
      <3>3. CASE delivered' = delivered \cup {Delivering(c)}
        BY <3>3
      <3> QED BY <3>1, <3>2, <3>3, WriteCases
    <2>2. pc'[c] = "cleanup" => Moved(c)
      BY ZenonT(60), <1>t, WriteCases DEF TypeOK, Goto
    <2> QED BY <1>1, <2>1, <2>2 DEF DeliveredOK, Delivering, Moved
  <1> QED BY <1>1, <1>4, <1>5, <1>7 DEF ControllerOK, BeforeOK, FetchedOK, RecheckedOK

LEMMA FindPreviousOK ==
  ASSUME IInv, TypeOK', Growth, NEW c \in Controllers, FindPrevious(c)
  PROVE  ControllerOK(c)'
  <1> DEFINE t == object[c].last
  <1>t. TypeOK /\ ControllerOK(c)
    BY DEF IInv
  <1>1. PICK o \in {target[t], cached[t]} :
              ReadCached(c, t, o) /\ Goto(c, IF Controls(o, object[c].uid) THEN "delete" ELSE "status")
    BY DEF FindPrevious
  <1>2. /\ pc[c] = "cleanup" /\ pc'[c] \in {"delete", "status"}
        /\ pc'[c] = "delete" => Controls(o, object[c].uid)
        /\ UNCHANGED <<binding, created, target, upstream, object, before, fetched, delivered>>
    BY <1>1, <1>t DEF TypeOK, FindPrevious, At, Goto, clusterVars, readVars
  <1>3. /\ object[c] # None /\ object[c] \in Binding
        /\ Moved(c) /\ Delivering(c) \in delivered
        /\ t \in Targets /\ t # object[c].target
        /\ \A u \in Targets : <<c, u>> \in fresh => u = object[c].target
    BY <1>2, <1>t DEF TypeOK, Binding, ControllerOK, ObjectOK, FreshTarget, DeliveredOK, Moved
  <1>4. \/ o = target[t] /\ fresh' = fresh \cup {<<c, t>>}
        \/ fresh' = fresh
    BY <1>1 DEF ReadCached, Reading
  <1>5. ObjectOK(c)' /\ FreshBinding(c)'
    BY <1>2, <1>3, <1>4, <1>t DEF ControllerOK, ObjectOK, FreshBinding
  <1>6. FreshTarget(c)'
    BY <1>2, <1>3, <1>4 DEF FreshTarget, Controls
  <1>7. BeforeOK(c)'
    BY <1>2, BeforeStays
  <1>8. DeliveredOK(c)'
    BY <1>2, <1>3 DEF DeliveredOK, Delivering, Moved
  <1> QED BY <1>2, <1>5, <1>6, <1>7, <1>8 DEF ControllerOK, FetchedOK, RecheckedOK

LEMMA DeletePreviousOK ==
  ASSUME IInv, TypeOK', Growth, NEW c \in Controllers, DeletePrevious(c)
  PROVE  ControllerOK(c)'
  <1>t. TypeOK /\ ControllerOK(c)
    BY DEF IInv
  <1>1. /\ pc[c] = "delete" /\ pc'[c] \in {"failure", "status"}
        /\ UNCHANGED <<binding, created, upstream, object, before, fetched, delivered>>
    BY <1>t DEF TypeOK, DeletePrevious, At, Goto, readVars
  <1>2. /\ object[c] # None /\ object[c] \in Binding /\ object[c].last \in Targets
        /\ Delivering(c) \in delivered
        /\ \A u \in Targets : <<c, u>> \in fresh => u = object[c].target \/ u = object[c].last
    BY <1>1, <1>t DEF TypeOK, Binding, ControllerOK, ObjectOK, FreshTarget, DeliveredOK, Moved
  <1>3. fresh' \subseteq fresh
    <2>1. CASE Put(object[c].last, None)
      BY <2>1, <1>t, <1>2, PutKeeps
    <2> QED BY <2>1 DEF DeletePrevious
  <1>4. ObjectOK(c)' /\ FreshBinding(c)' /\ FreshTarget(c)'
    BY <1>1, <1>2, <1>3, <1>t DEF ControllerOK, ObjectOK, FreshBinding, FreshTarget
  <1>5. BeforeOK(c)'
    BY <1>1, BeforeStays
  <1>6. DeliveredOK(c)'
    BY <1>1, <1>2 DEF DeliveredOK, Delivering
  <1> QED BY <1>1, <1>4, <1>5, <1>6 DEF ControllerOK, FetchedOK, RecheckedOK

LEMMA CallFailsOK ==
  ASSUME IInv, TypeOK', Growth, NEW c \in Controllers, CallFails(c)
  PROVE  ControllerOK(c)'
  <1>t. TypeOK /\ ControllerOK(c)
    BY DEF IInv
  <1>1. /\ pc[c] # "idle" /\ pc'[c] = "failure"
        /\ UNCHANGED <<binding, created, target, upstream, object, before, fetched, fresh, delivered>>
    BY <1>t DEF TypeOK, CallFails, Goto, clusterVars, readVars
  <1>2. ObjectOK(c)' /\ FreshBinding(c)'
    BY <1>1, <1>t DEF ControllerOK, ObjectOK, FreshBinding
  <1>3. FreshTarget(c)'
    BY <1>1, <1>t DEF ControllerOK, FreshTarget
  <1>4. BeforeOK(c)'
    BY <1>1, BeforeStays
  <1> QED BY <1>1, <1>2, <1>3, <1>4 DEF ControllerOK, FetchedOK, RecheckedOK, DeliveredOK

LEMMA ControllerStep ==
  ASSUME IInv, TypeOK', Growth, [Next]_vars, NEW c \in Controllers
  PROVE  ControllerOK(c)'
  <1>t. TypeOK
    BY DEF IInv
  <1>1. CASE Undisturbed(c)
    BY <1>1, Bystander
  <1>2. CASE Step(c) \/ CallFails(c) \/ Stop(c)
    <2>1. CASE SetStatus(c)
      BY <2>1, <1>t, ReturnOK DEF SetStatus, Forget
    <2>2. CASE Stop(c)
      BY <2>2, <1>t, ReturnOK DEF Stop, Forget
    <2> QED BY <1>2, <2>1, <2>2, StartOK, ReadTargetOK, FetchOK, RecheckOK, WriteTargetOK,
               FindPreviousOK, DeletePreviousOK, CallFailsOK DEF Step
  <1> QED BY <1>1, <1>2, ClusterDisturbsNone, OthersDisturbNone DEF Next

-----------------------------------------------------------------------------
(* The theorems.                                                           *)

(* Who changes the binding.                                                *)
LEMMA BindingCases ==
  ASSUME IInv, [Next]_vars
  PROVE  \/ binding' = binding /\ created' = created
         \/ binding' = None /\ created' = created
         \/ /\ binding # None /\ created' = created
            /\ \E t \in Targets, v \in BOOLEAN : binding' = Specified(t, v)
         \/ \E t \in Targets : binding' = NewBinding(created + 1, t) /\ created' = created + 1
         \/ \E c \in Controllers :
               /\ SetStatus(c)
               /\ binding # None /\ object[c] = binding
               /\ binding' = Status(c)
               /\ created' = created
  <1>t. TypeOK /\ Busy /\ \A c \in Controllers : FreshBinding(c)
    BY DEF IInv, Busy, ControllerOK, ObjectOK
  <1>1. CASE ChangeSpec
    BY <1>1 DEF ChangeSpec
  <1>2. CASE DeleteBinding
    BY <1>2 DEF DeleteBinding
  <1>3. CASE CreateBinding
    BY <1>3 DEF CreateBinding
  <1>4. CASE \/ \E t \in Targets : ChangeTarget(t) \/ Sync(t)
             \/ ChangeUpstream
             \/ TakeOver
             \/ CollectGarbage
             \/ UNCHANGED vars
    BY <1>4 DEF ChangeTarget, Sync, ChangeUpstream, TakeOver, CollectGarbage, vars, clusterVars
  <1>5. ASSUME NEW c \in Controllers, Step(c) \/ CallFails(c) \/ Stop(c)
        PROVE  \/ binding' = binding /\ created' = created
               \/ /\ SetStatus(c)
                  /\ binding # None /\ object[c] = binding
                  /\ binding' = Status(c)
                  /\ created' = created
    <2>1. CASE SetStatus(c)
      BY <2>1, <1>t, SetStatusKeeps DEF SetStatus
    <2> QED BY <1>5, <2>1 DEF Step, Start, ReadTarget, Fetch, Recheck, WriteTarget, FindPrevious,
                              DeletePrevious, CallFails, Stop, clusterVars
  <1> QED BY <1>1, <1>2, <1>3, <1>4, <1>5 DEF Next

LEMMA BindingStep ==
  ASSUME IInv, TypeOK', [Next]_vars
  PROVE  BindingOK'
  <1>1. created \in Nat /\ BindingOK /\ created + 1 # 0
    BY DEF IInv, TypeOK
  <1>2. \A t \in Targets, v \in BOOLEAN : Specified(t, v).uid = binding.uid
    BY DEF Specified
  <1>3. \A t \in Targets : NewBinding(created + 1, t).uid = created + 1
    BY DEF NewBinding
  <1>4. \A c \in Controllers : Status(c).uid = object[c].uid
    BY DEF Status
  <1> QED BY <1>1, <1>2, <1>3, <1>4, BindingCases DEF BindingOK

LEMMA ReadyStep ==
  ASSUME IInv, TypeOK', Growth, [Next]_vars
  PROVE  ReadyWasDelivered'
  <1> DEFINE Row(b) == [uid |-> b.uid, target |-> b.last, generation |-> b.observed,
                        version |-> b.version]
  <1>1. SUFFICES ASSUME binding' # None, binding'.ready
                 PROVE  Row(binding') \in delivered'
    BY DEF ReadyWasDelivered
  <1>2. ASSUME binding # None, binding.ready PROVE Row(binding) \in delivered'
    BY <1>2 DEF IInv, ReadyWasDelivered, Growth
  <1>3. CASE binding' = binding
    BY <1>1, <1>2, <1>3
  <1>4. ASSUME NEW t \in Targets, NEW v \in BOOLEAN, binding # None, binding' = Specified(t, v)
        PROVE  Row(binding') \in delivered'
    <2>1. Specified(t, v).ready <=> binding.ready
      BY DEF Specified
    <2>2. Row(Specified(t, v)) = Row(binding)
      BY DEF Specified
    <2> QED BY <1>1, <1>2, <1>4, <2>1, <2>2
  <1>5. ASSUME NEW t \in Targets, binding' = NewBinding(created + 1, t) PROVE FALSE
    BY <1>1, <1>5 DEF NewBinding
  <1>6. ASSUME NEW c \in Controllers, SetStatus(c), binding' = Status(c)
        PROVE  Row(binding') \in delivered'
    <2>1. pc[c] = "status"
      BY <1>1, <1>6 DEF Status, At
    <2>2. Row(Status(c)) = Delivering(c)
      BY <2>1 DEF Status, At, Delivering
    <2>3. Delivering(c) \in delivered
      BY <2>1 DEF IInv, ControllerOK, DeliveredOK
    <2> QED BY <1>6, <2>2, <2>3 DEF Growth
  <1> QED BY <1>1, <1>3, <1>4, <1>5, <1>6, BindingCases

LEMMA Initially == Init => IInv
  <1>1. SUFFICES ASSUME Init PROVE IInv
    OBVIOUS
  <1>2. NewBinding(1, FirstTarget) \in Binding /\ NewBinding(1, FirstTarget).uid = 1
    BY RecordTypes DEF NewBinding
  <1>3. TypeOK
    BY <1>1, <1>2 DEF Init, TypeOK, Controllers, Steps
  <1>4. ObjectsOK
    BY <1>1 DEF Init, ObjectsOK, Sound
  <1>5. BindingOK
    BY <1>1, <1>2 DEF Init, BindingOK
  <1>6. ASSUME NEW c \in Controllers PROVE ControllerOK(c)
    BY <1>1 DEF Init, ControllerOK, ObjectOK, FreshBinding, FreshTarget, BeforeOK, FetchedOK,
                RecheckedOK, DeliveredOK
  <1>7. ReadyWasDelivered
    BY <1>1 DEF Init, ReadyWasDelivered, NewBinding
  <1> QED BY <1>3, <1>4, <1>5, <1>6, <1>7 DEF IInv

LEMMA Inductive == IInv /\ [Next]_vars => IInv'
  <1>1. SUFFICES ASSUME IInv, [Next]_vars PROVE IInv'
    OBVIOUS
  <1>2. Busy /\ Moving
    BY <1>1 DEF IInv, Busy, Moving, ControllerOK, ObjectOK, DeliveredOK
  <1>3. TypeOK'
    BY <1>1, <1>2, TypeStep DEF IInv
  <1>4. Growth
    BY <1>1, <1>2, Grows DEF IInv, ControllerOK
  <1>5. ObjectsOK'
    BY <1>1, <1>2, <1>3, <1>4, ObjectsStep
  <1>6. BindingOK'
    BY <1>1, <1>3, BindingStep
  <1>7. \A c \in Controllers : ControllerOK(c)'
    BY <1>1, <1>3, <1>4, ControllerStep
  <1>8. ReadyWasDelivered'
    BY <1>1, <1>3, <1>4, ReadyStep
  <1>9. Controllers' = Controllers
    BY DEF Controllers
  <1> QED BY <1>3, <1>5, <1>6, <1>7, <1>8, <1>9 DEF IInv

LEMMA Invariance == Spec => []IInv
  BY Initially, Inductive, PTL DEF Spec

(* Every variable of the controller stays in its type, however many        *)
(* leaders follow each other.                                              *)
THEOREM TypeCorrect == Spec => []TypeOK
  <1>1. IInv => TypeOK
    BY DEF IInv
  <1> QED BY <1>1, Invariance, PTL

(* setStatus with ready = true: the status names a target and a version    *)
(* that writeTarget has put there for that generation.                     *)
THEOREM ReadyIsTrue == Spec => []ReadyWasDelivered
  <1>1. IInv => ReadyWasDelivered
    BY DEF IInv
  <1> QED BY <1>1, Invariance, PTL

(* writeTarget and cleanupPreviousTarget change an object that exists only *)
(* if the binding controls it when the API server carries the call out,    *)
(* not merely when it was read.                                            *)
THEOREM OthersAreLeft == Spec => OthersObjectsAreLeft
  <1> DEFINE Left(c, t) == target[t] # None /\ target'[t] # target[t] /\ Step(c)
                           => Controls(target[t], object[c].uid)
  <1>1. ASSUME IInv, [Next]_vars, NEW c \in Controllers, NEW t \in Targets PROVE Left(c, t)
    <2>t. TypeOK /\ ControllerOK(c)
      BY <1>1 DEF IInv
    <2>1. SUFFICES ASSUME Step(c), target[t] # None, target'[t] # target[t]
                   PROVE  Controls(target[t], object[c].uid)
      OBVIOUS
    <2>2. CASE WriteTarget(c)
      <3>1. /\ before[c] # None
            /\ Controls(before[c], object[c].uid)
            /\ <<c, object[c].target>> \in fresh
            /\ t = object[c].target
        BY <2>1, <2>2, <2>t, WriteCases DEF Put, TypeOK
      <3>2. pc[c] = "write"
        BY <2>2 DEF WriteTarget, At
      <3> QED BY <2>t, <3>1, <3>2 DEF ControllerOK, FreshTarget
    <2>3. CASE DeletePrevious(c)
      <3>1. pc[c] = "delete" /\ t = object[c].last /\ <<c, t>> \in fresh
        BY <2>1, <2>3, <2>t DEF DeletePrevious, At, Accepted, Put, TypeOK
      <3> QED BY <2>t, <3>1 DEF ControllerOK, FreshTarget
    <2> QED BY <2>1, <2>2, <2>3 DEF Step, Start, ReadTarget, Fetch, Recheck, FindPrevious,
                                    SetStatus, clusterVars
  <1> HIDE DEF Left
  <1>2. IInv /\ [Next]_vars => [\A c \in Controllers, t \in Targets : Left(c, t)]_vars
    BY <1>1
  <1>3. Spec => [][\A c \in Controllers, t \in Targets : Left(c, t)]_vars
    BY <1>2, Invariance, PTL DEF Spec
  <1> QED BY <1>3 DEF OthersObjectsAreLeft, Left

(* The pre-fetch version and the recheck together: no late answer and no   *)
(* superseded spec replaces what is newer in the target.                   *)
THEOREM ContentAdvances == Spec => NeverGoesBack
  <1> DEFINE Advances(t) ==
        /\ target[t] # None
        /\ target'[t] # None
        /\ target[t].owner = target'[t].owner
        => /\ target'[t].generation >= target[t].generation
           /\ target'[t].version >= target[t].version
  <1>1. ASSUME IInv, [Next]_vars, NEW t \in Targets PROVE Advances(t)
    <2>t. TypeOK /\ ObjectsOK /\ target \in [Targets -> Object \cup {None}]
      BY <1>1 DEF IInv, TypeOK
    <2>1. SUFFICES ASSUME target[t] # None, target'[t] # None,
                          target[t].owner = target'[t].owner
                   PROVE  /\ target'[t].generation >= target[t].generation
                          /\ target'[t].version >= target[t].version
      OBVIOUS
    <2>2. target[t].generation \in Nat /\ target[t].version \in Nat
      BY <2>t, <2>1 DEF Object
    <2>3. CASE target'[t] = target[t]
      BY <2>2, <2>3
    <2>4. CASE target'[t] = Foreign /\ (target[t] = None \/ target[t].owner # 0)
      BY <2>1, <2>4 DEF Foreign
    <2>5. ASSUME NEW c \in Controllers, WriteTarget(c), t = object[c].target,
                 target'[t] = Wanted(c), before[c] # None,
                 Controls(before[c], object[c].uid), <<c, t>> \in fresh
          PROVE  /\ target'[t].generation >= target[t].generation
                 /\ target'[t].version >= target[t].version
      <3>1. pc[c] = "write" /\ ControllerOK(c)
        BY <1>1, <2>5 DEF WriteTarget, At, IInv
      <3>2. before[c] = target[t] /\ before[c].owner = object[c].uid
        BY <2>5, <3>1 DEF ControllerOK, FreshTarget, Controls
      <3>3. /\ before[c].generation <= object[c].generation
            /\ before[c].version <= fetched[c]
        BY <2>5, <3>1, <3>2 DEF ControllerOK, RecheckedOK, FetchedOK
      <3>4. object[c].generation \in Nat /\ fetched[c] \in Nat
        BY <2>t, <3>1 DEF TypeOK, Binding, ControllerOK, ObjectOK
      <3>5. Wanted(c).generation = object[c].generation /\ Wanted(c).version = fetched[c]
        BY DEF Wanted
      <3> QED BY <2>2, <2>5, <3>2, <3>3, <3>4, <3>5
    <2> QED BY <1>1, <2>1, <2>3, <2>4, <2>5, <2>t, TargetCases
  <1> HIDE DEF Advances
  <1>2. IInv /\ [Next]_vars => [\A t \in Targets : Advances(t)]_vars
    BY <1>1
  <1>3. Spec => [][\A t \in Targets : Advances(t)]_vars
    BY <1>2, Invariance, PTL DEF Spec
  <1> QED BY <1>3 DEF NeverGoesBack, Advances

==============================================================================
