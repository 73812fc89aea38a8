---------------------------- MODULE ReleaseStream ----------------------------
(***************************************************************************)
(* Release sets of one config in one environment (mysqlstore/release.go):  *)
(* immutable manifests that pin a config revision and the vault revisions  *)
(* it resolves, and the stream that makes one of them active by a          *)
(* compare-and-swap of its generation.                                     *)
(*                                                                         *)
(* Transactions are REPEATABLE READ: every plain SELECT sees the view that *)
(* the first of them opened, while the upsert of a manifest and the locks  *)
(* of a stream and of an operation act on what is committed. Once a        *)
(* transaction has the row lock its last statements need, it commits in    *)
(* the same step, since nobody can tell the difference.                    *)
(*                                                                         *)
(* All config revisions refer to one vault item. Authorization, validation *)
(* and the master key are other modules' subject; a request they refuse is *)
(* one that is aborted. A conflict comes before the look at the item and   *)
(* after that at the environment and the config; it may be recorded        *)
(* whichever of them is archived.                                          *)
(***************************************************************************)
EXTENDS Integers, FiniteSets

CONSTANTS
    Keys,           \* release keys
    Operations,     \* operation ids
    Requests,       \* what callers may ask for, and ask for again
    Clients,        \* transactions in progress at the same time
    MaxRevision,    \* bound of this model on revisions
    None

Action == {"prepare", "activate"}

(* The specification of a release is the config's revision and that of the *)
(* item its files are from, 0 if it has none.                              *)
Request == [op : Operations, action : Action, byToken : BOOLEAN, key : Keys,
            config : Nat, file : Nat, expected : Nat]

Revision == 1..MaxRevision

(* A release pins a config revision and one of the item.                   *)
Manifest == [config : Nat, file : Nat, vault : Nat]

(* What a read view sees.                                                  *)
View == [current : Revision, vault : Revision,
         archived : BOOLEAN, keys : SUBSET Keys]

ASSUME ReleaseAssumption ==
    /\ MaxRevision \in Nat \ {0}
    /\ Requests \subseteq Request
    /\ None \notin Keys
    /\ None \notin Requests
    /\ None \notin Manifest
    /\ None \notin View

VARIABLES
    current,        \* current revision of the config
    vault,          \* current revision of the item
    usable,         \* revisions bound to the environment with all fields
    archived,       \* the environment, the config or the item is archived
    release,        \* config_release_sets
    active,         \* config_release_states.active_key
    generation,     \* config_release_states.generation
    operation,      \* operations
    pc,             \* the next statement of each client
    req,            \* its request
    view,           \* its read view, None before its first plain SELECT
    moments         \* current revisions there have been at the same time

draftVars == <<current, vault, usable, archived, moments>>
streamVars == <<release, active, generation>>
clientVars == <<pc, req, view>>
vars == <<draftVars, streamVars, operation, clientVars>>

Result == [request : Requests, outcome : {"success", "no_change", "conflict"},
           key : Keys \cup {None}, generation : Nat, digest : Manifest \cup {None}]

TypeOK ==
    /\ current \in Revision /\ vault \in Revision
    /\ usable \subseteq Revision
    /\ archived \in BOOLEAN
    /\ release \in [Keys -> Manifest \cup {None}]
    /\ active \in Keys \cup {None}
    /\ generation \in Nat
    /\ operation \in [Operations -> Result \cup {None}]
    /\ pc \in [Clients -> {"idle", "operation", "resolve"}]
    /\ req \in [Clients -> Requests \cup {None}]
    /\ view \in [Clients -> View \cup {None}]
    /\ moments \subseteq Revision \X Revision

Init ==
    /\ current = 1 /\ vault = 1
    /\ usable = {1}
    /\ archived = FALSE
    /\ release = [k \in Keys |-> None]
    /\ active = None
    /\ generation = 0
    /\ operation = [o \in Operations |-> None]
    /\ pc = [c \in Clients |-> "idle"]
    /\ req = [c \in Clients |-> None]
    /\ view = [c \in Clients |-> None]
    /\ moments = {<<1, 1>>}

-----------------------------------------------------------------------------
(* Drafts go on: a new revision of the config or of the item, the latter   *)
(* maybe without a field or the binding, and something on the way from the *)
(* environment to the item is archived or restored.                        *)

CommitConfig ==
    /\ current < MaxRevision
    /\ current' = current + 1
    /\ moments' = moments \cup {<<current', vault>>}
    /\ UNCHANGED <<vault, usable, archived, streamVars, operation, clientVars>>

CommitVault ==
    /\ vault < MaxRevision
    /\ vault' = vault + 1
    /\ usable' \in {usable, usable \cup {vault'}}
    /\ moments' = moments \cup {<<current, vault'>>}
    /\ UNCHANGED <<current, archived, streamVars, operation, clientVars>>

ChangeLifecycle ==
    /\ archived' = ~archived
    /\ UNCHANGED <<current, vault, usable, moments, streamVars, operation, clientVars>>

-----------------------------------------------------------------------------
(* Transactions.                                                           *)

At(c, step) == pc[c] = step

Goto(c, step) == pc' = [pc EXCEPT ![c] = step]

Stored == {k \in Keys : release[k] # None}

Snapshot == [current |-> current, vault |-> vault, archived |-> archived, keys |-> Stored]

End(c) ==
    /\ Goto(c, "idle")
    /\ req' = [req EXCEPT ![c] = None]
    /\ view' = [view EXCEPT ![c] = None]

(* The grants of a token are read by a plain SELECT.                       *)
Begin(c, r) ==
    /\ At(c, "idle")
    /\ req' = [req EXCEPT ![c] = r]
    /\ view' = [view EXCEPT ![c] = IF r.byToken THEN Snapshot ELSE None]
    /\ Goto(c, "operation")
    /\ UNCHANGED <<draftVars, streamVars, operation>>

Free(c, o) == \A d \in Clients \ {c} : At(d, "resolve") => req[d].op # o

(* An id that is taken is answered from its row, or refused if it stands   *)
(* for another request. Else the transaction goes on to read the root.     *)
BeginOperation(c) ==
    /\ At(c, "operation")
    /\ Free(c, req[c].op)
    /\ LET row == operation[req[c].op] IN
       \/ /\ row = None
          /\ Goto(c, "resolve")
          /\ view' = [view EXCEPT ![c] = IF view[c] = None THEN Snapshot ELSE view[c]]
          /\ UNCHANGED req
       \/ row # None /\ End(c)
    /\ UNCHANGED <<draftVars, streamVars, operation>>

(* Record the result, which is the answer, and commit.                     *)
Conclude(c, outcome, key, g, digest) ==
    LET row == [request |-> req[c], outcome |-> outcome, key |-> key,
                generation |-> g, digest |-> digest] IN
    /\ operation' = [operation EXCEPT ![req[c].op] = row]
    /\ End(c)

(* "Historical revisions never bypass current item availability."          *)
Resolves(c, pinned) == ~view[c].archived /\ {view[c].vault, pinned} \subseteq usable

-----------------------------------------------------------------------------
(* PrepareRelease.                                                         *)

SameSpec(m, r) == m.config = r.config /\ m.file = r.file

(* The key is there: another specification is a conflict.                  *)
RetryRelease(c) ==
    LET r == req[c] IN
    /\ At(c, "resolve")
    /\ r.action = "prepare"
    /\ r.key \in view[c].keys
    /\ IF SameSpec(release[r.key], r)
       THEN /\ Resolves(c, release[r.key].vault)
            /\ Conclude(c, "no_change", r.key, 0, release[r.key])
       ELSE Conclude(c, "conflict", None, 0, None)
    /\ UNCHANGED <<draftVars, streamVars>>

(* A revision to pin is not the current one any more.                      *)
StaleDraft(c) ==
    LET r == req[c] IN
    /\ At(c, "resolve")
    /\ r.action = "prepare"
    /\ r.key \notin view[c].keys
    /\ r.config # view[c].current \/ r.file \notin {0, view[c].vault}
    /\ Conclude(c, "conflict", None, 0, None)
    /\ UNCHANGED <<draftVars, streamVars>>

(* Mutant: the item's revision is read outside the view.                   *)
PinnedVault_Latest(c) == vault

PinnedVault(c) == view[c].vault

Upsert(old, new) == IF old = None THEN new ELSE old

(* Mutant: a key that is there by now is taken for this release.           *)
StoredOutcome_Duplicate(old, new) == IF old = None THEN "success" ELSE "no_change"

(* By a locking read of the key.                                           *)
StoredOutcome(old, new) ==
    IF old = None THEN "success" ELSE IF old = new THEN "no_change" ELSE "conflict"

StoreRelease(c) ==
    LET r == req[c]
        new == [config |-> r.config, file |-> r.file, vault |-> PinnedVault(c)]
        outcome == StoredOutcome(release[r.key], new) IN
    /\ At(c, "resolve")
    /\ r.action = "prepare"
    /\ r.key \notin view[c].keys
    /\ r.config = view[c].current
    /\ r.file \in {0, view[c].vault}
    /\ Resolves(c, PinnedVault(c))
    /\ release' = [release EXCEPT ![r.key] = Upsert(release[r.key], new)]
    /\ IF outcome = "conflict" THEN Conclude(c, "conflict", None, 0, None)
       ELSE Conclude(c, outcome, r.key, 0, new)
    /\ UNCHANGED <<draftVars, active, generation>>

-----------------------------------------------------------------------------
(* ActivateRelease. The stream is read under its row lock, the release and *)
(* its availability in the view.                                           *)

(* Mutant: a generation that is ahead of the expected one will do.         *)
Expected_AtLeast(r) == generation >= r.expected

Expected(r) == generation = r.expected

NextGeneration(r) == IF r.key = active THEN generation ELSE generation + 1

ActivateRelease(c) ==
    LET r == req[c] IN
    /\ At(c, "resolve")
    /\ r.action = "activate"
    /\ r.key \in view[c].keys
    /\ Resolves(c, release[r.key].vault)
    /\ IF Expected(r)
       THEN /\ active' = r.key
            /\ generation' = NextGeneration(r)
            /\ Conclude(c, IF r.key = active THEN "no_change" ELSE "success",
                        r.key, generation', release[r.key])
       ELSE Conclude(c, "conflict", active, generation, None) /\ UNCHANGED <<active, generation>>
    /\ UNCHANGED <<draftVars, release>>

(* The request is refused or cannot be resolved, a statement fails, or the *)
(* process stops.                                                          *)
Abort(c) ==
    /\ ~At(c, "idle")
    /\ End(c)
    /\ UNCHANGED <<draftVars, streamVars, operation>>

Next ==
    \/ CommitConfig
    \/ CommitVault
    \/ ChangeLifecycle
    \/ \E c \in Clients :
          \/ \E r \in Requests : Begin(c, r)
          \/ BeginOperation(c)
          \/ RetryRelease(c)
          \/ StaleDraft(c)
          \/ StoreRelease(c)
          \/ ActivateRelease(c)
          \/ Abort(c)

Spec == Init /\ [][Next]_vars

-----------------------------------------------------------------------------
(* Properties.                                                             *)

(* "Preparation records an immutable manifest from one database snapshot": *)
(* the config and the item had the revisions a release pins at the same    *)
(* time.                                                                   *)
PinnedTogether ==
    \A k \in Stored : <<release[k].config, release[k].vault>> \in moments

(* Whoever is told that a release is prepared or active is told the digest *)
(* of the manifest stored under the key, also if another caller stored it  *)
(* after this one had looked.                                              *)
AnswersNameRelease ==
    \A o \in Operations : operation[o] # None /\ operation[o].outcome # "conflict" =>
        release[operation[o].key] = operation[o].digest

(* Of all activations that expect one generation, one at most switches the *)
(* stream.                                                                 *)
OneSwitchPerGeneration ==
    \A o, p \in Operations :
        /\ operation[o] # None /\ operation[p] # None
        /\ operation[o].request.action = "activate" /\ operation[o].outcome = "success"
        /\ operation[p].request.action = "activate" /\ operation[p].outcome = "success"
        /\ operation[o].request.expected = operation[p].request.expected
        => o = p

(* A manifest never changes, whatever is prepared under its key meanwhile. *)
ReleasesAreKept ==
    [][\A k \in Stored : release'[k] = release[k]]_vars

(* The generation is in the ETag of the active release: no two switches    *)
(* leave the same, so a rollback is not answered by 304.                   *)
SwitchesAreCounted ==
    [][active' # active => generation' = generation + 1]_vars
=============================================================================
