------------------------- MODULE ReleaseStreamProofs -------------------------
(***************************************************************************)
(* Proofs about ReleaseStream for every set of requests and clients and    *)
(* any number of revisions.                                                *)
(***************************************************************************)
EXTENDS ReleaseStream, TLAPS

(* A transaction has a request, and a view once it resolves.               *)
ClientOK ==
    \A c \in Clients :
        /\ ~At(c, "idle") => req[c] \in Requests
        /\ At(c, "resolve") => view[c] # None

TypeInv == TypeOK /\ ClientOK

(* What a view sees has been so at one moment.                             *)
PinInv ==
    /\ PinnedTogether
    /\ <<current, vault>> \in moments
    /\ \A c \in Clients : view[c] # None => <<view[c].current, view[c].vault>> \in moments

(* A key that was seen, or answered, is there to stay.                     *)
NameInv ==
    /\ \A c \in Clients : view[c] # None => view[c].keys \subseteq Stored
    /\ \A o \in Operations : operation[o] # None /\ operation[o].outcome # "conflict" =>
          /\ operation[o].key \in Stored
          /\ release[operation[o].key] = operation[o].digest

Switch(row) ==
    row # None /\ row.request.action = "activate" /\ row.outcome = "success"

(* The generation has left behind what successful activations expected.    *)
SwitchInv ==
    /\ \A o \in Operations : Switch(operation[o]) => operation[o].request.expected < generation
    /\ \A o, p \in Operations :
          /\ Switch(operation[o]) /\ Switch(operation[p])
          /\ operation[o].request.expected = operation[p].request.expected
          => o = p

-----------------------------------------------------------------------------
(* Type correctness.                                                       *)

LEMMA InitTypeInv == Init => TypeInv
<1> SUFFICES ASSUME Init
             PROVE  TypeInv
  OBVIOUS
<1>1. 1 \in Revision
  BY ReleaseAssumption DEF Revision
<1>2. /\ current \in Revision /\ vault \in Revision /\ usable \subseteq Revision
      /\ archived \in BOOLEAN
  BY <1>1 DEF Init
<1>5. moments \subseteq Revision \X Revision
  <2>1. <<1, 1>> \in Revision \X Revision
    BY <1>1
  <2> QED
    BY <2>1 DEF Init
<1>3. /\ release \in [Keys -> Manifest \cup {None}]
      /\ active \in Keys \cup {None} /\ generation \in Nat
      /\ operation \in [Operations -> Result \cup {None}]
  BY DEF Init
<1>4. /\ pc \in [Clients -> {"idle", "operation", "resolve"}]
      /\ req \in [Clients -> Requests \cup {None}]
      /\ view \in [Clients -> View \cup {None}]
      /\ ClientOK
  BY DEF Init, ClientOK, At
<1> QED
  BY <1>2, <1>3, <1>4, <1>5 DEF TypeInv, TypeOK

LEMMA SnapshotType ==
  ASSUME TypeInv
  PROVE  Snapshot \in View /\ Snapshot # None
  BY ReleaseAssumption DEF TypeInv, TypeOK, Snapshot, View, Stored

(* The end of a transaction leaves nothing behind.                         *)
LEMMA EndType ==
  ASSUME TypeInv, NEW c \in Clients, End(c)
  PROVE  /\ pc' \in [Clients -> {"idle", "operation", "resolve"}]
         /\ req' \in [Clients -> Requests \cup {None}]
         /\ view' \in [Clients -> View \cup {None}]
         /\ ClientOK'
  BY DEF TypeInv, TypeOK, ClientOK, End, Goto, At

LEMMA ConcludeType ==
  ASSUME TypeInv, NEW c \in Clients, ~At(c, "idle"),
         NEW outcome \in {"success", "no_change", "conflict"},
         NEW key \in Keys \cup {None}, NEW g \in Nat, NEW digest \in Manifest \cup {None},
         Conclude(c, outcome, key, g, digest)
  PROVE  operation' \in [Operations -> Result \cup {None}]
<1> DEFINE row == [request |-> req[c], outcome |-> outcome, key |-> key,
                   generation |-> g, digest |-> digest]
<1>1. req[c] \in Requests
  BY DEF TypeInv, ClientOK
<1>2. row \in Result
  BY <1>1 DEF Result
<1>3. operation' = [operation EXCEPT ![req[c].op] = row]
  BY DEF Conclude
<1> HIDE DEF row
<1> QED
  BY <1>2, <1>3 DEF TypeInv, TypeOK

LEMMA RequestType ==
  ASSUME TypeInv, NEW c \in Clients, ~At(c, "idle")
  PROVE  /\ req[c] \in Requests
         /\ req[c].op \in Operations /\ req[c].key \in Keys
         /\ req[c].config \in Nat /\ req[c].file \in Nat /\ req[c].expected \in Nat
  BY ReleaseAssumption DEF TypeInv, ClientOK, Request

LEMMA ViewType ==
  ASSUME TypeInv, NEW c \in Clients, At(c, "resolve")
  PROVE  /\ view[c] # None
         /\ view[c].current \in Revision /\ view[c].vault \in Revision
         /\ view[c].vault \in Nat
         /\ view[c].keys \subseteq Keys
<1>1. view[c] # None /\ view[c] \in View
  BY DEF TypeInv, TypeOK, ClientOK
<1> QED
  BY <1>1, ReleaseAssumption DEF View, Revision

LEMMA NextTypeInv == TypeInv /\ [Next]_vars => TypeInv'
<1> SUFFICES ASSUME TypeInv, [Next]_vars
             PROVE  TypeInv'
  OBVIOUS
<1>a. ASSUME UNCHANGED clientVars
      PROVE  /\ pc' \in [Clients -> {"idle", "operation", "resolve"}]
             /\ req' \in [Clients -> Requests \cup {None}]
             /\ view' \in [Clients -> View \cup {None}]
             /\ ClientOK'
  BY <1>a DEF clientVars, TypeInv, TypeOK, ClientOK, At
<1>1. CASE CommitConfig
  BY <1>1, <1>a, ReleaseAssumption
     DEF CommitConfig, TypeInv, TypeOK, streamVars, Revision
<1>2. CASE CommitVault
  BY <1>2, <1>a, ReleaseAssumption
     DEF CommitVault, TypeInv, TypeOK, streamVars, Revision
<1>3. CASE ChangeLifecycle
  BY <1>3, <1>a DEF ChangeLifecycle, TypeInv, TypeOK, streamVars
<1>4. ASSUME NEW c \in Clients, NEW r \in Requests, Begin(c, r)
      PROVE  TypeInv'
  <2>1. ClientOK'
    BY <1>4, ReleaseAssumption DEF Begin, Goto, At, TypeInv, TypeOK, ClientOK
  <2>2. /\ pc' \in [Clients -> {"idle", "operation", "resolve"}]
        /\ req' \in [Clients -> Requests \cup {None}]
        /\ view' \in [Clients -> View \cup {None}]
    BY <1>4, SnapshotType DEF Begin, Goto, TypeInv, TypeOK
  <2> QED
    BY <2>1, <2>2, <1>4 DEF Begin, TypeInv, TypeOK, draftVars, streamVars
<1>5. ASSUME NEW c \in Clients, BeginOperation(c)
      PROVE  TypeInv'
  <2>1. /\ pc' \in [Clients -> {"idle", "operation", "resolve"}]
        /\ req' \in [Clients -> Requests \cup {None}]
        /\ view' \in [Clients -> View \cup {None}]
        /\ ClientOK'
    <3>1. CASE End(c)
      BY <3>1, EndType
    <3>2. CASE /\ Goto(c, "resolve")
               /\ view' = [view EXCEPT ![c] = IF view[c] = None THEN Snapshot ELSE view[c]]
               /\ UNCHANGED req
      BY <3>2, <1>5, SnapshotType DEF BeginOperation, Goto, At, TypeInv, TypeOK, ClientOK
    <3> QED
      BY <3>1, <3>2, <1>5 DEF BeginOperation
  <2> QED
    BY <2>1, <1>5 DEF BeginOperation, TypeInv, TypeOK, draftVars, streamVars
<1>6. ASSUME NEW c \in Clients, RetryRelease(c)
      PROVE  TypeInv'
  <2>1. ~At(c, "idle")
    BY <1>6 DEF RetryRelease, At
  <2>2. release[req[c].key] \in Manifest \cup {None}
    BY <2>1, RequestType DEF TypeInv, TypeOK
  <2>3. operation' \in [Operations -> Result \cup {None}]
    BY <1>6, <2>1, <2>2, RequestType, ConcludeType DEF RetryRelease
  <2>4. End(c)
    BY <1>6 DEF RetryRelease, Conclude
  <2> QED
    BY <1>6, <2>3, <2>4, EndType DEF RetryRelease, TypeInv, TypeOK, draftVars, streamVars
<1>7. ASSUME NEW c \in Clients, StaleDraft(c)
      PROVE  TypeInv'
  <2>1. ~At(c, "idle")
    BY <1>7 DEF StaleDraft, At
  <2>2. operation' \in [Operations -> Result \cup {None}]
    BY <1>7, <2>1, ConcludeType DEF StaleDraft
  <2>3. End(c)
    BY <1>7 DEF StaleDraft, Conclude
  <2> QED
    BY <1>7, <2>2, <2>3, EndType DEF StaleDraft, TypeInv, TypeOK, draftVars, streamVars
<1>8. ASSUME NEW c \in Clients, StoreRelease(c)
      PROVE  TypeInv'
  <2> DEFINE r == req[c]
             new == [config |-> r.config, file |-> r.file, vault |-> PinnedVault(c)]
             outcome == StoredOutcome(release[r.key], new)
  <2>1. ~At(c, "idle")
    BY <1>8 DEF StoreRelease, At
  <2>2. new \in Manifest
    BY <1>8, <2>1, RequestType, ViewType DEF StoreRelease, PinnedVault, Manifest
  <2>3. release' = [release EXCEPT ![r.key] = Upsert(release[r.key], new)]
    BY <1>8 DEF StoreRelease
  <2>4. \/ Conclude(c, "conflict", None, 0, None)
        \/ outcome # "conflict" /\ Conclude(c, outcome, r.key, 0, new)
    BY <1>8 DEF StoreRelease
  <2>5. outcome \in {"success", "no_change", "conflict"}
    BY DEF StoredOutcome
  <2>6. End(c)
    BY <2>4 DEF Conclude
  <2>7. UNCHANGED <<draftVars, active, generation>>
    BY <1>8 DEF StoreRelease
  <2> HIDE DEF new, outcome
  <2>8. operation' \in [Operations -> Result \cup {None}]
    BY <2>1, <2>2, <2>4, <2>5, RequestType, ConcludeType
  <2>9. release' \in [Keys -> Manifest \cup {None}]
    BY <2>1, <2>2, <2>3, RequestType DEF Upsert, TypeInv, TypeOK
  <2> QED
    BY <2>6, <2>7, <2>8, <2>9, EndType DEF TypeInv, TypeOK, draftVars
<1>9. ASSUME NEW c \in Clients, ActivateRelease(c)
      PROVE  TypeInv'
  <2>1. ~At(c, "idle")
    BY <1>9 DEF ActivateRelease, At
  <2>2. release[req[c].key] \in Manifest \cup {None}
    BY <2>1, RequestType DEF TypeInv, TypeOK
  <2>3. NextGeneration(req[c]) \in Nat /\ generation \in Nat /\ active \in Keys \cup {None}
    BY DEF NextGeneration, TypeInv, TypeOK
  <2>4. /\ active' \in Keys \cup {None} /\ generation' \in Nat
        /\ operation' \in [Operations -> Result \cup {None}]
    <3>1. CASE Expected(req[c])
      <4>1. active' = req[c].key /\ generation' = NextGeneration(req[c])
        BY <3>1, <1>9 DEF ActivateRelease
      <4>2. generation' \in Nat
        BY <4>1, <2>3
      <4>3. \/ Conclude(c, "no_change", req[c].key, generation', release[req[c].key])
            \/ Conclude(c, "success", req[c].key, generation', release[req[c].key])
        BY <3>1, <1>9 DEF ActivateRelease
      <4>4. operation' \in [Operations -> Result \cup {None}]
        BY <4>2, <4>3, <2>1, <2>2, RequestType, ConcludeType
      <4> QED
        BY <4>1, <4>2, <4>4, <2>1, RequestType
    <3>2. CASE ~Expected(req[c])
      <4>1. Conclude(c, "conflict", active, generation, None) /\ UNCHANGED <<active, generation>>
        BY <3>2, <1>9 DEF ActivateRelease
      <4> QED
        BY <4>1, <2>1, <2>3, ConcludeType
    <3> QED
      BY <3>1, <3>2
  <2>5. End(c)
    BY <1>9 DEF ActivateRelease, Conclude
  <2> QED
    BY <1>9, <2>4, <2>5, EndType DEF ActivateRelease, TypeInv, TypeOK, draftVars
<1>10. ASSUME NEW c \in Clients, Abort(c)
       PROVE  TypeInv'
  <2>1. End(c)
    BY <1>10 DEF Abort
  <2> QED
    BY <1>10, <2>1, EndType DEF Abort, TypeInv, TypeOK, draftVars, streamVars
<1>11. CASE UNCHANGED vars
  BY <1>11, <1>a DEF vars, draftVars, streamVars, TypeInv, TypeOK
<1> QED
  BY <1>1, <1>2, <1>3, <1>4, <1>5, <1>6, <1>7, <1>8, <1>9, <1>10, <1>11 DEF Next

LEMMA AlwaysTypeInv == Spec => []TypeInv
  BY InitTypeInv, NextTypeInv, PTL DEF Spec

(* Whatever callers ask for and in whatever order, the release store and   *)
(* the results of operations keep their types.                             *)
THEOREM TypeCorrect == Spec => []TypeOK
<1>1. TypeInv => TypeOK
  BY DEF TypeInv
<1> QED
  BY <1>1, AlwaysTypeInv, PTL

-----------------------------------------------------------------------------
(* What the steps have in common.                                          *)

(* A view is opened by looking at what is committed, kept or given up.     *)
LEMMA ViewStep ==
  ASSUME TypeInv, [Next]_vars, NEW c \in Clients
  PROVE  view'[c] \in {None, view[c], Snapshot}
<1>1. ASSUME NEW d \in Clients, End(d)
      PROVE  view'[c] \in {None, view[c]}
  BY <1>1 DEF End, TypeInv, TypeOK
<1>2. CASE UNCHANGED view
  BY <1>2
<1>3. CASE CommitConfig \/ CommitVault \/ ChangeLifecycle \/ UNCHANGED vars
  BY <1>2, <1>3 DEF CommitConfig, CommitVault, ChangeLifecycle, vars, clientVars
<1>4. ASSUME NEW d \in Clients, NEW r \in Requests, Begin(d, r)
      PROVE  view'[c] \in {None, view[c], Snapshot}
  BY <1>4 DEF Begin, TypeInv, TypeOK
<1>5. ASSUME NEW d \in Clients, BeginOperation(d)
      PROVE  view'[c] \in {None, view[c], Snapshot}
  BY <1>5, <1>1 DEF BeginOperation, TypeInv, TypeOK
<1>6. ASSUME NEW d \in Clients,
             RetryRelease(d) \/ StaleDraft(d) \/ StoreRelease(d) \/ ActivateRelease(d) \/ Abort(d)
      PROVE  End(d)
  BY <1>6 DEF RetryRelease, StaleDraft, StoreRelease, ActivateRelease, Abort, Conclude
<1> QED
  BY <1>1, <1>3, <1>4, <1>5, <1>6 DEF Next

(* Only StoreRelease writes manifests, and never over another.             *)
LEMMA StoredStep ==
  ASSUME TypeInv, [Next]_vars
  PROVE  /\ Stored \subseteq Stored'
         /\ \A k \in Stored : release'[k] = release[k]
<1>1. CASE UNCHANGED release
  BY <1>1 DEF Stored
<1>2. ASSUME NEW c \in Clients, StoreRelease(c)
      PROVE  /\ Stored \subseteq Stored'
             /\ \A k \in Stored : release'[k] = release[k]
  <2>1. PICK new : release' = [release EXCEPT ![req[c].key] = Upsert(release[req[c].key], new)]
    BY <1>2 DEF StoreRelease
  <2>2. \A k \in Stored : release'[k] = release[k]
    BY <2>1 DEF Upsert, Stored, TypeInv, TypeOK
  <2> QED
    BY <2>2 DEF Stored
<1>3. CASE CommitConfig \/ CommitVault \/ ChangeLifecycle \/ UNCHANGED vars
  BY <1>1, <1>3 DEF CommitConfig, CommitVault, ChangeLifecycle, vars, streamVars
<1>4. ASSUME NEW c \in Clients,
             \/ \E r \in Requests : Begin(c, r)
             \/ BeginOperation(c)
             \/ RetryRelease(c)
             \/ StaleDraft(c)
             \/ ActivateRelease(c)
             \/ Abort(c)
      PROVE  UNCHANGED release
  BY <1>4 DEF Begin, BeginOperation, RetryRelease, StaleDraft, ActivateRelease, Abort, streamVars
<1> QED
  BY <1>1, <1>2, <1>3, <1>4 DEF Next

(* Only the last statements of a transaction record a result.              *)
LEMMA OperationStep ==
  ASSUME [Next]_vars
  PROVE  \/ UNCHANGED operation
         \/ \E c \in Clients :
               RetryRelease(c) \/ StaleDraft(c) \/ StoreRelease(c) \/ ActivateRelease(c)
  BY DEF Next, CommitConfig, CommitVault, ChangeLifecycle, Begin, BeginOperation, Abort, vars

(* Immutable manifests, one snapshot, one answer, one switch.              *)

(* A manifest that is stored stays as it is.                               *)
THEOREM ManifestsAreImmutable == Spec => ReleasesAreKept
<1>1. TypeInv /\ [Next]_vars => [\A k \in Stored : release'[k] = release[k]]_vars
  BY StoredStep
<1> QED
  BY <1>1, AlwaysTypeInv, PTL DEF Spec, ReleasesAreKept

(* A config and an item only go on, and both revisions a view shows were   *)
(* current when it was opened.                                             *)
LEMMA NextPinInv == TypeInv /\ PinInv /\ [Next]_vars => PinInv'
<1> SUFFICES ASSUME TypeInv, PinInv, [Next]_vars
             PROVE  PinInv'
  OBVIOUS
<1>1. moments \subseteq moments' /\ <<current', vault'>> \in moments'
  BY DEF PinInv, Next, CommitConfig, CommitVault, ChangeLifecycle, Begin, BeginOperation,
         RetryRelease, StaleDraft, StoreRelease, ActivateRelease, Abort, vars, draftVars
<1>2. ASSUME NEW c \in Clients, view'[c] # None
      PROVE  <<view'[c].current, view'[c].vault>> \in moments'
  <2>1. Snapshot.current = current /\ Snapshot.vault = vault
    BY DEF Snapshot
  <2> QED
    BY <1>1, <1>2, <2>1, ViewStep DEF PinInv
<1>3. ASSUME NEW k \in Stored'
      PROVE  <<release'[k].config, release'[k].vault>> \in moments'
  <2>1. CASE k \in Stored
    BY <1>1, <2>1, StoredStep DEF PinInv, PinnedTogether
  <2>2. CASE k \notin Stored
    <3>1. PICK c \in Clients : StoreRelease(c)
      <4>1. ~UNCHANGED release
        BY <1>3, <2>2 DEF Stored
      <4> QED
        BY <4>1 DEF Next, CommitConfig, CommitVault, ChangeLifecycle, Begin, BeginOperation,
           RetryRelease, StaleDraft, ActivateRelease, Abort, vars, streamVars
    <3>2. view[c] # None /\ req[c].key \in Keys
      BY <3>1, ViewType, RequestType DEF StoreRelease, At
    <3> DEFINE new == [config |-> req[c].config, file |-> req[c].file, vault |-> view[c].vault]
    <3>3. release' = [release EXCEPT ![req[c].key] = Upsert(release[req[c].key], new)]
      BY <3>1 DEF StoreRelease, PinnedVault
    <3>4. new.config = view[c].current /\ new.vault = view[c].vault
      BY <3>1 DEF StoreRelease
    <3> HIDE DEF new
    <3>5. release'[k] = new
      BY <1>3, <2>2, <3>2, <3>3 DEF Upsert, Stored, TypeInv, TypeOK
    <3> QED
      BY <1>1, <3>2, <3>4, <3>5 DEF PinInv
  <2> QED
    BY <2>1, <2>2
<1> QED
  BY <1>1, <1>2, <1>3 DEF PinInv, PinnedTogether

(* A release pins revisions that were current together.                    *)
THEOREM PreparedFromOneSnapshot == Spec => []PinnedTogether
<1>1. Init => PinInv
  BY DEF Init, PinInv, PinnedTogether, Stored
<1>2. PinInv => PinnedTogether
  BY DEF PinInv
<1> QED
  BY <1>1, <1>2, NextPinInv, AlwaysTypeInv, PTL DEF Spec

(* A result that is not a conflict names a stored key and its manifest.    *)
LEMMA NamingRow ==
  ASSUME TypeInv, NameInv, [Next]_vars, NEW c \in Clients, ~At(c, "idle"),
         NEW outcome, NEW key, NEW g, NEW digest,
         Conclude(c, outcome, key, g, digest),
         outcome # "conflict" => key \in Stored' /\ release'[key] = digest
  PROVE  \A o \in Operations : operation'[o] # None /\ operation'[o].outcome # "conflict" =>
            /\ operation'[o].key \in Stored'
            /\ release'[operation'[o].key] = operation'[o].digest
<1> TAKE o \in Operations
<1> DEFINE row == [request |-> req[c], outcome |-> outcome, key |-> key,
                   generation |-> g, digest |-> digest]
<1>1. operation' = [operation EXCEPT ![req[c].op] = row]
  BY DEF Conclude
<1>2. row.outcome = outcome /\ row.key = key /\ row.digest = digest
  OBVIOUS
<1> HIDE DEF row
<1>3. operation'[o] = IF o # req[c].op THEN operation[o] ELSE row
  BY <1>1 DEF TypeInv, TypeOK
<1> QED
  BY <1>2, <1>3, StoredStep DEF NameInv

LEMMA NextNameInv == TypeInv /\ NameInv /\ [Next]_vars => NameInv'
<1> SUFFICES ASSUME TypeInv, NameInv, [Next]_vars
             PROVE  NameInv'
  OBVIOUS
<1>1. ASSUME NEW c \in Clients, view'[c] # None
      PROVE  view'[c].keys \subseteq Stored'
  <2>1. Snapshot.keys = Stored
    BY DEF Snapshot
  <2> QED
    BY <1>1, <2>1, ViewStep, StoredStep DEF NameInv
<1>2. \A o \in Operations : operation'[o] # None /\ operation'[o].outcome # "conflict" =>
         /\ operation'[o].key \in Stored'
         /\ release'[operation'[o].key] = operation'[o].digest
  <2>1. CASE UNCHANGED operation
    BY <2>1, StoredStep DEF NameInv
  <2>2. ASSUME NEW c \in Clients,
               RetryRelease(c) \/ StaleDraft(c) \/ StoreRelease(c) \/ ActivateRelease(c)
        PROVE  ~At(c, "idle") /\ At(c, "resolve") /\ view[c].keys \subseteq Stored
    <3>1. At(c, "resolve")
      BY <2>2 DEF RetryRelease, StaleDraft, StoreRelease, ActivateRelease
    <3> QED
      BY <3>1, ViewType DEF NameInv, At
  <2>3. ASSUME NEW c \in Clients, RetryRelease(c), req[c].key \in Stored
        PROVE  req[c].key \in Stored' /\ release'[req[c].key] = release[req[c].key]
    BY <2>3, StoredStep
  <2>4. ASSUME NEW c \in Clients, RetryRelease(c)
        PROVE  \E outcome, key, g, digest :
                  /\ Conclude(c, outcome, key, g, digest)
                  /\ outcome # "conflict" => key \in Stored' /\ release'[key] = digest
    <3>1. req[c].key \in Stored
      BY <2>2, <2>4 DEF RetryRelease
    <3>2. \/ Conclude(c, "no_change", req[c].key, 0, release[req[c].key])
          \/ Conclude(c, "conflict", None, 0, None)
      BY <2>4 DEF RetryRelease
    <3> QED
      BY <2>3, <2>4, <3>1, <3>2
  <2>5. ASSUME NEW c \in Clients, StaleDraft(c)
        PROVE  Conclude(c, "conflict", None, 0, None)
    BY <2>5 DEF StaleDraft
  <2>6. ASSUME NEW c \in Clients, StoreRelease(c)
        PROVE  \E outcome, key, g, digest :
                  /\ Conclude(c, outcome, key, g, digest)
                  /\ outcome # "conflict" => key \in Stored' /\ release'[key] = digest
    <3> DEFINE r == req[c]
               new == [config |-> r.config, file |-> r.file, vault |-> PinnedVault(c)]
               outcome == StoredOutcome(release[r.key], new)
    <3>1. /\ r.key \in Keys /\ new \in Manifest
      BY <2>2, <2>6, RequestType, ViewType DEF PinnedVault, Manifest
    <3>2. release' = [release EXCEPT ![r.key] = Upsert(release[r.key], new)]
      BY <2>6 DEF StoreRelease
    <3>3. \/ Conclude(c, "conflict", None, 0, None)
          \/ Conclude(c, outcome, r.key, 0, new)
      BY <2>6 DEF StoreRelease
    <3> HIDE DEF new
    <3>4. outcome # "conflict" => release'[r.key] = new
      BY <3>1, <3>2 DEF StoredOutcome, Upsert, TypeInv, TypeOK
    <3>5. new # None
      BY <3>1, ReleaseAssumption
    <3>6. outcome # "conflict" => r.key \in Stored'
      BY <3>1, <3>4, <3>5 DEF Stored
    <3> HIDE DEF outcome
    <3> QED
      BY <3>3, <3>4, <3>6
  <2>7. ASSUME NEW c \in Clients, ActivateRelease(c)
        PROVE  \E outcome, key, g, digest :
                  /\ Conclude(c, outcome, key, g, digest)
                  /\ outcome # "conflict" => key \in Stored' /\ release'[key] = digest
    <3>1. req[c].key \in Stored
      BY <2>2, <2>7 DEF ActivateRelease
    <3>2. req[c].key \in Stored' /\ release'[req[c].key] = release[req[c].key]
      BY <3>1, StoredStep
    <3>3. \/ \E outcome : Conclude(c, outcome, req[c].key, generation', release[req[c].key])
          \/ Conclude(c, "conflict", active, generation, None)
      BY <2>7 DEF ActivateRelease
    <3> QED
      BY <3>2, <3>3
  <2> QED
    BY <2>1, <2>2, <2>4, <2>5, <2>6, <2>7, OperationStep, NamingRow
<1> QED
  BY <1>1, <1>2 DEF NameInv

(* The digest of every answer is that of the manifest under its key.       *)
THEOREM AnswersAreTrue == Spec => []AnswersNameRelease
<1>1. Init => NameInv
  BY DEF Init, NameInv
<1>2. NameInv => AnswersNameRelease
  BY DEF NameInv, AnswersNameRelease
<1> QED
  BY <1>1, <1>2, NextNameInv, AlwaysTypeInv, PTL DEF Spec

(* A switch takes the generation from what it was expected to be to the    *)
(* next one, and no other step does.                                       *)
LEMMA NextSwitchInv == TypeInv /\ SwitchInv /\ [Next]_vars => SwitchInv'
<1> SUFFICES ASSUME TypeInv, SwitchInv, [Next]_vars
             PROVE  SwitchInv'
  OBVIOUS
<1>0. generation \in Nat
  BY DEF TypeInv, TypeOK
<1>1. ASSUME NEW c \in Clients, ~At(c, "idle"),
             NEW outcome, NEW key, NEW g, NEW digest,
             Conclude(c, outcome, key, g, digest),
             req[c].action # "activate" \/ outcome # "success",
             UNCHANGED generation \/ generation' = generation + 1
      PROVE  SwitchInv'
  <2> DEFINE row == [request |-> req[c], outcome |-> outcome, key |-> key,
                     generation |-> g, digest |-> digest]
  <2>1. operation' = [operation EXCEPT ![req[c].op] = row]
    BY <1>1 DEF Conclude
  <2>2. ~Switch(row)
    BY <1>1 DEF Switch
  <2> HIDE DEF row
  <2>3. \A o \in Operations : operation'[o] = IF o # req[c].op THEN operation[o] ELSE row
    BY <2>1 DEF TypeInv, TypeOK
  <2>4. \A o \in Operations : Switch(operation'[o]) => operation'[o] = operation[o]
    BY <2>2, <2>3
  <2>5. \A o \in Operations : Switch(operation[o]) => operation[o].request.expected \in Nat
    BY ReleaseAssumption DEF Switch, TypeInv, TypeOK, Result, Request
  <2> QED
    BY <1>0, <1>1, <2>4, <2>5 DEF SwitchInv
<1>2. CASE UNCHANGED <<operation, generation>>
  BY <1>2 DEF SwitchInv
<1>3. ASSUME NEW c \in Clients, RetryRelease(c) \/ StaleDraft(c) \/ StoreRelease(c)
      PROVE  SwitchInv'
  <2>1. ~At(c, "idle") /\ req[c].action # "activate" /\ UNCHANGED generation
    BY <1>3 DEF RetryRelease, StaleDraft, StoreRelease, streamVars, At
  <2>2. \E outcome, key, g, digest : Conclude(c, outcome, key, g, digest)
    BY <1>3 DEF RetryRelease, StaleDraft, StoreRelease
  <2> QED
    BY <1>1, <2>1, <2>2
<1>4. ASSUME NEW c \in Clients, ActivateRelease(c)
      PROVE  SwitchInv'
  <2>1. ~At(c, "idle")
    BY <1>4 DEF ActivateRelease, At
  <2>2. CASE ~Expected(req[c])
    <3>1. Conclude(c, "conflict", active, generation, None) /\ UNCHANGED generation
      BY <1>4, <2>2 DEF ActivateRelease
    <3> QED
      BY <1>1, <2>1, <3>1
  <2>3. CASE Expected(req[c]) /\ req[c].key = active
    <3>1. Conclude(c, "no_change", req[c].key, generation', release[req[c].key])
      BY <1>4, <2>3 DEF ActivateRelease
    <3>2. UNCHANGED generation
      BY <1>4, <2>3 DEF ActivateRelease, NextGeneration
    <3> QED
      BY <1>1, <2>1, <3>1, <3>2
  <2>4. CASE Expected(req[c]) /\ req[c].key # active
    <3> DEFINE row == [request |-> req[c], outcome |-> "success", key |-> req[c].key,
                       generation |-> generation', digest |-> release[req[c].key]]
    <3>1. Conclude(c, "success", req[c].key, generation', release[req[c].key])
      BY <1>4, <2>4 DEF ActivateRelease
    <3>2. operation' = [operation EXCEPT ![req[c].op] = row]
      BY <3>1 DEF Conclude
    <3>3. row.request.expected = generation
      BY <2>4 DEF Expected
    <3>4. generation' = generation + 1
      BY <1>4, <2>4 DEF ActivateRelease, NextGeneration
    <3> HIDE DEF row
    <3>5. \A o \in Operations : operation'[o] = IF o # req[c].op THEN operation[o] ELSE row
      BY <3>2 DEF TypeInv, TypeOK
    <3>6. \A o \in Operations : Switch(operation[o]) =>
             operation[o].request.expected \in Nat /\ operation[o].request.expected < generation
      BY ReleaseAssumption DEF Switch, SwitchInv, TypeInv, TypeOK, Result, Request
    <3> QED
      BY <1>0, <3>3, <3>4, <3>5, <3>6 DEF SwitchInv
  <2> QED
    BY <2>2, <2>3, <2>4
<1>5. CASE CommitConfig \/ CommitVault \/ ChangeLifecycle \/ UNCHANGED vars
  BY <1>2, <1>5 DEF CommitConfig, CommitVault, ChangeLifecycle, vars, streamVars
<1>6. ASSUME NEW c \in Clients,
             (\E r \in Requests : Begin(c, r)) \/ BeginOperation(c) \/ Abort(c)
      PROVE  UNCHANGED <<operation, generation>>
  BY <1>6 DEF Begin, BeginOperation, Abort, streamVars
<1> QED
  BY <1>2, <1>3, <1>4, <1>5, <1>6 DEF Next

(* Callers that race from one generation do not both switch the stream.    *)
THEOREM SwitchIsExclusive == Spec => []OneSwitchPerGeneration
<1>1. Init => SwitchInv
  BY DEF Init, SwitchInv, Switch
<1>2. SwitchInv => OneSwitchPerGeneration
  BY DEF SwitchInv, Switch, OneSwitchPerGeneration
<1> QED
  BY <1>1, <1>2, NextSwitchInv, AlwaysTypeInv, PTL DEF Spec

(* A generation stands for one active release only.                        *)
THEOREM GenerationTellsSwitches == Spec => SwitchesAreCounted
<1>1. [Next]_vars => [active' # active => generation' = generation + 1]_vars
  <2>1. ASSUME NEW c \in Clients, ActivateRelease(c), active' # active
        PROVE  generation' = generation + 1
    BY <2>1 DEF ActivateRelease, NextGeneration
  <2> QED
    BY <2>1 DEF Next, CommitConfig, CommitVault, ChangeLifecycle, Begin, BeginOperation,
       RetryRelease, StaleDraft, StoreRelease, Abort, vars, streamVars
<1> QED
  BY <1>1, PTL DEF Spec, SwitchesAreCounted
=============================================================================
