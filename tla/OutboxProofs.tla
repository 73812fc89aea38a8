---------------------------- MODULE OutboxProofs ----------------------------
(***************************************************************************)
(* Proofs about two programs that work through outbox_events: maintenance  *)
(* (OutboxRetention), for every set of events, runs, archives and clients, *)
(* and the delivery of audit events (AuditDelivery), for every set of      *)
(* events and workers and every size of batch and page.                    *)
(***************************************************************************)
EXTENDS OutboxRetention, AuditDelivery, FiniteSetTheorems, TLAPS

-----------------------------------------------------------------------------
(* Maintenance: the inductive invariant.                                   *)

Run == {"operation", "select", "archive", "sync", "commit"}

(* What a client has is fit for the step it is at.                         *)
ClientOK ==
    \A c \in Clients :
        /\ stage[c] \in Run => req[c] \in Requests
        /\ stage[c] \in {"event", "queue"} => source[c] \in Rows
        /\ stage[c] \notin {"archive", "sync", "commit"} => chosen[c] = {}

TypeInv == RetentionTypeOK /\ ClientOK

(* A row lock has one holder. A run holds its operation once it has        *)
(* inserted it, and the events it has selected.                            *)
LockInv ==
    /\ \A c, d \in Clients : c # d => locks[c] \cap locks[d] = {}
    /\ \A c \in Clients :
          /\ stage[c] \in Run \ {"operation"} => <<"operation", req[c].op>> \in locks[c]
          /\ \A e \in chosen[c] : <<"event", e>> \in locks[c]

(* So the operation stays new, and the events as they were selected.       *)
RunInv ==
    \A c \in Clients :
        /\ stage[c] \in Run \ {"operation"} => operation[req[c].op] = None
        /\ \A e \in chosen[c] : Eligible(e, req[c].before)

(* A run that is about to delete has its archive on disk.                  *)
FileInv ==
    /\ \A p \in durable : files[p] \in SUBSET Rows
    /\ \A c \in Clients :
          /\ AtStage(c, "sync") => files[req[c].path] = chosen[c]
          /\ AtStage(c, "commit") /\ chosen[c] # {} =>
                req[c].path \in durable /\ files[req[c].path] = chosen[c]

-----------------------------------------------------------------------------
(* Type correctness.                                                       *)

LEMMA InitTypeInv == RetentionInit => TypeInv
  BY RetentionAssumption
     DEF RetentionInit, TypeInv, RetentionTypeOK, ClientOK, EventState, Stages, Run

ClientTypeOK ==
    /\ stage \in [Clients -> Stages]
    /\ req \in [Clients -> Requests \cup {None}]
    /\ source \in [Clients -> Rows \cup {None}]
    /\ chosen \in [Clients -> SUBSET Rows]
    /\ locks \in [Clients -> SUBSET Locks]

LEMMA EndType ==
  ASSUME TypeInv, NEW c \in Clients, End(c)
  PROVE  ClientTypeOK' /\ ClientOK'
  BY DEF TypeInv, RetentionTypeOK, ClientOK, ClientTypeOK, End, Proceed, Stages, Run

LEMMA SameClientType ==
  ASSUME TypeInv, UNCHANGED clientVars
  PROVE  ClientTypeOK' /\ ClientOK'
  BY DEF clientVars, TypeInv, RetentionTypeOK, ClientOK, ClientTypeOK

LEMMA RequestType ==
  ASSUME TypeInv, NEW c \in Clients, stage[c] \in Run
  PROVE  /\ req[c] \in Requests
         /\ req[c].op \in Operations /\ req[c].path \in Paths
         /\ req[c].before \in Nat /\ req[c].limit \in Nat
  BY RetentionAssumption DEF TypeInv, ClientOK, Request

LEMMA OldestType == ASSUME NEW S, NEW n PROVE Oldest(S, n) \subseteq S
  BY DEF Oldest

LEMMA NextTypeInv == TypeInv /\ [RetentionNext]_retentionVars => TypeInv'
<1> SUFFICES ASSUME TypeInv, [RetentionNext]_retentionVars
             PROVE  TypeInv'
  OBVIOUS
<1>0. now \in 0..MaxTime
  BY DEF TypeInv, RetentionTypeOK
<1>1. ASSUME NEW e \in Rows, PublishEvent(e)
      PROVE  TypeInv'
  BY <1>1, SameClientType
     DEF PublishEvent, InsertEvent, TypeInv, RetentionTypeOK, ClientTypeOK, EventState,
         fileVars
<1>2. ASSUME NEW e \in Rows, CompleteEvent(e)
      PROVE  TypeInv'
  BY <1>0, <1>2, SameClientType
     DEF CompleteEvent, TypeInv, RetentionTypeOK, ClientTypeOK, EventState, fileVars
<1>3. CASE RetentionTick
  <2>1. now' \in 0..MaxTime
    BY <1>0, <1>3, RetentionAssumption DEF RetentionTick
  <2> QED
    BY <1>3, <2>1, SameClientType
       DEF RetentionTick, TypeInv, RetentionTypeOK, ClientTypeOK, fileVars
<1>4. ASSUME NEW c \in Clients, NEW r \in Requests, StartRun(c, r)
      PROVE  TypeInv'
  <2>1. ClientTypeOK' /\ ClientOK'
    BY <1>4
       DEF StartRun, Proceed, AtStage, TypeInv, RetentionTypeOK, ClientOK, ClientTypeOK,
           Stages, Run
  <2> QED
    BY <1>4, <2>1
       DEF StartRun, TypeInv, RetentionTypeOK, ClientTypeOK, eventVars, fileVars
<1>5. ASSUME NEW c \in Clients, BeginOperation(c)
      PROVE  TypeInv'
  <2>1. stage[c] \in Run /\ stage[c] = "operation"
    BY <1>5 DEF BeginOperation, AtStage, Run
  <2>2. CASE End(c)
    <3>1. operation[req[c].op] # None
      BY <1>5, <2>1, <2>2 DEF BeginOperation, End, Proceed, TypeInv, RetentionTypeOK
    <3>2. operation[req[c].op] \in Result
      BY <2>1, <3>1, RequestType DEF TypeInv, RetentionTypeOK
    <3>3. Receipt(req[c], operation[req[c].op]) \in Result
      BY <2>1, <3>2, RequestType DEF Receipt, Result
    <3>4. replies' \subseteq Result
      BY <1>5, <3>1, <3>3 DEF BeginOperation, TypeInv, RetentionTypeOK
    <3> QED
      BY <1>5, <2>2, <3>4, EndType
         DEF BeginOperation, TypeInv, RetentionTypeOK, ClientTypeOK, eventVars, fileVars
  <2>3. CASE /\ Lock(c, {<<"operation", req[c].op>>})
             /\ Proceed(c, "select")
             /\ UNCHANGED <<req, source, chosen, replies>>
    <3>1. <<"operation", req[c].op>> \in Locks
      BY <2>1, RequestType DEF Locks
    <3>2. ClientTypeOK' /\ ClientOK'
      BY <2>1, <2>3, <3>1
         DEF Lock, Proceed, TypeInv, RetentionTypeOK, ClientOK, ClientTypeOK, Stages, Run
    <3> QED
      BY <1>5, <2>3, <3>2
         DEF BeginOperation, TypeInv, RetentionTypeOK, ClientTypeOK, eventVars, fileVars
  <2> QED
    BY <1>5, <2>2, <2>3 DEF BeginOperation
<1>6. ASSUME NEW c \in Clients, SelectBatch(c)
      PROVE  TypeInv'
  <2> DEFINE S == Oldest(Selectable(c), req[c].limit)
             L == {<<"event", e>> : e \in S}
  <2>1. S \subseteq Rows
    BY OldestType DEF Selectable
  <2>2. L \subseteq Locks
    BY <2>1 DEF Locks
  <2>3. /\ chosen' = [chosen EXCEPT ![c] = S]
        /\ locks' = [locks EXCEPT ![c] = @ \cup L]
        /\ stage' = [stage EXCEPT ![c] = IF S = {} THEN "commit" ELSE "archive"]
        /\ stage[c] = "select" /\ UNCHANGED <<req, source>>
    BY <1>6 DEF SelectBatch, Lock, Proceed, AtStage
  <2> HIDE DEF S, L
  <2>4. ClientTypeOK' /\ ClientOK'
    BY <2>1, <2>2, <2>3 DEF TypeInv, RetentionTypeOK, ClientOK, ClientTypeOK, Stages, Run
  <2> QED
    BY <1>6, <2>4
       DEF SelectBatch, TypeInv, RetentionTypeOK, ClientTypeOK, eventVars, fileVars
<1>7. ASSUME NEW c \in Clients, SaveArchive(c)
      PROVE  TypeInv'
  <2>1. stage[c] \in Run /\ stage[c] = "archive"
    BY <1>7 DEF SaveArchive, AtStage, Run
  <2>2. files' \in [Paths -> (SUBSET Rows) \cup {None}]
    BY <1>7 DEF SaveArchive, TypeInv, RetentionTypeOK
  <2>3. ClientTypeOK' /\ ClientOK'
    <3>1. CASE Proceed(c, "sync") /\ UNCHANGED <<req, source, chosen, locks>>
      BY <2>1, <3>1
         DEF Proceed, TypeInv, RetentionTypeOK, ClientOK, ClientTypeOK, Stages, Run
    <3> QED
      BY <1>7, <3>1, EndType DEF SaveArchive
  <2> QED
    BY <1>7, <2>2, <2>3 DEF SaveArchive, TypeInv, RetentionTypeOK, ClientTypeOK, eventVars
<1>8. ASSUME NEW c \in Clients, SyncArchiveDirectory(c)
      PROVE  TypeInv'
  <2>1. stage[c] \in Run /\ stage[c] = "sync"
    BY <1>8 DEF SyncArchiveDirectory, AtStage, Run
  <2>2. durable' \subseteq Paths
    BY <1>8, <2>1, RequestType DEF SyncArchiveDirectory, Synced, TypeInv, RetentionTypeOK
  <2>3. ClientTypeOK' /\ ClientOK'
    BY <1>8, <2>1
       DEF SyncArchiveDirectory, Proceed, TypeInv, RetentionTypeOK, ClientOK,
           ClientTypeOK, Stages, Run
  <2> QED
    BY <1>8, <2>2, <2>3
       DEF SyncArchiveDirectory, TypeInv, RetentionTypeOK, ClientTypeOK, eventVars
<1>9. ASSUME NEW c \in Clients, Commit(c)
      PROVE  TypeInv'
  <2> DEFINE row == [request |-> req[c],
                     outcome |-> RunOutcome(chosen[c]),
                     archived |-> chosen[c]]
  <2>1. stage[c] \in Run
    BY <1>9 DEF Commit, AtStage, Run
  <2>2. row \in Result
    BY <2>1, RequestType DEF RunOutcome, Result, TypeInv, RetentionTypeOK
  <2>3. /\ operation' = [operation EXCEPT ![req[c].op] = row]
        /\ replies' \in {replies, replies \cup {row}}
    BY <1>9 DEF Commit
  <2> HIDE DEF row
  <2>4. operation' \in [Operations -> Result \cup {None}] /\ replies' \subseteq Result
    BY <2>2, <2>3 DEF TypeInv, RetentionTypeOK
  <2>5. event' \in [Rows -> EventState]
    BY <1>9 DEF Commit, EventState, TypeInv, RetentionTypeOK
  <2> QED
    BY <1>9, <2>4, <2>5, EndType
       DEF Commit, TypeInv, RetentionTypeOK, ClientTypeOK, fileVars
<1>10. ASSUME NEW c \in Clients, NEW e \in Rows, LockDelivery(c, e)
       PROVE  TypeInv'
  <2>1. <<"delivery", e>> \in Locks
    BY DEF Locks
  <2>2. ClientTypeOK' /\ ClientOK'
    BY <1>10, <2>1
       DEF LockDelivery, Lock, Proceed, AtStage, TypeInv, RetentionTypeOK, ClientOK,
           ClientTypeOK, Stages, Run
  <2> QED
    BY <1>10, <2>2
       DEF LockDelivery, TypeInv, RetentionTypeOK, ClientTypeOK, eventVars, fileVars
<1>11. ASSUME NEW c \in Clients, LockEvent(c)
       PROVE  TypeInv'
  <2>1. stage[c] = "event" /\ source[c] \in Rows
    BY <1>11 DEF LockEvent, AtStage, TypeInv, ClientOK
  <2>2. <<"event", source[c]>> \in Locks
    BY <2>1 DEF Locks
  <2>3. ClientTypeOK' /\ ClientOK'
    BY <1>11, <2>1, <2>2
       DEF LockEvent, Lock, Proceed, TypeInv, RetentionTypeOK, ClientOK, ClientTypeOK,
           Stages, Run
  <2> QED
    BY <1>11, <2>3
       DEF LockEvent, TypeInv, RetentionTypeOK, ClientTypeOK, eventVars, fileVars
<1>12. ASSUME NEW c \in Clients, NEW f \in Rows, Redeliver(c, f)
       PROVE  TypeInv'
  BY <1>12, EndType
     DEF Redeliver, InsertEvent, TypeInv, RetentionTypeOK, ClientTypeOK, EventState,
         fileVars
<1>13. ASSUME NEW c \in Clients, Abort(c)
       PROVE  TypeInv'
  BY <1>13, EndType DEF Abort, TypeInv, RetentionTypeOK, ClientTypeOK, eventVars, fileVars
<1>14. CASE PowerLoss
  <2>1. ClientTypeOK' /\ ClientOK'
    BY <1>14 DEF PowerLoss, ClientTypeOK, ClientOK, Stages, Run
  <2>2. files' \in [Paths -> (SUBSET Rows) \cup {None}]
    BY <1>14 DEF PowerLoss, TypeInv, RetentionTypeOK
  <2> QED
    BY <1>14, <2>1, <2>2 DEF PowerLoss, TypeInv, RetentionTypeOK, ClientTypeOK, eventVars
<1>15. CASE UNCHANGED retentionVars
  BY <1>15, SameClientType
     DEF retentionVars, eventVars, fileVars, TypeInv, RetentionTypeOK, ClientTypeOK
<1> QED
  BY <1>1, <1>2, <1>3, <1>4, <1>5, <1>6, <1>7, <1>8, <1>9, <1>10, <1>11, <1>12, <1>13,
     <1>14, <1>15 DEF RetentionNext

LEMMA AlwaysTypeInv == RetentionSpec => []TypeInv
  BY InitTypeInv, NextTypeInv, PTL DEF RetentionSpec

(* Runs, redeliveries and lost files keep every value in its type.         *)
THEOREM RetentionTypeCorrect == RetentionSpec => []RetentionTypeOK
<1>1. TypeInv => RetentionTypeOK
  BY DEF TypeInv
<1> QED
  BY <1>1, AlwaysTypeInv, PTL

-----------------------------------------------------------------------------
(* What the steps have in common.                                          *)

Step(c) ==
    \/ \E r \in Requests : StartRun(c, r)
    \/ BeginOperation(c)
    \/ SelectBatch(c)
    \/ SaveArchive(c)
    \/ SyncArchiveDirectory(c)
    \/ Commit(c)
    \/ \E e \in Rows : LockDelivery(c, e)
    \/ LockEvent(c)
    \/ \E f \in Rows : Redeliver(c, f)
    \/ Abort(c)

Outside ==
    \/ \E e \in Rows : PublishEvent(e) \/ CompleteEvent(e)
    \/ RetentionTick
    \/ UNCHANGED retentionVars

LEMMA StepCases ==
  [RetentionNext]_retentionVars => Outside \/ PowerLoss \/ \E c \in Clients : Step(c)
  BY DEF RetentionNext, Outside, Step

LEMMA OutsideStep ==
  ASSUME Outside
  PROVE  UNCHANGED <<operation, fileVars, clientVars, replies>>
  BY DEF Outside, PublishEvent, CompleteEvent, RetentionTick, retentionVars

SameClient(d) ==
    /\ stage'[d] = stage[d] /\ req'[d] = req[d] /\ chosen'[d] = chosen[d] /\ locks'[d] = locks[d]

(* A step of one client leaves the others where they are.                  *)
LEMMA OthersStay ==
  ASSUME TypeInv, NEW c \in Clients, Step(c), NEW d \in Clients, d # c
  PROVE  SameClient(d)
<1>1. CASE End(c)
  BY <1>1 DEF End, Proceed, SameClient, TypeInv, RetentionTypeOK
<1>2. CASE \/ \E r \in Requests : StartRun(c, r)
           \/ SyncArchiveDirectory(c)
           \/ \E e \in Rows : LockDelivery(c, e)
           \/ LockEvent(c)
  BY <1>2
     DEF StartRun, SyncArchiveDirectory, LockDelivery, LockEvent, Proceed, Lock,
         SameClient,
              TypeInv, RetentionTypeOK
<1>3. CASE BeginOperation(c) \/ SelectBatch(c) \/ SaveArchive(c)
  BY <1>1, <1>3 DEF BeginOperation, SelectBatch, SaveArchive, Proceed, Lock, SameClient,
                    TypeInv, RetentionTypeOK
<1>4. CASE Commit(c) \/ (\E f \in Rows : Redeliver(c, f)) \/ Abort(c)
  BY <1>1, <1>4 DEF Commit, Redeliver, Abort
<1> QED
  BY <1>1, <1>2, <1>3, <1>4 DEF Step

(* A row is locked when nobody else holds it.                              *)
LEMMA LockStep ==
  ASSUME TypeInv, NEW c \in Clients, Step(c), NEW l \in locks'[c]
  PROVE  l \in locks[c] \/ Free(c, l)
<1>1. CASE End(c)
  BY <1>1 DEF End, TypeInv, RetentionTypeOK
<1>2. CASE UNCHANGED locks
  BY <1>2
<1>3. CASE (\E r \in Requests : StartRun(c, r)) \/ SyncArchiveDirectory(c)
  BY <1>2, <1>3 DEF StartRun, SyncArchiveDirectory
<1>4. CASE SaveArchive(c)
  BY <1>1, <1>2, <1>4 DEF SaveArchive
<1>8. ASSUME NEW k, locks' = [locks EXCEPT ![c] = @ \cup {k}], Free(c, k)
      PROVE  l \in locks[c] \/ Free(c, l)
  <2>1. l \in locks[c] \/ l = k
    BY <1>8 DEF TypeInv, RetentionTypeOK
  <2> QED
    BY <1>8, <2>1
<1>9. CASE BeginOperation(c)
  BY <1>1, <1>8, <1>9 DEF BeginOperation, Lock
<1>5. CASE (\E e \in Rows : LockDelivery(c, e)) \/ LockEvent(c)
  BY <1>5, <1>8 DEF LockDelivery, LockEvent, Lock
<1>6. CASE SelectBatch(c)
  <2> DEFINE S == Oldest(Selectable(c), req[c].limit)
             L == {<<"event", e>> : e \in S}
  <2>1. locks' = [locks EXCEPT ![c] = @ \cup L]
    BY <1>6 DEF SelectBatch, Lock
  <2>2. \A k \in L : Free(c, k)
    BY OldestType DEF Selectable
  <2> HIDE DEF L
  <2> QED
    BY <2>1, <2>2 DEF TypeInv, RetentionTypeOK
<1>7. CASE Commit(c) \/ (\E f \in Rows : Redeliver(c, f)) \/ Abort(c)
  BY <1>1, <1>7 DEF Commit, Redeliver, Abort
<1> QED
  BY <1>3, <1>4, <1>5, <1>6, <1>7, <1>9 DEF Step

(* Completed events change only when they are deleted.                     *)
LEMMA EventStep ==
  ASSUME TypeInv, [RetentionNext]_retentionVars,
         NEW e \in Rows, event[e] \in {"completed", "deleted"}
  PROVE  /\ completedAt'[e] = completedAt[e]
         /\ e \in succeeded => e \in succeeded'
         /\ \/ event'[e] = event[e]
            \/ \E c \in Clients : Commit(c) /\ e \in chosen[c] /\ event'[e] = "deleted"
<1>1. CASE UNCHANGED eventVars
  BY <1>1 DEF eventVars
<1>2. ASSUME NEW f \in Rows, PublishEvent(f) \/ CompleteEvent(f)
      PROVE  /\ event'[e] = event[e] /\ completedAt'[e] = completedAt[e]
             /\ succeeded \subseteq succeeded'
  BY <1>2 DEF PublishEvent, InsertEvent, CompleteEvent, TypeInv, RetentionTypeOK
<1>3. CASE RetentionTick
  BY <1>3 DEF RetentionTick
<1>4. ASSUME NEW c \in Clients, NEW f \in Rows, Redeliver(c, f)
      PROVE  event'[e] = event[e] /\ UNCHANGED <<completedAt, succeeded>>
  BY <1>4 DEF Redeliver, InsertEvent, TypeInv, RetentionTypeOK
<1>5. ASSUME NEW c \in Clients, Commit(c)
      PROVE  /\ event'[e] = event[e] \/ (e \in chosen[c] /\ event'[e] = "deleted")
             /\ UNCHANGED <<completedAt, succeeded>>
  BY <1>5 DEF Commit
<1>6. ASSUME NEW c \in Clients,
             \/ \E r \in Requests : StartRun(c, r)
             \/ BeginOperation(c) \/ SelectBatch(c) \/ SaveArchive(c)
             \/ SyncArchiveDirectory(c)
             \/ \E f \in Rows : LockDelivery(c, f)
             \/ LockEvent(c) \/ Abort(c)
      PROVE  UNCHANGED eventVars
  BY <1>6 DEF StartRun, BeginOperation, SelectBatch, SaveArchive, SyncArchiveDirectory,
              LockDelivery, LockEvent, Abort
<1>7. CASE PowerLoss \/ UNCHANGED retentionVars
  BY <1>1, <1>7 DEF PowerLoss, retentionVars
<1> QED
  BY <1>1, <1>2, <1>3, <1>4, <1>5, <1>6, <1>7 DEF RetentionNext

(* Where a step leaves the client that takes it.                           *)
LEMMA OwnStep ==
  ASSUME TypeInv, NEW c \in Clients, Step(c)
  PROVE  \/ stage'[c] \notin Run \ {"operation"} /\ chosen'[c] = {}
         \/ /\ BeginOperation(c) /\ stage'[c] = "select"
            /\ req'[c] = req[c] /\ chosen'[c] = {}
            /\ operation[req[c].op] = None /\ UNCHANGED operation
            /\ locks'[c] = locks[c] \cup {<<"operation", req[c].op>>}
         \/ /\ SelectBatch(c) /\ stage[c] = "select" /\ stage'[c] \in {"archive", "commit"}
            /\ stage'[c] = "commit" => chosen'[c] = {}
            /\ req'[c] = req[c]
            /\ chosen'[c] = Oldest(Selectable(c), req[c].limit)
            /\ locks'[c] = locks[c] \cup {<<"event", e>> : e \in chosen'[c]}
         \/ /\ SaveArchive(c) /\ stage[c] = "archive" /\ stage'[c] = "sync"
            /\ files'[req[c].path] = chosen[c]
            /\ req'[c] = req[c] /\ chosen'[c] = chosen[c] /\ locks'[c] = locks[c]
         \/ /\ SyncArchiveDirectory(c) /\ stage[c] = "sync" /\ stage'[c] = "commit"
            /\ req'[c] = req[c] /\ chosen'[c] = chosen[c] /\ locks'[c] = locks[c]
<1>1. CASE End(c)
  BY <1>1 DEF End, Proceed, Run, TypeInv, RetentionTypeOK
<1>2. CASE \/ \E r \in Requests : StartRun(c, r)
           \/ \E e \in Rows : LockDelivery(c, e)
           \/ LockEvent(c)
  BY <1>2
     DEF StartRun, LockDelivery, LockEvent, Proceed, AtStage, Run, TypeInv,
         RetentionTypeOK, ClientOK
<1>3. CASE BeginOperation(c)
  <2>1. CASE /\ Lock(c, {<<"operation", req[c].op>>})
             /\ Proceed(c, "select")
             /\ UNCHANGED <<req, source, chosen, replies>>
    <3>1. /\ stage[c] = "operation" /\ UNCHANGED operation
      BY <1>3 DEF BeginOperation, AtStage
    <3>2. stage'[c] = "select" /\ req'[c] = req[c] /\ chosen'[c] = {}
      BY <2>1, <3>1 DEF Proceed, TypeInv, RetentionTypeOK, ClientOK
    <3>3. locks'[c] = locks[c] \cup {<<"operation", req[c].op>>}
      BY <2>1 DEF Lock, TypeInv, RetentionTypeOK
    <3>4. operation[req[c].op] = None
      BY <1>3, <3>2 DEF BeginOperation, End, Proceed, TypeInv, RetentionTypeOK
    <3> QED
      BY <1>3, <3>1, <3>2, <3>3, <3>4
  <2> QED
    BY <1>1, <1>3, <2>1 DEF BeginOperation
<1>4. CASE SelectBatch(c)
  <2> DEFINE S == Oldest(Selectable(c), req[c].limit)
             L == {<<"event", e>> : e \in S}
  <2>1. /\ chosen' = [chosen EXCEPT ![c] = S]
        /\ locks' = [locks EXCEPT ![c] = @ \cup L]
        /\ stage' = [stage EXCEPT ![c] = IF S = {} THEN "commit" ELSE "archive"]
        /\ stage[c] = "select" /\ UNCHANGED req
    BY <1>4 DEF SelectBatch, Lock, Proceed, AtStage
  <2> HIDE DEF L
  <2>2. /\ chosen'[c] = S /\ locks'[c] = locks[c] \cup L
        /\ stage'[c] \in {"archive", "commit"} /\ (stage'[c] = "commit" => S = {})
    BY <2>1 DEF TypeInv, RetentionTypeOK
  <2> QED
    BY <1>4, <2>1, <2>2 DEF L
<1>5. CASE SaveArchive(c)
  <2>1. CASE Proceed(c, "sync") /\ UNCHANGED <<req, source, chosen, locks>>
                             /\ files' = [files EXCEPT ![req[c].path] = chosen[c]]
    <3>1. stage[c] = "archive" /\ req[c].path \in Paths
      BY <1>5, RequestType DEF SaveArchive, AtStage, Run
    <3> QED
      BY <1>5, <2>1, <3>1 DEF Proceed, TypeInv, RetentionTypeOK
  <2> QED
    BY <1>1, <1>5, <2>1 DEF SaveArchive
<1>6. CASE SyncArchiveDirectory(c)
  BY <1>6 DEF SyncArchiveDirectory, Proceed, AtStage, TypeInv, RetentionTypeOK
<1>7. CASE Commit(c) \/ (\E f \in Rows : Redeliver(c, f)) \/ Abort(c)
  BY <1>1, <1>7 DEF Commit, Redeliver, Abort
<1> QED
  BY <1>2, <1>3, <1>4, <1>5, <1>6, <1>7 DEF Step

-----------------------------------------------------------------------------
(* Row locks.                                                              *)

LEMMA NextLockInv == TypeInv /\ LockInv /\ [RetentionNext]_retentionVars => LockInv'
<1> SUFFICES ASSUME TypeInv, LockInv, [RetentionNext]_retentionVars
             PROVE  LockInv'
  OBVIOUS
<1>1. CASE Outside
  BY <1>1, OutsideStep DEF LockInv, clientVars
<1>2. CASE PowerLoss
  BY <1>2 DEF PowerLoss, LockInv, Run
<1>3. ASSUME NEW c \in Clients, Step(c)
      PROVE  LockInv'
  <2>1. \A d \in Clients : d # c => SameClient(d)
    BY <1>3, OthersStay
  <2>2. \A d \in Clients : d # c => locks'[c] \cap locks'[d] = {}
    <3> SUFFICES ASSUME NEW d \in Clients, d # c, NEW l \in locks'[c], l \in locks'[d]
                 PROVE  FALSE
      OBVIOUS
    <3>1. l \in locks[d]
      BY <2>1 DEF SameClient
    <3>2. l \notin locks[c]
      BY <3>1 DEF LockInv
    <3> QED
      BY <1>3, <3>1, <3>2, LockStep DEF Free
  <2>3. \A d, e \in Clients : d # e => locks'[d] \cap locks'[e] = {}
    BY <2>1, <2>2 DEF LockInv, SameClient
  <2>4. /\ stage'[c] \in Run \ {"operation"} => <<"operation", req'[c].op>> \in locks'[c]
        /\ \A e \in chosen'[c] : <<"event", e>> \in locks'[c]
    BY <1>3, OwnStep DEF LockInv, Run
  <2> QED
    BY <2>1, <2>3, <2>4 DEF LockInv, SameClient
<1> QED
  BY <1>1, <1>2, <1>3, StepCases

(* A result is recorded by the run that holds the operation.               *)
LEMMA ResultStep ==
  ASSUME TypeInv, LockInv, [RetentionNext]_retentionVars, NEW o \in Operations
  PROVE  \/ operation'[o] = operation[o]
         \/ \E c \in Clients : /\ Commit(c) /\ o = req[c].op
                               /\ <<"operation", o>> \in locks[c]
<1>1. CASE UNCHANGED operation
  BY <1>1
<1>2. ASSUME NEW c \in Clients, Commit(c)
      PROVE  operation'[o] = operation[o] \/ (o = req[c].op /\ <<"operation", o>> \in locks[c])
  <2>1. <<"operation", req[c].op>> \in locks[c]
    BY <1>2 DEF Commit, AtStage, LockInv, Run
  <2> QED
    BY <1>2, <2>1 DEF Commit, TypeInv, RetentionTypeOK
<1>3. ASSUME NEW c \in Clients, Step(c), ~Commit(c)
      PROVE  UNCHANGED operation
  BY <1>3
     DEF Step, StartRun, BeginOperation, SelectBatch, SaveArchive, SyncArchiveDirectory,
              LockDelivery, LockEvent, Redeliver, Abort
<1> QED
  BY <1>1, <1>2, <1>3, StepCases, OutsideStep DEF PowerLoss

LEMMA NextRunInv == TypeInv /\ LockInv /\ RunInv /\ [RetentionNext]_retentionVars => RunInv'
<1> SUFFICES ASSUME TypeInv, LockInv, RunInv, [RetentionNext]_retentionVars
             PROVE  RunInv'
  OBVIOUS
<1>0. \A c, d \in Clients : c # d => locks[c] \cap locks[d] = {}
  BY DEF LockInv
<1>1. ASSUME NEW d \in Clients, ~Commit(d), stage[d] \in Run \ {"operation"}
      PROVE  operation'[req[d].op] = None
  <2>1. req[d].op \in Operations /\ operation[req[d].op] = None
    BY <1>1, RequestType DEF RunInv
  <2>2. <<"operation", req[d].op>> \in locks[d]
    BY <1>1 DEF LockInv
  <2> QED
    BY <1>0, <1>1, <2>1, <2>2, ResultStep
<1>2. ASSUME NEW d \in Clients, ~Commit(d), NEW e \in chosen[d]
      PROVE  event'[e] = "completed" /\ completedAt'[e] < req[d].before /\ e \in succeeded'
  <2>1. e \in Rows /\ Eligible(e, req[d].before)
    BY DEF RunInv, TypeInv, RetentionTypeOK
  <2>2. /\ <<"event", e>> \in locks[d]
        /\ \A c \in Clients : e \in chosen[c] => <<"event", e>> \in locks[c]
    BY DEF LockInv
  <2>3. event'[e] = "completed" /\ completedAt'[e] = completedAt[e] /\ e \in succeeded'
    BY <1>0, <1>2, <2>1, <2>2, EventStep DEF Eligible
  <2> QED
    BY <2>1, <2>3 DEF Eligible
<1>3. ASSUME NEW d \in Clients, ~Commit(d), SameClient(d)
      PROVE  /\ stage'[d] \in Run \ {"operation"} => operation'[req'[d].op] = None
             /\ \A e \in chosen'[d] :
                   /\ event'[e] = "completed" /\ completedAt'[e] < req'[d].before
                   /\ e \in succeeded'
  BY <1>1, <1>2, <1>3 DEF SameClient, Eligible
<1>4. CASE Outside
  <2>1. \A d \in Clients : SameClient(d)
    BY <1>4, OutsideStep DEF clientVars, SameClient
  <2>2. \A d \in Clients : ~Commit(d)
    BY <2>1 DEF SameClient, Commit, End, Proceed, AtStage, TypeInv, RetentionTypeOK
  <2> QED
    BY <2>1, <2>2, <1>3 DEF RunInv, Eligible
<1>5. CASE PowerLoss
  BY <1>5 DEF PowerLoss, RunInv, Run
<1>6. ASSUME NEW c \in Clients, Step(c)
      PROVE  RunInv'
  <2>1. \A d \in Clients : d # c => SameClient(d) /\ ~Commit(d)
    BY <1>6, OthersStay
       DEF SameClient, Commit, End, Proceed, AtStage, TypeInv, RetentionTypeOK
  <2>2. /\ stage'[c] \in Run \ {"operation"} => operation'[req'[c].op] = None
        /\ \A e \in chosen'[c] :
              /\ event'[e] = "completed" /\ completedAt'[e] < req'[c].before
              /\ e \in succeeded'
    <3>1. CASE stage'[c] \notin Run \ {"operation"} /\ chosen'[c] = {}
      BY <3>1
    <3>2. CASE /\ BeginOperation(c) /\ req'[c] = req[c] /\ chosen'[c] = {}
               /\ operation[req[c].op] = None /\ UNCHANGED operation
      BY <3>2
    <3>3. CASE /\ SelectBatch(c) /\ stage[c] = "select" /\ req'[c] = req[c]
               /\ chosen'[c] = Oldest(Selectable(c), req[c].limit)
      <4>1. ~Commit(c)
        BY <3>3 DEF Commit, AtStage
      <4>2. operation'[req'[c].op] = None
        BY <1>1, <3>3, <4>1 DEF Run
      <4>3. UNCHANGED eventVars
        BY <3>3 DEF SelectBatch
      <4>4. \A e \in chosen'[c] : Eligible(e, req[c].before)
        BY <3>3, OldestType DEF Selectable
      <4> QED
        BY <3>3, <4>2, <4>3, <4>4 DEF eventVars, Eligible
    <3>4. CASE /\ stage[c] \in {"archive", "sync"}
               /\ req'[c] = req[c] /\ chosen'[c] = chosen[c] /\ locks'[c] = locks[c]
      <4>1. ~Commit(c)
        BY <3>4 DEF Commit, AtStage
      <4> QED
        BY <1>1, <1>2, <3>4, <4>1 DEF Run, Eligible
    <3> QED
      BY <1>6, <3>1, <3>2, <3>3, <3>4, OwnStep
  <2> QED
    BY <1>3, <2>1, <2>2 DEF RunInv, Eligible
<1> QED
  BY <1>4, <1>5, <1>6, StepCases

-----------------------------------------------------------------------------
(* Archive files.                                                          *)

(* A file that is there stays, unless it is lost before it is on disk.     *)
LEMMA FileStep ==
  ASSUME TypeInv, [RetentionNext]_retentionVars, NEW p \in Paths, files[p] \in SUBSET Rows
  PROVE  /\ durable \subseteq durable'
         /\ files'[p] = files[p] \/ (PowerLoss /\ p \notin durable)
<1>1. CASE UNCHANGED fileVars
  BY <1>1 DEF fileVars
<1>2. ASSUME NEW c \in Clients, SaveArchive(c)
      PROVE  files'[p] = files[p] /\ UNCHANGED durable
  BY <1>2, RetentionAssumption DEF SaveArchive, Writable, TypeInv, RetentionTypeOK
<1>3. ASSUME NEW c \in Clients, SyncArchiveDirectory(c)
      PROVE  UNCHANGED files /\ durable \subseteq durable'
  BY <1>3 DEF SyncArchiveDirectory, Synced
<1>4. CASE PowerLoss
  BY <1>4 DEF PowerLoss
<1>5. ASSUME NEW c \in Clients, Step(c), ~SaveArchive(c), ~SyncArchiveDirectory(c)
      PROVE  UNCHANGED fileVars
  BY <1>5
     DEF Step, StartRun, BeginOperation, SelectBatch, Commit, LockDelivery, LockEvent,
              Redeliver, Abort
<1> QED
  BY <1>1, <1>2, <1>3, <1>4, <1>5, StepCases, OutsideStep

LEMMA NextFileInv == TypeInv /\ FileInv /\ [RetentionNext]_retentionVars => FileInv'
<1> SUFFICES ASSUME TypeInv, FileInv, [RetentionNext]_retentionVars
             PROVE  FileInv'
  OBVIOUS
<1>1. \A p \in durable : p \in Paths /\ files[p] \in SUBSET Rows
  BY DEF FileInv, TypeInv, RetentionTypeOK
<1>2. \A p \in durable : p \in durable' /\ files'[p] = files[p]
  BY <1>1, FileStep
<1>3. \A d \in Clients : chosen[d] \in SUBSET Rows
  BY DEF TypeInv, RetentionTypeOK
<1>4. ASSUME NEW d \in Clients, ~PowerLoss, stage[d] \in {"sync", "commit"},
             stage'[d] = stage[d], req'[d] = req[d], chosen'[d] = chosen[d]
      PROVE  /\ stage'[d] = "sync" => files'[req'[d].path] = chosen'[d]
             /\ stage'[d] = "commit" /\ chosen'[d] # {} =>
                   req'[d].path \in durable' /\ files'[req'[d].path] = chosen'[d]
  <2>1. req[d].path \in Paths
    BY <1>4, RequestType DEF Run
  <2>2. CASE stage[d] = "sync"
    BY <1>3, <1>4, <2>1, <2>2, FileStep DEF FileInv, AtStage
  <2>3. CASE stage[d] = "commit"
    BY <1>2, <1>4, <2>3 DEF FileInv, AtStage
  <2> QED
    BY <1>4, <2>2, <2>3
<1>5. CASE Outside
  BY <1>5, OutsideStep DEF FileInv, AtStage, fileVars, clientVars
<1>6. CASE PowerLoss
  BY <1>1, <1>2, <1>6 DEF PowerLoss, FileInv, AtStage
<1>7. ASSUME NEW c \in Clients, Step(c)
      PROVE  FileInv'
  <2>1. ~PowerLoss \/ FileInv'
    BY <1>6
  <2>2. \A d \in Clients : d # c => SameClient(d)
    BY <1>7, OthersStay
  <2>3. ASSUME ~PowerLoss, NEW d \in Clients, d # c
        PROVE  /\ AtStage(d, "sync")' => files'[req'[d].path] = chosen'[d]
               /\ AtStage(d, "commit")' /\ chosen'[d] # {} =>
                     req'[d].path \in durable' /\ files'[req'[d].path] = chosen'[d]
    BY <1>4, <2>2, <2>3 DEF SameClient, AtStage
  <2>4. /\ AtStage(c, "sync")' => files'[req'[c].path] = chosen'[c]
        /\ AtStage(c, "commit")' /\ chosen'[c] # {} =>
              req'[c].path \in durable' /\ files'[req'[c].path] = chosen'[c]
    <3>1. CASE SyncArchiveDirectory(c) /\ stage[c] = "sync" /\ stage'[c] = "commit"
               /\ req'[c] = req[c] /\ chosen'[c] = chosen[c]
      <4>1. UNCHANGED files /\ req[c].path \in durable' /\ files[req[c].path] = chosen[c]
        BY <3>1 DEF SyncArchiveDirectory, Synced, FileInv, AtStage
      <4> QED
        BY <3>1, <4>1 DEF AtStage
    <3> QED
      BY <1>7, <3>1, OwnStep DEF AtStage, Run
  <2>5. \A p \in durable' : files'[p] \in SUBSET Rows
    <3>1. CASE durable' = durable
      BY <1>1, <1>2, <3>1
    <3>2. CASE SyncArchiveDirectory(c)
      <4>1. /\ UNCHANGED files /\ durable' = durable \cup {req[c].path}
            /\ files[req[c].path] = chosen[c]
        BY <3>2 DEF SyncArchiveDirectory, Synced, FileInv
      <4> QED
        BY <1>1, <1>3, <4>1
    <3>3. CASE Step(c) /\ ~SyncArchiveDirectory(c)
      BY <3>1, <3>3 DEF Step, StartRun, BeginOperation, SelectBatch, SaveArchive, Commit,
                        LockDelivery, LockEvent, Redeliver, Abort, fileVars
    <3> QED
      BY <1>7, <3>2, <3>3
  <2> QED
    BY <2>1, <2>3, <2>4, <2>5 DEF FileInv
<1> QED
  BY <1>5, <1>6, <1>7, StepCases

(* Neither a run nor a lost directory entry changes an archive on disk.    *)
THEOREM ArchivesStay == RetentionSpec => ArchivesAreKept
<1>1. RetentionInit => FileInv
  BY DEF RetentionInit, FileInv, AtStage
<1>2. TypeInv /\ FileInv /\ [RetentionNext]_retentionVars =>
         [\A p \in durable : files'[p] = files[p]]_retentionVars
  BY FileStep DEF FileInv, TypeInv, RetentionTypeOK
<1> QED
  BY <1>1, <1>2, NextFileInv, AlwaysTypeInv, PTL DEF RetentionSpec, ArchivesAreKept

-----------------------------------------------------------------------------
(* What is deleted.                                                        *)

AllInv == TypeInv /\ LockInv /\ RunInv /\ FileInv

StoreInv == DeletedIsArchived /\ PrunedOnce /\ OnlyDeliveredIsPruned

LEMMA AlwaysAllInv == RetentionSpec => []AllInv
<1>1. RetentionInit => AllInv
  BY InitTypeInv DEF RetentionInit, AllInv, LockInv, RunInv, FileInv, Run, AtStage
<1>2. AllInv /\ [RetentionNext]_retentionVars => AllInv'
  BY NextTypeInv, NextLockInv, NextRunInv, NextFileInv DEF AllInv
<1> QED
  BY <1>1, <1>2, PTL DEF RetentionSpec

(* Only a run deletes.                                                     *)
LEMMA DeleteStep ==
  ASSUME TypeInv, [RetentionNext]_retentionVars, \A c \in Clients : ~Commit(c),
         NEW e \in Rows, event'[e] = "deleted"
  PROVE  event[e] = "deleted"
<1>1. CASE UNCHANGED event
  BY <1>1
<1>2. ASSUME NEW f \in Rows,
             \/ PublishEvent(f) \/ CompleteEvent(f)
             \/ \E c \in Clients : Redeliver(c, f)
      PROVE  event[e] = "deleted"
  BY <1>2
     DEF PublishEvent, CompleteEvent, Redeliver, InsertEvent, TypeInv, RetentionTypeOK
<1>3. CASE RetentionTick \/ PowerLoss \/ UNCHANGED retentionVars
  BY <1>1, <1>3 DEF RetentionTick, PowerLoss, retentionVars, eventVars
<1>4. ASSUME NEW c \in Clients,
             \/ \E r \in Requests : StartRun(c, r)
             \/ BeginOperation(c) \/ SelectBatch(c) \/ SaveArchive(c)
             \/ SyncArchiveDirectory(c)
             \/ \E f \in Rows : LockDelivery(c, f)
             \/ LockEvent(c) \/ Abort(c)
      PROVE  UNCHANGED event
  BY <1>4 DEF StartRun, BeginOperation, SelectBatch, SaveArchive, SyncArchiveDirectory,
              LockDelivery, LockEvent, Abort, eventVars
<1> QED
  BY <1>1, <1>2, <1>3, <1>4 DEF RetentionNext

LEMMA ResultStays ==
  ASSUME AllInv, [RetentionNext]_retentionVars
  PROVE  \A o \in Operations : operation[o] # None => operation'[o] = operation[o]
  BY ZenonT(60), ResultStep DEF AllInv, RunInv, Commit, AtStage, Run

(* What was archived and deleted stays so in every step.                   *)
LEMMA KeptStep ==
  ASSUME AllInv, StoreInv, [RetentionNext]_retentionVars,
         NEW o \in Operations, operation[o] # None
  PROVE  /\ operation'[o] = operation[o]
         /\ operation[o].archived \subseteq Rows
         /\ \A e \in operation[o].archived :
               /\ event[e] = "deleted" /\ event'[e] = "deleted"
               /\ e \in succeeded' /\ completedAt'[e] < operation[o].request.before
<1>1. operation'[o] = operation[o]
  BY ResultStays
<1>2. operation[o].archived \subseteq Rows
  BY DEF AllInv, TypeInv, RetentionTypeOK, Result
<1>3. ASSUME NEW e \in operation[o].archived
      PROVE  /\ event[e] = "deleted" /\ event'[e] = "deleted"
             /\ e \in succeeded' /\ completedAt'[e] < operation[o].request.before
  <2>1. e \in Rows /\ event[e] = "deleted"
    BY <1>2 DEF StoreInv, PrunedOnce
  <2>2. e \in succeeded /\ completedAt[e] < operation[o].request.before
    BY DEF StoreInv, OnlyDeliveredIsPruned
  <2> QED
    BY <2>1, <2>2, EventStep DEF AllInv
<1> QED
  BY <1>1, <1>2, <1>3

LEMMA NextStoreInv == AllInv /\ StoreInv /\ [RetentionNext]_retentionVars => StoreInv'
<1> SUFFICES ASSUME AllInv, StoreInv, [RetentionNext]_retentionVars
             PROVE  StoreInv'
  OBVIOUS
<1>0. TypeInv
  BY DEF AllInv
<1>1. ASSUME NEW e \in Rows, event[e] = "deleted"
      PROVE  \E o \in Operations :
                /\ operation'[o] # None
                /\ e \in operation'[o].archived
                /\ operation'[o].request.path \in durable'
                /\ files'[operation'[o].request.path] = operation'[o].archived
  <2>1. PICK o \in Operations :
           /\ operation[o] # None
           /\ e \in operation[o].archived
           /\ operation[o].request.path \in durable
           /\ files[operation[o].request.path] = operation[o].archived
    BY <1>1 DEF StoreInv, DeletedIsArchived
  <2>2. operation[o].request.path \in Paths /\ operation[o].archived \subseteq Rows
    BY <1>0, <2>1 DEF TypeInv, RetentionTypeOK, Result
  <2>3. durable \subseteq durable' /\ files'[operation[o].request.path] = operation[o].archived
    BY <1>0, <2>1, <2>2, FileStep
  <2> QED
    BY <2>1, <2>3, KeptStep
<1>2. CASE \A c \in Clients : ~Commit(c)
  <2>1. UNCHANGED operation
    <3>1. \A o \in Operations : operation'[o] = operation[o]
      BY <1>0, <1>2, ResultStep DEF AllInv
    <3>2. operation' \in [Operations -> Result \cup {None}]
      BY <1>0, NextTypeInv DEF TypeInv, RetentionTypeOK
    <3> QED
      BY <1>0, <3>1, <3>2 DEF TypeInv, RetentionTypeOK
  <2>2. DeletedIsArchived'
    BY <1>0, <1>1, <1>2, DeleteStep DEF DeletedIsArchived
  <2>3. PrunedOnce'
    BY <2>1, KeptStep DEF StoreInv, PrunedOnce
  <2>4. OnlyDeliveredIsPruned'
    BY <2>1, KeptStep DEF OnlyDeliveredIsPruned
  <2> QED
    BY <2>2, <2>3, <2>4 DEF StoreInv
<1>3. ASSUME NEW c \in Clients, Commit(c)
      PROVE  StoreInv'
  <2> DEFINE own == req[c].op
             row == [request |-> req[c],
                     outcome |-> RunOutcome(chosen[c]),
                     archived |-> chosen[c]]
  <2>1. AtStage(c, "commit") /\ stage[c] \in Run \ {"operation"} /\ own \in Operations
    BY <1>0, <1>3, RequestType DEF Commit, AtStage, Run
  <2>2. operation[own] = None /\ operation'[own] = row
    BY <1>0, <1>3, <2>1 DEF Commit, AllInv, RunInv, TypeInv, RetentionTypeOK
  <2>3. row.archived = chosen[c] /\ row.request = req[c] /\ chosen[c] \subseteq Rows
    BY <1>0 DEF TypeInv, RetentionTypeOK
  <2> HIDE DEF row
  <2>4. \A o \in Operations : o # own => operation'[o] = operation[o]
    BY <1>3 DEF Commit
  <2>5. \A e \in chosen[c] : /\ event[e] = "completed" /\ event'[e] = "deleted"
                             /\ e \in succeeded' /\ completedAt'[e] < req[c].before
    BY <1>3, <2>3 DEF Commit, AllInv, RunInv, Eligible
  <2>6. DeletedIsArchived'
    <3> SUFFICES ASSUME NEW e \in Rows, event'[e] = "deleted"
                 PROVE  \E o \in Operations :
                           /\ operation'[o] # None
                           /\ e \in operation'[o].archived
                           /\ operation'[o].request.path \in durable'
                           /\ files'[operation'[o].request.path] = operation'[o].archived
      BY DEF DeletedIsArchived
    <3>1. CASE e \in chosen[c]
      <4>1. req[c].path \in durable /\ files[req[c].path] = chosen[c]
        BY <2>1, <3>1 DEF AllInv, FileInv
      <4>2. UNCHANGED fileVars
        BY <1>3 DEF Commit
      <4>3. row # None
        BY <1>0, <2>1, RequestType, RetentionAssumption
           DEF row, Result, RunOutcome, TypeInv, RetentionTypeOK
      <4> QED
        BY <2>1, <2>2, <2>3, <3>1, <4>1, <4>2, <4>3 DEF fileVars
    <3>2. CASE e \notin chosen[c]
      BY <1>1, <1>3, <3>2 DEF Commit
    <3> QED
      BY <3>1, <3>2
  <2>7. PrunedOnce'
    BY <2>2, <2>3, <2>4, <2>5, KeptStep DEF StoreInv, PrunedOnce
  <2>8. OnlyDeliveredIsPruned'
    BY <2>2, <2>3, <2>4, <2>5, KeptStep DEF OnlyDeliveredIsPruned
  <2> QED
    BY <2>6, <2>7, <2>8 DEF StoreInv
<1> QED
  BY <1>2, <1>3

LEMMA AlwaysStoreInv == RetentionSpec => []StoreInv
<1>1. RetentionInit => StoreInv
  BY DEF RetentionInit, StoreInv, DeletedIsArchived, PrunedOnce, OnlyDeliveredIsPruned
<1> QED
  BY <1>1, NextStoreInv, AlwaysAllInv, PTL DEF RetentionSpec

(* The event set of an archive on disk covers whatever is gone, although   *)
(* the file and the transaction do not commit together.                    *)
THEOREM DeletedStaysArchived == RetentionSpec => []DeletedIsArchived
<1>1. StoreInv => DeletedIsArchived
  BY DEF StoreInv
<1> QED
  BY <1>1, AlwaysStoreInv, PTL

(* An event belongs to the archive of one operation.                       *)
THEOREM PruningIsExclusive == RetentionSpec => []PrunedOnce
<1>1. StoreInv => PrunedOnce
  BY DEF StoreInv
<1> QED
  BY <1>1, AlwaysStoreInv, PTL

(* Nothing is deleted that a receiver has still to get.                    *)
THEOREM PrunedWasDelivered == RetentionSpec => []OnlyDeliveredIsPruned
<1>1. StoreInv => OnlyDeliveredIsPruned
  BY DEF StoreInv
<1> QED
  BY <1>1, AlwaysStoreInv, PTL

-----------------------------------------------------------------------------
(* Receipts.                                                               *)

LEMMA NextReceipts ==
  AllInv /\ ReceiptsAreRecorded /\ [RetentionNext]_retentionVars => ReceiptsAreRecorded'
<1> SUFFICES ASSUME AllInv, ReceiptsAreRecorded, [RetentionNext]_retentionVars
             PROVE  ReceiptsAreRecorded'
  OBVIOUS
<1>0. TypeInv
  BY DEF AllInv
<1>1. ASSUME NEW r \in replies
      PROVE  operation'[r.request.op] = r
  <2>1. r \in Result /\ operation[r.request.op] = r
    BY <1>0 DEF ReceiptsAreRecorded, TypeInv, RetentionTypeOK
  <2>2. r.request.op \in Operations /\ operation[r.request.op] # None
    BY <2>1, RetentionAssumption DEF Result, Request
  <2>3. operation'[r.request.op] = operation[r.request.op]
    BY <2>2, ResultStays
  <2> QED
    BY <2>1, <2>3
<1>2. CASE replies' \subseteq replies
  BY <1>1, <1>2 DEF ReceiptsAreRecorded
<1>3. ASSUME NEW c \in Clients, BeginOperation(c)
      PROVE  ReceiptsAreRecorded'
  <2>1. CASE \/ UNCHANGED replies
             \/ replies' = replies
    BY <1>2, <2>1
  <2>2. CASE /\ operation[req[c].op] # None
             /\ SameRequest(req[c], operation[req[c].op].request)
             /\ replies' = replies \cup {Receipt(req[c], operation[req[c].op])}
             /\ UNCHANGED operation
    <3>1. req[c].op \in Operations
      BY <1>0, <1>3, RequestType DEF BeginOperation, AtStage, Run
    <3>2. operation[req[c].op] \in Result
      BY <1>0, <2>2, <3>1 DEF TypeInv, RetentionTypeOK
    <3>3. Receipt(req[c], operation[req[c].op]) = operation[req[c].op]
      BY <2>2, <3>2 DEF Receipt, SameRequest, Result
    <3>4. operation[req[c].op].request = req[c]
      BY <2>2 DEF SameRequest
    <3> QED
      BY <1>1, <2>2, <3>3, <3>4 DEF ReceiptsAreRecorded
  <2> QED
    BY <1>3, <2>1, <2>2 DEF BeginOperation
<1>4. ASSUME NEW c \in Clients, Commit(c)
      PROVE  ReceiptsAreRecorded'
  <2> DEFINE row == [request |-> req[c],
                     outcome |-> RunOutcome(chosen[c]),
                     archived |-> chosen[c]]
  <2>1. req[c].op \in Operations
    BY <1>0, <1>4, RequestType DEF Commit, AtStage, Run
  <2>2. /\ operation' = [operation EXCEPT ![req[c].op] = row]
        /\ replies' \in {replies, replies \cup {row}}
    BY <1>4 DEF Commit
  <2>3. row.request = req[c]
    OBVIOUS
  <2> HIDE DEF row
  <2>4. operation'[row.request.op] = row
    BY <1>0, <2>1, <2>2, <2>3 DEF TypeInv, RetentionTypeOK
  <2> QED
    BY <1>1, <2>2, <2>4 DEF ReceiptsAreRecorded
<1>5. ASSUME NEW c \in Clients, Step(c), ~BeginOperation(c), ~Commit(c)
      PROVE  UNCHANGED replies
  BY <1>5
     DEF Step, StartRun, SelectBatch, SaveArchive, SyncArchiveDirectory, LockDelivery,
              LockEvent, Redeliver, Abort
<1>6. Outside \/ PowerLoss => UNCHANGED replies
  BY OutsideStep DEF PowerLoss
<1> QED
  BY <1>2, <1>3, <1>4, <1>5, <1>6, StepCases

(* A repeated run prints what the first one recorded.                      *)
THEOREM ReceiptsAreTrue == RetentionSpec => []ReceiptsAreRecorded
<1>1. RetentionInit => ReceiptsAreRecorded
  BY DEF RetentionInit, ReceiptsAreRecorded
<1> QED
  BY <1>1, NextReceipts, AlwaysAllInv, PTL DEF RetentionSpec

-----------------------------------------------------------------------------
(* Audit delivery.                                                         *)

(* What First returns, for a numbering of the rows.                        *)

Numbering(f) ==
    /\ f \in [Events -> Nat]
    /\ \A d, e \in Events : f[d] = f[e] => d = e

LEMMA FirstSubset == ASSUME NEW S, NEW n, NEW f PROVE First(S, n, f) \subseteq S
  BY DEF First

(* A number has finitely many rows below it.                               *)
LEMMA FiniteBelow ==
  ASSUME NEW f, Numbering(f), NEW S \in SUBSET Events, NEW e \in Events
  PROVE  LET B == {d \in S : f[d] < f[e]}
         IN  IsFiniteSet(B) /\ Cardinality(B) \in Nat
<1> DEFINE B == {d \in S : f[d] < f[e]}
           g == [d \in B |-> f[d]]
<1>1. f[e] \in Nat /\ \A d \in B : d \in Events /\ f[d] \in Nat /\ f[d] < f[e]
  BY DEF Numbering
<1>2. \A d \in B : f[d] \in 0..f[e]
  BY <1>1
<1>3. g \in Injection(B, 0..f[e])
  <2>1. g \in [B -> 0..f[e]]
    BY <1>2
  <2>2. \A a, b \in B : g[a] = g[b] => a = b
    BY <1>1 DEF Numbering
  <2> QED
    BY <2>1, <2>2 DEF Injection, IsInjective
<1>4. IsFiniteSet(0..f[e])
  BY <1>1, FS_Interval
<1>5. IsFiniteSet(B)
  <2> HIDE DEF B, g
  <2> QED
    BY <1>3, <1>4, FS_Injection
<1> QED
  BY <1>5, FS_CardinalityType

(* Some row of a set has the least number.                                 *)
LEMMA LeastRow ==
  ASSUME NEW f, Numbering(f), NEW S \in SUBSET Events, S # {}
  PROVE  \E e \in S : \A d \in S : f[e] <= f[d]
<1> DEFINE T == {f[e] : e \in S}
<1>1. T \subseteq Nat /\ T # {}
  BY DEF Numbering
<1>2. PICK x \in T : \A y \in T : ~ (<<y, x>> \in OpToRel(<, Nat))
  <2> HIDE DEF T
  <2> QED
    BY <1>1, WFMin, NatLessThanWellFounded
<1>3. \A u, v \in Nat : u < v => <<u, v>> \in OpToRel(<, Nat)
  BY DEF OpToRel
<1>4. x \in Nat /\ \A y \in T : y \in Nat /\ ~(y < x)
  <2> HIDE DEF T
  <2> QED
    BY ONLY Zenon, <1>1, <1>2, <1>3
<1>5. \A y \in T : x <= y
  BY <1>4
<1> QED
  BY <1>4, <1>5

(* The first row is one without a row before it.                           *)
LEMMA FirstIsLeast ==
  ASSUME NEW f, Numbering(f), NEW S \in SUBSET Events, NEW e \in First(S, 1, f),
         NEW d \in S
  PROVE  f[e] <= f[d]
<1> DEFINE B == {b \in S : f[b] < f[e]}
<1>1. e \in S /\ Cardinality(B) < 1
  BY DEF First
<1>2. IsFiniteSet(B) /\ Cardinality(B) \in Nat
  BY <1>1, FiniteBelow
<1>3. Cardinality(B) = 0
  <2> HIDE DEF B
  <2> QED
    BY <1>1, <1>2
<1>4. B = {}
  <2> HIDE DEF B
  <2> QED
    BY <1>2, <1>3, FS_EmptySet
<1> QED
  BY <1>1, <1>4 DEF Numbering

(* If a row is not among the first n, these are n, all of them before it.  *)
LEMMA FirstIsFull ==
  ASSUME NEW f, Numbering(f), NEW S \in SUBSET Events, NEW n \in Nat,
         NEW e \in S \ First(S, n, f)
  PROVE  /\ \A d \in First(S, n, f) : f[d] < f[e]
         /\ ~(Cardinality(First(S, n, f)) < n)
<1> DEFINE F == First(S, n, f)
           Below(b) == {d \in S : f[d] < f[b]}
<1>1. \A b \in S : b \in F <=> Cardinality(Below(b)) < n
  BY DEF First
<1>2. \A b \in S : IsFiniteSet(Below(b)) /\ Cardinality(Below(b)) \in Nat
  BY FiniteBelow
<1>3. PICK m \in S \ F : \A b \in S \ F : f[m] <= f[b]
  BY LeastRow
<1>4. F \subseteq S /\ \A b \in S : f[b] \in Nat
  BY FirstSubset DEF Numbering
<1>5. Below(m) \subseteq F
  BY <1>3, <1>4
<1>6. \A d \in F : d \in Below(m)
  <2> SUFFICES ASSUME NEW d \in F, ~(f[d] < f[m]) PROVE FALSE
    BY <1>4
  <2>1. Below(m) \subseteq Below(d)
    BY <1>3, <1>4
  <2>2. d \in S /\ m \in S
    BY <1>3, <1>4
  <2>3. Cardinality(Below(m)) <= Cardinality(Below(d))
    <3> HIDE DEF Below
    <3> QED
      BY <1>2, <2>1, <2>2, FS_Subset
  <2>4. Cardinality(Below(d)) < n /\ ~(Cardinality(Below(m)) < n)
    BY <1>1, <1>3, <2>2
  <2>5. Cardinality(Below(m)) \in Nat /\ Cardinality(Below(d)) \in Nat
    BY <1>2, <2>2
  <2> HIDE DEF Below, F
  <2> QED
    BY <2>3, <2>4, <2>5
<1>7. F = Below(m)
  BY <1>5, <1>6
<1>8. ~(Cardinality(F) < n)
  BY <1>1, <1>3, <1>7
<1>9. \A d \in F : f[d] < f[e]
  BY <1>3, <1>4, <1>6
<1> QED
  BY <1>8, <1>9

-----------------------------------------------------------------------------
(* Type correctness of AuditDelivery.                                      *)

CycleTypeOK ==
    /\ pc \in [Workers -> Steps]
    /\ left \in [Workers -> 0..Budget]
    /\ page \in [Workers -> SUBSET Events]
    /\ after \in [Workers -> RowId]
    /\ batch \in [Workers -> Batches]
    /\ failed \in [Workers -> BOOLEAN]

LEMMA Numberings == Numbering(Id) /\ Numbering(Created)
<1>1. Numbering(Id)
  BY AuditAssumption DEF Numbering
<1>2. Numbering(Created)
  BY OutboxAssumption DEF Numbering, Created
<1> QED
  BY <1>1, <1>2

LEMMA BatchType ==
  ASSUME NEW b
  PROVE  b \in Batches <=>
             /\ DOMAIN b \in SUBSET Events
             /\ b \in [DOMAIN b -> 0..MaxDelay]
  BY DEF Batches

LEMMA EmptyBatch == Empty \in Batches
<1>1. DOMAIN Empty = {}
  BY DEF Empty
<1> QED
  BY <1>1, BatchType DEF Empty

LEMMA BackoffType ==
  ASSUME NEW d \in 0..MaxDelay
  PROVE  Backoff(d) \in 0..MaxDelay
  BY OutboxAssumption DEF Backoff

LEMMA AuditInitType == Init => TypeOK
<1> SUFFICES ASSUME Init PROVE TypeOK
  OBVIOUS
<1> USE OutboxAssumption, AuditAssumption DEF Init, OutboxInit
<1>1. OutboxTypeOK
  BY DEF OutboxTypeOK, EventStatus
<1>2. /\ format \in [Events -> Formats]
      /\ delay \in [Events -> 0..MaxDelay]
      /\ logged \subseteq Events
      /\ version \in [Workers -> Versions]
      /\ cursor \in [Workers -> RowId]
      /\ faults \in 0..MaxFaults
  BY DEF Formats, RowId
<1>3. /\ tables \in BOOLEAN
      /\ initialized \in [Workers -> BOOLEAN]
      /\ recovered \in [Workers -> BOOLEAN]
  OBVIOUS
<1>4. CycleTypeOK
  BY EmptyBatch DEF CycleTypeOK, Steps, RowId
<1> QED
  BY <1>1, <1>2, <1>3, <1>4 DEF TypeOK, CycleTypeOK

LEMMA AuditReturnType ==
  ASSUME TypeOK, NEW w \in Workers, Return(w)
  PROVE  CycleTypeOK'
  BY EmptyBatch, AuditAssumption DEF TypeOK, CycleTypeOK, Return, Goto, Steps, RowId

LEMMA AuditFinishType ==
  ASSUME TypeOK, NEW w \in Workers, NEW error, Finish(w, error)
  PROVE  CycleTypeOK'
<1>1. CASE error
  BY <1>1 DEF TypeOK, CycleTypeOK, Finish, Goto, Steps
<1>2. CASE ~error
  BY <1>2, AuditReturnType DEF Finish
<1> QED
  BY <1>1, <1>2

LEMMA WithoutType ==
  ASSUME TypeOK, NEW w \in Workers, NEW e, Without(w, e)
  PROVE  batch' \in [Workers -> Batches]
<1> DEFINE b == [f \in DOMAIN batch[w] \ {e} |-> batch[w][f]]
<1>1. batch[w] \in Batches
  BY DEF TypeOK
<1>2. b \in Batches
  BY <1>1, BatchType
<1> QED
  BY <1>2 DEF Without, TypeOK

(* What any statement leaves in outbox_events is a row.                    *)
LEMMA OutboxStepType ==
  ASSUME OutboxTypeOK
  PROVE  /\ \A e \in Events : InsertOutbox(e) => OutboxTypeOK'
         /\ \A S \in SUBSET Events : ClaimOutbox(S) => OutboxTypeOK'
         /\ \A e \in Events : CompleteOutbox(e) => OutboxTypeOK'
         /\ \A e \in Events, n \in 0..MaxDelay : RetryOutbox(e, n) => OutboxTypeOK'
         /\ \A e \in Events : GiveUpOutbox(e) => OutboxTypeOK'
         /\ \A e \in Events : RequeueOutbox(e) => OutboxTypeOK'
         /\ OutboxTick => OutboxTypeOK'
         /\ UNCHANGED outboxVars => OutboxTypeOK'
<1> USE OutboxAssumption DEF OutboxTypeOK, EventStatus
<1>1. \A e \in Events : InsertOutbox(e) => OutboxTypeOK'
  BY DEF InsertOutbox
<1>2. \A S \in SUBSET Events : ClaimOutbox(S) => OutboxTypeOK'
  BY DEF ClaimOutbox
<1>3. \A e \in Events : CompleteOutbox(e) => OutboxTypeOK'
  BY DEF CompleteOutbox
<1>4. \A e \in Events, n \in 0..MaxDelay : RetryOutbox(e, n) => OutboxTypeOK'
  BY DEF RetryOutbox
<1>5. \A e \in Events : GiveUpOutbox(e) => OutboxTypeOK'
  BY DEF GiveUpOutbox
<1>6. \A e \in Events : RequeueOutbox(e) => OutboxTypeOK'
  BY DEF RequeueOutbox
<1>7. OutboxTick => OutboxTypeOK'
  BY DEF OutboxTick, Sooner
<1>8. UNCHANGED outboxVars => OutboxTypeOK'
  BY DEF outboxVars
<1> QED
  BY <1>1, <1>2, <1>3, <1>4, <1>5, <1>6, <1>7, <1>8

RestTypeOK ==
    /\ format \in [Events -> Formats]
    /\ delay \in [Events -> 0..MaxDelay]
    /\ tables \in BOOLEAN
    /\ logged \subseteq Events
    /\ version \in [Workers -> Versions]
    /\ initialized \in [Workers -> BOOLEAN]
    /\ recovered \in [Workers -> BOOLEAN]
    /\ cursor \in [Workers -> RowId]
    /\ faults \in 0..MaxFaults

LEMMA AuditTypeParts ==
  /\ TypeOK <=> OutboxTypeOK /\ RestTypeOK /\ CycleTypeOK
  /\ TypeOK' <=> OutboxTypeOK' /\ RestTypeOK' /\ CycleTypeOK'
  BY DEF TypeOK, RestTypeOK, CycleTypeOK

LEMMA ClaimDelayType ==
  ASSUME TypeOK, NEW S \in SUBSET Events,
         delay' = [e \in Events |-> IF e \in S THEN Backoff(delay[e]) ELSE delay[e]]
  PROVE  delay' \in [Events -> 0..MaxDelay]
<1>1. \A e \in Events : delay[e] \in 0..MaxDelay
  BY DEF TypeOK
<1> QED
  BY <1>1, BackoffType

(* The steps of a worker.                                                  *)
LEMMA AuditWorkerType ==
  ASSUME TypeOK, NEW w \in Workers, NextWorker(w)
  PROVE  TypeOK'
<1> USE AuditTypeParts
<1>0. OutboxTypeOK /\ RestTypeOK /\ CycleTypeOK
  OBVIOUS
<1>1. CASE Begin(w)
  <2>1. OutboxTypeOK' /\ RestTypeOK'
    BY <1>0, <1>1, OutboxStepType
       DEF Begin, rowVars, logVars, memoryVars, RestTypeOK
  <2>2. CycleTypeOK'
    BY <1>0, <1>1, AuditAssumption DEF Begin, Goto, Steps, CycleTypeOK
  <2> QED
    BY <2>1, <2>2
<1>2. CASE Initialize(w)
  <2>1. OutboxTypeOK'
    BY <1>0, <1>2, OutboxStepType DEF Initialize
  <2>2. tables' \in BOOLEAN /\ initialized' \in [Workers -> BOOLEAN]
    BY <1>0, <1>2 DEF Initialize, RestTypeOK
  <2>3. RestTypeOK'
    BY <1>0, <1>2, <2>2 DEF Initialize, rowVars, RestTypeOK
  <2>4. CycleTypeOK'
    BY <1>0, <1>2 DEF Initialize, Goto, Steps, CycleTypeOK
  <2> QED
    BY <2>1, <2>3, <2>4
<1>3. CASE Scan(w)
  <2>1. OutboxTypeOK' /\ RestTypeOK'
    BY <1>0, <1>3, OutboxStepType
       DEF Scan, rowVars, logVars, memoryVars, RestTypeOK
  <2>2. First(RejectedAfter(cursor[w]), Page, Id) \subseteq Events
    BY FirstSubset DEF RejectedAfter
  <2>3. cursor[w] \in RowId
    BY <1>0 DEF RestTypeOK
  <2>4. CycleTypeOK'
    BY <1>0, <1>3, <2>2, <2>3 DEF Scan, Goto, Steps, CycleTypeOK
  <2> QED
    BY <2>1, <2>4
<1>4. CASE Requeue(w)
  <2> DEFINE todo == {e \in page[w] : Id[e] > after[w]}
  <2>1. page[w] \subseteq Events /\ after[w] \in RowId
    BY <1>0 DEF CycleTypeOK
  <2>2. CASE \E e \in First(todo, 1, Id) :
               /\ IF Accepts(version[w], format[e]) /\ Rejected(e)
                  THEN RequeueOutbox(e) ELSE UNCHANGED outboxVars
               /\ after' = [after EXCEPT ![w] = Id[e]]
               /\ UNCHANGED <<memoryVars, pc, page>>
    <3>1. PICK e \in First(todo, 1, Id) :
             /\ IF Accepts(version[w], format[e]) /\ Rejected(e)
                THEN RequeueOutbox(e) ELSE UNCHANGED outboxVars
             /\ after' = [after EXCEPT ![w] = Id[e]]
             /\ UNCHANGED <<memoryVars, pc, page>>
      BY <2>2
    <3>2. e \in Events /\ Id[e] \in RowId
      BY <2>1, FirstSubset DEF RowId
    <3>3. OutboxTypeOK'
      BY <1>0, <3>1, <3>2, OutboxStepType
    <3>4. RestTypeOK'
      BY <1>0, <1>4, <3>1
         DEF Requeue, rowVars, logVars, memoryVars, RestTypeOK
    <3>5. CycleTypeOK'
      BY <1>0, <1>4, <3>1, <3>2 DEF Requeue, CycleTypeOK
    <3> QED
      BY <3>3, <3>4, <3>5
  <2>3. CASE /\ todo = {}
             /\ cursor' = [cursor EXCEPT ![w] = after[w]]
             /\ recovered' = [recovered EXCEPT ![w] = LastPage(page[w])]
             /\ page' = [page EXCEPT ![w] = {}]
             /\ Goto(w, "claim")
             /\ UNCHANGED <<outboxVars, version, initialized, after>>
    <3>1. OutboxTypeOK'
      BY <1>0, <2>3, OutboxStepType
    <3>2. recovered' \in [Workers -> BOOLEAN]
      BY <1>0, <2>3 DEF RestTypeOK, LastPage
    <3>3. cursor' \in [Workers -> RowId]
      BY <1>0, <2>1, <2>3 DEF RestTypeOK
    <3>4. RestTypeOK'
      BY <1>0, <1>4, <2>3, <3>2, <3>3
         DEF Requeue, rowVars, logVars, RestTypeOK
    <3>5. CycleTypeOK'
      BY <1>0, <1>4, <2>3 DEF Requeue, Goto, Steps, CycleTypeOK
    <3> QED
      BY <3>1, <3>4, <3>5
  <2> QED
    BY <1>4, <2>2, <2>3 DEF Requeue
<1>5. CASE GiveUp(w)
  <2>1. OutboxTypeOK'
    BY <1>0, <1>5, OutboxStepType DEF GiveUp
  <2>2. tables' \in BOOLEAN
    <3>1. tables' \in {tables, TRUE}
      BY <1>5 DEF GiveUp
    <3> QED
      BY <1>0, <3>1 DEF RestTypeOK
  <2>3. RestTypeOK'
    BY <1>0, <1>5, <2>2 DEF GiveUp, rowVars, memoryVars, RestTypeOK
  <2>4. CycleTypeOK'
    BY <1>5, AuditReturnType DEF GiveUp
  <2> QED
    BY <2>1, <2>3, <2>4
<1>6. CASE ClaimAudits(w)
  <2> DEFINE S == First({e \in Events : Claimable(e)}, Batch, Created)
  <2>1. S \in SUBSET Events
    BY FirstSubset
  <2>2. RestTypeOK' /\ CycleTypeOK' /\ OutboxTypeOK'
    <3> HIDE DEF S
    <3>1. CASE S = {} /\ Return(w) /\ UNCHANGED <<outboxVars, delay>>
      <4>1. OutboxTypeOK'
        BY <1>0, <3>1, OutboxStepType
      <4>2. RestTypeOK'
        BY <1>0, <1>6, <3>1 DEF ClaimAudits, logVars, memoryVars, RestTypeOK
      <4> QED
        BY <3>1, <4>1, <4>2, AuditReturnType
    <3>2. CASE /\ ClaimOutbox(S)
               /\ delay' = [e \in Events |-> IF e \in S THEN Backoff(delay[e])
                                             ELSE delay[e]]
               /\ batch' = [batch EXCEPT ![w] = [e \in S |-> delay'[e]]]
               /\ Goto(w, "decode")
               /\ UNCHANGED <<left, page, after, failed>>
      <4>1. OutboxTypeOK'
        BY <1>0, <2>1, <3>2, OutboxStepType
      <4>2. delay' \in [Events -> 0..MaxDelay]
        BY <2>1, <3>2, ClaimDelayType
      <4>3. RestTypeOK'
        BY <1>0, <1>6, <4>2 DEF ClaimAudits, logVars, memoryVars, RestTypeOK
      <4>4. [e \in S |-> delay'[e]] \in Batches
        BY <2>1, <4>2, BatchType
      <4>5. batch' \in [Workers -> Batches]
        BY <1>0, <3>2, <4>4 DEF CycleTypeOK
      <4>6. CycleTypeOK'
        BY <1>0, <3>2, <4>5 DEF CycleTypeOK, Goto, Steps
      <4> QED
        BY <4>1, <4>3, <4>6
    <3> QED
      BY <1>6, <3>1, <3>2 DEF ClaimAudits, S
  <2> QED
    BY <2>2
<1>7. CASE ClaimError(w)
  <2> DEFINE S == First({e \in Events : Claimable(e)}, Batch, Created)
  <2>1. S \in SUBSET Events
    BY FirstSubset
  <2>2. OutboxTypeOK' /\ delay' \in [Events -> 0..MaxDelay]
    <3> HIDE DEF S
    <3>1. CASE /\ ClaimOutbox(S)
               /\ delay' = [e \in Events |-> IF e \in S THEN Backoff(delay[e])
                                             ELSE delay[e]]
      BY <1>0, <2>1, <3>1, OutboxStepType, ClaimDelayType
    <3>2. CASE UNCHANGED <<outboxVars, delay>>
      BY <1>0, <3>2, OutboxStepType DEF RestTypeOK
    <3> QED
      BY <1>7, <3>1, <3>2 DEF ClaimError, S
  <2>3. RestTypeOK'
    BY <1>0, <1>7, <2>2 DEF ClaimError, logVars, memoryVars, RestTypeOK
  <2>4. CycleTypeOK'
    BY <1>7, AuditFinishType DEF ClaimError
  <2> QED
    BY <2>2, <2>3, <2>4
<1>8. CASE Reject(w)
  <2>1. RestTypeOK'
    BY <1>0, <1>8
       DEF Reject, rowVars, logVars, memoryVars, RestTypeOK
  <2>2. CASE \E e \in First(Undecodable(w), 1, Created) :
               /\ GiveUpOutbox(e) \/ UNCHANGED outboxVars
               /\ Without(w, e)
               /\ failed' = [failed EXCEPT ![w] = TRUE]
               /\ UNCHANGED <<pc, left, page, after>>
    <3>1. PICK e \in First(Undecodable(w), 1, Created) :
             /\ GiveUpOutbox(e) \/ UNCHANGED outboxVars
             /\ Without(w, e)
             /\ failed' = [failed EXCEPT ![w] = TRUE]
             /\ UNCHANGED <<pc, left, page, after>>
      BY <2>2
    <3>2. e \in DOMAIN batch[w]
      BY FirstSubset DEF Undecodable
    <3>3. e \in Events
      BY <1>0, <3>2, BatchType DEF CycleTypeOK
    <3>4. OutboxTypeOK'
      BY <1>0, <3>1, <3>3, OutboxStepType
    <3>5. batch' \in [Workers -> Batches]
      BY <3>1, WithoutType
    <3>6. CycleTypeOK'
      BY <1>0, <3>1, <3>5 DEF CycleTypeOK
    <3> QED
      BY <2>1, <3>4, <3>6
  <2>3. CASE /\ IF DOMAIN batch[w] = {} THEN Finish(w, failed[w])
                ELSE Goto(w, "append") /\ UNCHANGED <<left, page, after, batch, failed>>
             /\ UNCHANGED outboxVars
    <3>1. OutboxTypeOK'
      BY <1>0, <2>3, OutboxStepType
    <3>2. CASE Finish(w, failed[w])
      BY <2>1, <3>1, <3>2, AuditFinishType
    <3>3. CASE Goto(w, "append") /\ UNCHANGED <<left, page, after, batch, failed>>
      <4>1. CycleTypeOK'
        BY <1>0, <3>3 DEF CycleTypeOK, Goto, Steps
      <4> QED
        BY <2>1, <3>1, <4>1
    <3> QED
      BY <2>3, <3>2, <3>3
  <2> QED
    BY <1>8, <2>2, <2>3 DEF Reject
<1>9. CASE AppendAudits(w)
  <2>1. OutboxTypeOK'
    BY <1>0, <1>9, OutboxStepType DEF AppendAudits
  <2>2. DOMAIN batch[w] \subseteq Events
    BY <1>0, BatchType DEF CycleTypeOK
  <2>3. RestTypeOK'
    BY <1>0, <1>9, <2>2 DEF AppendAudits, rowVars, memoryVars, RestTypeOK
  <2>4. CycleTypeOK'
    BY <1>0, <1>9 DEF AppendAudits, AfterAppend, Goto, Steps, CycleTypeOK
  <2> QED
    BY <2>1, <2>3, <2>4
<1>10. CASE AppendError(w)
  <2>1. OutboxTypeOK'
    BY <1>0, <1>10, OutboxStepType DEF AppendError
  <2>2. DOMAIN batch[w] \subseteq Events
    BY <1>0, BatchType DEF CycleTypeOK
  <2>3. logged' \subseteq Events
    BY <1>0, <1>10, <2>2 DEF AppendError, RestTypeOK
  <2>4. RestTypeOK'
    BY <1>0, <1>10, <2>3 DEF AppendError, rowVars, memoryVars, RestTypeOK
  <2>5. failed' \in [Workers -> BOOLEAN]
    BY <1>0, <1>10 DEF AppendError, CycleTypeOK
  <2>6. CycleTypeOK'
    BY <1>0, <1>10, <2>5
       DEF AppendError, AfterAppend, Goto, Steps, CycleTypeOK
  <2> QED
    BY <2>1, <2>4, <2>6
<1>11. CASE Retry(w)
  <2>1. RestTypeOK'
    BY <1>0, <1>11
       DEF Retry, rowVars, logVars, memoryVars, RestTypeOK
  <2>2. CASE \E e \in First(DOMAIN batch[w], 1, Created) :
               /\ RetryOutbox(e, batch[w][e]) \/ UNCHANGED outboxVars
               /\ Without(w, e)
               /\ UNCHANGED <<pc, left, page, after, failed>>
    <3>1. PICK e \in First(DOMAIN batch[w], 1, Created) :
             /\ RetryOutbox(e, batch[w][e]) \/ UNCHANGED outboxVars
             /\ Without(w, e)
             /\ UNCHANGED <<pc, left, page, after, failed>>
      BY <2>2
    <3>2. e \in DOMAIN batch[w] /\ batch[w] \in Batches
      BY <1>0, FirstSubset DEF CycleTypeOK
    <3>3. e \in Events /\ batch[w][e] \in 0..MaxDelay
      BY <3>2, BatchType
    <3>4. OutboxTypeOK'
      BY <1>0, <3>1, <3>3, OutboxStepType
    <3>5. batch' \in [Workers -> Batches]
      BY <3>1, WithoutType
    <3>6. CycleTypeOK'
      BY <1>0, <3>1, <3>5 DEF CycleTypeOK
    <3> QED
      BY <2>1, <3>4, <3>6
  <2>3. CASE Finish(w, TRUE) /\ UNCHANGED outboxVars
    BY <1>0, <2>1, <2>3, AuditFinishType, OutboxStepType
  <2> QED
    BY <1>11, <2>2, <2>3 DEF Retry
<1>12. CASE Complete(w)
  <2>1. RestTypeOK'
    BY <1>0, <1>12
       DEF Complete, rowVars, logVars, memoryVars, RestTypeOK
  <2>2. CASE \E e \in First(DOMAIN batch[w], 1, Created) :
               /\ \/ CompleteOutbox(e) /\ UNCHANGED failed
                  \/ UNCHANGED outboxVars /\ failed' = [failed EXCEPT ![w] = TRUE]
               /\ Without(w, e)
               /\ UNCHANGED <<pc, left, page, after>>
    <3>1. PICK e \in First(DOMAIN batch[w], 1, Created) :
             /\ \/ CompleteOutbox(e) /\ UNCHANGED failed
                \/ UNCHANGED outboxVars /\ failed' = [failed EXCEPT ![w] = TRUE]
             /\ Without(w, e)
             /\ UNCHANGED <<pc, left, page, after>>
      BY <2>2
    <3>2. e \in DOMAIN batch[w] /\ batch[w] \in Batches
      BY <1>0, FirstSubset DEF CycleTypeOK
    <3>3. e \in Events
      BY <3>2, BatchType
    <3>4. OutboxTypeOK'
      BY <1>0, <3>1, <3>3, OutboxStepType
    <3>5. batch' \in [Workers -> Batches]
      BY <3>1, WithoutType
    <3>6. failed' \in [Workers -> BOOLEAN]
      BY <1>0, <3>1 DEF CycleTypeOK
    <3>7. CycleTypeOK'
      BY <1>0, <3>1, <3>5, <3>6 DEF CycleTypeOK
    <3> QED
      BY <2>1, <3>4, <3>7
  <2>3. CASE Finish(w, failed[w]) /\ UNCHANGED outboxVars
    BY <1>0, <2>1, <2>3, AuditFinishType, OutboxStepType
  <2> QED
    BY <1>12, <2>2, <2>3 DEF Complete
<1>13. CASE Reinitialize(w)
  <2>1. OutboxTypeOK'
    BY <1>0, <1>13, OutboxStepType DEF Reinitialize
  <2>2. tables' \in BOOLEAN
    <3>1. tables' \in {tables, TRUE}
      BY <1>13 DEF Reinitialize
    <3> QED
      BY <1>0, <3>1 DEF RestTypeOK
  <2>3. RestTypeOK'
    BY <1>0, <1>13, <2>2 DEF Reinitialize, rowVars, memoryVars, RestTypeOK
  <2>4. CycleTypeOK'
    BY <1>13, AuditReturnType DEF Reinitialize
  <2> QED
    BY <2>1, <2>3, <2>4
<1>14. CASE Timeout(w)
  <2>1. OutboxTypeOK' /\ RestTypeOK'
    BY <1>0, <1>14, OutboxStepType
       DEF Timeout, rowVars, logVars, memoryVars, RestTypeOK
  <2>2. CycleTypeOK'
    BY <1>14, AuditReturnType DEF Timeout
  <2> QED
    BY <2>1, <2>2
<1>15. CASE Restart(w)
  <2>1. OutboxTypeOK'
    BY <1>0, <1>15, OutboxStepType DEF Restart
  <2>2. version' \in [Workers -> Versions]
    BY <1>0, <1>15 DEF Restart, RestTypeOK, Versions
  <2>3. faults' \in 0..MaxFaults
    BY <1>0, <1>15, AuditAssumption DEF Restart, RestTypeOK
  <2>4. cursor' \in [Workers -> RowId]
    BY <1>0, <1>15 DEF Restart, RestTypeOK, RowId
  <2>5. initialized' \in [Workers -> BOOLEAN] /\ recovered' \in [Workers -> BOOLEAN]
    BY <1>0, <1>15 DEF Restart, RestTypeOK
  <2>6. RestTypeOK'
    BY <1>0, <1>15, <2>2, <2>3, <2>4, <2>5
       DEF Restart, rowVars, logVars, RestTypeOK
  <2>7. CycleTypeOK'
    BY <1>15, AuditReturnType DEF Restart
  <2> QED
    BY <2>1, <2>6, <2>7
<1> QED
  BY <1>1, <1>2, <1>3, <1>4, <1>5, <1>6, <1>7, <1>8, <1>9, <1>10, <1>11, <1>12, <1>13,
     <1>14, <1>15 DEF NextWorker

LEMMA AuditNextType ==
  TypeOK /\ [Next]_vars => TypeOK'
<1> SUFFICES ASSUME TypeOK, [Next]_vars
             PROVE  TypeOK'
  OBVIOUS
<1> USE AuditTypeParts
<1>0. OutboxTypeOK /\ RestTypeOK /\ CycleTypeOK
  OBVIOUS
<1>1. ASSUME NEW e \in Events, NEW f \in Formats, Publish(e, f)
      PROVE  TypeOK'
  <2>1. OutboxTypeOK'
    BY <1>0, <1>1, OutboxStepType DEF Publish
  <2>2. format' \in [Events -> Formats]
    BY <1>0, <1>1 DEF Publish, RestTypeOK
  <2>3. RestTypeOK' /\ CycleTypeOK'
    BY <1>0, <1>1, <2>2
       DEF Publish, logVars, memoryVars, cycleVars, RestTypeOK, CycleTypeOK
  <2> QED
    BY <2>1, <2>3
<1>2. ASSUME NEW w \in Workers, NextWorker(w) PROVE TypeOK'
  BY <1>2, AuditWorkerType
<1>3. CASE RestoreLogs
  <2>1. OutboxTypeOK'
    BY <1>0, <1>3, OutboxStepType DEF RestoreLogs
  <2>2. faults' \in 0..MaxFaults
    BY <1>0, <1>3, AuditAssumption DEF RestoreLogs, RestTypeOK
  <2>3. tables' \in BOOLEAN
    BY <1>3 DEF RestoreLogs
  <2>4. RestTypeOK' /\ CycleTypeOK'
    BY <1>0, <1>3, <2>2, <2>3
       DEF RestoreLogs, rowVars, memoryVars, cycleVars, RestTypeOK,
           CycleTypeOK
  <2> QED
    BY <2>1, <2>4
<1>4. CASE Tick
  <2>1. OutboxTypeOK'
    BY <1>0, <1>4, OutboxStepType DEF Tick
  <2>2. RestTypeOK'
    BY <1>0, <1>4 DEF Tick, rowVars, logVars, memoryVars, RestTypeOK
  <2>3. left' \in [Workers -> 0..Budget]
    <3>1. \A w \in Workers : left[w] \in 0..Budget
      BY <1>0 DEF CycleTypeOK
    <3>2. Budget \in Nat
      BY AuditAssumption
    <3>3. \A w \in Workers : Sooner(left[w]) \in 0..Budget
      BY <3>1, <3>2 DEF Sooner
    <3> QED
      BY <1>4, <3>3 DEF Tick
  <2>4. ASSUME NEW w \in Workers PROVE batch'[w] \in Batches
    <3>1. batch[w] \in Batches
      BY <1>0 DEF CycleTypeOK
    <3>2. [e \in DOMAIN batch[w] |-> Sooner(batch[w][e])] \in Batches
      <4>1. \A e \in DOMAIN batch[w] : batch[w][e] \in 0..MaxDelay
        BY <3>1, BatchType
      <4>2. \A e \in DOMAIN batch[w] : Sooner(batch[w][e]) \in 0..MaxDelay
        BY <4>1, OutboxAssumption DEF Sooner
      <4> QED
        BY <3>1, <4>2, BatchType
    <3> QED
      BY <1>4, <3>1, <3>2 DEF Tick
  <2>5. batch' \in [Workers -> Batches]
    BY <1>4, <2>4 DEF Tick
  <2>6. CycleTypeOK'
    BY <1>0, <1>4, <2>3, <2>5 DEF Tick, CycleTypeOK
  <2> QED
    BY <2>1, <2>2, <2>6
<1>5. CASE UNCHANGED vars
  BY <1>0, <1>5, OutboxStepType
     DEF vars, rowVars, logVars, memoryVars, cycleVars, RestTypeOK,
         CycleTypeOK
<1> QED
  BY <1>1, <1>2, <1>3, <1>4, <1>5 DEF Next

LEMMA AuditAlwaysType == Spec => []TypeOK
<1>1. Init => TypeOK
  BY AuditInitType
<1>2. TypeOK /\ [Next]_vars => TypeOK'
  BY AuditNextType
<1> QED
  BY <1>1, <1>2, PTL DEF Spec

(* Whatever the replicas and the payloads are, the state of AuditDelivery  *)
(* stays well typed.                                                       *)
THEOREM AuditTypeCorrect == Spec => []TypeOK
  BY AuditAlwaysType

-----------------------------------------------------------------------------
(* What a step does to a row.                                              *)

Kept(e) == status'[e] = status[e]

Reopened(e) == status[e] # "completed" /\ status'[e] \in {"pending", "processing"}

(* A worker that cannot decode the payload rejects the event.              *)
Died(e) ==
    /\ status[e] = "processing"
    /\ status'[e] = "dead"
    /\ \E w \in Workers : e \in Undecodable(w)

(* A worker that has appended its batch completes it.                      *)
Delivered(e) ==
    /\ status[e] = "processing"
    /\ status'[e] = "completed"
    /\ \E w \in Workers : At(w, "complete") /\ e \in DOMAIN batch[w]

(* Payloads of rows there are do not change, and ClickHouse keeps what it  *)
(* has stored.                                                             *)
RowStep ==
    /\ \A e \in Events :
          /\ Kept(e) \/ Reopened(e) \/ Died(e) \/ Delivered(e)
          /\ status[e] # "absent" => format'[e] = format[e]
    /\ logged \subseteq logged'

LEMMA StatementEffect ==
  ASSUME OutboxTypeOK, NEW e \in Events
  PROVE  /\ \A f \in Events : InsertOutbox(f) => Kept(e) \/ Reopened(e)
         /\ \A S \in SUBSET Events :
               S \subseteq {f \in Events : Claimable(f)} /\ ClaimOutbox(S)
                  => Kept(e) \/ Reopened(e)
         /\ \A f \in Events : CompleteOutbox(f) =>
               Kept(e) \/ (e = f /\ status[e] = "processing" /\ status'[e] = "completed")
         /\ \A f \in Events : \A n : RetryOutbox(f, n) => Kept(e) \/ Reopened(e)
         /\ \A f \in Events : GiveUpOutbox(f) =>
               Kept(e) \/ (e = f /\ status[e] = "processing" /\ status'[e] = "dead")
         /\ \A f \in Events : Rejected(f) /\ RequeueOutbox(f)
               => Kept(e) \/ Reopened(e)
         /\ OutboxTick \/ UNCHANGED outboxVars => Kept(e)
<1> USE DEF OutboxTypeOK, Kept, Reopened
<1>1. \A f \in Events : InsertOutbox(f) => Kept(e) \/ Reopened(e)
  BY DEF InsertOutbox
<1>2. \A S \in SUBSET Events :
         S \subseteq {f \in Events : Claimable(f)} /\ ClaimOutbox(S)
            => Kept(e) \/ Reopened(e)
  BY DEF ClaimOutbox, Claimable
<1>3. \A f \in Events : CompleteOutbox(f) =>
         Kept(e) \/ (e = f /\ status[e] = "processing" /\ status'[e] = "completed")
  BY DEF CompleteOutbox, Claimed
<1>4. \A f \in Events : \A n : RetryOutbox(f, n) => Kept(e) \/ Reopened(e)
  BY DEF RetryOutbox, Claimed
<1>5. \A f \in Events : GiveUpOutbox(f) =>
         Kept(e) \/ (e = f /\ status[e] = "processing" /\ status'[e] = "dead")
  BY DEF GiveUpOutbox, Claimed
<1>6. \A f \in Events : Rejected(f) /\ RequeueOutbox(f) => Kept(e) \/ Reopened(e)
  BY DEF Rejected, RequeueOutbox
<1>7. OutboxTick \/ UNCHANGED outboxVars => Kept(e)
  BY DEF OutboxTick, outboxVars
<1> QED
  BY <1>1, <1>2, <1>3, <1>4, <1>5, <1>6, <1>7

LEMMA AuditRowStep ==
  ASSUME TypeOK, [Next]_vars
  PROVE  RowStep
<1>0. OutboxTypeOK /\ \A w \in Workers : DOMAIN batch[w] \subseteq Events
  BY BatchType DEF TypeOK
(* Steps that leave the outbox alone, or the format and the log.           *)
<1>a. ASSUME \A e \in Events : Kept(e), format' = format, logged \subseteq logged'
      PROVE  RowStep
  BY <1>a DEF RowStep
<1>b. ASSUME \A e \in Events : Kept(e) \/ Reopened(e) \/ Died(e) \/ Delivered(e),
             UNCHANGED <<format, logged>>
      PROVE  RowStep
  BY <1>b DEF RowStep
<1>1. ASSUME NEW e \in Events, NEW f \in Formats, Publish(e, f)
      PROVE  RowStep
  <2>1. \A d \in Events : Kept(d) \/ Reopened(d)
    BY <1>0, <1>1, StatementEffect DEF Publish
  <2>2. \A d \in Events : status[d] # "absent" => format'[d] = format[d]
    BY <1>1 DEF Publish, InsertOutbox, TypeOK
  <2>3. logged' = logged
    BY <1>1 DEF Publish, logVars
  <2> QED
    BY <2>1, <2>2, <2>3 DEF RowStep
<1>2. ASSUME NEW w \in Workers, NextWorker(w) PROVE RowStep
  <2>1. CASE \/ Begin(w) \/ Initialize(w) \/ Scan(w) \/ GiveUp(w)
             \/ Reinitialize(w) \/ Timeout(w) \/ Restart(w)
    <3>1. UNCHANGED outboxVars /\ UNCHANGED <<format, logged>>
      BY <2>1 DEF Begin, Initialize, Scan, GiveUp, Reinitialize,
         Timeout, Restart, rowVars, logVars
    <3> QED
      BY <1>0, <1>b, <3>1, StatementEffect
  <2>2. CASE Requeue(w)
    <3> DEFINE todo == {e \in page[w] : Id[e] > after[w]}
    <3>1. UNCHANGED <<format, logged>>
      BY <2>2 DEF Requeue, rowVars, logVars
    <3>2. \/ UNCHANGED outboxVars
          \/ \E e \in First(todo, 1, Id) : Rejected(e) /\ RequeueOutbox(e)
      BY <2>2 DEF Requeue
    <3>3. First(todo, 1, Id) \subseteq Events
      BY FirstSubset DEF TypeOK
    <3>4. \A e \in Events : Kept(e) \/ Reopened(e)
      BY <1>0, <3>2, <3>3, StatementEffect
    <3> QED
      BY <1>b, <3>1, <3>4
  <2>3. CASE ClaimAudits(w) \/ ClaimError(w)
    <3> DEFINE S == First({e \in Events : Claimable(e)}, Batch, Created)
    <3>1. S \subseteq {e \in Events : Claimable(e)} /\ S \in SUBSET Events
      BY FirstSubset
    <3>2. UNCHANGED outboxVars \/ ClaimOutbox(S)
      BY <2>3 DEF ClaimAudits, ClaimError
    <3>3. UNCHANGED <<format, logged>>
      BY <2>3 DEF ClaimAudits, ClaimError, logVars
    <3>4. \A e \in Events : Kept(e) \/ Reopened(e)
      <4> HIDE DEF S
      <4> QED
        BY <1>0, <3>1, <3>2, StatementEffect
    <3> QED
      BY <1>b, <3>3, <3>4
  <2>4. CASE Reject(w)
    <3>1. UNCHANGED <<format, logged>>
      BY <2>4 DEF Reject, rowVars, logVars
    <3>2. \/ UNCHANGED outboxVars
          \/ \E e \in First(Undecodable(w), 1, Created) : GiveUpOutbox(e)
      BY <2>4 DEF Reject
    <3>3. /\ First(Undecodable(w), 1, Created) \subseteq Undecodable(w)
          /\ Undecodable(w) \subseteq Events
      BY <1>0, FirstSubset DEF Undecodable
    <3>4. \A e \in Events : Kept(e) \/ Died(e)
      BY <1>0, <3>2, <3>3, StatementEffect DEF Died
    <3> QED
      BY <1>b, <3>1, <3>4
  <2>5. CASE AppendAudits(w) \/ AppendError(w)
    <3>1. UNCHANGED outboxVars /\ format' = format
      BY <2>5 DEF AppendAudits, AppendError, rowVars
    <3>2. logged \subseteq logged'
      BY <2>5 DEF AppendAudits, AppendError
    <3> QED
      BY <1>0, <1>a, <3>1, <3>2, StatementEffect
  <2>6. CASE Retry(w)
    <3>1. UNCHANGED <<format, logged>>
      BY <2>6 DEF Retry, rowVars, logVars
    <3>2. \/ UNCHANGED outboxVars
          \/ \E e \in First(DOMAIN batch[w], 1, Created) :
                RetryOutbox(e, batch[w][e])
      BY <2>6 DEF Retry
    <3>3. First(DOMAIN batch[w], 1, Created) \subseteq Events
      BY <1>0, FirstSubset
    <3>4. \A e \in Events : Kept(e) \/ Reopened(e)
      BY <1>0, <3>2, <3>3, StatementEffect
    <3> QED
      BY <1>b, <3>1, <3>4
  <2>7. CASE Complete(w)
    <3>1. UNCHANGED <<format, logged>> /\ At(w, "complete")
      BY <2>7 DEF Complete, rowVars, logVars
    <3>2. \/ UNCHANGED outboxVars
          \/ \E e \in First(DOMAIN batch[w], 1, Created) : CompleteOutbox(e)
      BY <2>7 DEF Complete
    <3>3. /\ First(DOMAIN batch[w], 1, Created) \subseteq DOMAIN batch[w]
          /\ DOMAIN batch[w] \subseteq Events
      BY <1>0, FirstSubset
    <3>4. \A e \in Events : Kept(e) \/ Delivered(e)
      BY <1>0, <3>1, <3>2, <3>3, StatementEffect DEF Delivered
    <3> QED
      BY <1>b, <3>1, <3>4
  <2> QED
    BY <1>2, <2>1, <2>2, <2>3, <2>4, <2>5, <2>6, <2>7 DEF NextWorker
<1>3. CASE RestoreLogs \/ Tick \/ UNCHANGED vars
  <2>1. OutboxTick \/ UNCHANGED outboxVars
    BY <1>3 DEF RestoreLogs, Tick, vars
  <2>2. UNCHANGED <<format, logged>>
    BY <1>3 DEF RestoreLogs, Tick, vars, rowVars, logVars
  <2> QED
    BY <1>0, <1>b, <2>1, <2>2, StatementEffect
<1> QED
  BY <1>1, <1>2, <1>3 DEF Next

(* Recovery never makes a delivered event pending again: whatever pages    *)
(* were read before, and whoever put back and delivered the event since,   *)
(* a completed event stays completed.                                      *)
THEOREM DeliveryIsFinal == Spec => DeliveredOnce
<1>1. TypeOK /\ [Next]_vars =>
         [\A e \in Events : status[e] = "completed" => status'[e] = "completed"]_vars
  BY AuditRowStep DEF RowStep, Kept, Reopened, Died, Delivered
<1> QED
  BY <1>1, AuditAlwaysType, PTL DEF Spec, DeliveredOnce

-----------------------------------------------------------------------------
(* What a step does to a worker.                                           *)

(* It keeps its place, its page and its batch.                             *)
Stays(u) ==
    /\ pc'[u] = pc[u]
    /\ page'[u] = page[u]
    /\ after'[u] = after[u]
    /\ DOMAIN batch'[u] = DOMAIN batch[u]
    /\ recovered'[u] = recovered[u]
    /\ cursor'[u] = cursor[u]
    /\ version'[u] = version[u]

LEMMA ReturnStays ==
  ASSUME TypeOK, NEW w \in Workers, NEW u \in Workers, u # w, Return(w)
  PROVE  /\ pc'[u] = pc[u] /\ page'[u] = page[u] /\ after'[u] = after[u]
         /\ batch'[u] = batch[u]
  BY DEF TypeOK, Return, Goto

LEMMA FinishStays ==
  ASSUME TypeOK, NEW w \in Workers, NEW u \in Workers, u # w, NEW error,
         Finish(w, error)
  PROVE  /\ pc'[u] = pc[u] /\ page'[u] = page[u] /\ after'[u] = after[u]
         /\ batch'[u] = batch[u]
<1>1. CASE error
  BY <1>1 DEF TypeOK, Finish, Goto
<1>2. CASE ~error
  BY <1>2, ReturnStays DEF Finish
<1> QED
  BY <1>1, <1>2

LEMMA OtherWorkersStay ==
  ASSUME TypeOK, NEW w \in Workers, NEW u \in Workers, u # w, NextWorker(w)
  PROVE  Stays(u)
<1> DEFINE Cycle == /\ pc'[u] = pc[u] /\ page'[u] = page[u] /\ after'[u] = after[u]
                    /\ batch'[u] = batch[u]
           Memory == /\ recovered'[u] = recovered[u] /\ cursor'[u] = cursor[u]
                     /\ version'[u] = version[u]
<1>1. CASE Begin(w) \/ Initialize(w) \/ Scan(w)
  <2>1. Cycle
    BY <1>1 DEF TypeOK, Begin, Initialize, Scan, Goto
  <2>2. Memory
    BY <1>1 DEF Begin, Initialize, Scan, memoryVars
  <2> QED
    BY <2>1, <2>2 DEF Stays
<1>2. CASE Requeue(w)
  <2>1. Cycle
    BY <1>2 DEF TypeOK, Requeue, Goto
  <2>2. Memory
    BY <1>2 DEF TypeOK, Requeue, memoryVars
  <2> QED
    BY <2>1, <2>2 DEF Stays
<1>3. CASE GiveUp(w) \/ Reinitialize(w) \/ Timeout(w)
  <2>1. Return(w) /\ Memory
    BY <1>3 DEF GiveUp, Reinitialize, Timeout, memoryVars
  <2> QED
    BY <2>1, ReturnStays DEF Stays
<1>4. CASE Restart(w)
  <2>1. Return(w) /\ Memory
    BY <1>4 DEF TypeOK, Restart
  <2> QED
    BY <2>1, ReturnStays DEF Stays
<1>5. CASE ClaimAudits(w)
  <2>1. Memory
    BY <1>5 DEF ClaimAudits, memoryVars
  <2>2. CASE Return(w)
    BY <2>1, <2>2, ReturnStays DEF Stays
  <2>3. CASE ~Return(w)
    <3>1. Cycle
      BY <1>5, <2>3 DEF ClaimAudits, Goto, TypeOK
    <3> QED
      BY <2>1, <3>1 DEF Stays
  <2> QED
    BY <2>2, <2>3
<1>6. CASE ClaimError(w)
  <2>1. Memory /\ Finish(w, TRUE)
    BY <1>6 DEF ClaimError, memoryVars
  <2> QED
    BY <2>1, FinishStays DEF Stays
<1>7. CASE Reject(w) \/ Retry(w) \/ Complete(w)
  <2>1. Memory
    BY <1>7 DEF Reject, Retry, Complete, memoryVars
  <2>2. CASE \E error \in {TRUE, failed[w]} : Finish(w, error)
    BY <2>1, <2>2, FinishStays DEF Stays
  <2>3. CASE /\ UNCHANGED <<page, after>>
             /\ pc' = pc \/ Goto(w, "append")
             /\ batch' = batch \/ \E e : Without(w, e)
    BY <2>1, <2>3 DEF Stays, TypeOK, Goto, Without
  <2> QED
    BY <1>7, <2>2, <2>3 DEF Reject, Retry, Complete
<1>8. CASE AppendAudits(w) \/ AppendError(w)
  BY <1>8 DEF TypeOK, AppendAudits, AppendError, Goto,
     memoryVars, Stays
<1> QED
  BY <1>1, <1>2, <1>3, <1>4, <1>5, <1>6, <1>7, <1>8 DEF NextWorker

LEMMA OutsideStays ==
  ASSUME TypeOK, NEW u \in Workers,
         \/ \E e \in Events, f \in Formats : Publish(e, f)
         \/ RestoreLogs \/ Tick \/ UNCHANGED vars
  PROVE  Stays(u)
<1>1. CASE \E e \in Events, f \in Formats : Publish(e, f)
  BY <1>1 DEF Publish, memoryVars, cycleVars, Stays
<1>2. CASE RestoreLogs \/ UNCHANGED vars
  BY <1>2 DEF RestoreLogs, vars, memoryVars, cycleVars, Stays
<1>3. CASE Tick
  BY <1>3 DEF Tick, memoryVars, Stays
<1> QED
  BY <1>1, <1>2, <1>3

-----------------------------------------------------------------------------
(* Completed events are in ClickHouse.                                     *)

(* A worker about to complete events has appended all it still holds.      *)
Appended(u) == At(u, "complete") => DOMAIN batch[u] \subseteq logged

LoggedInv == CompletedMeansLogged /\ \A u \in Workers : Appended(u)

LEMMA AppendedStays ==
  ASSUME NEW u \in Workers, Appended(u), Stays(u), logged \subseteq logged'
  PROVE  Appended(u)'
  BY DEF Appended, Stays, At

LEMMA AppendedOwn ==
  ASSUME TypeOK, NEW w \in Workers, Appended(w), NextWorker(w),
         logged \subseteq logged'
  PROVE  Appended(w)'
<1> USE DEF TypeOK, At
<1>1. CASE Begin(w) \/ Initialize(w) \/ Scan(w)
  <2>1. pc'[w] # "complete"
    BY <1>1 DEF Begin, Initialize, Scan, Goto
  <2> QED
    BY <2>1 DEF Appended
<1>2. CASE Requeue(w)
  <2>1. pc[w] = "requeue" /\ (pc' = pc \/ Goto(w, "claim"))
    BY <1>2 DEF Requeue
  <2> QED
    BY <2>1 DEF Appended, Goto
<1>3. CASE \E error : Finish(w, error)
  BY <1>3 DEF Finish, Return, Goto, Appended
<1>4. CASE Return(w)
  BY <1>4 DEF Return, Goto, Appended
<1>5. CASE GiveUp(w) \/ Reinitialize(w) \/ Timeout(w) \/ Restart(w)
  BY <1>4, <1>5 DEF GiveUp, Reinitialize, Timeout, Restart
<1>6. CASE ClaimAudits(w) \/ ClaimError(w)
  <2>1. Return(w) \/ Finish(w, TRUE) \/ Goto(w, "decode")
    BY <1>6 DEF ClaimAudits, ClaimError
  <2>2. CASE Goto(w, "decode")
    BY <2>2 DEF Goto, Appended
  <2> QED
    BY <1>3, <1>4, <2>1, <2>2
<1>7. CASE Reject(w) \/ Retry(w)
  <2>1. \/ \E error : Finish(w, error)
        \/ Goto(w, "append")
        \/ pc' = pc /\ pc[w] # "complete"
    BY <1>7 DEF Reject, Retry
  <2>2. CASE Goto(w, "append") \/ (pc' = pc /\ pc[w] # "complete")
    BY <2>2 DEF Goto, Appended
  <2> QED
    BY <1>3, <2>1, <2>2
<1>8. CASE AppendAudits(w)
  BY <1>8 DEF AppendAudits, Appended
<1>9. CASE AppendError(w)
  BY <1>9 DEF AppendError, AfterAppend, Goto, Appended
<1>10. CASE Complete(w)
  <2>1. \/ Finish(w, failed[w])
        \/ At(w, "complete") /\ pc' = pc /\ \E e : Without(w, e)
    BY <1>10 DEF Complete
  <2>2. CASE At(w, "complete") /\ pc' = pc /\ \E e : Without(w, e)
    <3>1. DOMAIN batch'[w] \subseteq DOMAIN batch[w]
      BY <2>2 DEF Without
    <3> QED
      BY <2>2, <3>1 DEF Appended
  <2> QED
    BY <1>3, <2>1, <2>2
<1> QED
  BY <1>1, <1>2, <1>5, <1>6, <1>7, <1>8, <1>9, <1>10 DEF NextWorker

LEMMA NextLoggedInv ==
  TypeOK /\ LoggedInv /\ [Next]_vars => LoggedInv'
<1> SUFFICES ASSUME TypeOK, LoggedInv, [Next]_vars
             PROVE  LoggedInv'
  OBVIOUS
<1>1. RowStep
  BY AuditRowStep
<1>2. CompletedMeansLogged'
  <2> SUFFICES ASSUME NEW e \in Events, status'[e] = "completed" PROVE e \in logged'
    BY DEF CompletedMeansLogged
  <2>1. status[e] = "completed" \/ Delivered(e)
    BY <1>1 DEF RowStep, Kept, Reopened, Died
  <2>2. e \in logged
    BY <2>1 DEF LoggedInv, CompletedMeansLogged, Delivered, Appended
  <2> QED
    BY <1>1, <2>2 DEF RowStep
<1>3. ASSUME NEW u \in Workers PROVE Appended(u)'
  <2>1. Appended(u) /\ logged \subseteq logged'
    BY <1>1 DEF LoggedInv, RowStep
  <2>2. CASE \E w \in Workers : NextWorker(w)
    BY <2>1, <2>2, OtherWorkersStay, AppendedStays, AppendedOwn
  <2>3. CASE \/ \E e \in Events, f \in Formats : Publish(e, f)
             \/ RestoreLogs \/ Tick \/ UNCHANGED vars
    BY <2>1, <2>3, OutsideStays, AppendedStays
  <2> QED
    BY <2>2, <2>3 DEF Next
<1> QED
  BY <1>2, <1>3 DEF LoggedInv

(* No audit event counts as delivered that ClickHouse has not stored, even *)
(* if replicas share it, answers are lost or the tables have to be made    *)
(* again.                                                                  *)
THEOREM CompletedIsLogged == Spec => []CompletedMeansLogged
<1>1. Init => LoggedInv
  BY DEF Init, OutboxInit, LoggedInv, CompletedMeansLogged, Appended, At
<1>2. TypeOK /\ LoggedInv /\ [Next]_vars => LoggedInv'
  BY NextLoggedInv
<1>3. LoggedInv => CompletedMeansLogged
  BY DEF LoggedInv
<1> QED
  BY <1>1, <1>2, <1>3, AuditAlwaysType, PTL DEF Spec

-----------------------------------------------------------------------------
(* Recovery after an upgrade.                                              *)

AllNew == \A u \in Workers : version[u] = "new"

(* Rejected by an old worker, and accepted by the new ones.                *)
Recoverable == {e \in Events : status[e] = "dead" /\ format[e] # "bad"}

(* The scan of u still has e before it: in its page, or, that page being   *)
(* full, on a later one.                                                   *)
Ahead(u, e) ==
    /\ Id[e] > cursor[u]
    /\ At(u, "requeue") =>
          /\ Id[e] > after[u]
          /\ \/ e \in page[u]
             \/ ~LastPage(page[u]) /\ \A d \in page[u] : Id[d] < Id[e]

Scanning(u) == ~recovered[u] /\ \A e \in Recoverable : Ahead(u, e)

(* The worker that was upgraded last began its scan when no old worker was *)
(* left to reject an event behind it.                                      *)
RecoverInv == AllNew /\ Recoverable # {} => \E u \in Workers : Scanning(u)

(* New workers reject nothing that is not damaged.                         *)
LEMMA RecoverableShrinks ==
  ASSUME TypeOK, RowStep, AllNew
  PROVE  Recoverable' \subseteq Recoverable
<1> SUFFICES ASSUME NEW e \in Events, status'[e] = "dead", format'[e] # "bad"
             PROVE  status[e] = "dead" /\ format[e] # "bad"
  BY DEF Recoverable
<1>1. ASSUME Died(e) PROVE FALSE
  <2>1. format[e] # "bad"
    BY <1>1 DEF RowStep, Died
  <2>2. PICK w \in Workers : ~Accepts(version[w], format[e])
    BY <1>1 DEF Died, Undecodable
  <2>3. format[e] \in {"old", "new", "bad"} /\ version[w] = "new"
    BY DEF TypeOK, Formats, AllNew
  <2> QED
    BY <2>1, <2>2, <2>3 DEF Accepts
<1>2. status[e] = "dead"
  BY <1>1 DEF RowStep, Kept, Reopened, Delivered
<1> QED
  BY <1>2 DEF RowStep

LEMMA ScanningStays ==
  ASSUME NEW u \in Workers, Scanning(u), Stays(u), Recoverable' \subseteq Recoverable
  PROVE  Scanning(u)'
  BY DEF Scanning, Stays, Ahead, At, LastPage

(* A worker that has left its page, or not read it yet, starts from where  *)
(* it has come to.                                                         *)
LEMMA ScanningElsewhere ==
  ASSUME NEW u \in Workers, Scanning(u), Recoverable' \subseteq Recoverable,
         pc'[u] # "requeue", recovered'[u] = recovered[u], cursor'[u] = cursor[u]
  PROVE  Scanning(u)'
  BY DEF Scanning, Ahead, At

LEMMA ScanKeepsAhead ==
  ASSUME TypeOK, NEW w \in Workers, Scanning(w), Scan(w),
         Recoverable' \subseteq Recoverable
  PROVE  Scanning(w)'
<1> DEFINE S == RejectedAfter(cursor[w])
           F == First(S, Page, Id)
<1>1. /\ page'[w] = F /\ after'[w] = cursor[w]
      /\ recovered'[w] = recovered[w] /\ cursor'[w] = cursor[w]
  BY DEF Scan, TypeOK, memoryVars
<1>2. Page \in Nat /\ S \in SUBSET Events /\ Numbering(Id)
  BY Numberings, AuditAssumption DEF RejectedAfter
<1>3. ASSUME NEW e \in Recoverable'
      PROVE  /\ Id[e] > cursor[w]
             /\ e \in F \/ (~LastPage(F) /\ \A d \in F : Id[d] < Id[e])
  <2>1. e \in Recoverable /\ Id[e] > cursor[w]
    BY <1>3 DEF Scanning, Ahead
  <2>2. e \in S
    BY <2>1 DEF Recoverable, RejectedAfter
  <2>3. CASE e \notin F
    <3>1. e \in S \ F
      BY <2>2, <2>3
    <3>2. (\A d \in F : Id[d] < Id[e]) /\ ~(Cardinality(F) < Page)
      <4> HIDE DEF S
      <4> QED
        BY <1>2, <3>1, FirstIsFull
    <3> QED
      BY <2>1, <3>2 DEF LastPage
  <2> QED
    BY <2>1, <2>3
<1> HIDE DEF F
<1> QED
  BY <1>1, <1>3 DEF Scanning, Ahead, LastPage

LEMMA RequeueKeepsAhead ==
  ASSUME TypeOK, AllNew, NEW w \in Workers, Scanning(w), Requeue(w),
         Recoverable' \subseteq Recoverable, Recoverable' # {}
  PROVE  Scanning(w)'
<1> DEFINE todo == {e \in page[w] : Id[e] > after[w]}
<1>1. At(w, "requeue") /\ todo \in SUBSET Events /\ Numbering(Id) /\ format' = format
  BY Numberings DEF Requeue, TypeOK, rowVars
<1>2. ASSUME NEW r \in First(todo, 1, Id),
             IF Accepts(version[w], format[r]) /\ Rejected(r)
             THEN RequeueOutbox(r) ELSE UNCHANGED outboxVars,
             after' = [after EXCEPT ![w] = Id[r]],
             UNCHANGED <<memoryVars, pc, page>>
      PROVE  Scanning(w)'
  <2>1. r \in page[w] /\ r \in Events /\ Id[r] \in Nat
    BY <1>1, FirstSubset DEF Numbering
  <2>2. /\ after'[w] = Id[r] /\ page'[w] = page[w] /\ pc'[w] = pc[w]
        /\ cursor'[w] = cursor[w] /\ recovered'[w] = recovered[w]
    BY <1>2 DEF TypeOK, memoryVars
  <2>3. r \notin Recoverable'
    <3> SUFFICES ASSUME status'[r] = "dead", format[r] # "bad" PROVE FALSE
      BY <1>1 DEF Recoverable
    <3>1. Accepts(version[w], format[r])
      BY <2>1 DEF AllNew, Accepts, TypeOK, Formats
    <3>2. CASE Rejected(r)
      BY <1>2, <2>1, <3>1, <3>2 DEF RequeueOutbox, TypeOK, OutboxTypeOK
    <3>3. CASE ~Rejected(r)
      BY <1>2, <3>3 DEF outboxVars, Rejected
    <3> QED
      BY <3>2, <3>3
  <2>4. ASSUME NEW e \in Recoverable' PROVE Ahead(w, e)'
    <3>1. e \in Recoverable /\ e # r /\ e \in Events /\ Id[e] \in Nat
      BY <1>1, <2>3 DEF Recoverable, Numbering
    <3>2. Ahead(w, e)
      BY <3>1 DEF Scanning
    <3>3. Id[e] > Id[r]
      <4>1. CASE e \in page[w]
        <5>1. e \in todo
          BY <1>1, <3>2, <4>1 DEF Ahead
        <5>2. Id[r] <= Id[e]
          BY <1>1, <1>2, <5>1, FirstIsLeast
        <5> QED
          BY <1>1, <2>1, <3>1, <5>2 DEF Numbering
      <4>2. CASE \A d \in page[w] : Id[d] < Id[e]
        BY <2>1, <3>1, <4>2
      <4> QED
        BY <1>1, <3>2, <4>1, <4>2 DEF Ahead
    <3> QED
      BY <1>1, <2>2, <3>2, <3>3 DEF Ahead, At, LastPage
  <2> QED
    BY <2>2, <2>4 DEF Scanning
<1>3. ASSUME todo = {},
             cursor' = [cursor EXCEPT ![w] = after[w]],
             recovered' = [recovered EXCEPT ![w] = LastPage(page[w])],
             Goto(w, "claim")
      PROVE  Scanning(w)'
  <2>1. /\ cursor'[w] = after[w] /\ recovered'[w] = LastPage(page[w])
        /\ pc'[w] = "claim"
    BY <1>3 DEF TypeOK, Goto
  <2>2. ASSUME NEW e \in Recoverable
        PROVE  Id[e] > after[w] /\ ~LastPage(page[w])
    <3>1. Ahead(w, e)
      BY DEF Scanning
    <3> QED
      BY <1>1, <1>3, <3>1 DEF Ahead
  <2>3. ~recovered'[w]
    BY <2>1, <2>2
  <2>4. ASSUME NEW e \in Recoverable' PROVE Ahead(w, e)'
    BY <2>1, <2>2 DEF Ahead, At
  <2> QED
    BY <2>3, <2>4 DEF Scanning
<1> QED
  BY <1>2, <1>3 DEF Requeue

LEMMA ScanningOwn ==
  ASSUME TypeOK, AllNew, NEW w \in Workers, Scanning(w),
         NextWorker(w), ~Restart(w),
         Recoverable' \subseteq Recoverable, Recoverable' # {}
  PROVE  Scanning(w)'
<1> DEFINE Elsewhere == /\ pc'[w] # "requeue"
                        /\ recovered'[w] = recovered[w] /\ cursor'[w] = cursor[w]
<1>0. ASSUME Elsewhere PROVE Scanning(w)'
  BY <1>0, ScanningElsewhere
<1> USE DEF TypeOK
<1>1. CASE Begin(w)
  <2>1. pc'[w] \in {"initialize", "scan", "claim"}
    BY <1>1 DEF Begin, Goto
  <2>2. recovered'[w] = recovered[w] /\ cursor'[w] = cursor[w]
    BY <1>1 DEF Begin, memoryVars
  <2> QED
    BY <1>0, <2>1, <2>2
<1>2. CASE Initialize(w)
  <2>1. pc'[w] \in {"scan", "claim"}
    BY <1>2 DEF Initialize, Goto
  <2>2. recovered'[w] = recovered[w] /\ cursor'[w] = cursor[w]
    BY <1>2 DEF Initialize
  <2> QED
    BY <1>0, <2>1, <2>2
<1>3. CASE Scan(w)
  BY <1>3, ScanKeepsAhead
<1>4. CASE Requeue(w)
  BY <1>4, RequeueKeepsAhead
<1>5. ASSUME Return(w) \/ \E error : Finish(w, error), UNCHANGED memoryVars
      PROVE  Scanning(w)'
  <2>1. pc'[w] \in {"idle", "reinitialize"}
    BY <1>5 DEF Finish, Return, Goto
  <2> QED
    BY <1>0, <1>5, <2>1 DEF memoryVars
<1>6. CASE GiveUp(w) \/ Reinitialize(w) \/ Timeout(w)
  BY <1>5, <1>6 DEF GiveUp, Reinitialize, Timeout
<1>7. CASE ClaimAudits(w) \/ ClaimError(w)
  <2>1. UNCHANGED memoryVars
    BY <1>7 DEF ClaimAudits, ClaimError
  <2>2. Return(w) \/ Finish(w, TRUE) \/ Goto(w, "decode")
    BY <1>7 DEF ClaimAudits, ClaimError
  <2>3. CASE Goto(w, "decode")
    BY <1>0, <2>1, <2>3 DEF Goto, memoryVars
  <2> QED
    BY <1>5, <2>1, <2>2, <2>3
<1>8. CASE Reject(w) \/ Retry(w) \/ Complete(w)
  <2>1. UNCHANGED memoryVars /\ pc[w] # "requeue"
    BY <1>8 DEF Reject, Retry, Complete, At
  <2>2. (\E error : Finish(w, error)) \/ Goto(w, "append") \/ pc' = pc
    BY <1>8 DEF Reject, Retry, Complete
  <2>3. CASE Goto(w, "append") \/ pc' = pc
    BY <1>0, <2>1, <2>3 DEF Goto, memoryVars
  <2> QED
    BY <1>5, <2>1, <2>2, <2>3
<1>9. CASE AppendAudits(w) \/ AppendError(w)
  <2>1. UNCHANGED memoryVars /\ pc'[w] \in {"retry", "complete"}
    BY <1>9 DEF AppendAudits, AppendError, AfterAppend, Goto
  <2> QED
    BY <1>0, <2>1 DEF memoryVars
<1> QED
  BY <1>1, <1>2, <1>3, <1>4, <1>6, <1>7, <1>8, <1>9 DEF NextWorker

(* A worker that starts again scans from before the first row.             *)
LEMMA RestartScans ==
  ASSUME TypeOK, NEW w \in Workers, Restart(w)
  PROVE  Scanning(w)'
<1>1. ~recovered'[w] /\ cursor'[w] = 0 /\ pc'[w] = "idle"
  BY DEF Restart, Return, Goto, TypeOK
<1>2. \A e \in Events : Id[e] > 0
  BY AuditAssumption
<1> QED
  BY <1>1, <1>2 DEF Scanning, Ahead, At, Recoverable

LEMMA NextRecoverInv ==
  TypeOK /\ RecoverInv /\ [Next]_vars => RecoverInv'
<1> SUFFICES ASSUME TypeOK, RecoverInv, [Next]_vars,
                    AllNew', Recoverable' # {}
             PROVE  \E u \in Workers : Scanning(u)'
  BY DEF RecoverInv
<1>1. CASE \E w \in Workers : Restart(w)
  BY <1>1, RestartScans
<1>2. CASE ~\E w \in Workers : Restart(w)
  <2>1. \A u \in Workers : version'[u] = version[u]
    <3>1. CASE \E w \in Workers : NextWorker(w)
      BY <1>2, <3>1 DEF NextWorker, Begin, Initialize, Scan,
         Requeue, GiveUp, ClaimAudits, ClaimError, Reject,
         AppendAudits, AppendError, Retry, Complete,
         Reinitialize, Timeout, memoryVars
    <3>2. CASE \/ \E e \in Events, f \in Formats : Publish(e, f)
               \/ RestoreLogs \/ Tick \/ UNCHANGED vars
      BY <3>2, OutsideStays DEF Stays
    <3> QED
      BY <3>1, <3>2 DEF Next
  <2>2. AllNew
    BY <2>1 DEF AllNew
  <2>3. Recoverable' \subseteq Recoverable
    BY <2>2, AuditRowStep, RecoverableShrinks
  <2>4. PICK u \in Workers : Scanning(u)
    BY <2>2, <2>3 DEF RecoverInv
  <2>5. CASE \E w \in Workers : NextWorker(w)
    <3>1. PICK w \in Workers : NextWorker(w)
      BY <2>5
    <3>2. CASE w = u
      BY <1>2, <2>2, <2>3, <2>4, <3>1, <3>2, ScanningOwn
    <3>3. CASE w # u
      BY <2>3, <2>4, <3>1, <3>3, OtherWorkersStay, ScanningStays
    <3> QED
      BY <3>2, <3>3
  <2>6. CASE \/ \E e \in Events, f \in Formats : Publish(e, f)
             \/ RestoreLogs \/ Tick \/ UNCHANGED vars
    BY <2>3, <2>4, <2>6, OutsideStays, ScanningStays
  <2> QED
    BY <2>5, <2>6 DEF Next
<1> QED
  BY <1>1, <1>2

(* Once all replicas are upgraded and have come to the end of their scans, *)
(* only genuinely invalid payloads are dead, although pages are read while *)
(* other replicas, old ones among them, rejected and put back events.      *)
THEOREM UpgradeIsComplete == Spec => []UpgradeRecovers
<1>1. Init => RecoverInv
  BY DEF Init, OutboxInit, RecoverInv, Recoverable
<1>2. TypeOK /\ RecoverInv /\ [Next]_vars => RecoverInv'
  BY NextRecoverInv
<1>3. RecoverInv => UpgradeRecovers
  BY DEF RecoverInv, UpgradeRecovers, AllNew, Recoverable, Scanning
<1> QED
  BY <1>1, <1>2, <1>3, AuditAlwaysType, PTL DEF Spec
=============================================================================
