---------------------------- MODULE AuditDelivery ----------------------------
(***************************************************************************)
(* The audit half of the log worker (internal/logworker/audit.go and       *)
(* run.go, mysqlstore/audit_recovery.go, logstore/clickhouse.go): replicas *)
(* lease batches of audit events, append what they can decode to           *)
(* ClickHouse, and settle the events one by one. A replica that starts     *)
(* first puts back, page by page, the events earlier versions rejected.    *)
(*                                                                         *)
(* Every statement sent to MySQL or ClickHouse is one action. An error is  *)
(* reported whether or not the statement took effect. Audit events are     *)
(* dead for one reason only, a payload their decoder did not accept, so    *)
(* the error code of dead rows is not kept apart from their status.        *)
(***************************************************************************)
EXTENDS Outbox

CONSTANTS
    Workers,        \* log worker replicas
    Budget,         \* the context of a cycle (10 s)
    Batch,          \* events claimed at once (500)
    Page,           \* events reconsidered at once (100)
    Id,             \* row ids are random, so not in created_at order
    MaxFaults       \* bound of this model on restarts and restores

Versions == {"old", "new"}

Formats == {"old", "new", "bad"}

ASSUME AuditAssumption ==
    /\ Budget \in Nat \ {0}
    /\ Batch \in Nat \ {0}
    /\ Page \in Nat \ {0}
    /\ Id \in [Events -> Nat \ {0}]
    /\ \A e, f \in Events : Id[e] = Id[f] => e = f
    /\ MaxFaults \in Nat

VARIABLES
    format,         \* the oldest version whose decoder accepts the payload
    delay,          \* outbox_events.attempts, as the backoff it leads to
    tables,         \* ClickHouse has the log tables
    logged,         \* events whose record ClickHouse has ever stored
    version,        \* of each worker's decoder
    initialized,    \* it has seen ClickHouse's schema in place
    recovered,      \* it has reconsidered all rejected events
    cursor,         \* the last row id it has reconsidered
    pc,             \* its next statement
    left,           \* time left of its cycle
    page,           \* the rejected events it has read
    after,          \* the last of them it has dealt with
    batch,          \* the events it still has to settle, with their backoff
    failed,         \* its cycle has met an error
    faults

rowVars == <<format, delay>>
logVars == <<tables, logged>>
memoryVars == <<version, initialized, recovered, cursor>>
cycleVars == <<pc, left, page, after, batch, failed>>
vars == <<outboxVars, rowVars, logVars, memoryVars, cycleVars, faults>>

Steps == {"idle", "initialize", "scan", "requeue", "claim", "decode", "append",
          "retry", "complete", "reinitialize"}

RowId == {0} \cup {Id[e] : e \in Events}

Batches == UNION {[S -> 0..MaxDelay] : S \in SUBSET Events}

TypeOK ==
    /\ OutboxTypeOK
    /\ format \in [Events -> Formats]
    /\ delay \in [Events -> 0..MaxDelay]
    /\ tables \in BOOLEAN
    /\ logged \subseteq Events
    /\ version \in [Workers -> Versions]
    /\ initialized \in [Workers -> BOOLEAN]
    /\ recovered \in [Workers -> BOOLEAN]
    /\ cursor \in [Workers -> RowId]
    /\ pc \in [Workers -> Steps]
    /\ left \in [Workers -> 0..Budget]
    /\ page \in [Workers -> SUBSET Events]
    /\ after \in [Workers -> RowId]
    /\ batch \in [Workers -> Batches]
    /\ failed \in [Workers -> BOOLEAN]
    /\ faults \in 0..MaxFaults

Empty == [e \in {} |-> 0]

Init ==
    /\ OutboxInit
    /\ format = [e \in Events |-> "bad"]
    /\ delay = [e \in Events |-> 0]
    /\ tables = FALSE
    /\ logged = {}
    /\ version \in [Workers -> Versions]
    /\ initialized = [w \in Workers |-> FALSE]
    /\ recovered = [w \in Workers |-> FALSE]
    /\ cursor = [w \in Workers |-> 0]
    /\ pc = [w \in Workers |-> "idle"]
    /\ left = [w \in Workers |-> 0]
    /\ page = [w \in Workers |-> {}]
    /\ after = [w \in Workers |-> 0]
    /\ batch = [w \in Workers |-> Empty]
    /\ failed = [w \in Workers |-> FALSE]
    /\ faults = 0

Accepts(v, f) == f = "old" \/ f = v

-----------------------------------------------------------------------------
(* A mutation or a rejected request leaves its audit event, in the format  *)
(* of the version of Management that wrote it, or damaged.                 *)
Publish(e, f) ==
    /\ InsertOutbox(e)
    /\ format' = [format EXCEPT ![e] = f]
    /\ UNCHANGED <<delay, logVars, memoryVars, cycleVars, faults>>

-----------------------------------------------------------------------------
At(w, step) == pc[w] = step

Goto(w, step) == pc' = [pc EXCEPT ![w] = step]

Alive(w) == left[w] > 0

Return(w) ==
    /\ Goto(w, "idle")
    /\ left' = [left EXCEPT ![w] = 0]
    /\ page' = [page EXCEPT ![w] = {}]
    /\ after' = [after EXCEPT ![w] = 0]
    /\ batch' = [batch EXCEPT ![w] = Empty]
    /\ failed' = [failed EXCEPT ![w] = FALSE]

Begin(w) ==
    /\ At(w, "idle")
    /\ left' = [left EXCEPT ![w] = Budget]
    /\ Goto(w, IF ~initialized[w] THEN "initialize"
               ELSE IF ~recovered[w] THEN "scan" ELSE "claim")
    /\ UNCHANGED <<outboxVars, rowVars, logVars, memoryVars, page, after, batch, failed, faults>>

Initialize(w) ==
    /\ At(w, "initialize")
    /\ Alive(w)
    /\ tables' = TRUE
    /\ initialized' = [initialized EXCEPT ![w] = TRUE]
    /\ Goto(w, IF recovered[w] THEN "claim" ELSE "scan")
    /\ UNCHANGED <<outboxVars, rowVars, logged, version, recovered, cursor,
                   left, page, after, batch, failed, faults>>

-----------------------------------------------------------------------------
(* RequeueAuditFailures: one page of rejected events.                      *)

(* The first n of S as f numbers them.                                     *)
First(S, n, f) == {e \in S : Cardinality({d \in S : f[d] < f[e]}) < n}

(* Mutant: pages start from the first row again.                           *)
RejectedAfter_NoCursor(id) == {e \in Events : status[e] = "dead"}

RejectedAfter(id) == {e \in Events : status[e] = "dead" /\ Id[e] > id}

Scan(w) ==
    /\ At(w, "scan")
    /\ Alive(w)
    /\ page' = [page EXCEPT ![w] = First(RejectedAfter(cursor[w]), Page, Id)]
    /\ after' = [after EXCEPT ![w] = cursor[w]]
    /\ Goto(w, "requeue")
    /\ UNCHANGED <<outboxVars, rowVars, logVars, memoryVars, left, batch, failed, faults>>

(* Mutant: the update does not look at the status again.                   *)
Rejected_AsRead(e) == TRUE

(* It may have been put back by another replica since it was read.         *)
Rejected(e) == status[e] = "dead"

RequeueOutbox(e) ==
    /\ status' = [status EXCEPT ![e] = "pending"]
    /\ wait' = [wait EXCEPT ![e] = 0]
    /\ lease' = [lease EXCEPT ![e] = 0]

(* Mutant: a page that is full is taken for the last one.                  *)
LastPage_OffByOne(S) == Cardinality(S) <= Page

LastPage(S) == Cardinality(S) < Page

Requeue(w) ==
    /\ At(w, "requeue")
    /\ Alive(w)
    /\ LET todo == {e \in page[w] : Id[e] > after[w]} IN
       \/ \E e \in First(todo, 1, Id) :
             /\ IF Accepts(version[w], format[e]) /\ Rejected(e)
                THEN RequeueOutbox(e) ELSE UNCHANGED outboxVars
             /\ after' = [after EXCEPT ![w] = Id[e]]
             /\ UNCHANGED <<memoryVars, pc, page>>
       \/ /\ todo = {}
          /\ cursor' = [cursor EXCEPT ![w] = after[w]]
          /\ recovered' = [recovered EXCEPT ![w] = LastPage(page[w])]
          /\ page' = [page EXCEPT ![w] = {}]
          /\ Goto(w, "claim")
          /\ UNCHANGED <<outboxVars, version, initialized, after>>
    /\ UNCHANGED <<rowVars, logVars, left, batch, failed, faults>>

(* An error before the claim ends the cycle; the page is read again.       *)
GiveUp(w) ==
    /\ pc[w] \in {"initialize", "scan", "requeue"}
    /\ tables' \in IF At(w, "initialize") /\ Alive(w) THEN {tables, TRUE} ELSE {tables}
    /\ Return(w)
    /\ UNCHANGED <<outboxVars, rowVars, logged, memoryVars, faults>>

-----------------------------------------------------------------------------
(* DeliverAuditOnce.                                                       *)

(* Mutant: the schema is set up once and for all.                          *)
Finish_NotAgain(w, error) == Return(w)

(* After an error the schema is set up again.                              *)
Finish(w, error) ==
    IF error THEN Goto(w, "reinitialize") /\ UNCHANGED <<left, page, after, batch, failed>>
    ELSE Return(w)

(* Mutant: without the limit.                                              *)
Backoff_Unlimited(d) == IF d = 0 THEN 1 ELSE 2 * d

(* auditRetryDelay of one attempt more.                                    *)
Backoff(d) ==
    IF d = 0 THEN IF MaxDelay = 0 THEN 0 ELSE 1
    ELSE IF 2 * d > MaxDelay THEN MaxDelay ELSE 2 * d

Created == [e \in Events |-> e]

ClaimAudits(w) ==
    /\ At(w, "claim")
    /\ Alive(w)
    /\ LET S == First({e \in Events : Claimable(e)}, Batch, Created) IN
       \/ S = {} /\ Return(w) /\ UNCHANGED <<outboxVars, delay>>
       \/ /\ S # {}
          /\ ClaimOutbox(S)
          /\ delay' = [e \in Events |-> IF e \in S THEN Backoff(delay[e]) ELSE delay[e]]
          /\ batch' = [batch EXCEPT ![w] = [e \in S |-> delay'[e]]]
          /\ Goto(w, "decode")
          /\ UNCHANGED <<left, page, after, failed>>
    /\ UNCHANGED <<format, logVars, memoryVars, faults>>

(* The claim fails, and may have taken the lease all the same.             *)
ClaimError(w) ==
    /\ At(w, "claim")
    /\ LET S == First({e \in Events : Claimable(e)}, Batch, Created) IN
       \/ /\ Alive(w)
          /\ ClaimOutbox(S)
          /\ delay' = [e \in Events |-> IF e \in S THEN Backoff(delay[e]) ELSE delay[e]]
       \/ UNCHANGED <<outboxVars, delay>>
    /\ Finish(w, TRUE)
    /\ UNCHANGED <<format, logVars, memoryVars, faults>>

(* The rest of a batch when e has been dealt with.                         *)
Without(w, e) ==
    batch' = [batch EXCEPT ![w] = [f \in DOMAIN batch[w] \ {e} |-> batch[w][f]]]

Undecodable(w) == {e \in DOMAIN batch[w] : ~Accepts(version[w], format[e])}

(* Events are settled one by one, oldest first; that one cannot be settled *)
(* does not keep the worker from the next.                                 *)
Reject(w) ==
    /\ At(w, "decode")
    /\ \/ \E e \in First(Undecodable(w), 1, Created) :
             /\ GiveUpOutbox(e) \/ UNCHANGED outboxVars
             /\ Without(w, e)
             /\ failed' = [failed EXCEPT ![w] = TRUE]
             /\ UNCHANGED <<pc, left, page, after>>
       \/ /\ Undecodable(w) = {}
          /\ IF DOMAIN batch[w] = {} THEN Finish(w, failed[w])
             ELSE Goto(w, "append") /\ UNCHANGED <<left, page, after, batch, failed>>
          /\ UNCHANGED outboxVars
    /\ Alive(w)
    /\ UNCHANGED <<rowVars, logVars, memoryVars, faults>>

(* Mutant: events are completed although the append reported an error.     *)
AfterAppend_Ignored(error) == "complete"

AfterAppend(error) == IF error THEN "retry" ELSE "complete"

AppendAudits(w) ==
    /\ At(w, "append")
    /\ Alive(w)
    /\ tables
    /\ logged' = logged \cup DOMAIN batch[w]
    /\ Goto(w, AfterAppend(FALSE))
    /\ UNCHANGED <<outboxVars, rowVars, tables, memoryVars, left, page, after, batch,
                   failed, faults>>

(* An append is one insert: all of the batch is stored or nothing is.      *)
AppendError(w) ==
    /\ At(w, "append")
    /\ \E stored \in BOOLEAN :
          /\ stored => tables /\ Alive(w)
          /\ logged' = IF stored THEN logged \cup DOMAIN batch[w] ELSE logged
    /\ failed' = [failed EXCEPT ![w] = TRUE]
    /\ Goto(w, AfterAppend(TRUE))
    /\ UNCHANGED <<outboxVars, rowVars, tables, memoryVars, left, page, after, batch, faults>>

Retry(w) ==
    /\ At(w, "retry")
    /\ Alive(w)
    /\ \/ \E e \in First(DOMAIN batch[w], 1, Created) :
             /\ RetryOutbox(e, batch[w][e]) \/ UNCHANGED outboxVars
             /\ Without(w, e)
             /\ UNCHANGED <<pc, left, page, after, failed>>
       \/ DOMAIN batch[w] = {} /\ Finish(w, TRUE) /\ UNCHANGED outboxVars
    /\ UNCHANGED <<rowVars, logVars, memoryVars, faults>>

Complete(w) ==
    /\ At(w, "complete")
    /\ Alive(w)
    /\ \/ \E e \in First(DOMAIN batch[w], 1, Created) :
             /\ \/ CompleteOutbox(e) /\ UNCHANGED failed
                \/ UNCHANGED outboxVars /\ failed' = [failed EXCEPT ![w] = TRUE]
             /\ Without(w, e)
             /\ UNCHANGED <<pc, left, page, after>>
       \/ DOMAIN batch[w] = {} /\ Finish(w, failed[w]) /\ UNCHANGED outboxVars
    /\ UNCHANGED <<rowVars, logVars, memoryVars, faults>>

(* "A restore can remove log tables", and the attempt may fail, too.       *)
Reinitialize(w) ==
    /\ At(w, "reinitialize")
    /\ Alive(w)
    /\ tables' \in {tables, TRUE}
    /\ Return(w)
    /\ UNCHANGED <<outboxVars, rowVars, logged, memoryVars, faults>>

(* The context ran out: every call left to make fails at once.             *)
Timeout(w) ==
    /\ ~At(w, "idle")
    /\ ~Alive(w)
    /\ Return(w)
    /\ UNCHANGED <<outboxVars, rowVars, logVars, memoryVars, faults>>

-----------------------------------------------------------------------------
(* The process stops and starts again, maybe as a newer version.           *)
Restart(w) ==
    /\ faults < MaxFaults
    /\ faults' = faults + 1
    /\ Return(w)
    /\ version' \in {version, [version EXCEPT ![w] = "new"]}
    /\ initialized' = [initialized EXCEPT ![w] = FALSE]
    /\ recovered' = [recovered EXCEPT ![w] = FALSE]
    /\ cursor' = [cursor EXCEPT ![w] = 0]
    /\ UNCHANGED <<outboxVars, rowVars, logVars>>

RestoreLogs ==
    /\ tables
    /\ faults < MaxFaults
    /\ faults' = faults + 1
    /\ tables' = FALSE
    /\ UNCHANGED <<outboxVars, rowVars, logged, memoryVars, cycleVars>>

(* Delays run from the moment the append failed.                           *)
Tick ==
    /\ \A w \in Workers : At(w, "idle") \/ Alive(w)
    /\ OutboxTick
    /\ left' = [w \in Workers |-> Sooner(left[w])]
    /\ batch' = [w \in Workers |-> IF At(w, "retry")
                    THEN [e \in DOMAIN batch[w] |-> Sooner(batch[w][e])] ELSE batch[w]]
    /\ UNCHANGED <<rowVars, logVars, memoryVars, pc, page, after, failed, faults>>

-----------------------------------------------------------------------------
NextWorker(w) ==
    \/ Begin(w)
    \/ Initialize(w)
    \/ Scan(w)
    \/ Requeue(w)
    \/ GiveUp(w)
    \/ ClaimAudits(w)
    \/ ClaimError(w)
    \/ Reject(w)
    \/ AppendAudits(w)
    \/ AppendError(w)
    \/ Retry(w)
    \/ Complete(w)
    \/ Reinitialize(w)
    \/ Timeout(w)
    \/ Restart(w)

Next ==
    \/ \E e \in Events, f \in Formats : Publish(e, f)
    \/ \E w \in Workers : NextWorker(w)
    \/ RestoreLogs
    \/ Tick

Spec == Init /\ [][Next]_vars

(* A step that fails, or is too late, for want of MySQL or ClickHouse.     *)
Fault(w) ==
    \/ GiveUp(w) \/ ClaimError(w) \/ Timeout(w) \/ Restart(w)
    \/ AppendError(w) /\ tables
    \/ Reject(w) /\ Undecodable(w) # {} /\ UNCHANGED outboxVars
    \/ Complete(w) /\ DOMAIN batch[w] # {} /\ UNCHANGED outboxVars
    \/ Reinitialize(w) /\ ~tables'

(* Workers poll every half second and time passes, and after any number of *)
(* outages of MySQL and ClickHouse there comes one that is the last.       *)
Fairness ==
    /\ WF_vars(Tick)
    /\ \A w \in Workers : WF_vars(NextWorker(w))
    /\ <>[][\A w \in Workers : ~Fault(w)]_vars

FairSpec == Spec /\ Fairness

-----------------------------------------------------------------------------
(* Properties.                                                             *)

(* No audit event counts as delivered that ClickHouse has not stored, even *)
(* if replicas share it, answers are lost or the tables have to be made    *)
(* again.                                                                  *)
CompletedMeansLogged ==
    \A e \in Events : status[e] = "completed" => e \in logged

(* "The new worker scans bounded pages of prior decoder failures, requeues *)
(* only payloads accepted by the current strict decoder": once all         *)
(* replicas are upgraded and have come to the end of their scans, only     *)
(* genuinely invalid payloads are dead, although pages are read while      *)
(* other replicas, old ones among them, rejected and put back events.      *)
UpgradeRecovers ==
    (\A w \in Workers : version[w] = "new" /\ recovered[w]) =>
        \A e \in Events : status[e] = "dead" => format[e] = "bad"

(* Recovery never makes a delivered event pending again, not even one that *)
(* another replica has put back and delivered since its page was read.     *)
DeliveredOnce ==
    [][\A e \in Events : status[e] = "completed" => status'[e] = "completed"]_vars

(* What every version accepts is delivered, whatever stops, fails or is    *)
(* restored on the way.                                                    *)
EveryEventIsLogged ==
    \A e \in Events :
        status[e] # "absent" /\ format[e] = "old" ~> status[e] = "completed"

(* "A malformed row cannot starve later valid events": after an upgrade    *)
(* what the new version accepts is delivered, too, if it was rejected by   *)
(* the old one and lies pages behind damaged rows.                         *)
RejectedEventsReturn ==
    <>[](\A w \in Workers : version[w] = "new") =>
        \A e \in Events :
            status[e] # "absent" /\ format[e] = "new" ~> status[e] = "completed"
=============================================================================
