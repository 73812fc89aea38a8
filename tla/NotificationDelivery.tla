------------------------ MODULE NotificationDelivery ------------------------
(***************************************************************************)
(* The notification half of the log worker: replicas lease notification    *)
(* events from the outbox, attempt each target of the event at its         *)
(* destination, record every attempt, and complete the event once no       *)
(* target is pending (internal/logworker/notification.go on top of         *)
(* ClaimNotificationTargets, RecordNotificationDelivery and                *)
(* NotificationProgress of internal/storage/mysqlstore).                   *)
(*                                                                         *)
(* Every store call is one transaction and one action; between two of      *)
(* them a replica holds what it read, and anything may happen.             *)
(***************************************************************************)
EXTENDS Outbox

CONSTANTS
    Workers,        \* log worker replicas
    Destinations,   \* notification destinations
    MaxAttempts,    \* attempts per target (8)
    Rounds,         \* attempts per cycle of a worker (100)
    Budget,         \* the context of a cycle (45 s)
    Grace,          \* the detached context that records an attempt (3 s)
    None            \* no event, no request

ASSUME NotificationAssumption ==
    /\ MaxAttempts \in Nat \ {0}
    /\ Rounds \in Nat \ {0}
    /\ Budget \in Nat \ {0}
    /\ Grace \in Nat \ {0}
    /\ None \notin Events

(* What the timing comment in deliverNotificationsOnce relies on.          *)
LeaseCoversBudget == Budget + Grace + Skew < Lease

VARIABLES
    target,         \* notification_targets.status by event and destination
    attempts,       \* notification_targets.attempts
    targetWait,     \* time until notification_targets.next_attempt_at
    deliveries,     \* notification_deliveries
    decodable,      \* events whose payload DecodeEvent accepts
    destination,    \* notification_destinations, as far as delivery asks
    accepted,       \* attempts a receiver took; outside the program
    pc,             \* the next step of each worker
    job,            \* the event it leased
    left,           \* time left of its cycle, Grace of it for recording only
    rounds,         \* attempts made in its cycle
    request,        \* the target it claimed, then what came of the request
    next            \* time until the next attempt, as it read the progress

storeVars == <<target, attempts, targetWait, deliveries, decodable, destination>>
workerVars == <<pc, job, left, rounds, request, next>>
vars == <<outboxVars, storeVars, workerVars, accepted>>

TargetStatus == {"none", "pending", "succeeded", "dead"}

Delivery == [event : Events, dest : Destinations, attempt : 1..MaxAttempts,
             status : {"succeeded", "retrying", "dead"}]

Attempt == [event : Events, dest : Destinations, attempt : 1..MaxAttempts]

(* "subscribed" destinations want the event type, "other" ones do not, and *)
(* "inactive" ones are disabled or archived.                               *)
DestinationState == {"subscribed", "other", "inactive"}

Steps == {"idle", "decode", "claim", "send", "record", "progress", "complete", "retry"}

Request == [dest : Destinations, attempt : 1..MaxAttempts, active : BOOLEAN,
            result : {"none", "succeeded", "retrying", "dead"}]

StoreTypeOK ==
    /\ target \in [Events -> [Destinations -> TargetStatus]]
    /\ attempts \in [Events -> [Destinations -> 0..MaxAttempts]]
    /\ targetWait \in [Events -> [Destinations -> 0..MaxDelay]]
    /\ deliveries \subseteq Delivery
    /\ decodable \subseteq Events
    /\ destination \in [Destinations -> DestinationState]

WorkerTypeOK ==
    /\ pc \in [Workers -> Steps]
    /\ job \in [Workers -> Events \cup {None}]
    /\ left \in [Workers -> 0..(Budget + Grace)]
    /\ rounds \in [Workers -> 0..Rounds]
    /\ request \in [Workers -> Request \cup {None}]
    /\ next \in [Workers -> 0..MaxDelay]

TypeOK ==
    /\ OutboxTypeOK
    /\ StoreTypeOK
    /\ WorkerTypeOK
    /\ accepted \subseteq Attempt

Init ==
    /\ OutboxInit
    /\ target = [e \in Events |-> [d \in Destinations |-> "none"]]
    /\ attempts = [e \in Events |-> [d \in Destinations |-> 0]]
    /\ targetWait = [e \in Events |-> [d \in Destinations |-> 0]]
    /\ deliveries = {}
    /\ decodable = {}
    /\ destination = [d \in Destinations |-> "subscribed"]
    /\ accepted = {}
    /\ pc = [w \in Workers |-> "idle"]
    /\ job = [w \in Workers |-> None]
    /\ left = [w \in Workers |-> 0]
    /\ rounds = [w \in Workers |-> 0]
    /\ request = [w \in Workers |-> None]
    /\ next = [w \in Workers |-> 0]

-----------------------------------------------------------------------------
(* Where events come from.                                                 *)

NewEvent(e, S, valid) ==
    /\ InsertOutbox(e)
    /\ target' = [target EXCEPT ![e] =
          [d \in Destinations |-> IF d \in S THEN "pending" ELSE "none"]]
    /\ decodable' = IF valid THEN decodable \cup {e} ELSE decodable
    /\ UNCHANGED <<attempts, targetWait, deliveries, destination, accepted, workerVars>>

(* A successful mutation: the targets are the active destinations that     *)
(* subscribe to its type now, fixed with the event.                        *)
Publish(e) ==
    \E valid \in BOOLEAN :
        NewEvent(e, {d \in Destinations : destination[d] = "subscribed"}, valid)

(* An operator's test event, whatever the destination subscribes to.       *)
QueueNotificationTest(e, d) ==
    /\ destination[d] # "inactive"
    /\ NewEvent(e, {d}, TRUE)

(* An operator repeats a recorded delivery as an event of its own with the *)
(* source's payload.                                                       *)
RedeliverNotification(e, d) ==
    /\ destination[d] # "inactive"
    /\ \E row \in deliveries :
          /\ row.dest = d
          /\ NewEvent(e, {d}, row.event \in decodable)

(* Commits, archival and the like; it leaves queued targets as they are.   *)
ChangeDestination(d, s) ==
    /\ destination[d] # s
    /\ destination' = [destination EXCEPT ![d] = s]
    /\ UNCHANGED <<outboxVars, target, attempts, targetWait, deliveries, decodable,
                   accepted, workerVars>>

-----------------------------------------------------------------------------
(* A cycle of a worker.                                                    *)

At(w, step) == pc[w] = step

Goto(w, step) == pc' = [pc EXCEPT ![w] = step]

(* Its context has not run out.                                            *)
Alive(w) == left[w] > Grace

(* The cycle ends, well or not, and what it held is gone.                  *)
Return(w) ==
    /\ Goto(w, "idle")
    /\ job' = [job EXCEPT ![w] = None]
    /\ left' = [left EXCEPT ![w] = 0]
    /\ rounds' = [rounds EXCEPT ![w] = 0]
    /\ request' = [request EXCEPT ![w] = None]
    /\ next' = [next EXCEPT ![w] = 0]

ClaimEvent(w) ==
    /\ At(w, "idle")
    /\ \E e \in Events :
          /\ OldestClaimable(e)
          /\ ClaimOutbox({e})
          /\ job' = [job EXCEPT ![w] = e]
    /\ left' = [left EXCEPT ![w] = Budget + Grace]
    /\ Goto(w, "decode")
    /\ UNCHANGED <<storeVars, rounds, request, next, accepted>>

Decode(w) ==
    /\ At(w, "decode")
    /\ Alive(w)
    /\ \/ /\ job[w] \in decodable
          /\ Goto(w, "claim")
          /\ UNCHANGED <<outboxVars, job, left, rounds, request, next>>
       \/ /\ job[w] \notin decodable
          /\ GiveUpOutbox(job[w]) \/ (~Claimed(job[w]) /\ UNCHANGED outboxVars)
          /\ Return(w)
    /\ UNCHANGED <<storeVars, accepted>>

(* Mutant: targets out of attempts stay pending.                           *)
Expired_Never(e, d) == FALSE

(* Targets out of attempts are dead before the claim looks for a due one.  *)
Expired(e, d) == target[e][d] = "pending" /\ attempts[e][d] >= MaxAttempts

(* Mutant: a claim whatever the status.                                    *)
Due_AnyStatus(e, d) ==
    /\ Claimed(e)
    /\ target[e][d] # "none"
    /\ attempts[e][d] < MaxAttempts
    /\ targetWait[e][d] = 0

Due(e, d) ==
    /\ Claimed(e)
    /\ target[e][d] = "pending"
    /\ attempts[e][d] < MaxAttempts
    /\ targetWait[e][d] = 0

(* Mutant: the attempt is to be counted when it is recorded.               *)
CountAttempt_Later(e, d) == UNCHANGED attempts

(* An attempt is counted before it is made.                                *)
CountAttempt(e, d) == attempts' = [attempts EXCEPT ![e][d] = @ + 1]

ClaimNotificationTarget(w) ==
    /\ At(w, "claim")
    /\ Alive(w)
    /\ target' = [target EXCEPT ![job[w]] =
          [d \in Destinations |-> IF Expired(job[w], d) THEN "dead" ELSE target[job[w]][d]]]
    /\ \/ /\ \A d \in Destinations : ~Due(job[w], d)
          /\ Goto(w, "progress")
          /\ UNCHANGED <<attempts, request>>
       \/ \E d \in Destinations :
             /\ Due(job[w], d)
             /\ CountAttempt(job[w], d)
             /\ request' = [request EXCEPT ![w] =
                   [dest |-> d, attempt |-> attempts[job[w]][d] + 1,
                    active |-> destination[d] # "inactive", result |-> "none"]]
             /\ Goto(w, "send")
    /\ UNCHANGED <<outboxVars, targetWait, deliveries, decodable, destination, accepted,
                   job, left, rounds, next>>

(* What one request can come to: how the sender classifies it, and whether *)
(* the receiver took it. An error on the way back, or an answer that makes *)
(* no sense, leaves the second open.                                       *)
Possible(w, result, taken) ==
    IF request[w].active
    THEN /\ result = "succeeded" => taken
         /\ ~Alive(w) => result = "retrying"
    ELSE result = "dead" /\ ~taken

Sent(w) == [event |-> job[w], dest |-> request[w].dest, attempt |-> request[w].attempt]

Send(w) ==
    /\ At(w, "send")
    /\ \E result \in {"succeeded", "retrying", "dead"}, taken \in BOOLEAN :
          /\ Possible(w, result, taken)
          /\ request' = [request EXCEPT ![w] =
                [dest |-> request[w].dest, attempt |-> request[w].attempt,
                 active |-> request[w].active, result |-> result]]
          /\ accepted' = IF taken THEN accepted \cup {Sent(w)} ELSE accepted
    /\ Goto(w, "record")
    /\ UNCHANGED <<outboxVars, storeVars, job, left, rounds, next>>

(* Mutant: no attempt is the last.                                         *)
RecordedStatus_AlwaysRetries(w) == request[w].result

(* The last attempt is not retried.                                        *)
RecordedStatus(w) ==
    IF request[w].result = "retrying" /\ request[w].attempt = MaxAttempts
    THEN "dead" ELSE request[w].result

(* The unique key of notification_deliveries and the compare-and-set on    *)
(* the target: one transaction, so both or neither.                        *)
Recordable(w) ==
    LET e == job[w]
        d == request[w].dest
        n == request[w].attempt IN
    /\ \A row \in deliveries : ~(row.event = e /\ row.dest = d /\ row.attempt = n)
    /\ target[e][d] = "pending"
    /\ attempts[e][d] = n

RecordNotificationDelivery(w) ==
    /\ At(w, "record")
    /\ Recordable(w)
    /\ LET e == job[w]
           d == request[w].dest
           s == RecordedStatus(w) IN
       /\ deliveries' = deliveries \cup
             {[event |-> e, dest |-> d, attempt |-> request[w].attempt, status |-> s]}
       /\ target' = [target EXCEPT ![e][d] = IF s = "retrying" THEN "pending" ELSE s]
       /\ \E delay \in 0..MaxDelay :
             /\ s # "retrying" => delay = 0
             /\ targetWait' = [targetWait EXCEPT ![e][d] = delay]
    /\ \/ /\ Alive(w)
          /\ Goto(w, IF rounds[w] + 1 = Rounds THEN "progress" ELSE "claim")
          /\ rounds' = [rounds EXCEPT ![w] = @ + 1]
          /\ request' = [request EXCEPT ![w] = None]
          /\ UNCHANGED <<job, left, next>>
       \/ ~Alive(w) /\ Return(w)
    /\ UNCHANGED <<outboxVars, attempts, decodable, destination, accepted>>

(* The transaction fails and the event stays claimed until its lease ends. *)
RecordRefused(w) ==
    /\ At(w, "record")
    /\ ~Recordable(w)
    /\ Return(w)
    /\ UNCHANGED <<outboxVars, storeVars, accepted>>

(* Mutant: only targets due now are counted as pending.                    *)
PendingTargets_DueOnly(e) ==
    {d \in Destinations : target[e][d] = "pending" /\ targetWait[e][d] = 0}

PendingTargets(e) == {d \in Destinations : target[e][d] = "pending"}

NotificationProgress(w) ==
    /\ At(w, "progress")
    /\ Alive(w)
    /\ LET pending == PendingTargets(job[w]) IN
       \/ pending = {} /\ Goto(w, "complete") /\ UNCHANGED next
       \/ \E d \in pending :
             /\ \A c \in pending : targetWait[job[w]][d] <= targetWait[job[w]][c]
             /\ next' = [next EXCEPT ![w] = targetWait[job[w]][d]]
             /\ Goto(w, "retry")
    /\ UNCHANGED <<outboxVars, storeVars, job, left, rounds, request, accepted>>

(* A refusal, because the event is no longer claimed, only ends the cycle. *)
Settle(w) ==
    /\ pc[w] \in {"complete", "retry"}
    /\ Alive(w)
    /\ \/ At(w, "complete") /\ CompleteOutbox(job[w])
       \/ At(w, "retry") /\ RetryOutbox(job[w], next[w])
       \/ ~Claimed(job[w]) /\ UNCHANGED outboxVars
    /\ Return(w)
    /\ UNCHANGED <<storeVars, accepted>>

(* The context ran out: store calls fail at once, except that an attempt   *)
(* already made has its own time to be recorded.                           *)
Timeout(w) ==
    /\ \/ pc[w] \notin {"idle", "send", "record"} /\ ~Alive(w)
       \/ At(w, "record") /\ left[w] = 0
    /\ Return(w)
    /\ UNCHANGED <<outboxVars, storeVars, accepted>>

(* The process stops, or a store call reports an error whether or not it   *)
(* took effect: what the worker held is lost.                              *)
Abandon(w) ==
    /\ ~At(w, "idle")
    /\ Return(w)
    /\ UNCHANGED <<outboxVars, storeVars, accepted>>

(* Time does not pass a deadline the code enforces.                        *)
Tick ==
    /\ \A w \in Workers :
          At(w, "idle") \/ Alive(w) \/ (At(w, "record") /\ left[w] > 0)
    /\ OutboxTick
    /\ targetWait' = [e \in Events |-> [d \in Destinations |-> Sooner(targetWait[e][d])]]
    /\ left' = [w \in Workers |-> Sooner(left[w])]
    /\ next' = [w \in Workers |-> Sooner(next[w])]
    /\ UNCHANGED <<target, attempts, deliveries, decodable, destination, accepted,
                   pc, job, rounds, request>>

-----------------------------------------------------------------------------
NextWorker(w) ==
    \/ ClaimEvent(w)
    \/ Decode(w)
    \/ ClaimNotificationTarget(w)
    \/ Send(w)
    \/ RecordNotificationDelivery(w)
    \/ RecordRefused(w)
    \/ NotificationProgress(w)
    \/ Settle(w)
    \/ Timeout(w)
    \/ Abandon(w)

Next ==
    \/ \E e \in Events : Publish(e)
    \/ \E e \in Events, d \in Destinations : QueueNotificationTest(e, d)
    \/ \E e \in Events, d \in Destinations : RedeliverNotification(e, d)
    \/ \E d \in Destinations, s \in DestinationState : ChangeDestination(d, s)
    \/ \E w \in Workers : NextWorker(w)
    \/ Tick

Spec == Init /\ [][Next]_vars

(* Workers poll every half second for as long as they run, HTTP requests   *)
(* are bounded and time passes. A worker may be interrupted any number of  *)
(* times between two steps, so a step that keeps coming up again has to be *)
(* taken eventually: the store is not out of reach forever.                *)
Fairness ==
    /\ WF_vars(Tick)
    /\ SF_vars(\E w \in Workers : ClaimEvent(w))
    /\ SF_vars(\E w \in Workers : Decode(w))
    /\ SF_vars(\E w \in Workers : ClaimNotificationTarget(w))
    /\ SF_vars(\E w \in Workers : NotificationProgress(w))
    /\ SF_vars(\E w \in Workers : Settle(w))
    /\ \A w \in Workers : WF_vars(Send(w)) /\ WF_vars(Timeout(w))
    /\ \A w \in Workers : WF_vars(RecordNotificationDelivery(w) \/ RecordRefused(w))

FairSpec == Spec /\ Fairness

-----------------------------------------------------------------------------
(* Properties.                                                             *)

(* An event is completed only when each of its targets has its final       *)
(* status, although progress is read before, and outside, the update that  *)
(* completes the event.                                                    *)
CompletedMeansSettled ==
    \A e \in Events : status[e] = "completed" =>
        \A d \in Destinations : target[e][d] # "pending"

(* The delivery log and the targets agree: a target succeeded by its last  *)
(* attempt, which is logged and which the receiver took; it is dead by a   *)
(* logged attempt or for having used up all attempts; and nothing is       *)
(* logged beyond the attempts counted, nor after a final one.              *)
DeliveriesExplainTargets ==
    \A e \in Events, d \in Destinations :
        LET rows == {row \in deliveries : row.event = e /\ row.dest = d}
            final == {row \in rows : row.attempt = attempts[e][d] /\ row.status = target[e][d]} IN
        /\ target[e][d] = "succeeded" =>
              /\ final # {}
              /\ [event |-> e, dest |-> d, attempt |-> attempts[e][d]] \in accepted
        /\ target[e][d] = "dead" => final # {} \/ attempts[e][d] = MaxAttempts
        /\ \A row \in rows :
              /\ row.attempt <= attempts[e][d]
              /\ row.status = "retrying" => row.attempt < MaxAttempts
              /\ row.status # "retrying" => row \in final

(* Two requests never carry the same attempt number to a destination, no   *)
(* matter whose lease has run out, so the log has one row per attempt.     *)
AttemptHeldOnce ==
    /\ \A v, w \in Workers :
          /\ v # w
          /\ pc[v] \in {"send", "record"}
          /\ pc[w] \in {"send", "record"}
          => Sent(v) # Sent(w)
    /\ \A r, s \in deliveries :
          r.event = s.event /\ r.dest = s.dest /\ r.attempt = s.attempt => r = s

(* "Finish before the one-minute outbox lease can be reclaimed by another  *)
(* replica": no two workers are ever in a cycle for the same event.        *)
ExclusiveLease ==
    \A v, w \in Workers :
        v # w /\ ~At(v, "idle") /\ ~At(w, "idle") => job[v] # job[w]

(* The outcome of a request can be recorded when it comes back: the target *)
(* has not been taken over, retried or expired in the meantime.            *)
AttemptStaysRecordable ==
    \A w \in Workers : pc[w] \in {"send", "record"} => Recordable(w)

(* Whatever is interrupted and however receivers answer, an event does not *)
(* stay in the outbox for ever, whether or not there is an older one that  *)
(* is attempted again, abandoned or damaged.                               *)
EveryEventSettles ==
    \A e \in Events :
        status[e] # "absent" ~> status[e] \in {"completed", "dead"}

(* Delivery keeps NotificationPromise: a row is open from its insert until *)
(* it is completed or dead, and a destination was told when a receiver     *)
(* took any attempt. In particular no request leaves for a target whose    *)
(* outcome is settled.                                                     *)
Promise == INSTANCE NotificationPromise WITH
    phase <- [e \in Events |->
                IF status[e] \in {"pending", "processing"} THEN "open" ELSE status[e]],
    outcome <- target,
    told <- [e \in Events |-> {d \in Destinations :
                \E n \in 1..MaxAttempts : [event |-> e, dest |-> d, attempt |-> n] \in accepted}]

KeepsPromise == Promise!Spec
=============================================================================
