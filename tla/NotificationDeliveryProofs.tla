--------------------- MODULE NotificationDeliveryProofs ---------------------
(***************************************************************************)
(* Proofs about NotificationDelivery for every set of events, workers and  *)
(* destinations and every choice of the limits.                            *)
(***************************************************************************)
EXTENDS NotificationDelivery, TLAPS

(* What a worker holds is fit for the step it is at.                       *)
WorkerOK ==
    \A w \in Workers :
        /\ ~At(w, "idle") => job[w] \in Events
        /\ pc[w] \in {"idle", "decode", "claim"} => rounds[w] < Rounds
        /\ pc[w] \in {"send", "record"} => request[w] \in Request /\ rounds[w] < Rounds
        /\ At(w, "record") => request[w].result # "none"

TypeInv == TypeOK /\ WorkerOK

(* A worker that has read that no target is pending is still right when it *)
(* acts on it, and no worker has an event that is yet to be published.     *)
SettledInv ==
    /\ CompletedMeansSettled
    /\ \A w \in Workers : ~At(w, "idle") => status[job[w]] # "absent"
    /\ \A w \in Workers : At(w, "complete") =>
          \A d \in Destinations : target[job[w]][d] # "pending"

(* A worker's lease outlasts its cycle by more than the clock skew.        *)
LeaseHeld ==
    \A w \in Workers : ~At(w, "idle") =>
        /\ Claimed(job[w])
        /\ lease[job[w]] + Budget + Grace >= left[w] + Lease

-----------------------------------------------------------------------------
(* Published, tested or repeated: a new event with a set of targets.       *)
LEMMA Inserts ==
  ASSUME NEW e \in Events,
         \/ Publish(e)
         \/ \E d \in Destinations : QueueNotificationTest(e, d) \/ RedeliverNotification(e, d)
  PROVE  \E S \in SUBSET Destinations, valid \in BOOLEAN : NewEvent(e, S, valid)
<1>1. CASE Publish(e)
  BY <1>1 DEF Publish
<1>2. ASSUME NEW d \in Destinations, QueueNotificationTest(e, d)
      PROVE  \E S \in SUBSET Destinations, valid \in BOOLEAN : NewEvent(e, S, valid)
  BY <1>2 DEF QueueNotificationTest
<1>3. ASSUME NEW d \in Destinations, RedeliverNotification(e, d)
      PROVE  \E S \in SUBSET Destinations, valid \in BOOLEAN : NewEvent(e, S, valid)
  <2>1. PICK row \in deliveries : NewEvent(e, {d}, row.event \in decodable)
    BY <1>3 DEF RedeliverNotification
  <2>2. NewEvent(e, {d}, TRUE) \/ NewEvent(e, {d}, FALSE)
    BY <2>1, Zenon DEF NewEvent
  <2> QED
    BY <2>2
<1> QED
  BY <1>1, <1>2, <1>3

LEMMA InitTypeInv == Init => TypeInv
  BY NotificationAssumption, OutboxAssumption
     DEF Init, TypeInv, TypeOK, WorkerOK, OutboxInit, OutboxTypeOK, StoreTypeOK,
         WorkerTypeOK, EventStatus, TargetStatus, DestinationState, Steps, At

(* The end of a cycle leaves nothing behind that could be ill-typed.       *)
LEMMA ReturnType ==
  ASSUME WorkerTypeOK, WorkerOK, NEW w \in Workers, Return(w)
  PROVE  WorkerTypeOK' /\ WorkerOK'
  BY NotificationAssumption, OutboxAssumption DEF WorkerTypeOK, WorkerOK, Return, Goto, At, Steps

LEMMA OutboxType ==
  ASSUME OutboxTypeOK, NEW e \in Events,
         \/ InsertOutbox(e)
         \/ ClaimOutbox({e})
         \/ CompleteOutbox(e)
         \/ \E n \in 0..MaxDelay : RetryOutbox(e, n)
         \/ GiveUpOutbox(e)
         \/ UNCHANGED outboxVars
  PROVE  OutboxTypeOK'
  BY OutboxAssumption DEF OutboxTypeOK, EventStatus, InsertOutbox, ClaimOutbox, CompleteOutbox,
     RetryOutbox, GiveUpOutbox, outboxVars

LEMMA TickType ==
  ASSUME OutboxTypeOK, OutboxTick
  PROVE  OutboxTypeOK'
<1>1. \A limit \in Nat : \A t \in 0..limit : Sooner(t) \in 0..limit
  BY DEF Sooner
<1>2. wait' \in [Events -> 0..MaxDelay] /\ lease' \in [Events -> 0..Lease]
  BY <1>1, OutboxAssumption DEF OutboxTypeOK, OutboxTick
<1> QED
  BY <1>2 DEF OutboxTypeOK, OutboxTick

LEMMA NextTypeInv == TypeInv /\ [Next]_vars => TypeInv'
<1> SUFFICES ASSUME TypeInv, [Next]_vars
             PROVE  TypeInv'
  OBVIOUS
<1>0. /\ OutboxTypeOK /\ StoreTypeOK /\ WorkerTypeOK /\ WorkerOK
      /\ accepted \subseteq Attempt
  BY DEF TypeInv, TypeOK
<1>a. ASSUME OutboxTypeOK', StoreTypeOK', WorkerTypeOK', WorkerOK', accepted' \subseteq Attempt
      PROVE  TypeInv'
  BY <1>a DEF TypeInv, TypeOK
<1>b. ASSUME UNCHANGED workerVars
      PROVE  WorkerTypeOK' /\ WorkerOK'
  BY <1>0, <1>b DEF workerVars, WorkerTypeOK, WorkerOK, At
<1>c. ASSUME UNCHANGED storeVars
      PROVE  StoreTypeOK'
  BY <1>0, <1>c DEF storeVars, StoreTypeOK
<1>d. ASSUME UNCHANGED outboxVars
      PROVE  OutboxTypeOK'
  BY <1>0, <1>d DEF outboxVars, OutboxTypeOK
<1>1. ASSUME NEW e \in Events, NEW S \in SUBSET Destinations, NEW valid \in BOOLEAN,
             NewEvent(e, S, valid)
      PROVE  TypeInv'
  <2>1. StoreTypeOK'
    BY <1>0, <1>1 DEF NewEvent, StoreTypeOK, TargetStatus
  <2>2. OutboxTypeOK'
    BY <1>0, <1>1, OutboxType DEF NewEvent
  <2> QED
    BY <2>1, <2>2, <1>0, <1>1, <1>a, <1>b DEF NewEvent
<1>2. ASSUME NEW d \in Destinations, NEW s \in DestinationState, ChangeDestination(d, s)
      PROVE  TypeInv'
  <2>1. StoreTypeOK'
    BY <1>0, <1>2 DEF ChangeDestination, StoreTypeOK
  <2> QED
    BY <2>1, <1>0, <1>2, <1>a, <1>b, <1>d DEF ChangeDestination
<1>3. ASSUME NEW w \in Workers, ClaimEvent(w)
      PROVE  TypeInv'
  <2>1. WorkerTypeOK' /\ WorkerOK'
    BY <1>0, <1>3, NotificationAssumption DEF ClaimEvent, Goto, At, WorkerTypeOK, WorkerOK, Steps
  <2>2. OutboxTypeOK'
    BY <1>0, <1>3, OutboxType DEF ClaimEvent
  <2> QED
    BY <2>1, <2>2, <1>0, <1>3, <1>a, <1>c DEF ClaimEvent
<1>4. ASSUME NEW w \in Workers, Decode(w)
      PROVE  TypeInv'
  <2>1. job[w] \in Events
    BY <1>0, <1>4 DEF Decode, WorkerOK, At
  <2>2. OutboxTypeOK'
    BY <1>0, <1>4, <2>1, OutboxType DEF Decode
  <2>3. CASE Return(w)
    BY <2>2, <2>3, <1>0, <1>4, <1>a, <1>c, ReturnType DEF Decode
  <2>4. CASE Goto(w, "claim") /\ UNCHANGED <<job, left, rounds, request, next>>
    <3>1. rounds[w] < Rounds
      BY <1>0, <1>4 DEF Decode, WorkerOK, At
    <3>2. WorkerTypeOK' /\ WorkerOK'
      BY <3>1, <2>4, <1>0, <1>4 DEF Decode, Goto, At, WorkerTypeOK, WorkerOK, Steps
    <3> QED
      BY <3>2, <2>2, <1>0, <1>4, <1>a, <1>c DEF Decode
  <2> QED
    BY <2>3, <2>4, <1>4 DEF Decode
<1>5. ASSUME NEW w \in Workers, ClaimNotificationTarget(w)
      PROVE  TypeInv'
  <2>1. job[w] \in Events /\ rounds[w] < Rounds
    BY <1>0, <1>5 DEF ClaimNotificationTarget, CountAttempt, WorkerOK, At
  <2>2. target' \in [Events -> [Destinations -> TargetStatus]]
    BY <1>0, <1>5, <2>1 DEF ClaimNotificationTarget, CountAttempt, StoreTypeOK, TargetStatus
  <2>3. CASE Goto(w, "progress") /\ UNCHANGED <<attempts, request>>
    <3>1. StoreTypeOK'
      BY <2>2, <2>3, <1>0, <1>5 DEF ClaimNotificationTarget, CountAttempt, StoreTypeOK
    <3>2. WorkerTypeOK' /\ WorkerOK'
      BY <2>3, <1>0, <1>5, <2>1 DEF ClaimNotificationTarget, CountAttempt, Goto, At, WorkerTypeOK, WorkerOK, Steps
    <3> QED
      BY <3>1, <3>2, <1>0, <1>5, <1>a, <1>d DEF ClaimNotificationTarget, CountAttempt
  <2>4. ASSUME NEW d \in Destinations,
               Due(job[w], d),
               attempts' = [attempts EXCEPT ![job[w]][d] = @ + 1],
               request' = [request EXCEPT ![w] =
                   [dest |-> d, attempt |-> attempts[job[w]][d] + 1,
                    active |-> destination[d] # "inactive", result |-> "none"]],
               Goto(w, "send")
        PROVE  TypeInv'
    <3>1. attempts[job[w]][d] + 1 \in 1..MaxAttempts
      BY <2>1, <2>4, <1>0, NotificationAssumption DEF Due, StoreTypeOK
    <3>2. StoreTypeOK'
      BY <3>1, <2>1, <2>2, <2>4, <1>0, <1>5, NotificationAssumption DEF ClaimNotificationTarget, CountAttempt, StoreTypeOK
    <3>3. request'[w] \in Request
      BY <3>1, <2>4, <1>0 DEF Request, WorkerTypeOK
    <3>4. WorkerTypeOK' /\ WorkerOK'
      BY <3>3, <2>4, <1>0, <1>5, <2>1 DEF ClaimNotificationTarget, CountAttempt, Goto, At, WorkerTypeOK, WorkerOK, Steps
    <3> QED
      BY <3>2, <3>4, <1>0, <1>5, <1>a, <1>d DEF ClaimNotificationTarget, CountAttempt
  <2> QED
    BY <2>3, <2>4, <1>5 DEF ClaimNotificationTarget, CountAttempt
<1>6. ASSUME NEW w \in Workers, Send(w)
      PROVE  TypeInv'
  <2>1. PICK result \in {"succeeded", "retrying", "dead"}, taken \in BOOLEAN :
          /\ request' = [request EXCEPT ![w] =
                [dest |-> request[w].dest, attempt |-> request[w].attempt,
                 active |-> request[w].active, result |-> result]]
          /\ accepted' = IF taken THEN accepted \cup {Sent(w)} ELSE accepted
    BY <1>6 DEF Send
  <2>3. job[w] \in Events /\ request[w] \in Request
    BY <1>0, <1>6 DEF Send, WorkerOK, At
  <2>4. accepted' \subseteq Attempt
    BY <2>1, <2>3, <1>0 DEF Sent, Attempt, Request
  <2>5. request'[w] \in Request /\ request'[w].result # "none"
    BY <2>1, <2>3, <1>0 DEF Request, WorkerTypeOK
  <2>6. WorkerTypeOK' /\ WorkerOK'
    BY <2>1, <2>5, <1>0, <1>6 DEF Send, Goto, At, WorkerTypeOK, WorkerOK, Steps
  <2> QED
    BY <2>4, <2>6, <1>0, <1>6, <1>a, <1>c, <1>d DEF Send
<1>7. ASSUME NEW w \in Workers, RecordNotificationDelivery(w)
      PROVE  TypeInv'
  <2>1. job[w] \in Events /\ request[w] \in Request /\ request[w].result # "none" /\ rounds[w] < Rounds
    BY <1>0, <1>7 DEF RecordNotificationDelivery, WorkerOK, At
  <2>2. RecordedStatus(w) \in {"succeeded", "retrying", "dead"}
    BY <2>1 DEF RecordedStatus, Request
  <2>3. StoreTypeOK'
    BY <2>1, <2>2, <1>0, <1>7 DEF RecordNotificationDelivery, StoreTypeOK, Delivery, TargetStatus, Request
  <2>4. CASE Return(w)
    BY <2>3, <2>4, <1>0, <1>7, <1>a, <1>d, ReturnType DEF RecordNotificationDelivery
  <2>5. CASE /\ Goto(w, IF rounds[w] + 1 = Rounds THEN "progress" ELSE "claim")
             /\ rounds' = [rounds EXCEPT ![w] = @ + 1]
             /\ request' = [request EXCEPT ![w] = None]
             /\ UNCHANGED <<job, left, next>>
    <3>1. WorkerTypeOK' /\ WorkerOK'
      BY <2>1, <2>5, <1>0, NotificationAssumption DEF Goto, At, WorkerTypeOK, WorkerOK, Steps
    <3> QED
      BY <3>1, <2>3, <1>0, <1>7, <1>a, <1>d DEF RecordNotificationDelivery
  <2> QED
    BY <2>4, <2>5, <1>7 DEF RecordNotificationDelivery
<1>8. ASSUME NEW w \in Workers, NotificationProgress(w)
      PROVE  TypeInv'
  <2>1. job[w] \in Events
    BY <1>0, <1>8 DEF NotificationProgress, PendingTargets, WorkerOK, At
  <2>2. /\ \E step \in {"complete", "retry"} : Goto(w, step)
        /\ next' \in [Workers -> 0..MaxDelay]
    BY <2>1, <1>0, <1>8 DEF NotificationProgress, PendingTargets, WorkerTypeOK, StoreTypeOK
  <2>3. WorkerTypeOK' /\ WorkerOK'
    BY <2>2, <1>0, <1>8 DEF NotificationProgress, PendingTargets, Goto, At, WorkerTypeOK, WorkerOK, Steps
  <2> QED
    BY <2>3, <1>0, <1>8, <1>a, <1>c, <1>d DEF NotificationProgress, PendingTargets
<1>9. ASSUME NEW w \in Workers, Settle(w)
      PROVE  TypeInv'
  <2>1. job[w] \in Events /\ next[w] \in 0..MaxDelay
    BY <1>0, <1>9 DEF Settle, WorkerOK, WorkerTypeOK, At
  <2>2. OutboxTypeOK'
    BY <2>1, <1>0, <1>9, OutboxType DEF Settle
  <2> QED
    BY <2>2, <1>0, <1>9, <1>a, <1>c, ReturnType DEF Settle
<1>10. ASSUME NEW w \in Workers, RecordRefused(w) \/ Timeout(w) \/ Abandon(w)
       PROVE  TypeInv'
  BY <1>0, <1>10, <1>a, <1>c, <1>d, ReturnType DEF RecordRefused, Timeout, Abandon
<1>11. CASE Tick
  <2>1. OutboxTypeOK'
    BY <1>0, <1>11, TickType DEF Tick
  <2>2. StoreTypeOK'
    BY <1>0, <1>11, OutboxAssumption DEF Tick, StoreTypeOK, Sooner
  <2>3. WorkerTypeOK'
    BY <1>0, <1>11, OutboxAssumption, NotificationAssumption DEF Tick, WorkerTypeOK, Sooner
  <2>4. WorkerOK'
    BY <1>0, <1>11 DEF Tick, WorkerOK, At
  <2> QED
    BY <2>1, <2>2, <2>3, <2>4, <1>0, <1>11, <1>a DEF Tick
<1>12. CASE UNCHANGED vars
  BY <1>12, <1>0, <1>a, <1>b, <1>c, <1>d DEF vars
<1> QED
  BY <1>1, <1>2, <1>3, <1>4, <1>5, <1>6, <1>7, <1>8, <1>9, <1>10, <1>11, <1>12, Inserts
     DEF Next, NextWorker

(* Every variable keeps its type: what the store holds, and what a worker  *)
(* carries from one store call to the next.                                *)
THEOREM TypeCorrect == Spec => []TypeOK
<1>1. TypeInv => TypeOK
  BY DEF TypeInv
<1> QED
  BY <1>1, InitTypeInv, NextTypeInv, PTL DEF Spec
-----------------------------------------------------------------------------
(* Completion.                                                             *)

LEMMA NextSettled == TypeInv /\ SettledInv /\ [Next]_vars => SettledInv'
<1> SUFFICES ASSUME TypeInv, SettledInv, [Next]_vars
             PROVE  SettledInv'
  OBVIOUS
<1>0. OutboxTypeOK /\ StoreTypeOK /\ WorkerTypeOK /\ WorkerOK
  BY DEF TypeInv, TypeOK
<1> USE <1>0 DEF SettledInv, CompletedMeansSettled
(* A step that only takes a worker back to idle weakens every conjunct.    *)
<1>a. ASSUME NEW w \in Workers, Return(w), UNCHANGED <<status, target>>
      PROVE  SettledInv'
  BY <1>a DEF Return, Goto, At, WorkerTypeOK
<1>1. ASSUME NEW e \in Events, NEW S \in SUBSET Destinations, NEW valid \in BOOLEAN,
             NewEvent(e, S, valid)
      PROVE  SettledInv'
  <2>1. /\ status[e] = "absent"
        /\ \A f \in Events : f # e => status'[f] = status[f] /\ target'[f] = target[f]
        /\ status'[e] = "pending"
        /\ UNCHANGED <<pc, job>>
    BY <1>1 DEF NewEvent, InsertOutbox, workerVars, OutboxTypeOK, StoreTypeOK
  <2> QED
    BY <2>1 DEF At, WorkerOK
<1>2. ASSUME NEW d \in Destinations, NEW s \in DestinationState, ChangeDestination(d, s)
      PROVE  SettledInv'
  BY <1>2 DEF ChangeDestination, outboxVars, workerVars, At
<1>3. ASSUME NEW w \in Workers, ClaimEvent(w)
      PROVE  SettledInv'
  <2>1. PICK e \in Events : Claimable(e) /\ ClaimOutbox({e}) /\ job' = [job EXCEPT ![w] = e]
    BY <1>3 DEF ClaimEvent, OldestClaimable
  <2>2. /\ status'[e] = "processing"
        /\ \A f \in Events : f # e => status'[f] = status[f]
        /\ pc' = [pc EXCEPT ![w] = "decode"]
        /\ UNCHANGED target
    BY <2>1, <1>3 DEF ClaimEvent, ClaimOutbox, Goto, storeVars
  <2> QED
    BY <2>1, <2>2 DEF At, WorkerOK, WorkerTypeOK
<1>4. ASSUME NEW w \in Workers, Decode(w)
      PROVE  SettledInv'
  <2>1. job[w] \in Events
    BY <1>4 DEF Decode, WorkerOK, At
  <2>2. CASE Goto(w, "claim") /\ UNCHANGED <<outboxVars, job>>
    BY <2>2, <1>4 DEF Decode, Goto, At, outboxVars, storeVars, WorkerTypeOK
  <2>3. CASE GiveUpOutbox(job[w]) /\ Return(w)
    <3>1. /\ \A e \in Events : status'[e] # status[e] => status'[e] = "dead"
          /\ UNCHANGED target
      BY <2>1, <2>3, <1>4 DEF Decode, GiveUpOutbox, storeVars, OutboxTypeOK
    <3> QED
      BY <3>1, <2>3 DEF Return, Goto, At, WorkerTypeOK, WorkerOK
  <2>4. CASE UNCHANGED outboxVars /\ Return(w)
    BY <2>4, <1>4, <1>a DEF Decode, outboxVars, storeVars
  <2> QED
    BY <2>2, <2>3, <2>4, <1>4 DEF Decode
<1>5. ASSUME NEW w \in Workers, ClaimNotificationTarget(w)
      PROVE  SettledInv'
  <2>1. /\ \A e \in Events, d \in Destinations :
              target'[e][d] = target[e][d] \/ target'[e][d] = "dead"
        /\ UNCHANGED <<status, job>>
        /\ pc[w] = "claim"
        /\ \E step \in {"progress", "send"} : pc' = [pc EXCEPT ![w] = step]
    BY <1>5 DEF ClaimNotificationTarget, CountAttempt, outboxVars, StoreTypeOK, Goto, At
  <2> QED
    BY <2>1 DEF At, WorkerTypeOK, WorkerOK
<1>6. ASSUME NEW w \in Workers, Send(w)
      PROVE  SettledInv'
  BY <1>6 DEF Send, Goto, At, outboxVars, storeVars, WorkerTypeOK
<1>7. ASSUME NEW w \in Workers, RecordNotificationDelivery(w)
      PROVE  SettledInv'
  <2>1. target[job[w]][request[w].dest] = "pending"
    BY <1>7 DEF RecordNotificationDelivery, Recordable
  <2>2. /\ \A e \in Events, d \in Destinations :
              target'[e][d] = "pending" => target[e][d] = "pending"
        /\ UNCHANGED status
        /\ \A v \in Workers : pc'[v] \in {"idle", "progress", "claim"} \/ pc'[v] = pc[v]
        /\ \A v \in Workers : pc'[v] # "idle" => job'[v] = job[v] /\ pc[v] # "idle"
    BY <2>1, <1>7 DEF RecordNotificationDelivery, outboxVars, StoreTypeOK, WorkerTypeOK, Goto, Return, At
  <2> QED
    BY <2>2 DEF At, WorkerTypeOK, WorkerOK
<1>8. ASSUME NEW w \in Workers, NotificationProgress(w)
      PROVE  SettledInv'
  <2>1. /\ UNCHANGED <<status, target, job>>
        /\ pc[w] = "progress"
        /\ \/ /\ pc' = [pc EXCEPT ![w] = "complete"]
              /\ \A d \in Destinations : target[job[w]][d] # "pending"
           \/ pc' = [pc EXCEPT ![w] = "retry"]
    BY <1>8 DEF NotificationProgress, PendingTargets, outboxVars, storeVars, Goto, At
  <2> QED
    BY <2>1 DEF At, WorkerTypeOK
<1>9. ASSUME NEW w \in Workers, Settle(w)
      PROVE  SettledInv'
  <2>1. job[w] \in Events
    BY <1>9 DEF Settle, WorkerOK, At
  <2>2. UNCHANGED target /\ Return(w)
    BY <1>9 DEF Settle, storeVars
  <2>3. \/ At(w, "complete") /\ status' = [status EXCEPT ![job[w]] = "completed"]
        \/ status' = [status EXCEPT ![job[w]] = "pending"]
        \/ UNCHANGED status
    BY <1>9 DEF Settle, CompleteOutbox, RetryOutbox, outboxVars
  <2> QED
    BY <2>1, <2>2, <2>3 DEF Return, Goto, At, WorkerTypeOK, WorkerOK, OutboxTypeOK
<1>10. ASSUME NEW w \in Workers, RecordRefused(w) \/ Timeout(w) \/ Abandon(w)
       PROVE  SettledInv'
  BY <1>10, <1>a DEF RecordRefused, Timeout, Abandon, outboxVars, storeVars
<1>11. CASE Tick
  BY <1>11 DEF Tick, OutboxTick, At
<1>12. CASE UNCHANGED vars
  BY <1>12 DEF vars, outboxVars, storeVars, workerVars, At
<1> QED
  BY <1>1, <1>2, <1>3, <1>4, <1>5, <1>6, <1>7, <1>8, <1>9, <1>10, <1>11, <1>12, Inserts
     DEF Next, NextWorker

(* No event is completed with a target still pending, whatever the clocks, *)
(* the leases and the interruptions: completing an event on a progress     *)
(* report that was read earlier is safe because a settled target stays     *)
(* settled and no target is ever added.                                    *)
THEOREM CompletedIsSettled == Spec => []CompletedMeansSettled
<1>1. Init => SettledInv
  BY DEF Init, OutboxInit, SettledInv, CompletedMeansSettled, At
<1>2. SettledInv => CompletedMeansSettled
  BY DEF SettledInv
<1> QED
  BY <1>1, <1>2, InitTypeInv, NextTypeInv, NextSettled, PTL DEF Spec
-----------------------------------------------------------------------------
(* Leases. Everything here is about workers that are in a cycle.           *)

LEMMA LimitTypes ==
  /\ Budget \in Nat /\ Grace \in Nat /\ Budget > 0 /\ Grace > 0
  /\ Skew \in Nat /\ Lease \in Nat
  BY NotificationAssumption, OutboxAssumption

LEMMA CycleTypes ==
  ASSUME OutboxTypeOK, WorkerTypeOK, WorkerOK, NEW w \in Workers, ~At(w, "idle")
  PROVE  job[w] \in Events /\ left[w] \in Nat /\ lease[job[w]] \in Nat
<1>1. job[w] \in Events
  BY DEF WorkerOK
<1>2. left[w] \in 0..(Budget + Grace) /\ lease[job[w]] \in 0..Lease
  BY <1>1 DEF WorkerTypeOK, OutboxTypeOK
<1> QED
  BY <1>1, <1>2, LimitTypes

LEMMA NextLease ==
  ASSUME LeaseCoversBudget, TypeInv, LeaseHeld, ExclusiveLease, [Next]_vars
  PROVE  LeaseHeld' /\ ExclusiveLease'
<1>0. OutboxTypeOK /\ StoreTypeOK /\ WorkerTypeOK /\ WorkerOK
  BY DEF TypeInv, TypeOK
<1> USE <1>0 DEF LeaseHeld, ExclusiveLease, Claimed, At
(* Most steps of a worker touch neither the outbox nor what it works on.   *)
<1>a. ASSUME NEW w \in Workers, UNCHANGED outboxVars,
             \/ Return(w)
             \/ /\ pc[w] # "idle"
                /\ \E step \in Steps : Goto(w, step)
                /\ UNCHANGED <<job, left>>
      PROVE  LeaseHeld' /\ ExclusiveLease'
  BY <1>a DEF outboxVars, Return, Goto, WorkerTypeOK
<1>b. ASSUME NEW w \in Workers, pc[w] # "idle", Return(w),
             \A e \in Events : e # job[w] => status'[e] = status[e] /\ lease'[e] = lease[e]
      PROVE  LeaseHeld' /\ ExclusiveLease'
  BY <1>b DEF Return, Goto, WorkerTypeOK, WorkerOK
<1>1. ASSUME NEW e \in Events, NEW S \in SUBSET Destinations, NEW valid \in BOOLEAN,
             NewEvent(e, S, valid)
      PROVE  LeaseHeld' /\ ExclusiveLease'
  BY <1>1 DEF NewEvent, InsertOutbox, workerVars, OutboxTypeOK, WorkerOK
<1>2. ASSUME NEW d \in Destinations, NEW s \in DestinationState, ChangeDestination(d, s)
      PROVE  LeaseHeld' /\ ExclusiveLease'
  BY <1>2 DEF ChangeDestination, outboxVars, workerVars
<1>3. ASSUME NEW w \in Workers, ClaimEvent(w)
      PROVE  LeaseHeld' /\ ExclusiveLease'
  <2>1. PICK e \in Events : Claimable(e) /\ ClaimOutbox({e}) /\ job' = [job EXCEPT ![w] = e]
    BY <1>3 DEF ClaimEvent, OldestClaimable
  (* The lease of a worker in its cycle is longer than the skew.           *)
  <2>2. ASSUME NEW v \in Workers, pc[v] # "idle"
        PROVE  job[v] # e
    <3>1. left[v] \in Nat /\ lease[job[v]] \in Nat
      BY <2>2, CycleTypes
    <3>2. lease[job[v]] + Budget + Grace >= left[v] + Lease
      BY <2>2
    <3>3. Budget + Grace + Skew < Lease
      BY DEF LeaseCoversBudget
    <3>4. lease[job[v]] > Skew
      BY <3>1, <3>2, <3>3, LimitTypes
    <3> QED
      BY <2>1, <2>2, <3>1, <3>4, LimitTypes DEF Claimable
  <2>3. /\ pc' = [pc EXCEPT ![w] = "decode"]
        /\ left' = [left EXCEPT ![w] = Budget + Grace]
        /\ status'[e] = "processing" /\ lease'[e] = Lease
        /\ \A f \in Events : f # e => status'[f] = status[f] /\ lease'[f] = lease[f]
    BY <2>1, <1>3 DEF ClaimEvent, ClaimOutbox, Goto
  <2>4. ExclusiveLease'
    BY <2>1, <2>2, <2>3 DEF WorkerTypeOK
  <2>5. LeaseHeld'
    <3> SUFFICES ASSUME NEW v \in Workers, pc'[v] # "idle"
                 PROVE  /\ status'[job'[v]] = "processing"
                        /\ lease'[job'[v]] + Budget + Grace >= left'[v] + Lease
      BY DEF LeaseHeld
    <3>1. CASE v = w
      BY <3>1, <2>1, <2>3, NotificationAssumption, OutboxAssumption DEF WorkerTypeOK
    <3>2. CASE v # w
      <4>1. pc[v] # "idle" /\ job'[v] = job[v] /\ left'[v] = left[v]
        BY <3>2, <2>1, <2>3 DEF WorkerTypeOK
      <4> QED
        BY <4>1, <2>2, <2>3 DEF WorkerOK
    <3> QED
      BY <3>1, <3>2
  <2> QED
    BY <2>4, <2>5
<1>4. ASSUME NEW w \in Workers, Decode(w)
      PROVE  LeaseHeld' /\ ExclusiveLease'
  <2>1. pc[w] # "idle" /\ job[w] \in Events
    BY <1>4 DEF Decode, WorkerOK
  <2>2. CASE UNCHANGED outboxVars
    BY <2>1, <2>2, <1>4, <1>a DEF Decode, Steps
  <2>3. CASE GiveUpOutbox(job[w]) /\ Return(w)
    BY <2>1, <2>3, <1>b DEF GiveUpOutbox, OutboxTypeOK
  <2> QED
    BY <2>2, <2>3, <1>4 DEF Decode
<1>5. ASSUME NEW w \in Workers, ClaimNotificationTarget(w)
      PROVE  LeaseHeld' /\ ExclusiveLease'
  BY <1>5, <1>a DEF ClaimNotificationTarget, CountAttempt, Steps
<1>6. ASSUME NEW w \in Workers, Send(w)
      PROVE  LeaseHeld' /\ ExclusiveLease'
  BY <1>6, <1>a DEF Send, Steps
<1>7. ASSUME NEW w \in Workers, RecordNotificationDelivery(w)
      PROVE  LeaseHeld' /\ ExclusiveLease'
  <2>1. (IF rounds[w] + 1 = Rounds THEN "progress" ELSE "claim") \in Steps
    BY DEF Steps
  <2> QED
    BY <2>1, <1>7, <1>a DEF RecordNotificationDelivery
<1>8. ASSUME NEW w \in Workers, NotificationProgress(w)
      PROVE  LeaseHeld' /\ ExclusiveLease'
  BY <1>8, <1>a DEF NotificationProgress, PendingTargets, Steps
<1>9. ASSUME NEW w \in Workers, Settle(w)
      PROVE  LeaseHeld' /\ ExclusiveLease'
  <2>1. pc[w] # "idle" /\ job[w] \in Events
    BY <1>9 DEF Settle, WorkerOK
  <2> QED
    BY <2>1, <1>9, <1>b DEF Settle, CompleteOutbox, RetryOutbox, outboxVars, OutboxTypeOK
<1>10. ASSUME NEW w \in Workers, RecordRefused(w) \/ Timeout(w) \/ Abandon(w)
       PROVE  LeaseHeld' /\ ExclusiveLease'
  BY <1>10, <1>a DEF RecordRefused, Timeout, Abandon
<1>11. CASE Tick
  <2>1. ExclusiveLease'
    BY <1>11 DEF Tick
  <2>2. LeaseHeld'
    <3> SUFFICES ASSUME NEW w \in Workers, pc[w] # "idle"
                 PROVE  /\ status'[job[w]] = "processing"
                        /\ lease'[job[w]] + Budget + Grace >= left'[w] + Lease
      BY <1>11 DEF Tick
    <3>1. job[w] \in Events /\ left[w] \in Nat /\ lease[job[w]] \in Nat
      BY CycleTypes
    <3>2. left[w] > 0
      BY <1>11, <3>1, LimitTypes DEF Tick, Alive
    <3>a. lease[job[w]] + Budget + Grace >= left[w] + Lease
      OBVIOUS
    <3>b. Budget + Grace + Skew < Lease
      BY DEF LeaseCoversBudget
    <3>3. lease[job[w]] > 0
      BY <3>1, <3>2, <3>a, <3>b, LimitTypes
    <3>4. lease'[job[w]] = lease[job[w]] - 1 /\ left'[w] = left[w] - 1
      BY <1>11, <3>1, <3>2, <3>3 DEF Tick, OutboxTick, Sooner
    <3> QED
      BY <1>11, <3>1, <3>a, <3>4, LimitTypes DEF Tick, OutboxTick
  <2> QED
    BY <2>1, <2>2
<1>12. CASE UNCHANGED vars
  BY <1>12 DEF vars, outboxVars, workerVars
<1> QED
  BY <1>1, <1>2, <1>3, <1>4, <1>5, <1>6, <1>7, <1>8, <1>9, <1>10, <1>11, <1>12, Inserts
     DEF Next, NextWorker

(* As long as the lease exceeds the budget of a cycle, the time to record  *)
(* its last attempt and the clock skew taken together, no two workers are  *)
(* ever in a cycle for the same event.                                     *)
THEOREM LeaseIsExclusive ==
  ASSUME LeaseCoversBudget
  PROVE  Spec => []ExclusiveLease
<1>1. Init => LeaseHeld /\ ExclusiveLease
  BY DEF Init, LeaseHeld, ExclusiveLease, At
<1>2. TypeInv /\ LeaseHeld /\ ExclusiveLease /\ [Next]_vars => LeaseHeld' /\ ExclusiveLease'
  BY NextLease
<1> QED
  BY <1>1, <1>2, InitTypeInv, NextTypeInv, PTL DEF Spec
-----------------------------------------------------------------------------
(* Recording.                                                              *)

(* Every logged attempt has been counted.                                  *)
RowsCounted ==
    \A row \in deliveries : row.attempt <= attempts[row.event][row.dest]

RecordInv == RowsCounted /\ AttemptStaysRecordable

(* What a worker can record does not depend on other events.               *)
LEMMA StillRecordable ==
  ASSUME NEW v \in Workers, Recordable(v),
         job'[v] = job[v],
         request'[v].dest = request[v].dest,
         request'[v].attempt = request[v].attempt,
         target'[job[v]] = target[job[v]],
         attempts'[job[v]] = attempts[job[v]],
         \A row \in deliveries' : row.event = job[v] => row \in deliveries
  PROVE  Recordable(v)'
  BY DEF Recordable

LEMMA NextRecord ==
  ASSUME TypeInv, LeaseHeld, ExclusiveLease, RecordInv, [Next]_vars
  PROVE  RecordInv'
<1>0. /\ OutboxTypeOK /\ StoreTypeOK /\ WorkerTypeOK /\ WorkerOK
      /\ RowsCounted /\ AttemptStaysRecordable
  BY DEF TypeInv, TypeOK, RecordInv
<1> USE <1>0 DEF At
(* A step that leaves targets and log alone, and sends nothing new.        *)
<1>a. ASSUME NEW w \in Workers, UNCHANGED <<target, attempts, deliveries>>,
             \/ Return(w)
             \/ /\ Goto(w, "decode") /\ pc[w] = "idle"
                /\ request' = request
                /\ \A v \in Workers : v # w => job'[v] = job[v]
             \/ /\ \E step \in {"claim", "progress", "complete", "retry"} : Goto(w, step)
                /\ UNCHANGED <<job, request>>
      PROVE  RecordInv'
  <2>1. RowsCounted'
    BY <1>a DEF RowsCounted
  <2>2. AttemptStaysRecordable'
    <3> SUFFICES ASSUME NEW v \in Workers, pc'[v] \in {"send", "record"}
                 PROVE  Recordable(v)'
      BY DEF AttemptStaysRecordable
    <3>1. v # w /\ pc'[v] = pc[v] /\ job'[v] = job[v] /\ request'[v] = request[v]
      BY <1>a DEF Return, Goto, WorkerTypeOK
    <3>2. Recordable(v)
      BY <3>1 DEF AttemptStaysRecordable
    <3> QED
      BY <3>1, <3>2, <1>a, StillRecordable
  <2> QED
    BY <2>1, <2>2 DEF RecordInv
<1>1. ASSUME NEW e \in Events, NEW S \in SUBSET Destinations, NEW valid \in BOOLEAN,
             NewEvent(e, S, valid)
      PROVE  RecordInv'
  <2>1. /\ status[e] = "absent"
        /\ \A f \in Events : f # e => target'[f] = target[f]
        /\ UNCHANGED <<attempts, deliveries, pc, job, request>>
    BY <1>1 DEF NewEvent, InsertOutbox, workerVars, StoreTypeOK
  <2>2. RowsCounted'
    BY <2>1 DEF RowsCounted
  <2>3. ASSUME NEW v \in Workers, pc'[v] \in {"send", "record"}
        PROVE  Recordable(v)'
    <3>1. job[v] \in Events /\ job[v] # e /\ Recordable(v)
      BY <2>1, <2>3 DEF AttemptStaysRecordable, LeaseHeld, Claimed, WorkerOK
    <3> QED
      BY <2>1, <3>1, StillRecordable
  <2> QED
    BY <2>2, <2>3 DEF RecordInv, AttemptStaysRecordable
<1>2. ASSUME UNCHANGED <<target, attempts, deliveries, pc, job, request>>
      PROVE  RecordInv'
  BY <1>2 DEF RecordInv, RowsCounted, AttemptStaysRecordable, Recordable
<1>3. ASSUME NEW w \in Workers, ClaimEvent(w)
      PROVE  RecordInv'
  <2>1. \A v \in Workers : v # w => job'[v] = job[v]
    BY <1>3 DEF ClaimEvent, WorkerTypeOK
  <2> QED
    BY <2>1, <1>3, <1>a DEF ClaimEvent, storeVars
<1>4. ASSUME NEW w \in Workers, Decode(w)
      PROVE  RecordInv'
  BY <1>4, <1>a DEF Decode, storeVars
<1>5. ASSUME NEW w \in Workers, ClaimNotificationTarget(w)
      PROVE  RecordInv'
  <2>1. job[w] \in Events /\ pc[w] = "claim"
    BY <1>5 DEF ClaimNotificationTarget, CountAttempt, WorkerOK
  <2>2. /\ UNCHANGED <<deliveries, job>>
        /\ \A f \in Events : f # job[w] => target'[f] = target[f] /\ attempts'[f] = attempts[f]
        /\ \A v \in Workers : v # w => pc'[v] = pc[v] /\ request'[v] = request[v]
    <3>1. UNCHANGED <<deliveries, job>>
      BY <1>5 DEF ClaimNotificationTarget, CountAttempt
    <3>2. \A f \in Events : f # job[w] => target'[f] = target[f]
      BY <1>5 DEF ClaimNotificationTarget, CountAttempt, StoreTypeOK
    <3>3. \A f \in Events : f # job[w] => attempts'[f] = attempts[f]
      BY <1>5 DEF ClaimNotificationTarget, CountAttempt, StoreTypeOK
    <3>4. \A v \in Workers : v # w => pc'[v] = pc[v] /\ request'[v] = request[v]
      BY <1>5 DEF ClaimNotificationTarget, CountAttempt, Goto, WorkerTypeOK
    <3> QED
      BY <3>1, <3>2, <3>3, <3>4
  <2>3. ASSUME NEW v \in Workers, v # w, pc'[v] \in {"send", "record"}
        PROVE  Recordable(v)'
    <3>1. job[v] \in Events /\ job[v] # job[w] /\ Recordable(v)
      BY <2>1, <2>2, <2>3 DEF AttemptStaysRecordable, ExclusiveLease, WorkerOK
    <3> QED
      BY <2>2, <2>3, <3>1, StillRecordable
  <2>4. CASE Goto(w, "progress") /\ UNCHANGED <<attempts, request>>
    <3>1. pc'[w] = "progress"
      BY <2>4 DEF Goto, WorkerTypeOK
    <3> QED
      BY <2>2, <2>3, <2>4, <3>1 DEF RecordInv, AttemptStaysRecordable, RowsCounted
  <2>5. ASSUME NEW d \in Destinations,
               Due(job[w], d),
               attempts' = [attempts EXCEPT ![job[w]][d] = @ + 1],
               request' = [request EXCEPT ![w] =
                   [dest |-> d, attempt |-> attempts[job[w]][d] + 1,
                    active |-> destination[d] # "inactive", result |-> "none"]]
        PROVE  RecordInv'
    <3>1. /\ attempts'[job[w]][d] = attempts[job[w]][d] + 1
          /\ attempts[job[w]][d] \in Nat
          /\ \A e \in Events, c \in Destinations :
                ~(e = job[w] /\ c = d) => attempts'[e][c] = attempts[e][c]
      BY <2>1, <2>5, NotificationAssumption DEF StoreTypeOK
    <3>2. \A row \in deliveries : row.event \in Events /\ row.dest \in Destinations /\ row.attempt \in Nat
      BY NotificationAssumption DEF StoreTypeOK, Delivery
    <3>3. RowsCounted'
      BY <2>2, <3>1, <3>2 DEF RowsCounted
    <3>4. Recordable(w)'
      <4>1. request'[w].dest = d /\ request'[w].attempt = attempts[job[w]][d] + 1
        BY <2>5 DEF WorkerTypeOK
      <4>2. target'[job[w]][d] = "pending"
        BY <2>1, <2>5, <1>5, NotificationAssumption DEF ClaimNotificationTarget, CountAttempt, Due, Expired, StoreTypeOK
      <4>3. \A row \in deliveries : row.event = job[w] /\ row.dest = d => row.attempt <= attempts[job[w]][d]
        BY DEF RowsCounted
      <4> QED
        BY <2>2, <3>1, <3>2, <4>1, <4>2, <4>3 DEF Recordable
    <3> QED
      BY <2>3, <3>3, <3>4 DEF RecordInv, AttemptStaysRecordable
  <2> QED
    BY <2>4, <2>5, <1>5 DEF ClaimNotificationTarget, CountAttempt
<1>6. ASSUME NEW w \in Workers, Send(w)
      PROVE  RecordInv'
  <2>1. PICK result \in {"succeeded", "retrying", "dead"} :
          request' = [request EXCEPT ![w] =
              [dest |-> request[w].dest, attempt |-> request[w].attempt,
               active |-> request[w].active, result |-> result]]
    BY <1>6 DEF Send
  <2>2. /\ pc[w] = "send"
        /\ UNCHANGED <<target, attempts, deliveries, job>>
        /\ \A v \in Workers : pc'[v] \in {"send", "record"} => pc[v] \in {"send", "record"}
        /\ \A v \in Workers : request'[v].dest = request[v].dest
                              /\ request'[v].attempt = request[v].attempt
    BY <1>6, <2>1 DEF Send, Goto, storeVars, WorkerTypeOK
  <2>3. RowsCounted'
    BY <2>2 DEF RowsCounted
  <2>4. ASSUME NEW v \in Workers, pc'[v] \in {"send", "record"}
        PROVE  Recordable(v)'
    <3>1. Recordable(v)
      BY <2>2, <2>4 DEF AttemptStaysRecordable
    <3> QED
      BY <2>2, <3>1, StillRecordable
  <2> QED
    BY <2>3, <2>4 DEF RecordInv, AttemptStaysRecordable
<1>7. ASSUME NEW w \in Workers, RecordNotificationDelivery(w)
      PROVE  RecordInv'
  <2> DEFINE row0 == [event |-> job[w], dest |-> request[w].dest,
                      attempt |-> request[w].attempt, status |-> RecordedStatus(w)]
  <2>1. /\ job[w] \in Events /\ request[w] \in Request /\ pc[w] = "record"
        /\ attempts[job[w]][request[w].dest] = request[w].attempt
    BY <1>7 DEF RecordNotificationDelivery, Recordable, WorkerOK
  <2>2. /\ deliveries' = deliveries \cup {row0}
        /\ UNCHANGED attempts
        /\ \A f \in Events : f # job[w] => target'[f] = target[f]
        /\ pc'[w] \notin {"send", "record"}
        /\ \A v \in Workers : v # w => pc'[v] = pc[v] /\ job'[v] = job[v] /\ request'[v] = request[v]
    BY <1>7 DEF RecordNotificationDelivery, Goto, Return, WorkerTypeOK
  <2>3. RowsCounted'
    <3>1. row0.attempt <= attempts[row0.event][row0.dest]
      BY <2>1, NotificationAssumption DEF Request
    <3> QED
      BY <2>2, <3>1 DEF RowsCounted
  <2>4. ASSUME NEW v \in Workers, pc'[v] \in {"send", "record"}
        PROVE  Recordable(v)'
    <3>1. v # w /\ job[v] \in Events /\ job[v] # job[w] /\ Recordable(v)
      BY <2>1, <2>2, <2>4 DEF AttemptStaysRecordable, ExclusiveLease, WorkerOK
    <3>2. \A row \in deliveries' : row.event = job[v] => row \in deliveries
      BY <2>2, <3>1
    <3> QED
      BY <2>2, <3>1, <3>2, StillRecordable
  <2> QED
    BY <2>3, <2>4 DEF RecordInv, AttemptStaysRecordable
<1>8. ASSUME NEW w \in Workers, NotificationProgress(w)
      PROVE  RecordInv'
  BY <1>8, <1>a DEF NotificationProgress, PendingTargets, storeVars
<1>9. ASSUME NEW w \in Workers, Settle(w)
      PROVE  RecordInv'
  BY <1>9, <1>a DEF Settle, storeVars
<1>10. ASSUME NEW w \in Workers, RecordRefused(w) \/ Timeout(w) \/ Abandon(w)
       PROVE  RecordInv'
  BY <1>10, <1>a DEF RecordRefused, Timeout, Abandon, storeVars
<1>11. ASSUME NEW d \in Destinations, NEW s \in DestinationState, ChangeDestination(d, s)
       PROVE  RecordInv'
  BY <1>11, <1>2 DEF ChangeDestination, workerVars
<1>12. CASE Tick
  BY <1>12, <1>2 DEF Tick
<1>13. CASE UNCHANGED vars
  BY <1>13, <1>2 DEF vars, storeVars, workerVars
<1> QED
  BY <1>1, <1>3, <1>4, <1>5, <1>6, <1>7, <1>8, <1>9, <1>10, <1>11, <1>12, <1>13, Inserts
     DEF Next, NextWorker

(* Under the same condition the outcome of every request can still be      *)
(* recorded when it comes back: nobody has retried, settled or expired the *)
(* target meanwhile, so RecordNotificationDelivery is never refused.       *)
THEOREM OutcomeIsRecordable ==
  ASSUME LeaseCoversBudget
  PROVE  Spec => []AttemptStaysRecordable
<1>1. Init => LeaseHeld /\ ExclusiveLease /\ RecordInv
  BY DEF Init, LeaseHeld, ExclusiveLease, RecordInv, RowsCounted, AttemptStaysRecordable, At
<1>2. TypeInv /\ LeaseHeld /\ ExclusiveLease /\ [Next]_vars => LeaseHeld' /\ ExclusiveLease'
  BY NextLease
<1>3. TypeInv /\ LeaseHeld /\ ExclusiveLease /\ RecordInv /\ [Next]_vars => RecordInv'
  BY NextRecord
<1>4. RecordInv => AttemptStaysRecordable
  BY DEF RecordInv
<1> QED
  BY <1>1, <1>2, <1>3, <1>4, InitTypeInv, NextTypeInv, PTL DEF Spec
-----------------------------------------------------------------------------
(* The delivery log. Nothing here rests on leases or clocks.               *)

(* Each logged attempt has been counted; a final one was the last of its   *)
(* target and gave it its status.                                          *)
RowOK(row) ==
    /\ row.attempt <= attempts[row.event][row.dest]
    /\ row.status = "retrying" => row.attempt < MaxAttempts
    /\ row.status # "retrying" =>
          /\ row.attempt = attempts[row.event][row.dest]
          /\ row.status = target[row.event][row.dest]
    /\ status[row.event] # "absent"

(* Target d of event e was given its final status by an attempt.           *)
SettledByAttempt(e, d) ==
    \E row \in deliveries : /\ row.event = e /\ row.dest = d
                            /\ row.attempt = attempts[e][d] /\ row.status = target[e][d]

TargetOK(e, d) ==
    /\ target[e][d] = "succeeded" =>
          /\ SettledByAttempt(e, d)
          /\ [event |-> e, dest |-> d, attempt |-> attempts[e][d]] \in accepted
    /\ target[e][d] = "dead" => SettledByAttempt(e, d) \/ attempts[e][d] = MaxAttempts

Sending(w) == pc[w] \in {"send", "record"}

(* An attempt in progress has been counted, and nobody else makes it.      *)
SendingOK(w) ==
    /\ request[w].attempt <= attempts[job[w]][request[w].dest]
    /\ At(w, "record") /\ request[w].result = "succeeded" => Sent(w) \in accepted
    /\ \A v \in Workers \ {w} : Sending(v) => Sent(v) # Sent(w)

LogInv ==
    /\ \A row \in deliveries : RowOK(row)
    /\ \A r, s \in deliveries :
          r.event = s.event /\ r.dest = s.dest /\ r.attempt = s.attempt => r = s
    /\ \A e \in Events, d \in Destinations : TargetOK(e, d)
    /\ \A w \in Workers : Sending(w) => SendingOK(w)

LEMMA LogTypes ==
  ASSUME TypeInv
  PROVE  /\ \A row \in deliveries :
               /\ row \in Delivery /\ row.event \in Events /\ row.dest \in Destinations
               /\ row.attempt \in 1..MaxAttempts
               /\ row.status \in {"succeeded", "retrying", "dead"}
         /\ \A w \in Workers : Sending(w) =>
               /\ job[w] \in Events /\ request[w] \in Request /\ request[w].dest \in Destinations
               /\ request[w].attempt \in 1..MaxAttempts
         /\ \A e \in Events, d \in Destinations : attempts[e][d] \in 0..MaxAttempts
         /\ MaxAttempts \in Nat
  BY NotificationAssumption
  DEF TypeInv, TypeOK, StoreTypeOK, WorkerOK, Sending, At, Delivery, Request

(* A step that leaves targets, log and requests alone.                     *)
LEMMA LogKept ==
  ASSUME TypeInv, LogInv, UNCHANGED <<target, attempts, deliveries, accepted>>,
         \A e \in Events : status[e] # "absent" => status'[e] # "absent",
         \A w \in Workers : Sending(w)' =>
            pc'[w] = pc[w] /\ job'[w] = job[w] /\ request'[w] = request[w]
  PROVE  LogInv'
<1>1. \A row \in deliveries : RowOK(row)'
  BY LogTypes DEF LogInv, RowOK
<1>2. \A e \in Events, d \in Destinations : TargetOK(e, d)'
  BY DEF LogInv, TargetOK, SettledByAttempt
<1>3. ASSUME NEW w \in Workers, Sending(w)' PROVE SendingOK(w)'
  <2>1. /\ Sending(w) /\ Sent(w)' = Sent(w) /\ SendingOK(w)
        /\ \A v \in Workers : Sending(v)' => Sending(v) /\ Sent(v)' = Sent(v)
    BY <1>3 DEF LogInv, Sending, Sent
  <2> QED
    BY <1>3, <2>1 DEF SendingOK, At
<1> QED
  BY <1>1, <1>2, <1>3 DEF LogInv

LEMMA NewEventLog ==
  ASSUME TypeInv, SettledInv, LogInv, NEW e \in Events, NEW S \in SUBSET Destinations,
         NEW valid \in BOOLEAN, NewEvent(e, S, valid)
  PROVE  LogInv'
<1>1. /\ status[e] = "absent" /\ UNCHANGED <<attempts, deliveries, accepted, pc, job, request>>
      /\ \A f \in Events \ {e} : target'[f] = target[f] /\ status'[f] = status[f]
      /\ status'[e] # "absent"
      /\ \A d \in Destinations : target'[e][d] \in {"none", "pending"}
  BY DEF NewEvent, InsertOutbox, workerVars, TypeInv, TypeOK, OutboxTypeOK, StoreTypeOK
<1>2. \A row \in deliveries : RowOK(row)'
  BY <1>1, LogTypes DEF LogInv, RowOK
<1>3. ASSUME NEW f \in Events, NEW d \in Destinations PROVE TargetOK(f, d)'
  BY <1>1 DEF LogInv, TargetOK, SettledByAttempt
<1>4. ASSUME NEW w \in Workers, Sending(w)' PROVE SendingOK(w)'
  BY <1>1, <1>4 DEF LogInv, SendingOK, Sending, Sent, At
<1> QED
  BY <1>1, <1>2, <1>3, <1>4 DEF LogInv

LEMMA ClaimTargetLog ==
  ASSUME TypeInv, LogInv, NEW w \in Workers, ClaimNotificationTarget(w)
  PROVE  LogInv'
<1>0. job[w] \in Events /\ pc[w] = "claim" /\ UNCHANGED <<status, deliveries, accepted, job>>
  BY DEF ClaimNotificationTarget, CountAttempt, outboxVars, TypeInv, WorkerOK, At
<1>1. /\ \A d \in Destinations :
            \/ target'[job[w]][d] = target[job[w]][d] /\ ~Expired(job[w], d)
            \/ target'[job[w]][d] = "dead" /\ Expired(job[w], d)
      /\ \A f \in Events \ {job[w]} : target'[f] = target[f]
  BY <1>0 DEF ClaimNotificationTarget, TypeInv, TypeOK, StoreTypeOK
<1>2. \/ /\ UNCHANGED <<attempts, request>>
         /\ pc' = [pc EXCEPT ![w] = "progress"]
      \/ \E d \in Destinations :
            /\ Due(job[w], d)
            /\ attempts' = [attempts EXCEPT ![job[w]][d] = @ + 1]
            /\ pc' = [pc EXCEPT ![w] = "send"]
            /\ request' = [request EXCEPT ![w] =
                   [dest |-> d, attempt |-> attempts[job[w]][d] + 1,
                    active |-> destination[d] # "inactive", result |-> "none"]]
  BY DEF ClaimNotificationTarget, CountAttempt, Goto
<1>3. \A d \in Destinations, f \in Events :
         \/ attempts'[f][d] = attempts[f][d]
         \/ /\ f = job[w] /\ Due(f, d) /\ attempts'[f][d] = attempts[f][d] + 1
            /\ attempts[f][d] < MaxAttempts
  <2>1. CASE UNCHANGED attempts
    BY <2>1
  <2>2. ASSUME NEW c \in Destinations, Due(job[w], c),
               attempts' = [attempts EXCEPT ![job[w]][c] = @ + 1]
        PROVE  \A d \in Destinations, f \in Events :
                  \/ attempts'[f][d] = attempts[f][d]
                  \/ /\ f = job[w] /\ Due(f, d) /\ attempts'[f][d] = attempts[f][d] + 1
                     /\ attempts[f][d] < MaxAttempts
    <3>1. /\ attempts'[job[w]][c] = attempts[job[w]][c] + 1
          /\ \A d \in Destinations, f \in Events :
                ~(f = job[w] /\ d = c) => attempts'[f][d] = attempts[f][d]
      BY <1>0, <2>2 DEF TypeInv, TypeOK, StoreTypeOK
    <3>2. attempts[job[w]][c] < MaxAttempts
      BY <2>2 DEF Due
    <3> QED
      BY <2>2, <3>1, <3>2
  <2> QED
    BY <1>2, <2>1, <2>2
<1>4. ASSUME NEW row \in deliveries PROVE RowOK(row)'
  <2>1. RowOK(row) /\ row.event \in Events /\ row.dest \in Destinations /\ row.attempt \in Nat
        /\ row.status \in {"succeeded", "retrying", "dead"}
        /\ attempts[row.event][row.dest] \in Nat
    BY LogTypes DEF LogInv
  <2>2. CASE row.status = "retrying"
    BY <1>0, <1>3, <2>1, <2>2 DEF RowOK
  <2>3. CASE row.status # "retrying"
    <3>1. target[row.event][row.dest] # "pending"
      BY <2>1, <2>3 DEF RowOK
    <3>2. /\ target'[row.event][row.dest] = target[row.event][row.dest]
          /\ attempts'[row.event][row.dest] = attempts[row.event][row.dest]
      BY <1>1, <1>3, <2>1, <3>1 DEF Expired, Due
    <3> QED
      BY <1>0, <2>1, <3>2 DEF RowOK
  <2> QED
    BY <2>2, <2>3
<1>5. ASSUME NEW f \in Events, NEW d \in Destinations PROVE TargetOK(f, d)'
  <2>1. TargetOK(f, d) /\ attempts[f][d] \in 0..MaxAttempts /\ MaxAttempts \in Nat
    BY LogTypes DEF LogInv
  <2>2. CASE target'[f][d] = target[f][d]
    <3>1. CASE target[f][d] = "pending"
      BY <2>2, <3>1 DEF TargetOK
    <3>2. CASE target[f][d] # "pending"
      <4>1. attempts'[f][d] = attempts[f][d]
        BY <1>3, <3>2 DEF Due
      <4> QED
        BY <1>0, <2>1, <2>2, <4>1 DEF TargetOK, SettledByAttempt
    <3> QED
      BY <3>1, <3>2
  <2>3. CASE target'[f][d] # target[f][d]
    <3>1. f = job[w] /\ target'[f][d] = "dead" /\ attempts[f][d] >= MaxAttempts
      BY <1>0, <1>1, <2>3 DEF Expired
    <3>2. attempts'[f][d] = MaxAttempts
      BY <1>3, <2>1, <3>1
    <3> QED
      BY <3>1, <3>2 DEF TargetOK
  <2> QED
    BY <2>2, <2>3
<1>6. ASSUME NEW v \in Workers \ {w}
      PROVE  pc'[v] = pc[v] /\ request'[v] = request[v]
  BY <1>2 DEF TypeInv, TypeOK, WorkerTypeOK
<1>7. ASSUME NEW v \in Workers, Sending(v)' PROVE SendingOK(v)'
  <2>1. \A u \in Workers \ {w} : Sending(u)' =>
           /\ Sending(u) /\ Sent(u)' = Sent(u) /\ SendingOK(u)
           /\ request[u].dest \in Destinations /\ request[u].attempt \in Nat /\ job[u] \in Events
           /\ attempts[job[u]][request[u].dest] \in Nat
           /\ request[u].attempt <= attempts[job[u]][request[u].dest]
    BY <1>0, <1>6, LogTypes DEF LogInv, Sending, Sent, SendingOK
  <2>2. Sending(w)' =>
           /\ pc'[w] = "send"
           /\ \E d \in Destinations :
                 /\ attempts[job[w]][d] \in Nat
                 /\ request'[w].dest = d /\ request'[w].attempt = attempts[job[w]][d] + 1
                 /\ attempts'[job[w]][d] = attempts[job[w]][d] + 1
    BY <1>0, <1>2, LogTypes DEF Sending, TypeInv, TypeOK, WorkerTypeOK, StoreTypeOK
  <2>3. ASSUME Sending(w)', NEW u \in Workers \ {w}, Sending(u)'
        PROVE  Sent(u)' # Sent(w)'
    BY <1>0, <1>6, <2>1, <2>2, <2>3 DEF Sent
  <2>4. CASE v = w
    BY <1>0, <1>7, <2>2, <2>3, <2>4 DEF SendingOK, At
  <2>5. CASE v # w
    <3>1. \A u \in Workers \ {v} : Sending(u)' => Sent(u)' # Sent(v)'
      BY <1>7, <2>1, <2>3, <2>5 DEF SendingOK
    <3>2. request'[v].attempt <= attempts'[job'[v]][request'[v].dest]
      BY <1>0, <1>3, <1>6, <1>7, <2>1, <2>5
    <3>3. At(v, "record")' /\ request'[v].result = "succeeded" => Sent(v)' \in accepted'
      BY <1>0, <1>6, <1>7, <2>1, <2>5 DEF SendingOK, At
    <3> QED
      BY <3>1, <3>2, <3>3 DEF SendingOK
  <2> QED
    BY <2>4, <2>5
<1> QED
  BY <1>0, <1>4, <1>5, <1>7 DEF LogInv

LEMMA SendLog ==
  ASSUME TypeInv, LogInv, NEW w \in Workers, Send(w)
  PROVE  LogInv'
<1>1. PICK result \in {"succeeded", "retrying", "dead"}, taken \in BOOLEAN :
         /\ Possible(w, result, taken)
         /\ request' = [request EXCEPT ![w] =
               [dest |-> request[w].dest, attempt |-> request[w].attempt,
                active |-> request[w].active, result |-> result]]
         /\ accepted' = IF taken THEN accepted \cup {Sent(w)} ELSE accepted
  BY DEF Send
<1>2. /\ pc[w] = "send" /\ pc' = [pc EXCEPT ![w] = "record"]
      /\ UNCHANGED <<status, target, attempts, deliveries, job>>
  BY DEF Send, Goto, At, outboxVars, storeVars
<1>3. /\ accepted \subseteq accepted'
      /\ result = "succeeded" => Sent(w) \in accepted'
  BY <1>1 DEF Possible
<1>4. \A v \in Workers : /\ Sending(v)' => Sending(v)
                         /\ Sent(v)' = Sent(v)
                         /\ v # w => pc'[v] = pc[v] /\ request'[v] = request[v]
  BY <1>1, <1>2 DEF Sending, Sent, TypeInv, TypeOK, WorkerTypeOK
<1>5. \A row \in deliveries : RowOK(row)'
  BY <1>2 DEF LogInv, RowOK
<1>6. \A e \in Events, d \in Destinations : TargetOK(e, d)'
  BY <1>2, <1>3 DEF LogInv, TargetOK, SettledByAttempt
<1>7. ASSUME NEW v \in Workers, Sending(v)' PROVE SendingOK(v)'
  <2>1. SendingOK(v) /\ Sent(v)' = Sent(v)
    BY <1>4, <1>7 DEF LogInv
  <2>2. /\ request'[v].attempt = request[v].attempt /\ request'[v].dest = request[v].dest
        /\ v = w => request'[v].result = result
    BY <1>1, <1>4 DEF TypeInv, TypeOK, WorkerTypeOK
  <2>3. At(v, "record")' /\ request'[v].result = "succeeded" => Sent(v)' \in accepted'
    BY <1>3, <1>4, <2>1, <2>2 DEF SendingOK, At
  <2> QED
    BY <1>2, <1>4, <2>1, <2>2, <2>3 DEF SendingOK
<1> QED
  BY <1>2, <1>5, <1>6, <1>7 DEF LogInv

(* What recording does, for the attempt n at destination d of event e.     *)
LEMMA Recording ==
  ASSUME TypeInv, LogInv, NEW w \in Workers, RecordNotificationDelivery(w)
  PROVE  LET e == job[w]
             d == request[w].dest
             n == request[w].attempt
             s == RecordedStatus(w) IN
         /\ e \in Events /\ d \in Destinations /\ n \in 1..MaxAttempts /\ At(w, "record")
         /\ s \in {"succeeded", "retrying", "dead"}
         /\ s = "retrying" => n < MaxAttempts
         /\ s = "succeeded" => Sent(w) \in accepted
         /\ Recordable(w)
         /\ deliveries' = deliveries \cup
               {[event |-> e, dest |-> d, attempt |-> n, status |-> s]}
         /\ target' = [target EXCEPT ![e][d] = IF s = "retrying" THEN "pending" ELSE s]
         /\ target'[e][d] = IF s = "retrying" THEN "pending" ELSE s
         /\ \A f \in Events, c \in Destinations :
               ~(f = e /\ c = d) => target'[f][c] = target[f][c]
         /\ UNCHANGED <<status, attempts, accepted>>
         /\ \A v \in Workers : Sending(v)' =>
               v # w /\ pc'[v] = pc[v] /\ job'[v] = job[v] /\ request'[v] = request[v]
<1> DEFINE e == job[w]
           d == request[w].dest
           n == request[w].attempt
           s == RecordedStatus(w)
<1>1. At(w, "record") /\ Recordable(w) /\ UNCHANGED <<status, attempts, accepted>>
  BY DEF RecordNotificationDelivery, outboxVars
<1>2. /\ e \in Events /\ d \in Destinations /\ n \in 1..MaxAttempts /\ MaxAttempts \in Nat
      /\ request[w].result \in {"succeeded", "retrying", "dead"}
  BY <1>1, LogTypes DEF Sending, At, TypeInv, WorkerOK, Request
<1>3. /\ s \in {"succeeded", "retrying", "dead"}
      /\ s = "retrying" => n < MaxAttempts
      /\ s = "succeeded" => request[w].result = "succeeded"
  BY <1>2 DEF RecordedStatus
<1>4. s = "succeeded" => Sent(w) \in accepted
  BY <1>1, <1>3 DEF LogInv, Sending, SendingOK, At
<1>5. /\ deliveries' = deliveries \cup
            {[event |-> e, dest |-> d, attempt |-> n, status |-> s]}
      /\ target' = [target EXCEPT ![e][d] = IF s = "retrying" THEN "pending" ELSE s]
  BY DEF RecordNotificationDelivery
<1>6. /\ target'[e][d] = IF s = "retrying" THEN "pending" ELSE s
      /\ \A f \in Events, c \in Destinations :
            ~(f = e /\ c = d) => target'[f][c] = target[f][c]
  BY <1>2, <1>5 DEF TypeInv, TypeOK, StoreTypeOK
<1>7. \A v \in Workers : Sending(v)' =>
         v # w /\ pc'[v] = pc[v] /\ job'[v] = job[v] /\ request'[v] = request[v]
  BY DEF RecordNotificationDelivery, Goto, Return, Sending, TypeInv, TypeOK, WorkerTypeOK
<1> QED
  BY <1>1, <1>2, <1>3, <1>4, <1>5, <1>6, <1>7

LEMMA RecordLog ==
  ASSUME TypeInv, SettledInv, LogInv, NEW w \in Workers, RecordNotificationDelivery(w)
  PROVE  LogInv'
<1>0. PICK e \in Events, d \in Destinations, n \in 1..MaxAttempts,
           s \in {"succeeded", "retrying", "dead"} :
         /\ e = job[w] /\ d = request[w].dest /\ n = request[w].attempt /\ s = RecordedStatus(w)
  BY Recording
<1> DEFINE new == [event |-> e, dest |-> d, attempt |-> n, status |-> s]
<1>a. /\ s = "retrying" => n < MaxAttempts
      /\ s = "succeeded" => Sent(w) \in accepted
      /\ Recordable(w) /\ At(w, "record")
      /\ UNCHANGED <<status, attempts, accepted>>
  BY <1>0, Recording
<1>b. deliveries' = deliveries \cup {new}
  BY <1>0 DEF RecordNotificationDelivery
<1>c. target'[e][d] = IF s = "retrying" THEN "pending" ELSE s
  BY <1>0, Recording
<1>d. \A f \in Events, c \in Destinations :
         ~(f = job[w] /\ c = request[w].dest) => target'[f][c] = target[f][c]
  BY Recording, Zenon
<1>e. \A f \in Events, c \in Destinations : ~(f = e /\ c = d) => target'[f][c] = target[f][c]
  BY <1>0, <1>d
<1>f. /\ target[e][d] = "pending" /\ attempts[e][d] = n
      /\ \A row \in deliveries : ~(row.event = e /\ row.dest = d /\ row.attempt = n)
  BY <1>0, <1>a DEF Recordable
<1>g. Sent(w) = [event |-> e, dest |-> d, attempt |-> n]
  BY <1>0 DEF Sent
<1>h. status[e] # "absent"
  BY <1>0, <1>a DEF SettledInv, At
<1>1. /\ s = "retrying" => n < MaxAttempts
      /\ s = "succeeded" => [event |-> e, dest |-> d, attempt |-> n] \in accepted
      /\ target[e][d] = "pending" /\ attempts[e][d] = n
      /\ \A row \in deliveries : ~(row.event = e /\ row.dest = d /\ row.attempt = n)
      /\ deliveries' = deliveries \cup {new}
      /\ target'[e][d] = IF s = "retrying" THEN "pending" ELSE s
      /\ \A f \in Events, c \in Destinations : ~(f = e /\ c = d) => target'[f][c] = target[f][c]
      /\ UNCHANGED <<status, attempts, accepted>>
      /\ status[e] # "absent"
  BY <1>f, <1>g, <1>h, <1>a, <1>b, <1>c, <1>e
<1>2. ASSUME NEW row \in deliveries PROVE RowOK(row)'
  <2>1. RowOK(row) /\ row.event \in Events /\ row.dest \in Destinations
        /\ row.status \in {"succeeded", "retrying", "dead"}
    BY LogTypes DEF LogInv
  <2> QED
    BY <1>1, <2>1 DEF RowOK
<1>3. RowOK(new)'
  BY <1>0, <1>1, LogTypes DEF RowOK
<1>4. \A r, t \in deliveries' :
         r.event = t.event /\ r.dest = t.dest /\ r.attempt = t.attempt => r = t
  BY <1>1 DEF LogInv
<1>5. ASSUME NEW f \in Events, NEW c \in Destinations PROVE TargetOK(f, c)'
  <2>1. CASE f = e /\ c = d
    <3>1. new \in deliveries' /\ new.event = e /\ new.dest = d /\ new.attempt = n /\ new.status = s
      BY <1>1
    <3> HIDE DEF new
    <3> QED
      BY <1>1, <2>1, <3>1 DEF TargetOK, SettledByAttempt
  <2>2. CASE ~(f = e /\ c = d)
    BY <1>1, <2>2 DEF LogInv, TargetOK, SettledByAttempt
  <2> QED
    BY <2>1, <2>2
<1>6. ASSUME NEW v \in Workers, Sending(v)' PROVE SendingOK(v)'
  <2>1. \A u \in Workers : Sending(u)' =>
           pc'[u] = pc[u] /\ job'[u] = job[u] /\ request'[u] = request[u]
    BY Recording
  <2>2. SendingOK(v) /\ Sent(v)' = Sent(v)
        /\ \A u \in Workers : Sending(u)' => Sending(u) /\ Sent(u)' = Sent(u)
    BY <1>6, <2>1 DEF LogInv, Sending, Sent
  <2> QED
    BY <1>1, <1>6, <2>1, <2>2 DEF SendingOK, At
<1> HIDE DEF new
<1>7. \A row \in deliveries' : RowOK(row)'
  BY <1>1, <1>2, <1>3
<1> QED
  BY <1>4, <1>5, <1>6, <1>7 DEF LogInv

LEMMA NextLog == TypeInv /\ SettledInv /\ LogInv /\ [Next]_vars => LogInv'
<1> SUFFICES ASSUME TypeInv, SettledInv, LogInv, [Next]_vars
             PROVE  LogInv'
  OBVIOUS
(* Steps that leave targets, log and requests alone.                       *)
<1>a. ASSUME NEW w \in Workers, UNCHANGED <<target, attempts, deliveries, accepted>>,
             \A e \in Events : status[e] # "absent" => status'[e] # "absent",
             \/ Return(w)
             \/ /\ \E step \in {"decode", "claim", "progress", "complete", "retry"} : Goto(w, step)
                /\ UNCHANGED request
                /\ \A v \in Workers \ {w} : job'[v] = job[v]
      PROVE  LogInv'
  <2>1. \A v \in Workers : Sending(v)' =>
           pc'[v] = pc[v] /\ job'[v] = job[v] /\ request'[v] = request[v]
    BY <1>a DEF Return, Goto, Sending, TypeInv, TypeOK, WorkerTypeOK
  <2> QED
    BY <1>a, <2>1, LogKept
<1>1. ASSUME NEW e \in Events, NEW S \in SUBSET Destinations, NEW valid \in BOOLEAN,
             NewEvent(e, S, valid)
      PROVE  LogInv'
  BY <1>1, NewEventLog
<1>2. CASE UNCHANGED <<target, attempts, deliveries, accepted, status, pc, job, request>>
  BY <1>2, LogKept
<1>3. ASSUME NEW w \in Workers, ClaimEvent(w)
      PROVE  LogInv'
  <2>1. PICK e \in Events : ClaimOutbox({e}) /\ job' = [job EXCEPT ![w] = e]
    BY <1>3 DEF ClaimEvent
  <2>2. \A f \in Events : status[f] # "absent" => status'[f] # "absent"
    BY <2>1 DEF ClaimOutbox
  <2>3. \A v \in Workers \ {w} : job'[v] = job[v]
    BY <2>1 DEF TypeInv, TypeOK, WorkerTypeOK
  <2> QED
    BY <1>3, <2>2, <2>3, <1>a DEF ClaimEvent, storeVars
<1>4. ASSUME NEW w \in Workers, Decode(w)
      PROVE  LogInv'
  <2>1. \A e \in Events : status[e] # "absent" => status'[e] # "absent"
    BY <1>4 DEF Decode, GiveUpOutbox, outboxVars, TypeInv, TypeOK, OutboxTypeOK
  <2> QED
    BY <1>4, <2>1, <1>a DEF Decode, storeVars
<1>5. ASSUME NEW w \in Workers, NotificationProgress(w)
      PROVE  LogInv'
  BY <1>5, <1>a DEF NotificationProgress, PendingTargets, outboxVars, storeVars
<1>6. ASSUME NEW w \in Workers, Settle(w)
      PROVE  LogInv'
  <2>1. \A e \in Events : status[e] # "absent" => status'[e] # "absent"
    BY <1>6 DEF Settle, CompleteOutbox, RetryOutbox, outboxVars, TypeInv, TypeOK, OutboxTypeOK
  <2> QED
    BY <1>6, <2>1, <1>a DEF Settle, storeVars
<1>7. ASSUME NEW w \in Workers, RecordRefused(w) \/ Timeout(w) \/ Abandon(w)
      PROVE  LogInv'
  BY <1>7, <1>a DEF RecordRefused, Timeout, Abandon, outboxVars, storeVars
<1>8. ASSUME NEW d \in Destinations, NEW s \in DestinationState, ChangeDestination(d, s)
      PROVE  LogInv'
  BY <1>8, <1>2 DEF ChangeDestination, outboxVars, workerVars
<1>9. CASE Tick
  BY <1>9, <1>2 DEF Tick, OutboxTick
<1>10. CASE UNCHANGED vars
  BY <1>10, <1>2 DEF vars, outboxVars, storeVars, workerVars
<1> QED
  BY <1>1, <1>3, <1>4, <1>5, <1>6, <1>7, <1>8, <1>9, <1>10, Inserts,
     ClaimTargetLog, SendLog, RecordLog
  DEF Next, NextWorker

LEMMA LogInvariance == Spec => [](TypeInv /\ SettledInv /\ LogInv)
<1>1. Init => SettledInv
  BY DEF Init, OutboxInit, SettledInv, CompletedMeansSettled, At
<1>2. Init => LogInv
  BY DEF Init, LogInv, TargetOK, Sending
<1> QED
  BY <1>1, <1>2, InitTypeInv, NextTypeInv, NextSettled, NextLog, PTL DEF Spec

(* The log and the targets agree at every moment, however many workers try *)
(* the same event and whatever becomes of them in between.                 *)
THEOREM LogExplainsTargets == Spec => []DeliveriesExplainTargets
<1>1. TypeInv /\ LogInv => DeliveriesExplainTargets
  <2> SUFFICES ASSUME TypeInv, LogInv PROVE DeliveriesExplainTargets
    OBVIOUS
  <2>1. ASSUME NEW e \in Events, NEW d \in Destinations
        PROVE  LET rows == {row \in deliveries : row.event = e /\ row.dest = d}
                   final == {row \in rows : row.attempt = attempts[e][d]
                                            /\ row.status = target[e][d]} IN
               /\ target[e][d] = "succeeded" =>
                     /\ final # {}
                     /\ [event |-> e, dest |-> d, attempt |-> attempts[e][d]] \in accepted
               /\ target[e][d] = "dead" => final # {} \/ attempts[e][d] = MaxAttempts
               /\ \A row \in rows :
                     /\ row.attempt <= attempts[e][d]
                     /\ row.status = "retrying" => row.attempt < MaxAttempts
                     /\ row.status # "retrying" => row \in final
    BY DEF LogInv, RowOK, TargetOK, SettledByAttempt
  <2> QED
    BY <2>1 DEF DeliveriesExplainTargets
<1> QED
  BY <1>1, LogInvariance, PTL

(* No attempt is made twice: its number is taken when it is counted, by    *)
(* one worker and for good.                                                *)
THEOREM AttemptsAreHeldOnce == Spec => []AttemptHeldOnce
<1>1. LogInv => AttemptHeldOnce
  BY DEF LogInv, AttemptHeldOnce, Sending, SendingOK
<1> QED
  BY <1>1, LogInvariance, PTL
-----------------------------------------------------------------------------
(* The refinement: NotificationPromise knows an event's phase, the outcome *)
(* of its targets and who took it.                                         *)

Phase == [e \in Events |->
             IF status[e] \in {"pending", "processing"} THEN "open" ELSE status[e]]

Told == [e \in Events |-> {d \in Destinations :
            \E n \in 1..MaxAttempts : [event |-> e, dest |-> d, attempt |-> n] \in accepted}]

(* No attempt in progress is for a settled target, nor is a held event     *)
(* settled: what makes every step one of the promise's.                    *)
HeldInv == TypeInv /\ SettledInv /\ LogInv /\ LeaseHeld /\ ExclusiveLease /\ RecordInv

LEMMA PromiseStutters ==
  ASSUME UNCHANGED <<Phase, target, Told>>
  PROVE  UNCHANGED Promise!promiseVars
  BY DEF Promise!promiseVars, Phase, Told

(* A claim moves an event within its open phase, and so does putting back. *)
LEMMA PhaseKept ==
  ASSUME OutboxTypeOK, NEW e \in Events,
         \/ UNCHANGED status
         \/ (Claimable(e) /\ ClaimOutbox({e}))
         \/ \E n \in 0..MaxDelay : RetryOutbox(e, n)
  PROVE  Phase' = Phase
<1>1. \A f \in Events :
         \/ status'[f] = status[f]
         \/ status[f] \in {"pending", "processing"} /\ status'[f] \in {"pending", "processing"}
  BY DEF OutboxTypeOK, Claimable, ClaimOutbox, RetryOutbox, Claimed
<1> QED
  BY <1>1 DEF Phase

LEMMA AnnounceMaps ==
  ASSUME TypeInv, NEW e \in Events, NEW S \in SUBSET Destinations,
         NEW valid \in BOOLEAN, NewEvent(e, S, valid)
  PROVE  Promise!Announce(e, S)
<1>1. /\ status[e] = "absent" /\ status' = [status EXCEPT ![e] = "pending"]
      /\ target' = [target EXCEPT ![e] = [d \in Destinations |-> IF d \in S THEN "pending" ELSE "none"]]
      /\ UNCHANGED accepted
  BY DEF NewEvent, InsertOutbox
<1>2. Phase[e] = "absent" /\ Phase' = [Phase EXCEPT ![e] = "open"]
  BY <1>1 DEF Phase, TypeInv, TypeOK, OutboxTypeOK
<1>3. UNCHANGED Told
  BY <1>1 DEF Told
<1> QED
  BY <1>1, <1>2, <1>3 DEF Promise!Announce, Phase, Told

LEMMA ClaimTargetMaps ==
  ASSUME HeldInv, NEW w \in Workers, ClaimNotificationTarget(w)
  PROVE  \E e \in Events : \E S \in SUBSET Destinations : Promise!Fail(e, S)
<1>0. PICK e \in Events : e = job[w]
  BY DEF HeldInv, TypeInv, WorkerOK, ClaimNotificationTarget, CountAttempt, At
<1> DEFINE S == {d \in Destinations : Expired(e, d)}
<1>1. status[e] = "processing"
  BY <1>0 DEF HeldInv, LeaseHeld, ClaimNotificationTarget, CountAttempt, At, Claimed
<1>2. /\ target' = [target EXCEPT ![e] =
            [d \in Destinations |-> IF Expired(e, d) THEN "dead" ELSE target[e][d]]]
      /\ UNCHANGED <<status, accepted>>
  BY <1>0 DEF ClaimNotificationTarget, CountAttempt, outboxVars
<1>3. target' = [target EXCEPT ![e] =
            [d \in Destinations |-> IF d \in S THEN "dead" ELSE target[e][d]]]
  BY <1>2
<1>4. Phase[e] = "open" /\ UNCHANGED <<Phase, Told>>
  BY <1>1, <1>2 DEF Phase, Told
<1>5. S \subseteq Promise!Pending(e)
  BY DEF Promise!Pending, Expired
<1> HIDE DEF S
<1>6. Promise!Fail(e, S)
  BY <1>3, <1>4, <1>5 DEF Promise!Fail, Phase, Told
<1>7. S \in SUBSET Destinations
  BY DEF S
<1> QED
  BY <1>6, <1>7

LEMMA SendMaps ==
  ASSUME HeldInv, NEW w \in Workers, Send(w)
  PROVE  \/ \E e \in Events : \E d \in Destinations : Promise!Tell(e, d)
         \/ UNCHANGED Promise!promiseVars
<1>0. /\ job[w] \in Events /\ request[w].dest \in Destinations
      /\ request[w].attempt \in 1..MaxAttempts /\ pc[w] = "send"
  BY LogTypes DEF HeldInv, Send, Sending, At
<1>1. PICK e \in Events, d \in Destinations, n \in 1..MaxAttempts :
         e = job[w] /\ d = request[w].dest /\ n = request[w].attempt
  BY <1>0
<1>2. status[e] = "processing" /\ target[e][d] = "pending"
  BY <1>0, <1>1
  DEF HeldInv, LeaseHeld, RecordInv, AttemptStaysRecordable, Recordable, Claimed, At
<1>3. /\ UNCHANGED <<status, target>>
      /\ accepted' = accepted \/ accepted' = accepted \cup {Sent(w)}
  BY DEF Send, outboxVars, storeVars
<1>4. Sent(w) = [event |-> e, dest |-> d, attempt |-> n]
  BY <1>1 DEF Sent
<1>5. CASE accepted' = accepted
  BY <1>3, <1>5, PromiseStutters DEF Phase, Told
<1>6. CASE accepted' = accepted \cup {[event |-> e, dest |-> d, attempt |-> n]}
  <2>1. Phase[e] = "open" /\ UNCHANGED Phase /\ d \in Promise!Pending(e)
    BY <1>2, <1>3 DEF Phase, Promise!Pending
  <2>2. \A f \in Events : Told'[f] = IF f = e THEN Told[f] \cup {d} ELSE Told[f]
    BY <1>6 DEF Told
  <2>3. Told' = [Told EXCEPT ![e] = Told[e] \cup {d}]
    BY <2>2 DEF Told
  <2>4. Promise!Tell(e, d)
    BY <1>3, <2>1, <2>3 DEF Promise!Tell, Phase, Told
  <2> QED
    BY <2>4
<1> QED
  BY <1>3, <1>4, <1>5, <1>6

LEMMA RecordMaps ==
  ASSUME HeldInv, NEW w \in Workers, RecordNotificationDelivery(w)
  PROVE  \/ \E e \in Events : \E d \in Destinations : Promise!Succeed(e, d)
         \/ \E e \in Events : \E S \in SUBSET Destinations : Promise!Fail(e, S)
         \/ UNCHANGED Promise!promiseVars
<1>1. PICK e \in Events, d \in Destinations, n \in 1..MaxAttempts,
           s \in {"succeeded", "retrying", "dead"} :
         /\ e = job[w] /\ d = request[w].dest /\ n = request[w].attempt /\ s = RecordedStatus(w)
  BY Recording DEF HeldInv
<1>2. /\ At(w, "record") /\ Recordable(w) /\ UNCHANGED <<status, accepted>>
      /\ s = "succeeded" => Sent(w) \in accepted
  BY <1>1, Recording DEF HeldInv
<1>3. target' = [target EXCEPT ![e][d] = IF s = "retrying" THEN "pending" ELSE s]
  BY <1>1 DEF RecordNotificationDelivery
<1>4. status[e] = "processing" /\ target[e][d] = "pending"
  BY <1>1, <1>2 DEF HeldInv, LeaseHeld, Recordable, Claimed, At
<1>5. Phase[e] = "open" /\ UNCHANGED <<Phase, Told>> /\ d \in Promise!Pending(e)
  BY <1>2, <1>4 DEF Phase, Told, Promise!Pending
<1>6. target \in [Events -> [Destinations -> TargetStatus]]
  BY DEF HeldInv, TypeInv, TypeOK, StoreTypeOK
<1>7. CASE s = "succeeded"
  <2>1. Sent(w) = [event |-> e, dest |-> d, attempt |-> n]
    BY <1>1 DEF Sent
  <2>2. d \in Told[e]
    BY <1>2, <1>7, <2>1 DEF Told
  <2>3. target' = [target EXCEPT ![e][d] = "succeeded"]
    BY <1>3, <1>7
  <2>4. Promise!Succeed(e, d)
    BY <1>5, <2>2, <2>3 DEF Promise!Succeed, Phase, Told
  <2> QED
    BY <2>4
<1>8. CASE s = "dead"
  <2>1. target' = [target EXCEPT ![e] =
              [c \in Destinations |-> IF c \in {d} THEN "dead" ELSE target[e][c]]]
    BY <1>3, <1>6, <1>8
  <2>2. Promise!Fail(e, {d})
    BY <1>5, <2>1 DEF Promise!Fail, Phase, Told
  <2>3. {d} \in SUBSET Destinations
    OBVIOUS
  <2> QED
    BY <2>2, <2>3
<1>9. CASE s = "retrying"
  <2>1. target' = [target EXCEPT ![e][d] = "pending"]
    BY <1>3, <1>9
  <2>2. target' = target
    BY <1>4, <1>6, <2>1
  <2> QED
    BY <1>5, <2>2, PromiseStutters
<1> QED
  BY <1>7, <1>8, <1>9

LEMMA DecodeMaps ==
  ASSUME HeldInv, NEW w \in Workers, Decode(w)
  PROVE  (\E e \in Events : Promise!Drop(e)) \/ UNCHANGED Promise!promiseVars
<1>0. PICK e \in Events : e = job[w]
  BY DEF HeldInv, TypeInv, WorkerOK, Decode, At
<1>1. UNCHANGED <<target, accepted>> /\ (GiveUpOutbox(e) \/ UNCHANGED status)
  BY <1>0 DEF Decode, storeVars, outboxVars
<1>2. CASE UNCHANGED status
  BY <1>1, <1>2, PromiseStutters DEF Phase, Told
<1>3. CASE GiveUpOutbox(e)
  <2>1. status[e] = "processing" /\ status' = [status EXCEPT ![e] = "dead"]
    BY <1>3 DEF GiveUpOutbox, Claimed
  <2>2. Phase[e] = "open" /\ Phase' = [Phase EXCEPT ![e] = "dead"] /\ UNCHANGED Told
    BY <1>1, <2>1 DEF Phase, Told, HeldInv, TypeInv, TypeOK, OutboxTypeOK
  <2>3. Promise!Drop(e)
    BY <1>1, <2>2 DEF Promise!Drop, Phase, Told
  <2> QED
    BY <2>3
<1> QED
  BY <1>1, <1>2, <1>3

LEMMA SettleMaps ==
  ASSUME HeldInv, NEW w \in Workers, Settle(w)
  PROVE  (\E e \in Events : Promise!Close(e)) \/ UNCHANGED Promise!promiseVars
<1>0. PICK e \in Events : e = job[w]
  BY DEF HeldInv, TypeInv, WorkerOK, Settle, At
<1>1. UNCHANGED <<target, accepted>>
  BY DEF Settle, storeVars
<1>2. CASE At(w, "complete") /\ CompleteOutbox(e)
  <2>1. status[e] = "processing" /\ status' = [status EXCEPT ![e] = "completed"]
    BY <1>2 DEF CompleteOutbox, Claimed
  <2>2. Phase[e] = "open" /\ Phase' = [Phase EXCEPT ![e] = "completed"] /\ UNCHANGED Told
    BY <1>1, <2>1 DEF Phase, Told, HeldInv, TypeInv, TypeOK, OutboxTypeOK
  <2>3. Promise!Pending(e) = {}
    BY <1>0, <1>2 DEF HeldInv, SettledInv, Promise!Pending
  <2>4. Promise!Close(e)
    BY <1>1, <2>2, <2>3 DEF Promise!Close, Phase, Told
  <2> QED
    BY <2>4
<1>3. CASE RetryOutbox(e, next[w])
  <2>1. next[w] \in 0..MaxDelay /\ OutboxTypeOK
    BY DEF HeldInv, TypeInv, TypeOK, WorkerTypeOK
  <2>2. Phase' = Phase
    BY <1>3, <2>1, PhaseKept
  <2> QED
    BY <1>1, <2>2, PromiseStutters DEF Told
<1>4. CASE UNCHANGED outboxVars
  BY <1>1, <1>4, PromiseStutters DEF Phase, Told, outboxVars
<1> QED
  BY <1>0, <1>2, <1>3, <1>4 DEF Settle

LEMMA NextMaps == HeldInv /\ [Next]_vars => [Promise!Next]_(Promise!promiseVars)
<1> SUFFICES ASSUME HeldInv, [Next]_vars
             PROVE  Promise!Next \/ UNCHANGED Promise!promiseVars
  OBVIOUS
<1>a. OutboxTypeOK
  BY DEF HeldInv, TypeInv, TypeOK
<1>b. ASSUME UNCHANGED <<status, target, accepted>>
      PROVE  UNCHANGED Promise!promiseVars
  BY <1>b, PromiseStutters DEF Phase, Told
<1>1. ASSUME NEW e \in Events, NEW S \in SUBSET Destinations, NEW valid \in BOOLEAN,
             NewEvent(e, S, valid)
      PROVE  Promise!Next
  BY <1>1, AnnounceMaps DEF HeldInv, Promise!Next
<1>2. ASSUME NEW w \in Workers, ClaimEvent(w)
      PROVE  UNCHANGED Promise!promiseVars
  <2>1. PICK e \in Events : Claimable(e) /\ ClaimOutbox({e})
    BY <1>2 DEF ClaimEvent, OldestClaimable
  <2>2. Phase' = Phase
    BY <1>a, <2>1, PhaseKept
  <2> QED
    BY <1>2, <2>2, PromiseStutters DEF ClaimEvent, storeVars, Told
<1>3. ASSUME NEW w \in Workers, ClaimNotificationTarget(w)
      PROVE  Promise!Next
  BY <1>3, ClaimTargetMaps DEF Promise!Next
<1>4. ASSUME NEW w \in Workers, Send(w)
      PROVE  Promise!Next \/ UNCHANGED Promise!promiseVars
  BY <1>4, SendMaps DEF Promise!Next
<1>5. ASSUME NEW w \in Workers, RecordNotificationDelivery(w)
      PROVE  Promise!Next \/ UNCHANGED Promise!promiseVars
  BY <1>5, RecordMaps DEF Promise!Next
<1>6. ASSUME NEW w \in Workers, Decode(w)
      PROVE  Promise!Next \/ UNCHANGED Promise!promiseVars
  BY <1>6, DecodeMaps DEF Promise!Next
<1>7. ASSUME NEW w \in Workers, Settle(w)
      PROVE  Promise!Next \/ UNCHANGED Promise!promiseVars
  BY <1>7, SettleMaps DEF Promise!Next
<1>8. ASSUME NEW w \in Workers,
             RecordRefused(w) \/ NotificationProgress(w) \/ Timeout(w) \/ Abandon(w)
      PROVE  UNCHANGED Promise!promiseVars
  BY <1>8, <1>b DEF RecordRefused, NotificationProgress, Timeout, Abandon, outboxVars, storeVars
<1>9. ASSUME NEW d \in Destinations, NEW s \in DestinationState, ChangeDestination(d, s)
      PROVE  UNCHANGED Promise!promiseVars
  BY <1>9, <1>b DEF ChangeDestination, outboxVars
<1>10. CASE Tick
  BY <1>10, <1>b DEF Tick, OutboxTick
<1>11. CASE UNCHANGED vars
  BY <1>11, <1>b DEF vars, outboxVars, storeVars
<1> QED
  BY <1>1, <1>2, <1>3, <1>4, <1>5, <1>6, <1>7, <1>8, <1>9, <1>10, <1>11, Inserts
  DEF Next, NextWorker

(* As long as the lease outlasts a cycle, delivery keeps its promise: each *)
(* request leaves for a target of an open event whose outcome is not       *)
(* settled, a success is somebody's who took it, and an event closes when  *)
(* all outcomes are settled, once and for good.                            *)
THEOREM Refinement ==
  ASSUME LeaseCoversBudget
  PROVE  Spec => KeepsPromise
<1>1. Init => HeldInv
  <2>1. Init => SettledInv
    BY DEF Init, OutboxInit, SettledInv, CompletedMeansSettled, At
  <2>2. Init => LogInv
    BY DEF Init, LogInv, TargetOK, Sending
  <2>3. Init => LeaseHeld /\ ExclusiveLease /\ RecordInv
    BY DEF Init, LeaseHeld, ExclusiveLease, RecordInv, RowsCounted, AttemptStaysRecordable, At
  <2> QED
    BY <2>1, <2>2, <2>3, InitTypeInv DEF HeldInv
<1>2. HeldInv /\ [Next]_vars => HeldInv'
  <2>1. TypeInv /\ LeaseHeld /\ ExclusiveLease /\ [Next]_vars => LeaseHeld' /\ ExclusiveLease'
    BY NextLease
  <2>2. TypeInv /\ LeaseHeld /\ ExclusiveLease /\ RecordInv /\ [Next]_vars => RecordInv'
    BY NextRecord
  <2> QED
    BY <2>1, <2>2, NextTypeInv, NextSettled, NextLog DEF HeldInv
<1>3. Init => Promise!Init
  BY DEF Init, OutboxInit, Promise!Init
<1> QED
  BY <1>1, <1>2, <1>3, NextMaps, PTL DEF Spec, KeepsPromise, Promise!Spec
=============================================================================
