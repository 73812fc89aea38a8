------------------------------- MODULE Outbox -------------------------------
(***************************************************************************)
(* The outbox_events table of the MySQL store as its consumers see it      *)
(* (internal/storage/mysqlstore/outbox.go): rows leased for a fixed time,  *)
(* completed, put back with a later due time, or given up.                 *)
(*                                                                         *)
(* Points in time are kept as the time left until them, so no clock value  *)
(* grows: wait[e] is next_attempt_at minus now and lease[e] is claimed_at  *)
(* plus the claim timeout minus now, both stopping at 0.                   *)
(***************************************************************************)
EXTENDS Integers, FiniteSets

CONSTANTS
    Events,     \* outbox row identities, numbered in created_at order
    Lease,      \* the claim timeout consumers pass (one minute)
    Skew,       \* how far a consumer's clock may run ahead of MySQL's
    MaxDelay    \* longest time a row or a target is put off

ASSUME OutboxAssumption ==
    /\ Events \subseteq Nat
    /\ Lease \in Nat
    /\ Skew \in Nat
    /\ MaxDelay \in Nat

VARIABLES
    status,     \* outbox_events.status, "absent" before the insert
    wait,       \* time until next_attempt_at
    lease       \* time until the claim times out by MySQL's clock

outboxVars == <<status, wait, lease>>

EventStatus == {"absent", "pending", "processing", "completed", "dead"}

OutboxTypeOK ==
    /\ status \in [Events -> EventStatus]
    /\ wait \in [Events -> 0..MaxDelay]
    /\ lease \in [Events -> 0..Lease]

OutboxInit ==
    /\ status = [e \in Events |-> "absent"]
    /\ wait = [e \in Events |-> 0]
    /\ lease = [e \in Events |-> 0]

(* Transactions may commit in another order than they inserted.            *)
InsertOutbox(e) ==
    /\ status[e] = "absent"
    /\ status' = [status EXCEPT ![e] = "pending"]
    /\ UNCHANGED <<wait, lease>>

(* Mutant: a claim that ignores the lease.                                 *)
Claimable_IgnoresLease(e) ==
    \/ status[e] = "pending" /\ wait[e] = 0
    \/ status[e] = "processing"

(* The WHERE clause of the claim. claimed_at is MySQL's clock and the cut  *)
(* off is the consumer's, so a consumer running ahead sees a lease end up  *)
(* to Skew early.                                                          *)
Claimable(e) ==
    \/ status[e] = "pending" /\ wait[e] = 0
    \/ status[e] = "processing" /\ lease[e] <= Skew

(* Mutant: an event waits until every older one is completed.              *)
OldestClaimable_BehindDead(e) ==
    /\ Claimable(e)
    /\ \A f \in Events : f < e => status[f] \in {"absent", "completed"}

(* ORDER BY created_at. *)
OldestClaimable(e) ==
    /\ Claimable(e)
    /\ \A f \in Events : f < e => ~Claimable(f)

ClaimOutbox(S) ==
    /\ status' = [e \in Events |-> IF e \in S THEN "processing" ELSE status[e]]
    /\ lease' = [e \in Events |-> IF e \in S THEN Lease ELSE lease[e]]
    /\ UNCHANGED wait

(* CompleteOutbox and RetryOutbox accept any caller: all they check is     *)
(* that the row is still being processed; otherwise they fail without      *)
(* changing it.                                                            *)
Claimed(e) == status[e] = "processing"

CompleteOutbox(e) ==
    /\ Claimed(e)
    /\ status' = [status EXCEPT ![e] = "completed"]
    /\ lease' = [lease EXCEPT ![e] = 0]
    /\ UNCHANGED wait

RetryOutbox(e, next) ==
    /\ Claimed(e)
    /\ status' = [status EXCEPT ![e] = "pending"]
    /\ wait' = [wait EXCEPT ![e] = next]
    /\ lease' = [lease EXCEPT ![e] = 0]

GiveUpOutbox(e) ==
    /\ Claimed(e)
    /\ status' = [status EXCEPT ![e] = "dead"]
    /\ wait' = [wait EXCEPT ![e] = 0]
    /\ lease' = [lease EXCEPT ![e] = 0]

(* One unit of time less until t. *)
Sooner(t) == IF t = 0 THEN 0 ELSE t - 1

OutboxTick ==
    /\ wait' = [e \in Events |-> Sooner(wait[e])]
    /\ lease' = [e \in Events |-> Sooner(lease[e])]
    /\ UNCHANGED status
=============================================================================
