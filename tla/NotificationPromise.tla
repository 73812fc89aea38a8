------------------------- MODULE NotificationPromise -------------------------
(***************************************************************************)
(* What notification delivery promises, without leases, workers, attempts  *)
(* or time: an event is announced to a fixed set of destinations; each of  *)
(* them may be told any number of times until its outcome is settled,      *)
(* never after; it counts as told only if its receiver took the event; and *)
(* the event is closed when every outcome is settled.                      *)
(***************************************************************************)
CONSTANTS Events, Destinations

VARIABLES
    phase,      \* of an event
    outcome,    \* of an event at a destination
    told        \* destinations whose receiver took the event

promiseVars == <<phase, outcome, told>>

Pending(e) == {d \in Destinations : outcome[e][d] = "pending"}

Init ==
    /\ phase = [e \in Events |-> "absent"]
    /\ outcome = [e \in Events |-> [d \in Destinations |-> "none"]]
    /\ told = [e \in Events |-> {}]

Announce(e, S) ==
    /\ phase[e] = "absent"
    /\ phase' = [phase EXCEPT ![e] = "open"]
    /\ outcome' = [outcome EXCEPT ![e] =
          [d \in Destinations |-> IF d \in S THEN "pending" ELSE "none"]]
    /\ UNCHANGED told

Tell(e, d) ==
    /\ phase[e] = "open"
    /\ d \in Pending(e)
    /\ told' = [told EXCEPT ![e] = @ \cup {d}]
    /\ UNCHANGED <<phase, outcome>>

Succeed(e, d) ==
    /\ phase[e] = "open"
    /\ d \in Pending(e) \cap told[e]
    /\ outcome' = [outcome EXCEPT ![e][d] = "succeeded"]
    /\ UNCHANGED <<phase, told>>

Fail(e, S) ==
    /\ phase[e] = "open"
    /\ S \subseteq Pending(e)
    /\ outcome' = [outcome EXCEPT ![e] =
          [d \in Destinations |-> IF d \in S THEN "dead" ELSE outcome[e][d]]]
    /\ UNCHANGED <<phase, told>>

Close(e) ==
    /\ phase[e] = "open"
    /\ Pending(e) = {}
    /\ phase' = [phase EXCEPT ![e] = "completed"]
    /\ UNCHANGED <<outcome, told>>

(* An event nobody can read is dropped with its targets as they are.       *)
Drop(e) ==
    /\ phase[e] = "open"
    /\ phase' = [phase EXCEPT ![e] = "dead"]
    /\ UNCHANGED <<outcome, told>>

Next ==
    \E e \in Events :
        \/ \E S \in SUBSET Destinations : Announce(e, S) \/ Fail(e, S)
        \/ \E d \in Destinations : Tell(e, d) \/ Succeed(e, d)
        \/ Close(e)
        \/ Drop(e)

Spec == Init /\ [][Next]_promiseVars
=============================================================================
