----------------------- MODULE MCNotificationDelivery -----------------------
(* Small instances of NotificationDelivery.                                *)
EXTENDS NotificationDelivery, TLC

CONSTANT Server     \* the replica that works off a queue

(* Replicas are interchangeable, and so are destinations.                  *)
Symmetry == Permutations(Workers) \cup Permutations(Destinations)

Queued == {e \in Events : status[e] # "absent"}

(* One event has everything: replicas, changing destinations, receivers    *)
(* that take a request and report a failure. Another that is inserted      *)
(* while the first is open waits behind it. From then on one replica       *)
(* works, destinations stay as they are and who reports a failure has not  *)
(* taken the request. No fair step is ruled out for good.                  *)
Behind(e) == \A f \in Queued : f < e /\ status[f] \in {"pending", "processing"}

ServesAlone ==
    /\ \A w \in Workers \ {Server} : At(w, "idle")
    /\ \A d \in Destinations : destination[d] = "subscribed"

TakenIfReported ==
    accepted' # accepted =>
        \E w \in Workers : At(w, "send") /\ request'[w].result = "succeeded"

QueueNext ==
    /\ Next
    /\ \A e \in Queued' \ Queued : Behind(e)
    /\ Cardinality(Queued') > 1 => ServesAlone' /\ TakenIfReported

QueueSpec == Init /\ [][QueueNext]_vars /\ Fairness
=============================================================================
