--------------------------- MODULE MCAuditDelivery ---------------------------
(* Small instances of AuditDelivery.                                       *)
EXTENDS AuditDelivery, TLC

(* The newest row has the lowest id.                                       *)
MCId == [e \in Events |-> 1 + Cardinality({f \in Events : f > e})]

Symmetry == Permutations(Workers)
=============================================================================
