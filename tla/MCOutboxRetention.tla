-------------------------- MODULE MCOutboxRetention --------------------------
(* Small instances of OutboxRetention.                                     *)
EXTENDS OutboxRetention, TLC

Run(o, before, limit, path) == [op |-> o, before |-> before, limit |-> limit, path |-> path]

(* Two batches, an id used again for another archive, and an archive used  *)
(* again by another id.                                                    *)
MCRequests ==
    {Run("o1", 1, 1, "p1"), Run("o1", 1, 1, "p2"), Run("o2", 2, 2, "p2"), Run("o3", 2, 2, "p1")}

Symmetry == Permutations(Clients)
=============================================================================
