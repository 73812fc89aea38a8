--------------------------- MODULE MCReleaseStream ---------------------------
(* Small instances of ReleaseStream.                                       *)
EXTENDS ReleaseStream, TLC

CONSTANTS r1, r2

Prepare(o, byToken, key, config, file) ==
    [op |-> o, action |-> "prepare", byToken |-> byToken, key |-> key,
     config |-> config, file |-> file, expected |-> 0]

Activate(o, byToken, key, expected) ==
    [op |-> o, action |-> "activate", byToken |-> byToken, key |-> key,
     config |-> 0, file |-> 0, expected |-> expected]

(* One key for three specifications, and activations that expect the same  *)
(* and a later generation.                                                 *)
MCRequests ==
    {Prepare("o1", TRUE, r1, 1, 0), Prepare("o2", FALSE, r1, 1, 0),
     Prepare("o3", FALSE, r2, 2, 2), Prepare("o2", TRUE, r1, 1, 1),
     Activate("o4", TRUE, r1, 0), Activate("o5", FALSE, r2, 0),
     Activate("o5", FALSE, r2, 1), Activate("o6", FALSE, r1, 2)}

Symmetry == Permutations(Clients)
=============================================================================
