--------------------------- MODULE MCHumanSession ---------------------------
(* Small instances of HumanSession.                                        *)
EXTENDS HumanSession, TLC

CONSTANTS u1, s1

Of(op, target, action, source) ==
    [op |-> op, target |-> target, action |-> action, source |-> source]

MCChanges ==
    {Of("o1", u1, "block", "operator"), Of("o2", u1, "unblock", "operator"),
     Of("jti", s1, "invalidate", "provider")}

MCAccounts == {[subject |-> u1, session |-> s1]}

Symmetry == Permutations(Requests) \cup Permutations(Changers) \cup Permutations(Tokens)
=============================================================================
