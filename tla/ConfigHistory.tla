--------------------------- MODULE ConfigHistory ---------------------------
(***************************************************************************)
(* What config mutations promise, without transactions, locks or views:    *)
(* each operation id is decided once and in one step, and what is decided  *)
(* is right at that step. A revision is added at the end of the history    *)
(* of a config in an environment, and only by a request that names the     *)
(* revision it follows; histories are never rewritten.                     *)
(***************************************************************************)
EXTENDS Integers, Sequences

CONSTANTS Configs, Environments, Operations, Requests, Documents, None

VARIABLES
    decided,        \* the request and result of an operation id
    existence,      \* of a config: absent, active or archived
    history         \* documents by config and environment

historyVars == <<decided, existence, history>>

Length(r) == Len(history[r.config][r.environment])

Init ==
    /\ decided = [o \in Operations |-> None]
    /\ existence = [k \in Configs |-> "absent"]
    /\ history = [k \in Configs |-> [e \in Environments |-> <<>>]]

Decide(r, outcome, n) ==
    /\ decided[r.op] = None
    /\ decided' = [decided EXCEPT ![r.op] =
          [request |-> r, outcome |-> outcome, revision |-> n]]

(* A clone makes a config; everything else may also continue one.          *)
Extend(r) ==
    /\ Length(r) = r.expected
    /\ existence[r.config] \in IF r.action = "clone" THEN {"absent"} ELSE {"absent", "active"}
    /\ Decide(r, "success", Length(r) + 1)
    /\ \E d \in Documents :
          /\ Length(r) > 0 => history[r.config][r.environment][Length(r)] # d
          /\ r.action = "commit" => d = r.document
          /\ history' = [history EXCEPT ![r.config][r.environment] = Append(@, d)]
    /\ existence' = [existence EXCEPT ![r.config] = "active"]

Keep(r) ==
    /\ Length(r) = r.expected
    /\ Length(r) > 0
    /\ existence[r.config] = "active"
    /\ r.action = "commit" => history[r.config][r.environment][Length(r)] = r.document
    /\ Decide(r, "no_change", Length(r))
    /\ UNCHANGED <<existence, history>>

(* A conflict is only ever declared when there is one.                     *)
Conflict(r) ==
    /\ \/ Length(r) # r.expected
       \/ r.action = "clone" /\ existence[r.config] # "absent"
    /\ Decide(r, "conflict", 0)
    /\ UNCHANGED <<existence, history>>

Refuse(r) ==
    /\ Decide(r, "validation_failed", 0)
    /\ UNCHANGED <<existence, history>>

(* Archiving and the like: of configs, or of what this does not speak of.  *)
Administer(r) ==
    /\ r.action \notin {"commit", "merge", "replace", "restore", "clone"}
    /\ \E outcome \in {"success", "no_change", "conflict"} : Decide(r, outcome, 0)
    /\ \/ UNCHANGED existence
       \/ /\ existence[r.config] # "absent"
          /\ \E s \in {"active", "archived"} :
                existence' = [existence EXCEPT ![r.config] = s]
    /\ UNCHANGED history

Next ==
    \E r \in Requests : Extend(r) \/ Keep(r) \/ Conflict(r) \/ Refuse(r) \/ Administer(r)

Spec == Init /\ [][Next]_historyVars
=============================================================================
