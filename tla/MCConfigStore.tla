---------------------------- MODULE MCConfigStore ----------------------------
(* Small instances of ConfigStore.                                         *)
EXTENDS ConfigStore, TLC

CONSTANTS A, B, AB, T, k1, k2, e1

MCDocuments == {A, B, AB}

(* Source over target; B and AB clash where they meet.                     *)
MCMerged ==
    [p \in MCDocuments \X MCDocuments |->
        IF p[1] = p[2] THEN p[1] ELSE IF AB \in {p[1], p[2]} /\ B \in {p[1], p[2]} THEN Malformed ELSE AB]

Nowhere == [config |-> k1, environment |-> e1, revision |-> 0]

Request0(o, action, k) ==
    [op |-> o, action |-> action, token |-> None, config |-> k, environment |-> e1,
     expected |-> 0, document |-> Malformed, source |-> Nowhere, target |-> 0]

CommitOf(o, token, expected, document) ==
    [Request0(o, "commit", k1) EXCEPT !.token = token, !.expected = expected, !.document = document]

(* Two creations by different actors, updates, ids used for two requests,  *)
(* content that is no document, and what an operator may do to the config. *)
MCCommits ==
    {CommitOf("o1", None, 0, A), CommitOf("o1", None, 1, Malformed),
     CommitOf("o2", T, 0, B), CommitOf("o2", None, 1, B),
     Request0("o3", "archive", k1), Request0("o4", "unarchive", k1),
     [Request0("o6", "revoke", k1) EXCEPT !.token = T]}

(* Two creations and an update while the environment comes and goes.       *)
MCEnvironments ==
    {CommitOf("o1", None, 0, A), CommitOf("o2", T, 0, B), CommitOf("o2", None, 1, B),
     Request0("o3", "archive", k1), [Request0("o6", "revoke", k1) EXCEPT !.token = T]}
    \cup {Request0("o5", action, k1) :
             action \in {"createEnvironment", "archiveEnvironment", "unarchiveEnvironment"}}

TransferOf(o, action, k, expected, source, target) ==
    [Request0(o, action, k) EXCEPT !.expected = expected, !.target = target,
        !.source = [config |-> k1, environment |-> e1, revision |-> source]]

(* Transfers between a config and a clone of it, while it is changed.      *)
MCTransfers ==
    {CommitOf("o1", None, 0, A), CommitOf("o2", None, 1, B),
     TransferOf("o3", "clone", k2, 0, 0, 0), TransferOf("o4", "merge", k2, 1, 2, 1),
     TransferOf("o4", "replace", k2, 0, 1, 0), TransferOf("o4", "restore", k1, 2, 1, 2)}

(* What an operator can do to a config and its environment while a caller  *)
(* creates it twice.                                                       *)
MCLifecycle ==
    {CommitOf("o1", None, 0, A), CommitOf("o2", None, 0, A), CommitOf("o2", None, 1, A),
     Request0("o3", "archive", k1), Request0("o4", "unarchive", k1),
     Request0("o5", "createEnvironment", k1), Request0("o6", "archiveEnvironment", k1),
     Request0("o7", "unarchiveEnvironment", k1)}

MCWorkloads == {MCCommits, MCEnvironments, MCTransfers}

MCOneWorkload == {MCLifecycle}

Symmetry == Permutations(Clients)
=============================================================================
