----------------------------- MODULE ConfigStore -----------------------------
(***************************************************************************)
(* Config mutations of the MySQL store (commitConfig, transferConfig,      *)
(* CloneConfig, ApplyConfigLifecycleChange and ApplyEnvironmentChange of   *)
(* internal/storage/mysqlstore), at the level of the statements of their   *)
(* transactions: which rows a statement locks, and whether it reads the    *)
(* latest committed rows (locking reads) or the rows as of the first plain *)
(* SELECT of the transaction (REPEATABLE READ).                            *)
(*                                                                         *)
(* The writes of a transaction are seen by others when it commits, so they *)
(* are one action; the locks it takes on the way are kept by name.         *)
(***************************************************************************)
EXTENDS Integers, Sequences

CONSTANTS
    Configs,        \* config resource keys
    Environments,   \* environment resource keys
    Operations,     \* operation ids, chosen by the callers
    Tokens,         \* scoped write tokens
    Documents,      \* canonical config documents
    Malformed,      \* content that is no config document
    Merged,         \* configdoc.Merge by source and target document
    Workloads,      \* sets of requests that callers make, and repeat, together
    Clients,        \* requests in progress at the same time
    None

Revision == Nat

Transfers == {"merge", "replace", "restore", "clone"}

Lifecycle == {"archive", "unarchive", "createEnvironment", "archiveEnvironment",
              "unarchiveEnvironment", "revoke"}

(* token: the token that acts, or is to be revoked. source and target: the *)
(* revisions a transfer reads; a clone of revision 0 is of the current one.*)
Request == [op : Operations,
            action : {"commit"} \cup Transfers \cup Lifecycle,
            token : Tokens \cup {None},
            config : Configs,
            environment : Environments,
            expected : Revision,
            document : Documents \cup {Malformed},
            source : [config : Configs, environment : Environments, revision : Revision],
            target : Revision]

Requests == UNION Workloads

ASSUME ConfigAssumption ==
    /\ Malformed \notin Documents
    /\ None \notin Tokens
    /\ Merged \in [Documents \X Documents -> Documents \cup {Malformed}]
    /\ Requests \subseteq Request
    /\ None \notin Requests

VARIABLES
    workload,       \* what callers ask for in this behaviour
    operation,      \* operations: the request and result by operation id
    environment,    \* environments: "absent", "active" or "archived"
    config,         \* configs, the same
    current,        \* config_env_states.current_revision, 0 without a row
    revisions,      \* config_revisions, rows 1 to n by config and environment
    granted,        \* tokens that are active with the scope they ask for
    pc,             \* the next statement of each client
    req,            \* its request
    doc,            \* the content to be committed
    view,           \* the rows as of its first plain SELECT
    locks,          \* rows and gaps it has locked
    at,             \* the current revision as it locked it
    verdict,        \* the outcome it has come to
    replies         \* what clients were answered

storeVars == <<operation, environment, config, current, revisions, granted>>
clientVars == <<pc, req, doc, view, locks, at, verdict>>
vars == <<workload, storeVars, clientVars, replies>>

Existence == {"absent", "active", "archived"}

Outcome == {"success", "no_change", "conflict", "validation_failed"}

Steps == {"idle", "replay", "source", "target", "authorize", "operation",
          "environment", "config", "insert", "current", "commit"}

RevisionRow == [document : Documents, op : Operations]

OperationRow == [request : Requests, outcome : Outcome, revision : Revision]

View == [environment : [Environments -> Existence],
         current : [Configs -> [Environments -> Revision]]]

(* Of the answers that leave no operation behind only the error matters.   *)
Reply == [request : Requests, outcome : Outcome \cup {"error"}, revision : Revision]

ASSUME NoneAssumption == None \notin Outcome \cup OperationRow \cup View

Locks == {<<"operation", o>> : o \in Operations} \cup {<<"token", t>> : t \in Tokens}
         \cup {<<"config", k>> : k \in Configs} \cup {<<"gap", k>> : k \in Configs}

StoreTypeOK ==
    /\ operation \in [Operations -> OperationRow \cup {None}]
    /\ environment \in [Environments -> Existence]
    /\ config \in [Configs -> Existence]
    /\ current \in [Configs -> [Environments -> Revision]]
    /\ revisions \in [Configs -> [Environments -> Seq(RevisionRow)]]
    /\ granted \subseteq Tokens

ClientTypeOK ==
    /\ pc \in [Clients -> Steps]
    /\ req \in [Clients -> Requests \cup {None}]
    /\ doc \in [Clients -> Documents \cup {Malformed}]
    /\ view \in [Clients -> View \cup {None}]
    /\ locks \in [Clients -> SUBSET Locks]
    /\ at \in [Clients -> Revision]
    /\ verdict \in [Clients -> Outcome \cup {None}]

TypeOK ==
    /\ workload \in Workloads
    /\ StoreTypeOK
    /\ ClientTypeOK
    /\ replies \subseteq Reply

(* Environments created in advance save the model their requests.          *)
Init ==
    /\ workload \in Workloads
    /\ operation = [o \in Operations |-> None]
    /\ environment \in [Environments -> {"absent", "active"}]
    /\ config = [k \in Configs |-> "absent"]
    /\ current = [k \in Configs |-> [e \in Environments |-> 0]]
    /\ revisions = [k \in Configs |-> [e \in Environments |-> <<>>]]
    /\ granted = Tokens
    /\ pc = [c \in Clients |-> "idle"]
    /\ req = [c \in Clients |-> None]
    /\ doc = [c \in Clients |-> Malformed]
    /\ view = [c \in Clients |-> None]
    /\ locks = [c \in Clients |-> {}]
    /\ at = [c \in Clients |-> 0]
    /\ verdict = [c \in Clients |-> None]
    /\ replies = {}

-----------------------------------------------------------------------------
(* Transactions.                                                           *)

At(c, step) == pc[c] = step

Goto(c, step) == pc' = [pc EXCEPT ![c] = step]

(* Nobody else holds l, or nobody at all if c has no part in it.           *)
Free(c, l) == \A d \in Clients \ {c} : l \notin locks[d]

Lock(c, l) == locks' = [locks EXCEPT ![c] = @ \cup {l}]

(* What plain SELECTs of c see from its first one on.                      *)
Snapshot(c) ==
    IF view[c] = None THEN [environment |-> environment, current |-> current]
                      ELSE view[c]

(* Mutant: an early return without the deferred rollback.                  *)
End_NoRollback(c) ==
    /\ Goto(c, "idle")
    /\ req' = [req EXCEPT ![c] = None]
    /\ doc' = [doc EXCEPT ![c] = Malformed]
    /\ view' = [view EXCEPT ![c] = None]
    /\ at' = [at EXCEPT ![c] = 0]
    /\ verdict' = [verdict EXCEPT ![c] = None]
    /\ UNCHANGED locks

(* The transaction is over, committed or rolled back.                      *)
End(c) ==
    /\ Goto(c, "idle")
    /\ req' = [req EXCEPT ![c] = None]
    /\ doc' = [doc EXCEPT ![c] = Malformed]
    /\ view' = [view EXCEPT ![c] = None]
    /\ locks' = [locks EXCEPT ![c] = {}]
    /\ at' = [at EXCEPT ![c] = 0]
    /\ verdict' = [verdict EXCEPT ![c] = None]

Answer(r, outcome, n) ==
    replies' = replies \cup {[request |-> r, outcome |-> outcome, revision |-> n]}

(* Decided, and nothing left that could block: commit is next.             *)
Conclude(c, outcome) ==
    /\ verdict' = [verdict EXCEPT ![c] = outcome]
    /\ Goto(c, "commit")

(* A caller makes a request, for the first time or again.                  *)
Begin(c, r) ==
    /\ At(c, "idle")
    /\ r.action \notin Lifecycle
    /\ req' = [req EXCEPT ![c] = r]
    /\ doc' = [doc EXCEPT ![c] = r.document]
    /\ Goto(c, IF r.action \in Transfers THEN "replay"
               ELSE IF r.token # None THEN "authorize" ELSE "operation")
    /\ UNCHANGED <<storeVars, view, locks, at, verdict, replies>>

-----------------------------------------------------------------------------
(* What a transfer does before its transaction, on rows of the moment.     *)

(* A completed transfer is answered without looking at its source.         *)
ReplayTransfer(c) ==
    /\ At(c, "replay")
    /\ LET row == operation[req[c].op] IN
       IF row # None /\ row.request = req[c]
       THEN Answer(req[c], row.outcome, row.revision) /\ End(c)
       ELSE /\ Goto(c, "source")
            /\ UNCHANGED <<req, doc, view, locks, at, verdict, replies>>
    /\ UNCHANGED storeVars

Available(k, e, n) ==
    /\ n \in 1..Len(revisions[k][e])
    /\ config[k] = "active"
    /\ environment[e] = "active"

(* The transfer goes to be recorded as a failure.                          *)
Reject(c) ==
    /\ verdict' = [verdict EXCEPT ![c] = "validation_failed"]
    /\ Goto(c, "operation")
    /\ UNCHANGED doc

(* Mutant: the revision a caller names is not the one that is read.        *)
SourceRevision_Current(r) == current[r.source.config][r.source.environment]

SourceRevision(r) ==
    IF r.action = "clone" /\ r.source.revision = 0
    THEN current[r.source.config][r.source.environment] ELSE r.source.revision

ReadSource(c) ==
    /\ At(c, "source")
    /\ LET s == req[c].source
           n == SourceRevision(req[c]) IN
       IF Available(s.config, s.environment, n)
       THEN /\ doc' = [doc EXCEPT ![c] = revisions[s.config][s.environment][n].document]
            /\ Goto(c, IF req[c].action = "clone" THEN "operation" ELSE "target")
            /\ UNCHANGED verdict
       ELSE Reject(c)
    /\ UNCHANGED <<storeVars, req, view, locks, at, replies>>

(* Replacing an absent target is the one transfer with nothing to read.    *)
CreatesTarget(r) == r.action = "replace" /\ r.target = 0 /\ r.expected = 0

ReadTarget(c) ==
    /\ At(c, "target")
    /\ LET r == req[c]
           merged == Merged[<<doc[c], revisions[r.config][r.environment][r.target].document>>] IN
       CASE CreatesTarget(r) -> Goto(c, "operation") /\ UNCHANGED <<doc, verdict>>
         [] ~CreatesTarget(r) /\ ~(r.expected # 0 /\ Available(r.config, r.environment, r.target))
              -> Reject(c)
         [] OTHER ->
              IF r.action = "merge" /\ merged = Malformed THEN Reject(c)
              ELSE /\ doc' = [doc EXCEPT ![c] = IF r.action = "merge" THEN merged ELSE @]
                   /\ Goto(c, "operation")
                   /\ UNCHANGED verdict
    /\ UNCHANGED <<storeVars, req, view, locks, at, replies>>

-----------------------------------------------------------------------------
(* The transaction of a commit, also of a transfer.                        *)

(* Mutant: the token row is read but not held.                             *)
HoldToken_NotHeld(c) == UNCHANGED locks

HoldToken(c) == Lock(c, <<"token", req[c].token>>)

(* The token row is share-locked through commit. Whether the environment   *)
(* is active is a subquery, which reads, and so fixes, the view.           *)
AuthorizeScopedWrite(c) ==
    /\ At(c, "authorize")
    /\ \/ /\ req[c].token \in granted
          /\ Snapshot(c).environment[req[c].environment] = "active"
          /\ HoldToken(c)
          /\ view' = [view EXCEPT ![c] = Snapshot(c)]
          /\ Goto(c, "operation")
          /\ UNCHANGED <<req, doc, at, verdict, replies>>
       \/ /\ \/ req[c].token \notin granted
             \/ Snapshot(c).environment[req[c].environment] # "active"
          /\ End(c)
          /\ UNCHANGED replies
    /\ UNCHANGED storeVars

(* Mutant: any request with the id is taken for the first one.             *)
SameRequest_SameId(r, s) == r.op = s.op

SameRequest(r, s) == r = s

HoldOperation(c) == Lock(c, <<"operation", req[c].op>>)

(* The row of the operation id is inserted, or found after waiting for the *)
(* transaction that inserted it.                                           *)
BeginOperation(c) ==
    /\ At(c, "operation")
    /\ Free(c, <<"operation", req[c].op>>)
    /\ LET row == operation[req[c].op] IN
       \/ /\ row = None
          /\ HoldOperation(c)
          /\ IF verdict[c] # None THEN Goto(c, "commit") /\ UNCHANGED verdict
             ELSE IF doc[c] = Malformed THEN Conclude(c, "validation_failed")
             ELSE Goto(c, "environment") /\ UNCHANGED verdict
          /\ UNCHANGED <<req, doc, view, at, replies>>
       \/ /\ row # None
          /\ IF SameRequest(req[c], row.request)
             THEN Answer(req[c], row.outcome, row.revision)
             ELSE UNCHANGED replies
          /\ End(c)
    /\ UNCHANGED storeVars

(* The environment is read and not locked.                                 *)
ReadEnvironment(c) ==
    /\ At(c, "environment")
    /\ view' = [view EXCEPT ![c] = Snapshot(c)]
    /\ IF Snapshot(c).environment[req[c].environment] = "active"
       THEN Goto(c, "config") /\ UNCHANGED verdict
       ELSE Conclude(c, "validation_failed")
    /\ UNCHANGED <<storeVars, req, doc, locks, at, replies>>

(* Mutant: the config row is read but not locked.                          *)
LockConfig_Unlocked(c, k) == UNCHANGED locks

(* SELECT ... FOR UPDATE locks the row, or the gap where it would be: gap  *)
(* locks are compatible with one another.                                  *)
LockConfig(c, k) == Lock(c, IF config[k] = "absent" THEN <<"gap", k>> ELSE <<"config", k>>)

FindConfig(c) ==
    /\ At(c, "config")
    /\ LET r == req[c] IN
       /\ Free(c, <<"config", r.config>>)
       /\ LockConfig(c, r.config)
       /\ \/ /\ config[r.config] # "absent"
             /\ r.action = "clone"
             /\ Conclude(c, "conflict")
          \/ /\ config[r.config] = "archived"
             /\ r.action # "clone"
             /\ Conclude(c, "validation_failed")
          \/ /\ config[r.config] = "active"
             /\ r.action # "clone"
             /\ Goto(c, "current")
             /\ UNCHANGED verdict
          \/ /\ config[r.config] = "absent"
             /\ r.expected # 0
             /\ Conclude(c, "conflict")
          \/ /\ config[r.config] = "absent"
             /\ r.expected = 0
             /\ Goto(c, "insert")
             /\ UNCHANGED verdict
    /\ UNCHANGED <<storeVars, req, doc, view, at, replies>>

(* An insert waits for every gap lock but its own.                         *)
InsertConfig(c) ==
    /\ At(c, "insert")
    /\ Free(c, <<"gap", req[c].config>>)
    /\ Lock(c, <<"config", req[c].config>>)
    /\ Goto(c, "current")
    /\ UNCHANGED <<storeVars, req, doc, view, at, verdict, replies>>

(* InnoDB rolls back one of two transactions that wait for each other's    *)
(* gap lock; commits of configs are not run again.                         *)
Deadlock(c) ==
    /\ At(c, "insert")
    /\ \E d \in Clients \ {c} :
          /\ At(d, "insert")
          /\ <<"gap", req[c].config>> \in locks[c] \cap locks[d]
          /\ req[d].config = req[c].config
    /\ End(c)
    /\ UNCHANGED <<storeVars, replies>>

LastDocument(k, e) == revisions[k][e][current[k][e]].document

(* Mutant: the expected revision is not compared.                          *)
Decision_LastWins(r, d) ==
    IF current[r.config][r.environment] > 0 /\ LastDocument(r.config, r.environment) = d
    THEN "no_change" ELSE "success"

Decision(r, d) ==
    IF r.expected # current[r.config][r.environment] THEN "conflict"
    ELSE IF current[r.config][r.environment] > 0 /\ LastDocument(r.config, r.environment) = d
    THEN "no_change" ELSE "success"

(* The current revision is read with a lock and so is the latest; its      *)
(* content is looked up in the view, and may not be there yet.             *)
LockCurrentConfig(c) ==
    /\ At(c, "current")
    /\ LET r == req[c]
           n == current[r.config][r.environment] IN
       \/ /\ n <= view[c].current[r.config][r.environment]
          /\ at' = [at EXCEPT ![c] = n]
          /\ Conclude(c, Decision(r, doc[c]))
          /\ UNCHANGED <<req, doc, view, locks, replies>>
       \/ /\ n > view[c].current[r.config][r.environment]
          /\ Answer(r, "error", n)
          /\ End(c)
    /\ UNCHANGED storeVars

RecordOperation(r, outcome, n) ==
    operation' = [operation EXCEPT ![r.op] =
        [request |-> r, outcome |-> outcome, revision |-> n]]

(* finishOperation and COMMIT: result, revision and current revision.      *)
Commit(c) ==
    /\ At(c, "commit")
    /\ LET r == req[c]
           k == r.config
           e == r.environment
           n == CASE verdict[c] = "success" -> at[c] + 1
                  [] verdict[c] = "no_change" -> at[c]
                  [] OTHER -> 0 IN
       /\ RecordOperation(r, verdict[c], n)
       /\ Answer(r, verdict[c], n)
       /\ IF verdict[c] = "success"
          THEN /\ revisions' = [revisions EXCEPT ![k][e] =
                      Append(@, [document |-> doc[c], op |-> r.op])]
               /\ current' = [current EXCEPT ![k][e] = n]
               /\ config' = [config EXCEPT ![k] = IF @ = "absent" THEN "active" ELSE @]
          ELSE UNCHANGED <<revisions, current, config>>
    /\ End(c)
    /\ UNCHANGED <<environment, granted>>

(* A crash, a canceled context, a lost connection: whatever it was doing.  *)
Abort(c) ==
    /\ ~At(c, "idle")
    /\ End(c)
    /\ UNCHANGED <<storeVars, replies>>

-----------------------------------------------------------------------------
(* Short transactions that only make locking reads: one action each.       *)

Unlocked(l) == \A c \in Clients : l \notin locks[c]

ReplayLifecycle(r) ==
    /\ operation[r.op] # None
    /\ LET row == operation[r.op] IN
       IF SameRequest(r, row.request) THEN Answer(r, row.outcome, row.revision)
                                      ELSE UNCHANGED replies
    /\ UNCHANGED storeVars

Settles(r, outcome) ==
    /\ operation[r.op] = None
    /\ RecordOperation(r, outcome, 0)
    /\ Answer(r, outcome, 0)

(* Archive and unarchive of a row that is now in state s.                  *)
LifecycleOutcome(s, goal) ==
    IF s = "absent" THEN "validation_failed"
    ELSE IF s = goal THEN "no_change" ELSE "success"

ApplyConfigLifecycleChange(r) ==
    /\ r.action \in {"archive", "unarchive"}
    /\ Unlocked(<<"config", r.config>>)
    /\ LET goal == IF r.action = "archive" THEN "archived" ELSE "active" IN
       \/ ReplayLifecycle(r)
       \/ /\ Settles(r, LifecycleOutcome(config[r.config], goal))
          /\ config' = [config EXCEPT ![r.config] = IF @ = "absent" THEN @ ELSE goal]
          /\ UNCHANGED <<environment, current, revisions, granted>>

ApplyEnvironmentChange(r) ==
    /\ r.action \in {"createEnvironment", "archiveEnvironment", "unarchiveEnvironment"}
    /\ LET s == environment[r.environment]
           goal == IF r.action = "archiveEnvironment" THEN "archived" ELSE "active"
           outcome == CASE r.action # "createEnvironment" -> LifecycleOutcome(s, goal)
                        [] r.action = "createEnvironment" /\ s = "absent" -> "success"
                        [] OTHER -> "conflict" IN
       \/ ReplayLifecycle(r)
       \/ /\ Settles(r, outcome)
          /\ environment' = [environment EXCEPT ![r.environment] =
                IF outcome = "success" THEN goal ELSE @]
          /\ UNCHANGED <<config, current, revisions, granted>>

RevokeToken(r) ==
    /\ r.action = "revoke"
    /\ Unlocked(<<"token", r.token>>)
    /\ \/ ReplayLifecycle(r)
       \/ /\ Settles(r, IF r.token \in granted THEN "success" ELSE "no_change")
          /\ granted' = granted \ {r.token}
          /\ UNCHANGED <<environment, config, current, revisions>>

ChangeLifecycle(r) ==
    /\ Unlocked(<<"operation", r.op>>)
    /\ ApplyConfigLifecycleChange(r) \/ ApplyEnvironmentChange(r) \/ RevokeToken(r)
    /\ UNCHANGED clientVars

-----------------------------------------------------------------------------
Step(c) ==
    \/ ReplayTransfer(c)
    \/ ReadSource(c)
    \/ ReadTarget(c)
    \/ AuthorizeScopedWrite(c)
    \/ BeginOperation(c)
    \/ ReadEnvironment(c)
    \/ FindConfig(c)
    \/ InsertConfig(c)
    \/ Deadlock(c)
    \/ LockCurrentConfig(c)
    \/ Commit(c)

Next ==
    /\ UNCHANGED workload
    /\ \/ \E c \in Clients :
             \/ \E r \in workload : Begin(c, r)
             \/ Step(c)
             \/ Abort(c)
       \/ \E r \in workload : ChangeLifecycle(r)

Spec == Init /\ [][Next]_vars

(* A request in progress goes on. InnoDB grants locks in the order they    *)
(* are asked for, so one that waits is not passed over for ever.           *)
FairSpec == Spec /\ \A c \in Clients : SF_vars(Step(c) /\ UNCHANGED workload)

-----------------------------------------------------------------------------
(* Properties.                                                             *)

(* An operation id answers for one result: whatever was answered to a      *)
(* request, at first or to a retry that ran beside it, is what is recorded *)
(* under its id, and no retry changes it.                                  *)
AnswersAreRecorded ==
    \A a \in replies : a.outcome \in Outcome => operation[a.request.op] = a

(* What a transfer writes is the revision it names, or its merge into the  *)
(* target it names, although it is read before the transaction: a restored *)
(* or replaced config and a clone are exact copies.                        *)
TransfersCopyHistory ==
    \A k \in Configs, e \in Environments :
        \A n \in 1..Len(revisions[k][e]) :
            LET row == revisions[k][e][n]
                r == operation[row.op].request
                source == revisions[r.source.config][r.source.environment] IN
            CASE r.action \in {"replace", "restore"} ->
                    row.document = source[r.source.revision].document
              [] r.action = "merge" ->
                    row.document = Merged[<<source[r.source.revision].document,
                                            revisions[k][e][r.target].document>>]
              [] r.action = "clone" ->
                    \E m \in 1..Len(source) : row.document = source[m].document
              [] OTHER -> row.document = r.document

Grows(k, e) == Len(revisions'[k][e]) > Len(revisions[k][e])

(* A config that is archived gains no revision, although a commit checks   *)
(* the archive mark several statements before it writes.                   *)
ArchivedConfigIsFrozen ==
    [][\A k \in Configs, e \in Environments : config[k] = "archived" => ~Grows(k, e)]_vars

(* "Revocation and scoped writes therefore serialize": a result of a write *)
(* is recorded only while the token that makes it is active.               *)
RevokedTokenWritesNothing ==
    [][\A o \in Operations :
          LET r == operation'[o].request IN
          /\ operation[o] = None
          /\ operation'[o] # None
          /\ r.action = "commit"
          /\ r.token # None
          => r.token \in granted]_vars

(* Mutations behave as ConfigHistory: as if each were done at one moment,  *)
(* with its expected revision right at that moment.                        *)
History == INSTANCE ConfigHistory WITH
    decided <- operation,
    existence <- config,
    history <- [k \in Configs |-> [e \in Environments |->
                  [n \in 1..Len(revisions[k][e]) |-> revisions[k][e][n].document]]]

ImplementsHistory == History!Spec

(* A statement of the documentation.                                       *)

(* "If current has changed by the time of the commit, Conflict must be     *)
(* returned": that the revision has moved is never answered by an error.   *)
MovedRevisionIsConflict ==
    \A a \in replies : a.outcome = "error" => a.revision = a.request.expected

(* No request waits for ever: not for the holder of a lock that is gone,   *)
(* nor for one that waits itself.                                          *)
RequestsEnd == \A c \in Clients : ~At(c, "idle") ~> At(c, "idle")
=============================================================================
