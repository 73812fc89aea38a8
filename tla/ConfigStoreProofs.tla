-------------------------- MODULE ConfigStoreProofs --------------------------
(***************************************************************************)
(* Proofs about ConfigStore: what an operation id was answered with is what*)
(* is recorded, transfers copy what they name, archived configs and revoked*)
(* tokens write nothing, and the statements of all transactions together   *)
(* behave as ConfigHistory, in which every mutation is one step.           *)
(*                                                                         *)
(* The locks carry the argument. A client that has begun its operation     *)
(* holds the row of the operation id, so nobody else decides it; one that  *)
(* has locked the config, or the gap it is to fill, finds the revisions as *)
(* they were until it commits; and one that writes with a token holds the  *)
(* row of the token. What a transfer has read before its transaction stays *)
(* true because histories only grow at their end.                          *)
(***************************************************************************)
EXTENDS ConfigStore, SequenceTheorems, TLAPS

Histories == [Configs -> [Environments -> Seq(RevisionRow)]]

(* From H to M, histories only grow at their end.                          *)
GrowsTo(H, M) ==
    \A k \in Configs, e \in Environments :
        /\ Len(H[k][e]) <= Len(M[k][e])
        /\ \A i \in 1..Len(H[k][e]) : M[k][e][i] = H[k][e][i]

Source(H, r) == H[r.source.config][r.source.environment]

(* d is the document that request r names as its source.                   *)
FromSource(H, r, d) ==
    /\ r.source.revision \in 1..Len(Source(H, r))
    /\ d = Source(H, r)[r.source.revision].document

(* It is the merge of that into the target that r names in config k of e.  *)
FromBoth(H, k, e, r, d) ==
    /\ r.source.revision \in 1..Len(Source(H, r))
    /\ r.target \in 1..Len(H[k][e])
    /\ d = Merged[<<Source(H, r)[r.source.revision].document, H[k][e][r.target].document>>]

(* d is what r has to write into config k of environment e.                *)
Explained(H, k, e, r, d) ==
    /\ r.action \in {"replace", "restore"} => FromSource(H, r, d)
    /\ r.action = "merge" => FromBoth(H, k, e, r, d)
    /\ r.action = "clone" => \E m \in 1..Len(Source(H, r)) : d = Source(H, r)[m].document
    /\ r.action \notin Transfers => d = r.document

(* The store. A revision belongs to an operation that has been decided and *)
(* that explains its document.                                             *)

RowOK(k, e, n) ==
    LET row == revisions[k][e][n] IN
    /\ operation[row.op] # None
    /\ Explained(revisions, k, e, operation[row.op].request, row.document)

StoreInv ==
    /\ \A k \in Configs, e \in Environments :
          /\ current[k][e] = Len(revisions[k][e])
          /\ config[k] = "absent" => Len(revisions[k][e]) = 0
          /\ \A n \in 1..Len(revisions[k][e]) : RowOK(k, e, n)
    /\ AnswersAreRecorded

(* Locks of rows are exclusive, those of gaps are shared, and no row is    *)
(* made in a gap that another transaction has locked. A token that is held *)
(* is not revoked.                                                         *)

Exclusive(c, d) ==
    /\ \A o \in Operations : <<"operation", o>> \in locks[c] => <<"operation", o>> \notin locks[d]
    /\ \A k \in Configs : <<"config", k>> \in locks[c] =>
          <<"config", k>> \notin locks[d] /\ <<"gap", k>> \notin locks[d]

LocksOK(c) ==
    /\ \A k \in Configs : <<"gap", k>> \in locks[c] => config[k] = "absent"
    /\ \A t \in Tokens : <<"token", t>> \in locks[c] => t \in granted
    /\ \A d \in Clients \ {c} : Exclusive(c, d)

(* Requests in progress.                                                   *)

HasBegun(c) == pc[c] \in {"environment", "config", "insert", "current", "commit"}

Writing(c) == pc[c] = "commit" /\ verdict[c] \in {"success", "no_change"}

(* It has the content that it is to write.                                 *)
HasContent(c) ==
    \/ pc[c] \in {"environment", "config", "insert", "current"}
    \/ pc[c] = "operation" /\ verdict[c] = None
    \/ Writing(c)

(* It has locked the config, or is making it.                              *)
HasConfig(c) == pc[c] = "current" \/ Writing(c)

VerdictOK(c) ==
    /\ pc[c] = "operation" => verdict[c] \in {None, "validation_failed"}
    /\ pc[c] = "commit" => verdict[c] \in Outcome
    /\ pc[c] \notin {"operation", "commit"} => verdict[c] = None

HoldsOK(c) ==
    LET r == req[c] IN
    /\ HasBegun(c) => <<"operation", r.op>> \in locks[c] /\ operation[r.op] = None
    /\ HasBegun(c) \/ pc[c] = "operation" =>
          (r.action = "commit" /\ r.token # None => <<"token", r.token>> \in locks[c])
    /\ pc[c] = "insert" => <<"gap", r.config>> \in locks[c]
    /\ HasConfig(c) =>
          /\ <<"config", r.config>> \in locks[c]
          /\ config[r.config] # "archived"
          /\ r.action = "clone" => config[r.config] = "absent"

ContentOK(c) ==
    LET r == req[c] IN
    /\ pc[c] = "authorize" => r.action \notin Transfers /\ doc[c] = r.document
    /\ pc[c] \in {"replay", "source"} => r.action \in Transfers
    /\ pc[c] = "target" =>
          r.action \in {"merge", "replace", "restore"} /\ FromSource(revisions, r, doc[c])
    /\ HasContent(c) => Explained(revisions, r.config, r.environment, r, doc[c])
    /\ HasContent(c) /\ pc[c] # "operation" => doc[c] # Malformed

(* The current revision is what it was when it was locked, and a conflict  *)
(* is still one.                                                           *)
DecisionOK(c) ==
    LET r == req[c]
        history == revisions[r.config][r.environment]
        n == Len(history)
        same == n > 0 /\ history[n].document = doc[c] IN
    pc[c] = "commit" =>
        /\ verdict[c] = "success" => at[c] = n /\ n = r.expected /\ ~same
        /\ verdict[c] = "no_change" => at[c] = n /\ n = r.expected /\ same
        /\ verdict[c] = "conflict" =>
              \/ r.action = "clone" /\ config[r.config] # "absent"
              \/ <<"gap", r.config>> \in locks[c] /\ r.expected # 0
              \/ <<"config", r.config>> \in locks[c] /\ n # r.expected

ClientOK(c) ==
    /\ VerdictOK(c)
    /\ pc[c] = "idle" => locks[c] = {}
    /\ pc[c] # "idle" =>
          /\ req[c] \in Requests
          /\ req[c].action \notin Lifecycle
          /\ HoldsOK(c)
          /\ ContentOK(c)
          /\ DecisionOK(c)

IInv ==
    /\ TypeOK
    /\ StoreInv
    /\ \A c \in Clients : LocksOK(c) /\ ClientOK(c)

-----------------------------------------------------------------------------
(* Types.                                                                  *)

LEMMA RequestType ==
  ASSUME NEW r \in Requests
  PROVE  /\ r \in Request
         /\ r.op \in Operations /\ r.token \in Tokens \cup {None}
         /\ r.config \in Configs /\ r.environment \in Environments
         /\ r.expected \in Nat /\ r.target \in Nat
         /\ r.document \in Documents \cup {Malformed}
         /\ r.source.config \in Configs /\ r.source.environment \in Environments
         /\ r.source.revision \in Nat
  BY ConfigAssumption DEF Request, Revision

LEMMA NoneIsNoRow ==
  /\ \A x \in OperationRow : x # None
  /\ \A x \in Outcome : x # None
  /\ \A x \in View : x # None
  BY NoneAssumption

LEMMA HistoryType ==
  ASSUME NEW H \in Histories, NEW k \in Configs, NEW e \in Environments
  PROVE  /\ H[k][e] \in Seq(RevisionRow)
         /\ Len(H[k][e]) \in Nat
         /\ \A n \in 1..Len(H[k][e]) : H[k][e][n] \in RevisionRow /\ H[k][e][n].document \in Documents
                                       /\ H[k][e][n].op \in Operations
  <1>1. H[k][e] \in Seq(RevisionRow)
    BY DEF Histories
  <1>2. ASSUME NEW n \in 1..Len(H[k][e]) PROVE H[k][e][n] \in RevisionRow
    BY <1>1
  <1> QED BY <1>1, <1>2 DEF RevisionRow

-----------------------------------------------------------------------------
(* What was read of a history stays true of it.                            *)

LEMMA GrowsItself ==
  ASSUME NEW H \in Histories
  PROVE  GrowsTo(H, H)
  BY HistoryType DEF GrowsTo

LEMMA ExplainedStays ==
  ASSUME NEW H \in Histories, NEW M \in Histories, GrowsTo(H, M),
         NEW r \in Requests, NEW d
  PROVE  /\ FromSource(H, r, d) => FromSource(M, r, d)
         /\ \A k \in Configs, e \in Environments : Explained(H, k, e, r, d) => Explained(M, k, e, r, d)
  <1>0. /\ r.source.config \in Configs /\ r.source.environment \in Environments
        /\ r.source.revision \in Nat /\ r.target \in Nat
    BY RequestType
  <1>1. /\ Len(Source(H, r)) \in Nat /\ Len(Source(M, r)) \in Nat
        /\ Len(Source(H, r)) <= Len(Source(M, r))
        /\ \A i \in 1..Len(Source(H, r)) :
              i \in 1..Len(Source(M, r)) /\ Source(M, r)[i] = Source(H, r)[i]
    <2>1. PICK k \in Configs, e \in Environments :
             k = r.source.config /\ e = r.source.environment
      BY <1>0
    <2>2. Source(H, r) = H[k][e] /\ Source(M, r) = M[k][e]
      BY <2>1 DEF Source
    <2>3. Len(H[k][e]) \in Nat /\ Len(M[k][e]) \in Nat
      BY HistoryType
    <2>4. /\ Len(H[k][e]) <= Len(M[k][e])
          /\ \A i \in 1..Len(H[k][e]) : M[k][e][i] = H[k][e][i]
      BY DEF GrowsTo
    <2> QED BY <2>2, <2>3, <2>4
  <1>2. FromSource(H, r, d) => FromSource(M, r, d)
    BY <1>1 DEF FromSource
  <1>3. ASSUME NEW k \in Configs, NEW e \in Environments, Explained(H, k, e, r, d)
        PROVE  Explained(M, k, e, r, d)
    <2>1. /\ Len(H[k][e]) \in Nat /\ Len(M[k][e]) \in Nat
          /\ Len(H[k][e]) <= Len(M[k][e])
          /\ \A i \in 1..Len(H[k][e]) : i \in 1..Len(M[k][e]) /\ M[k][e][i] = H[k][e][i]
      BY HistoryType DEF GrowsTo
    <2>2. FromBoth(H, k, e, r, d) => FromBoth(M, k, e, r, d)
      BY <1>1, <2>1 DEF FromBoth
    <2> QED BY <1>1, <1>2, <1>3, <2>2 DEF Explained
  <1> QED BY <1>2, <1>3

-----------------------------------------------------------------------------
(* A request that does not take the step itself.                           *)

Undisturbed(d) ==
    /\ pc'[d] = pc[d] /\ req'[d] = req[d] /\ doc'[d] = doc[d]
    /\ locks'[d] = locks[d] /\ at'[d] = at[d] /\ verdict'[d] = verdict[d]

LEMMA Bystander ==
  ASSUME IInv, NEW d \in Clients, Undisturbed(d),
         revisions' \in Histories, GrowsTo(revisions, revisions'),
         \A k \in Configs : config[k] # "absent" => config'[k] # "absent",
         HasBegun(d) => operation'[req[d].op] = None,
         \A k \in Configs : <<"config", k>> \in locks[d] =>
            config'[k] = config[k] /\ revisions'[k] = revisions[k]
  PROVE  ClientOK(d)'
  <1>0. /\ ClientOK(d) /\ revisions \in Histories
    BY DEF IInv, TypeOK, StoreTypeOK, Histories
  <1>1. VerdictOK(d)' /\ (pc[d] = "idle" => locks[d] = {})'
    BY <1>0 DEF ClientOK, VerdictOK, Undisturbed
  <1>2. ASSUME pc[d] # "idle"
        PROVE  HoldsOK(d)' /\ ContentOK(d)' /\ DecisionOK(d)'
    <2>0. /\ req[d] \in Requests /\ HoldsOK(d) /\ ContentOK(d) /\ DecisionOK(d)
          /\ req[d].config \in Configs /\ req[d].environment \in Environments
      BY <1>0, <1>2, RequestType DEF ClientOK
    <2>1. HoldsOK(d)'
      BY <2>0 DEF HoldsOK, HasBegun, HasConfig, Writing, Undisturbed
    <2>2. ContentOK(d)'
      BY <1>0, <2>0, ExplainedStays DEF ContentOK, HasContent, Writing, Undisturbed
    <2>3. DecisionOK(d)'
      <3>1. Writing(d) => /\ config'[req[d].config] = config[req[d].config]
                          /\ revisions'[req[d].config] = revisions[req[d].config]
        BY <2>0 DEF HoldsOK, HasConfig
      <3> QED BY <2>0, <3>1 DEF DecisionOK, Writing, Undisturbed
    <2> QED BY <2>1, <2>2, <2>3
  <1> QED BY <1>0, <1>1, <1>2 DEF ClientOK, Undisturbed

-----------------------------------------------------------------------------
(* Steps of one client that leave the store as it is.                      *)

(* What makes l grantable to c, beside what others hold being free.        *)
Grantable(c, l) ==
    /\ \A o \in Operations : l = <<"operation", o>> => Free(c, l)
    /\ \A k \in Configs : l = <<"config", k>> => Free(c, l) /\ Free(c, <<"gap", k>>)
    /\ \A k \in Configs : l = <<"gap", k>> => Free(c, <<"config", k>>) /\ config[k] = "absent"
    /\ \A t \in Tokens : l = <<"token", t>> => t \in granted

LEMMA LockGranted ==
  ASSUME IInv, NEW c \in Clients, NEW l, Lock(c, l), Grantable(c, l), UNCHANGED storeVars
  PROVE  \A d \in Clients : LocksOK(d)'
  <1>0. /\ \A d \in Clients : LocksOK(d)
        /\ locks' = [locks EXCEPT ![c] = locks[c] \cup {l}]
        /\ DOMAIN locks = Clients
        /\ config' = config /\ granted' = granted
    BY DEF IInv, TypeOK, ClientTypeOK, Lock, storeVars
  <1>1. ASSUME NEW d \in Clients PROVE LocksOK(d)'
    <2>1. (\A k \in Configs : <<"gap", k>> \in locks[d] => config[k] = "absent")'
      BY <1>0 DEF LocksOK, Grantable
    <2>2. (\A t \in Tokens : <<"token", t>> \in locks[d] => t \in granted)'
      BY <1>0 DEF LocksOK, Grantable
    <2>3. ASSUME NEW f \in Clients \ {d} PROVE Exclusive(d, f)'
      <3>1. Exclusive(d, f) /\ Exclusive(f, d)
        BY <1>0 DEF LocksOK
      <3>2. CASE d = c
        BY <1>0, <3>1, <3>2 DEF Exclusive, Grantable, Free
      <3>3. CASE f = c
        BY <1>0, <3>1, <3>3 DEF Exclusive, Grantable, Free
      <3>4. CASE d # c /\ f # c
        BY <1>0, <3>1, <3>4 DEF Exclusive
      <3> QED BY <3>2, <3>3, <3>4
    <2> QED BY <2>1, <2>2, <2>3 DEF LocksOK
  <1> QED BY <1>1

LEMMA LocksLet ==
  ASSUME IInv, NEW c \in Clients, locks' \in {locks, [locks EXCEPT ![c] = {}]}, UNCHANGED storeVars
  PROVE  \A d \in Clients : LocksOK(d)'
  <1>0. /\ \A d \in Clients : LocksOK(d)
        /\ \A d \in Clients : locks'[d] \subseteq locks[d]
        /\ config' = config /\ granted' = granted
    BY DEF IInv, TypeOK, ClientTypeOK, storeVars
  <1> QED BY <1>0 DEF LocksOK, Exclusive

(* All of the others.                                                      *)
LEMMA Bystanders ==
  ASSUME IInv, NEW c \in Clients, UNCHANGED storeVars,
         \A d \in Clients \ {c} : Undisturbed(d)
  PROVE  \A d \in Clients \ {c} : ClientOK(d)'
  <1>0. /\ revisions \in Histories /\ UNCHANGED <<revisions, config, operation>>
        /\ GrowsTo(revisions, revisions')
    BY GrowsItself DEF IInv, TypeOK, StoreTypeOK, Histories, storeVars
  <1>1. ASSUME NEW d \in Clients \ {c} PROVE HasBegun(d) => operation'[req[d].op] = None
    BY <1>0 DEF IInv, ClientOK, HoldsOK, HasBegun
  <1> QED BY <1>0, <1>1, Bystander

LEMMA StoreKept ==
  ASSUME IInv, UNCHANGED storeVars, AnswersAreRecorded'
  PROVE  StoreInv'
  BY DEF IInv, StoreInv, storeVars, RowOK

LEMMA LocalStep ==
  ASSUME IInv, NEW c \in Clients, UNCHANGED <<workload, storeVars, replies>>,
         ClientTypeOK',
         \A d \in Clients \ {c} : Undisturbed(d),
         \A d \in Clients : LocksOK(d)',
         ClientOK(c)'
  PROVE  IInv'
  <1>1. AnswersAreRecorded'
    BY DEF IInv, StoreInv, AnswersAreRecorded, storeVars
  <1>2. TypeOK'
    BY DEF IInv, TypeOK, StoreTypeOK, storeVars
  <1> QED BY <1>1, <1>2, Bystanders, StoreKept DEF IInv

(* A transaction that ends.                                                *)
LEMMA Ended ==
  ASSUME ClientTypeOK, NEW c \in Clients, End(c)
  PROVE  /\ ClientTypeOK'
         /\ \A d \in Clients \ {c} : Undisturbed(d)
         /\ ClientOK(c)' /\ locks' = [locks EXCEPT ![c] = {}]
  <1>1. /\ pc' = [pc EXCEPT ![c] = "idle"] /\ req' = [req EXCEPT ![c] = None]
        /\ doc' = [doc EXCEPT ![c] = Malformed] /\ view' = [view EXCEPT ![c] = None]
        /\ locks' = [locks EXCEPT ![c] = {}] /\ at' = [at EXCEPT ![c] = 0]
        /\ verdict' = [verdict EXCEPT ![c] = None]
    BY DEF End, Goto
  <1>2. ClientTypeOK'
    BY <1>1 DEF ClientTypeOK, Steps, Revision
  <1>3. \A d \in Clients \ {c} : Undisturbed(d)
    BY <1>1 DEF ClientTypeOK, Undisturbed
  <1>4. ClientOK(c)'
    BY <1>1 DEF ClientTypeOK, ClientOK, VerdictOK
  <1> QED BY <1>1, <1>2, <1>3, <1>4

(* It has changed nothing.                                                 *)
LEMMA EndStep ==
  ASSUME IInv, NEW c \in Clients, End(c), UNCHANGED <<workload, storeVars>>,
         replies' \subseteq Reply, AnswersAreRecorded'
  PROVE  IInv'
  <1>1. /\ ClientTypeOK' /\ ClientOK(c)' /\ locks' = [locks EXCEPT ![c] = {}]
        /\ \A d \in Clients \ {c} : Undisturbed(d)
    BY Ended DEF IInv, TypeOK
  <1>2. TypeOK'
    BY <1>1 DEF IInv, TypeOK, StoreTypeOK, storeVars
  <1> QED BY <1>1, <1>2, LocksLet, Bystanders, StoreKept DEF IInv

(* What IInv says of the client that takes a step.                         *)
LEMMA Acting ==
  ASSUME IInv, NEW c \in Clients
  PROVE  /\ ClientTypeOK /\ ClientOK(c) /\ LocksOK(c) /\ AnswersAreRecorded
         /\ revisions \in Histories /\ replies \subseteq Reply
         /\ operation \in [Operations -> OperationRow \cup {None}]
         /\ pc[c] # "idle" => /\ req[c] \in Requests /\ req[c].action \notin Lifecycle
                              /\ VerdictOK(c) /\ HoldsOK(c) /\ ContentOK(c) /\ DecisionOK(c)
  BY DEF IInv, TypeOK, StoreTypeOK, Histories, StoreInv, ClientOK

LEMMA WorkloadType ==
  ASSUME TypeOK, NEW r \in workload
  PROVE  r \in Requests
  BY DEF TypeOK, Requests

LEMMA BeginStep ==
  ASSUME IInv, NEW c \in Clients, NEW r \in workload, Begin(c, r), UNCHANGED workload
  PROVE  IInv'
  <1>0. /\ r \in Requests /\ r.document \in Documents \cup {Malformed}
    BY WorkloadType, RequestType DEF IInv
  <1>1. /\ pc[c] = "idle" /\ r.action \notin Lifecycle
        /\ pc' = [pc EXCEPT ![c] = IF r.action \in Transfers THEN "replay"
                                   ELSE IF r.token # None THEN "authorize" ELSE "operation"]
        /\ req' = [req EXCEPT ![c] = r] /\ doc' = [doc EXCEPT ![c] = r.document]
        /\ UNCHANGED <<storeVars, view, locks, at, verdict, replies>>
    BY DEF Begin, At, Goto
  <1>2. ClientTypeOK /\ ClientOK(c) /\ verdict[c] = None
    BY <1>1, Acting DEF ClientOK, VerdictOK
  <1>3. ClientTypeOK' /\ \A d \in Clients \ {c} : Undisturbed(d)
    BY <1>0, <1>1, <1>2 DEF ClientTypeOK, Steps, Undisturbed
  <1>4. /\ pc'[c] \in {"replay", "authorize", "operation"}
        /\ req'[c] = r /\ doc'[c] = r.document /\ verdict'[c] = None
        /\ r.action \in Transfers => pc'[c] = "replay"
        /\ r.action \notin Transfers => pc'[c] # "replay"
        /\ pc'[c] = "operation" => r.token = None
    BY <1>1, <1>2 DEF ClientTypeOK
  <1>5. VerdictOK(c)'
    BY <1>4 DEF VerdictOK
  <1>6. HoldsOK(c)' /\ DecisionOK(c)'
    BY <1>4 DEF HoldsOK, DecisionOK, HasBegun, HasConfig, Writing
  <1>7. ContentOK(c)'
    BY <1>4 DEF ContentOK, HasContent, Writing, Explained, Transfers
  <1>8. ClientOK(c)'
    BY <1>0, <1>1, <1>4, <1>5, <1>6, <1>7 DEF ClientOK
  <1> QED BY <1>1, <1>3, <1>8, LocksLet, LocalStep

LEMMA ReplayTransferStep ==
  ASSUME IInv, NEW c \in Clients, ReplayTransfer(c), UNCHANGED workload
  PROVE  IInv'
  <1> DEFINE row == operation[req[c].op]
  <1>0. /\ pc[c] = "replay" /\ UNCHANGED storeVars
        /\ req[c] \in Requests /\ req[c].op \in Operations
    BY Acting, RequestType DEF ReplayTransfer, At
  <1>1. CASE row # None /\ row.request = req[c]
    <2>1. Answer(req[c], row.outcome, row.revision) /\ End(c)
      BY <1>1 DEF ReplayTransfer
    <2>2. row \in OperationRow
      BY <1>0, <1>1, Acting
    <2>3. [request |-> req[c], outcome |-> row.outcome, revision |-> row.revision] = row
      BY <1>1, <2>2 DEF OperationRow
    <2>4. replies' = replies \cup {row} /\ row \in Reply
      BY <2>1, <2>2, <2>3 DEF Answer, OperationRow, Reply
    <2>5. AnswersAreRecorded' /\ replies' \subseteq Reply
      BY <1>0, <1>1, <2>4, Acting DEF AnswersAreRecorded, storeVars
    <2> QED BY <1>0, <2>1, <2>5, EndStep
  <1>2. CASE ~(row # None /\ row.request = req[c])
    <2>1. /\ pc' = [pc EXCEPT ![c] = "source"]
          /\ UNCHANGED <<req, doc, view, locks, at, verdict, replies>>
      BY <1>2 DEF ReplayTransfer, Goto
    <2>2. ClientTypeOK' /\ \A d \in Clients \ {c} : Undisturbed(d)
      BY <2>1, Acting DEF ClientTypeOK, Steps, Undisturbed
    <2>3. ClientOK(c)'
      <3>1. pc'[c] = "source" /\ VerdictOK(c) /\ ContentOK(c)
        BY <1>0, <2>1, Acting DEF ClientTypeOK
      <3>2. VerdictOK(c)'
        BY <1>0, <2>1, <3>1 DEF VerdictOK
      <3>3. HoldsOK(c)' /\ DecisionOK(c)'
        BY <3>1 DEF HoldsOK, DecisionOK, HasBegun, HasConfig, Writing
      <3>4. ContentOK(c)'
        BY <1>0, <2>1, <3>1 DEF ContentOK, HasContent, Writing
      <3> QED BY <1>0, <2>1, <3>1, <3>2, <3>3, <3>4, Acting DEF ClientOK
    <2> QED BY <1>0, <2>1, <2>2, <2>3, LocksLet, LocalStep
  <1> QED BY <1>1, <1>2

(* A transfer that goes to be recorded as a failure.                       *)
LEMMA RejectStep ==
  ASSUME IInv, NEW c \in Clients, pc[c] \in {"source", "target"}, Reject(c),
         UNCHANGED <<workload, storeVars, req, view, locks, at, replies>>
  PROVE  IInv'
  <1>1. /\ pc' = [pc EXCEPT ![c] = "operation"] /\ doc' = doc
        /\ verdict' = [verdict EXCEPT ![c] = "validation_failed"]
    BY DEF Reject, Goto
  <1>2. ClientTypeOK' /\ \A d \in Clients \ {c} : Undisturbed(d)
    BY <1>1, Acting DEF ClientTypeOK, Steps, Outcome, Undisturbed
  <1>3. /\ pc'[c] = "operation" /\ verdict'[c] = "validation_failed" /\ verdict'[c] # None
        /\ req'[c] = req[c] /\ req[c] \in Requests /\ req[c].action \notin Lifecycle
        /\ req[c].action \in Transfers
    BY <1>1, Acting, NoneIsNoRow DEF ClientTypeOK, ContentOK, Transfers, Outcome
  <1>4. VerdictOK(c)' /\ HoldsOK(c)' /\ DecisionOK(c)' /\ ContentOK(c)'
    BY <1>3 DEF VerdictOK, HoldsOK, DecisionOK, ContentOK, HasBegun, HasConfig, HasContent,
                Writing, Transfers
  <1>5. ClientOK(c)'
    BY <1>3, <1>4 DEF ClientOK
  <1> QED BY <1>2, <1>5, LocksLet, LocalStep

LEMMA ReadSourceStep ==
  ASSUME IInv, NEW c \in Clients, ReadSource(c), UNCHANGED workload
  PROVE  IInv'
  <1> DEFINE r == req[c]
             s == r.source
             n == SourceRevision(r)
  <1>0. /\ pc[c] = "source" /\ UNCHANGED <<storeVars, req, view, locks, at, replies>>
        /\ r \in Requests /\ r.action \in Transfers
        /\ s.config \in Configs /\ s.environment \in Environments
    BY Acting, RequestType DEF ReadSource, At, ContentOK
  <1>1. CASE ~Available(s.config, s.environment, n)
    <2>1. Reject(c)
      BY <1>1 DEF ReadSource
    <2> QED BY <1>0, <2>1, RejectStep
  <1>2. CASE Available(s.config, s.environment, n)
    <2> DEFINE d == Source(revisions, r)[n].document
    <2>1. /\ doc' = [doc EXCEPT ![c] = d] /\ verdict' = verdict
          /\ pc' = [pc EXCEPT ![c] = IF r.action = "clone" THEN "operation" ELSE "target"]
      BY <1>2 DEF ReadSource, Goto, Source
    <2>2. /\ n \in 1..Len(Source(revisions, r)) /\ d \in Documents
      BY <1>0, <1>2, Acting, HistoryType DEF Available, Source
    <2>3. r.action # "clone" => n = r.source.revision
      BY DEF SourceRevision
    <2> HIDE DEF d, n
    <2>4. ClientTypeOK' /\ \A f \in Clients \ {c} : Undisturbed(f)
      BY <1>0, <2>1, <2>2, Acting DEF ClientTypeOK, Steps, Undisturbed
    <2>5. /\ pc'[c] \in {"operation", "target"} /\ req'[c] = r /\ doc'[c] = d /\ verdict'[c] = None
          /\ pc'[c] = "operation" <=> r.action = "clone"
      BY <1>0, <2>1, Acting DEF ClientTypeOK, VerdictOK
    <2>6. VerdictOK(c)' /\ HoldsOK(c)' /\ DecisionOK(c)'
      BY <1>0, <2>5 DEF VerdictOK, HoldsOK, DecisionOK, HasBegun, HasConfig, Writing, Transfers
    <2>7. revisions' = revisions
      BY <1>0 DEF storeVars
    <2>8. r.action # "clone" => FromSource(revisions, r, d)
      BY <2>2, <2>3 DEF FromSource, d, n
    <2>9. r.action = "clone" => Explained(revisions, r.config, r.environment, r, d)
      BY <1>0, <2>2 DEF Explained, d, n
    <2>10. ContentOK(c)'
      BY <1>0, <2>5, <2>7, <2>8, <2>9 DEF ContentOK, HasContent, Writing, Transfers
    <2>11. ClientOK(c)'
      BY <1>0, <2>5, <2>6, <2>10, Acting DEF ClientOK
    <2> QED BY <1>0, <2>4, <2>11, LocksLet, LocalStep
  <1> QED BY <1>1, <1>2

LEMMA ReadTargetStep ==
  ASSUME IInv, NEW c \in Clients, ReadTarget(c), UNCHANGED workload
  PROVE  IInv'
  <1> DEFINE r == req[c]
             merged == Merged[<<doc[c], revisions[r.config][r.environment][r.target].document>>]
  <1>0. /\ pc[c] = "target" /\ UNCHANGED <<storeVars, req, view, locks, at, replies>>
        /\ r \in Requests /\ r.action \in {"merge", "replace", "restore"}
        /\ r.config \in Configs /\ r.environment \in Environments
        /\ FromSource(revisions, r, doc[c]) /\ verdict[c] = None
    BY Acting, RequestType DEF ReadTarget, At, ContentOK, VerdictOK
  <1>1. \/ Reject(c)
        \/ /\ pc' = [pc EXCEPT ![c] = "operation"] /\ doc' = doc /\ verdict' = verdict
           /\ r.action # "merge"
        \/ /\ pc' = [pc EXCEPT ![c] = "operation"] /\ verdict' = verdict
           /\ doc' = [doc EXCEPT ![c] = merged]
           /\ r.action = "merge" /\ merged # Malformed
           /\ Available(r.config, r.environment, r.target)
    <2> HIDE DEF merged
    <2>0. doc \in [Clients -> Documents \cup {Malformed}]
      BY Acting DEF ClientTypeOK
    <2>1. CASE CreatesTarget(r)
      <3>1. r.action # "merge"
        BY <2>1 DEF CreatesTarget
      <3>2. Goto(c, "operation") /\ UNCHANGED <<doc, verdict>>
        BY <2>1 DEF ReadTarget
      <3> QED BY <3>1, <3>2 DEF Goto
    <2>2. CASE ~CreatesTarget(r) /\ ~(r.expected # 0 /\ Available(r.config, r.environment, r.target))
      BY <2>2 DEF ReadTarget
    <2>3. CASE ~CreatesTarget(r) /\ r.expected # 0 /\ Available(r.config, r.environment, r.target)
      <3>1. IF r.action = "merge" /\ merged = Malformed THEN Reject(c)
            ELSE /\ doc' = [doc EXCEPT ![c] = IF r.action = "merge" THEN merged ELSE doc[c]]
                 /\ pc' = [pc EXCEPT ![c] = "operation"]
                 /\ verdict' = verdict
        BY <2>3 DEF ReadTarget, Goto, merged
      <3>2. [doc EXCEPT ![c] = doc[c]] = doc
        BY <2>0
      <3> QED BY <2>3, <3>1, <3>2
    <2> QED BY <2>1, <2>2, <2>3
  <1>2. CASE Reject(c)
    BY <1>0, <1>2, RejectStep
  <1>3. ASSUME pc' = [pc EXCEPT ![c] = "operation"], verdict' = verdict,
               NEW d \in Documents \cup {Malformed}, doc' = [doc EXCEPT ![c] = d],
               Explained(revisions, r.config, r.environment, r, d)
        PROVE  IInv'
    <2>1. ClientTypeOK' /\ \A f \in Clients \ {c} : Undisturbed(f)
      BY <1>0, <1>3, Acting DEF ClientTypeOK, Steps, Undisturbed
    <2>2. pc'[c] = "operation" /\ req'[c] = r /\ doc'[c] = d /\ verdict'[c] = None
      BY <1>0, <1>3, Acting DEF ClientTypeOK
    <2>3. VerdictOK(c)' /\ HoldsOK(c)' /\ DecisionOK(c)'
      BY <1>0, <2>2 DEF VerdictOK, HoldsOK, DecisionOK, HasBegun, HasConfig, Writing
    <2>4. revisions' = revisions
      BY <1>0 DEF storeVars
    <2>5. ContentOK(c)'
      BY <1>3, <2>2, <2>4 DEF ContentOK, HasContent, Writing
    <2>6. ClientOK(c)'
      BY <1>0, <2>2, <2>3, <2>5, Acting DEF ClientOK
    <2> QED BY <1>0, <2>1, <2>6, LocksLet, LocalStep
  <1>4. CASE /\ pc' = [pc EXCEPT ![c] = "operation"] /\ doc' = doc /\ verdict' = verdict
             /\ r.action # "merge"
    <2>1. doc[c] \in Documents \cup {Malformed} /\ doc' = [doc EXCEPT ![c] = doc[c]]
      BY <1>4, Acting DEF ClientTypeOK
    <2>2. Explained(revisions, r.config, r.environment, r, doc[c])
      BY <1>0, <1>4 DEF Explained, Transfers
    <2> QED BY <1>3, <1>4, <2>1, <2>2
  <1>5. CASE /\ pc' = [pc EXCEPT ![c] = "operation"] /\ verdict' = verdict
             /\ doc' = [doc EXCEPT ![c] = merged]
             /\ r.action = "merge" /\ merged # Malformed
             /\ Available(r.config, r.environment, r.target)
    <2> DEFINE t == revisions[r.config][r.environment][r.target].document
    <2>1. r.target \in 1..Len(revisions[r.config][r.environment]) /\ t \in Documents
      BY <1>0, <1>5, Acting, HistoryType DEF Available
    <2>2. /\ r.source.revision \in 1..Len(Source(revisions, r))
          /\ doc[c] = Source(revisions, r)[r.source.revision].document
          /\ doc[c] \in Documents
      <3>1. r.source.config \in Configs /\ r.source.environment \in Environments
        BY <1>0, RequestType
      <3>2. \A i \in 1..Len(Source(revisions, r)) : Source(revisions, r)[i].document \in Documents
        BY <3>1, Acting, HistoryType DEF Source
      <3> QED BY <1>0, <3>2 DEF FromSource
    <2> HIDE DEF t
    <2>3. Merged[<<doc[c], t>>] \in Documents \cup {Malformed}
      BY <2>1, <2>2, ConfigAssumption
    <2>4. Explained(revisions, r.config, r.environment, r, merged)
      BY <1>5, <2>1, <2>2 DEF Explained, FromBoth, Transfers
    <2> QED BY <1>3, <1>5, <2>3, <2>4 DEF t
  <1> QED BY <1>1, <1>2, <1>4, <1>5

LEMMA AuthorizeStep ==
  ASSUME IInv, NEW c \in Clients, AuthorizeScopedWrite(c), UNCHANGED workload
  PROVE  IInv'
  <1> DEFINE r == req[c]
  <1>0. /\ pc[c] = "authorize" /\ UNCHANGED <<storeVars, replies>> /\ ClientTypeOK
        /\ r \in Requests /\ r.action \notin Transfers /\ doc[c] = r.document /\ verdict[c] = None
    BY Acting DEF AuthorizeScopedWrite, At, ContentOK, VerdictOK
  <1>1. CASE End(c)
    <2>1. AnswersAreRecorded' /\ replies' \subseteq Reply
      BY <1>0, Acting DEF AnswersAreRecorded, storeVars
    <2> QED BY <1>0, <1>1, <2>1, EndStep
  <1>2. CASE ~End(c)
    <2>1. /\ r.token \in granted /\ Lock(c, <<"token", r.token>>)
          /\ view' = [view EXCEPT ![c] = Snapshot(c)] /\ pc' = [pc EXCEPT ![c] = "operation"]
          /\ UNCHANGED <<req, doc, at, verdict>>
      BY <1>2 DEF AuthorizeScopedWrite, HoldToken, Goto
    <2>2. /\ Snapshot(c) \in View /\ r.token \in Tokens
      BY <1>0, <2>1 DEF IInv, TypeOK, StoreTypeOK, ClientTypeOK, Snapshot, View
    <2>3. locks' = [locks EXCEPT ![c] = locks[c] \cup {<<"token", r.token>>}]
      BY <2>1 DEF Lock
    <2>4. ClientTypeOK' /\ \A f \in Clients \ {c} : Undisturbed(f)
      BY <1>0, <2>1, <2>2, <2>3 DEF ClientTypeOK, Steps, Locks, Undisturbed
    <2>5. Grantable(c, <<"token", r.token>>)
      BY <2>1 DEF Grantable
    <2>6. /\ pc'[c] = "operation" /\ req'[c] = r /\ doc'[c] = doc[c] /\ verdict'[c] = None
          /\ <<"token", r.token>> \in locks'[c]
      BY <1>0, <2>1, <2>3 DEF ClientTypeOK
    <2>7. VerdictOK(c)' /\ HoldsOK(c)' /\ DecisionOK(c)'
      BY <2>6 DEF VerdictOK, HoldsOK, DecisionOK, HasBegun, HasConfig, Writing
    <2>8. ContentOK(c)'
      BY <1>0, <2>6 DEF ContentOK, HasContent, Writing, Explained, Transfers
    <2>9. ClientOK(c)'
      BY <1>0, <2>6, <2>7, <2>8, Acting DEF ClientOK
    <2> QED BY <1>0, <2>1, <2>4, <2>5, <2>9, LockGranted, LocalStep
  <1> QED BY <1>1, <1>2

(* A request goes on.                                                      *)
LEMMA GoesOn ==
  ASSUME IInv, NEW c \in Clients, pc[c] # "idle", pc'[c] # "idle", req'[c] = req[c],
         UNCHANGED <<workload, storeVars, replies>>, ClientTypeOK',
         \A d \in Clients \ {c} : Undisturbed(d), \A d \in Clients : LocksOK(d)',
         VerdictOK(c)', HoldsOK(c)', ContentOK(c)', DecisionOK(c)'
  PROVE  IInv'
  <1>1. ClientOK(c)'
    BY Acting DEF ClientOK
  <1> QED BY <1>1, LocalStep

LEMMA BeginOperationStep ==
  ASSUME IInv, NEW c \in Clients, BeginOperation(c), UNCHANGED workload
  PROVE  IInv'
  <1> DEFINE r == req[c]
             row == operation[r.op]
  <1>0. /\ pc[c] = "operation" /\ UNCHANGED storeVars /\ ClientTypeOK
        /\ r \in Requests /\ r.op \in Operations /\ Free(c, <<"operation", r.op>>)
        /\ verdict[c] \in {None, "validation_failed"}
    BY Acting, RequestType DEF BeginOperation, At, VerdictOK
  <1>1. CASE row # None
    <2>1. /\ End(c)
          /\ \/ r = row.request /\ Answer(r, row.outcome, row.revision)
             \/ replies' = replies
      BY <1>1 DEF BeginOperation, SameRequest
    <2>2. row \in OperationRow
      BY <1>0, <1>1, Acting
    <2>3. r = row.request =>
             [request |-> r, outcome |-> row.outcome, revision |-> row.revision] = row
      BY <2>2 DEF OperationRow
    <2>4. /\ row \in Reply
          /\ replies' = replies \/ (replies' = replies \cup {row} /\ r = row.request)
      BY <2>1, <2>2, <2>3 DEF Answer, OperationRow, Reply
    <2>5. AnswersAreRecorded' /\ replies' \subseteq Reply
      BY <1>0, <1>1, <2>4, Acting DEF AnswersAreRecorded, storeVars
    <2> QED BY <1>0, <2>1, <2>5, EndStep
  <1>2. CASE row = None
    <2>1. /\ Lock(c, <<"operation", r.op>>)
          /\ IF verdict[c] # None THEN Goto(c, "commit") /\ verdict' = verdict
             ELSE IF doc[c] = Malformed THEN Conclude(c, "validation_failed")
             ELSE Goto(c, "environment") /\ verdict' = verdict
          /\ UNCHANGED <<req, doc, view, at, replies>>
      BY <1>2 DEF BeginOperation, HoldOperation
    <2>2. locks' = [locks EXCEPT ![c] = locks[c] \cup {<<"operation", r.op>>}]
      BY <2>1 DEF Lock
    <2>3. \/ /\ pc' = [pc EXCEPT ![c] = "commit"]
             /\ verdict' = [verdict EXCEPT ![c] = "validation_failed"]
          \/ /\ pc' = [pc EXCEPT ![c] = "environment"] /\ verdict' = verdict
             /\ verdict[c] = None /\ doc[c] # Malformed
      BY <1>0, <2>1 DEF Conclude, Goto, ClientTypeOK
    <2>4. ClientTypeOK' /\ \A d \in Clients \ {c} : Undisturbed(d)
      BY <1>0, <2>1, <2>2, <2>3 DEF ClientTypeOK, Steps, Outcome, Locks, Undisturbed
    <2>5. Grantable(c, <<"operation", r.op>>)
      BY <1>0 DEF Grantable
    <2>6. /\ req'[c] = r /\ doc'[c] = doc[c] /\ locks'[c] = locks[c] \cup {<<"operation", r.op>>}
          /\ \/ pc'[c] = "commit" /\ verdict'[c] = "validation_failed"
             \/ pc'[c] = "environment" /\ verdict'[c] = None /\ verdict[c] = None
                /\ doc[c] # Malformed
          /\ operation' = operation /\ revisions' = revisions
      BY <1>0, <2>1, <2>2, <2>3 DEF ClientTypeOK, storeVars
    <2>7. VerdictOK(c)' /\ DecisionOK(c)'
      BY <2>6 DEF VerdictOK, DecisionOK, Outcome
    <2>8. HoldsOK(c)'
      BY <1>0, <1>2, <2>6, Acting DEF HoldsOK, HasBegun, HasConfig, Writing
    <2>9. ContentOK(c)'
      BY <1>0, <2>6, Acting DEF ContentOK, HasContent, Writing
    <2> QED BY <1>0, <2>1, <2>4, <2>5, <2>6, <2>7, <2>8, <2>9, LockGranted, GoesOn
  <1> QED BY <1>1, <1>2

LEMMA ReadEnvironmentStep ==
  ASSUME IInv, NEW c \in Clients, ReadEnvironment(c), UNCHANGED workload
  PROVE  IInv'
  <1> DEFINE r == req[c]
  <1>0. /\ pc[c] = "environment" /\ ClientTypeOK /\ verdict[c] = None
        /\ UNCHANGED <<storeVars, req, doc, locks, at, replies>>
        /\ view' = [view EXCEPT ![c] = Snapshot(c)]
    BY Acting DEF ReadEnvironment, At, VerdictOK
  <1>1. \/ pc' = [pc EXCEPT ![c] = "config"] /\ verdict' = verdict
        \/ pc' = [pc EXCEPT ![c] = "commit"] /\ verdict' = [verdict EXCEPT ![c] = "validation_failed"]
    BY DEF ReadEnvironment, Conclude, Goto
  <1>2. Snapshot(c) \in View
    BY <1>0 DEF IInv, TypeOK, StoreTypeOK, ClientTypeOK, Snapshot, View
  <1>3. ClientTypeOK' /\ \A d \in Clients \ {c} : Undisturbed(d)
    BY <1>0, <1>1, <1>2 DEF ClientTypeOK, Steps, Outcome, Undisturbed
  <1>4. /\ \/ pc'[c] = "config" /\ verdict'[c] = None
           \/ pc'[c] = "commit" /\ verdict'[c] = "validation_failed"
        /\ operation' = operation /\ revisions' = revisions
    BY <1>0, <1>1 DEF ClientTypeOK, storeVars
  <1>5. VerdictOK(c)' /\ DecisionOK(c)'
    BY <1>4 DEF VerdictOK, DecisionOK, Outcome
  <1>6. HoldsOK(c)'
    BY <1>0, <1>4, Acting DEF HoldsOK, HasBegun, HasConfig, Writing
  <1>7. ContentOK(c)'
    BY <1>0, <1>4, Acting DEF ContentOK, HasContent, Writing
  <1> QED BY <1>0, <1>3, <1>4, <1>5, <1>6, <1>7, LocksLet, GoesOn

(* What a lock on the config's row says of others, and one on its gap.     *)
LEMMA ConfigGrantable ==
  ASSUME IInv, NEW c \in Clients, NEW k \in Configs, Free(c, <<"config", k>>)
  PROVE  /\ config[k] # "absent" => Grantable(c, <<"config", k>>)
         /\ config[k] = "absent" => Grantable(c, <<"gap", k>>)
  BY DEF IInv, LocksOK, Grantable, Free

LEMMA FindConfigStep ==
  ASSUME IInv, NEW c \in Clients, FindConfig(c), UNCHANGED workload
  PROVE  IInv'
  <1> DEFINE r == req[c]
             k == r.config
             l == IF config[k] = "absent" THEN <<"gap", k>> ELSE <<"config", k>>
  <1>0. /\ pc[c] = "config" /\ ClientTypeOK /\ verdict[c] = None
        /\ UNCHANGED <<storeVars, req, doc, view, at, replies>>
        /\ r \in Requests /\ k \in Configs /\ r.environment \in Environments
        /\ Free(c, <<"config", k>>) /\ Lock(c, l)
    BY Acting, RequestType DEF FindConfig, At, VerdictOK, LockConfig
  <1>1. \/ /\ config[k] # "absent" /\ r.action = "clone"
           /\ pc' = [pc EXCEPT ![c] = "commit"] /\ verdict' = [verdict EXCEPT ![c] = "conflict"]
        \/ /\ pc' = [pc EXCEPT ![c] = "commit"]
           /\ verdict' = [verdict EXCEPT ![c] = "validation_failed"]
        \/ /\ config[k] = "active" /\ r.action # "clone"
           /\ pc' = [pc EXCEPT ![c] = "current"] /\ verdict' = verdict
        \/ /\ config[k] = "absent" /\ r.expected # 0
           /\ pc' = [pc EXCEPT ![c] = "commit"] /\ verdict' = [verdict EXCEPT ![c] = "conflict"]
        \/ /\ config[k] = "absent"
           /\ pc' = [pc EXCEPT ![c] = "insert"] /\ verdict' = verdict
    BY DEF FindConfig, Conclude, Goto
  <1> HIDE DEF l
  <1>2. locks' = [locks EXCEPT ![c] = locks[c] \cup {l}] /\ l \in Locks
    BY <1>0 DEF Lock, Locks, l
  <1>3. Grantable(c, l)
    BY <1>0, ConfigGrantable DEF l
  <1>4. ClientTypeOK' /\ \A d \in Clients \ {c} : Undisturbed(d)
    BY <1>0, <1>1, <1>2 DEF ClientTypeOK, Steps, Outcome, Undisturbed
  <1>5. /\ locks'[c] = locks[c] \cup {l} /\ req'[c] = r /\ doc'[c] = doc[c]
        /\ operation' = operation /\ revisions' = revisions /\ config' = config
        /\ \/ /\ pc'[c] = "commit" /\ verdict'[c] = "conflict"
              /\ (config[k] # "absent" /\ r.action = "clone") \/ (config[k] = "absent" /\ r.expected # 0)
           \/ pc'[c] = "commit" /\ verdict'[c] = "validation_failed"
           \/ pc'[c] = "current" /\ verdict'[c] = None /\ config[k] = "active" /\ r.action # "clone"
           \/ pc'[c] = "insert" /\ verdict'[c] = None /\ config[k] = "absent"
    BY <1>0, <1>1, <1>2 DEF ClientTypeOK, storeVars
  <1>6. VerdictOK(c)'
    BY <1>5 DEF VerdictOK, Outcome
  <1>7. DecisionOK(c)'
    BY <1>5 DEF DecisionOK, l
  <1>8. HoldsOK(c)'
    BY <1>0, <1>5, Acting DEF HoldsOK, HasBegun, HasConfig, Writing, l
  <1>9. ContentOK(c)'
    BY <1>0, <1>5, Acting DEF ContentOK, HasContent, Writing
  <1>10. pc'[c] # "idle"
    BY <1>5
  <1> QED BY <1>0, <1>3, <1>4, <1>5, <1>6, <1>7, <1>8, <1>9, <1>10, LockGranted, GoesOn

LEMMA InsertConfigStep ==
  ASSUME IInv, NEW c \in Clients, InsertConfig(c), UNCHANGED workload
  PROVE  IInv'
  <1> DEFINE r == req[c]
             k == r.config
             l == <<"config", k>>
  <1>0. /\ pc[c] = "insert" /\ ClientTypeOK /\ verdict[c] = None
        /\ UNCHANGED <<storeVars, req, doc, view, at, verdict, replies>>
        /\ r \in Requests /\ k \in Configs
        /\ Free(c, <<"gap", k>>) /\ Lock(c, l)
        /\ pc' = [pc EXCEPT ![c] = "current"]
        /\ <<"gap", k>> \in locks[c]
    BY Acting, RequestType DEF InsertConfig, At, VerdictOK, Goto, HoldsOK
  <1>1. locks' = [locks EXCEPT ![c] = locks[c] \cup {l}]
    BY <1>0 DEF Lock
  <1>2. config[k] = "absent" /\ Free(c, l)
    BY <1>0 DEF IInv, LocksOK, Exclusive, Free
  <1>3. Grantable(c, l)
    BY <1>0, <1>2 DEF Grantable
  <1>4. ClientTypeOK' /\ \A d \in Clients \ {c} : Undisturbed(d)
    BY <1>0, <1>1 DEF ClientTypeOK, Steps, Locks, Undisturbed
  <1>5. /\ pc'[c] = "current" /\ verdict'[c] = None /\ locks'[c] = locks[c] \cup {l}
        /\ operation' = operation /\ revisions' = revisions /\ config' = config
    BY <1>0, <1>1 DEF ClientTypeOK, storeVars
  <1>6. VerdictOK(c)' /\ DecisionOK(c)'
    BY <1>5 DEF VerdictOK, DecisionOK
  <1>7. HoldsOK(c)'
    BY <1>0, <1>2, <1>5, Acting DEF HoldsOK, HasBegun, HasConfig, Writing
  <1>8. ContentOK(c)'
    BY <1>0, <1>5, Acting DEF ContentOK, HasContent, Writing
  <1> QED BY <1>0, <1>3, <1>4, <1>5, <1>6, <1>7, <1>8, LockGranted, GoesOn

LEMMA LockCurrentConfigStep ==
  ASSUME IInv, NEW c \in Clients, LockCurrentConfig(c), UNCHANGED workload
  PROVE  IInv'
  <1> DEFINE r == req[c]
             history == revisions[r.config][r.environment]
             n == current[r.config][r.environment]
  <1>1. /\ pc[c] = "current" /\ ClientTypeOK /\ verdict[c] = None /\ UNCHANGED storeVars
        /\ r \in Requests /\ <<"config", r.config>> \in locks[c]
    BY Acting DEF LockCurrentConfig, At, VerdictOK, HoldsOK, HasConfig
  <1>2. r.config \in Configs /\ r.environment \in Environments
    BY <1>1, RequestType
  <1>3. n = Len(history) /\ n \in Nat
    BY <1>2, Acting, HistoryType DEF IInv, StoreInv
  <1>4. CASE End(c) /\ Answer(r, "error", n)
    <2>1. replies' = replies \cup {[request |-> r, outcome |-> "error", revision |-> n]}
      BY <1>4 DEF Answer
    <2>2. AnswersAreRecorded' /\ replies' \subseteq Reply
      BY <1>1, <1>2, <1>3, <2>1, Acting DEF AnswersAreRecorded, Reply, Outcome, Revision, storeVars
    <2> QED BY <1>1, <1>2, <1>3, <1>4, <2>2, EndStep
  <1>5. CASE ~(End(c) /\ Answer(r, "error", n))
    <2> DEFINE v == Decision(r, doc[c])
    <2>1. /\ at' = [at EXCEPT ![c] = n]
          /\ pc' = [pc EXCEPT ![c] = "commit"] /\ verdict' = [verdict EXCEPT ![c] = v]
          /\ UNCHANGED <<req, doc, view, locks, replies>>
      BY <1>5 DEF LockCurrentConfig, Conclude, Goto
    <2>2. /\ v \in {"success", "no_change", "conflict"}
          /\ v = "conflict" => r.expected # n
          /\ v # "conflict" => r.expected = n
          /\ v = "no_change" => n > 0 /\ history[n].document = doc[c]
          /\ v = "success" => ~(n > 0 /\ history[n].document = doc[c])
      BY DEF Decision, LastDocument
    <2> HIDE DEF v, n
    <2>3. ClientTypeOK' /\ \A d \in Clients \ {c} : Undisturbed(d)
      BY <1>1, <1>2, <1>3, <2>1, <2>2 DEF ClientTypeOK, Steps, Outcome, Undisturbed, Revision
    <2>4. /\ pc'[c] = "commit" /\ verdict'[c] = v /\ at'[c] = n
          /\ req'[c] = r /\ doc'[c] = doc[c] /\ locks'[c] = locks[c]
          /\ operation' = operation /\ revisions' = revisions /\ config' = config
      BY <1>1, <1>2, <1>3, <2>1 DEF ClientTypeOK, storeVars
    <2>5. VerdictOK(c)'
      BY <2>2, <2>4 DEF VerdictOK, Outcome
    <2>6. DecisionOK(c)'
      BY <1>1, <1>2, <1>3, <2>2, <2>4 DEF DecisionOK
    <2>7. HoldsOK(c)'
      BY <1>1, <1>2, <1>3, <2>4, Acting DEF HoldsOK, HasBegun, HasConfig, Writing
    <2>8. ContentOK(c)'
      BY <1>1, <1>2, <1>3, <2>4, Acting DEF ContentOK, HasContent, Writing
    <2> QED BY <1>1, <1>2, <1>3, <2>1, <2>3, <2>4, <2>5, <2>6, <2>7, <2>8, LocksLet, GoesOn
  <1> QED BY <1>4, <1>5

(* A deadlock, a crash, a lost connection.                                 *)
LEMMA FailedStep ==
  ASSUME IInv, NEW c \in Clients, Deadlock(c) \/ Abort(c), UNCHANGED workload
  PROVE  IInv'
  <1>1. End(c) /\ UNCHANGED <<storeVars, replies>>
    BY DEF Deadlock, Abort
  <1>2. AnswersAreRecorded' /\ replies' \subseteq Reply
    BY <1>1, Acting DEF AnswersAreRecorded, storeVars
  <1> QED BY <1>1, <1>2, EndStep


-----------------------------------------------------------------------------
(* Steps that change the store.                                            *)

(* A result is recorded, and answered, for an operation id that has none.  *)
LEMMA Recorded ==
  ASSUME IInv, NEW row \in OperationRow, operation[row.request.op] = None,
         operation' = [operation EXCEPT ![row.request.op] = row],
         replies' = replies \cup {row}
  PROVE  /\ operation' \in [Operations -> OperationRow \cup {None}]
         /\ operation'[row.request.op] = row
         /\ replies' \subseteq Reply
         /\ AnswersAreRecorded'
         /\ \A o \in Operations : operation[o] # None => operation'[o] = operation[o]
         /\ \A d \in Clients : HasBegun(d) /\ <<"operation", row.request.op>> \notin locks[d]
                               => operation'[req[d].op] = None
  <1> DEFINE o == row.request.op
  <1>0. /\ operation \in [Operations -> OperationRow \cup {None}] /\ replies \subseteq Reply
        /\ o \in Operations /\ AnswersAreRecorded
    BY RequestType DEF IInv, TypeOK, StoreTypeOK, StoreInv, OperationRow
  <1>1. row \in Reply
    BY DEF OperationRow, Reply
  <1>2. ASSUME NEW a \in replies, a.outcome \in Outcome
        PROVE  a.request.op \in Operations /\ a.request.op # o
    <2>1. a \in Reply /\ operation[a.request.op] = a
      BY <1>0, <1>2 DEF AnswersAreRecorded
    <2>2. a \in OperationRow
      BY <1>2, <2>1 DEF Reply, OperationRow
    <2> QED BY <2>1, <2>2, NoneIsNoRow, RequestType DEF OperationRow
  <1>3. AnswersAreRecorded'
    BY <1>0, <1>2 DEF AnswersAreRecorded
  <1>4. ASSUME NEW d \in Clients, HasBegun(d), <<"operation", o>> \notin locks[d]
        PROVE  operation'[req[d].op] = None
    <2>1. req[d] \in Requests /\ HoldsOK(d)
      BY <1>4, Acting DEF HasBegun
    <2>2. <<"operation", req[d].op>> \in locks[d] /\ operation[req[d].op] = None
      BY <1>4, <2>1 DEF HoldsOK
    <2>3. req[d].op \in Operations /\ req[d].op # o
      BY <1>4, <2>1, <2>2, RequestType
    <2> QED BY <1>0, <2>2, <2>3
  <1> QED BY <1>0, <1>1, <1>3, <1>4

(* The revisions that are there stay explained.                            *)
LEMMA RowsKept ==
  ASSUME IInv, revisions' \in Histories, GrowsTo(revisions, revisions'),
         \A o \in Operations : operation[o] # None => operation'[o] = operation[o],
         NEW k \in Configs, NEW e \in Environments, NEW n \in 1..Len(revisions[k][e])
  PROVE  RowOK(k, e, n)'
  <1> DEFINE row == revisions[k][e][n]
             r == operation[row.op].request
  <1>0. /\ revisions \in Histories /\ operation \in [Operations -> OperationRow \cup {None}]
        /\ RowOK(k, e, n)
    BY DEF IInv, TypeOK, StoreTypeOK, StoreInv, Histories
  <1>1. /\ row.op \in Operations /\ operation[row.op] # None
        /\ Explained(revisions, k, e, r, row.document)
    BY <1>0, HistoryType DEF RowOK
  <1>2. r \in Requests
    BY <1>0, <1>1 DEF OperationRow
  <1>3. revisions'[k][e][n] = row /\ operation'[row.op] = operation[row.op]
    BY <1>1 DEF GrowsTo
  <1>4. Explained(revisions', k, e, r, row.document)
    BY <1>0, <1>1, <1>2, ExplainedStays
  <1> QED BY <1>1, <1>3, <1>4 DEF RowOK

(* A revision is added to a history.                                       *)
Extend(H, k, e, x) == [H EXCEPT ![k][e] = Append(H[k][e], x)]

LEMMA Extended ==
  ASSUME NEW H \in Histories, NEW k \in Configs, NEW e \in Environments, NEW x \in RevisionRow,
         NEW M, M = Extend(H, k, e, x)
  PROVE  /\ M \in Histories /\ GrowsTo(H, M)
         /\ Len(M[k][e]) = Len(H[k][e]) + 1 /\ M[k][e][Len(H[k][e]) + 1] = x
         /\ \A l \in Configs \ {k} : M[l] = H[l]
         /\ \A f \in Environments \ {e} : M[k][f] = H[k][f]
  <1>1. /\ H[k][e] \in Seq(RevisionRow) /\ Append(H[k][e], x) \in Seq(RevisionRow)
        /\ H[k] \in [Environments -> Seq(RevisionRow)]
    BY DEF Histories
  <1>2. /\ M[k] = [H[k] EXCEPT ![e] = Append(H[k][e], x)]
        /\ \A l \in Configs \ {k} : M[l] = H[l]
    BY DEF Histories, Extend
  <1>3. /\ M[k][e] = Append(H[k][e], x)
        /\ \A f \in Environments \ {e} : M[k][f] = H[k][f]
    BY <1>1, <1>2
  <1>4. M \in Histories
    BY <1>1, <1>2 DEF Histories, Extend
  <1>5. /\ Len(M[k][e]) = Len(H[k][e]) + 1 /\ M[k][e][Len(H[k][e]) + 1] = x
        /\ \A i \in 1..Len(H[k][e]) : M[k][e][i] = H[k][e][i]
    BY <1>1, <1>3
  <1>6. ASSUME NEW l \in Configs, NEW f \in Environments
        PROVE  /\ Len(H[l][f]) <= Len(M[l][f])
               /\ \A i \in 1..Len(H[l][f]) : M[l][f][i] = H[l][f][i]
    <2>1. CASE l = k /\ f = e
      BY <1>1, <1>5, <2>1
    <2>2. CASE ~(l = k /\ f = e)
      <3>1. M[l][f] = H[l][f]
        BY <1>2, <1>3, <2>2
      <3> QED BY <3>1, HistoryType
    <2> QED BY <2>1, <2>2
  <1> QED BY <1>2, <1>3, <1>4, <1>5, <1>6 DEF GrowsTo

LEMMA CommitStep ==
  ASSUME IInv, NEW c \in Clients, Commit(c), UNCHANGED workload
  PROVE  IInv'
  <1> DEFINE r == req[c]
             k == r.config
             e == r.environment
             history == revisions[k][e]
             n == CASE verdict[c] = "success" -> at[c] + 1
                    [] verdict[c] = "no_change" -> at[c]
                    [] OTHER -> 0
             row == [request |-> r, outcome |-> verdict[c], revision |-> n]
             x == [document |-> doc[c], op |-> r.op]
  <1>1. /\ pc[c] = "commit" /\ End(c) /\ UNCHANGED <<workload, environment, granted>>
        /\ operation' = [operation EXCEPT ![r.op] = row]
        /\ replies' = replies \cup {row}
        /\ verdict[c] = "success" =>
              /\ revisions' = [revisions EXCEPT ![k][e] = Append(history, x)]
              /\ current' = [current EXCEPT ![k][e] = n]
              /\ config' = [config EXCEPT ![k] = IF config[k] = "absent" THEN "active" ELSE config[k]]
        /\ verdict[c] # "success" => UNCHANGED <<revisions, current, config>>
    BY DEF Commit, At, RecordOperation, Answer
  <1>2. /\ r \in Requests /\ r.op \in Operations /\ k \in Configs /\ e \in Environments
        /\ verdict[c] \in Outcome /\ HoldsOK(c) /\ ContentOK(c) /\ DecisionOK(c)
        /\ ClientTypeOK /\ revisions \in Histories
    BY <1>1, Acting, RequestType DEF VerdictOK
  <1>3. /\ current \in [Configs -> [Environments -> Nat]] /\ config \in [Configs -> Existence]
        /\ at[c] \in Nat /\ n \in Nat
        /\ \A l \in Configs, f \in Environments : current[l][f] = Len(revisions[l][f])
    BY <1>2 DEF IInv, TypeOK, StoreTypeOK, StoreInv, ClientTypeOK, Revision
  <1>4. row \in OperationRow /\ row.request = r
    BY <1>2, <1>3 DEF OperationRow, Revision
  <1>5. /\ <<"operation", r.op>> \in locks[c] /\ operation[r.op] = None
        /\ verdict[c] = "success" => <<"config", k>> \in locks[c]
    BY <1>1, <1>2 DEF HoldsOK, HasBegun, HasConfig, Writing
  <1> HIDE DEF n
  <1>6. ASSUME NEW d \in Clients \ {c}
        PROVE  /\ Exclusive(c, d) /\ LocksOK(d)
               /\ <<"operation", r.op>> \notin locks[d]
               /\ verdict[c] = "success" => /\ <<"config", k>> \notin locks[d]
                                            /\ <<"gap", k>> \notin locks[d]
    BY <1>2, <1>5 DEF IInv, LocksOK, Exclusive
  <1>7. /\ operation' \in [Operations -> OperationRow \cup {None}]
        /\ operation'[r.op] = row
        /\ replies' \subseteq Reply
        /\ AnswersAreRecorded'
        /\ \A o \in Operations : operation[o] # None => operation'[o] = operation[o]
        /\ \A d \in Clients \ {c} : HasBegun(d) => operation'[req[d].op] = None
    <2> HIDE DEF row
    <2>1. /\ operation[row.request.op] = None
          /\ operation' = [operation EXCEPT ![row.request.op] = row]
          /\ replies' = replies \cup {row}
      BY <1>1, <1>4, <1>5
    <2>2. \A d \in Clients \ {c} : <<"operation", row.request.op>> \notin locks[d]
      BY <1>4, <1>6
    <2>3. /\ operation' \in [Operations -> OperationRow \cup {None}]
          /\ operation'[row.request.op] = row
          /\ replies' \subseteq Reply
          /\ AnswersAreRecorded'
          /\ \A o \in Operations : operation[o] # None => operation'[o] = operation[o]
          /\ \A d \in Clients : HasBegun(d) /\ <<"operation", row.request.op>> \notin locks[d]
                                => operation'[req[d].op] = None
      BY ONLY IInv, <1>4, <2>1, Recorded
    <2> QED BY <1>4, <2>2, <2>3
  <1>8. /\ ClientTypeOK' /\ ClientOK(c)' /\ locks' = [locks EXCEPT ![c] = {}]
        /\ \A d \in Clients \ {c} : Undisturbed(d)
    BY <1>1, <1>2, Ended
  <1> SUFFICES /\ revisions' \in Histories /\ GrowsTo(revisions, revisions')
               /\ current' \in [Configs -> [Environments -> Nat]]
               /\ config' \in [Configs -> Existence]
               /\ \A l \in Configs : config[l] # "absent" => config'[l] # "absent"
               /\ \A l \in Configs : l # k \/ verdict[c] # "success" =>
                     config'[l] = config[l] /\ revisions'[l] = revisions[l]
               /\ \A l \in Configs, f \in Environments :
                     /\ current'[l][f] = Len(revisions'[l][f])
                     /\ config'[l] = "absent" => Len(revisions'[l][f]) = 0
                     /\ \A i \in 1..Len(revisions'[l][f]) :
                           i \in 1..Len(revisions[l][f]) \/ RowOK(l, f, i)'
    <2>1. TypeOK'
      BY <1>1, <1>7, <1>8 DEF IInv, TypeOK, StoreTypeOK, Histories, Revision
    <2>2. StoreInv'
      BY <1>7, RowsKept DEF StoreInv
    <2>3. ASSUME NEW d \in Clients PROVE LocksOK(d)'
      <3>1. /\ locks'[d] \subseteq locks[d]
            /\ d # c => <<"gap", k>> \notin locks[d] \/ verdict[c] # "success"
            /\ locks'[c] = {}
        BY <1>2, <1>6, <1>8 DEF ClientTypeOK
      <3>2. \A f \in Clients \ {d} : Exclusive(d, f)'
        BY <1>2, <1>8 DEF IInv, LocksOK, Exclusive, ClientTypeOK
      <3>3. LocksOK(d) /\ granted' = granted
        BY <1>1 DEF IInv
      <3>4. \A l \in Configs : <<"gap", l>> \in locks'[d] => config'[l] = "absent"
        BY <3>1, <3>3 DEF LocksOK
      <3>5. \A t \in Tokens : <<"token", t>> \in locks'[d] => t \in granted'
        BY <3>1, <3>3 DEF LocksOK
      <3> QED BY <3>2, <3>4, <3>5 DEF LocksOK
    <2>4. ASSUME NEW d \in Clients \ {c} PROVE ClientOK(d)'
      BY <1>6, <1>7, <1>8, Bystander
    <2> QED BY <1>8, <2>1, <2>2, <2>3, <2>4 DEF IInv
  <1>9. CASE verdict[c] = "success"
    <2>1. /\ at[c] = Len(history) /\ n = Len(history) + 1 /\ doc[c] # Malformed
          /\ Explained(revisions, k, e, r, doc[c])
      BY <1>1, <1>2, <1>9 DEF DecisionOK, ContentOK, HasContent, Writing, n
    <2>2. x \in RevisionRow
      BY <1>2, <2>1 DEF RevisionRow, ClientTypeOK
    <2>3. /\ revisions' \in Histories /\ GrowsTo(revisions, revisions')
          /\ Len(revisions'[k][e]) = n /\ revisions'[k][e][n] = x
          /\ \A l \in Configs \ {k} : revisions'[l] = revisions[l]
          /\ \A f \in Environments \ {e} : revisions'[k][f] = revisions[k][f]
      <3>1. revisions' = Extend(revisions, k, e, x)
        BY <1>1, <1>9 DEF Extend
      <3> HIDE DEF r, k, e, x
      <3> QED BY <1>2, <2>1, <2>2, <3>1, Extended
    <2>4. Explained(revisions', k, e, r, doc[c])
      BY <1>2, <2>1, <2>3, ExplainedStays
    <2>5. \A l \in Configs, f \in Environments, i \in Nat :
             l = k /\ f = e /\ i = n => RowOK(l, f, i)'
      <3>1. x.op = r.op /\ x.document = doc[c]
        OBVIOUS
      <3>2. operation'[x.op] # None /\ operation'[x.op].request = r
        BY <1>4, <1>7, <3>1, NoneIsNoRow
      <3> HIDE DEF x, r, row
      <3> QED BY <2>3, <2>4, <3>1, <3>2 DEF RowOK
    <2>6. /\ current' \in [Configs -> [Environments -> Nat]] /\ current'[k][e] = n
          /\ \A l \in Configs, f \in Environments : l # k \/ f # e => current'[l][f] = current[l][f]
      <3>1. /\ current'[k] = [current[k] EXCEPT ![e] = n]
            /\ \A l \in Configs \ {k} : current'[l] = current[l]
            /\ DOMAIN current' = Configs
        BY <1>1, <1>2, <1>3, <1>9
      <3>2. current'[k] \in [Environments -> Nat]
        BY <1>2, <1>3, <3>1
      <3>3. current' = [l \in Configs |-> current'[l]]
        BY <1>1, <1>3, <1>9
      <3>4. \A l \in Configs : current'[l] \in [Environments -> Nat]
        BY <1>3, <3>1, <3>2
      <3> QED BY <1>2, <1>3, <3>1, <3>3, <3>4
    <2>7. /\ config' \in [Configs -> Existence] /\ config'[k] # "absent"
          /\ \A l \in Configs \ {k} : config'[l] = config[l]
      BY <1>1, <1>2, <1>3, <1>9 DEF Existence
    <2>8. ASSUME NEW l \in Configs, NEW f \in Environments
          PROVE  /\ current'[l][f] = Len(revisions'[l][f])
                 /\ config'[l] = "absent" => Len(revisions'[l][f]) = 0
                 /\ \A i \in 1..Len(revisions'[l][f]) :
                       i \in 1..Len(revisions[l][f]) \/ RowOK(l, f, i)'
      <3>1. CASE l = k /\ f = e
        <4>1. Len(revisions'[k][e]) = n /\ current'[k][e] = n /\ config'[k] # "absent"
          BY <2>3, <2>6, <2>7
        <4>2. Len(history) \in Nat
          BY <1>2, HistoryType
        <4>3. \A i \in 1..n : i \in Nat /\ (i \in 1..Len(history) \/ i = n)
          BY <2>1, <4>2
        <4> HIDE DEF k, e
        <4> QED BY <2>5, <3>1, <4>1, <4>3
      <3>2. CASE ~(l = k /\ f = e)
        <4>1. revisions'[l][f] = revisions[l][f] /\ current'[l][f] = current[l][f]
          BY <2>3, <2>6, <3>2
        <4>2. config[l] = "absent" => Len(revisions[l][f]) = 0
          BY DEF IInv, StoreInv
        <4> QED BY <1>3, <2>7, <4>1, <4>2
      <3> QED BY <3>1, <3>2
    <2> QED BY <1>9, <2>3, <2>6, <2>7, <2>8
  <1>10. CASE verdict[c] # "success"
    <2>1. UNCHANGED <<revisions, current, config>>
      BY <1>1, <1>10
    <2>2. \A l \in Configs, f \in Environments : config[l] = "absent" => Len(revisions[l][f]) = 0
      BY DEF IInv, StoreInv
    <2> QED BY <1>2, <1>3, <2>1, <2>2, GrowsItself
  <1> QED BY <1>9, <1>10

(* Lifecycle changes are decided at once, on rows nobody has locked.       *)
LEMMA SettlesStep ==
  ASSUME IInv, NEW r \in Requests, NEW outcome \in Outcome, Settles(r, outcome),
         Unlocked(<<"operation", r.op>>), UNCHANGED <<workload, current, revisions, clientVars>>,
         environment' \in [Environments -> Existence], config' \in [Configs -> Existence],
         granted' \subseteq Tokens,
         \A k \in Configs : /\ config[k] = "absent" <=> config'[k] = "absent"
                            /\ Unlocked(<<"config", k>>) \/ config'[k] = config[k],
         \A t \in Tokens : Unlocked(<<"token", t>>) \/ (t \in granted => t \in granted')
  PROVE  IInv'
  <1> DEFINE row == [request |-> r, outcome |-> outcome, revision |-> 0]
  <1>1. row \in OperationRow /\ row.request = r
    BY DEF OperationRow, Revision
  <1>2. /\ operation[row.request.op] = None
        /\ operation' = [operation EXCEPT ![row.request.op] = row]
        /\ replies' = replies \cup {row}
    BY <1>1 DEF Settles, RecordOperation, Answer
  <1> HIDE DEF row
  <1>3. /\ operation' \in [Operations -> OperationRow \cup {None}]
        /\ operation'[row.request.op] = row
        /\ replies' \subseteq Reply
        /\ AnswersAreRecorded'
        /\ \A o \in Operations : operation[o] # None => operation'[o] = operation[o]
        /\ \A d \in Clients : HasBegun(d) /\ <<"operation", row.request.op>> \notin locks[d]
                              => operation'[req[d].op] = None
    BY ONLY IInv, <1>1, <1>2, Recorded
  <1>4. \A d \in Clients : HasBegun(d) => operation'[req[d].op] = None
    BY <1>1, <1>3 DEF Unlocked
  <1>5. /\ revisions \in Histories /\ revisions' = revisions /\ current' = current
        /\ GrowsTo(revisions, revisions')
    BY Acting, GrowsItself DEF IInv, TypeOK, StoreTypeOK, Histories
  <1>6. TypeOK'
    BY <1>3, <1>5 DEF IInv, TypeOK, StoreTypeOK, ClientTypeOK, clientVars
  <1>7. StoreInv'
    <2>1. \A k \in Configs, e \in Environments :
             /\ current'[k][e] = Len(revisions'[k][e])
             /\ config'[k] = "absent" => Len(revisions'[k][e]) = 0
      BY <1>5 DEF IInv, StoreInv
    <2> QED BY <1>3, <1>5, <2>1, RowsKept DEF StoreInv
  <1>8. ASSUME NEW d \in Clients PROVE LocksOK(d)'
    <2>1. LocksOK(d) /\ locks' = locks
      BY DEF IInv, clientVars
    <2>2. \A k \in Configs : <<"gap", k>> \in locks'[d] => config'[k] = "absent"
      BY <2>1 DEF LocksOK
    <2>3. \A t \in Tokens : <<"token", t>> \in locks'[d] => t \in granted'
      BY <2>1 DEF LocksOK, Unlocked
    <2>4. \A f \in Clients \ {d} : Exclusive(d, f)'
      BY <2>1 DEF LocksOK, Exclusive
    <2> QED BY <2>2, <2>3, <2>4 DEF LocksOK
  <1>9. ASSUME NEW d \in Clients PROVE ClientOK(d)'
    <2>1. Undisturbed(d)
      BY DEF Undisturbed, clientVars
    <2>2. \A k \in Configs : <<"config", k>> \in locks[d] =>
             config'[k] = config[k] /\ revisions'[k] = revisions[k]
      BY <1>5 DEF Unlocked
    <2> QED BY <1>4, <1>5, <2>1, <2>2, Bystander
  <1> QED BY <1>6, <1>7, <1>8, <1>9 DEF IInv

(* Nothing changes but what has been answered.                             *)
LEMMA AnsweredInv ==
  ASSUME IInv, UNCHANGED <<workload, storeVars, clientVars>>, replies' \subseteq Reply,
         AnswersAreRecorded'
  PROVE  IInv'
  <1>1. TypeOK' /\ StoreInv'
    BY StoreKept DEF IInv, TypeOK, StoreTypeOK, ClientTypeOK, storeVars, clientVars
  <1>2. ASSUME NEW d \in Clients PROVE LocksOK(d)'
    BY DEF IInv, LocksOK, Exclusive, storeVars, clientVars
  <1>3. ASSUME NEW d \in Clients PROVE ClientOK(d)'
    <2>1. /\ Undisturbed(d) /\ operation' = operation /\ revisions' = revisions /\ config' = config
          /\ revisions \in Histories /\ GrowsTo(revisions, revisions')
      BY Acting, GrowsItself DEF Undisturbed, storeVars, clientVars
    <2>2. HasBegun(d) => operation'[req[d].op] = None
      BY <2>1 DEF IInv, ClientOK, HoldsOK, HasBegun
    <2> QED BY <2>1, <2>2, Bystander
  <1> QED BY <1>1, <1>2, <1>3 DEF IInv

LEMMA ReplayLifecycleStep ==
  ASSUME IInv, NEW r \in Requests, ReplayLifecycle(r), UNCHANGED <<workload, clientVars>>
  PROVE  IInv'
  <1> DEFINE row == operation[r.op]
  <1>1. /\ row # None /\ UNCHANGED storeVars
        /\ \/ r = row.request /\ Answer(r, row.outcome, row.revision)
           \/ replies' = replies
    BY DEF ReplayLifecycle, SameRequest
  <1>2. row \in OperationRow
    BY <1>1, RequestType DEF IInv, TypeOK, StoreTypeOK
  <1>3. r = row.request =>
           [request |-> r, outcome |-> row.outcome, revision |-> row.revision] = row
    BY <1>2 DEF OperationRow
  <1>4. row \in Reply /\ (replies' = replies \/ (replies' = replies \cup {row} /\ r = row.request))
    BY <1>1, <1>2, <1>3 DEF Answer, OperationRow, Reply
  <1>5. AnswersAreRecorded' /\ replies' \subseteq Reply
    BY <1>1, <1>4 DEF AnswersAreRecorded, storeVars, IInv, StoreInv, TypeOK
  <1> QED BY <1>1, <1>5, AnsweredInv

LEMMA ChangeLifecycleStep ==
  ASSUME IInv, NEW r \in workload, ChangeLifecycle(r), UNCHANGED workload
  PROVE  IInv'
  <1>0. /\ r \in Requests /\ r.config \in Configs /\ r.environment \in Environments
        /\ Unlocked(<<"operation", r.op>>) /\ UNCHANGED clientVars
        /\ environment \in [Environments -> Existence] /\ config \in [Configs -> Existence]
        /\ granted \subseteq Tokens
    BY WorkloadType, RequestType DEF IInv, TypeOK, StoreTypeOK, ChangeLifecycle
  <1>1. CASE ReplayLifecycle(r)
    BY <1>0, <1>1, ReplayLifecycleStep
  <1>2. CASE ApplyConfigLifecycleChange(r) /\ ~ReplayLifecycle(r)
    <2> DEFINE goal == IF r.action = "archive" THEN "archived" ELSE "active"
               outcome == LifecycleOutcome(config[r.config], goal)
    <2>1. /\ Unlocked(<<"config", r.config>>) /\ Settles(r, outcome)
          /\ config' = [config EXCEPT ![r.config] =
                IF config[r.config] = "absent" THEN config[r.config] ELSE goal]
          /\ UNCHANGED <<environment, current, revisions, granted>>
      BY <1>2 DEF ApplyConfigLifecycleChange
    <2>2. outcome \in Outcome
      BY DEF LifecycleOutcome, Outcome
    <2>3. /\ config' \in [Configs -> Existence]
          /\ \A k \in Configs : /\ config[k] = "absent" <=> config'[k] = "absent"
                                /\ k # r.config => config'[k] = config[k]
      BY <1>0, <2>1 DEF Existence
    <2> HIDE DEF outcome
    <2> QED BY <1>0, <2>1, <2>2, <2>3, SettlesStep
  <1>3. CASE ApplyEnvironmentChange(r) /\ ~ReplayLifecycle(r)
    <2>1. PICK outcome \in Outcome, s \in Existence :
             /\ Settles(r, outcome)
             /\ environment' = [environment EXCEPT ![r.environment] = s]
             /\ UNCHANGED <<config, current, revisions, granted>>
      <3> DEFINE s == environment[r.environment]
                 goal == IF r.action = "archiveEnvironment" THEN "archived" ELSE "active"
                 outcome == CASE r.action # "createEnvironment" -> LifecycleOutcome(s, goal)
                              [] r.action = "createEnvironment" /\ s = "absent" -> "success"
                              [] OTHER -> "conflict"
      <3>1. /\ Settles(r, outcome)
            /\ environment' = [environment EXCEPT ![r.environment] =
                  IF outcome = "success" THEN goal ELSE s]
            /\ UNCHANGED <<config, current, revisions, granted>>
        BY <1>3 DEF ApplyEnvironmentChange
      <3>2. outcome \in Outcome /\ s \in Existence /\ goal \in Existence
        BY <1>0 DEF LifecycleOutcome, Outcome, Existence
      <3> HIDE DEF outcome, s, goal
      <3> QED BY <3>1, <3>2
    <2>2. environment' \in [Environments -> Existence]
      BY <1>0, <2>1
    <2> QED BY <1>0, <2>1, <2>2, SettlesStep
  <1>4. CASE RevokeToken(r) /\ ~ReplayLifecycle(r)
    <2> DEFINE outcome == IF r.token \in granted THEN "success" ELSE "no_change"
    <2>1. /\ Unlocked(<<"token", r.token>>) /\ Settles(r, outcome)
          /\ granted' = granted \ {r.token}
          /\ UNCHANGED <<environment, config, current, revisions>>
      BY <1>4 DEF RevokeToken
    <2>2. outcome \in Outcome
      BY DEF Outcome
    <2> HIDE DEF outcome
    <2> QED BY <1>0, <2>1, <2>2, SettlesStep
  <1> QED BY <1>1, <1>2, <1>3, <1>4 DEF ChangeLifecycle

-----------------------------------------------------------------------------
LEMMA InitInv == Init => IInv
  <1> SUFFICES ASSUME Init PROVE IInv
    OBVIOUS
  <1>1. /\ \A c \in Clients : pc[c] = "idle" /\ verdict[c] = None /\ locks[c] = {}
        /\ \A k \in Configs, e \in Environments : revisions[k][e] = <<>> /\ current[k][e] = 0
        /\ replies = {}
    BY DEF Init
  <1>2. TypeOK
    BY <1>1 DEF Init, TypeOK, StoreTypeOK, ClientTypeOK, Existence, Steps, Revision
  <1>3. StoreInv
    BY <1>1 DEF StoreInv, AnswersAreRecorded
  <1>4. \A c \in Clients : LocksOK(c) /\ ClientOK(c)
    BY <1>1 DEF LocksOK, Exclusive, ClientOK, VerdictOK
  <1> QED BY <1>2, <1>3, <1>4 DEF IInv

LEMMA StepInv ==
  ASSUME IInv, NEW c \in Clients, Step(c), UNCHANGED workload
  PROVE  IInv'
  BY ReplayTransferStep, ReadSourceStep, ReadTargetStep, AuthorizeStep, BeginOperationStep,
     ReadEnvironmentStep, FindConfigStep, InsertConfigStep, FailedStep, LockCurrentConfigStep,
     CommitStep
  DEF Step

LEMMA NextInv == IInv /\ [Next]_vars => IInv'
  <1> SUFFICES ASSUME IInv, [Next]_vars PROVE IInv'
    OBVIOUS
  <1>1. ASSUME NEW c \in Clients, NEW r \in workload, Begin(c, r), UNCHANGED workload
        PROVE  IInv'
    BY <1>1, BeginStep
  <1>2. ASSUME NEW c \in Clients, Step(c), UNCHANGED workload
        PROVE  IInv'
    BY <1>2, StepInv
  <1>3. ASSUME NEW c \in Clients, Abort(c), UNCHANGED workload
        PROVE  IInv'
    BY <1>3, FailedStep
  <1>4. ASSUME NEW r \in workload, ChangeLifecycle(r), UNCHANGED workload
        PROVE  IInv'
    BY <1>4, ChangeLifecycleStep
  <1>5. CASE UNCHANGED vars
    <2>1. UNCHANGED <<workload, storeVars, clientVars, replies>>
      BY <1>5 DEF vars
    <2>2. AnswersAreRecorded' /\ replies' \subseteq Reply
      BY <2>1 DEF storeVars, IInv, StoreInv, TypeOK, AnswersAreRecorded
    <2> QED BY <2>1, <2>2, AnsweredInv
  <1> QED BY <1>1, <1>2, <1>3, <1>4, <1>5 DEF Next

LEMMA Invariance == Spec => []IInv
  BY InitInv, NextInv, PTL DEF Spec

-----------------------------------------------------------------------------
(* Everything has its type: the rows and answers of the store, and what a  *)
(* request in progress holds.                                              *)
THEOREM TypeCorrect == Spec => []TypeOK
  BY Invariance, PTL DEF IInv

(* An operation id answers for one result: no caller is ever told anything *)
(* of a request but what is recorded under its id.                         *)
THEOREM AnswersRecorded == Spec => []AnswersAreRecorded
  BY Invariance, PTL DEF IInv, StoreInv

(* A transfer writes what it names, or the merge of it, although it read   *)
(* it before its transaction.                                              *)
THEOREM TransfersCopy == Spec => []TransfersCopyHistory
  <1>1. IInv => TransfersCopyHistory
    <2> SUFFICES ASSUME IInv, NEW k \in Configs, NEW e \in Environments,
                        NEW n \in 1..Len(revisions[k][e])
                 PROVE  LET row == revisions[k][e][n]
                            r == operation[row.op].request
                            source == revisions[r.source.config][r.source.environment] IN
                        CASE r.action \in {"replace", "restore"} ->
                                row.document = source[r.source.revision].document
                          [] r.action = "merge" ->
                                row.document = Merged[<<source[r.source.revision].document,
                                                        revisions[k][e][r.target].document>>]
                          [] r.action = "clone" ->
                                \E m \in 1..Len(source) : row.document = source[m].document
                          [] OTHER -> row.document = r.document
      BY DEF TransfersCopyHistory
    <2> DEFINE row == revisions[k][e][n]
               r == operation[row.op].request
    <2>1. Explained(revisions, k, e, r, row.document)
      BY DEF IInv, StoreInv, RowOK
    <2>2. CASE r.action \in {"replace", "restore"}
      BY <2>1, <2>2 DEF Explained, FromSource, Source
    <2>3. CASE r.action = "merge"
      BY <2>1, <2>3 DEF Explained, FromBoth, Source
    <2>4. CASE r.action = "clone"
      BY <2>1, <2>4 DEF Explained, Source
    <2>5. CASE r.action \notin Transfers
      BY <2>1, <2>5 DEF Explained, Transfers
    <2> QED BY <2>2, <2>3, <2>4, <2>5 DEF Transfers
  <1> QED BY <1>1, Invariance, PTL

(* What changes the store.                                                 *)
LEMMA StoreChanges ==
  ASSUME [Next]_vars
  PROVE  \/ UNCHANGED storeVars
         \/ \E c \in Clients : Commit(c)
         \/ \E r \in workload : ChangeLifecycle(r) /\ ~ReplayLifecycle(r)
  <1>1. CASE UNCHANGED vars
    BY <1>1 DEF vars
  <1>2. ASSUME NEW c \in Clients, Step(c), ~Commit(c) PROVE UNCHANGED storeVars
    BY <1>2 DEF Step, ReplayTransfer, ReadSource, ReadTarget, AuthorizeScopedWrite,
                BeginOperation, ReadEnvironment, FindConfig, InsertConfig, Deadlock,
                LockCurrentConfig
  <1>3. ASSUME NEW c \in Clients, Abort(c) \/ \E r \in workload : Begin(c, r)
        PROVE  UNCHANGED storeVars
    BY <1>3 DEF Abort, Begin
  <1>4. \A r : ReplayLifecycle(r) => UNCHANGED storeVars
    BY DEF ReplayLifecycle
  <1> QED BY <1>1, <1>2, <1>3, <1>4 DEF Next

(* A commit, and the locks and the decision it rests on.                   *)
LEMMA Committing ==
  ASSUME IInv, NEW c \in Clients, Commit(c)
  PROVE  LET r == req[c]
             n == Len(revisions[r.config][r.environment])
             m == CASE verdict[c] = "success" -> n + 1
                    [] verdict[c] = "no_change" -> n
                    [] OTHER -> 0 IN
         /\ pc[c] = "commit" /\ r \in Requests /\ r.action \notin Lifecycle
         /\ HoldsOK(c) /\ ContentOK(c) /\ DecisionOK(c)
         /\ operation[r.op] = None
         /\ operation' = [operation EXCEPT ![r.op] =
               [request |-> r, outcome |-> verdict[c], revision |-> m]]
  <1>1. /\ pc[c] = "commit" /\ req[c] \in Requests /\ req[c].action \notin Lifecycle
        /\ HoldsOK(c) /\ ContentOK(c) /\ DecisionOK(c)
    BY Acting DEF Commit, At
  <1>2. operation[req[c].op] = None
    BY <1>1 DEF HoldsOK, HasBegun
  <1> QED BY <1>1, <1>2 DEF Commit, RecordOperation, DecisionOK

(* A lifecycle change that is recorded.                                    *)
LEMMA Settling ==
  ASSUME NEW r \in workload, ChangeLifecycle(r), ~ReplayLifecycle(r)
  PROVE  /\ r.action \in Lifecycle /\ operation[r.op] = None
         /\ \E outcome \in Outcome :
               /\ operation' = [operation EXCEPT ![r.op] =
                     [request |-> r, outcome |-> outcome, revision |-> 0]]
               /\ outcome = "validation_failed" =>
                     config[r.config] = "absent" \/ config' = config
         /\ revisions' = revisions
         /\ \/ config' = config
            \/ \E s \in {"active", "archived"} :
                  config' = [config EXCEPT ![r.config] = IF config[r.config] = "absent"
                                                         THEN config[r.config] ELSE s]
  <1>1. CASE ApplyConfigLifecycleChange(r)
    BY <1>1 DEF ApplyConfigLifecycleChange, Settles, RecordOperation, LifecycleOutcome, Outcome,
                Lifecycle
  <1>2. CASE ApplyEnvironmentChange(r)
    BY <1>2 DEF ApplyEnvironmentChange, Settles, RecordOperation, LifecycleOutcome, Outcome,
                Lifecycle
  <1>3. CASE RevokeToken(r)
    BY <1>3 DEF RevokeToken, Settles, RecordOperation, Outcome, Lifecycle
  <1> QED BY <1>1, <1>2, <1>3 DEF ChangeLifecycle

(* An archived config gains no revision: whoever is to write one has had   *)
(* its row locked, unarchived, since before it decided.                    *)
THEOREM ArchivedIsFrozen == Spec => ArchivedConfigIsFrozen
  <1>1. ASSUME IInv, [Next]_vars, NEW k \in Configs, NEW e \in Environments,
               config[k] = "archived"
        PROVE  ~Grows(k, e)
    <2>1. Len(revisions[k][e]) \in Nat /\ revisions \in Histories
      BY <1>1, HistoryType DEF IInv, TypeOK, StoreTypeOK, Histories
    <2>2. revisions'[k][e] = revisions[k][e]
      <3>1. ASSUME NEW c \in Clients, Commit(c) PROVE revisions'[k][e] = revisions[k][e]
        <4>1. CASE verdict[c] # "success"
          BY <3>1, <4>1 DEF Commit
        <4>2. CASE verdict[c] = "success"
          <5>1. req[c] \in Requests /\ HoldsOK(c) /\ pc[c] = "commit"
            BY <1>1, <3>1, Committing
          <5>2. req[c].config # k /\ req[c].config \in Configs /\ req[c].environment \in Environments
            BY <1>1, <4>2, <5>1, RequestType DEF HoldsOK, HasConfig, Writing
          <5>3. revisions' = Extend(revisions, req[c].config, req[c].environment,
                                    [document |-> doc[c], op |-> req[c].op])
            BY <3>1, <4>2 DEF Commit, Extend
          <5> QED BY <2>1, <5>2, <5>3 DEF Extend, Histories
        <4> QED BY <4>1, <4>2
      <3>2. ASSUME NEW r \in workload, ChangeLifecycle(r), ~ReplayLifecycle(r)
            PROVE  revisions'[k][e] = revisions[k][e]
        BY <3>2, Settling
      <3> QED BY <1>1, <3>1, <3>2, StoreChanges DEF storeVars
    <2> QED BY <2>1, <2>2 DEF Grows
  <1>2. IInv /\ [Next]_vars => [\A k \in Configs, e \in Environments :
                                   config[k] = "archived" => ~Grows(k, e)]_vars
    BY <1>1
  <1> QED BY <1>2, Invariance, PTL DEF Spec, ArchivedConfigIsFrozen

(* A write with a token is recorded only while the token is active: its row*)
(* is held from the check to the commit, and revocation waits for it.      *)
THEOREM RevokedWritesNothing == Spec => RevokedTokenWritesNothing
  <1> DEFINE Written(o) == LET r == operation'[o].request IN
                           /\ operation[o] = None
                           /\ operation'[o] # None
                           /\ r.action = "commit"
                           /\ r.token # None
                           => r.token \in granted
  <1>1. ASSUME IInv, [Next]_vars, NEW o \in Operations
        PROVE  Written(o)
    <2>0. operation \in [Operations -> OperationRow \cup {None}]
      BY <1>1 DEF IInv, TypeOK, StoreTypeOK
    <2>1. ASSUME NEW c \in Clients, Commit(c) PROVE Written(o)
      <3>1. /\ req[c] \in Requests /\ HoldsOK(c) /\ pc[c] = "commit"
            /\ o # req[c].op => operation'[o] = operation[o]
            /\ o = req[c].op => operation'[o].request = req[c]
        <4>1. /\ req[c] \in Requests /\ HoldsOK(c) /\ pc[c] = "commit"
              /\ \E outcome, n : operation' = [operation EXCEPT ![req[c].op] =
                    [request |-> req[c], outcome |-> outcome, revision |-> n]]
          BY <1>1, <2>1, Committing
        <4>2. req[c].op \in Operations
          BY <4>1, RequestType
        <4> QED BY <2>0, <4>1, <4>2
      <3>2. req[c].action = "commit" /\ req[c].token # None => req[c].token \in granted
        BY <1>1, <3>1, RequestType DEF HoldsOK, HasBegun, IInv, LocksOK
      <3> QED BY <3>1, <3>2
    <2>2. ASSUME NEW r \in workload, ChangeLifecycle(r), ~ReplayLifecycle(r)
          PROVE  Written(o)
      <3>1. /\ r.action # "commit"
            /\ \E outcome \in Outcome : operation' = [operation EXCEPT ![r.op] =
                  [request |-> r, outcome |-> outcome, revision |-> 0]]
        BY <2>2, Settling DEF Lifecycle
      <3>2. r.op \in Operations
        BY <1>1, WorkloadType, RequestType DEF IInv
      <3> QED BY <2>0, <3>1, <3>2
    <2> QED BY <1>1, <2>1, <2>2, StoreChanges DEF storeVars
  <1>2. IInv /\ [Next]_vars => [\A o \in Operations : Written(o)]_vars
    BY <1>1
  <1> QED BY <1>2, Invariance, PTL DEF Spec, RevokedTokenWritesNothing

-----------------------------------------------------------------------------
(* The refinement: histories of documents, without who wrote them.         *)

DocumentsOf(H) == [k \in Configs |-> [e \in Environments |->
                     [n \in 1..Len(H[k][e]) |-> H[k][e][n].document]]]

LEMMA IsSequence ==
  ASSUME NEW S, NEW n \in Nat, NEW s \in [1..n -> S]
  PROVE  s \in Seq(S) /\ Len(s) = n
  OBVIOUS

LEMMA DocumentsType ==
  ASSUME NEW H \in Histories, NEW k \in Configs, NEW e \in Environments
  PROVE  /\ DocumentsOf(H)[k][e] \in Seq(Documents)
         /\ Len(DocumentsOf(H)[k][e]) = Len(H[k][e])
         /\ \A n \in 1..Len(H[k][e]) : DocumentsOf(H)[k][e][n] = H[k][e][n].document
  <1> DEFINE s == [n \in 1..Len(H[k][e]) |-> H[k][e][n].document]
  <1>1. DocumentsOf(H)[k][e] = s
    BY DEF DocumentsOf
  <1>2. Len(H[k][e]) \in Nat /\ s \in [1..Len(H[k][e]) -> Documents]
    BY HistoryType
  <1>3. \A n \in 1..Len(H[k][e]) : s[n] = H[k][e][n].document
    OBVIOUS
  <1> HIDE DEF s
  <1>4. s \in Seq(Documents) /\ Len(s) = Len(H[k][e])
    BY <1>2, IsSequence
  <1> QED BY <1>1, <1>3, <1>4

LEMMA DocumentsExtended ==
  ASSUME NEW H \in Histories, NEW k \in Configs, NEW e \in Environments, NEW x \in RevisionRow
  PROVE  DocumentsOf(Extend(H, k, e, x)) = Extend(DocumentsOf(H), k, e, x.document)
  <1> DEFINE M == Extend(H, k, e, x)
             D == DocumentsOf(H)
             s == D[k][e]
             t == DocumentsOf(M)[k][e]
  <1>1. /\ M \in Histories /\ GrowsTo(H, M)
        /\ Len(M[k][e]) = Len(H[k][e]) + 1 /\ M[k][e][Len(H[k][e]) + 1] = x
        /\ \A l \in Configs \ {k} : M[l] = H[l]
        /\ \A f \in Environments \ {e} : M[k][f] = H[k][f]
    BY Extended
  <1> HIDE DEF M
  <1>2. /\ s \in Seq(Documents) /\ Len(s) = Len(H[k][e]) /\ Len(H[k][e]) \in Nat
        /\ \A n \in 1..Len(H[k][e]) : s[n] = H[k][e][n].document
        /\ t \in Seq(Documents) /\ Len(t) = Len(H[k][e]) + 1
        /\ \A n \in 1..Len(H[k][e]) + 1 : t[n] = M[k][e][n].document
        /\ x.document \in Documents
    BY <1>1, DocumentsType, HistoryType DEF RevisionRow
  <1>3. t = Append(s, x.document)
    <2> DEFINE d == x.document
    <2> HIDE DEF s, t, d
    <2>1. /\ Append(s, d) \in Seq(Documents) /\ Len(Append(s, d)) = Len(t)
          /\ \A n \in 1..Len(s) : Append(s, d)[n] = s[n]
          /\ Append(s, d)[Len(s) + 1] = d
      BY <1>2, AppendProperties DEF d
    <2>2. ASSUME NEW n \in 1..Len(t) PROVE t[n] = Append(s, d)[n]
      <3>1. CASE n \in 1..Len(s)
        <4>1. M[k][e][n] = H[k][e][n] /\ n \in 1..Len(H[k][e]) /\ n \in 1..Len(H[k][e]) + 1
          BY <1>1, <1>2, <3>1 DEF GrowsTo
        <4> QED BY <1>2, <2>1, <3>1, <4>1
      <3>2. CASE n = Len(s) + 1
        BY <1>1, <1>2, <2>1, <3>2 DEF d
      <3> QED BY <1>2, <3>1, <3>2
    <2> QED BY <1>2, <2>1, <2>2, SeqEqual DEF d
  <1>4. /\ D = [l \in Configs |-> D[l]] /\ D[k] = [f \in Environments |-> D[k][f]]
        /\ DocumentsOf(M) = [l \in Configs |-> DocumentsOf(M)[l]]
        /\ DocumentsOf(M)[k] = [f \in Environments |-> DocumentsOf(M)[k][f]]
    BY DEF DocumentsOf
  <1>5. \A l \in Configs \ {k} : DocumentsOf(M)[l] = D[l]
    BY <1>1 DEF DocumentsOf
  <1>6. \A f \in Environments \ {e} : DocumentsOf(M)[k][f] = D[k][f]
    BY <1>1 DEF DocumentsOf
  <1> HIDE DEF D
  <1>7. DocumentsOf(M)[k] = [D[k] EXCEPT ![e] = Append(s, x.document)]
    BY <1>3, <1>4, <1>6
  <1>8. DocumentsOf(M) = [D EXCEPT ![k] = DocumentsOf(M)[k]]
    BY <1>4, <1>5
  <1> QED BY <1>7, <1>8 DEF Extend, D, M

(* What a request in progress has promised is done by its commit in one    *)
(* step of ConfigHistory.                                                  *)
LEMMA CommitMaps ==
  ASSUME IInv, NEW c \in Clients, Commit(c)
  PROVE  History!Next
  <1>0. PICK r \in Requests : r = req[c]
    BY Committing
  <1> DEFINE k == r.config
             e == r.environment
             n == Len(revisions[k][e])
             D == DocumentsOf(revisions)
  <1>1. /\ pc[c] = "commit" /\ r.action \notin Lifecycle
        /\ HoldsOK(c) /\ ContentOK(c) /\ DecisionOK(c)
        /\ operation[r.op] = None /\ VerdictOK(c)
        /\ k \in Configs /\ e \in Environments /\ revisions \in Histories
        /\ doc[c] \in Documents \cup {Malformed}
    BY <1>0, Committing, Acting, RequestType DEF ClientTypeOK, Commit, At
  <1>2. operation' = [operation EXCEPT ![r.op] = [request |-> r, outcome |-> verdict[c],
           revision |-> CASE verdict[c] = "success" -> n + 1
                          [] verdict[c] = "no_change" -> n
                          [] OTHER -> 0]]
    BY <1>0, Committing
  <1>3. /\ n \in Nat /\ Len(D[k][e]) = n
        /\ n > 0 => D[k][e][n] = revisions[k][e][n].document
    <2> HIDE DEF k, e
    <2>1. /\ n \in Nat /\ Len(D[k][e]) = n
          /\ \A i \in 1..n : D[k][e][i] = revisions[k][e][i].document
      BY <1>1, DocumentsType, HistoryType
    <2> QED BY <2>1
  <1>4. CASE verdict[c] = "success"
    <2>1. /\ n = r.expected /\ ~(n > 0 /\ D[k][e][n] = doc[c])
          /\ doc[c] \in Documents /\ (r.action = "commit" => doc[c] = r.document)
          /\ config[k] \in IF r.action = "clone" THEN {"absent"} ELSE {"absent", "active"}
      BY <1>0, <1>1, <1>3, <1>4 
      DEF DecisionOK, HoldsOK, HasConfig, Writing, ContentOK, HasContent, Explained, Transfers,
          IInv, TypeOK, StoreTypeOK, Existence
    <2>2. DocumentsOf(revisions') = [D EXCEPT ![k][e] = Append(D[k][e], doc[c])]
      <3> DEFINE x == [document |-> doc[c], op |-> r.op]
      <3>1. revisions' = Extend(revisions, k, e, x)
        BY <1>0, <1>4 DEF Commit, Extend
      <3>2. x \in RevisionRow /\ x.document = doc[c]
        BY <2>1, RequestType DEF RevisionRow
      <3> HIDE DEF x, k, e
      <3>3. DocumentsOf(revisions') = Extend(DocumentsOf(revisions), k, e, x.document)
        BY <1>1, <3>1, <3>2, DocumentsExtended
      <3> QED BY <3>2, <3>3 DEF Extend
    <2>3. config' = [config EXCEPT ![k] = "active"]
      BY <1>0, <1>1, <1>4, <2>1 DEF Commit
    <2> HIDE DEF n
    <2> HIDE DEF k, e, D
    <2>4. History!Length(r) = n
      BY <1>3 DEF History!Length, D, DocumentsOf, k, e
    <2>5. History!Decide(r, "success", History!Length(r) + 1)
      BY <1>1, <1>2, <1>4, <2>4 DEF History!Decide
    <2>6. History!Extend(r)
      BY <2>1, <2>2, <2>3, <2>4, <2>5 DEF History!Extend, D, DocumentsOf, k, e
    <2> QED BY <2>6 DEF History!Next
  <1>5. ASSUME verdict[c] # "success"
        PROVE  UNCHANGED <<config, revisions>>
    BY <1>5 DEF Commit
  <1>6. CASE verdict[c] = "no_change"
    <2>1. /\ n = r.expected /\ n > 0 /\ D[k][e][n] = doc[c]
          /\ r.action = "commit" => doc[c] = r.document
      BY <1>0, <1>1, <1>3, <1>6
      DEF DecisionOK, Writing, ContentOK, HasContent, Explained, Transfers
    <2>2. config[k] = "active"
      BY <1>0, <1>1, <1>3, <1>6, <2>1
      DEF HoldsOK, HasConfig, Writing, IInv, TypeOK, StoreTypeOK, StoreInv, Existence
    <2> HIDE DEF n
    <2>3. History!Keep(r)
      BY <1>1, <1>2, <1>3, <1>5, <1>6, <2>1, <2>2
      DEF History!Keep, History!Length, History!Decide, D, DocumentsOf, k, e
    <2> QED BY <2>3 DEF History!Next
  <1>7. CASE verdict[c] = "conflict"
    <2>1. n # r.expected \/ (r.action = "clone" /\ config[k] # "absent")
      <3>1. <<"gap", k>> \in locks[c] => n = 0
        BY <1>1 DEF IInv, LocksOK, StoreInv
      <3> QED BY <1>0, <1>1, <1>7, <3>1 DEF DecisionOK
    <2> HIDE DEF n
    <2>2. History!Conflict(r)
      BY <1>1, <1>2, <1>3, <1>5, <1>7, <2>1
      DEF History!Conflict, History!Length, History!Decide, D, DocumentsOf, k, e
    <2> QED BY <2>2 DEF History!Next
  <1>8. CASE verdict[c] = "validation_failed"
    <2> HIDE DEF n
    <2>1. History!Refuse(r)
      BY <1>1, <1>2, <1>5, <1>8 DEF History!Refuse, History!Decide
    <2> QED BY <2>1 DEF History!Next
  <1> QED BY <1>0, <1>1, <1>4, <1>6, <1>7, <1>8 DEF VerdictOK, Outcome

LEMMA LifecycleMaps ==
  ASSUME TypeOK, NEW r \in workload, ChangeLifecycle(r), ~ReplayLifecycle(r)
  PROVE  History!Next
  <1>1. /\ r \in Requests /\ r.action \in Lifecycle /\ operation[r.op] = None
        /\ r.config \in Configs /\ config \in [Configs -> Existence]
    BY Settling, WorkloadType, RequestType DEF TypeOK, StoreTypeOK
  <1>2. PICK outcome \in Outcome :
           /\ operation' = [operation EXCEPT ![r.op] =
                 [request |-> r, outcome |-> outcome, revision |-> 0]]
           /\ outcome = "validation_failed" =>
                 config[r.config] = "absent" \/ config' = config
    BY Settling
  <1>3. revisions' = revisions
    BY Settling
  <1>4. \/ config' = config
        \/ /\ config[r.config] # "absent"
           /\ \E s \in {"active", "archived"} : config' = [config EXCEPT ![r.config] = s]
    <2>1. CASE config[r.config] = "absent"
      <3>1. [config EXCEPT ![r.config] = config[r.config]] = config
        BY <1>1
      <3> QED BY <2>1, <3>1, Settling
    <2>2. CASE config[r.config] # "absent"
      BY <2>2, Settling
    <2> QED BY <2>1, <2>2
  <1>5. CASE outcome = "validation_failed"
    <2>1. config' = config
      BY <1>2, <1>4, <1>5, Settling
    <2>2. History!Refuse(r)
      BY <1>1, <1>2, <1>3, <1>5, <2>1 DEF History!Refuse, History!Decide
    <2> QED BY <1>1, <2>2 DEF History!Next
  <1>6. CASE outcome # "validation_failed"
    <2>1. History!Administer(r)
      BY <1>1, <1>2, <1>3, <1>4, <1>6 DEF History!Administer, History!Decide, Lifecycle, Outcome
    <2> QED BY <1>1, <2>1 DEF History!Next
  <1> QED BY <1>5, <1>6

(* "as if each were done at one moment": commits, transfers and lifecycle  *)
(* changes, statement by statement and beside each other, do what          *)
(* ConfigHistory does in one step each, and nothing else.                  *)
THEOREM Refinement == Spec => ImplementsHistory
  <1>1. Init => History!Init
    <2> SUFFICES ASSUME Init PROVE History!Init
      OBVIOUS
    <2>1. ASSUME NEW k \in Configs, NEW e \in Environments
          PROVE  [n \in 1..Len(revisions[k][e]) |-> revisions[k][e][n].document] = <<>>
      BY DEF Init
    <2> QED BY <2>1 DEF History!Init, Init
  <1>2. IInv /\ [Next]_vars => [History!Next]_(History!historyVars)
    <2> SUFFICES ASSUME IInv, [Next]_vars PROVE [History!Next]_(History!historyVars)
      OBVIOUS
    <2>1. CASE UNCHANGED storeVars
      BY <2>1 DEF storeVars, History!historyVars
    <2>2. CASE \E c \in Clients : Commit(c)
      BY <2>2, CommitMaps
    <2>3. CASE \E r \in workload : ChangeLifecycle(r) /\ ~ReplayLifecycle(r)
      BY <2>3, LifecycleMaps DEF IInv
    <2> QED BY <2>1, <2>2, <2>3, StoreChanges
  <1> QED BY <1>1, <1>2, Invariance, PTL DEF Spec, ImplementsHistory, History!Spec
=============================================================================
