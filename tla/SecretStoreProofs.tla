-------------------------- MODULE SecretStoreProofs --------------------------
(***************************************************************************)
(* Proofs about SecretStore for every set of requests, clients, keys,      *)
(* tokens and authorities, and any limit and number of attempts.           *)
(*                                                                         *)
(* A statement that a transaction has passed has left two things behind:   *)
(* its locks, and what it has found under them. Each property follows from *)
(* what the last statement may still rely on.                              *)
(***************************************************************************)
EXTENDS SecretStore, FiniteSetTheorems, TLAPS

Before(plan, s, t) ==
    \E i, j \in DOMAIN plan : i < j /\ plan[i] = s /\ plan[j] = t

(* Client c is in a transaction that has executed statement s.             *)
Past(c, s) == ~At(c, "idle") /\ Before(Plan[req[c].action], s, pc[c])

ClientOK ==
    /\ DOMAIN pc = Clients /\ DOMAIN req = Clients
    /\ DOMAIN locks = Clients
    /\ \A c \in Clients : ~At(c, "idle") =>
          /\ req[c] \in Requests
          /\ \E i \in DOMAIN Plan[req[c].action] : Plan[req[c].action][i] = pc[c]

(* No two clients have locks that exclude each other.                      *)
LockInv ==
    \A c, d \in Clients : c # d =>
        \A l \in locks[c], h \in locks[d] : l[1] = h[1] => Compatible(l[2], h[2])

HeldInv ==
    \A c \in Clients :
        /\ Past(c, "key") => KeyLock(req[c]) \subseteq locks[c]
        /\ Past(c, "token") => TokenLock(req[c]) \subseteq locks[c]
        /\ Past(c, "operation") => Exclusive("operation", {req[c].op}) \subseteq locks[c]
        /\ Past(c, "authority") => AuthorityLock(req[c]) \subseteq locks[c]

ClientInv == ClientOK /\ LockInv /\ HeldInv

(* What the statements have found.                                         *)
KeyKnown == \A c \in Clients : Past(c, "key") => provider[c] = sentinel

TokenKnown == \A c \in Clients : Past(c, "token") => token[req[c].token] = "active"

OperationKnown == \A c \in Clients : Past(c, "operation") => operation[req[c].op] = None

AuthorityKnown == \A c \in Clients : Past(c, "authority") => Usable(req[c])

CountKnown == \A c \in Clients : Past(c, "count") => ~AtLimit

KeyInv ==
    /\ DOMAIN wrapped = Sealed /\ DOMAIN provider = Clients
    /\ KeyKnown
    /\ SealedUnderSentinel

LedgerInv ==
    /\ DOMAIN operation = Operations /\ DOMAIN applied = Operations
    /\ OperationKnown
    /\ \A o \in Operations : operation[o] = None => applied[o] = 0
    /\ AppliedOnce

LimitInv ==
    /\ DOMAIN authority = Authorities
    /\ CountKnown
    /\ AuthoritiesBounded

(* A certificate that is not there yet has no token, and writers are the   *)
(* parents: a family is no deeper than that.                               *)
CredentialInv ==
    /\ DOMAIN certificate = Certificates /\ DOMAIN issuer = Certificates
    /\ DOMAIN parent = Certificates /\ DOMAIN token = Tokens
    /\ \A x \in Certificates : parent[x] \in Writers \cup {None}
    /\ \A x \in Certificates : certificate[x] = "absent" => token[x] = "absent" /\ parent[x] = None
    /\ TokenKnown
    /\ AuthorityKnown
    /\ RevocationIsComplete

(* The item has only ever had revisions that give every environment the    *)
(* same fields, and a token that is past its check is granted what it asks *)
(* for.                                                                    *)
GrantKnown ==
    \A c \in Clients : Past(c, "token") => req[c].environment \in Granted[req[c].token]

ItemInv ==
    /\ history \in Seq(Snapshot)
    /\ \A n \in 1..Len(history) : Valid(history[n])
    /\ GrantKnown

Inv == ClientInv /\ KeyInv /\ LedgerInv /\ LimitInv /\ CredentialInv /\ ItemInv

-----------------------------------------------------------------------------
(* Plans.                                                                  *)

Plans ==
    {<<"key", "operation", "item", "write">>,
     <<"key", "token", "operation", "item", "write">>,
     <<"operation", "item", "write">>,
     <<"key", "operation", "count", "write">>,
     <<"operation", "authority", "write">>,
     <<"key", "operation", "authority", "write">>,
     <<"operation", "write">>,
     <<"key", "token", "operation", "authority", "write">>,
     <<"token", "target", "operation", "write">>,
     <<"operation", "target", "write">>,
     <<"key", "operation", "write">>,
     <<"key", "write">>}

LEMMA PlanIsPlan ==
  ASSUME NEW r \in Requests
  PROVE  r.action \in DOMAIN Plan /\ Plan[r.action] \in Plans
<1>1. r.action \in DOMAIN Plan
  BY SecretAssumption DEF Request
<1>2. CASE r.action \in VaultWrite \cup {"archive", "unarchive"}
  BY <1>2 DEF Plan, Plans, VaultWrite, Scoped
<1>3. CASE r.action \in {"createAuthority", "revokeAuthority", "issue", "register"}
  BY <1>3 DEF Plan, Plans
<1>4. CASE r.action \in {"revokeCertificate", "deploy", "undeploy", "revoke", "destination", "rotate"}
  BY <1>4 DEF Plan, Plans
<1>5. DOMAIN Plan \subseteq VaultWrite \cup {"archive", "unarchive"}
        \cup {"createAuthority", "revokeAuthority", "issue", "register"}
        \cup {"revokeCertificate", "deploy", "undeploy", "revoke", "destination", "rotate"}
  BY DEF Plan, VaultWrite, Scoped
<1> QED
  BY <1>1, <1>2, <1>3, <1>4, <1>5

LEMMA PlanHead ==
  ASSUME NEW p \in Plans
  PROVE  Head(p) = p[1] /\ 1 \in DOMAIN p /\ DOMAIN p \subseteq Nat \ {0}
  BY DEF Plans

LEMMA PlanNext ==
  ASSUME NEW p \in Plans, NEW i \in DOMAIN p, p[i] # "write"
  PROVE  i + 1 \in DOMAIN p
  BY DEF Plans

LEMMA PlanOnce ==
  ASSUME NEW p \in Plans, NEW i \in DOMAIN p, NEW j \in DOMAIN p, p[i] = p[j]
  PROVE  i = j
  BY DEF Plans

LEMMA NothingBeforeHead ==
  ASSUME NEW p \in Plans, NEW s
  PROVE  ~Before(p, s, Head(p))
  BY PlanHead, PlanOnce DEF Before

LEMMA BeforeNext ==
  ASSUME NEW p \in Plans, NEW s, NEW i \in DOMAIN p, p[i] # "write",
         Before(p, s, p[i + 1])
  PROVE  s = p[i] \/ Before(p, s, p[i])
<1>1. PICK k \in DOMAIN p : p[k] = s /\ k < i + 1
  BY PlanNext, PlanOnce, PlanHead DEF Before
<1>2. k = i \/ k < i
  BY <1>1, PlanHead
<1> QED
  BY <1>1, <1>2 DEF Before

-----------------------------------------------------------------------------
(* What a step of client c does to its transaction.                        *)

(* The next statement finds what it is there to find.                      *)
Checked(c) ==
    /\ At(c, "key") => provider[c] = sentinel
    /\ At(c, "token") => /\ token[req[c].token] = "active"
                         /\ req[c].environment \in Granted[req[c].token]
    /\ At(c, "operation") => operation[req[c].op] = None
    /\ At(c, "authority") => Usable(req[c])
    /\ At(c, "count") => ~AtLimit

Again(c) ==
    /\ ~At(c, "idle")
    /\ pc' = [pc EXCEPT ![c] = Restart(c)]
    /\ locks' = [locks EXCEPT ![c] = {}]
    /\ UNCHANGED req

Forward(c) == pc[c] \notin {"idle", "write"} /\ Ready(c, pc[c]) /\ Checked(c) /\ Advance(c)

Moves(c) ==
    \/ \E r \in Requests : Begin(c, r)
    \/ Forward(c)
    \/ End(c)
    \/ Again(c)

LEMMA BeginPast ==
  ASSUME ClientInv, NEW c \in Clients, NEW r \in Requests, Begin(c, r)
  PROVE  /\ ClientOK'
         /\ locks' = locks
         /\ \A s : ~Past(c, s)'
<1>1. Plan[r.action] \in Plans
  BY PlanIsPlan
<1>2. pc'[c] = Head(Plan[r.action]) /\ req'[c] = r
  BY DEF Begin, ClientInv, ClientOK
<1>3. \A s : ~Past(c, s)'
  BY <1>1, <1>2, NothingBeforeHead DEF Past
<1>4. ClientOK'
  BY <1>1, <1>2, PlanHead DEF Begin, ClientInv, ClientOK, At
<1> QED
  BY <1>3, <1>4 DEF Begin

LEMMA ForwardPast ==
  ASSUME ClientInv, NEW c \in Clients, Forward(c)
  PROVE  /\ ClientOK'
         /\ locks'[c] = locks[c] \cup Wanted(c)
         /\ \A s : Past(c, s)' => s = pc[c] \/ Past(c, s)
<1> DEFINE plan == Plan[req[c].action]
<1>1. req[c] \in Requests
  BY DEF ClientInv, ClientOK, Forward, At
<1>2. plan \in Plans
  BY <1>1, PlanIsPlan
<1>3. PICK i \in DOMAIN plan : plan[i] = pc[c] /\ pc' = [pc EXCEPT ![c] = plan[i + 1]]
  BY DEF Forward, Advance
<1>4. req' = req /\ locks' = [locks EXCEPT ![c] = @ \cup Wanted(c)]
  BY DEF Forward, Advance
<1>5. pc'[c] = plan[i + 1] /\ locks'[c] = locks[c] \cup Wanted(c)
  BY <1>3, <1>4 DEF ClientInv, ClientOK
<1>6. i + 1 \in DOMAIN plan
  BY <1>2, <1>3, PlanNext DEF Forward
<1>7. ASSUME NEW s, Past(c, s)'
      PROVE  s = pc[c] \/ Past(c, s)
  <2>1. Before(plan, s, plan[i + 1])
    BY <1>4, <1>5, <1>7 DEF Past
  <2>2. s = plan[i] \/ Before(plan, s, plan[i])
    BY <2>1, <1>2, <1>3, BeforeNext DEF Forward
  <2> QED
    BY <2>2, <1>3 DEF Past, Forward, At
<1>8. ClientOK'
  <2>1. plan' = plan
    BY <1>4
  <2>2. \A d \in Clients : d # c => pc'[d] = pc[d]
    BY <1>3 DEF ClientInv, ClientOK
  <2>3. DOMAIN pc' = Clients /\ DOMAIN req' = Clients /\ DOMAIN locks' = Clients
    BY <1>3, <1>4 DEF ClientInv, ClientOK
  <2> QED
    BY <2>1, <2>2, <2>3, <1>1, <1>4, <1>5, <1>6 DEF ClientInv, ClientOK, At
<1> QED
  BY <1>5, <1>7, <1>8

LEMMA EndPast ==
  ASSUME ClientInv, NEW c \in Clients, End(c)
  PROVE  /\ ClientOK'
         /\ locks'[c] = {}
         /\ \A s : ~Past(c, s)'
<1>1. pc'[c] = "idle" /\ locks'[c] = {}
  BY DEF End, ClientInv, ClientOK
<1>2. ClientOK'
  BY DEF End, ClientInv, ClientOK, At
<1> QED
  BY <1>1, <1>2 DEF Past, At

LEMMA AgainPast ==
  ASSUME ClientInv, NEW c \in Clients, Again(c)
  PROVE  /\ ClientOK'
         /\ locks'[c] = {}
         /\ \A s : ~Past(c, s)'
<1>1. req[c] \in Requests /\ Plan[req[c].action] \in Plans
  BY PlanIsPlan DEF ClientInv, ClientOK, Again
<1>2. pc'[c] = Head(Plan[req[c].action]) /\ locks'[c] = {} /\ req' = req
  BY DEF Again, Restart, ClientInv, ClientOK
<1>3. \A s : ~Past(c, s)'
  BY <1>1, <1>2, NothingBeforeHead DEF Past
<1>4. ClientOK'
  BY <1>1, <1>2, PlanHead DEF Again, Restart, ClientInv, ClientOK, At
<1> QED
  BY <1>2, <1>3, <1>4

(* The other clients stay where they are, and this one has passed nothing  *)
(* but what it had passed and the statement it was at.                     *)
LEMMA OthersStay ==
  ASSUME ClientInv, NEW c \in Clients, Moves(c)
  PROVE  \A d \in Clients \ {c} :
            pc'[d] = pc[d] /\ req'[d] = req[d] /\ locks'[d] = locks[d]
  BY DEF Moves, Begin, Forward, Advance, End, Again, ClientInv, ClientOK

LEMMA MovePast ==
  ASSUME ClientInv, NEW c \in Clients, Moves(c)
  PROVE  \A d \in Clients : \A s : Past(d, s)' =>
            /\ req'[d] = req[d]
            /\ Past(d, s) \/ (d = c /\ Forward(c) /\ s = pc[c])
<1> SUFFICES ASSUME NEW d \in Clients, NEW s, Past(d, s)'
             PROVE  /\ req'[d] = req[d]
                    /\ Past(d, s) \/ (d = c /\ Forward(c) /\ s = pc[c])
  OBVIOUS
<1>1. CASE d # c
  BY <1>1, OthersStay DEF Past, At
<1>2. CASE d = c /\ ~Forward(c)
  BY <1>2, BeginPast, EndPast, AgainPast DEF Moves
<1>3. CASE d = c /\ Forward(c)
  BY <1>3, ForwardPast DEF Forward, Advance
<1> QED
  BY <1>1, <1>2, <1>3

LEMMA MoveClientOK ==
  ASSUME ClientInv, NEW c \in Clients, Moves(c)
  PROVE  ClientOK'
  BY BeginPast, ForwardPast, EndPast, AgainPast DEF Moves

LEMMA MoveLocks ==
  ASSUME ClientInv, NEW c \in Clients, Moves(c)
  PROVE  LockInv'
<1>1. \A d \in Clients \ {c} : locks'[d] = locks[d]
  BY OthersStay
<1>2. CASE ~Forward(c)
  <2>1. locks'[c] = locks[c] \/ locks'[c] = {}
    BY <1>2, BeginPast, EndPast, AgainPast DEF Moves
  <2> QED
    BY <1>1, <2>1 DEF LockInv, ClientInv
<1>3. CASE Forward(c)
  <2>1. locks'[c] = locks[c] \cup Wanted(c)
    BY <1>3, ForwardPast
  <2>2. ASSUME NEW d \in Clients \ {c}, NEW l \in Wanted(c), NEW h \in locks[d], l[1] = h[1]
        PROVE  Compatible(l[2], h[2]) /\ Compatible(h[2], l[2])
    BY <1>3, <2>2 DEF Forward, Ready, Waits, Compatible
  <2> QED
    BY <1>1, <2>1, <2>2 DEF LockInv, ClientInv
<1> QED
  BY <1>2, <1>3

LEMMA WantedAt ==
  ASSUME NEW c \in Clients
  PROVE  /\ At(c, "key") => Wanted(c) = KeyLock(req[c])
         /\ At(c, "token") => Wanted(c) = TokenLock(req[c])
         /\ At(c, "operation") => Wanted(c) = Exclusive("operation", {req[c].op})
         /\ At(c, "authority") => Wanted(c) = AuthorityLock(req[c])
  BY DEF Wanted, At

LEMMA MoveHeld ==
  ASSUME ClientInv, NEW c \in Clients, Moves(c)
  PROVE  HeldInv'
<1> SUFFICES ASSUME NEW d \in Clients
             PROVE  /\ Past(d, "key")' => KeyLock(req'[d]) \subseteq locks'[d]
                    /\ Past(d, "token")' => TokenLock(req'[d]) \subseteq locks'[d]
                    /\ Past(d, "operation")' => Exclusive("operation", {req'[d].op}) \subseteq locks'[d]
                    /\ Past(d, "authority")' => AuthorityLock(req'[d]) \subseteq locks'[d]
  BY DEF HeldInv
<1>1. CASE d # c
  BY <1>1, OthersStay, MovePast DEF ClientInv, HeldInv
<1>2. CASE d = c /\ ~Forward(c)
  BY <1>2, BeginPast, EndPast, AgainPast DEF Moves
<1>3. CASE d = c /\ Forward(c)
  <2>1. locks'[c] = locks[c] \cup Wanted(c) /\ req'[c] = req[c]
    BY <1>3, ForwardPast DEF Forward, Advance
  <2>2. \A s : Past(c, s)' => Past(c, s) \/ At(c, s)
    BY <1>3, ForwardPast DEF At
  <2>3. Past(c, "key")' => KeyLock(req[c]) \subseteq locks'[c]
    BY <2>1, <2>2, WantedAt DEF ClientInv, HeldInv
  <2>4. Past(c, "token")' => TokenLock(req[c]) \subseteq locks'[c]
    BY <2>1, <2>2, WantedAt DEF ClientInv, HeldInv
  <2>5. Past(c, "operation")' => Exclusive("operation", {req[c].op}) \subseteq locks'[c]
    BY <2>1, <2>2, WantedAt DEF ClientInv, HeldInv
  <2>6. Past(c, "authority")' => AuthorityLock(req[c]) \subseteq locks'[c]
    BY <2>1, <2>2, WantedAt DEF ClientInv, HeldInv
  <2> QED
    BY <1>3, <2>1, <2>3, <2>4, <2>5, <2>6
<1> QED
  BY <1>1, <1>2, <1>3

LEMMA MoveClientInv ==
  ASSUME ClientInv, NEW c \in Clients, Moves(c)
  PROVE  ClientInv'
  BY MoveClientOK, MoveLocks, MoveHeld DEF ClientInv

LEMMA StayClientInv ==
  ASSUME ClientInv, UNCHANGED <<pc, req, locks>>
  PROVE  ClientInv' /\ \A c \in Clients : \A s : Past(c, s)' <=> Past(c, s)
<1>1. ClientOK' /\ LockInv'
  BY DEF ClientInv, ClientOK, LockInv, At
<1>2. \A c \in Clients : \A s : Past(c, s)' <=> Past(c, s)
  BY DEF Past, At
<1>3. HeldInv'
  BY <1>2 DEF ClientInv, HeldInv
<1> QED
  BY <1>1, <1>2, <1>3 DEF ClientInv

-----------------------------------------------------------------------------
(* What has been passed at the end of a plan.                              *)

LEMMA OperationFirst ==
  ASSUME NEW p \in Plans, p # <<"key", "write">>,
         NEW j \in DOMAIN p, p[j] \in {"item", "count", "authority", "write"}
  PROVE  Before(p, "operation", p[j])
<1>1. \/ 1 \in DOMAIN p /\ p[1] = "operation" /\ 1 < j
      \/ 2 \in DOMAIN p /\ p[2] = "operation" /\ 2 < j
      \/ 3 \in DOMAIN p /\ p[3] = "operation" /\ 3 < j
  BY DEF Plans
<1> QED
  BY <1>1 DEF Before

LEMMA WriteLast ==
  ASSUME NEW p \in Plans, NEW i \in DOMAIN p, NEW j \in DOMAIN p,
         p[i] # "write", p[j] = "write"
  PROVE  i < j
  BY DEF Plans

LEMMA PastOperation ==
  ASSUME ClientInv, NEW c \in Clients, pc[c] \in {"item", "count", "authority", "write"},
         At(c, "write") => req[c].action # "rotate"
  PROVE  Past(c, "operation") /\ req[c] \in Requests /\ req[c].op \in Operations
<1> DEFINE p == Plan[req[c].action]
<1>1. req[c] \in Requests /\ \E j \in DOMAIN p : p[j] = pc[c]
  BY DEF ClientInv, ClientOK, At
<1>2. p \in Plans
  BY <1>1, PlanIsPlan
<1>3. p # <<"key", "write">>
  <2>1. CASE At(c, "write")
    <3>1. req[c].action \in DOMAIN Plan \ {"rotate"}
      BY <2>1, <1>1, PlanIsPlan
    <3> QED
      BY <3>1 DEF Plan
  <2>2. CASE ~At(c, "write")
    BY <2>2, <1>1 DEF At
  <2> QED
    BY <2>1, <2>2
<1>4. Before(p, "operation", pc[c])
  BY <1>1, <1>2, <1>3, OperationFirst
<1>5. req[c].action # "rotate"
  BY <1>3 DEF Plan
<1>6. req[c].op \in Operations
  BY <1>1, <1>5, SecretAssumption DEF Request
<1> QED
  BY <1>1, <1>4, <1>6 DEF Past, At

LEMMA PastAtWrite ==
  ASSUME ClientInv, NEW c \in Clients, At(c, "write"),
         NEW i \in DOMAIN Plan[req[c].action], Plan[req[c].action][i] # "write"
  PROVE  Past(c, Plan[req[c].action][i])
<1> DEFINE p == Plan[req[c].action]
<1>1. req[c] \in Requests /\ \E j \in DOMAIN p : p[j] = "write"
  BY DEF ClientInv, ClientOK, At
<1>2. p \in Plans
  BY <1>1, PlanIsPlan
<1>3. PICK j \in DOMAIN p : p[j] = "write"
  BY <1>1
<1>4. i < j
  BY <1>2, <1>3, WriteLast
<1> QED
  BY <1>3, <1>4 DEF Past, At, Before

LEMMA PastKey ==
  ASSUME ClientInv, NEW c \in Clients, At(c, "write"),
         req[c].action \in VaultWrite \cup {"createAuthority", "destination", "rotate"}
  PROVE  Past(c, "key")
<1>1. 1 \in DOMAIN Plan[req[c].action] /\ Plan[req[c].action][1] = "key"
  BY DEF Plan, VaultWrite, Scoped
<1> QED
  BY <1>1, PastAtWrite

LEMMA PastToken ==
  ASSUME ClientInv, NEW c \in Clients, At(c, "write"), req[c].action \in Scoped \cup {"deploy"}
  PROVE  Past(c, "token")
<1>1. 2 \in DOMAIN Plan[req[c].action] /\ Plan[req[c].action][2] = "token"
  BY DEF Plan, Scoped
<1> QED
  BY <1>1, PastAtWrite

LEMMA PastAuthority ==
  ASSUME ClientInv, NEW c \in Clients, At(c, "write"),
         req[c].action \in {"issue", "register", "deploy", "revokeAuthority"}
  PROVE  Past(c, "authority")
<1>1. CASE req[c].action \in {"register", "revokeAuthority"}
  <2>1. 2 \in DOMAIN Plan[req[c].action] /\ Plan[req[c].action][2] = "authority"
    BY <1>1 DEF Plan
  <2> QED
    BY <2>1, PastAtWrite
<1>2. CASE req[c].action = "issue"
  <2>1. 3 \in DOMAIN Plan[req[c].action] /\ Plan[req[c].action][3] = "authority"
    BY <1>2 DEF Plan
  <2> QED
    BY <2>1, PastAtWrite
<1>3. CASE req[c].action = "deploy"
  <2>1. 4 \in DOMAIN Plan[req[c].action] /\ Plan[req[c].action][4] = "authority"
    BY <1>3 DEF Plan
  <2> QED
    BY <2>1, PastAtWrite
<1> QED
  BY <1>1, <1>2, <1>3

LEMMA PastCount ==
  ASSUME ClientInv, NEW c \in Clients, At(c, "write"), req[c].action = "createAuthority"
  PROVE  Past(c, "count")
<1>1. 3 \in DOMAIN Plan[req[c].action] /\ Plan[req[c].action][3] = "count"
  BY DEF Plan
<1> QED
  BY <1>1, PastAtWrite

(* Clients that have both passed a statement with the same exclusive lock  *)
(* are one client.                                                         *)
LEMMA Alone ==
  ASSUME ClientInv, NEW c \in Clients, NEW d \in Clients, NEW k, NEW m,
         <<k, "X">> \in locks[c], <<k, m>> \in locks[d]
  PROVE  c = d
<1>1. <<k, "X">>[1] = <<k, m>>[1] /\ <<k, "X">>[2] = "X" /\ <<k, m>>[2] = m
  OBVIOUS
<1>2. ~Compatible("X", m)
  BY DEF Compatible
<1> QED
  BY <1>1, <1>2 DEF ClientInv, LockInv

-----------------------------------------------------------------------------
(* The kinds of steps.                                                     *)

(* Nothing but the client's own transaction and the vault changes.         *)
Quiet(c) == Moves(c) /\ UNCHANGED <<credentialVars, keyVars, ledgerVars, provider>>

LEMMA ConcludeMoves ==
  ASSUME NEW c \in Clients, NEW outcome, Conclude(c, outcome)
  PROVE  Moves(c)
  BY DEF Conclude, Moves

LEMMA QuietSteps ==
  ASSUME NEW c \in Clients,
         \/ \E r \in Requests : Begin(c, r)
         \/ LockMasterKey(c)
         \/ AuthorizeScopedWrite(c)
         \/ BeginOperation(c)
         \/ LockItem(c)
         \/ ForbidVault(c)
         \/ LockTarget(c)
         \/ RetryDeadlock(c)
         \/ Abort(c)
  PROVE  Quiet(c)
<1>1. ASSUME NEW r \in Requests, Begin(c, r)
      PROVE  Quiet(c)
  BY <1>1 DEF Quiet, Moves, Begin
<1>2. CASE LockMasterKey(c)
  <2>1. End(c) \/ Forward(c)
    BY <1>2 DEF LockMasterKey, Forward, Ready, At, Checked
  <2> QED
    BY <1>2, <2>1 DEF LockMasterKey, Quiet, Moves
<1>3. CASE AuthorizeScopedWrite(c)
  <2>1. End(c) \/ Forward(c)
    BY <1>3 DEF AuthorizeScopedWrite, Forward, Ready, At, Checked
  <2> QED
    BY <1>3, <2>1 DEF AuthorizeScopedWrite, Quiet, Moves
<1>4. CASE BeginOperation(c)
  <2>1. End(c) \/ Forward(c)
    BY <1>4 DEF BeginOperation, Forward, Ready, At, Checked
  <2> QED
    BY <1>4, <2>1 DEF BeginOperation, Quiet, Moves
<1>5. CASE LockItem(c)
  <2>1. Forward(c)
    BY <1>5 DEF LockItem, Forward, Ready, At, Checked
  <2> QED
    BY <1>5, <2>1 DEF LockItem, Quiet, Moves
<1>6. CASE ForbidVault(c)
  BY <1>6 DEF ForbidVault, Fail, Quiet, Moves
<1>7. CASE LockTarget(c)
  <2>1. End(c) \/ Forward(c)
    BY <1>7 DEF LockTarget, Forward, Ready, At, Checked
  <2> QED
    BY <1>7, <2>1 DEF LockTarget, Quiet, Moves
<1>8. CASE RetryDeadlock(c)
  <2>1. ~At(c, "idle")
    BY <1>8 DEF RetryDeadlock, Deadlocked, Waits, Wanted, At
  <2>2. End(c) \/ Again(c)
    BY <1>8, <2>1 DEF RetryDeadlock, Again
  <2> QED
    BY <1>8, <2>2 DEF RetryDeadlock, Quiet, Moves
<1>9. CASE Abort(c)
  BY <1>9 DEF Abort, Fail, Quiet, Moves
<1> QED
  BY <1>1, <1>2, <1>3, <1>4, <1>5, <1>6, <1>7, <1>8, <1>9


(* The operation ends, and with it the transaction.                        *)
Concludes(c) ==
    /\ Past(c, "operation")
    /\ req[c] \in Requests /\ req[c].op \in Operations
    /\ \E outcome \in Outcome : Conclude(c, outcome)

(* A record is sealed with the key the process has.                        *)
Seals(c) ==
    /\ Concludes(c)
    /\ Past(c, "key")
    /\ \E s : wrapped' = [wrapped EXCEPT ![s] = provider[c]]
    /\ UNCHANGED <<sentinel, provider>>

(* Nothing is sealed.                                                      *)
Keeps(c) == Concludes(c) /\ UNCHANGED <<keyVars, provider>>

Credential(c) ==
    \/ IssueClientCertificate(c)
    \/ IssueDeploymentCredential(c)
    \/ RegisterCertificate(c)
    \/ RevokeClientCertificate(c)
    \/ RevokeCertificateAuthority(c)
    \/ RevokeToken(c)

LEMMA ConcludeSteps ==
  ASSUME ClientInv, NEW c \in Clients, pc[c] \in {"count", "authority", "write"},
         At(c, "write") => req[c].action # "rotate",
         NEW outcome \in Outcome, Conclude(c, outcome)
  PROVE  Concludes(c)
  BY PastOperation DEF Concludes

LEMMA CredentialKeeps ==
  ASSUME ClientInv, NEW c \in Clients, Credential(c)
  PROVE  Keeps(c)
<1>1. At(c, "write") /\ req[c].action # "rotate" /\ UNCHANGED <<keyVars, provider>>
  BY DEF Credential, IssueClientCertificate, IssueDeploymentCredential, RegisterCertificate,
         RevokeClientCertificate, RevokeCertificateAuthority, RevokeToken, Ready, Decline
<1>2. \E outcome \in Outcome : Conclude(c, outcome)
  BY DEF Credential, IssueClientCertificate, IssueDeploymentCredential, RegisterCertificate,
         RevokeClientCertificate, RevokeCertificateAuthority, RevokeToken, Decline, Outcome
<1> QED
  BY <1>1, <1>2, ConcludeSteps DEF At, Keeps

LEMMA VaultSteps ==
  ASSUME ClientInv, NEW c \in Clients,
         \/ RefuseVault(c)
         \/ CommitVault(c)
         \/ DeleteItem(c)
         \/ ApplyVaultLifecycleChange(c)
         \/ CommitNotificationDestination(c)
  PROVE  (Keeps(c) \/ Seals(c)) /\ UNCHANGED credentialVars
<1>1. CASE RefuseVault(c)
  <2>1. At(c, "write") /\ req[c].action # "rotate"
    BY <1>1 DEF RefuseVault, Ready, VaultWrite, Scoped
  <2>2. \E outcome \in Outcome : Decline(c, outcome)
    BY <1>1 DEF RefuseVault, Outcome
  <2> QED
    BY <2>1, <2>2, ConcludeSteps DEF At, Keeps, Decline
<1>2. CASE CommitVault(c)
  <2>1. At(c, "write") /\ req[c].action # "rotate" /\ req[c].action \in VaultWrite
    BY <1>2 DEF CommitVault, Proceeds, Ready, VaultWrite, Scoped
  <2>2. CASE \E outcome \in Outcome : Decline(c, outcome)
    BY <2>1, <2>2, ConcludeSteps DEF At, Keeps, Decline
  <2>3. CASE Conclude(c, "success") /\ \E s : wrapped' = [wrapped EXCEPT ![s] = provider[c]]
             /\ UNCHANGED <<sentinel, credentialVars, provider>>
    BY <2>1, <2>3, ConcludeSteps, PastKey DEF At, Seals, Outcome
  <2> QED
    BY <1>2, <2>2, <2>3 DEF CommitVault, Outcome
<1>3. CASE DeleteItem(c)
  <2>1. At(c, "write") /\ req[c].action # "rotate" /\ "success" \in Outcome
    BY <1>3 DEF DeleteItem, Proceeds, Ready, Outcome
  <2> QED
    BY <1>3, <2>1, ConcludeSteps DEF At, Keeps, DeleteItem
<1>4. CASE ApplyVaultLifecycleChange(c)
  <2>1. At(c, "write") /\ req[c].action # "rotate"
    BY <1>4 DEF ApplyVaultLifecycleChange, Ready
  <2>2. /\ \E outcome \in Outcome : Conclude(c, outcome)
        /\ UNCHANGED <<credentialVars, keyVars, provider>>
    BY <1>4 DEF ApplyVaultLifecycleChange, Decline, Outcome
  <2> QED
    BY <2>1, <2>2, ConcludeSteps DEF At, Keeps
<1>5. CASE CommitNotificationDestination(c)
  <2>1. At(c, "write") /\ req[c].action = "destination" /\ "success" \in Outcome
    BY <1>5 DEF CommitNotificationDestination, Ready, Outcome
  <2>2. Concludes(c) /\ Past(c, "key")
    BY <1>5, <2>1, ConcludeSteps, PastKey DEF At, CommitNotificationDestination
  <2> QED
    BY <1>5, <2>2 DEF CommitNotificationDestination, Seals
<1> QED
  BY <1>1, <1>2, <1>3, <1>4, <1>5

LEMMA CreateSeals ==
  ASSUME ClientInv, NEW c \in Clients, CreateAuthority(c)
  PROVE  Seals(c)
<1>1. At(c, "write") /\ req[c].action = "createAuthority" /\ "success" \in Outcome
  BY DEF CreateAuthority, Ready, Outcome
<1>2. Concludes(c) /\ Past(c, "key")
  BY <1>1, ConcludeSteps, PastKey DEF At, CreateAuthority
<1> QED
  BY <1>2 DEF CreateAuthority, Seals

LEMMA CheckSteps ==
  ASSUME ClientInv, NEW c \in Clients, CountAuthorities(c) \/ LockAuthority(c)
  PROVE  Quiet(c) \/ (Keeps(c) /\ UNCHANGED credentialVars)
<1>1. CASE CountAuthorities(c)
  <2>1. \/ Forward(c) /\ UNCHANGED <<credentialVars, keyVars, ledgerVars, provider>>
        \/ Decline(c, "validation_failed")
    BY <1>1 DEF CountAuthorities, Forward, Ready, At, Checked
  <2>2. CASE Forward(c) /\ UNCHANGED <<credentialVars, keyVars, ledgerVars, provider>>
    BY <2>2 DEF Quiet, Moves
  <2>3. CASE Decline(c, "validation_failed")
    <3>1. At(c, "count") /\ "validation_failed" \in Outcome
      BY <1>1 DEF CountAuthorities, Ready, Outcome
    <3> QED
      BY <2>3, <3>1, ConcludeSteps DEF At, Keeps, Decline
  <2> QED
    BY <2>1, <2>2, <2>3
<1>2. CASE LockAuthority(c)
  <2>1. \/ Forward(c) /\ UNCHANGED <<credentialVars, keyVars, ledgerVars, provider>>
        \/ Decline(c, "validation_failed")
        \/ Fail(c)
    BY <1>2 DEF LockAuthority, Forward, Ready, At, Checked
  <2>2. CASE Forward(c) /\ UNCHANGED <<credentialVars, keyVars, ledgerVars, provider>>
    BY <2>2 DEF Quiet, Moves
  <2>3. CASE Decline(c, "validation_failed")
    <3>1. At(c, "authority") /\ "validation_failed" \in Outcome
      BY <1>2 DEF LockAuthority, Ready, Outcome
    <3> QED
      BY <2>3, <3>1, ConcludeSteps DEF At, Keeps, Decline
  <2>4. CASE Fail(c)
    BY <2>4 DEF Fail, Quiet, Moves
  <2> QED
    BY <2>1, <2>2, <2>3, <2>4
<1> QED
  BY <1>1, <1>2

LEMMA NextKinds ==
  ASSUME ClientInv, Next
  PROVE  \E c \in Clients :
            \/ Quiet(c)
            \/ (Keeps(c) \/ Seals(c)) /\ UNCHANGED credentialVars
            \/ Seals(c) /\ CreateAuthority(c)
            \/ Keeps(c) /\ Credential(c)
            \/ RotateMasterKey(c)
            \/ OpenStore(c)
<1>1. PICK c \in Clients :
        \/ \E r \in Requests : Begin(c, r)
        \/ LockMasterKey(c)
        \/ AuthorizeScopedWrite(c)
        \/ BeginOperation(c)
        \/ LockItem(c)
        \/ RefuseVault(c)
        \/ ForbidVault(c)
        \/ CommitVault(c)
        \/ DeleteItem(c)
        \/ ApplyVaultLifecycleChange(c)
        \/ CountAuthorities(c)
        \/ CreateAuthority(c)
        \/ LockAuthority(c)
        \/ Credential(c)
        \/ LockTarget(c)
        \/ CommitNotificationDestination(c)
        \/ RotateMasterKey(c)
        \/ RetryDeadlock(c)
        \/ Abort(c)
        \/ OpenStore(c)
  BY DEF Next, Credential
<1> QED
  BY <1>1, QuietSteps, VaultSteps, CreateSeals, CredentialKeeps, CheckSteps

LEMMA NextClientInv ==
  ASSUME ClientInv, [Next]_vars
  PROVE  ClientInv'
<1>1. CASE UNCHANGED vars
  BY <1>1, StayClientInv DEF vars, clientVars
<1>2. CASE Next
  <2>1. PICK c \in Clients : Moves(c) \/ UNCHANGED <<pc, req, locks>>
    BY <1>2, NextKinds, ConcludeMoves
       DEF Quiet, Keeps, Seals, Concludes, RotateMasterKey, Moves, OpenStore, clientVars
  <2> QED
    BY <2>1, MoveClientInv, StayClientInv
<1> QED
  BY <1>1, <1>2

-----------------------------------------------------------------------------
(* The ledger of operations.                                               *)

LEMMA QuietLedger ==
  ASSUME ClientInv, LedgerInv, NEW c \in Clients, Moves(c), UNCHANGED ledgerVars
  PROVE  LedgerInv'
<1>1. OperationKnown'
  BY MovePast DEF LedgerInv, OperationKnown, Forward, Checked, At, ledgerVars
<1> QED
  BY <1>1 DEF LedgerInv, AppliedOnce, ledgerVars

LEMMA ConcludePast ==
  ASSUME ClientInv, NEW c \in Clients, Concludes(c)
  PROVE  /\ Moves(c)
         /\ \A d \in Clients : \A s : Past(d, s)' =>
                d # c /\ req'[d] = req[d] /\ Past(d, s)
<1>1. Moves(c) /\ End(c)
  BY ConcludeMoves DEF Concludes, Conclude
<1> QED
  BY <1>1, EndPast, MovePast

LEMMA ConcludeLedger ==
  ASSUME ClientInv, LedgerInv, NEW c \in Clients, Concludes(c)
  PROVE  LedgerInv'
<1> DEFINE o == req[c].op
<1>1. PICK outcome \in Outcome : Conclude(c, outcome)
  BY DEF Concludes
<1>2. /\ operation' = [operation EXCEPT ![o] = outcome]
      /\ applied' = [applied EXCEPT ![o] = IF outcome = "success" THEN @ + 1 ELSE @]
      /\ o \in Operations /\ operation[o] = None /\ applied[o] = 0
  BY <1>1 DEF Conclude, Concludes, LedgerInv, OperationKnown
<1>4. ASSUME NEW d \in Clients, Past(d, "operation")'
      PROVE  operation'[req'[d].op] = None
  <2>1. req'[d] = req[d] /\ Past(d, "operation") /\ d # c
    BY <1>4, ConcludePast
  <2>2. /\ <<<<"operation", o>>, "X">> \in locks[c]
        /\ <<<<"operation", req[d].op>>, "X">> \in locks[d]
    BY <2>1 DEF Concludes, ClientInv, HeldInv, Exclusive
  <2>3. req[d].op # o
    BY <2>1, <2>2, Alone
  <2> QED
    BY <1>2, <2>1, <2>3 DEF LedgerInv, OperationKnown
<1>5. /\ \A p \in Operations : operation'[p] = None => applied'[p] = 0
      /\ AppliedOnce'
  BY <1>2, SecretAssumption DEF LedgerInv, AppliedOnce
<1> QED
  BY <1>2, <1>4, <1>5 DEF LedgerInv, OperationKnown

LEMMA NextLedgerInv ==
  ASSUME ClientInv, LedgerInv, [Next]_vars
  PROVE  LedgerInv'
<1>1. ASSUME UNCHANGED <<pc, req, locks, ledgerVars>>
      PROVE  LedgerInv'
  <2>1. OperationKnown'
    BY <1>1, StayClientInv DEF LedgerInv, OperationKnown, ledgerVars
  <2> QED
    BY <1>1, <2>1 DEF LedgerInv, AppliedOnce, ledgerVars
<1>2. CASE UNCHANGED vars
  BY <1>1, <1>2 DEF vars, clientVars
<1>3. CASE Next
  <2>1. PICK c \in Clients :
          \/ Moves(c) /\ UNCHANGED ledgerVars
          \/ Concludes(c)
          \/ UNCHANGED <<pc, req, locks, ledgerVars>>
    BY <1>3, NextKinds
       DEF Quiet, Keeps, Seals, RotateMasterKey, Moves, OpenStore, clientVars
  <2> QED
    BY <2>1, <1>1, QuietLedger, ConcludeLedger
<1> QED
  BY <1>2, <1>3

-----------------------------------------------------------------------------
(* The master key.                                                         *)

LEMMA QuietKey ==
  ASSUME ClientInv, KeyInv, NEW c \in Clients, Moves(c), UNCHANGED <<keyVars, provider>>
  PROVE  KeyInv'
<1>1. KeyKnown'
  BY MovePast DEF KeyInv, KeyKnown, Forward, Checked, At, keyVars
<1> QED
  BY <1>1 DEF KeyInv, SealedUnderSentinel, keyVars

LEMMA SealKey ==
  ASSUME ClientInv, KeyInv, NEW c \in Clients, Seals(c)
  PROVE  KeyInv'
<1>1. Moves(c)
  BY ConcludeMoves DEF Seals, Concludes
<1>2. KeyKnown'
  BY <1>1, MovePast DEF KeyInv, KeyKnown, Forward, Checked, At, Seals
<1>3. DOMAIN wrapped' = Sealed /\ SealedUnderSentinel'
  BY DEF Seals, KeyInv, KeyKnown, SealedUnderSentinel
<1> QED
  BY <1>2, <1>3 DEF KeyInv, Seals

(* Every other client is at a statement before the sentinel's lock, or in  *)
(* a request that seals nothing.                                           *)
LEMMA RotateKey ==
  ASSUME ClientInv, KeyInv, NEW c \in Clients, RotateMasterKey(c)
  PROVE  KeyInv'
<1>1. Moves(c)
  BY DEF RotateMasterKey, Moves
<1>2. <<<<"sentinel", None>>, "X">> \in locks[c]
  <2>1. Past(c, "key")
    BY PastKey DEF RotateMasterKey, Ready
  <2> QED
    BY <2>1 DEF ClientInv, HeldInv, KeyLock, RotateMasterKey
<1>3. ASSUME NEW d \in Clients
      PROVE  ~Past(d, "key")'
  <2>1. CASE d = c
    BY <2>1, EndPast DEF RotateMasterKey
  <2>2. CASE d # c
    <3>1. ~Past(d, "key")
      BY <1>2, <2>2, Alone DEF ClientInv, HeldInv, KeyLock
    <3> QED
      BY <1>1, <2>2, <3>1, MovePast
  <2> QED
    BY <2>1, <2>2
<1>4. DOMAIN wrapped' = Sealed /\ SealedUnderSentinel'
  BY DEF RotateMasterKey, KeyInv, SealedUnderSentinel
<1> QED
  BY <1>3, <1>4 DEF KeyInv, KeyKnown, RotateMasterKey

LEMMA OpenKey ==
  ASSUME ClientInv, KeyInv, NEW c \in Clients, OpenStore(c)
  PROVE  KeyInv'
<1>1. KeyKnown'
  <2>1. \A d \in Clients : Past(d, "key")' <=> Past(d, "key")
    BY StayClientInv DEF OpenStore, clientVars
  <2> QED
    BY <2>1 DEF OpenStore, KeyInv, KeyKnown, keyVars
<1> QED
  BY <1>1 DEF OpenStore, KeyInv, SealedUnderSentinel, keyVars

LEMMA NextKeyInv ==
  ASSUME ClientInv, KeyInv, [Next]_vars
  PROVE  KeyInv'
<1>1. CASE UNCHANGED vars
  <2>1. \A d \in Clients : Past(d, "key")' <=> Past(d, "key")
    BY <1>1, StayClientInv DEF vars, clientVars
  <2> QED
    BY <1>1, <2>1 DEF KeyInv, KeyKnown, SealedUnderSentinel, vars, keyVars
<1>2. CASE Next
  <2>1. PICK c \in Clients :
          \/ Moves(c) /\ UNCHANGED <<keyVars, provider>>
          \/ Seals(c)
          \/ RotateMasterKey(c)
          \/ OpenStore(c)
    BY <1>2, NextKinds, ConcludeMoves DEF Quiet, Keeps, Concludes
  <2> QED
    BY <2>1, QuietKey, SealKey, RotateKey, OpenKey
<1> QED
  BY <1>1, <1>2

-----------------------------------------------------------------------------
(* The limit of authorities.                                               *)

Active == {a \in Authorities : authority[a] = "active"}

LEMMA ActiveFinite == IsFiniteSet(Active) /\ Cardinality(Active) \in Nat
<1>1. IsFiniteSet(Active)
  BY SecretAssumption, FS_Subset DEF Active
<1> QED
  BY <1>1, FS_CardinalityType

LEMMA CountIsCreate ==
  ASSUME ClientInv, NEW c \in Clients, Past(c, "count")
  PROVE  At(c, "write") /\ req[c].action = "createAuthority"
<1> DEFINE p == Plan[req[c].action]
<1>1. p \in Plans /\ req[c].action \in DOMAIN Plan
  BY PlanIsPlan DEF ClientInv, ClientOK, Past
<1>2. PICK i, j \in DOMAIN p : i < j /\ p[i] = "count" /\ p[j] = pc[c]
  BY DEF Past, Before
<1>3. p[j] = "write"
  BY <1>1, <1>2 DEF Plans
<1>4. req[c].action = "createAuthority"
  BY <1>1, <1>2 DEF Plan
<1> QED
  BY <1>2, <1>3, <1>4 DEF At

LEMMA QuietLimit ==
  ASSUME ClientInv, LimitInv, NEW c \in Clients, Moves(c), UNCHANGED authority
  PROVE  LimitInv'
<1>1. AtLimit' <=> AtLimit
  BY DEF AtLimit
<1>2. CountKnown'
  BY <1>1, MovePast DEF LimitInv, CountKnown, Forward, Checked, At
<1> QED
  BY <1>2 DEF LimitInv, AuthoritiesBounded

(* Whoever creates an authority is the only one past the count.            *)
LEMMA CreateLimit ==
  ASSUME ClientInv, LimitInv, NEW c \in Clients, Seals(c), CreateAuthority(c)
  PROVE  LimitInv'
<1> DEFINE a == req[c].authority
<1>1. /\ At(c, "write") /\ req[c].action = "createAuthority"
      /\ authority' = [authority EXCEPT ![a] = "active"]
  BY DEF CreateAuthority, Ready
<1>2. <<<<"sentinel", None>>, "X">> \in locks[c]
  BY <1>1 DEF Seals, ClientInv, HeldInv, KeyLock
<1>3. ASSUME NEW d \in Clients, Past(d, "count")'
      PROVE  FALSE
  <2>1. d # c /\ Past(d, "count")
    BY <1>3, ConcludePast DEF Seals
  <2>2. Past(d, "key")
    BY <2>1, CountIsCreate, PastKey
  <2>3. \E m : <<<<"sentinel", None>>, m>> \in locks[d]
    BY <2>2 DEF ClientInv, HeldInv, KeyLock
  <2> QED
    BY <1>2, <2>1, <2>3, Alone
<1>4. Cardinality(Active') <= Limit
  <2>1. ~AtLimit
    BY <1>1, PastCount DEF LimitInv, CountKnown
  <2>2. Cardinality(Active) + 1 <= Limit
    BY <2>1, ActiveFinite, SecretAssumption DEF AtLimit, Active
  <2>3. Active' \subseteq Active \cup {a}
    BY <1>1 DEF LimitInv, Active
  <2>4. /\ IsFiniteSet(Active \cup {a})
        /\ Cardinality(Active \cup {a}) <= Cardinality(Active) + 1
        /\ Cardinality(Active \cup {a}) \in Nat
    <3> HIDE DEF a
    <3>1. /\ IsFiniteSet(Active \cup {a})
          /\ Cardinality(Active \cup {a}) =
                IF a \in Active THEN Cardinality(Active) ELSE Cardinality(Active) + 1
      BY ActiveFinite, FS_AddElement
    <3> QED
      BY <3>1, ActiveFinite
  <2>5. Cardinality(Active') <= Cardinality(Active \cup {a}) /\ Cardinality(Active') \in Nat
    BY <2>3, <2>4, FS_Subset, FS_CardinalityType
  <2> QED
    BY <2>2, <2>4, <2>5, ActiveFinite, SecretAssumption
<1> QED
  BY <1>1, <1>3, <1>4 DEF LimitInv, CountKnown, AuthoritiesBounded, Active

LEMMA RevokeLimit ==
  ASSUME ClientInv, LimitInv, NEW c \in Clients, Moves(c),
         NEW S, authority' = Revoke(authority, S)
  PROVE  LimitInv'
<1>1. DOMAIN authority' = Authorities /\ Active' \subseteq Active
  BY DEF LimitInv, Revoke, Active
<1>2. Cardinality(Active') <= Cardinality(Active) /\ Cardinality(Active') \in Nat
  BY <1>1, ActiveFinite, FS_Subset, FS_CardinalityType
<1>3. ~AtLimit => ~AtLimit'
  BY <1>2, ActiveFinite, SecretAssumption DEF AtLimit, Active
<1>4. CountKnown'
  BY <1>3, MovePast DEF LimitInv, CountKnown, Forward, Checked, At
<1>5. AuthoritiesBounded'
  BY <1>2, ActiveFinite, SecretAssumption DEF LimitInv, AuthoritiesBounded, Active
<1> QED
  BY <1>1, <1>4, <1>5 DEF LimitInv

LEMMA NextLimitInv ==
  ASSUME ClientInv, LimitInv, [Next]_vars
  PROVE  LimitInv'
<1>1. ASSUME UNCHANGED <<pc, req, locks, authority>>
      PROVE  LimitInv'
  <2>1. CountKnown'
    BY <1>1, StayClientInv DEF LimitInv, CountKnown, AtLimit
  <2> QED
    BY <1>1, <2>1 DEF LimitInv, AuthoritiesBounded
<1>2. CASE UNCHANGED vars
  BY <1>1, <1>2 DEF vars, clientVars, credentialVars
<1>3. CASE Next
  <2>1. PICK c \in Clients :
          \/ Moves(c) /\ UNCHANGED authority
          \/ Seals(c) /\ CreateAuthority(c)
          \/ Moves(c) /\ Credential(c)
          \/ UNCHANGED <<pc, req, locks, authority>>
    BY <1>3, NextKinds, ConcludeMoves
       DEF Quiet, Keeps, Seals, Concludes, RotateMasterKey, Moves, OpenStore,
           clientVars, credentialVars
  <2>2. ASSUME Moves(c), Credential(c)
        PROVE  UNCHANGED authority \/ \E S : authority' = Revoke(authority, S)
    BY <2>2 DEF Credential, IssueClientCertificate, IssueDeploymentCredential, RegisterCertificate,
         RevokeClientCertificate, RevokeCertificateAuthority, RevokeToken, Decline, credentialVars
  <2> QED
    BY <2>1, <2>2, <1>1, QuietLimit, CreateLimit, RevokeLimit
<1> QED
  BY <1>2, <1>3

-----------------------------------------------------------------------------
(* Authorities, certificates and tokens.                                   *)

LEMMA TokenIsWriter ==
  ASSUME ClientInv, NEW c \in Clients, Past(c, "token")
  PROVE  req[c].token \in Writers /\ req[c].token \in Tokens
<1> DEFINE p == Plan[req[c].action]
<1>1. req[c] \in Requests /\ req[c].action \in DOMAIN Plan
  BY PlanIsPlan DEF ClientInv, ClientOK, Past
<1>2. PICK i \in DOMAIN p : p[i] = "token"
  BY DEF Past, Before
<1>3. req[c].action \in Scoped \cup {"deploy", "undeploy"}
  BY <1>1, <1>2 DEF Plan, Scoped
<1> QED
  BY <1>1, <1>3, SecretAssumption DEF Tokens

LEMMA PastRequest ==
  ASSUME ClientInv, NEW c \in Clients, NEW s, Past(c, s)
  PROVE  req[c] \in Requests /\ req[c].authority \in Authorities \cup {None}
  BY SecretAssumption DEF Past, ClientInv, ClientOK, Request

LEMMA QuietCredential ==
  ASSUME ClientInv, CredentialInv, NEW c \in Clients, Moves(c), UNCHANGED credentialVars
  PROVE  CredentialInv'
<1>1. TokenKnown'
  BY MovePast DEF CredentialInv, TokenKnown, Forward, Checked, At, credentialVars
<1>2. AuthorityKnown'
  BY MovePast DEF CredentialInv, AuthorityKnown, Usable, Forward, Checked, At, credentialVars
<1>3. RevocationIsComplete'
  BY DEF CredentialInv, RevocationIsComplete, Issued, credentialVars
<1> QED
  BY <1>1, <1>2, <1>3 DEF CredentialInv, credentialVars

(* What the transactions of others know survives what ends a transaction,  *)
(* if the tokens and authorities stay.                                     *)
LEMMA KeepTokens ==
  ASSUME ClientInv, CredentialInv, NEW c \in Clients, Concludes(c),
         \A t \in Writers : token'[t] = token[t]
  PROVE  TokenKnown'
<1> SUFFICES ASSUME NEW d \in Clients, Past(d, "token")'
             PROVE  token'[req'[d].token] = "active"
  BY DEF TokenKnown
<1>1. Past(d, "token") /\ req'[d] = req[d]
  BY ConcludePast
<1>2. req[d].token \in Writers
  BY <1>1, TokenIsWriter
<1> QED
  BY <1>1, <1>2 DEF CredentialInv, TokenKnown

LEMMA KeepAuthorities ==
  ASSUME ClientInv, CredentialInv, NEW c \in Clients, Concludes(c),
         \A a \in Authorities : authority[a] = "active" => authority'[a] = "active"
  PROVE  AuthorityKnown'
<1> SUFFICES ASSUME NEW d \in Clients, Past(d, "authority")'
             PROVE  Usable(req[d])'
  BY DEF AuthorityKnown
<1>1. Past(d, "authority") /\ req'[d] = req[d]
  BY ConcludePast
<1>2. req[d].authority \in Authorities \cup {None}
  BY <1>1, PastRequest
<1>3. Usable(req[d])
  BY <1>1 DEF CredentialInv, AuthorityKnown
<1> QED
  BY <1>1, <1>2, <1>3 DEF Usable

LEMMA CreateCredential ==
  ASSUME ClientInv, CredentialInv, NEW c \in Clients, Seals(c), CreateAuthority(c),
         DOMAIN authority = Authorities
  PROVE  CredentialInv'
<1>1. authority' = [authority EXCEPT ![req[c].authority] = "active"] /\ Concludes(c)
      /\ UNCHANGED <<certificate, issuer, token, parent>>
  BY DEF CreateAuthority, Seals
<1>2. TokenKnown' /\ AuthorityKnown'
  BY <1>1, KeepTokens, KeepAuthorities
<1>3. RevocationIsComplete'
  BY <1>1 DEF CredentialInv, RevocationIsComplete, Issued
<1> QED
  BY <1>1, <1>2, <1>3 DEF CredentialInv

(* The authority that signs is locked and active.                          *)
LEMMA SignerActive ==
  ASSUME ClientInv, CredentialInv, NEW c \in Clients, At(c, "write"),
         req[c].action \in {"issue", "register", "deploy"}
  PROVE  /\ req[c].authority \in Authorities => authority[req[c].authority] = "active"
         /\ req[c].certificate \in Certificates
<1>1. Past(c, "authority")
  BY PastAuthority
<1>2. Usable(req[c]) /\ req[c] \in Requests
  BY <1>1, PastRequest DEF CredentialInv, AuthorityKnown
<1> QED
  BY <1>2, SecretAssumption DEF Usable

LEMMA CertifyCredential ==
  ASSUME ClientInv, CredentialInv, NEW c \in Clients, Concludes(c),
         NEW x \in Certificates, NEW a, Certify(x, a),
         a \in Authorities => authority[a] = "active",
         UNCHANGED <<authority, token, parent>>
  PROVE  CredentialInv'
<1>1. TokenKnown' /\ AuthorityKnown'
  BY KeepTokens, KeepAuthorities
<1>2. /\ certificate' = [certificate EXCEPT ![x] = "active"]
      /\ issuer' = [issuer EXCEPT ![x] = a]
      /\ token[x] = "absent" /\ parent[x] = None
  BY DEF Certify, CredentialInv
<1>3. RevocationIsComplete'
  <2>1. ASSUME NEW b \in Authorities, authority'[b] = "revoked", NEW y \in Certificates, issuer'[y] = b
        PROVE  certificate'[y] # "active"
    BY <1>2, <2>1 DEF CredentialInv, RevocationIsComplete, Issued
  <2>2. ASSUME NEW y \in Certificates, NEW t \in Tokens, t \in {y, parent'[y]}, token'[t] = "revoked"
        PROVE  token'[y] # "active" /\ certificate'[y] # "active"
    BY <1>2, <2>2, SecretAssumption DEF CredentialInv, RevocationIsComplete
  <2> QED
    BY <2>1, <2>2 DEF RevocationIsComplete, Issued
<1> QED
  BY <1>1, <1>2, <1>3 DEF CredentialInv

(* The token of the writer is locked and active.                           *)
LEMMA DeployCredential ==
  ASSUME ClientInv, CredentialInv, NEW c \in Clients, Concludes(c), IssueDeploymentCredential(c)
  PROVE  CredentialInv'
<1> DEFINE x == req[c].certificate
           a == req[c].authority
           w == req[c].token
<1>1. At(c, "write") /\ req[c].action = "deploy"
  BY DEF IssueDeploymentCredential, Ready
<1>2. /\ x \in Certificates
      /\ a \in Authorities => authority[a] = "active"
  BY <1>1, SignerActive
<1>3. w \in Writers /\ token[w] = "active" /\ w \notin Certificates
  BY <1>1, PastToken, TokenIsWriter, SecretAssumption DEF CredentialInv, TokenKnown
<1>4. /\ certificate[x] = "absent" /\ token[x] = "absent" /\ parent[x] = None
      /\ certificate' = [certificate EXCEPT ![x] = "active"]
      /\ issuer' = [issuer EXCEPT ![x] = a]
      /\ token' = [token EXCEPT ![x] = "active"]
      /\ parent' = [parent EXCEPT ![x] = w]
      /\ authority' = authority
  BY <1>2 DEF IssueDeploymentCredential, Certify, CredentialInv
<1> HIDE DEF x, a, w
<1>5. \A t \in Tokens \ {x} : token'[t] = token[t]
  BY <1>4 DEF CredentialInv
<1>6. TokenKnown' /\ AuthorityKnown'
  BY <1>2, <1>4, <1>5, SecretAssumption, KeepTokens, KeepAuthorities DEF Tokens
<1>7. RevocationIsComplete'
  <2>1. ASSUME NEW b \in Authorities, authority'[b] = "revoked", NEW y \in Certificates, issuer'[y] = b
        PROVE  certificate'[y] # "active"
    BY <1>2, <1>4, <2>1 DEF CredentialInv, RevocationIsComplete, Issued
  <2>2. ASSUME NEW y \in Certificates, NEW t \in Tokens, t \in {y, parent'[y]}, token'[t] = "revoked"
        PROVE  token'[y] # "active" /\ certificate'[y] # "active"
    <3>1. CASE y = x
      BY <3>1, <1>2, <1>3, <1>4, <2>2 DEF CredentialInv, Tokens
    <3>2. CASE y # x
      <4>1. /\ parent'[y] = parent[y] /\ certificate'[y] = certificate[y]
            /\ token'[y] = token[y]
        BY <3>2, <1>2, <1>4, <1>5 DEF CredentialInv, Tokens
      <4>2. t # x /\ token[t] = "revoked"
        BY <1>2, <1>4, <1>5, <2>2 DEF CredentialInv, Tokens
      <4> QED
        BY <4>1, <4>2, <2>2 DEF CredentialInv, RevocationIsComplete
    <3> QED
      BY <3>1, <3>2
  <2> QED
    BY <2>1, <2>2 DEF RevocationIsComplete, Issued
<1>8. \A y \in Certificates : certificate'[y] = "absent" => token'[y] = "absent" /\ parent'[y] = None
  BY <1>2, <1>4 DEF CredentialInv, Tokens
<1> QED
  BY <1>2, <1>3, <1>4, <1>6, <1>7, <1>8 DEF CredentialInv

(* Fewer certificates are accepted, and no token or authority changes but  *)
(* those that are revoked with them.                                       *)
LEMMA RevokeCredential ==
  ASSUME ClientInv, CredentialInv, NEW c \in Clients, Concludes(c),
         NEW C, certificate' = Revoke(certificate, C), UNCHANGED <<issuer, parent>>,
         UNCHANGED token \/ \E t \in Tokens : C = Family(t) /\ token' = Revoke(token, C),
         \/ UNCHANGED authority
         \/ \E a \in Authorities : C = Issued(a) /\ authority' = Revoke(authority, {a}),
         DOMAIN authority = Authorities,
         TokenKnown', AuthorityKnown'
  PROVE  CredentialInv'
<1>1. /\ DOMAIN certificate' = Certificates /\ DOMAIN token' = Tokens
      /\ \A x \in Certificates : certificate'[x] = IF x \in C THEN "revoked" ELSE certificate[x]
      /\ \A t \in Tokens : token'[t] = token[t] \/ (t \in C /\ token'[t] = "revoked")
  BY DEF CredentialInv, Revoke
<1>2. \A x \in Certificates :
         certificate'[x] = "absent" => token'[x] = "absent" /\ parent'[x] = None
  BY <1>1 DEF CredentialInv, Tokens
<1>3. ASSUME NEW b \in Authorities, authority'[b] = "revoked", NEW x \in Certificates, issuer'[x] = b
      PROVE  certificate'[x] # "active"
  BY <1>1, <1>3 DEF CredentialInv, RevocationIsComplete, Issued, Revoke
<1>4. ASSUME NEW x \in Certificates, NEW t \in Tokens, t \in {x, parent'[x]}, token'[t] = "revoked"
      PROVE  token'[x] # "active" /\ certificate'[x] # "active"
  <2>1. x \in Tokens
    BY DEF Tokens
  <2>2. CASE token[t] = "revoked"
    BY <2>1, <2>2, <1>1, <1>4 DEF CredentialInv, RevocationIsComplete
  <2>3. CASE token[t] # "revoked"
    <3>1. PICK f \in Tokens : C = Family(f) /\ token' = Revoke(token, C)
      BY <2>3, <1>4
    <3>2. t \in C
      BY <2>3, <1>1, <1>4
    <3>3. x \in C
      BY <3>1, <3>2, <1>4, SecretAssumption DEF Family, CredentialInv, Tokens
    <3> QED
      BY <2>1, <3>1, <3>3, <1>1 DEF Revoke, CredentialInv
  <2> QED
    BY <2>2, <2>3
<1>5. RevocationIsComplete'
  BY <1>3, <1>4 DEF RevocationIsComplete, Issued
<1> QED
  BY <1>1, <1>2, <1>5 DEF CredentialInv

LEMMA RevokeTokens ==
  ASSUME ClientInv, CredentialInv, NEW c \in Clients, Concludes(c), DOMAIN authority = Authorities,
         RevokeToken(c), token' # token
  PROVE  CredentialInv'
<1> DEFINE t == req[c].target
<1>1. /\ Ready(c, "write") /\ req[c].action \in {"revoke", "undeploy"}
      /\ token' = Revoke(token, Family(t))
      /\ certificate' = Revoke(certificate, Family(t))
      /\ UNCHANGED <<authority, issuer, parent>>
  BY DEF RevokeToken, Decline, credentialVars
<1>2. t \in Tokens
  BY <1>1, SecretAssumption DEF Concludes
<1>3. ASSUME NEW d \in Clients, Past(d, "token")'
      PROVE  token'[req'[d].token] = "active"
  <2> DEFINE u == req[d].token
  <2>1. d # c /\ req'[d] = req[d] /\ Past(d, "token")
    BY <1>3, ConcludePast
  <2>2. u \in Tokens /\ token[u] = "active"
    BY <2>1, TokenIsWriter DEF CredentialInv, TokenKnown
  <2>3. u \notin Family(t)
    <3>1. SUFFICES ASSUME u \in Family(t)
                   PROVE  Waits(c, d)
      BY <1>1 DEF Ready
    <3>2. <<<<"token", u>>, "S">> \in locks[d]
      BY <2>1 DEF ClientInv, HeldInv, TokenLock
    <3>3. <<<<"token", u>>, "X">> \in Wanted(c)
      BY <1>1, <3>1 DEF Ready, At, Wanted, WriteLocks, Exclusive
    <3>4. ~Compatible("X", "S")
      BY DEF Compatible
    <3> QED
      BY <2>1, <3>2, <3>3, <3>4 DEF Waits
  <2> QED
    BY <1>1, <2>1, <2>2, <2>3 DEF Revoke, CredentialInv
<1>4. TokenKnown' /\ AuthorityKnown'
  BY <1>1, <1>3, KeepAuthorities DEF TokenKnown
<1> QED
  BY <1>1, <1>2, <1>4, RevokeCredential

LEMMA RevokeAuthority ==
  ASSUME ClientInv, CredentialInv, NEW c \in Clients, Concludes(c), DOMAIN authority = Authorities,
         RevokeCertificateAuthority(c), authority' # authority
  PROVE  CredentialInv'
<1> DEFINE a == req[c].authority
<1>1. /\ At(c, "write") /\ req[c].action = "revokeAuthority"
      /\ authority' = Revoke(authority, {a})
      /\ certificate' = Revoke(certificate, Issued(a))
      /\ UNCHANGED <<issuer, token, parent>>
  BY DEF RevokeCertificateAuthority, Ready, Decline, credentialVars
<1>2. a \in Authorities /\ a # None
  BY <1>1, SecretAssumption DEF Concludes
<1>3. <<<<"authority", a>>, "X">> \in locks[c]
  BY <1>1, <1>2, PastAuthority DEF ClientInv, HeldInv, AuthorityLock, Exclusive
<1>4. ASSUME NEW d \in Clients, Past(d, "authority")'
      PROVE  Usable(req[d])' /\ req'[d] = req[d]
  <2> DEFINE b == req[d].authority
  <2>1. d # c /\ req'[d] = req[d] /\ Past(d, "authority")
    BY <1>4, ConcludePast
  <2>2. b \in Authorities \cup {None} /\ Usable(req[d])
    BY <2>1, PastRequest DEF CredentialInv, AuthorityKnown
  <2>3. b # a
    <3>1. SUFFICES ASSUME b = a
                   PROVE  FALSE
      OBVIOUS
    <3>2. <<<<"authority", a>>, "X">> \in locks[d]
      BY <1>2, <2>1, <3>1 DEF ClientInv, HeldInv, AuthorityLock, Exclusive
    <3> QED
      BY <1>3, <2>1, <3>2, Alone
  <2> QED
    BY <1>1, <2>1, <2>2, <2>3 DEF Usable, Revoke
<1>5. TokenKnown' /\ AuthorityKnown'
  BY <1>1, <1>4, KeepTokens DEF AuthorityKnown
<1> QED
  BY <1>1, <1>2, <1>5, RevokeCredential

LEMMA NextCredentialInv ==
  ASSUME ClientInv, CredentialInv, DOMAIN authority = Authorities, [Next]_vars
  PROVE  CredentialInv'
<1>1. ASSUME UNCHANGED <<pc, req, locks, credentialVars>>
      PROVE  CredentialInv'
  <2>1. TokenKnown' /\ AuthorityKnown'
    BY <1>1, StayClientInv DEF CredentialInv, TokenKnown, AuthorityKnown, Usable, credentialVars
  <2> QED
    BY <1>1, <2>1 DEF CredentialInv, RevocationIsComplete, Issued, credentialVars
<1>2. CASE UNCHANGED vars
  BY <1>1, <1>2 DEF vars, clientVars
<1>3. CASE Next
  <2>1. PICK c \in Clients :
          \/ Moves(c) /\ UNCHANGED credentialVars
          \/ Seals(c) /\ CreateAuthority(c)
          \/ Keeps(c) /\ Credential(c)
          \/ UNCHANGED <<pc, req, locks, credentialVars>>
    BY <1>3, NextKinds, ConcludeMoves
       DEF Quiet, Keeps, Seals, Concludes, RotateMasterKey, Moves, OpenStore, clientVars
  <2>2. ASSUME Moves(c), UNCHANGED credentialVars
        PROVE  CredentialInv'
    BY <2>2, QuietCredential
  <2>3. ASSUME Seals(c), CreateAuthority(c)
        PROVE  CredentialInv'
    BY <2>3, CreateCredential
  <2>4. ASSUME Keeps(c), Credential(c), credentialVars' # credentialVars
        PROVE  CredentialInv'
    <3>1. Concludes(c)
      BY <2>4 DEF Keeps
    <3>2. CASE IssueClientCertificate(c)
      <4>1. At(c, "write") /\ req[c].action = "issue"
        BY <3>2 DEF IssueClientCertificate, Ready
      <4> QED
        BY <3>1, <3>2, <4>1, SignerActive, CertifyCredential DEF IssueClientCertificate
    <3>3. CASE IssueDeploymentCredential(c)
      BY <3>1, <3>3, DeployCredential
    <3>4. CASE RegisterCertificate(c)
      <4>1. At(c, "write") /\ req[c].action = "register"
        BY <3>4 DEF RegisterCertificate, Ready
      <4>2. /\ Certify(req[c].certificate, req[c].authority)
            /\ UNCHANGED <<authority, token, parent>>
        BY <2>4, <3>4 DEF RegisterCertificate, Decline
      <4> QED
        BY <3>1, <4>1, <4>2, SignerActive, CertifyCredential
    <3>5. CASE RevokeClientCertificate(c)
      <4> DEFINE x == req[c].certificate
      <4>1. /\ certificate' = [certificate EXCEPT ![x] = "revoked"]
            /\ UNCHANGED <<authority, issuer, token, parent>>
        BY <2>4, <3>5 DEF RevokeClientCertificate, Decline
      <4>2. certificate' = Revoke(certificate, {x})
        BY <4>1 DEF Revoke
      <4>3. TokenKnown' /\ AuthorityKnown'
        BY <3>1, <4>1, KeepTokens, KeepAuthorities
      <4> QED
        BY <3>1, <4>1, <4>2, <4>3, RevokeCredential
    <3>6. CASE RevokeCertificateAuthority(c)
      <4>1. authority[req[c].authority] = "active" /\ authority' = Revoke(authority, {req[c].authority})
        BY <2>4, <3>6 DEF RevokeCertificateAuthority, Decline
      <4>2. req[c].authority \in Authorities
        BY <3>1, <3>6, SecretAssumption DEF Concludes, RevokeCertificateAuthority
      <4>3. authority' # authority
        BY <4>1, <4>2 DEF Revoke
      <4> QED
        BY <3>1, <3>6, <4>3, RevokeAuthority
    <3>7. CASE RevokeToken(c)
      <4> DEFINE t == req[c].target
      <4>1. token[t] = "active" /\ token' = Revoke(token, Family(t))
        BY <2>4, <3>7 DEF RevokeToken, Decline
      <4>2. t \in Tokens
        BY <3>1, <3>7, SecretAssumption DEF Concludes, RevokeToken
      <4>3. token' # token
        BY <4>1, <4>2 DEF Revoke, Family, CredentialInv
      <4> QED
        BY <3>1, <3>7, <4>3, RevokeTokens
    <3> QED
      BY <2>4, <3>2, <3>3, <3>4, <3>5, <3>6, <3>7 DEF Credential
  <2>5. Moves(c) \/ ~Keeps(c)
    BY ConcludeMoves DEF Keeps, Concludes
  <2> QED
    BY <2>1, <2>2, <2>3, <2>4, <2>5, <1>1
<1> QED
  BY <1>2, <1>3

-----------------------------------------------------------------------------
(* The item.                                                               *)

(* A revision is appended by a commit and by nothing else.                 *)
Appends(c) ==
    LET s == NewSnapshot(req[c]) IN
    /\ Proceeds(c) /\ Permitted(c) /\ req[c].action # "delete_item"
    /\ Valid(s) /\ s # Current
    /\ history' = Append(history, s)
    /\ Conclude(c, "success")

LEMMA OnlyCommitsAppend ==
  ASSUME Next
  PROVE  UNCHANGED history \/ \E c \in Clients : Appends(c)
<1>1. ASSUME NEW c \in Clients, CommitVault(c)
      PROVE  UNCHANGED history \/ Appends(c)
  BY <1>1 DEF CommitVault, Decline, vaultVars, Appends
<1>2. ASSUME NEW c \in Clients,
             \/ \E r \in Requests : Begin(c, r)
             \/ LockMasterKey(c) \/ AuthorizeScopedWrite(c) \/ BeginOperation(c)
             \/ LockItem(c) \/ LockTarget(c) \/ RetryDeadlock(c) \/ OpenStore(c)
             \/ ForbidVault(c) \/ Abort(c)
      PROVE  UNCHANGED history
  BY <1>2 DEF Begin, LockMasterKey, AuthorizeScopedWrite, BeginOperation, LockItem, LockTarget,
     RetryDeadlock, OpenStore, ForbidVault, Abort, Fail, vaultVars
<1>3. ASSUME NEW c \in Clients,
             \/ RefuseVault(c) \/ DeleteItem(c) \/ ApplyVaultLifecycleChange(c)
             \/ CountAuthorities(c) \/ LockAuthority(c) \/ CreateAuthority(c)
      PROVE  UNCHANGED history
  BY <1>3 DEF RefuseVault, DeleteItem, ApplyVaultLifecycleChange, CountAuthorities,
     LockAuthority, CreateAuthority, Decline, Fail, vaultVars
<1>4. ASSUME NEW c \in Clients,
             \/ IssueClientCertificate(c) \/ IssueDeploymentCredential(c)
             \/ RegisterCertificate(c) \/ RevokeClientCertificate(c)
             \/ RevokeCertificateAuthority(c) \/ RevokeToken(c)
             \/ CommitNotificationDestination(c) \/ RotateMasterKey(c)
      PROVE  UNCHANGED history
  BY <1>4 DEF IssueClientCertificate, IssueDeploymentCredential, RegisterCertificate,
     RevokeClientCertificate, RevokeCertificateAuthority, RevokeToken,
     CommitNotificationDestination, RotateMasterKey, Decline, vaultVars
<1> QED
  BY <1>1, <1>2, <1>3, <1>4 DEF Next

LEMMA CurrentIs ==
  ASSUME ItemInv
  PROVE  /\ Current \in Snapshot
         /\ \A e \in Bound(Current) : Given(Current[e]) = FieldsOf(Current)
<1>1. CASE history = <<>>
  <2>1. Current = Unbound
    BY <1>1 DEF Current
  <2> QED
    BY <2>1 DEF Unbound, Snapshot, Bound
<1>2. CASE history # <<>>
  <2>1. Len(history) \in 1..Len(history)
    BY <1>2 DEF ItemInv
  <2>2. Current = history[Len(history)] /\ Current \in Snapshot /\ Valid(Current)
    BY <1>2, <2>1 DEF Current, ItemInv
  <2> QED
    BY <2>2 DEF Valid
<1> QED
  BY <1>1, <1>2

LEMMA CurrentAfter ==
  ASSUME history \in Seq(Snapshot), NEW s, history' = Append(history, s)
  PROVE  Current' = s
<1>1. history' # <<>> /\ history'[Len(history')] = s
  OBVIOUS
<1> QED
  BY <1>1 DEF Current

(* A merge of what a request puts or deletes is a snapshot again.          *)
LEMMA MergedType ==
  ASSUME ItemInv, NEW r \in Requests, r.action \in Scoped \ {"delete_item"},
         r.action = "delete_field" => Current[r.environment] # None
  PROVE  Merged(r) \in Snapshot
<1>1. r.content \in Bundle /\ r.environment \in Environments /\ Current \in Snapshot
  BY ContentAssumption, SecretAssumption, CurrentIs DEF Scoped
<1> DEFINE old == Current[r.environment]
<1>2. old \in Bundle \cup {None}
  BY <1>1 DEF Snapshot
<1>3. NewBundle(r) \in Bundle
  <2>1. CASE r.action = "put_item"
    BY <1>1, <2>1 DEF NewBundle
  <2>2. CASE r.action = "put_field"
    <3>1. NewBundle(r) = [f \in Fields |-> IF r.content[f] # None THEN r.content[f]
                              ELSE IF old = None THEN None ELSE old[f]]
      BY <2>2 DEF NewBundle
    <3> QED
      BY <1>1, <1>2, <3>1 DEF Bundle
  <2>3. CASE r.action = "delete_field"
    <3>1. NewBundle(r) = [f \in Fields |-> IF r.content[f] # None THEN None ELSE old[f]]
      BY <2>3 DEF NewBundle
    <3> QED
      BY <1>1, <1>2, <2>3, <3>1 DEF Bundle
  <2> QED
    BY <2>1, <2>2, <2>3 DEF Scoped
<1>4. ASSUME NEW e \in Environments, e # r.environment, Current[e] # None
      PROVE  [f \in Fields |-> IF f \notin NewFields(r) THEN None
                               ELSE IF Current[e][f] # None THEN Current[e][f]
                               ELSE NewBundle(r)[f]] \in Bundle
  <2>1. Current[e] \in Bundle
    BY <1>1, <1>4 DEF Snapshot
  <2> QED
    BY <1>3, <2>1 DEF Bundle
<1> QED
  BY <1>3, <1>4 DEF Merged, Snapshot

LEMMA AppendsType ==
  ASSUME ClientInv, ItemInv, NEW c \in Clients, Appends(c)
  PROVE  /\ req[c] \in Requests /\ At(c, "write")
         /\ NewSnapshot(req[c]) \in Snapshot
<1>1. At(c, "write") /\ req[c].action \in VaultWrite \ {"delete_item"} /\ req[c] \in Requests
  BY DEF Appends, Proceeds, Ready, ClientInv, ClientOK, At
<1>2. CASE req[c].action = "commit"
  BY <1>1, <1>2, ContentAssumption DEF NewSnapshot
<1>3. CASE req[c].action \in Scoped \ {"delete_item"}
  <2>1. req[c].action = "delete_field" => Current[req[c].environment] # None
    BY <1>3 DEF Appends, Permitted
  <2>2. NewSnapshot(req[c]) = Merged(req[c])
    BY <1>3 DEF NewSnapshot, Scoped
  <2> QED
    BY <1>1, <1>3, <2>1, <2>2, MergedType
<1> QED
  BY <1>1, <1>2, <1>3 DEF VaultWrite

LEMMA NextItemInv ==
  ASSUME ClientInv, ItemInv, [Next]_vars
  PROVE  ItemInv'
<1>1. GrantKnown'
  <2>1. CASE UNCHANGED <<pc, req>>
    BY <2>1 DEF ItemInv, GrantKnown, Past, At
  <2>2. CASE \E c \in Clients : Moves(c)
    BY <2>2, MovePast DEF ItemInv, GrantKnown, Forward, Checked, At
  <2>3. CASE Next
    <3>1. \E c \in Clients : Moves(c) \/ UNCHANGED <<pc, req>>
      BY <2>3, NextKinds, ConcludeMoves
         DEF Quiet, Keeps, Seals, Concludes, RotateMasterKey, Moves, OpenStore, clientVars
    <3> QED
      BY <2>1, <2>2, <3>1
  <2> QED
    BY <2>1, <2>3 DEF vars, clientVars
<1>2. CASE UNCHANGED history
  BY <1>1, <1>2 DEF ItemInv
<1>3. ASSUME NEW c \in Clients, Appends(c)
      PROVE  ItemInv'
  <2> DEFINE s == NewSnapshot(req[c])
  <2>1. s \in Snapshot /\ Valid(s) /\ history' = Append(history, s) /\ history \in Seq(Snapshot)
    BY <1>3, AppendsType DEF Appends, ItemInv
  <2> HIDE DEF s
  <2>2. /\ history' \in Seq(Snapshot) /\ Len(history') = Len(history) + 1
        /\ \A n \in 1..Len(history) : history'[n] = history[n]
        /\ history'[Len(history) + 1] = s
    BY <2>1
  <2>3. \A n \in 1..Len(history') : n \in 1..Len(history) \/ n = Len(history) + 1
    BY <2>1, <2>2
  <2>4. \A n \in 1..Len(history') : Valid(history'[n])
    BY <2>1, <2>2, <2>3 DEF ItemInv
  <2> QED
    BY <1>1, <2>2, <2>4 DEF ItemInv, Valid, FieldsOf, Bound, Given
<1> QED
  BY <1>2, <1>3, OnlyCommitsAppend DEF vars, vaultVars

(* What is committed, is committed by the client that ends its transaction.*)
LEMMA CommitsAppend ==
  ASSUME ClientInv, NEW c \in Clients, Next, Commits(c)
  PROVE  Appends(c)
<1>1. PICK d \in Clients : Appends(d)
  BY OnlyCommitsAppend DEF Commits
<1>2. d = c
  BY <1>1 DEF Commits, Appends, Conclude, End, At, ClientInv, ClientOK
<1> QED
  BY <1>1, <1>2

(* A merge touches an environment that the token is not granted only when  *)
(* the fields stay as they are, and then not at all.                       *)
LEMMA MergeKeeps ==
  ASSUME ItemInv, NEW r, NEW e \in Environments, e # r.environment,
         NewFields(r) = FieldsOf(Current) \/ Current[e] = None
  PROVE  Merged(r)[e] = Current[e]
<1>1. CASE Current[e] = None
  BY <1>1 DEF Merged
<1>2. CASE Current[e] # None
  <2>1. Current[e] \in Bundle /\ Given(Current[e]) = FieldsOf(Current)
    BY <1>2, CurrentIs DEF Snapshot, Bound
  <2>2. Merged(r)[e] = [f \in Fields |-> IF f \notin NewFields(r) THEN None
                               ELSE IF Current[e][f] # None THEN Current[e][f]
                               ELSE NewBundle(r)[f]]
    BY <1>2 DEF Merged
  <2>3. \A f \in Fields : f \in NewFields(r) <=> Current[e][f] # None
    BY <1>2, <2>1 DEF Given
  <2>4. Merged(r)[e] = [f \in Fields |-> Current[e][f]]
    BY <2>2, <2>3
  <2> QED
    BY <2>1, <2>4 DEF Bundle
<1> QED
  BY <1>1, <1>2

-----------------------------------------------------------------------------
(* Types.                                                                  *)

ClientTypeOK ==
    /\ pc \in [Clients -> Steps]
    /\ req \in [Clients -> Requests \cup {None}]
    /\ view \in [Clients -> [item : {"absent", "active", "archived"}, revisions : Nat] \cup {None}]
    /\ locks \in [Clients -> SUBSET (Rows \X Modes)]
    /\ attempt \in [Clients -> 0..Attempts]

KeyTypeOK ==
    /\ sentinel \in Keys
    /\ wrapped \in [Sealed -> Keys \cup {None}]
    /\ provider \in [Clients -> Keys]

LedgerTypeOK ==
    /\ operation \in [Operations -> Outcome \cup {None}]
    /\ applied \in [Operations -> Nat]

CredentialTypeOK ==
    /\ authority \in [Authorities -> Status]
    /\ certificate \in [Certificates -> Status]
    /\ issuer \in [Certificates -> Authorities \cup {None}]
    /\ token \in [Tokens -> Status]
    /\ parent \in [Certificates -> Writers \cup {None}]

ItemTypeOK == item \in {"absent", "active", "archived"} /\ history \in Seq(Snapshot)

LEMMA TypeParts ==
  TypeOK <=> ClientTypeOK /\ KeyTypeOK /\ LedgerTypeOK /\ CredentialTypeOK /\ ItemTypeOK
  BY DEF TypeOK, ClientTypeOK, KeyTypeOK, LedgerTypeOK, CredentialTypeOK, ItemTypeOK

(* Each statement is one of requests that have what it locks.              *)
LEMMA WantedType ==
  ASSUME ClientInv, NEW c \in Clients, pc[c] \notin {"idle", "write"}
  PROVE  Wanted(c) \subseteq Rows \X Modes
<1> DEFINE r == req[c]
<1>1. r \in Requests /\ r.action \in DOMAIN Plan /\ \E i \in DOMAIN Plan[r.action] : Plan[r.action][i] = pc[c]
  BY PlanIsPlan DEF ClientInv, ClientOK, At
<1>2. CASE At(c, "key")
  BY <1>2 DEF Wanted, KeyLock, Rows, Modes, At
<1>3. CASE At(c, "token")
  <2>1. r.action \in Scoped \cup {"deploy", "undeploy"}
    BY <1>1, <1>3 DEF Plan, Scoped, At
  <2>2. r.token \in Tokens
    BY <1>1, <2>1, SecretAssumption DEF Tokens
  <2>3. Wanted(c) = TokenLock(r)
    BY <1>3, WantedAt
  <2> QED
    BY <2>2, <2>3 DEF TokenLock, Rows, Modes
<1>4. CASE At(c, "operation")
  <2>1. r.action # "rotate"
    BY <1>1, <1>4 DEF Plan, At
  <2>2. r.op \in Operations
    BY <1>1, <2>1, SecretAssumption DEF Request
  <2>3. Wanted(c) = Exclusive("operation", {r.op})
    BY <1>4, WantedAt
  <2> QED
    BY <2>2, <2>3 DEF Exclusive, Rows, Modes
<1>5. CASE At(c, "item")
  BY <1>5 DEF Wanted, ItemLock, Rows, Modes, At
<1>6. CASE At(c, "authority")
  <2>1. r.authority \in Authorities \cup {None}
    BY <1>1, SecretAssumption DEF Request
  <2>2. Wanted(c) = AuthorityLock(r)
    BY <1>6, WantedAt
  <2> QED
    BY <2>1, <2>2 DEF AuthorityLock, Exclusive, Rows, Modes
<1>7. CASE At(c, "target")
  <2>1. r.action \in {"revoke", "undeploy"}
    BY <1>1, <1>7 DEF Plan, At
  <2>2. r.target \in Tokens
    BY <1>1, <2>1, SecretAssumption
  <2>3. Wanted(c) = Exclusive("token", {r.target})
    BY <1>7 DEF Wanted, At
  <2> QED
    BY <2>2, <2>3 DEF Exclusive, Rows, Modes
<1>8. CASE pc[c] \notin {"key", "token", "operation", "item", "authority", "target"}
  BY <1>8 DEF Wanted, At
<1> QED
  BY <1>2, <1>3, <1>4, <1>5, <1>6, <1>7, <1>8 DEF At

LEMMA PlanSteps ==
  ASSUME NEW a \in DOMAIN Plan, NEW i \in DOMAIN Plan[a]
  PROVE  Plan[a][i] \in Steps
  BY DEF Steps

LEMMA EndType ==
  ASSUME ClientTypeOK, NEW c \in Clients, End(c)
  PROVE  ClientTypeOK'
<1>1. "idle" \in Steps /\ 0 \in 0..Attempts
  BY SecretAssumption DEF Steps
<1> QED
  BY <1>1 DEF End, ClientTypeOK

LEMMA AdvanceType ==
  ASSUME ClientInv, ClientTypeOK, NEW c \in Clients, pc[c] \notin {"idle", "write"}, Advance(c),
         \/ UNCHANGED view
         \/ view' = [view EXCEPT ![c] = [item |-> item, revisions |-> Len(history)]] /\ ItemTypeOK
  PROVE  ClientTypeOK'
<1> DEFINE plan == Plan[req[c].action]
<1>1. req[c] \in Requests /\ req[c].action \in DOMAIN Plan /\ plan \in Plans
  BY PlanIsPlan DEF ClientInv, ClientOK, At
<1>2. PICK i \in DOMAIN plan : plan[i] = pc[c] /\ pc' = [pc EXCEPT ![c] = plan[i + 1]]
  BY DEF Advance
<1>3. i + 1 \in DOMAIN plan
  BY <1>1, <1>2, PlanNext
<1>4. plan[i + 1] \in Steps
  BY <1>1, <1>3, PlanSteps
<1>5. pc' \in [Clients -> Steps]
  BY <1>2, <1>4 DEF ClientTypeOK
<1>6. locks' \in [Clients -> SUBSET (Rows \X Modes)]
  BY WantedType DEF Advance, ClientTypeOK
<1>7. view' \in [Clients -> [item : {"absent", "active", "archived"}, revisions : Nat] \cup {None}]
  BY DEF ClientTypeOK, ItemTypeOK
<1> QED
  BY <1>5, <1>6, <1>7 DEF Advance, ClientTypeOK

LEMMA NextClientType ==
  ASSUME ClientInv, ClientTypeOK, ItemTypeOK, [Next]_vars
  PROVE  ClientTypeOK'
<1>1. ASSUME NEW c \in Clients, NEW r \in Requests, Begin(c, r)
      PROVE  ClientTypeOK'
  <2>1. r.action \in DOMAIN Plan /\ Plan[r.action] \in Plans
    BY PlanIsPlan
  <2>2. Head(Plan[r.action]) \in Steps
    BY <2>1, PlanHead, PlanSteps
  <2>3. 1 \in 0..Attempts
    BY SecretAssumption
  <2> QED
    BY <1>1, <2>2, <2>3 DEF Begin, ClientTypeOK
<1>2. ASSUME NEW c \in Clients, RetryDeadlock(c)
      PROVE  ClientTypeOK'
  <2>1. CASE End(c)
    BY <2>1, EndType
  <2>2. CASE /\ ~LastAttempt(c) /\ req[c].action \in Retried
             /\ pc' = [pc EXCEPT ![c] = Restart(c)]
             /\ attempt' = [attempt EXCEPT ![c] = @ + 1]
             /\ view' = [view EXCEPT ![c] = None]
             /\ locks' = [locks EXCEPT ![c] = {}]
             /\ UNCHANGED req
    <3>1. ~At(c, "idle")
      BY <1>2 DEF RetryDeadlock, Deadlocked, Waits, Wanted, At
    <3>2. req[c] \in Requests
      BY <3>1 DEF ClientInv, ClientOK
    <3>3. req[c].action \in DOMAIN Plan /\ Plan[req[c].action] \in Plans
      BY <3>2, PlanIsPlan
    <3>4. Restart(c) \in Steps
      BY <3>3, PlanHead, PlanSteps DEF Restart
    <3>5. attempt[c] + 1 \in 0..Attempts
      <4>1. attempt[c] \in 0..Attempts /\ attempt[c] # Attempts
        BY <2>2 DEF LastAttempt, ClientTypeOK
      <4>2. Attempts \in Nat
        BY SecretAssumption
      <4> QED
        BY <4>1, <4>2
    <3> QED
      BY <2>2, <3>4, <3>5 DEF ClientTypeOK
  <2> QED
    BY <1>2, <2>1, <2>2 DEF RetryDeadlock
<1>3. ASSUME NEW c \in Clients, AuthorizeScopedWrite(c)
      PROVE  ClientTypeOK'
  <2>1. pc[c] = "token"
    BY <1>3 DEF AuthorizeScopedWrite, Ready, At
  <2> QED
    BY <1>3, <2>1, EndType, AdvanceType DEF AuthorizeScopedWrite
<1>4. ASSUME NEW c \in Clients,
             \/ LockMasterKey(c) \/ BeginOperation(c) \/ LockItem(c) \/ LockTarget(c)
             \/ CountAuthorities(c) \/ LockAuthority(c)
      PROVE  ClientTypeOK'
  <2>1. pc[c] \notin {"idle", "write"}
    BY <1>4 DEF LockMasterKey, BeginOperation, LockItem, LockTarget, CountAuthorities,
       LockAuthority, Ready, At
  <2>2. (Advance(c) /\ UNCHANGED view) \/ End(c)
    BY <1>4 DEF LockMasterKey, BeginOperation, LockItem, LockTarget, CountAuthorities,
       LockAuthority, Decline, Conclude, Fail
  <2> QED
    BY <2>1, <2>2, EndType, AdvanceType
<1>5. ASSUME NEW c \in Clients,
             \/ RefuseVault(c) \/ ForbidVault(c) \/ CommitVault(c) \/ DeleteItem(c)
             \/ ApplyVaultLifecycleChange(c) \/ CreateAuthority(c) \/ Abort(c)
             \/ Credential(c) \/ CommitNotificationDestination(c) \/ RotateMasterKey(c)
      PROVE  ClientTypeOK'
  <2>1. CASE \/ RefuseVault(c) \/ ForbidVault(c) \/ CommitVault(c) \/ DeleteItem(c)
             \/ ApplyVaultLifecycleChange(c) \/ CreateAuthority(c) \/ Abort(c)
    <3>1. End(c)
      BY <2>1 DEF RefuseVault, ForbidVault, CommitVault, DeleteItem, ApplyVaultLifecycleChange,
         CreateAuthority, Abort, Decline, Conclude, Fail
    <3> QED
      BY <3>1, EndType
  <2>2. CASE Credential(c)
    <3>1. End(c)
      BY <2>2, CredentialKeeps DEF Keeps, Concludes, Conclude
    <3> QED
      BY <3>1, EndType
  <2>3. CASE CommitNotificationDestination(c) \/ RotateMasterKey(c)
    <3>1. End(c)
      BY <2>3 DEF CommitNotificationDestination, RotateMasterKey, Conclude
    <3> QED
      BY <3>1, EndType
  <2> QED
    BY <1>5, <2>1, <2>2, <2>3
<1>6. CASE \E c \in Clients : OpenStore(c)
  BY <1>6 DEF OpenStore, clientVars, ClientTypeOK
<1>7. CASE UNCHANGED vars
  BY <1>7 DEF vars, clientVars, ClientTypeOK
<1> QED
  BY <1>1, <1>2, <1>3, <1>4, <1>5, <1>6, <1>7 DEF Next, Credential

LEMMA NextKeyType ==
  ASSUME ClientInv, KeyTypeOK, [Next]_vars
  PROVE  KeyTypeOK'
<1>1. CASE UNCHANGED <<keyVars, provider>>
  BY <1>1 DEF KeyTypeOK, keyVars
<1>2. ASSUME NEW c \in Clients, Seals(c)
      PROVE  KeyTypeOK'
  BY <1>2 DEF Seals, KeyTypeOK
<1>3. ASSUME NEW c \in Clients, RotateMasterKey(c)
      PROVE  KeyTypeOK'
  <2>1. req[c].key \in Keys
    BY <1>3, ContentAssumption DEF RotateMasterKey, Ready, At, ClientInv, ClientOK
  <2> QED
    BY <1>3, <2>1 DEF RotateMasterKey, KeyTypeOK
<1>4. ASSUME NEW c \in Clients, OpenStore(c)
      PROVE  KeyTypeOK'
  BY <1>4 DEF OpenStore, KeyTypeOK, keyVars
<1>5. CASE Next
  BY <1>5, <1>1, <1>2, <1>3, <1>4, NextKinds DEF Quiet, Keeps
<1> QED
  BY <1>1, <1>5 DEF vars

LEMMA NextLedgerType ==
  ASSUME ClientInv, LedgerTypeOK, [Next]_vars
  PROVE  LedgerTypeOK'
<1>1. CASE UNCHANGED ledgerVars
  BY <1>1 DEF LedgerTypeOK, ledgerVars
<1>2. ASSUME NEW c \in Clients, Concludes(c)
      PROVE  LedgerTypeOK'
  BY <1>2 DEF Concludes, Conclude, LedgerTypeOK
<1>3. CASE Next
  BY <1>3, <1>1, <1>2, NextKinds DEF Quiet, Keeps, Seals, RotateMasterKey, OpenStore
<1> QED
  BY <1>1, <1>3 DEF vars

LEMMA NextCredentialType ==
  ASSUME ClientInv, CredentialTypeOK, [Next]_vars
  PROVE  CredentialTypeOK'
<1>1. CASE UNCHANGED credentialVars
  BY <1>1 DEF CredentialTypeOK, credentialVars
<1>2. ASSUME NEW c \in Clients, Concludes(c), CreateAuthority(c)
      PROVE  CredentialTypeOK'
  BY <1>2 DEF CreateAuthority, CredentialTypeOK, Status
<1>3. ASSUME NEW c \in Clients, Concludes(c), Credential(c), credentialVars' # credentialVars
      PROVE  CredentialTypeOK'
  <2> DEFINE r == req[c]
  <2>1. r \in Requests /\ r.authority \in Authorities \cup {None}
    BY <1>3, SecretAssumption DEF Concludes, Request
  <2>2. ASSUME NEW x, Certify(x, r.authority), UNCHANGED <<authority, token, parent>>
        PROVE  CredentialTypeOK'
    BY <2>1, <2>2 DEF Certify, CredentialTypeOK, Status
  <2>3. CASE IssueClientCertificate(c) \/ RegisterCertificate(c)
    BY <1>3, <2>2, <2>3 DEF IssueClientCertificate, RegisterCertificate, Decline
  <2>4. CASE IssueDeploymentCredential(c)
    <3>1. r.token \in Writers
      BY <2>1, <2>4, SecretAssumption DEF IssueDeploymentCredential
    <3> QED
      BY <2>1, <2>4, <3>1 DEF IssueDeploymentCredential, Certify, CredentialTypeOK, Status
  <2>5. CASE RevokeClientCertificate(c)
    BY <1>3, <2>5 DEF RevokeClientCertificate, Decline, CredentialTypeOK, Status
  <2>6. CASE RevokeCertificateAuthority(c) \/ RevokeToken(c)
    BY <1>3, <2>6 DEF RevokeCertificateAuthority, RevokeToken, Decline, Revoke,
       CredentialTypeOK, Status
  <2> QED
    BY <1>3, <2>3, <2>4, <2>5, <2>6 DEF Credential
<1>4. CASE Next
  BY <1>4, <1>1, <1>2, <1>3, NextKinds DEF Quiet, Keeps, Seals, RotateMasterKey, OpenStore
<1> QED
  BY <1>1, <1>4 DEF vars

LEMMA NextItemType ==
  ASSUME ItemTypeOK, ItemInv', [Next]_vars
  PROVE  ItemTypeOK'
<1>1. UNCHANGED item \/ item' \in {"absent", "active", "archived"}
  <2>2. ASSUME NEW c \in Clients,
               \/ \E r \in Requests : Begin(c, r)
               \/ LockMasterKey(c) \/ AuthorizeScopedWrite(c) \/ BeginOperation(c)
               \/ LockItem(c) \/ LockTarget(c) \/ RetryDeadlock(c) \/ OpenStore(c)
               \/ ForbidVault(c) \/ Abort(c)
        PROVE  UNCHANGED item
    BY <2>2 DEF Begin, LockMasterKey, AuthorizeScopedWrite, BeginOperation, LockItem, LockTarget,
       RetryDeadlock, OpenStore, ForbidVault, Abort, Fail, vaultVars
  <2>3. ASSUME NEW c \in Clients,
               \/ RefuseVault(c) \/ CountAuthorities(c) \/ LockAuthority(c) \/ CreateAuthority(c)
        PROVE  UNCHANGED item
    BY <2>3 DEF RefuseVault, CountAuthorities, LockAuthority, CreateAuthority, Decline, Fail,
       vaultVars
  <2>4. ASSUME NEW c \in Clients,
               \/ IssueClientCertificate(c) \/ IssueDeploymentCredential(c)
               \/ RegisterCertificate(c) \/ RevokeClientCertificate(c)
               \/ RevokeCertificateAuthority(c) \/ RevokeToken(c)
               \/ CommitNotificationDestination(c) \/ RotateMasterKey(c)
        PROVE  UNCHANGED item
    BY <2>4 DEF IssueClientCertificate, IssueDeploymentCredential, RegisterCertificate,
       RevokeClientCertificate, RevokeCertificateAuthority, RevokeToken,
       CommitNotificationDestination, RotateMasterKey, Decline, vaultVars
  <2>5. ASSUME NEW c \in Clients,
               CommitVault(c) \/ DeleteItem(c) \/ ApplyVaultLifecycleChange(c)
        PROVE  UNCHANGED item \/ item' \in {"absent", "active", "archived"}
    BY <2>5 DEF CommitVault, DeleteItem, ApplyVaultLifecycleChange, Decline, vaultVars
  <2> QED
    BY <2>2, <2>3, <2>4, <2>5 DEF Next, vars, vaultVars
<1> QED
  BY <1>1 DEF ItemTypeOK, ItemInv

-----------------------------------------------------------------------------

LEMMA InitInv == Init => Inv
<1> SUFFICES ASSUME Init
             PROVE  Inv
  OBVIOUS
<1>1. \A c \in Clients : At(c, "idle") /\ locks[c] = {} /\ provider[c] = sentinel
  BY DEF Init, At
<1>2. \A c \in Clients : \A s : ~Past(c, s)
  BY <1>1 DEF Past
<1>3. ClientInv
  BY <1>1, <1>2 DEF Init, ClientInv, ClientOK, LockInv, HeldInv
<1>4. KeyInv
  BY <1>2 DEF Init, KeyInv, KeyKnown, SealedUnderSentinel
<1>5. LedgerInv
  BY <1>2 DEF Init, LedgerInv, OperationKnown, AppliedOnce
<1>6. LimitInv
  <2>1. Active = {}
    BY DEF Init, Active
  <2>2. Cardinality(Active) = 0
    BY <2>1, FS_EmptySet
  <2> QED
    BY <1>2, <2>2, SecretAssumption
       DEF Init, LimitInv, CountKnown, AuthoritiesBounded, Active
<1>7. CredentialInv
  <2>1. RevocationIsComplete
    BY DEF Init, RevocationIsComplete, Issued
  <2> QED
    BY <1>2, <2>1, SecretAssumption
       DEF Init, CredentialInv, TokenKnown, AuthorityKnown, Tokens
<1>8. ItemInv
  BY <1>2 DEF Init, ItemInv, GrantKnown
<1> QED
  BY <1>3, <1>4, <1>5, <1>6, <1>7, <1>8 DEF Inv

LEMMA NextInv == Inv /\ [Next]_vars => Inv'
  BY NextClientInv, NextKeyInv, NextLedgerInv, NextLimitInv, NextCredentialInv, NextItemInv
  DEF Inv, LimitInv

LEMMA Invariance == Spec => []Inv
<1> QED
  BY InitInv, NextInv, PTL DEF Spec

(* Every table and every client keeps its type: in particular a lock is on *)
(* a row there is, and a transaction is begun no more often than allowed.  *)
THEOREM TypeCorrect == Spec => []TypeOK
<1>1. Init => TypeOK
  <2> SUFFICES ASSUME Init PROVE TypeOK
    OBVIOUS
  <2>1. ClientTypeOK
    BY SecretAssumption DEF Init, ClientTypeOK, Steps
  <2>2. KeyTypeOK /\ LedgerTypeOK /\ CredentialTypeOK /\ ItemTypeOK
    BY DEF Init, KeyTypeOK, LedgerTypeOK, CredentialTypeOK, ItemTypeOK, Status
  <2> QED
    BY <2>1, <2>2, TypeParts
<1>2. Inv /\ Inv' /\ TypeOK /\ [Next]_vars => TypeOK'
  <2> SUFFICES ASSUME Inv, Inv', TypeOK, [Next]_vars PROVE TypeOK'
    OBVIOUS
  <2>1. ClientTypeOK /\ KeyTypeOK /\ LedgerTypeOK /\ CredentialTypeOK /\ ItemTypeOK
    BY TypeParts
  <2>2. ClientTypeOK' /\ KeyTypeOK' /\ LedgerTypeOK' /\ CredentialTypeOK' /\ ItemTypeOK'
    BY <2>1, NextClientType, NextKeyType, NextLedgerType, NextCredentialType, NextItemType DEF Inv
  <2> QED
    BY <2>2 DEF TypeOK, ClientTypeOK, KeyTypeOK, LedgerTypeOK, CredentialTypeOK, ItemTypeOK
<1> QED
  BY <1>1, <1>2, Invariance, PTL DEF Spec

(* Whenever the master key changes, every stored secret opens with the key *)
(* that opens the sentinel (RotateMasterKey, lockMasterKey).               *)
THEOREM Sealing == Spec => []SealedUnderSentinel
<1>1. Inv => SealedUnderSentinel
  BY DEF Inv, KeyInv
<1> QED
  BY <1>1, Invariance, PTL

(* Revocation of an authority, a certificate or a token reaches everything *)
(* that hangs on it, what is being made included                           *)
(* (RevokeCertificateAuthority, RevokeDeploymentCredential).               *)
THEOREM Revocation == Spec => []RevocationIsComplete
<1>1. Inv => RevocationIsComplete
  BY DEF Inv, CredentialInv
<1> QED
  BY <1>1, Invariance, PTL

(* The active authorities stay within the limit, whatever it is            *)
(* (CreateCertificateAuthority).                                           *)
THEOREM Limitation == Spec => []AuthoritiesBounded
<1>1. Inv => AuthoritiesBounded
  BY DEF Inv, LimitInv
<1> QED
  BY <1>1, Invariance, PTL

(* However often deadlocks and callers repeat it, an operation is applied  *)
(* at most once (runOperation, retryDeadlock).                             *)
THEOREM OnceOnly == Spec => []AppliedOnce
<1>1. Inv => AppliedOnce
  BY DEF Inv, LedgerInv
<1> QED
  BY <1>1, Invariance, PTL

(* A request with a token leaves the values of every environment alone     *)
(* that the token is not granted, whatever has been committed between the  *)
(* check of the token and the lock of the item (prepareScopedVault).       *)
THEOREM GrantsAreKept == Spec => UngrantedValuesKept
<1>1. ASSUME Inv, [Next]_vars, NEW c \in Clients, Commits(c), req[c].action \in Scoped,
             NEW e \in Environments \ Granted[req[c].token]
      PROVE  Current'[e] = Current[e]
  <2> DEFINE r == req[c]
  <2>1. Appends(c)
    BY <1>1, CommitsAppend DEF Inv, Commits, vars, vaultVars
  <2>2. NewSnapshot(r) = Merged(r) /\ r.action # "delete_item"
    BY <1>1, <2>1 DEF NewSnapshot, Appends, Scoped
  <2>3. Current' = Merged(r)
    BY <1>1, <2>1, <2>2, CurrentAfter DEF Appends, Inv, ItemInv
  <2>4. e # r.environment
    BY <1>1, PastToken DEF Commits, Inv, ItemInv, GrantKnown
  <2>5. NewFields(r) = FieldsOf(Current) \/ Current[e] = None
    <3>1. CASE history = <<>>
      BY <3>1 DEF Current, Unbound
    <3>2. CASE AllBindingsGranted(r)
      BY <3>2, <1>1 DEF AllBindingsGranted, Bound
    <3> QED
      BY <1>1, <2>1, <2>2, <3>1, <3>2 DEF Appends, Permitted
  <2> QED
    BY <1>1, <2>3, <2>4, <2>5, MergeKeeps DEF Inv
<1>2. Inv /\ [Next]_vars =>
         [\A c \in Clients : Commits(c) /\ req[c].action \in Scoped =>
             \A e \in Environments \ Granted[req[c].token] : Current'[e] = Current[e]]_vars
  BY <1>1
<1> QED
  BY <1>2, Invariance, PTL DEF Spec, UngrantedValuesKept

(* A request that expects revision 0 finds nothing to write over, although *)
(* what it has read may be older than the item it writes (commitVault).    *)
THEOREM ZeroCreates == Spec => ZeroOnlyCreates
<1>1. ASSUME Inv, [Next]_vars, NEW c \in Clients, Commits(c), req[c].action \in Scoped,
             req[c].expected = 0
      PROVE  Current[req[c].environment] = None
  <2>1. Appends(c)
    BY <1>1, CommitsAppend DEF Inv, Commits, vars, vaultVars
  <2>2. req[c].environment \in Environments
    BY <1>1, SecretAssumption DEF Commits, Inv, ClientInv, ClientOK, At
  <2>3. CASE Creates(c)
    BY <1>1, <2>1, <2>3 DEF Creates, Appends, Permitted, Readable
  <2>4. CASE Len(history) = 0
    <3>1. history = <<>>
      BY <1>1, <2>4 DEF Inv, ItemInv
    <3> QED
      BY <2>2, <3>1 DEF Current, Unbound
  <2> QED
    BY <1>1, <2>1, <2>3, <2>4 DEF Appends, Proceeds, ExpectedRevision
<1>2. Inv /\ [Next]_vars =>
         [\A c \in Clients : Commits(c) /\ req[c].action \in Scoped /\ req[c].expected = 0
             => Current[req[c].environment] = None]_vars
  BY <1>1
<1> QED
  BY <1>2, Invariance, PTL DEF Spec, ZeroOnlyCreates
==============================================================================
