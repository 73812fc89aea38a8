---------------------------- MODULE HumanSession ----------------------------
(***************************************************************************)
(* Sessions of people at the management server: sign-in and the check of   *)
(* every request (internal/humanauth), the session rows and the policies   *)
(* that end sessions (internal/storage/mysqlstore/session.go and           *)
(* session_policy.go), changed by administrators, by the maintenance       *)
(* command and by the identity provider's logout notices.                  *)
(*                                                                         *)
(* Each statement of a request is one action; requests of one browser run  *)
(* beside each other, each with its own copy of the session, which the     *)
(* session manager (scs) writes back when the response begins. Changes of  *)
(* policies are transactions; the clocks of MySQL and the identity provider*)
(* agree, as the documentation asks for.                                   *)
(***************************************************************************)
EXTENDS Integers, Sequences, FiniteSets

CONSTANTS
    Subjects,       \* sub of an ID token
    SessionIds,     \* sid, the provider's own session
    Accounts,       \* what ID tokens name: a subject and a sid, if any
    Operations,     \* operation ids; of a notice, made from its jti
    Changes,        \* changes of policies that are asked for, and repeated
    Tokens,         \* session cookies
    Requests,       \* requests of browsers in progress at the same time
    Changers,       \* changes in progress at the same time
    Second,         \* ID tokens say when they were issued, to the second
    MaxTime,        \* bound of this model on time
    MaxChanges,     \* and on the changes that are made
    Anonymous,      \* the session of nobody
    None

Targets == Subjects \cup SessionIds

Actions == {"invalidate", "block", "unblock"}

Change == [op : Operations, target : Targets, action : Actions,
           source : {"operator", "provider"}]

ASSUME SessionAssumption ==
    /\ Subjects \cap SessionIds = {}
    /\ Accounts \subseteq [subject : Subjects, session : SessionIds \cup {None}]
    /\ Changes \subseteq Change
    /\ \A x \in Changes :
          /\ x.source = "provider" => x.action = "invalidate"
          /\ x.source = "operator" => x.target \in Subjects
    /\ Second \in Nat \ {0}
    /\ MaxTime \in Nat \ {0}
    /\ None \notin Targets \cup Changes \cup Tokens

VARIABLES
    now,            \* UTC_TIMESTAMP
    policy,         \* management_session_policies
    operation,      \* operations: the request by operation id
    log,            \* the changes that have been made, as they are audited
    row,            \* management_sessions
    cpc,            \* the next statement of each change
    change,         \* what it changes
    stamp,          \* when its INSERT .. ON DUPLICATE KEY UPDATE began
    pc,             \* the next statement of each request
    token,          \* the row its session was loaded from
    data,           \* its copy of the session
    who,            \* whom the ID token of a sign-in names
    found,          \* the policies as far as it has read them
    seen,           \* how many changes had been made when it read them
    begun           \* and when it began

storeVars == <<policy, operation, log>>
changeVars == <<cpc, change, stamp>>
requestVars == <<pc, token, data, who, found, seen, begun>>
vars == <<now, storeVars, row, changeVars, requestVars>>

Time == 0..MaxTime

(* A row that is missing is of generation 0.                               *)
Policy == [generation : Nat, blocked : BOOLEAN, revoked : Time]

NoPolicy == [generation |-> 0, blocked |-> FALSE, revoked |-> 0]

(* One number for the subject and one for the provider's session.          *)
Pair == [subject : Nat, session : Nat]

(* Whom a session is of, and the generations it was stamped with; known    *)
(* are the changes that had been made when they were read.                 *)
Identity == [subject : Subjects, session : SessionIds \cup {None}, stamp : Pair, known : Pair]

(* The session of nobody holds no more than a sign-in that is under way.   *)
Session == Identity \cup {Anonymous}

Claims == [subject : Subjects, session : SessionIds \cup {None}, iat : Time]

Found == [generation : Pair, blocked : BOOLEAN, revoked : Time]

Entry == [change : Changes, stamp : Time, generation : Nat]

ChangeSteps == {"idle", "commit"}

Steps == {"idle", "exchange", "subject", "session", "renew", "serve", "revoked",
          "logout", "save"}

ASSUME NoneAssumption == None \notin Session \cup Claims /\ Anonymous \notin Identity

StoreTypeOK ==
    /\ now \in Time
    /\ policy \in [Targets -> Policy]
    /\ operation \in [Operations -> Changes \cup {None}]
    /\ log \in Seq(Entry)
    /\ row \in [Tokens -> Session \cup {None}]

ChangeTypeOK ==
    /\ cpc \in [Changers -> ChangeSteps]
    /\ change \in [Changers -> Changes \cup {None}]
    /\ stamp \in [Changers -> Time]

RequestTypeOK ==
    /\ pc \in [Requests -> Steps]
    /\ token \in [Requests -> Tokens \cup {None}]
    /\ data \in [Requests -> Session]
    /\ who \in [Requests -> Claims \cup {None}]
    /\ found \in [Requests -> Found]
    /\ seen \in [Requests -> Pair]
    /\ begun \in [Requests -> Nat]

TypeOK ==
    /\ StoreTypeOK
    /\ ChangeTypeOK
    /\ RequestTypeOK

Zero == [subject |-> 0, session |-> 0]

NothingFound == [generation |-> Zero, blocked |-> FALSE, revoked |-> 0]

Init ==
    /\ now = 1
    /\ policy = [t \in Targets |-> NoPolicy]
    /\ operation = [o \in Operations |-> None]
    /\ log = <<>>
    /\ row = [t \in Tokens |-> None]
    /\ cpc = [c \in Changers |-> "idle"]
    /\ change = [c \in Changers |-> None]
    /\ stamp = [c \in Changers |-> 0]
    /\ pc = [r \in Requests |-> "idle"]
    /\ token = [r \in Requests |-> None]
    /\ data = [r \in Requests |-> Anonymous]
    /\ who = [r \in Requests |-> None]
    /\ found = [r \in Requests |-> NothingFound]
    /\ seen = [r \in Requests |-> Zero]
    /\ begun = [r \in Requests |-> 0]

Tick ==
    /\ now < MaxTime
    /\ now' = now + 1
    /\ UNCHANGED <<storeVars, row, changeVars, requestVars>>

-----------------------------------------------------------------------------
(* Changes of policies: ChangeSessions.                                    *)

EndChange(c) ==
    /\ cpc' = [cpc EXCEPT ![c] = "idle"]
    /\ change' = [change EXCEPT ![c] = None]
    /\ stamp' = [stamp EXCEPT ![c] = 0]

(* Mutant: the operation's row is inserted when the transaction commits.   *)
Free_Always(c, o) == TRUE

(* No other transaction has inserted the row of o and not ended.           *)
Free(c, o) ==
    \A d \in Changers \ {c} : cpc[d] # "idle" => change[d].op # o

(* A notice is delivered and verified, or an operator asks for a change.   *)
(* The same request again is answered as the first time, another one with  *)
(* its operation id is refused: neither changes anything. The lock of the  *)
(* sentinel is shared by all of them. UTC_TIMESTAMP is the time at which   *)
(* the statement that changes the policy began, before it waits for the    *)
(* row of the policy; that lock delays others of its kind and no reader,   *)
(* and the order in which they get it is that of their commits.            *)
BeginOperation(c, x) ==
    /\ cpc[c] = "idle"
    /\ Len(log) + Cardinality({d \in Changers : cpc[d] # "idle"}) < MaxChanges
    /\ Free(c, x.op)
    /\ operation[x.op] = None
    /\ cpc' = [cpc EXCEPT ![c] = "commit"]
    /\ change' = [change EXCEPT ![c] = x]
    /\ stamp' = [stamp EXCEPT ![c] = now]
    /\ UNCHANGED <<now, storeVars, row, requestVars>>

(* Mutant: a block is lifted without a trace.                              *)
NextGeneration_Invalidate(t, action) ==
    policy[t].generation + (IF action = "invalidate" THEN 1 ELSE 0)

NextGeneration(t, action) == policy[t].generation + 1

(* An invalidation leaves a block in force.                                *)
NowBlocked(t, action) ==
    IF action = "invalidate" THEN policy[t].blocked ELSE action = "block"

CommitChange(c) ==
    LET x == change[c]
        generation == NextGeneration(x.target, x.action) IN
    /\ cpc[c] = "commit"
    /\ policy' = [policy EXCEPT ![x.target] =
          [generation |-> generation, blocked |-> NowBlocked(x.target, x.action),
           revoked |-> stamp[c]]]
    /\ operation' = [operation EXCEPT ![x.op] = x]
    /\ log' = Append(log, [change |-> x, stamp |-> stamp[c], generation |-> generation])
    /\ EndChange(c)
    /\ UNCHANGED <<now, row, requestVars>>

(* A statement fails, or the process stops: nothing is left of it.         *)
AbortChange(c) ==
    /\ cpc[c] # "idle"
    /\ EndChange(c)
    /\ UNCHANGED <<now, storeVars, row, requestVars>>

-----------------------------------------------------------------------------
(* Requests of browsers.                                                   *)

Goto(r, s) == pc' = [pc EXCEPT ![r] = s]

(* What was read for a sign-in or a check is of no more use.               *)
Forget(r) ==
    /\ who' = [who EXCEPT ![r] = None]
    /\ found' = [found EXCEPT ![r] = NothingFound]
    /\ seen' = [seen EXCEPT ![r] = Zero]

End(r) ==
    /\ Goto(r, "idle")
    /\ token' = [token EXCEPT ![r] = None]
    /\ data' = [data EXCEPT ![r] = Anonymous]
    /\ begun' = [begun EXCEPT ![r] = 0]
    /\ Forget(r)

(* A cookie whose row is missing or has expired is as good as none.        *)
Known == {t \in Tokens : row[t] # None} \cup {None}

Stored(t) == IF t = None THEN Anonymous ELSE row[t]

(* It is loaded, and the handler works on a copy of it until its next call.*)
Load(r, t, next) ==
    /\ pc[r] = "idle"
    /\ Goto(r, next)
    /\ token' = [token EXCEPT ![r] = t]
    /\ data' = [data EXCEPT ![r] = Stored(t)]
    /\ UNCHANGED <<now, storeVars, row, changeVars, who, found, seen>>

(* The state, nonce and verifier of a sign-in are put into the session.    *)
Login(r, t) == Load(r, t, "save") /\ UNCHANGED begun

(* They are taken out of it, and are those of this answer or not.          *)
Callback(r, t) == (Load(r, t, "exchange") \/ Load(r, t, "save")) /\ UNCHANGED begun

Logout(r, t) == Load(r, t, "logout") /\ UNCHANGED begun

(* Any other request: the session's principal, if it has one, is checked.  *)
AttachPrincipal(r, t) ==
    \/ Stored(t) = Anonymous /\ Load(r, t, "serve") /\ UNCHANGED begun
    \/ /\ Stored(t) # Anonymous
       /\ Load(r, t, "subject")
       /\ begun' = [begun EXCEPT ![r] = Len(log)]

(* The provider issues an ID token for its code, or does not.              *)
Exchange(r) ==
    /\ pc[r] = "exchange"
    /\ \/ \E a \in Accounts, iat \in Time :
             /\ iat <= now
             /\ now < iat + Second
             /\ who' = [who EXCEPT ![r] =
                   [subject |-> a.subject, session |-> a.session, iat |-> iat]]
             /\ Goto(r, "subject")
       \/ Goto(r, "save") /\ UNCHANGED who
    /\ UNCHANGED <<now, storeVars, row, changeVars, token, data, found, seen, begun>>

(* Whose policies are read: the one signing in, or the session's own.      *)
Principal(r) == IF who[r] # None THEN who[r] ELSE data[r]

(* SessionPolicy, its first statement.                                     *)
ReadSubjectPolicy(r) ==
    LET p == policy[Principal(r).subject] IN
    /\ pc[r] = "subject"
    /\ found' = [found EXCEPT ![r] =
          [generation |-> [subject |-> p.generation, session |-> 0],
           blocked |-> p.blocked, revoked |-> p.revoked]]
    /\ seen' = [seen EXCEPT ![r] =
          [subject |-> IF who[r] = None THEN 0 ELSE Len(log), session |-> 0]]
    /\ Goto(r, "session")
    /\ UNCHANGED <<now, storeVars, row, changeVars, token, data, who, begun>>

Later(s, t) == IF s < t THEN t ELSE s

(* And with its second one, which is left out without a sid.               *)
Policies(r) ==
    LET s == Principal(r).session
        p == IF s = None THEN NoPolicy ELSE policy[s] IN
    [generation |-> [subject |-> found[r].generation.subject, session |-> p.generation],
     blocked |-> found[r].blocked \/ p.blocked,
     revoked |-> Later(found[r].revoked, p.revoked)]

(* Mutant: an ID token of the time of the change is let in.                *)
Admits_SameTime(p, iat) == ~p.blocked /\ (p.revoked > 0 => iat >= p.revoked)

(* A sign-in is let in.                                                    *)
Admits(p, iat) == ~p.blocked /\ (p.revoked > 0 => iat > p.revoked)

(* A session is accepted.                                                  *)
Accepts(p, s) == ~p.blocked /\ p.generation = s

(* Then a sign-in is decided upon,                                         *)
AdmitSignIn(r) ==
    /\ pc[r] = "session"
    /\ who[r] # None
    /\ \/ /\ Admits(Policies(r), who[r].iat)
          /\ Goto(r, "renew")
          /\ found' = [found EXCEPT ![r] = Policies(r)]
          /\ seen' = [seen EXCEPT ![r] =
                [subject |-> seen[r].subject, session |-> Len(log)]]
          /\ UNCHANGED who
       \/ /\ ~Admits(Policies(r), who[r].iat)
          /\ Goto(r, "save")
          /\ Forget(r)
    /\ UNCHANGED <<now, storeVars, row, changeVars, token, data, begun>>

(* or a request.                                                           *)
AcceptSession(r) ==
    /\ pc[r] = "session"
    /\ who[r] = None
    /\ Goto(r, IF Accepts(Policies(r), data[r].stamp) THEN "serve" ELSE "revoked")
    /\ Forget(r)
    /\ UNCHANGED <<now, storeVars, row, changeVars, token, data, begun>>

Unused(t) == row[t] = None /\ \A r \in Requests : token[r] # t

(* A sign-in gets a new cookie and its old row is deleted.                 *)
RenewToken(r) ==
    /\ pc[r] = "renew"
    /\ row' = IF token[r] = None THEN row ELSE [row EXCEPT ![token[r]] = None]
    /\ \E t \in Tokens : Unused(t) /\ token' = [token EXCEPT ![r] = t]
    /\ data' = [data EXCEPT ![r] =
          [subject |-> who[r].subject, session |-> who[r].session,
           stamp |-> found[r].generation, known |-> seen[r]]]
    /\ Goto(r, "save")
    /\ Forget(r)
    /\ UNCHANGED <<now, storeVars, changeVars, begun>>

(* The response begins: the copy is written back, so that an idle session  *)
(* ends later; one that is new gets a row if anything was put into it.     *)
Save(r) ==
    /\ pc[r] \in {"serve", "save"}
    /\ \/ token[r] = None /\ UNCHANGED row
       \/ \E t \in Tokens :
             /\ IF token[r] = None THEN Unused(t) ELSE t = token[r]
             /\ row' = [row EXCEPT ![t] = data[r]]
    /\ End(r)
    /\ UNCHANGED <<now, storeVars, changeVars>>

(* The session is revoked or signed off: its row is deleted.               *)
Destroy(r) ==
    /\ pc[r] \in {"revoked", "logout"}
    /\ row' = IF token[r] = None THEN row ELSE [row EXCEPT ![token[r]] = None]
    /\ End(r)
    /\ UNCHANGED <<now, storeVars, changeVars>>

(* The store is unavailable. The answer is an error, and the session is    *)
(* written back all the same.                                              *)
Unavailable(r) ==
    /\ pc[r] \in {"subject", "session", "renew", "revoked", "logout"}
    /\ Goto(r, "save")
    /\ Forget(r)
    /\ UNCHANGED <<now, storeVars, row, changeVars, token, data, begun>>

(* The browser is gone, the session is not written or the server stops.    *)
Disconnect(r) ==
    /\ pc[r] # "idle"
    /\ End(r)
    /\ UNCHANGED <<now, storeVars, row, changeVars>>

(* A session's idle time or lifetime is over, sooner or later.             *)
DeleteExpired(t) ==
    /\ row[t] # None
    /\ row' = [row EXCEPT ![t] = None]
    /\ UNCHANGED <<now, storeVars, changeVars, requestVars>>

Begin(r) ==
    \E t \in Known :
        Login(r, t) \/ Callback(r, t) \/ Logout(r, t) \/ AttachPrincipal(r, t)

Step(r) ==
    \/ Begin(r)
    \/ Exchange(r)
    \/ ReadSubjectPolicy(r)
    \/ AdmitSignIn(r)
    \/ AcceptSession(r)
    \/ RenewToken(r)
    \/ Save(r)
    \/ Destroy(r)
    \/ Unavailable(r)
    \/ Disconnect(r)

ChangeStep(c) ==
    \/ \E x \in Changes : BeginOperation(c, x)
    \/ CommitChange(c)
    \/ AbortChange(c)

Next ==
    \/ Tick
    \/ \E c \in Changers : ChangeStep(c)
    \/ \E r \in Requests : Step(r)
    \/ \E t \in Tokens : DeleteExpired(t)

Spec == Init /\ [][Next]_vars

-----------------------------------------------------------------------------
(* Properties.                                                             *)

(* The change with number i is of target t.                                *)
Concerns(i, t) == log[i].change.target = t

(* "invalidation applies to subsequent requests": a request is served for a*)
(* session only if nothing that ends it was done between the sign-in's     *)
(* reading of the policy and the beginning of the request, whichever copy  *)
(* of the session was written back in between; nor while its subject is    *)
(* blocked, and an unblocked subject's old sessions stay ended.            *)
ServedIsCurrent ==
    \A r \in Requests :
        LET id == data[r] IN
        pc[r] = "serve" /\ id # Anonymous =>
            /\ \A i \in (id.known.subject + 1)..begun[r] : ~Concerns(i, id.subject)
            /\ \A i \in (id.known.session + 1)..begun[r] : ~Concerns(i, id.session)
            /\ \A i \in 1..begun[r] :
                  Concerns(i, id.subject) /\ log[i].change.action = "block" =>
                      \E j \in (i + 1)..Len(log) :
                          Concerns(j, id.subject) /\ log[j].change.action = "unblock"

(* Number n is the last change of t that a reading of m changes has seen.  *)
Last(n, t, m) ==
    /\ n \in 1..m
    /\ Concerns(n, t)
    /\ \A i \in (n + 1)..m : ~Concerns(i, t)

(* "A fresh login must use an ID Token issued after the latest policy      *)
(* change": the last change, of the subject or of the provider's session,  *)
(* before a sign-in that succeeds began before its ID token was issued.    *)
FreshSignIn ==
    \A r \in Requests : pc[r] = "renew" =>
        \A n \in 1..Len(log) :
            Last(n, who[r].subject, seen[r].subject) \/ Last(n, who[r].session, seen[r].session)
            => log[n].stamp < who[r].iat

(* "JTI replay is idempotent and cannot invalidate a later fresh login a   *)
(* second time": a session is ended only by a change that was made after   *)
(* its sign-in, and by the first of those with its operation id.           *)
EndedByLaterChange ==
    \A r \in Requests :
        LET id == data[r] IN
        pc[r] = "revoked" =>
            \E i \in 1..Len(log) :
                /\ \/ Concerns(i, id.subject) /\ i > id.known.subject
                   \/ Concerns(i, id.session) /\ i > id.known.session
                /\ \A j \in 1..(i - 1) : log[j].change.op # log[i].change.op
=============================================================================
