----------------------------- MODULE MachineRead -----------------------------
(***************************************************************************)
(* Reads of the machine API: authentication by token and certificate,      *)
(* prepared statements shared by all requests, and the read of a resolved  *)
(* config, of a file of the vault or of the active release in one          *)
(* REPEATABLE READ transaction (internal/machine and machine.go,           *)
(* machine_statements.go and release.go of internal/storage/mysqlstore).   *)
(*                                                                         *)
(* All requests are for one environment. An item has one field; what a     *)
(* field holds is known by the item and its revision, whose rows never     *)
(* change. Writers change the database between any two statements.         *)
(*                                                                         *)
(* Every request that is answered with content or with "not modified"      *)
(* leaves the caller with some content: what it was sent or what it kept.  *)
(***************************************************************************)
EXTENDS Integers, Sequences, FiniteSets

CONSTANTS
    Configs,        \* config resource keys
    Items,          \* vault items
    Namespace,      \* the namespace of each item
    Documents,      \* sets of items that a config revision may refer to
    Contents,       \* what a revision of an item may be
    Tokens,         \* API tokens
    Credential,     \* the unchanging part of their rows
    Certificates,   \* registered client certificates
    Clients,        \* requests in progress at the same time
    Connections,    \* size of the pool (20)
    Workloads,      \* who reads what and how much changes, one at a time
    None

Kind == {"config", "file", "release"}

(* bound: the item has a variant for the environment in that revision.     *)
Content == [bound : BOOLEAN, type : {"text", "file", "none"}]

TokenRow == [kind : {"read-only", "write-scoped"}, withoutMTLS : BOOLEAN,
             bound : Certificates \cup {None}, granted : BOOLEAN,
             configs : SUBSET Configs, namespaces : SUBSET {Namespace[i] : i \in Items}]

Request == [kind : Kind, token : Tokens, certificate : Certificates \cup {None},
            target : Configs \cup Items]

(* Requests of these clients, from these rows on, and bounds of this model:*)
(* how often the database is changed, and what items may become.           *)
Workload == [clients : SUBSET Clients, requests : SUBSET Request, changes : Nat,
             document : [Configs -> Documents], content : [Items -> Contents]]

ASSUME ReadAssumption ==
    /\ IsFiniteSet(Clients)
    /\ Configs \cap Items = {}
    /\ None \notin Certificates
    /\ Connections \in Nat \ {0}
    /\ Documents \subseteq SUBSET Items
    /\ Contents \subseteq Content
    /\ Credential \in [Tokens -> TokenRow]
    /\ Workloads \subseteq Workload
    /\ \A w \in Workloads : \A r \in w.requests :
          r.target \in IF r.kind = "file" THEN Items ELSE Configs

(* The statements that are prepared once and kept.                         *)
Queries == {"token", "certificate", "config", "environment", "references", "metadata",
            "fields", "payload"}

(* A release is read by statements of its own.                             *)
Statements ==
    [config |-> <<"config", "references", "metadata", "fields", "payload">>,
     file |-> <<"environment", "metadata", "fields", "payload">>,
     release |-> <<>>]

VARIABLES
    workload,       \* what this behaviour is about
    db,             \* the rows that reads see
    revoked,        \* tokens that are revoked or have expired
    active,         \* certificates that are active, and their authorities
    changes,        \* changes there may still be, the process's end included
    cache,          \* machineStatements.statements
    closed,         \* machineStatements.closed
    open,           \* statements that are not closed, by who prepared them
    closing,        \* those that close is closing
    pc,             \* the next step of each client
    req,            \* its request
    todo,           \* the queries it needs statements of
    after,          \* where it goes when it has them
    got,            \* the statements it has
    view,           \* what its transaction sees
    held,           \* content that it keeps, to be asked about by ETag
    status,         \* how its last request was answered
    moments,        \* what full reads would have returned since its request
    late            \* its credentials were revoked before its request

storeVars == <<db, revoked, active, changes>>
cacheVars == <<cache, closed, open, closing>>
readVars == <<req, todo, after, got, view, late>>
vars == <<workload, storeVars, cacheVars, pc, readVars, held, status, moments>>

(* The active release of a config pins the revisions it is made of; items  *)
(* that have no part in it are at 0.                                       *)
Release == [generation : Nat, revision : Nat, items : [Items -> Nat]]

(* The environment is not archived; rows of a config in it and of an item  *)
(* are those of its revisions, the last of which is current.               *)
Database == [environment : BOOLEAN,
             documents : [Configs -> Seq(Documents)],
             contents : [Items -> Seq(Contents)],
             archived : SUBSET (Configs \cup Items),
             release : [Configs -> Release \cup {None}]]

(* What answers say: the revisions that make up the content.               *)
Answer == [target : Configs \cup Items, revision : Nat, generation : Nat,
           items : [Items -> Nat]]

Failure == {"not_found", "unresolved"}

Result == [status : {"content"}, answer : Answer] \cup [status : Failure, answer : {None}]

Statement == Queries \X Clients

ASSUME NoneAssumption == None \notin Statement \cup Request \cup Database \cup Answer \cup Release

Steps == {"idle", "statement", "prepare", "keep", "token", "certificate", "begin",
          "config", "references", "environment", "metadata", "payload", "release", "resolve"}

Status == {"none", "content", "unchanged", "refused", "failed"} \cup Failure

TypeOK ==
    /\ workload \in Workloads
    /\ db \in Database
    /\ revoked \subseteq Tokens /\ active \subseteq Certificates
    /\ changes \in Nat
    /\ cache \in [Queries -> Statement \cup {None}]
    /\ closed \in BOOLEAN
    /\ open \subseteq Statement /\ closing \subseteq Statement
    /\ pc \in [Clients -> Steps]
    /\ req \in [Clients -> Request \cup {None}]
    /\ todo \in [Clients -> Seq(Queries)]
    /\ after \in [Clients -> {"token", "certificate", "begin"}]
    /\ got \in [Clients -> SUBSET Statement]
    /\ view \in [Clients -> Database \cup {None}]
    /\ held \in [Clients -> Answer \cup {None}]
    /\ status \in [Clients -> Status]
    /\ moments \in [Clients -> SUBSET Result]
    /\ late \in [Clients -> BOOLEAN]

(* Everything is there once, with all that it refers to.                   *)
Init ==
    /\ workload \in Workloads
    /\ db = [environment |-> TRUE,
             documents |-> [k \in Configs |-> <<workload.document[k]>>],
             contents |-> [i \in Items |-> <<workload.content[i]>>],
             archived |-> {},
             release |-> [k \in Configs |-> None]]
    /\ revoked = {} /\ active = Certificates
    /\ changes = workload.changes
    /\ cache = [q \in Queries |-> None]
    /\ closed = FALSE
    /\ open = {} /\ closing = {}
    /\ pc = [c \in Clients |-> "idle"]
    /\ req = [c \in Clients |-> None]
    /\ todo = [c \in Clients |-> <<>>]
    /\ after = [c \in Clients |-> "token"]
    /\ got = [c \in Clients |-> {}]
    /\ view = [c \in Clients |-> None]
    /\ held = [c \in Clients |-> None]
    /\ status = [c \in Clients |-> "none"]
    /\ moments = [c \in Clients |-> {}]
    /\ late = [c \in Clients |-> FALSE]

-----------------------------------------------------------------------------
(* The database, and what a read of it in one piece returns.               *)

Last(s) == s[Len(s)]

(* A config can be read in the environment.                                *)
Anchored(d, k) == d.environment /\ k \notin d.archived

(* The row of the item's current revision that has a variant.              *)
Available(d, i) == i \notin d.archived /\ Last(d.contents[i]).bound

Latest(d, S) == [i \in Items |-> IF i \in S THEN Len(d.contents[i]) ELSE 0]

Involved(items) == {i \in Items : items[i] # 0}

Found(target, revision, generation, items) ==
    [status |-> "content",
     answer |-> [target |-> target, revision |-> revision,
                 generation |-> generation, items |-> items]]

Failed(failure) == [status |-> failure, answer |-> None]

(* The vault revisions that rows name can be resolved as text.             *)
Resolvable(d, items) ==
    \A i \in Involved(items) :
        /\ Available(d, i)
        /\ Last(d.contents[i]).type = "text"
        /\ d.contents[i][items[i]].bound
        /\ d.contents[i][items[i]].type = "text"

FullRead(d, r) ==
    LET k == r.target IN
    CASE r.kind = "file" ->
            IF d.environment /\ Available(d, k) /\ Last(d.contents[k]).type = "file"
            THEN Found(k, Len(d.contents[k]), 0, Latest(d, {k})) ELSE Failed("not_found")
      [] r.kind = "config" /\ Anchored(d, k) ->
            LET items == Latest(d, Last(d.documents[k])) IN
            IF Resolvable(d, items) THEN Found(k, Len(d.documents[k]), 0, items)
                                    ELSE Failed("unresolved")
      [] r.kind = "release" /\ Anchored(d, k) /\ d.release[k] # None ->
            LET row == d.release[k] IN
            IF Resolvable(d, row.items) THEN Found(k, row.revision, row.generation, row.items)
                                        ELSE Failed("unresolved")
      [] OTHER -> Failed("not_found")

(* Nothing but the database changes, and requests in progress see it.      *)
Change(d) ==
    /\ changes > 0
    /\ changes' = changes - 1
    /\ db' = d
    /\ moments' = [c \in Clients |->
          IF pc[c] = "idle" THEN moments[c] ELSE moments[c] \cup {FullRead(d, req[c])}]
    /\ UNCHANGED <<workload, revoked, active, cacheVars, pc, readVars, held, status>>

Rows(environment, documents, contents, archived, release) ==
    [environment |-> environment, documents |-> documents, contents |-> contents,
     archived |-> archived, release |-> release]

CommitConfig(k) ==
    \E document \in Documents :
        Change(Rows(db.environment, [db.documents EXCEPT ![k] = Append(@, document)],
                    db.contents, db.archived, db.release))

CommitVault(i) ==
    \E content \in Contents :
        Change(Rows(db.environment, db.documents,
                    [db.contents EXCEPT ![i] = Append(@, content)], db.archived, db.release))

(* Archived or restored.                                                   *)
ChangeLifecycle(x) ==
    Change(Rows(db.environment, db.documents, db.contents,
                (db.archived \cup {x}) \ (db.archived \cap {x}), db.release))

ChangeEnvironment ==
    Change(Rows(~db.environment, db.documents, db.contents, db.archived, db.release))

(* Prepared and made active at once: what current revisions resolve to.    *)
ActivateRelease(k) ==
    LET items == Latest(db, Last(db.documents[k]))
        row == db.release[k]
        activated == [generation |-> IF row = None THEN 1 ELSE row.generation + 1,
                       revision |-> Len(db.documents[k]), items |-> items] IN
    /\ Anchored(db, k)
    /\ Resolvable(db, items)
    /\ Change(Rows(db.environment, db.documents, db.contents, db.archived,
                   [db.release EXCEPT ![k] = activated]))

Withdraw(tokens, certificates) ==
    /\ changes > 0
    /\ changes' = changes - 1
    /\ revoked' = revoked \cup tokens
    /\ active' = active \ certificates
    /\ UNCHANGED <<workload, db, cacheVars, pc, readVars, held, status, moments>>

RevokeToken(t) == t \notin revoked /\ Withdraw({t}, {})

RevokeCertificate(x) == x \in active /\ Withdraw({}, {x})

-----------------------------------------------------------------------------
(* Connections and prepared statements.                                    *)

At(c, step) == pc[c] = step

Goto(c, step) == pc' = [pc EXCEPT ![c] = step]

InTransaction ==
    {"config", "references", "environment", "metadata", "payload", "release", "resolve"}

(* Mutant: the transaction is begun before its statements are prepared.    *)
Holding_Preparing(c) ==
    \/ pc[c] \in InTransaction
    \/ pc[c] \in {"statement", "prepare", "keep", "begin"} /\ after[c] = "begin"

(* A transaction keeps its connection, single statements give it back.     *)
Holding(c) == pc[c] \in InTransaction

ConnectionFree == Cardinality({c \in Clients : Holding(c)}) < Connections

(* The request ends, and with it its transaction.                          *)
End(c, s, answer) ==
    /\ Goto(c, "idle")
    /\ req' = [req EXCEPT ![c] = None]
    /\ todo' = [todo EXCEPT ![c] = <<>>]
    /\ after' = [after EXCEPT ![c] = "token"]
    /\ got' = [got EXCEPT ![c] = {}]
    /\ view' = [view EXCEPT ![c] = None]
    /\ held' = [held EXCEPT ![c] = answer]
    /\ status' = [status EXCEPT ![c] = s]
    /\ moments' = [moments EXCEPT ![c] = {}]
    /\ late' = [late EXCEPT ![c] = FALSE]

Fail(c, s) == End(c, s, held[c])

(* It needs these statements, and goes on with step.                       *)
Obtain(c, queries, step) ==
    /\ Goto(c, IF queries = <<>> THEN step ELSE "statement")
    /\ todo' = [todo EXCEPT ![c] = queries]
    /\ after' = [after EXCEPT ![c] = step]
    /\ UNCHANGED <<req, got, view, held, status, moments, late>>

(* One more of them is there.                                              *)
Have(c, statement) ==
    /\ got' = [got EXCEPT ![c] = @ \cup {statement}]
    /\ todo' = [todo EXCEPT ![c] = Tail(@)]
    /\ Goto(c, IF Len(todo[c]) = 1 THEN after[c] ELSE "statement")
    /\ UNCHANGED <<req, after, view, held, status, moments, late>>

(* The cache is asked with its mutex held, which is given up for the I/O.  *)
FindStatement(c) ==
    /\ At(c, "statement")
    /\ LET statement == cache[Head(todo[c])] IN
       \/ closed /\ Fail(c, "failed")
       \/ ~closed /\ statement # None /\ Have(c, statement)
       \/ /\ ~closed /\ statement = None
          /\ Goto(c, "prepare")
          /\ UNCHANGED <<readVars, held, status, moments>>
    /\ UNCHANGED <<workload, storeVars, cacheVars>>

PrepareStatement(c) ==
    /\ At(c, "prepare")
    /\ ConnectionFree
    /\ open' = open \cup {<<Head(todo[c]), c>>}
    /\ Goto(c, "keep")
    /\ UNCHANGED <<workload, storeVars, cache, closed, closing, readVars, held, status, moments>>

(* Mutant: whoever comes second leaves its statement open.                 *)
Discard_LeftOpen(statement) == UNCHANGED open

(* The statement is not needed, and closed.                                *)
Discard(statement) == open' = open \ {statement}

(* Under the mutex again.                                                  *)
KeepStatement(c) ==
    /\ At(c, "keep")
    /\ LET query == Head(todo[c])
           statement == <<query, c>> IN
       \/ closed /\ Discard(statement) /\ Fail(c, "failed") /\ UNCHANGED cache
       \/ /\ ~closed /\ cache[query] # None
          /\ Discard(statement)
          /\ Have(c, cache[query])
          /\ UNCHANGED cache
       \/ /\ ~closed /\ cache[query] = None
          /\ cache' = [cache EXCEPT ![query] = statement]
          /\ Have(c, statement)
          /\ UNCHANGED open
    /\ UNCHANGED <<workload, storeVars, closed, closing>>

(* The process is about to stop, whether or not requests have ended.       *)
Close ==
    /\ ~closed
    /\ changes > 0
    /\ changes' = changes - 1
    /\ closed' = TRUE
    /\ closing' = {cache[q] : q \in Queries} \ {None}
    /\ cache' = [q \in Queries |-> None]
    /\ UNCHANGED <<workload, db, revoked, active, open, pc, readVars, held, status, moments>>

CloseStatement ==
    /\ \E statement \in closing :
          /\ closing' = closing \ {statement}
          /\ open' = open \ {statement}
    /\ UNCHANGED <<workload, storeVars, cache, closed, pc, readVars, held, status, moments>>

-----------------------------------------------------------------------------
(* Authentication.                                                         *)

Begin(c, r) ==
    /\ At(c, "idle")
    /\ c \in workload.clients
    /\ Goto(c, "statement")
    /\ req' = [req EXCEPT ![c] = r]
    /\ todo' = [todo EXCEPT ![c] = <<"token">>]
    /\ after' = [after EXCEPT ![c] = "token"]
    /\ status' = [status EXCEPT ![c] = "none"]
    /\ moments' = [moments EXCEPT ![c] = {FullRead(db, r)}]
    /\ late' = [late EXCEPT ![c] =
          r.token \in revoked \/ r.certificate \notin active \cup {None}]
    /\ UNCHANGED <<workload, storeVars, cacheVars, got, view, held>>

(* Its statement for query has not been closed. Only calls outside a       *)
(* transaction fail if it has: a transaction keeps the statements it is    *)
(* bound to, and prepares closed ones again on its own connection.         *)
Usable(c, query) == \E s \in got[c] : s[1] = query /\ s \in open

(* Mutant: a token that was accepted once is remembered.                   *)
TokenValid_Remembered(c) == req[c].token \notin revoked \/ held[c] # None

TokenValid(c) == req[c].token \notin revoked

(* A certificate may be left out by tokens that say so.                    *)
CertificateFits(c) ==
    LET row == Credential[req[c].token]
        presented == req[c].certificate IN
    IF presented = None
    THEN row.withoutMTLS /\ row.kind # "write-scoped" /\ row.bound = None
    ELSE row.bound \in {None, presented}

(* The environment is granted, and the target in the scope of the token.   *)
TargetAllowed(c) ==
    LET row == Credential[req[c].token]
        r == req[c] IN
    /\ row.granted
    /\ IF r.kind = "file" THEN Namespace[r.target] \in row.namespaces ELSE r.target \in row.configs

Authenticated(c) ==
    IF TargetAllowed(c) THEN Obtain(c, Statements[req[c].kind], "begin") ELSE Fail(c, "refused")

ReadToken(c) ==
    /\ At(c, "token")
    /\ ConnectionFree
    /\ \/ ~Usable(c, "token") /\ Fail(c, "failed")
       \/ Usable(c, "token") /\ ~(TokenValid(c) /\ CertificateFits(c)) /\ Fail(c, "refused")
       \/ /\ Usable(c, "token") /\ TokenValid(c) /\ CertificateFits(c)
          /\ IF req[c].certificate = None THEN Authenticated(c)
                                          ELSE Obtain(c, <<"certificate">>, "certificate")
    /\ UNCHANGED <<workload, storeVars, cacheVars>>

ReadCertificate(c) ==
    /\ At(c, "certificate")
    /\ ConnectionFree
    /\ \/ ~Usable(c, "certificate") /\ Fail(c, "failed")
       \/ Usable(c, "certificate") /\ req[c].certificate \notin active /\ Fail(c, "refused")
       \/ Usable(c, "certificate") /\ req[c].certificate \in active /\ Authenticated(c)
    /\ UNCHANGED <<workload, storeVars, cacheVars>>

-----------------------------------------------------------------------------
(* The transaction.                                                        *)

Root == [config |-> "config", file |-> "environment", release |-> "release"]

BeginSnapshot(c) ==
    /\ At(c, "begin")
    /\ ConnectionFree
    /\ Goto(c, Root[req[c].kind])
    /\ UNCHANGED <<workload, storeVars, cacheVars, readVars, held, status, moments>>

(* Mutant: READ COMMITTED, a view for each statement.                      *)
Seen_Committed(c) == db

(* What plain SELECTs see: the rows as of the first of them.               *)
Seen(c) == IF view[c] = None THEN db ELSE view[c]

(* The request goes on, with what its transaction sees from now on.        *)
Proceed(c, step) ==
    /\ Goto(c, step)
    /\ view' = [view EXCEPT ![c] = Seen(c)]
    /\ UNCHANGED <<req, todo, after, got, held, status, moments, late>>

ReadConfig(c) ==
    /\ At(c, "config")
    /\ IF Anchored(Seen(c), req[c].target) THEN Proceed(c, "references")
                                           ELSE Fail(c, "not_found")
    /\ UNCHANGED <<workload, storeVars, cacheVars>>

InScope(c, S) == {Namespace[i] : i \in S} \subseteq Credential[req[c].token].namespaces

ReadReferences(c) ==
    /\ At(c, "references")
    /\ IF InScope(c, Last(Seen(c).documents[req[c].target])) THEN Proceed(c, "metadata")
                                                            ELSE Fail(c, "refused")
    /\ UNCHANGED <<workload, storeVars, cacheVars>>

ReadEnvironment(c) ==
    /\ At(c, "environment")
    /\ IF Seen(c).environment THEN Proceed(c, "metadata") ELSE Fail(c, "not_found")
    /\ UNCHANGED <<workload, storeVars, cacheVars>>

(* What the transaction reads of the config or file.                       *)
Current(c) ==
    LET d == Seen(c)
        k == req[c].target IN
    IF req[c].kind = "file"
    THEN Found(k, Len(d.contents[k]), 0, Latest(d, {k})).answer
    ELSE Found(k, Len(d.documents[k]), 0, Latest(d, Last(d.documents[k]))).answer

(* A hash of the keys and revisions that make up the content, or of the    *)
(* release's manifest with its generation.                                 *)
ETag(answer) == <<answer.target, answer.revision, answer.generation, answer.items>>

(* The caller has sent the tag of what it keeps.                           *)
Matches(c, answer) == held[c] # None /\ ETag(held[c]) = ETag(answer)

(* Nothing is decrypted for a caller that has the content.                 *)
ReadMetadata(c) ==
    /\ At(c, "metadata")
    /\ LET missing == \E i \in Involved(Current(c).items) : ~Available(Seen(c), i) IN
       \/ missing /\ Fail(c, IF req[c].kind = "file" THEN "not_found" ELSE "unresolved")
       \/ /\ ~missing
          /\ IF Matches(c, Current(c)) THEN Fail(c, "unchanged") ELSE Proceed(c, "payload")
    /\ UNCHANGED <<workload, storeVars, cacheVars>>

(* Types and encrypted values, and the commit.                             *)
ReadPayload(c) ==
    /\ At(c, "payload")
    /\ LET type == [i \in Items |-> Last(Seen(c).contents[i]).type] IN
       IF req[c].kind = "file"
       THEN IF type[req[c].target] = "file" THEN End(c, "content", Current(c))
                                            ELSE Fail(c, "not_found")
       ELSE IF \A i \in Involved(Current(c).items) : type[i] = "text"
            THEN End(c, "content", Current(c)) ELSE Fail(c, "unresolved")
    /\ UNCHANGED <<workload, storeVars, cacheVars>>

ReadReleaseRoot(c) ==
    /\ At(c, "release")
    /\ LET k == req[c].target IN
       IF Anchored(Seen(c), k) /\ Seen(c).release[k] # None THEN Proceed(c, "resolve")
                                                             ELSE Fail(c, "not_found")
    /\ UNCHANGED <<workload, storeVars, cacheVars>>

(* The pinned revisions, and the items as they are now; what is pinned is  *)
(* looked at even if the caller has the content.                           *)
ResolveRelease(c) ==
    /\ At(c, "resolve")
    /\ LET row == Seen(c).release[req[c].target]
           answer == Found(req[c].target, row.revision, row.generation, row.items).answer IN
       \/ ~InScope(c, Involved(row.items)) /\ Fail(c, "refused")
       \/ ~Resolvable(Seen(c), row.items) /\ Fail(c, "unresolved")
       \/ /\ InScope(c, Involved(row.items))
          /\ Resolvable(Seen(c), row.items)
          /\ IF Matches(c, answer) THEN Fail(c, "unchanged") ELSE End(c, "content", answer)
    /\ UNCHANGED <<workload, storeVars, cacheVars>>

(* A statement or its preparation fails, or the caller is gone. What is    *)
(* prepared is kept.                                                       *)
Abort(c) ==
    /\ pc[c] \notin {"idle", "keep"}
    /\ Fail(c, "failed")
    /\ UNCHANGED <<workload, storeVars, cacheVars>>

-----------------------------------------------------------------------------
Step(c) ==
    \/ FindStatement(c)
    \/ PrepareStatement(c)
    \/ KeepStatement(c)
    \/ ReadToken(c)
    \/ ReadCertificate(c)
    \/ BeginSnapshot(c)
    \/ ReadConfig(c)
    \/ ReadReferences(c)
    \/ ReadEnvironment(c)
    \/ ReadMetadata(c)
    \/ ReadPayload(c)
    \/ ReadReleaseRoot(c)
    \/ ResolveRelease(c)

Write ==
    \/ \E k \in Configs : CommitConfig(k) \/ ActivateRelease(k)
    \/ \E i \in Items : CommitVault(i)
    \/ \E x \in Configs \cup Items : ChangeLifecycle(x)
    \/ ChangeEnvironment
    \/ \E t \in Tokens : RevokeToken(t)
    \/ \E x \in Certificates : RevokeCertificate(x)

Next ==
    \/ \E c \in Clients :
          \/ \E r \in workload.requests : Begin(c, r)
          \/ Step(c)
          \/ Abort(c)
    \/ Write
    \/ Close
    \/ CloseStatement

Spec == Init /\ [][Next]_vars

(* A request in progress goes on. One that waits for a connection is given *)
(* one of those that come back: the pool picks among the waiting at random *)
(* so that none is passed over for ever.                                   *)
FairSpec == Spec /\ (\A c \in Clients : SF_vars(Step(c))) /\ WF_vars(CloseStatement)

-----------------------------------------------------------------------------
(* Properties.                                                             *)

(* A caller is left with what a read in one piece would have returned at   *)
(* some moment of its request, although statements are read one by one:    *)
(* whether it was sent or is said not to have changed, the content is not  *)
(* put together from revisions of different moments and no change is       *)
(* missed; and what is said to be missing was missing.                     *)
AnswersAreOneMoment ==
    [][\A c \in Clients :
          pc[c] # "idle" /\ pc'[c] = "idle" =>
             /\ status'[c] \in {"content", "unchanged"} =>
                   [status |-> "content", answer |-> held'[c]] \in moments[c]
             /\ status'[c] \in Failure => Failed(status'[c]) \in moments[c]]_vars

(* "Every request still reads current database state": once a token or a   *)
(* certificate has been revoked, no request that begins gets content, or   *)
(* to know that content has not changed.                                   *)
RevokedIsRefused ==
    [][\A c \in Clients :
          late[c] /\ pc'[c] = "idle" => status'[c] \notin {"content", "unchanged"}]_vars

(* A statement that is open is one that all requests share, or in the      *)
(* hands of who has just prepared it or of who is closing it; and those    *)
(* that are shared are open.                                               *)
NoStatementLeaks ==
    LET shared == {cache[q] : q \in Queries} \ {None}
        fresh == {<<Head(todo[c]), c>> : c \in {d \in Clients : At(d, "keep")}} IN
    /\ open \subseteq shared \cup fresh \cup closing
    /\ shared \subseteq open
    /\ closed => shared = {}

(* "Preparing via DB inside the transaction would deadlock when all pool   *)
(* connections are in use": no request waits for a connection for ever,    *)
(* however small the pool.                                                 *)
ReadsEnd == \A c \in Clients : ~At(c, "idle") ~> At(c, "idle")
=============================================================================
