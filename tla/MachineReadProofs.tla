-------------------------- MODULE MachineReadProofs --------------------------
(***************************************************************************)
(* Proofs about MachineRead: an answer is what the database was at one     *)
(* moment, what was revoked before a request is refused, and no prepared   *)
(* statement is lost.                                                      *)
(*                                                                         *)
(* The inductive invariant has three parts. Of the statements: who prepares*)
(* one is not who has put another into the cache. Of a request: how far it *)
(* has got tells what its transaction has found and what its credentials   *)
(* still are. Of what it may find: a view is a prefix of the present rows, *)
(* and the content a caller keeps was of the right type, which rows that   *)
(* never change keep.                                                      *)
(***************************************************************************)
EXTENDS MachineRead, TLAPS

Obtaining == {"statement", "prepare", "keep"}

(* Statements.                                                             *)

CacheOK ==
    /\ \A q \in Queries : cache[q] # None => cache[q][1] = q /\ cache[q] \in open
    /\ closed => \A q \in Queries : cache[q] = None
    /\ ~closed => closing = {}

Kept(s) ==
    \/ \E q \in Queries : cache[q] = s
    \/ s \in closing
    \/ \E c \in Clients : At(c, "keep") /\ s = <<Head(todo[c]), c>>

OpenOK == \A s \in open : Kept(s)

(* Whoever prepares a statement is not the one whose statement is cached.  *)
ObtainOK(c) ==
    /\ pc[c] \in Obtaining => todo[c] # <<>>
    /\ pc[c] \in {"prepare", "keep"} => /\ cache[Head(todo[c])] # <<Head(todo[c]), c>>
                                        /\ <<Head(todo[c]), c>> \notin closing
    /\ pc[c] = "keep" => <<Head(todo[c]), c>> \in open

(* Requests.                                                               *)

RequestOK(c) ==
    /\ pc[c] = "idle" <=> req[c] = None
    /\ req[c] # None => req[c].target \in IF req[c].kind = "file" THEN Items ELSE Configs
    /\ pc[c] \in {"config", "references"} => req[c].kind = "config"
    /\ pc[c] = "environment" => req[c].kind = "file"
    /\ pc[c] \in {"metadata", "payload"} => req[c].kind \in {"config", "file"}
    /\ pc[c] \in {"release", "resolve"} => req[c].kind = "release"

(* What was withdrawn before the request is what it is yet to be asked for.*)
LateOK(c) ==
    late[c] =>
        \/ /\ pc[c] # "idle"
           /\ req[c].token \in revoked
           /\ \/ pc[c] = "token"
              \/ pc[c] \in Obtaining /\ after[c] = "token"
        \/ /\ pc[c] # "idle"
           /\ req[c].certificate \notin active \cup {None}
           /\ \/ pc[c] \in {"token", "certificate"}
              \/ pc[c] \in Obtaining /\ after[c] \in {"token", "certificate"}

(* Views.                                                                  *)

(* Rows of d are rows of e, which may have more.                           *)
Prefix(d, e) ==
    \A i \in Items :
        /\ Len(d.contents[i]) <= Len(e.contents[i])
        /\ \A n \in 1..Len(d.contents[i]) : d.contents[i][n] = e.contents[i][n]

NonEmpty(d) ==
    /\ \A k \in Configs : d.documents[k] # <<>>
    /\ \A i \in Items : d.contents[i] # <<>>

(* The items of a release have rows.                                       *)
Pinned(d) ==
    \A k \in Configs : d.release[k] # None =>
        \A i \in Items : d.release[k].items[i] <= Len(d.contents[i])

ViewOK(c) ==
    /\ pc[c] \in {"references", "metadata", "payload", "resolve"} => view[c] # None
    /\ view[c] # None => /\ pc[c] \in InTransaction
                         /\ NonEmpty(view[c]) /\ Pinned(view[c]) /\ Prefix(view[c], db)

MomentsOK(c) ==
    req[c] # None => /\ FullRead(db, req[c]) \in moments[c]
                     /\ view[c] # None => FullRead(view[c], req[c]) \in moments[c]

FoundOK(c) ==
    /\ pc[c] \in {"references", "metadata", "payload"} /\ req[c].kind = "config"
       => Anchored(view[c], req[c].target)
    /\ pc[c] \in {"metadata", "payload"} /\ req[c].kind = "file" => view[c].environment
    /\ pc[c] = "payload" => \A i \in Involved(Current(c).items) : Available(view[c], i)
    /\ pc[c] = "resolve" => /\ Anchored(view[c], req[c].target)
                            /\ view[c].release[req[c].target] # None

(* The revisions that make up kept content are of the type it was read as. *)
HeldOK(c) ==
    held[c] # None =>
        \A i \in Items : held[c].items[i] # 0 =>
            /\ held[c].items[i] <= Len(db.contents[i])
            /\ db.contents[i][held[c].items[i]].type =
                  IF held[c].target \in Items THEN "file" ELSE "text"

ClientOK(c) ==
    /\ ObtainOK(c)
    /\ RequestOK(c)
    /\ LateOK(c)
    /\ ViewOK(c)
    /\ MomentsOK(c)
    /\ FoundOK(c)
    /\ HeldOK(c)

IInv ==
    /\ TypeOK
    /\ CacheOK
    /\ OpenOK
    /\ NonEmpty(db)
    /\ Pinned(db)
    /\ \A c \in Clients : ClientOK(c)

USE ReadAssumption, NoneAssumption

-----------------------------------------------------------------------------
(* Types.                                                                  *)

ServerTypeOK ==
    /\ workload \in Workloads
    /\ db \in Database
    /\ revoked \subseteq Tokens
    /\ active \subseteq Certificates
    /\ changes \in Nat
    /\ cache \in [Queries -> Statement \cup {None}]
    /\ closed \in BOOLEAN
    /\ open \subseteq Statement
    /\ closing \subseteq Statement

ClientsTypeOK ==
    /\ pc \in [Clients -> Steps]
    /\ req \in [Clients -> Request \cup {None}]
    /\ todo \in [Clients -> Seq(Queries)]
    /\ after \in [Clients -> {"token", "certificate", "begin"}]
    /\ got \in [Clients -> SUBSET Statement]
    /\ view \in [Clients -> Database \cup {None}]
    /\ held \in [Clients -> Answer \cup {None}]
    /\ status \in [Clients -> Status]
    /\ moments \in [Clients -> SUBSET Result]
    /\ late \in [Clients -> BOOLEAN]

LEMMA TypePieces == TypeOK <=> ServerTypeOK /\ ClientsTypeOK
  BY DEF TypeOK, ServerTypeOK, ClientsTypeOK

LEMMA FoundType ==
  ASSUME NEW t \in Configs \cup Items, NEW revision \in Nat, NEW generation \in Nat,
         NEW items \in [Items -> Nat]
  PROVE  /\ Found(t, revision, generation, items) \in Result
         /\ Found(t, revision, generation, items).status = "content"
         /\ Found(t, revision, generation, items).answer \in Answer
         /\ Found(t, revision, generation, items).answer =
               [target |-> t, revision |-> revision, generation |-> generation, items |-> items]
  BY DEF Found, Result, Answer

LEMMA FailedType == Failed("not_found") \in Result /\ Failed("unresolved") \in Result
  BY DEF Failed, Result, Failure

LEMMA LatestType ==
  ASSUME NEW d \in Database, NEW S
  PROVE  /\ Latest(d, S) \in [Items -> Nat]
         /\ \A i \in Items : Latest(d, S)[i] = IF i \in S THEN Len(d.contents[i]) ELSE 0
  BY DEF Latest, Database

(* What a request may ask for.                                             *)
Asked(r) == r \in Request /\ r.target \in IF r.kind = "file" THEN Items ELSE Configs

LEMMA FullReadType ==
  ASSUME NEW d \in Database, NEW r, Asked(r)
  PROVE  FullRead(d, r) \in Result
  <1> DEFINE k == r.target
  <1>1. r.kind \in Kind /\ k \in Configs \cup Items
    BY DEF Asked, Request
  <1>2. CASE r.kind = "file"
    <2>1. k \in Items /\ Len(d.contents[k]) \in Nat
      BY <1>2 DEF Asked, Database
    <2>2. Latest(d, {k}) \in [Items -> Nat]
      BY LatestType
    <2>3. Found(k, Len(d.contents[k]), 0, Latest(d, {k})) \in Result
      BY <2>1, <2>2, FoundType
    <2> QED BY <1>2, <2>3, FailedType DEF FullRead
  <1>3. CASE r.kind = "config" /\ Anchored(d, k)
    <2>1. k \in Configs /\ Len(d.documents[k]) \in Nat
      BY <1>3 DEF Asked, Database
    <2>2. Found(k, Len(d.documents[k]), 0, Latest(d, Last(d.documents[k]))) \in Result
      BY ZenonT(60), <2>1, LatestType, FoundType
    <2> QED BY <1>3, <2>2, FailedType DEF FullRead
  <1>4. CASE r.kind = "release" /\ Anchored(d, k) /\ d.release[k] # None
    <2>1. k \in Configs /\ d.release[k] \in Release
      BY <1>4 DEF Asked, Database
    <2>2. Found(k, d.release[k].revision, d.release[k].generation, d.release[k].items) \in Result
      BY <2>1, FoundType DEF Release
    <2> QED BY <1>4, <2>2, FailedType DEF FullRead
  <1>5. CASE /\ r.kind # "file"
             /\ ~(r.kind = "config" /\ Anchored(d, k))
             /\ ~(r.kind = "release" /\ Anchored(d, k) /\ d.release[k] # None)
    BY <1>5, FailedType DEF FullRead
  <1> QED BY <1>2, <1>3, <1>4, <1>5

LEMMA EndType ==
  ASSUME ClientsTypeOK, NEW c \in Clients, NEW s \in Status, NEW answer \in Answer \cup {None},
         End(c, s, answer)
  PROVE  ClientsTypeOK'
  BY DEF ClientsTypeOK, End, Goto, Steps

LEMMA FailType ==
  ASSUME ClientsTypeOK, NEW c \in Clients, NEW s \in Status, Fail(c, s)
  PROVE  ClientsTypeOK'
  BY EndType DEF ClientsTypeOK, Fail

LEMMA ObtainType ==
  ASSUME ClientsTypeOK, NEW c \in Clients, NEW queries \in Seq(Queries),
         NEW step \in {"token", "certificate", "begin"}, Obtain(c, queries, step)
  PROVE  ClientsTypeOK'
  BY DEF ClientsTypeOK, Obtain, Goto, Steps

LEMMA HaveType ==
  ASSUME ClientsTypeOK, NEW c \in Clients, NEW statement \in Statement, todo[c] # <<>>,
         Have(c, statement)
  PROVE  ClientsTypeOK'
  BY DEF ClientsTypeOK, Have, Goto, Steps

LEMMA ProceedType ==
  ASSUME ClientsTypeOK, db \in Database, NEW c \in Clients, NEW step \in Steps, Proceed(c, step)
  PROVE  ClientsTypeOK'
  BY DEF ClientsTypeOK, Proceed, Seen, Goto

LEMMA ChangeType ==
  ASSUME TypeOK, \A c \in Clients : RequestOK(c), NEW d \in Database, Change(d)
  PROVE  TypeOK'
  <1>1. ServerTypeOK /\ ClientsTypeOK
    BY TypePieces
  <1>2. ASSUME NEW c \in Clients, pc[c] # "idle" PROVE FullRead(d, req[c]) \in Result
    BY <1>1, <1>2, FullReadType DEF RequestOK, Asked, ClientsTypeOK
  <1>3. moments' \in [Clients -> SUBSET Result]
    BY <1>1, <1>2 DEF Change, ClientsTypeOK
  <1> QED BY <1>1, <1>3 DEF Change, TypeOK, ServerTypeOK, ClientsTypeOK, cacheVars, readVars

LEMMA NextCases ==
  ASSUME [Next]_vars
  PROVE  \/ \E c \in Clients, r \in workload.requests : Begin(c, r)
         \/ \E c \in Clients : Step(c) \/ Abort(c)
         \/ \E k \in Configs : CommitConfig(k)
         \/ \E k \in Configs : ActivateRelease(k)
         \/ \E i \in Items : CommitVault(i)
         \/ \E x \in Configs \cup Items : ChangeLifecycle(x)
         \/ ChangeEnvironment
         \/ \E t \in Tokens : RevokeToken(t)
         \/ \E x \in Certificates : RevokeCertificate(x)
         \/ Close
         \/ CloseStatement
         \/ UNCHANGED vars
  BY DEF Next, Write

LEMMA RowsType ==
  ASSUME NEW environment \in BOOLEAN, NEW documents \in [Configs -> Seq(Documents)],
         NEW contents \in [Items -> Seq(Contents)], NEW archived \in SUBSET (Configs \cup Items),
         NEW release \in [Configs -> Release \cup {None}]
  PROVE  Rows(environment, documents, contents, archived, release) \in Database
  BY DEF Rows, Database

LEMMA DatabaseType ==
  ASSUME NEW d \in Database
  PROVE  /\ d.environment \in BOOLEAN
         /\ d.documents \in [Configs -> Seq(Documents)]
         /\ d.contents \in [Items -> Seq(Contents)]
         /\ d.archived \in SUBSET (Configs \cup Items)
         /\ d.release \in [Configs -> Release \cup {None}]
  BY DEF Database

(* What a writer leaves are rows of a database.                            *)
LEMMA WriteTypes ==
  ASSUME TypeOK
  PROVE  /\ \A k \in Configs, document \in Documents :
               Rows(db.environment, [db.documents EXCEPT ![k] = Append(@, document)],
                    db.contents, db.archived, db.release) \in Database
         /\ \A i \in Items, content \in Contents :
               Rows(db.environment, db.documents,
                    [db.contents EXCEPT ![i] = Append(@, content)], db.archived, db.release)
               \in Database
         /\ \A x \in Configs \cup Items :
               Rows(db.environment, db.documents, db.contents,
                    (db.archived \cup {x}) \ (db.archived \cap {x}), db.release) \in Database
         /\ Rows(~db.environment, db.documents, db.contents, db.archived, db.release) \in Database
         /\ \A k \in Configs, row \in Release :
               Rows(db.environment, db.documents, db.contents, db.archived,
                    [db.release EXCEPT ![k] = row]) \in Database
  <1>d. db \in Database
    BY DEF TypeOK
  <1>t. /\ db.environment \in BOOLEAN
        /\ (~db.environment) \in BOOLEAN
        /\ db.documents \in [Configs -> Seq(Documents)]
        /\ db.contents \in [Items -> Seq(Contents)]
        /\ db.archived \in SUBSET (Configs \cup Items)
        /\ db.release \in [Configs -> Release \cup {None}]
    BY <1>d, DatabaseType
  <1>1. ASSUME NEW k \in Configs, NEW document \in Documents
        PROVE  Rows(db.environment, [db.documents EXCEPT ![k] = Append(@, document)],
                    db.contents, db.archived, db.release) \in Database
    <2>1. [db.documents EXCEPT ![k] = Append(@, document)] \in [Configs -> Seq(Documents)]
      BY <1>t
    <2> QED BY <1>t, <2>1, RowsType
  <1>2. ASSUME NEW i \in Items, NEW content \in Contents
        PROVE  Rows(db.environment, db.documents,
                    [db.contents EXCEPT ![i] = Append(@, content)], db.archived, db.release)
               \in Database
    <2>1. [db.contents EXCEPT ![i] = Append(@, content)] \in [Items -> Seq(Contents)]
      BY <1>t
    <2> QED BY <1>t, <2>1, RowsType
  <1>3. ASSUME NEW x \in Configs \cup Items
        PROVE  Rows(db.environment, db.documents, db.contents,
                    (db.archived \cup {x}) \ (db.archived \cap {x}), db.release) \in Database
    <2>1. (db.archived \cup {x}) \ (db.archived \cap {x}) \in SUBSET (Configs \cup Items)
      BY <1>t
    <2> QED BY <1>t, <2>1, RowsType
  <1>4. Rows(~db.environment, db.documents, db.contents, db.archived, db.release) \in Database
    BY <1>t, RowsType
  <1>5. ASSUME NEW k \in Configs, NEW row \in Release
        PROVE  Rows(db.environment, db.documents, db.contents, db.archived,
                    [db.release EXCEPT ![k] = row]) \in Database
    BY <1>t, RowsType
  <1> QED BY <1>1, <1>2, <1>3, <1>4, <1>5

Activated(k) ==
    [generation |-> IF db.release[k] = None THEN 1 ELSE db.release[k].generation + 1,
     revision |-> Len(db.documents[k]), items |-> Latest(db, Last(db.documents[k]))]

LEMMA ActivatedType ==
  ASSUME TypeOK, NEW k \in Configs
  PROVE  Activated(k) \in Release
  <1>1. db \in Database
    BY DEF TypeOK
  <1>2. Latest(db, Last(db.documents[k])) \in [Items -> Nat]
    BY <1>1, LatestType
  <1>3. (IF db.release[k] = None THEN 1 ELSE db.release[k].generation + 1) \in Nat
    BY <1>1 DEF Database, Release
  <1>4. Len(db.documents[k]) \in Nat
    BY <1>1 DEF Database
  <1> QED BY <1>2, <1>3, <1>4 DEF Activated, Release

(* What is left of a read by the actions of its own.                       *)
LEMMA CurrentType ==
  ASSUME TypeOK, NEW c \in Clients, Asked(req[c]), req[c].kind \in {"config", "file"}
  PROVE  /\ Current(c) \in Answer
         /\ Seen(c) \in Database
  <1> DEFINE d == Seen(c)
             k == req[c].target
  <1>1. d \in Database
    BY DEF TypeOK, Seen
  <1>2. CASE req[c].kind = "file"
    <2>1. k \in Items /\ Len(d.contents[k]) \in Nat
      BY <1>1, <1>2 DEF Asked, Database
    <2>2. Latest(d, {k}) \in [Items -> Nat]
      BY <1>1, LatestType
    <2>3. Found(k, Len(d.contents[k]), 0, Latest(d, {k})).answer \in Answer
      BY <2>1, <2>2, FoundType
    <2> QED BY <1>1, <1>2, <2>3 DEF Current
  <1>3. CASE req[c].kind = "config"
    <2>1. k \in Configs /\ Len(d.documents[k]) \in Nat
      BY <1>1, <1>3 DEF Asked, Database
    <2>2. Latest(d, Last(d.documents[k])) \in [Items -> Nat]
      BY <1>1, LatestType
    <2>3. Found(k, Len(d.documents[k]), 0, Latest(d, Last(d.documents[k]))).answer \in Answer
      BY <2>1, <2>2, FoundType
    <2> QED BY <1>1, <1>3, <2>3 DEF Current
  <1> QED BY <1>2, <1>3

LEMMA WriteType ==
  ASSUME TypeOK, \A c \in Clients : RequestOK(c),
         \/ \E k \in Configs : CommitConfig(k) \/ ActivateRelease(k)
         \/ \E i \in Items : CommitVault(i)
         \/ \E x \in Configs \cup Items : ChangeLifecycle(x)
         \/ ChangeEnvironment
  PROVE  /\ \E d \in Database : Change(d)
         /\ TypeOK'
  <1>1. \E d \in Database : Change(d)
    <2>1. CASE \E k \in Configs : CommitConfig(k)
      BY <2>1, WriteTypes DEF CommitConfig
    <2>2. CASE \E k \in Configs : ActivateRelease(k)
      BY <2>2, WriteTypes, ActivatedType DEF ActivateRelease, Activated
    <2>3. CASE \E i \in Items : CommitVault(i)
      BY <2>3, WriteTypes DEF CommitVault
    <2>4. CASE \E x \in Configs \cup Items : ChangeLifecycle(x)
      BY <2>4, WriteTypes DEF ChangeLifecycle
    <2>5. CASE ChangeEnvironment
      BY <2>5, WriteTypes DEF ChangeEnvironment
    <2> QED BY <2>1, <2>2, <2>3, <2>4, <2>5
  <1> QED BY <1>1, ChangeType

LEMMA StatementsType ==
  /\ \A kind \in Kind : Statements[kind] \in Seq(Queries)
  /\ <<"token">> \in Seq(Queries)
  /\ <<"certificate">> \in Seq(Queries)
  <1>1. /\ "token" \in Queries /\ "certificate" \in Queries /\ "config" \in Queries
        /\ "environment" \in Queries /\ "references" \in Queries /\ "metadata" \in Queries
        /\ "fields" \in Queries /\ "payload" \in Queries
    BY DEF Queries
  <1> HIDE DEF Queries
  <1>2. <<"config", "references", "metadata", "fields", "payload">> \in Seq(Queries)
    BY <1>1
  <1>3. <<"environment", "metadata", "fields", "payload">> \in Seq(Queries)
    BY <1>1
  <1>4. <<>> \in Seq(Queries)
    OBVIOUS
  <1>5. <<"token">> \in Seq(Queries) /\ <<"certificate">> \in Seq(Queries)
    BY <1>1
  <1> QED BY <1>2, <1>3, <1>4, <1>5 DEF Statements, Kind

(* How a step of a request leaves it.                                      *)
LEMMA StepType ==
  ASSUME TypeOK, NEW c \in Clients, ClientOK(c), Step(c) \/ Abort(c)
  PROVE  TypeOK'
  <1>t. ServerTypeOK /\ ClientsTypeOK
    BY TypePieces
  <1> USE DEF ClientOK
  <1>s. \A s \in {"failed", "refused", "not_found", "unresolved", "unchanged"} :
            Fail(c, s) => ClientsTypeOK'
    BY <1>t, FailType DEF Status, Failure
  <1>a. req[c] # None => Asked(req[c])
    BY <1>t DEF RequestOK, Asked, ClientsTypeOK
  <1>q. pc[c] \in Obtaining => /\ todo[c] # <<>>
                               /\ Head(todo[c]) \in Queries
                               /\ <<Head(todo[c]), c>> \in Statement
    BY <1>t DEF ObtainOK, ClientsTypeOK, Statement
  <1>p. \A step \in {"references", "metadata", "payload", "resolve"} :
            Proceed(c, step) => ClientsTypeOK'
    BY <1>t, ProceedType DEF ServerTypeOK, Steps
  <1>u. UNCHANGED <<workload, storeVars, cacheVars>> => ServerTypeOK'
    BY <1>t DEF ServerTypeOK, storeVars, cacheVars
  <1>z. Authenticated(c) /\ req[c] # None => ClientsTypeOK'
    <2>1. SUFFICES ASSUME Authenticated(c), req[c] # None PROVE ClientsTypeOK'
      OBVIOUS
    <2>2. req[c].kind \in Kind
      BY <1>a, <2>1 DEF Asked, Request
    <2>3. Statements[req[c].kind] \in Seq(Queries)
      BY <2>2, StatementsType
    <2>4. Obtain(c, Statements[req[c].kind], "begin") => ClientsTypeOK'
      BY <1>t, <2>3, ObtainType
    <2> QED BY <1>s, <2>1, <2>4 DEF Authenticated
  <1>n. pc[c] # "idle" => req[c] # None
    BY DEF RequestOK
  <1> SUFFICES ServerTypeOK' /\ ClientsTypeOK'
    BY DEF TypeOK, ServerTypeOK, ClientsTypeOK
  <1>1. CASE FindStatement(c)
    <2>1. pc[c] \in Obtaining
      BY <1>1 DEF FindStatement, At, Obtaining
    <2>2. cache[Head(todo[c])] # None => cache[Head(todo[c])] \in Statement
      BY <1>t, <1>q, <2>1 DEF ServerTypeOK
    <2>3. ASSUME cache[Head(todo[c])] # None, Have(c, cache[Head(todo[c])]) PROVE ClientsTypeOK'
      BY <1>t, <1>q, <2>1, <2>2, <2>3, HaveType
    <2>4. ASSUME Goto(c, "prepare"), UNCHANGED <<readVars, held, status, moments>>
          PROVE  ClientsTypeOK'
      BY <1>t, <2>4 DEF Goto, Steps, readVars, ClientsTypeOK
    <2> QED BY <1>1, <1>s, <1>u, <2>3, <2>4 DEF FindStatement
  <1>2. CASE PrepareStatement(c)
    <2>1. open' \subseteq Statement
      BY <1>2, <1>t, <1>q DEF PrepareStatement, At, Obtaining, ServerTypeOK
    <2> QED BY <1>2, <1>t, <2>1 DEF PrepareStatement, Goto, Steps, storeVars, readVars,
                                    ServerTypeOK, ClientsTypeOK
  <1>3. CASE KeepStatement(c)
    <2> DEFINE query == Head(todo[c])
               statement == <<query, c>>
    <2>1. pc[c] \in Obtaining
      BY <1>3 DEF KeepStatement, At, Obtaining
    <2>2. query \in Queries /\ statement \in Statement /\ todo[c] # <<>>
      BY <1>q, <2>1
    <2> HIDE DEF query, statement
    <2>3. cache[query] # None => cache[query] \in Statement
      BY <1>t, <2>2 DEF ServerTypeOK
    <2>4. /\ UNCHANGED <<workload, storeVars, closed, closing>>
          /\ \/ open' = open \ {statement} /\ UNCHANGED cache
             \/ UNCHANGED open /\ cache' = [cache EXCEPT ![query] = statement]
      BY <1>3 DEF KeepStatement, Discard, query, statement
    <2>5. ServerTypeOK'
      BY <1>t, <2>2, <2>4 DEF ServerTypeOK, storeVars
    <2>6. \/ Fail(c, "failed")
          \/ cache[query] # None /\ Have(c, cache[query])
          \/ Have(c, statement)
      BY <1>3 DEF KeepStatement, query, statement
    <2>7. ASSUME NEW s \in Statement, Have(c, s) PROVE ClientsTypeOK'
      BY <1>t, <2>2, <2>7, HaveType
    <2> QED BY <1>s, <2>2, <2>3, <2>5, <2>6, <2>7
  <1>4. CASE ReadToken(c)
    <2>1. req[c] # None
      BY <1>4, <1>n DEF ReadToken, At
    <2>2. Obtain(c, <<"certificate">>, "certificate") => ClientsTypeOK'
      BY <1>t, ObtainType, StatementsType
    <2> QED BY <1>4, <1>s, <1>u, <1>z, <2>1, <2>2 DEF ReadToken
  <1>5. CASE ReadCertificate(c)
    <2>1. req[c] # None
      BY <1>5, <1>n DEF ReadCertificate, At
    <2> QED BY <1>5, <1>s, <1>u, <1>z, <2>1 DEF ReadCertificate
  <1>6. CASE BeginSnapshot(c)
    <2>1. req[c].kind \in Kind
      BY <1>6, <1>n, <1>a DEF BeginSnapshot, At, Asked, Request
    <2>2. Root[req[c].kind] \in Steps
      BY <2>1 DEF Kind, Root, Steps
    <2> QED BY <1>6, <1>t, <1>u, <2>2 DEF BeginSnapshot, Goto, readVars, ClientsTypeOK
  <1>7. CASE ReadConfig(c)
    BY <1>7, <1>s, <1>p, <1>u DEF ReadConfig
  <1>8. CASE ReadReferences(c)
    BY <1>8, <1>s, <1>p, <1>u DEF ReadReferences
  <1>9. CASE ReadEnvironment(c)
    BY <1>9, <1>s, <1>p, <1>u DEF ReadEnvironment
  <1>10. CASE ReadMetadata(c)
    BY <1>10, <1>s, <1>p, <1>u DEF ReadMetadata
  <1>11. CASE ReadPayload(c)
    <2>1. req[c] # None /\ req[c].kind \in {"config", "file"}
      BY <1>11, <1>n DEF ReadPayload, At, RequestOK
    <2>2. Current(c) \in Answer
      BY <1>a, <2>1, CurrentType
    <2>3. End(c, "content", Current(c)) => ClientsTypeOK'
      BY <1>t, <2>2, EndType DEF Status
    <2> QED BY <1>11, <1>s, <1>u, <2>3 DEF ReadPayload
  <1>12. CASE ReadReleaseRoot(c)
    BY <1>12, <1>s, <1>p, <1>u DEF ReadReleaseRoot
  <1>13. CASE ResolveRelease(c)
    <2> DEFINE k == req[c].target
               row == Seen(c).release[k]
               answer == Found(k, row.revision, row.generation, row.items).answer
    <2>1. pc[c] = "resolve" /\ req[c] # None /\ k \in Configs
      BY <1>13, <1>a, <1>n DEF ResolveRelease, At, RequestOK
    <2>2. row \in Release
      BY <1>t, <2>1 DEF ServerTypeOK, ClientsTypeOK, FoundOK, ViewOK, Seen, Database
    <2>3. answer \in Answer
      BY <2>1, <2>2, FoundType DEF Release
    <2>4. \/ Fail(c, "refused") \/ Fail(c, "unresolved") \/ Fail(c, "unchanged")
          \/ End(c, "content", answer)
      BY <1>13 DEF ResolveRelease
    <2> HIDE DEF answer
    <2>5. End(c, "content", answer) => ClientsTypeOK'
      BY <1>t, <2>3, EndType DEF Status
    <2>6. ServerTypeOK'
      BY <1>13, <1>u DEF ResolveRelease
    <2> QED BY <1>s, <2>4, <2>5, <2>6
  <1>14. CASE Abort(c)
    BY <1>14, <1>s, <1>u DEF Abort
  <1> QED BY <1>1, <1>2, <1>3, <1>4, <1>5, <1>6, <1>7, <1>8, <1>9, <1>10, <1>11, <1>12, <1>13,
             <1>14 DEF Step

LEMMA TypeStep ==
  ASSUME TypeOK, \A c \in Clients : ClientOK(c), [Next]_vars
  PROVE  TypeOK'
  <1>t. ServerTypeOK /\ ClientsTypeOK
    BY TypePieces
  <1>1. CASE \E c \in Clients, r \in workload.requests : Begin(c, r)
    <2>1. PICK c \in Clients, r \in workload.requests : Begin(c, r)
      BY <1>1
    <2>2. r \in Request /\ Asked(r)
      BY <1>t DEF ServerTypeOK, Workload, Asked
    <2>3. FullRead(db, r) \in Result
      BY <1>t, <2>2, FullReadType DEF ServerTypeOK
    <2>4. late' \in [Clients -> BOOLEAN]
      BY <1>t, <2>1 DEF Begin, ClientsTypeOK
    <2>5. moments' \in [Clients -> SUBSET Result]
      BY <1>t, <2>1, <2>3 DEF Begin, ClientsTypeOK
    <2>6. todo' \in [Clients -> Seq(Queries)]
      BY <1>t, <2>1, StatementsType DEF Begin, ClientsTypeOK
    <2>7. /\ pc' \in [Clients -> Steps]
          /\ req' \in [Clients -> Request \cup {None}]
          /\ after' \in [Clients -> {"token", "certificate", "begin"}]
          /\ status' \in [Clients -> Status]
      BY <1>t, <2>1, <2>2 DEF Begin, Goto, Steps, Status, ClientsTypeOK
    <2>8. ServerTypeOK' /\ UNCHANGED <<got, view, held>>
      BY <1>t, <2>1 DEF Begin, ServerTypeOK, storeVars, cacheVars
    <2> QED BY <1>t, <2>4, <2>5, <2>6, <2>7, <2>8 DEF TypeOK, ServerTypeOK, ClientsTypeOK
  <1>2. CASE \E c \in Clients : Step(c) \/ Abort(c)
    BY <1>2, StepType
  <1>3. CASE \/ \E k \in Configs : CommitConfig(k) \/ ActivateRelease(k)
             \/ \E i \in Items : CommitVault(i)
             \/ \E x \in Configs \cup Items : ChangeLifecycle(x)
             \/ ChangeEnvironment
    BY <1>3, WriteType DEF ClientOK
  <1>4. CASE (\E t \in Tokens : RevokeToken(t)) \/ (\E x \in Certificates : RevokeCertificate(x))
    <2>1. PICK tokens \in SUBSET Tokens, certificates \in SUBSET Certificates :
              Withdraw(tokens, certificates)
      BY <1>4 DEF RevokeToken, RevokeCertificate
    <2> QED BY <1>t, <2>1 DEF Withdraw, TypeOK, ServerTypeOK, ClientsTypeOK, cacheVars, readVars
  <1>5. CASE Close
    <2>1. closing' \subseteq Statement /\ cache' \in [Queries -> Statement \cup {None}]
      BY <1>5, <1>t DEF Close, ServerTypeOK
    <2> QED BY <1>5, <1>t, <2>1 DEF Close, TypeOK, ServerTypeOK, ClientsTypeOK, readVars
  <1>6. CASE CloseStatement
    <2>1. open' \subseteq Statement /\ closing' \subseteq Statement
      BY <1>6, <1>t DEF CloseStatement, ServerTypeOK
    <2> QED BY <1>6, <1>t, <2>1 DEF CloseStatement, TypeOK, ServerTypeOK, ClientsTypeOK,
                                    readVars, storeVars
  <1>7. CASE UNCHANGED vars
    BY <1>7 DEF vars, TypeOK, storeVars, cacheVars, readVars
  <1> QED BY <1>1, <1>2, <1>3, <1>4, <1>5, <1>6, <1>7, NextCases

-----------------------------------------------------------------------------
(* The rows of the database.                                               *)

LEMMA PrefixTransitive ==
  ASSUME NEW d \in Database, NEW e \in Database, NEW f \in Database, Prefix(d, e), Prefix(e, f)
  PROVE  Prefix(d, f)
  BY DEF Prefix, Database

LEMMA PrefixReflexive ==
  ASSUME NEW d \in Database
  PROVE  Prefix(d, d)
  BY DEF Prefix, Database

LEMMA Appended ==
  ASSUME NEW S, NEW s \in Seq(S), NEW x \in S
  PROVE  /\ Append(s, x) # <<>>
         /\ Len(s) <= Len(Append(s, x))
         /\ \A n \in 1..Len(s) : s[n] = Append(s, x)[n]
  <1>1. /\ Len(s) \in Nat
        /\ Len(Append(s, x)) = Len(s) + 1
        /\ \A n \in 1..Len(s) : s[n] = Append(s, x)[n]
    OBVIOUS
  <1> QED BY <1>1

(* No writer takes rows away.                                              *)
LEMMA WriteGrows ==
  ASSUME TypeOK, NonEmpty(db), Pinned(db), \A c \in Clients : RequestOK(c),
         \/ \E k \in Configs : CommitConfig(k) \/ ActivateRelease(k)
         \/ \E i \in Items : CommitVault(i)
         \/ \E x \in Configs \cup Items : ChangeLifecycle(x)
         \/ ChangeEnvironment
  PROVE  NonEmpty(db') /\ Pinned(db') /\ Prefix(db, db')
  <1>t. db \in Database
    BY DEF TypeOK
  <1>d. /\ db.documents \in [Configs -> Seq(Documents)]
        /\ db.contents \in [Items -> Seq(Contents)]
        /\ db.release \in [Configs -> Release \cup {None}]
    BY <1>t, DatabaseType
  <1>p. Prefix(db, db)
    BY <1>t, PrefixReflexive
  <1>1. ASSUME NEW k \in Configs, CommitConfig(k)
        PROVE  NonEmpty(db') /\ Pinned(db') /\ Prefix(db, db')
    <2>1. PICK document \in Documents :
              db' = Rows(db.environment, [db.documents EXCEPT ![k] = Append(@, document)],
                         db.contents, db.archived, db.release)
      BY <1>1 DEF CommitConfig, Change
    <2>2. /\ db'.contents = db.contents
          /\ db'.release = db.release
          /\ db'.documents = [db.documents EXCEPT ![k] = Append(@, document)]
      BY <2>1 DEF Rows
    <2>3. ASSUME NEW j \in Configs PROVE db'.documents[j] # <<>>
      <3>1. CASE j = k
        <4>1. db.documents[k] \in Seq(Documents) /\ db'.documents[k] = Append(db.documents[k], document)
          BY <1>d, <2>2
        <4> QED BY <3>1, <4>1, Appended
      <3>2. CASE j # k
        BY <1>d, <2>2, <3>2 DEF NonEmpty
      <3> QED BY <3>1, <3>2
    <2> QED BY <1>p, <2>2, <2>3 DEF NonEmpty, Pinned, Prefix
  <1>2. ASSUME NEW k \in Configs, ActivateRelease(k)
        PROVE  NonEmpty(db') /\ Pinned(db') /\ Prefix(db, db')
    <2>1. db' = Rows(db.environment, db.documents, db.contents, db.archived,
                     [db.release EXCEPT ![k] = Activated(k)])
      BY <1>2 DEF ActivateRelease, Change, Activated
    <2>2. /\ db'.contents = db.contents
          /\ db'.documents = db.documents
          /\ db'.release = [db.release EXCEPT ![k] = Activated(k)]
      BY <2>1 DEF Rows
    <2>3. \A i \in Items : Activated(k).items[i] <= Len(db.contents[i])
      <3>1. \A i \in Items : Len(db.contents[i]) \in Nat
        BY <1>d
      <3>2. Activated(k).items = Latest(db, Last(db.documents[k]))
        BY DEF Activated
      <3> QED BY <1>t, <3>1, <3>2, LatestType
    <2>4. ASSUME NEW j \in Configs, db'.release[j] # None, NEW i \in Items
          PROVE  db'.release[j].items[i] <= Len(db'.contents[i])
      <3>1. CASE j = k
        BY <1>d, <2>2, <2>3, <3>1
      <3>2. CASE j # k
        BY <1>d, <2>2, <2>4, <3>2 DEF Pinned
      <3> QED BY <3>1, <3>2
    <2> QED BY <1>p, <2>2, <2>4 DEF NonEmpty, Pinned, Prefix
  <1>3. ASSUME NEW i \in Items, CommitVault(i)
        PROVE  NonEmpty(db') /\ Pinned(db') /\ Prefix(db, db')
    <2>1. PICK content \in Contents :
              db' = Rows(db.environment, db.documents,
                         [db.contents EXCEPT ![i] = Append(@, content)], db.archived, db.release)
      BY <1>3 DEF CommitVault, Change
    <2>2. /\ db'.documents = db.documents
          /\ db'.release = db.release
          /\ db'.contents = [db.contents EXCEPT ![i] = Append(@, content)]
      BY <2>1 DEF Rows
    <2>3. ASSUME NEW j \in Items
          PROVE  /\ db'.contents[j] # <<>>
                 /\ Len(db.contents[j]) <= Len(db'.contents[j])
                 /\ \A n \in 1..Len(db.contents[j]) : db.contents[j][n] = db'.contents[j][n]
      <3>1. CASE j = i
        <4>1. db.contents[i] \in Seq(Contents) /\ db'.contents[i] = Append(db.contents[i], content)
          BY <1>d, <2>2
        <4> QED BY <3>1, <4>1, Appended
      <3>2. CASE j # i
        <4>1. db'.contents[j] = db.contents[j] /\ Len(db.contents[j]) \in Nat
          BY <1>d, <2>2, <3>2
        <4> QED BY <4>1 DEF NonEmpty
      <3> QED BY <3>1, <3>2
    <2>4. ASSUME NEW k \in Configs, db'.release[k] # None, NEW j \in Items
          PROVE  db'.release[k].items[j] <= Len(db'.contents[j])
      <3>1. db.release[k] \in Release
        BY <1>d, <2>2, <2>4
      <3>2. /\ db.release[k].items[j] \in Nat
            /\ Len(db.contents[j]) \in Nat /\ Len(db'.contents[j]) \in Nat
        BY <1>d, <2>2, <3>1 DEF Release
      <3> QED BY <2>2, <2>3, <2>4, <3>2 DEF Pinned
    <2> QED BY <2>2, <2>3, <2>4 DEF NonEmpty, Pinned, Prefix
  <1>4. ASSUME NEW x \in Configs \cup Items, ChangeLifecycle(x)
        PROVE  NonEmpty(db') /\ Pinned(db') /\ Prefix(db, db')
    <2>1. /\ db'.contents = db.contents
          /\ db'.release = db.release
          /\ db'.documents = db.documents
      BY <1>4 DEF ChangeLifecycle, Change, Rows
    <2> QED BY <1>p, <2>1 DEF NonEmpty, Pinned, Prefix
  <1>5. CASE ChangeEnvironment
    <2>1. /\ db'.contents = db.contents
          /\ db'.release = db.release
          /\ db'.documents = db.documents
      BY <1>5 DEF ChangeEnvironment, Change, Rows
    <2> QED BY <1>p, <2>1 DEF NonEmpty, Pinned, Prefix
  <1> QED BY <1>1, <1>2, <1>3, <1>4, <1>5

-----------------------------------------------------------------------------
(* What a step does to other requests.                                     *)

Undisturbed(c) ==
    /\ pc'[c] = pc[c] /\ req'[c] = req[c] /\ todo'[c] = todo[c] /\ after'[c] = after[c]
    /\ view'[c] = view[c] /\ held'[c] = held[c] /\ late'[c] = late[c]

LEMMA OthersUndisturbed ==
  ASSUME TypeOK, NEW c \in Clients, NEW d \in Clients, d # c,
         Step(c) \/ Abort(c) \/ (\E r \in workload.requests : Begin(c, r))
  PROVE  Undisturbed(d) /\ moments'[d] = moments[d]
  <1> USE DEF TypeOK, Undisturbed, Goto
  <1>1. ASSUME NEW s, NEW answer, End(c, s, answer)
        PROVE  Undisturbed(d) /\ moments'[d] = moments[d]
    BY <1>1 DEF End
  <1>2. ASSUME NEW s, Fail(c, s) PROVE Undisturbed(d) /\ moments'[d] = moments[d]
    BY <1>1, <1>2 DEF Fail
  <1>3. ASSUME NEW queries, NEW step, Obtain(c, queries, step)
        PROVE  Undisturbed(d) /\ moments'[d] = moments[d]
    BY <1>3 DEF Obtain
  <1>4. ASSUME NEW s, Have(c, s) PROVE Undisturbed(d) /\ moments'[d] = moments[d]
    BY <1>4 DEF Have
  <1>5. ASSUME NEW step, Proceed(c, step) PROVE Undisturbed(d) /\ moments'[d] = moments[d]
    BY <1>5 DEF Proceed
  <1>6. ASSUME NEW step, Goto(c, step), UNCHANGED <<readVars, held, status, moments>>
        PROVE  Undisturbed(d) /\ moments'[d] = moments[d]
    BY <1>6 DEF readVars
  <1>7. CASE FindStatement(c) \/ PrepareStatement(c) \/ KeepStatement(c)
    BY <1>7, <1>2, <1>4, <1>6 DEF FindStatement, PrepareStatement, KeepStatement
  <1>8. CASE ReadToken(c) \/ ReadCertificate(c)
    BY <1>8, <1>2, <1>3 DEF ReadToken, ReadCertificate, Authenticated
  <1>9. CASE BeginSnapshot(c)
    BY ZenonT(60), <1>9, <1>6 DEF BeginSnapshot
  <1>10. CASE ReadConfig(c) \/ ReadReferences(c) \/ ReadEnvironment(c)
    BY <1>10, <1>2, <1>5 DEF ReadConfig, ReadReferences, ReadEnvironment
  <1>11. CASE ReadMetadata(c) \/ ReadReleaseRoot(c)
    BY <1>11, <1>2, <1>5 DEF ReadMetadata, ReadReleaseRoot
  <1>12. CASE ReadPayload(c) \/ ResolveRelease(c)
    <2>1. CASE ReadPayload(c)
      BY <1>1, <1>2, <2>1 DEF ReadPayload
    <2>2. CASE ResolveRelease(c)
      BY <1>1, <1>2, <2>2 DEF ResolveRelease
    <2> QED BY <1>12, <2>1, <2>2
  <1>13. CASE Abort(c)
    BY <1>13, <1>2 DEF Abort
  <1>14. CASE \E r \in workload.requests : Begin(c, r)
    BY <1>14 DEF Begin
  <1> QED BY <1>7, <1>8, <1>9, <1>10, <1>11, <1>12, <1>13, <1>14 DEF Step

(* The invariant of a request that is not disturbed: rows have only been   *)
(* added, credentials only withdrawn, and no statement of its own has been *)
(* cached, closed or given up.                                             *)
StillTrue(c) ==
    /\ \A q \in Queries : /\ cache[q] # <<q, c>> => cache'[q] # <<q, c>>
                          /\ cache[q] # <<q, c>> /\ <<q, c>> \notin closing
                             => <<q, c>> \notin closing'
    /\ At(c, "keep") /\ <<Head(todo[c]), c>> \in open => <<Head(todo[c]), c>> \in open'
    /\ revoked \subseteq revoked'
    /\ active' \subseteq active
    /\ Prefix(db, db')
    /\ moments[c] \subseteq moments'[c]
    /\ req[c] # None => FullRead(db', req[c]) \in moments'[c]

LEMMA HeldStays ==
  ASSUME TypeOK, db' \in Database, NEW c \in Clients, HeldOK(c), held'[c] = held[c],
         Prefix(db, db')
  PROVE  HeldOK(c)'
  <1>1. SUFFICES ASSUME held[c] # None, NEW i \in Items, held[c].items[i] # 0
                 PROVE  /\ held[c].items[i] <= Len(db'.contents[i])
                        /\ db'.contents[i][held[c].items[i]].type =
                              IF held[c].target \in Items THEN "file" ELSE "text"
    BY DEF HeldOK
  <1>2. held[c].items[i] \in Nat
    BY <1>1 DEF TypeOK, Answer
  <1>3. Len(db.contents[i]) \in Nat /\ Len(db'.contents[i]) \in Nat
    BY DEF TypeOK, Database
  <1>4. held[c].items[i] \in 1..Len(db.contents[i])
    BY <1>1, <1>2, <1>3 DEF HeldOK
  <1> QED BY SMTT(30), <1>1, <1>2, <1>3, <1>4 DEF HeldOK, Prefix

LEMMA Bystander ==
  ASSUME TypeOK, db' \in Database, NEW c \in Clients, ClientOK(c), Undisturbed(c), StillTrue(c)
  PROVE  ClientOK(c)'
  <1>1. ObtainOK(c)'
    <2>1. pc[c] \in Obtaining => todo[c] # <<>> /\ Head(todo[c]) \in Queries
      BY DEF ClientOK, ObtainOK, TypeOK
    <2> QED BY <2>1 DEF ClientOK, ObtainOK, Undisturbed, StillTrue, Obtaining, At
  <1>2. RequestOK(c)'
    BY DEF ClientOK, RequestOK, Undisturbed
  <1>3. LateOK(c)'
    BY DEF ClientOK, LateOK, Undisturbed, StillTrue
  <1>4. ViewOK(c)'
    <2>1. view[c] # None => view[c] \in Database
      BY DEF TypeOK
    <2>2. view[c] # None => Prefix(view[c], db')
      BY <2>1, PrefixTransitive DEF ClientOK, ViewOK, StillTrue, TypeOK
    <2> QED BY <2>2 DEF ClientOK, ViewOK, Undisturbed
  <1>5. MomentsOK(c)'
    BY DEF ClientOK, MomentsOK, Undisturbed, StillTrue
  <1>6. FoundOK(c)'
    <2>1. pc[c] = "payload" => Current(c)' = Current(c)
      BY DEF ClientOK, ViewOK, Undisturbed, Current, Seen
    <2> QED BY <2>1 DEF ClientOK, FoundOK, Undisturbed
  <1>7. HeldOK(c)'
    BY HeldStays DEF ClientOK, Undisturbed, StillTrue
  <1> QED BY <1>1, <1>2, <1>3, <1>4, <1>5, <1>6, <1>7 DEF ClientOK

-----------------------------------------------------------------------------
(* What a step does to its own request.                                    *)

LEMMA EndKeeps ==
  ASSUME TypeOK, NEW c \in Clients, NEW s, NEW answer, End(c, s, answer), HeldOK(c)'
  PROVE  ClientOK(c)'
  <1>1. /\ pc'[c] = "idle" /\ req'[c] = None /\ view'[c] = None /\ late'[c] = FALSE
    BY DEF End, Goto, TypeOK
  <1> QED BY <1>1 DEF ClientOK, ObtainOK, RequestOK, LateOK, ViewOK, MomentsOK, FoundOK, Obtaining

LEMMA FailKeeps ==
  ASSUME TypeOK, NEW c \in Clients, ClientOK(c), NEW s, Fail(c, s), db' = db
  PROVE  ClientOK(c)'
  <1>1. held'[c] = held[c]
    BY DEF Fail, End, TypeOK
  <1>2. Prefix(db, db') /\ db' \in Database
    BY PrefixReflexive DEF TypeOK
  <1>3. HeldOK(c)'
    BY <1>1, <1>2, HeldStays DEF ClientOK
  <1> QED BY <1>3, EndKeeps DEF Fail

LEMMA ObtainKeeps ==
  ASSUME TypeOK, NEW c \in Clients, ClientOK(c), NEW queries \in Seq(Queries),
         NEW step \in {"certificate", "begin"}, Obtain(c, queries, step),
         pc[c] \in {"token", "certificate"},
         db' = db, revoked' = revoked, active' = active,
         step = "certificate" => queries # <<>>,
         late[c] => step = "certificate" /\ req[c].certificate \notin active \cup {None}
  PROVE  ClientOK(c)'
  <1>1. /\ pc'[c] = IF queries = <<>> THEN step ELSE "statement"
        /\ todo'[c] = queries /\ after'[c] = step
        /\ req'[c] = req[c] /\ view'[c] = view[c] /\ held'[c] = held[c]
        /\ moments'[c] = moments[c] /\ late'[c] = late[c]
    BY DEF Obtain, Goto, TypeOK
  <1>2. ObtainOK(c)' /\ RequestOK(c)' /\ LateOK(c)'
    BY <1>1 DEF ClientOK, ObtainOK, RequestOK, LateOK, Obtaining
  <1>3. ViewOK(c)' /\ MomentsOK(c)' /\ FoundOK(c)' /\ HeldOK(c)'
    BY <1>1 DEF ClientOK, ViewOK, MomentsOK, FoundOK, HeldOK, InTransaction
  <1> QED BY <1>2, <1>3 DEF ClientOK

LEMMA Remaining ==
  ASSUME NEW S, NEW s \in Seq(S), s # <<>>, Len(s) # 1
  PROVE  Tail(s) # <<>>
  <1>1. Len(s) \in Nat
    OBVIOUS
  <1>2. Len(s) # 0
    OBVIOUS
  <1>3. Len(Tail(s)) = Len(s) - 1
    BY <1>1, <1>2
  <1>4. Len(<<>>) = 0
    OBVIOUS
  <1>5. Len(Tail(s)) # 0
    BY <1>1, <1>3
  <1> QED BY <1>4, <1>5, Zenon

LEMMA HaveKeeps ==
  ASSUME TypeOK, NEW c \in Clients, ClientOK(c), NEW s, Have(c, s),
         pc[c] \in {"statement", "keep"}, db' = db, revoked' = revoked, active' = active
  PROVE  ClientOK(c)'
  <1>1. /\ pc'[c] = IF Len(todo[c]) = 1 THEN after[c] ELSE "statement"
        /\ todo'[c] = Tail(todo[c])
        /\ after'[c] = after[c]
        /\ req'[c] = req[c] /\ view'[c] = view[c] /\ held'[c] = held[c]
        /\ moments'[c] = moments[c] /\ late'[c] = late[c]
    BY DEF Have, Goto, TypeOK
  <1>2. todo[c] # <<>> /\ todo[c] \in Seq(Queries)
    BY DEF ClientOK, ObtainOK, Obtaining, TypeOK
  <1>3. Len(todo[c]) # 1 => Tail(todo[c]) # <<>>
    BY <1>2, Remaining
  <1>4. after[c] \in {"token", "certificate", "begin"}
    BY DEF TypeOK
  <1>5. ObtainOK(c)' /\ RequestOK(c)' /\ LateOK(c)'
    BY <1>1, <1>3, <1>4 DEF ClientOK, ObtainOK, RequestOK, LateOK, Obtaining
  <1>6. ViewOK(c)' /\ MomentsOK(c)' /\ FoundOK(c)' /\ HeldOK(c)'
    BY <1>1, <1>4 DEF ClientOK, ViewOK, MomentsOK, FoundOK, HeldOK, InTransaction
  <1> QED BY <1>5, <1>6 DEF ClientOK

(* What the transaction sees.                                              *)
LEMMA SeenOK ==
  ASSUME TypeOK, NonEmpty(db), Pinned(db), NEW c \in Clients, ClientOK(c)
  PROVE  /\ Seen(c) \in Database
         /\ NonEmpty(Seen(c)) /\ Pinned(Seen(c)) /\ Prefix(Seen(c), db)
         /\ req[c] # None => FullRead(Seen(c), req[c]) \in moments[c]
         /\ view[c] # None => Seen(c) = view[c]
  <1>1. db \in Database /\ (view[c] # None => view[c] \in Database)
    BY DEF TypeOK
  <1>2. Prefix(db, db)
    BY <1>1, PrefixReflexive
  <1> QED BY <1>1, <1>2 DEF Seen, ClientOK, ViewOK, MomentsOK

LEMMA ProceedKeeps ==
  ASSUME TypeOK, NonEmpty(db), Pinned(db), NEW c \in Clients, ClientOK(c),
         pc[c] \in InTransaction, NEW step \in {"references", "metadata", "payload", "resolve"},
         Proceed(c, step), db' = db, revoked' = revoked, active' = active,
         step = "references" => req[c].kind = "config",
         step \in {"metadata", "payload"} => req[c].kind \in {"config", "file"},
         step = "resolve" => req[c].kind = "release",
         FoundOK(c)'
  PROVE  ClientOK(c)'
  <1>1. /\ pc'[c] = step /\ view'[c] = Seen(c)
        /\ todo'[c] = todo[c] /\ after'[c] = after[c]
        /\ req'[c] = req[c] /\ held'[c] = held[c]
        /\ moments'[c] = moments[c] /\ late'[c] = late[c]
    BY DEF Proceed, Goto, TypeOK
  <1>2. Seen(c) # None
    BY SeenOK
  <1>3. ~late[c]
    BY DEF ClientOK, LateOK, InTransaction, Obtaining
  <1>4. ObtainOK(c)' /\ RequestOK(c)' /\ LateOK(c)'
    BY <1>1, <1>3 DEF ClientOK, ObtainOK, RequestOK, LateOK, Obtaining, InTransaction
  <1>5. ViewOK(c)'
    BY <1>1, <1>2, SeenOK DEF ViewOK, InTransaction
  <1>7. MomentsOK(c)'
    BY <1>1, SeenOK DEF ClientOK, MomentsOK
  <1>6. HeldOK(c)'
    BY <1>1 DEF ClientOK, HeldOK
  <1> QED BY <1>4, <1>5, <1>7, <1>6 DEF ClientOK

-----------------------------------------------------------------------------
(* What a read has found is what a read in one piece would find.           *)

LEMMA LatestRows ==
  ASSUME NEW d \in Database, NonEmpty(d), NEW S
  PROVE  /\ Involved(Latest(d, S)) = Items \cap S
         /\ \A i \in Involved(Latest(d, S)) :
               /\ Latest(d, S)[i] = Len(d.contents[i])
               /\ d.contents[i][Latest(d, S)[i]] = Last(d.contents[i])
  <1>1. \A i \in Items : Len(d.contents[i]) # 0
    BY DEF NonEmpty, Database
  <1>2. Involved(Latest(d, S)) = Items \cap S
    BY <1>1, LatestType DEF Involved
  <1> QED BY <1>2, LatestType DEF Last

(* Content of the type that it is read as.                                 *)
Read(d, items, type) ==
    \A i \in Involved(items) : Available(d, i) /\ Last(d.contents[i]).type = type

LEMMA ResolvableLatest ==
  ASSUME NEW d \in Database, NonEmpty(d), NEW S
  PROVE  Resolvable(d, Latest(d, S)) <=> Read(d, Latest(d, S), "text")
  BY LatestRows DEF Resolvable, Read, Available

LEMMA CurrentRead ==
  ASSUME TypeOK, NonEmpty(db), Pinned(db), NEW c \in Clients, ClientOK(c),
         pc[c] \in {"metadata", "payload"}
  PROVE  FullRead(Seen(c), req[c]) =
            IF Read(Seen(c), Current(c).items, IF req[c].kind = "file" THEN "file" ELSE "text")
            THEN [status |-> "content", answer |-> Current(c)]
            ELSE Failed(IF req[c].kind = "file" THEN "not_found" ELSE "unresolved")
  <1> DEFINE d == Seen(c)
             k == req[c].target
  <1>1. /\ req[c] # None /\ Asked(req[c]) /\ req[c].kind \in {"config", "file"}
        /\ d \in Database /\ NonEmpty(d) /\ view[c] # None /\ d = view[c]
    BY SeenOK DEF ClientOK, RequestOK, ViewOK, Asked, TypeOK
  <1>2. CASE req[c].kind = "file"
    <2> DEFINE a == [target |-> k, revision |-> Len(d.contents[k]), generation |-> 0,
                     items |-> Latest(d, {k})]
    <2>1. k \in Items
      BY <1>1, <1>2 DEF Asked
    <2>2. Found(k, Len(d.contents[k]), 0, Latest(d, {k})) = [status |-> "content", answer |-> a]
      BY DEF Found
    <2>3. Current(c) = a
      BY <1>2 DEF Current, Found
    <2>4. d.environment
      BY <1>1, <1>2 DEF ClientOK, FoundOK
    <2>5. a.items = Latest(d, {k})
      OBVIOUS
    <2> HIDE DEF a
    <2>6. Involved(Current(c).items) = {k}
      BY <1>1, <2>1, <2>3, <2>5, LatestRows
    <2>7. Read(d, Current(c).items, "file") <=> Available(d, k) /\ Last(d.contents[k]).type = "file"
      BY <2>6 DEF Read
    <2> QED BY <1>2, <2>2, <2>3, <2>4, <2>7 DEF FullRead
  <1>3. CASE req[c].kind = "config"
    <2> DEFINE items == Latest(d, Last(d.documents[k]))
               a == [target |-> k, revision |-> Len(d.documents[k]), generation |-> 0,
                     items |-> items]
    <2>1. Found(k, Len(d.documents[k]), 0, items) = [status |-> "content", answer |-> a]
      BY DEF Found
    <2>2. Current(c) = a
      BY <1>3 DEF Current, Found
    <2>3. Anchored(d, k)
      BY <1>1, <1>3 DEF ClientOK, FoundOK
    <2>4. a.items = items
      OBVIOUS
    <2> HIDE DEF a
    <2>5. Resolvable(d, items) <=> Read(d, Current(c).items, "text")
      BY <1>1, <2>2, <2>4, ResolvableLatest
    <2> QED BY <1>3, <2>1, <2>2, <2>3, <2>5 DEF FullRead
  <1> QED BY <1>1, <1>2, <1>3

LEMMA ReleaseRead ==
  ASSUME TypeOK, NonEmpty(db), Pinned(db), NEW c \in Clients, ClientOK(c), pc[c] = "resolve"
  PROVE  LET row == Seen(c).release[req[c].target] IN
         /\ row \in Release
         /\ FullRead(Seen(c), req[c]) =
               IF Resolvable(Seen(c), row.items)
               THEN Found(req[c].target, row.revision, row.generation, row.items)
               ELSE Failed("unresolved")
  <1>1. /\ req[c] # None /\ Asked(req[c]) /\ req[c].kind = "release"
        /\ Seen(c) \in Database /\ view[c] # None /\ Seen(c) = view[c]
    BY SeenOK DEF ClientOK, RequestOK, ViewOK, Asked, TypeOK
  <1>2. Anchored(Seen(c), req[c].target) /\ Seen(c).release[req[c].target] # None
    BY <1>1 DEF ClientOK, FoundOK
  <1>3. req[c].target \in Configs
    BY <1>1 DEF Asked
  <1> QED BY <1>1, <1>2, <1>3 DEF FullRead, Database

(* The revisions that make up content are of the type it is read as.       *)
Typed(d, answer) ==
    \A i \in Items : answer.items[i] # 0 =>
        /\ answer.items[i] <= Len(d.contents[i])
        /\ d.contents[i][answer.items[i]].type = IF answer.target \in Items THEN "file" ELSE "text"

LEMMA ContentTyped ==
  ASSUME NEW d \in Database, NonEmpty(d), Pinned(d), NEW r, Asked(r), NEW a \in Answer,
         FullRead(d, r) = [status |-> "content", answer |-> a]
  PROVE  Typed(d, a)
  <1> DEFINE k == r.target
  <1>1. r.kind \in Kind /\ Failed("not_found") # FullRead(d, r) /\ Failed("unresolved") # FullRead(d, r)
    BY DEF Asked, Request, Failed
  <1>2. CASE r.kind = "file"
    <2>1. /\ Found(k, Len(d.contents[k]), 0, Latest(d, {k})) = FullRead(d, r)
          /\ Last(d.contents[k]).type = "file"
      BY <1>1, <1>2 DEF FullRead
    <2>2. a = [target |-> k, revision |-> Len(d.contents[k]), generation |-> 0,
               items |-> Latest(d, {k})]
      BY <2>1 DEF Found
    <2>3. a.items = Latest(d, {k}) /\ a.target = k /\ k \in Items
      BY <1>2, <2>2 DEF Asked
    <2>4. Involved(a.items) = {k}
      BY <2>3, LatestRows
    <2>5. ASSUME NEW i \in Items, a.items[i] # 0
          PROVE  i = k /\ a.items[i] = Len(d.contents[i]) /\ d.contents[i][a.items[i]] = Last(d.contents[i])
      BY <2>3, <2>4, <2>5, LatestRows DEF Involved
    <2>6. \A i \in Items : Len(d.contents[i]) \in Nat
      BY DEF Database
    <2>7. ASSUME NEW i \in Items, a.items[i] # 0
          PROVE  /\ a.items[i] <= Len(d.contents[i])
                 /\ d.contents[i][a.items[i]].type = "file"
      <3>1. /\ i = k /\ a.items[i] = Len(d.contents[i])
            /\ d.contents[i][a.items[i]] = Last(d.contents[i])
        BY <2>5, <2>7
      <3> QED BY <2>1, <2>6, <3>1
    <2> QED BY <2>3, <2>7 DEF Typed
  <1>3. CASE r.kind = "config"
    <2> DEFINE items == Latest(d, Last(d.documents[k]))
    <2>1. Found(k, Len(d.documents[k]), 0, items) = FullRead(d, r) /\ Resolvable(d, items)
      BY <1>1, <1>3 DEF FullRead
    <2>2. a = [target |-> k, revision |-> Len(d.documents[k]), generation |-> 0, items |-> items]
      BY <2>1 DEF Found
    <2>3. a.items = items /\ a.target = k /\ k \notin Items
      BY <1>3, <2>2 DEF Asked
    <2>4. ASSUME NEW i \in Items, a.items[i] # 0
          PROVE  a.items[i] = Len(d.contents[i]) /\ d.contents[i][a.items[i]].type = "text"
      <3>1. i \in Involved(items)
        BY <2>3, <2>4 DEF Involved
      <3>2. /\ items[i] = Len(d.contents[i])
            /\ d.contents[i][items[i]] = Last(d.contents[i])
        BY <3>1, LatestRows
      <3>3. d.contents[i][items[i]].type = "text"
        BY <2>1, <3>1 DEF Resolvable
      <3> HIDE DEF items
      <3> QED BY <2>3, <3>2, <3>3
    <2>5. \A i \in Items : Len(d.contents[i]) \in Nat
      BY DEF Database
    <2> QED BY SMTT(60), <2>3, <2>4, <2>5 DEF Typed
  <1>4. CASE r.kind = "release"
    <2> DEFINE row == d.release[k]
    <2>1. /\ Found(k, row.revision, row.generation, row.items) = FullRead(d, r)
          /\ Resolvable(d, row.items) /\ row # None
      BY <1>1, <1>4 DEF FullRead
    <2>2. a = [target |-> k, revision |-> row.revision, generation |-> row.generation,
               items |-> row.items]
      BY <2>1 DEF Found
    <2>3. a.items = row.items /\ a.target = k /\ k \in Configs /\ k \notin Items
      BY <1>4, <2>2 DEF Asked
    <2>4. ASSUME NEW i \in Items, row.items[i] # 0
          PROVE  /\ row.items[i] <= Len(d.contents[i])
                 /\ d.contents[i][row.items[i]].type = "text"
      BY <2>1, <2>3, <2>4 DEF Resolvable, Involved, Pinned
    <2> QED BY <2>3, <2>4 DEF Typed
  <1> QED BY <1>1, <1>2, <1>3, <1>4 DEF Kind

(* The caller's tag is that of the content that it keeps.                  *)
LEMMA MatchesIsSame ==
  ASSUME TypeOK, NEW c \in Clients, NEW a \in Answer, Matches(c, a)
  PROVE  held[c] = a
  <1>1. held[c] \in Answer
    BY DEF Matches, TypeOK
  <1>2. /\ held[c].target = a.target /\ held[c].revision = a.revision
        /\ held[c].generation = a.generation /\ held[c].items = a.items
    BY DEF Matches, ETag
  <1> QED BY <1>1, <1>2 DEF Answer

LEMMA UnchangedIsRead ==
  ASSUME TypeOK, NonEmpty(db), Pinned(db), NEW c \in Clients, ClientOK(c), pc[c] = "metadata",
         Matches(c, Current(c)),
         \A i \in Involved(Current(c).items) : Available(Seen(c), i)
  PROVE  FullRead(Seen(c), req[c]) = [status |-> "content", answer |-> held[c]]
  <1> DEFINE d == Seen(c)
             k == req[c].target
             type == IF req[c].kind = "file" THEN "file" ELSE "text"
  <1>1. /\ req[c] # None /\ Asked(req[c]) /\ req[c].kind \in {"config", "file"}
        /\ d \in Database /\ NonEmpty(d) /\ Prefix(d, db)
    BY SeenOK DEF ClientOK, RequestOK, Asked, TypeOK
  <1>2. Current(c) \in Answer
    BY <1>1, CurrentType
  <1>3. held[c] = Current(c) /\ held[c] # None
    BY <1>2, MatchesIsSame DEF Matches
  <1>4. PICK S : Current(c).items = Latest(d, S)
    BY <1>1 DEF Current, Found
  <1>5. Current(c).target = k
    BY <1>1 DEF Current, Found
  <1>6. (k \in Items) <=> req[c].kind = "file"
    BY <1>1 DEF Asked
  <1>7. ASSUME NEW i \in Involved(Current(c).items)
        PROVE  Last(d.contents[i]).type = type
    <2>1. i \in Items /\ held[c].items[i] # 0
      BY <1>3, <1>7 DEF Involved
    <2>2. held[c].items[i] = Len(d.contents[i]) /\ d.contents[i][held[c].items[i]] = Last(d.contents[i])
      BY <1>1, <1>3, <1>4, <1>7, LatestRows
    <2>3. Len(d.contents[i]) \in Nat
      BY <1>1, <2>1 DEF Database
    <2>4. held[c].items[i] \in 1..Len(d.contents[i])
      BY <2>1, <2>2, <2>3
    <2>5. d.contents[i][held[c].items[i]] = db.contents[i][held[c].items[i]]
      BY <1>1, <2>1, <2>4 DEF Prefix
    <2>6. db.contents[i][held[c].items[i]].type = IF held[c].target \in Items THEN "file" ELSE "text"
      BY <1>3, <2>1 DEF ClientOK, HeldOK
    <2> QED BY <1>3, <1>5, <1>6, <2>2, <2>5, <2>6
  <1>8. Read(d, Current(c).items, type)
    BY <1>7 DEF Read
  <1> QED BY <1>3, <1>8, CurrentRead

(* How a request ends: without an answer, or with what a read in one piece *)
(* of what its transaction sees would have returned.                       *)
Ends(c) ==
    LET read == FullRead(Seen(c), req[c]) IN
    \/ status'[c] \in {"failed", "refused"} /\ held'[c] = held[c]
    \/ status'[c] \in Failure /\ read = Failed(status'[c]) /\ held'[c] = held[c]
    \/ /\ status'[c] = "unchanged" /\ pc[c] \in {"metadata", "resolve"}
       /\ held'[c] = held[c] /\ held[c] \in Answer
       /\ read = [status |-> "content", answer |-> held[c]]
    \/ /\ status'[c] = "content" /\ pc[c] \in {"payload", "resolve"}
       /\ held'[c] \in Answer
       /\ read = [status |-> "content", answer |-> held'[c]]

LEMMA MetadataEnds ==
  ASSUME TypeOK, NonEmpty(db), Pinned(db), NEW c \in Clients, ClientOK(c), ReadMetadata(c)
  PROVE  Ends(c) \/ pc'[c] # "idle"
  <1> DEFINE missing == \E i \in Involved(Current(c).items) : ~Available(Seen(c), i)
             failure == IF req[c].kind = "file" THEN "not_found" ELSE "unresolved"
  <1>1. pc[c] = "metadata"
    BY DEF ReadMetadata, At
  <1>f. ASSUME NEW s, Fail(c, s) PROVE status'[c] = s /\ held'[c] = held[c]
    BY <1>f DEF Fail, End, TypeOK
  <1>2. CASE missing /\ Fail(c, failure)
    <2>1. FullRead(Seen(c), req[c]) = Failed(failure)
      BY <1>1, <1>2, CurrentRead DEF Read
    <2> HIDE DEF failure
    <2>2. status'[c] = failure /\ held'[c] = held[c]
      BY <1>2, <1>f
    <2> QED BY <2>1, <2>2 DEF Ends, failure, Failure
  <1>3. CASE ~missing /\ Matches(c, Current(c)) /\ Fail(c, "unchanged")
    <2>1. FullRead(Seen(c), req[c]) = [status |-> "content", answer |-> held[c]]
      BY <1>1, <1>3, UnchangedIsRead
    <2>2. held[c] \in Answer
      BY <1>3 DEF Matches, TypeOK
    <2> QED BY <1>1, <1>3, <1>f, <2>1, <2>2 DEF Ends
  <1>4. CASE Proceed(c, "payload")
    BY <1>4 DEF Proceed, Goto, TypeOK
  <1> QED BY <1>2, <1>3, <1>4 DEF ReadMetadata

LEMMA PayloadEnds ==
  ASSUME TypeOK, NonEmpty(db), Pinned(db), NEW c \in Clients, ClientOK(c), ReadPayload(c)
  PROVE  Ends(c)
  <1> DEFINE d == Seen(c)
             items == Current(c).items
  <1>1. pc[c] = "payload"
    BY DEF ReadPayload, At
  <1>2. /\ req[c] # None /\ Asked(req[c]) /\ req[c].kind \in {"config", "file"}
        /\ d \in Database /\ NonEmpty(d) /\ d = view[c]
    BY ZenonT(60), <1>1, SeenOK DEF ClientOK, RequestOK, ViewOK, Asked, TypeOK
  <1>3. \A i \in Involved(items) : Available(d, i)
    BY <1>1, <1>2 DEF ClientOK, FoundOK
  <1>4. Current(c) \in Answer
    BY <1>2, CurrentType
  <1>5. req[c].kind = "file" => Involved(items) = {req[c].target}
    <2>1. SUFFICES ASSUME req[c].kind = "file" PROVE Involved(items) = {req[c].target}
      OBVIOUS
    <2>2. items = Latest(d, {req[c].target}) /\ req[c].target \in Items
      BY <1>2, <2>1 DEF Current, Found, Asked
    <2> QED BY <1>2, <2>2, LatestRows
  <1>f. ASSUME NEW s, Fail(c, s) PROVE status'[c] = s /\ held'[c] = held[c]
    BY <1>f DEF Fail, End, TypeOK
  <1>6. CASE /\ req[c].kind = "file"
             /\ Last(d.contents[req[c].target]).type # "file" /\ Fail(c, "not_found")
    <2>1. FullRead(d, req[c]) = Failed("not_found")
      BY ZenonT(60), <1>1, <1>5, <1>6, CurrentRead DEF Read
    <2> QED BY <1>6, <1>f, <2>1 DEF Ends, Failure
  <1>7. CASE /\ req[c].kind # "file"
             /\ ~(\A i \in Involved(items) : Last(d.contents[i]).type = "text")
             /\ Fail(c, "unresolved")
    <2>1. FullRead(d, req[c]) = Failed("unresolved")
      BY <1>1, <1>7, CurrentRead DEF Read
    <2> QED BY <1>7, <1>f, <2>1 DEF Ends, Failure
  <1>8. CASE /\ IF req[c].kind = "file" THEN Last(d.contents[req[c].target]).type = "file"
                ELSE \A i \in Involved(items) : Last(d.contents[i]).type = "text"
             /\ End(c, "content", Current(c))
    <2>1. Read(d, items, IF req[c].kind = "file" THEN "file" ELSE "text")
      BY <1>3, <1>5, <1>8 DEF Read
    <2>2. FullRead(d, req[c]) = [status |-> "content", answer |-> Current(c)]
      BY <1>1, <2>1, CurrentRead
    <2>3. status'[c] = "content" /\ held'[c] = Current(c)
      BY <1>8 DEF End, TypeOK
    <2> QED BY <1>1, <1>4, <2>2, <2>3 DEF Ends
  <1>9. /\ Involved(items) \subseteq Items
        /\ req[c].kind = "file" => req[c].target \in Items
    BY <1>2 DEF Involved, Asked
  <1> QED BY <1>6, <1>7, <1>8, <1>9 DEF ReadPayload

LEMMA ResolveEnds ==
  ASSUME TypeOK, NonEmpty(db), Pinned(db), NEW c \in Clients, ClientOK(c), ResolveRelease(c)
  PROVE  Ends(c)
  <1> DEFINE row == Seen(c).release[req[c].target]
             answer == Found(req[c].target, row.revision, row.generation, row.items).answer
  <1>1. pc[c] = "resolve"
    BY DEF ResolveRelease, At
  <1>2. req[c].target \in Configs
    BY <1>1 DEF ClientOK, RequestOK
  <1>3. /\ row \in Release
        /\ FullRead(Seen(c), req[c]) =
              IF Resolvable(Seen(c), row.items)
              THEN Found(req[c].target, row.revision, row.generation, row.items)
              ELSE Failed("unresolved")
    BY <1>1, ReleaseRead
  <1>4. /\ answer \in Answer
        /\ Found(req[c].target, row.revision, row.generation, row.items) =
              [status |-> "content", answer |-> answer]
    BY SMTT(60), <1>2, <1>3, FoundType DEF Release, Found
  <1>5. \/ Fail(c, "refused")
        \/ ~Resolvable(Seen(c), row.items) /\ Fail(c, "unresolved")
        \/ Resolvable(Seen(c), row.items) /\ Matches(c, answer) /\ Fail(c, "unchanged")
        \/ Resolvable(Seen(c), row.items) /\ End(c, "content", answer)
    BY DEF ResolveRelease
  <1> HIDE DEF row, answer
  <1>f. ASSUME NEW s, Fail(c, s) PROVE status'[c] = s /\ held'[c] = held[c]
    BY <1>f DEF Fail, End, TypeOK
  <1>6. CASE Fail(c, "refused")
    BY <1>6, <1>f DEF Ends
  <1>7. CASE ~Resolvable(Seen(c), row.items) /\ Fail(c, "unresolved")
    BY <1>3, <1>7, <1>f DEF Ends, Failure
  <1>8. CASE Resolvable(Seen(c), row.items) /\ Matches(c, answer) /\ Fail(c, "unchanged")
    <2>1. held[c] = answer
      BY <1>4, <1>8, MatchesIsSame
    <2> QED BY <1>1, <1>3, <1>4, <1>8, <1>f, <2>1 DEF Ends
  <1>9. CASE Resolvable(Seen(c), row.items) /\ End(c, "content", answer)
    <2>1. status'[c] = "content" /\ held'[c] = answer
      BY <1>9 DEF End, TypeOK
    <2> QED BY <1>1, <1>3, <1>4, <1>9, <2>1 DEF Ends
  <1> QED BY <1>5, <1>6, <1>7, <1>8, <1>9

LEMMA StepEnds ==
  ASSUME TypeOK, NonEmpty(db), Pinned(db), NEW c \in Clients, ClientOK(c), Step(c) \/ Abort(c),
         pc'[c] = "idle"
  PROVE  Ends(c)
  <1>f. ASSUME NEW s, Fail(c, s) PROVE status'[c] = s /\ held'[c] = held[c]
    BY <1>f DEF Fail, End, TypeOK
  <1>n. ASSUME Fail(c, "failed") \/ Fail(c, "refused") PROVE Ends(c)
    BY <1>f, <1>n DEF Ends
  <1>h. ASSUME NEW s, Have(c, s) PROVE FALSE
    BY <1>h DEF Have, Goto, TypeOK
  <1>o. ASSUME NEW queries, NEW step \in {"certificate", "begin"}, Obtain(c, queries, step)
        PROVE  FALSE
    BY <1>o DEF Obtain, Goto, TypeOK
  <1>p. ASSUME NEW step \in {"references", "metadata", "payload", "resolve"}, Proceed(c, step)
        PROVE  FALSE
    BY <1>p DEF Proceed, Goto, TypeOK
  <1>a. /\ req[c] # None => Asked(req[c])
        /\ pc[c] # "idle" => req[c] # None
    BY DEF ClientOK, RequestOK, Asked, TypeOK
  <1>1. CASE FindStatement(c)
    BY <1>1, <1>n, <1>h DEF FindStatement, Goto, TypeOK
  <1>2. CASE PrepareStatement(c)
    BY <1>2 DEF PrepareStatement, Goto, TypeOK
  <1>3. CASE KeepStatement(c)
    BY <1>3, <1>n, <1>h DEF KeepStatement
  <1>4. CASE ReadToken(c)
    BY <1>4, <1>n, <1>o DEF ReadToken, Authenticated
  <1>5. CASE ReadCertificate(c)
    BY <1>5, <1>n, <1>o DEF ReadCertificate, Authenticated
  <1>6. CASE BeginSnapshot(c)
    <2>1. req[c].kind \in Kind
      BY <1>6, <1>a DEF BeginSnapshot, At, Asked, Request
    <2>2. Root[req[c].kind] # "idle"
      BY <2>1 DEF Root, Kind
    <2> QED BY <1>6, <2>2 DEF BeginSnapshot, Goto, TypeOK
  <1>7. CASE ReadConfig(c)
    <2>1. CASE Fail(c, "failed")
      BY <2>1, <1>n
    <2>2. CASE ~Anchored(Seen(c), req[c].target) /\ Fail(c, "not_found")
      <3>1. req[c].kind = "config"
        BY <1>7 DEF ReadConfig, At, ClientOK, RequestOK
      <3>2. FullRead(Seen(c), req[c]) = Failed("not_found")
        BY <2>2, <3>1 DEF FullRead
      <3> QED BY <1>f, <2>2, <3>2 DEF Ends, Failure
    <2> QED BY <1>7, <1>p, <2>1, <2>2 DEF ReadConfig
  <1>8. CASE ReadReferences(c)
    BY <1>8, <1>n, <1>p DEF ReadReferences
  <1>9. CASE ReadEnvironment(c)
    <2>1. CASE Fail(c, "failed")
      BY <2>1, <1>n
    <2>2. CASE ~Seen(c).environment /\ Fail(c, "not_found")
      <3>1. req[c].kind = "file"
        BY <1>9 DEF ReadEnvironment, At, ClientOK, RequestOK
      <3>2. FullRead(Seen(c), req[c]) = Failed("not_found")
        BY <2>2, <3>1 DEF FullRead
      <3> QED BY <1>f, <2>2, <3>2 DEF Ends, Failure
    <2> QED BY <1>9, <1>p, <2>1, <2>2 DEF ReadEnvironment
  <1>10. CASE ReadMetadata(c)
    BY <1>10, MetadataEnds
  <1>11. CASE ReadPayload(c)
    BY <1>11, PayloadEnds
  <1>12. CASE ReadReleaseRoot(c)
    <2> DEFINE k == req[c].target
    <2>1. CASE ~(Anchored(Seen(c), k) /\ Seen(c).release[k] # None) /\ Fail(c, "not_found")
      <3>1. req[c].kind = "release"
        BY <1>12 DEF ReadReleaseRoot, At, ClientOK, RequestOK
      <3>2. FullRead(Seen(c), req[c]) = Failed("not_found")
        BY <2>1, <3>1 DEF FullRead
      <3> QED BY <1>f, <2>1, <3>2 DEF Ends, Failure
    <2> QED BY <1>12, <1>p, <2>1 DEF ReadReleaseRoot
  <1>13. CASE ResolveRelease(c)
    BY <1>13, ResolveEnds
  <1>14. CASE Abort(c)
    BY <1>14, <1>n DEF Abort
  <1> QED BY <1>1, <1>2, <1>3, <1>4, <1>5, <1>6, <1>7, <1>8, <1>9, <1>10, <1>11, <1>12, <1>13,
             <1>14 DEF Step

-----------------------------------------------------------------------------
(* The invariant of a request after a step of its own.                     *)

(* Content that has been sent is of its type.                              *)
LEMMA EndsKeeps ==
  ASSUME TypeOK, TypeOK', NonEmpty(db), Pinned(db), NEW c \in Clients, ClientOK(c), pc[c] # "idle",
         db' = db, Ends(c), NEW s, NEW answer, End(c, s, answer)
  PROVE  ClientOK(c)'
  <1>1. req[c] # None /\ Asked(req[c]) /\ Seen(c) \in Database /\ db \in Database
    BY SeenOK DEF ClientOK, RequestOK, Asked, TypeOK
  <1>2. CASE held'[c] = held[c]
    <2>1. HeldOK(c)'
      BY <1>1, <1>2, HeldStays, PrefixReflexive DEF ClientOK
    <2> QED BY <2>1, EndKeeps
  <1>3. CASE /\ held'[c] \in Answer
             /\ FullRead(Seen(c), req[c]) = [status |-> "content", answer |-> held'[c]]
    <2>1. Typed(Seen(c), held'[c])
      BY <1>1, <1>3, SeenOK, ContentTyped
    <2>2. Prefix(Seen(c), db)
      BY SeenOK
    <2>3. ASSUME NEW i \in Items, held'[c].items[i] # 0
          PROVE  /\ held'[c].items[i] <= Len(db.contents[i])
                 /\ db.contents[i][held'[c].items[i]].type =
                       IF held'[c].target \in Items THEN "file" ELSE "text"
      <3>1. held'[c].items[i] \in Nat
        BY <1>3 DEF Answer
      <3>2. Len(Seen(c).contents[i]) \in Nat /\ Len(db.contents[i]) \in Nat
        BY <1>1 DEF Database
      <3>3. held'[c].items[i] \in 1..Len(Seen(c).contents[i])
        BY <2>1, <2>3, <3>1, <3>2 DEF Typed
      <3>4. Seen(c).contents[i][held'[c].items[i]] = db.contents[i][held'[c].items[i]]
        BY <2>2, <3>3 DEF Prefix
      <3>5. held'[c].items[i] <= Len(db.contents[i])
        <4>1. Len(Seen(c).contents[i]) <= Len(db.contents[i])
          BY <2>2 DEF Prefix
        <4> QED BY <3>1, <3>2, <3>3, <4>1
      <3>6. Seen(c).contents[i][held'[c].items[i]].type =
               IF held'[c].target \in Items THEN "file" ELSE "text"
        BY <2>1, <2>3 DEF Typed
      <3> QED BY <3>4, <3>5, <3>6
    <2>4. HeldOK(c)'
      BY <2>3 DEF HeldOK
    <2> QED BY <2>4, EndKeeps
  <1> QED BY <1>2, <1>3 DEF Ends

LEMMA ObtainStep ==
  ASSUME TypeOK, CacheOK, NEW c \in Clients, ClientOK(c),
         FindStatement(c) \/ PrepareStatement(c) \/ KeepStatement(c)
  PROVE  ClientOK(c)'
  <1>f. ASSUME Fail(c, "failed"), db' = db PROVE ClientOK(c)'
    BY <1>f, FailKeeps
  <1>1. CASE FindStatement(c)
    <2>1. CASE cache[Head(todo[c])] = None /\ ~closed /\ Goto(c, "prepare")
               /\ UNCHANGED <<readVars, held, status, moments>>
      <3>1. /\ pc'[c] = "prepare" /\ pc[c] = "statement" /\ todo'[c] = todo[c] /\ todo[c] # <<>>
            /\ cache' = cache /\ closing' = closing /\ closing = {}
        BY <1>1, <2>1 DEF FindStatement, Goto, TypeOK, At, readVars, cacheVars, CacheOK, ClientOK,
                          ObtainOK, Obtaining
      <3>2. Head(todo[c]) \in Queries
        BY <3>1 DEF TypeOK
      <3>3. <<Head(todo[c]), c>> # None
        BY <3>2 DEF Statement
      <3>4. ObtainOK(c)'
        BY <2>1, <3>1, <3>3 DEF ObtainOK
      <3>5. /\ req' = req /\ view' = view /\ held' = held /\ moments' = moments /\ late' = late
            /\ after' = after /\ db' = db /\ revoked' = revoked /\ active' = active
        BY <1>1, <2>1 DEF FindStatement, readVars, storeVars
      <3>6. RequestOK(c)' /\ LateOK(c)'
        BY <3>1, <3>5 DEF ClientOK, RequestOK, LateOK, Obtaining
      <3>7. ViewOK(c)' /\ MomentsOK(c)' /\ FoundOK(c)' /\ HeldOK(c)'
        BY <3>1, <3>5 DEF ClientOK, ViewOK, MomentsOK, FoundOK, HeldOK, InTransaction
      <3> QED BY <3>4, <3>6, <3>7 DEF ClientOK
    <2>2. CASE \E s : Have(c, s)
      BY <1>1, <2>2, HaveKeeps DEF FindStatement, At, storeVars
    <2> QED BY <1>1, <1>f, <2>1, <2>2 DEF FindStatement, storeVars
  <1>2. CASE PrepareStatement(c)
    <2>1. /\ pc'[c] = "keep" /\ pc[c] = "prepare"
          /\ cache' = cache /\ closing' = closing
          /\ open' = open \cup {<<Head(todo[c]), c>>}
      BY <1>2 DEF PrepareStatement, Goto, TypeOK, At
    <2>2. /\ req' = req /\ view' = view /\ held' = held /\ moments' = moments /\ late' = late
          /\ after' = after /\ todo' = todo /\ db' = db /\ revoked' = revoked /\ active' = active
      BY <1>2 DEF PrepareStatement, readVars, storeVars
    <2>3. ObtainOK(c)' /\ RequestOK(c)' /\ LateOK(c)'
      BY <2>1, <2>2 DEF ClientOK, ObtainOK, RequestOK, LateOK, Obtaining
    <2>4. ViewOK(c)' /\ MomentsOK(c)' /\ FoundOK(c)' /\ HeldOK(c)'
      BY <2>1, <2>2 DEF ClientOK, ViewOK, MomentsOK, FoundOK, HeldOK, InTransaction
    <2> QED BY <2>3, <2>4 DEF ClientOK
  <1>3. CASE KeepStatement(c)
    <2>1. CASE \E s : Have(c, s)
      BY <1>3, <2>1, HaveKeeps DEF KeepStatement, At, storeVars
    <2> QED BY <1>3, <1>f, <2>1 DEF KeepStatement, storeVars
  <1> QED BY <1>1, <1>2, <1>3

LEMMA AuthenticateStep ==
  ASSUME TypeOK, NEW c \in Clients, ClientOK(c), ReadToken(c) \/ ReadCertificate(c)
  PROVE  ClientOK(c)'
  <1>u. /\ db' = db /\ revoked' = revoked /\ active' = active
        /\ pc[c] \in {"token", "certificate"}
    BY DEF ReadToken, ReadCertificate, storeVars, At
  <1>f. ASSUME NEW s, Fail(c, s) PROVE ClientOK(c)'
    BY <1>f, <1>u, FailKeeps
  <1>a. req[c] # None /\ req[c].kind \in Kind
    BY <1>u DEF ClientOK, RequestOK, TypeOK, Request
  <1>z. ASSUME ~late[c], Authenticated(c) PROVE ClientOK(c)'
    <2>1. Statements[req[c].kind] \in Seq(Queries)
      BY <1>a, StatementsType
    <2>2. Obtain(c, Statements[req[c].kind], "begin") => ClientOK(c)'
      BY <1>u, <1>z, <2>1, ObtainKeeps
    <2> QED BY <1>f, <1>z, <2>2 DEF Authenticated
  <1>1. CASE ReadToken(c)
    <2>1. CASE TokenValid(c) /\ req[c].certificate = None /\ Authenticated(c)
      <3>1. ~late[c]
        BY <2>1 DEF ClientOK, LateOK, TokenValid
      <3> QED BY <1>z, <2>1, <3>1
    <2>2. CASE TokenValid(c) /\ Obtain(c, <<"certificate">>, "certificate")
      <3>1. late[c] => req[c].certificate \notin active \cup {None}
        BY <2>2 DEF ClientOK, LateOK, TokenValid
      <3>2. <<"certificate">> \in Seq(Queries) /\ <<"certificate">> # <<>>
        BY StatementsType
      <3> QED BY <1>u, <2>2, <3>1, <3>2, ObtainKeeps
    <2> QED BY <1>1, <1>f, <2>1, <2>2 DEF ReadToken
  <1>2. CASE ReadCertificate(c)
    <2>1. CASE req[c].certificate \in active /\ Authenticated(c)
      <3>1. ~late[c]
        BY <1>2, <2>1 DEF ReadCertificate, At, ClientOK, LateOK, Obtaining
      <3> QED BY <1>z, <2>1, <3>1
    <2> QED BY <1>2, <1>f, <2>1 DEF ReadCertificate
  <1> QED BY <1>1, <1>2

LEMMA SnapshotStep ==
  ASSUME TypeOK, NonEmpty(db), Pinned(db), NEW c \in Clients, ClientOK(c),
         \/ BeginSnapshot(c) \/ ReadConfig(c) \/ ReadReferences(c) \/ ReadEnvironment(c)
         \/ ReadMetadata(c) \/ ReadReleaseRoot(c)
  PROVE  ClientOK(c)'
  <1>u. db' = db /\ revoked' = revoked /\ active' = active
    BY DEF BeginSnapshot, ReadConfig, ReadReferences, ReadEnvironment, ReadMetadata,
           ReadReleaseRoot, storeVars
  <1>f. ASSUME NEW s, Fail(c, s) PROVE ClientOK(c)'
    BY <1>f, <1>u, FailKeeps
  <1>a. pc[c] # "idle" => req[c] # None /\ req[c].kind \in Kind
    BY DEF ClientOK, RequestOK, TypeOK, Request
  <1>s. view[c] # None => Seen(c) = view[c]
    BY DEF Seen
  <1>p. ASSUME NEW step \in Steps, Proceed(c, step)
        PROVE  pc'[c] = step /\ view'[c] = Seen(c) /\ req'[c] = req[c] /\ view'[c] # None
    BY <1>p, SeenOK DEF Proceed, Goto, TypeOK
  <1>1. CASE BeginSnapshot(c)
    <2>1. /\ pc'[c] = Root[req[c].kind] /\ pc[c] = "begin"
          /\ req' = req /\ view' = view /\ held' = held /\ moments' = moments /\ late' = late
          /\ after' = after /\ todo' = todo
      BY <1>1 DEF BeginSnapshot, Goto, TypeOK, At, readVars
    <2>2. /\ req[c] # None
          /\ \/ req[c].kind = "config" /\ pc'[c] = "config"
             \/ req[c].kind = "file" /\ pc'[c] = "environment"
             \/ req[c].kind = "release" /\ pc'[c] = "release"
      BY <1>a, <2>1 DEF Root, Kind
    <2>3. ObtainOK(c)' /\ RequestOK(c)' /\ LateOK(c)'
      BY <1>u, <2>1, <2>2 DEF ClientOK, ObtainOK, RequestOK, LateOK, Obtaining
    <2>4. ViewOK(c)' /\ MomentsOK(c)' /\ FoundOK(c)' /\ HeldOK(c)'
      BY <1>u, <2>1, <2>2 DEF ClientOK, ViewOK, MomentsOK, FoundOK, HeldOK, InTransaction
    <2> QED BY <2>3, <2>4 DEF ClientOK
  <1>2. CASE ReadConfig(c)
    <2>1. pc[c] = "config" /\ req[c].kind = "config"
      BY <1>2 DEF ReadConfig, At, ClientOK, RequestOK
    <2>2. CASE Anchored(Seen(c), req[c].target) /\ Proceed(c, "references")
      <3>1. FoundOK(c)'
        BY <1>p, <2>1, <2>2 DEF FoundOK, Steps
      <3> QED BY <1>u, <2>1, <2>2, <3>1, ProceedKeeps DEF InTransaction
    <2> QED BY <1>2, <1>f, <2>2 DEF ReadConfig
  <1>3. CASE ReadReferences(c)
    <2>1. pc[c] = "references" /\ req[c].kind = "config" /\ Seen(c) = view[c]
      BY <1>3, <1>s DEF ReadReferences, At, ClientOK, RequestOK, ViewOK
    <2>2. CASE Proceed(c, "metadata")
      <3>1. Anchored(Seen(c), req[c].target)
        BY <2>1 DEF ClientOK, FoundOK
      <3>2. FoundOK(c)'
        BY <1>p, <2>1, <2>2, <3>1 DEF FoundOK, Steps
      <3> QED BY <1>u, <2>1, <2>2, <3>2, ProceedKeeps DEF InTransaction
    <2> QED BY <1>3, <1>f, <2>2 DEF ReadReferences
  <1>4. CASE ReadEnvironment(c)
    <2>1. pc[c] = "environment" /\ req[c].kind = "file"
      BY <1>4 DEF ReadEnvironment, At, ClientOK, RequestOK
    <2>2. CASE Seen(c).environment /\ Proceed(c, "metadata")
      <3>1. FoundOK(c)'
        BY <1>p, <2>1, <2>2 DEF FoundOK, Steps
      <3> QED BY <1>u, <2>1, <2>2, <3>1, ProceedKeeps DEF InTransaction
    <2> QED BY <1>4, <1>f, <2>2 DEF ReadEnvironment
  <1>5. CASE ReadMetadata(c)
    <2>1. /\ pc[c] = "metadata" /\ req[c].kind \in {"config", "file"} /\ Seen(c) = view[c]
      BY <1>5, <1>s DEF ReadMetadata, At, ClientOK, RequestOK, ViewOK
    <2>2. CASE /\ \A i \in Involved(Current(c).items) : Available(Seen(c), i)
               /\ Proceed(c, "payload")
      <3>1. /\ req[c].kind = "config" => Anchored(Seen(c), req[c].target)
            /\ req[c].kind = "file" => Seen(c).environment
        BY <2>1 DEF ClientOK, FoundOK
      <3>2. pc'[c] = "payload" /\ view'[c] = Seen(c) /\ req'[c] = req[c] /\ view'[c] # None
        BY <1>p, <2>2 DEF Steps
      <3>3. Seen(c)' = Seen(c)
        BY <3>2 DEF Seen
      <3>4. Current(c)' = Current(c)
        BY <3>2, <3>3 DEF Current
      <3>5. FoundOK(c)'
        BY <2>2, <3>1, <3>2, <3>4 DEF FoundOK
      <3> QED BY <1>u, <2>1, <2>2, <3>5, ProceedKeeps DEF InTransaction
    <2> QED BY <1>5, <1>f, <2>2 DEF ReadMetadata
  <1>6. CASE ReadReleaseRoot(c)
    <2>1. pc[c] = "release" /\ req[c].kind = "release"
      BY <1>6 DEF ReadReleaseRoot, At, ClientOK, RequestOK
    <2>2. CASE /\ Anchored(Seen(c), req[c].target) /\ Seen(c).release[req[c].target] # None
               /\ Proceed(c, "resolve")
      <3>1. FoundOK(c)'
        BY <1>p, <2>1, <2>2 DEF FoundOK, Steps
      <3> QED BY <1>u, <2>1, <2>2, <3>1, ProceedKeeps DEF InTransaction
    <2> QED BY <1>6, <1>f, <2>2 DEF ReadReleaseRoot
  <1> QED BY <1>1, <1>2, <1>3, <1>4, <1>5, <1>6

LEMMA OwnStep ==
  ASSUME TypeOK, TypeOK', CacheOK, NonEmpty(db), Pinned(db), NEW c \in Clients, ClientOK(c),
         Step(c) \/ Abort(c)
  PROVE  ClientOK(c)'
  <1>1. CASE ReadPayload(c) \/ ResolveRelease(c)
    <2>1. PICK s, answer : End(c, s, answer)
      BY <1>1 DEF ReadPayload, ResolveRelease, Fail
    <2>2. pc[c] # "idle" /\ db' = db /\ Ends(c)
      BY <1>1, PayloadEnds, ResolveEnds DEF ReadPayload, ResolveRelease, At, storeVars
    <2> QED BY <2>1, <2>2, EndsKeeps
  <1>2. CASE Abort(c)
    BY <1>2, FailKeeps DEF Abort, storeVars
  <1> QED BY <1>1, <1>2, ObtainStep, AuthenticateStep, SnapshotStep DEF Step

-----------------------------------------------------------------------------
(* Statements, and what is left of the invariant.                          *)

SharedOK == CacheOK /\ OpenOK /\ NonEmpty(db) /\ Pinned(db)

(* A step that leaves the statements alone and whose request keeps none.   *)
LEMMA StatementsStay ==
  ASSUME TypeOK, CacheOK, OpenOK, UNCHANGED cacheVars,
         \A c \in Clients : At(c, "keep") => pc'[c] = pc[c] /\ todo'[c] = todo[c]
  PROVE  CacheOK' /\ OpenOK'
  BY DEF CacheOK, OpenOK, Kept, At, cacheVars

LEMMA KeepStep ==
  ASSUME TypeOK, CacheOK, OpenOK, NEW c \in Clients, ClientOK(c), KeepStatement(c)
  PROVE  CacheOK' /\ OpenOK'
  <1> DEFINE query == Head(todo[c])
             own == <<query, c>>
  <1>1. /\ query \in Queries /\ own \in open /\ cache[query] # own /\ At(c, "keep")
        /\ own[1] = query /\ own # None
    BY DEF KeepStatement, At, ClientOK, ObtainOK, Obtaining, TypeOK, Statement
  <1>2. closed' = closed /\ closing' = closing
    BY DEF KeepStatement
  <1>3. \A d \in Clients : d # c => /\ At(d, "keep")' = At(d, "keep") /\ todo'[d] = todo[d]
    BY OthersUndisturbed DEF Step, Undisturbed, At
  <1> HIDE DEF query
  <1>4. CASE open' = open \ {own} /\ cache' = cache
    <2>1. \A q \in Queries : cache[q] # own
      BY <1>1 DEF CacheOK
    <2>2. CacheOK'
      BY <1>2, <1>4, <2>1 DEF CacheOK
    <2>3. ASSUME NEW s \in open' PROVE Kept(s)'
      <3>1. s \in open /\ s # own
        BY <1>4
      <3>2. ~(At(c, "keep") /\ s = <<Head(todo[c]), c>>)
        BY <3>1 DEF query
      <3>3. Kept(s)
        BY <3>1 DEF OpenOK
      <3> QED BY <1>2, <1>3, <1>4, <3>2, <3>3 DEF Kept
    <2> QED BY <2>2, <2>3 DEF OpenOK
  <1>5. CASE /\ open' = open /\ cache' = [cache EXCEPT ![query] = own]
             /\ ~closed /\ cache[query] = None
    <2>1. /\ cache'[query] = own
          /\ \A q \in Queries : q # query => cache'[q] = cache[q]
      BY <1>1, <1>5 DEF TypeOK
    <2>2. CacheOK'
      BY <1>1, <1>2, <1>5, <2>1 DEF CacheOK
    <2>3. ASSUME NEW s \in open' PROVE Kept(s)'
      <3>1. Kept(s)
        BY <1>5 DEF OpenOK
      <3>2. CASE s = own
        BY <1>1, <2>1, <3>2 DEF Kept
      <3>3. CASE s # own
        <4>1. ~(At(c, "keep") /\ s = <<Head(todo[c]), c>>)
          BY <3>3 DEF query
        <4>2. ASSUME NEW q \in Queries, cache[q] = s PROVE Kept(s)'
          <5>1. CASE q = query
            <6>1. None \notin open
              BY DEF TypeOK
            <6> QED BY <1>5, <4>2, <5>1, <6>1
          <5>2. CASE q # query
            BY <2>1, <4>2, <5>2 DEF Kept
          <5> QED BY <5>1, <5>2
        <4> QED BY <1>2, <1>3, <3>1, <4>1, <4>2 DEF Kept
      <3> QED BY <3>2, <3>3
    <2> QED BY <2>2, <2>3 DEF OpenOK
  <1> QED BY <1>4, <1>5 DEF KeepStatement, Discard, query

LEMMA StatementStep ==
  ASSUME TypeOK, CacheOK, OpenOK, NEW c \in Clients, ClientOK(c), Step(c) \/ Abort(c)
  PROVE  CacheOK' /\ OpenOK'
  <1>3. \A d \in Clients : d # c => pc'[d] = pc[d] /\ todo'[d] = todo[d]
    BY OthersUndisturbed DEF Undisturbed
  <1>1. CASE PrepareStatement(c)
    <2>1. /\ open' = open \cup {<<Head(todo[c]), c>>} /\ pc'[c] = "keep" /\ pc[c] = "prepare"
          /\ todo' = todo /\ cache' = cache /\ closed' = closed /\ closing' = closing
      BY <1>1 DEF PrepareStatement, Goto, At, readVars, TypeOK
    <2>2. CacheOK'
      BY <2>1 DEF CacheOK
    <2>3. ASSUME NEW s \in open' PROVE Kept(s)'
      <3>1. CASE s \in open
        <4>1. Kept(s)
          BY <3>1 DEF OpenOK
        <4> QED BY <1>3, <2>1, <4>1 DEF Kept, At
      <3>2. CASE s = <<Head(todo[c]), c>>
        BY <2>1, <3>2 DEF Kept, At
      <3> QED BY <2>1, <3>1, <3>2
    <2> QED BY <2>2, <2>3 DEF OpenOK
  <1>2. CASE KeepStatement(c)
    BY <1>2, KeepStep
  <1>4. CASE ~PrepareStatement(c) /\ ~KeepStatement(c)
    <2>1. UNCHANGED cacheVars /\ ~At(c, "keep")
      BY <1>4 DEF Step, FindStatement, ReadToken, ReadCertificate, BeginSnapshot, ReadConfig,
                  ReadReferences, ReadEnvironment, ReadMetadata, ReadPayload, ReadReleaseRoot,
                  ResolveRelease, Abort, At
    <2> QED BY <1>3, <2>1, StatementsStay
  <1> QED BY <1>1, <1>2, <1>4

(* What a step of one request leaves of what the others rely on.           *)
LEMMA StepStillTrue ==
  ASSUME TypeOK, CacheOK, NEW c \in Clients, ClientOK(c), NEW d \in Clients, d # c, ClientOK(d),
         Step(c) \/ Abort(c)
  PROVE  StillTrue(d) /\ db' = db
  <1>1. db' = db /\ revoked' = revoked /\ active' = active /\ closing' = closing
    BY DEF Step, FindStatement, PrepareStatement, KeepStatement, ReadToken, ReadCertificate,
           BeginSnapshot, ReadConfig, ReadReferences, ReadEnvironment, ReadMetadata, ReadPayload,
           ReadReleaseRoot, ResolveRelease, Abort, storeVars, cacheVars
  <1>2. /\ \A q \in Queries : cache'[q] = cache[q] \/ cache'[q] = <<Head(todo[c]), c>>
        /\ \A s \in open : s \in open' \/ s = <<Head(todo[c]), c>>
    <2>1. CASE PrepareStatement(c)
      BY <2>1 DEF PrepareStatement
    <2>2. CASE KeepStatement(c)
      BY <2>2 DEF KeepStatement, Discard, TypeOK
    <2>3. CASE ~PrepareStatement(c) /\ ~KeepStatement(c)
      BY <2>3 DEF Step, FindStatement, ReadToken, ReadCertificate, BeginSnapshot, ReadConfig,
                  ReadReferences, ReadEnvironment, ReadMetadata, ReadPayload, ReadReleaseRoot,
                  ResolveRelease, Abort, cacheVars
    <2> QED BY <2>1, <2>2, <2>3
  <1>3. moments'[d] = moments[d]
    BY OthersUndisturbed
  <1>4. Prefix(db, db')
    BY <1>1, PrefixReflexive DEF TypeOK
  <1>5. req[d] # None => FullRead(db', req[d]) \in moments'[d]
    BY <1>1, <1>3 DEF ClientOK, MomentsOK
  <1>6. \A q \in Queries : <<q, d>> # <<Head(todo[c]), c>>
    OBVIOUS
  <1>7. <<Head(todo[d]), d>> # <<Head(todo[c]), c>>
    OBVIOUS
  <1> QED BY <1>1, <1>2, <1>3, <1>4, <1>5, <1>6, <1>7 DEF StillTrue

LEMMA BeginStep ==
  ASSUME IInv, NEW c \in Clients, NEW r \in workload.requests, Begin(c, r)
  PROVE  SharedOK' /\ \A d \in Clients : ClientOK(d)'
  <1> USE DEF IInv
  <1>1. /\ pc[c] = "idle" /\ pc'[c] = "statement" /\ req'[c] = r /\ todo'[c] = <<"token">>
        /\ after'[c] = "token" /\ view'[c] = view[c] /\ held'[c] = held[c]
        /\ moments'[c] = {FullRead(db, r)}
        /\ late'[c] = (r.token \in revoked \/ r.certificate \notin active \cup {None})
        /\ db' = db /\ revoked' = revoked /\ active' = active /\ UNCHANGED cacheVars
    BY DEF Begin, At, Goto, TypeOK, storeVars
  <1>2. \A d \in Clients : d # c => Undisturbed(d) /\ moments'[d] = moments[d]
    BY OthersUndisturbed
  <1>3. SharedOK'
    <2>1. \A d \in Clients : At(d, "keep") => pc'[d] = pc[d] /\ todo'[d] = todo[d]
      BY <1>1, <1>2 DEF At, Undisturbed
    <2> QED BY <1>1, <2>1, StatementsStay DEF SharedOK, NonEmpty, Pinned
  <1>4. r \in Request /\ Asked(r) /\ r # None
    BY DEF TypeOK, Workload, Asked
  <1>5. view[c] = None
    BY <1>1 DEF ClientOK, ViewOK, InTransaction
  <1>6. ObtainOK(c)' /\ RequestOK(c)'
    BY <1>1, <1>4 DEF ObtainOK, RequestOK, Obtaining, Asked
  <1>7. LateOK(c)'
    BY <1>1 DEF LateOK, Obtaining
  <1>8. ViewOK(c)' /\ MomentsOK(c)' /\ FoundOK(c)' /\ HeldOK(c)'
    BY <1>1, <1>5 DEF ClientOK, ViewOK, MomentsOK, FoundOK, HeldOK
  <1>9. ASSUME NEW d \in Clients, d # c PROVE ClientOK(d)'
    <2>1. Prefix(db, db') /\ db' \in Database
      BY <1>1, PrefixReflexive DEF TypeOK
    <2>2. req[d] # None => FullRead(db', req[d]) \in moments'[d]
      BY <1>1, <1>2, <1>9 DEF ClientOK, MomentsOK
    <2>3. StillTrue(d)
      BY <1>1, <1>2, <1>9, <2>1, <2>2 DEF StillTrue, cacheVars
    <2> QED BY <1>2, <1>9, <2>1, <2>3, Bystander
  <1> QED BY <1>3, <1>6, <1>7, <1>8, <1>9 DEF ClientOK

LEMMA WriteStep ==
  ASSUME IInv, TypeOK', NEW d \in Database, Change(d), NonEmpty(d), Pinned(d), Prefix(db, d)
  PROVE  SharedOK' /\ \A c \in Clients : ClientOK(c)'
  <1> USE DEF IInv
  <1>1. /\ db' = d /\ revoked' = revoked /\ active' = active /\ UNCHANGED cacheVars
        /\ \A c \in Clients : Undisturbed(c)
    BY DEF Change, Undisturbed, readVars
  <1>2. SharedOK'
    BY <1>1, StatementsStay DEF SharedOK, Undisturbed, NonEmpty, Pinned
  <1>3. ASSUME NEW c \in Clients PROVE ClientOK(c)'
    <2>1. /\ moments[c] \subseteq moments'[c]
          /\ req[c] # None => FullRead(db', req[c]) \in moments'[c]
      BY <1>1 DEF Change, ClientOK, RequestOK, TypeOK
    <2>2. StillTrue(c)
      BY <1>1, <2>1 DEF StillTrue, cacheVars
    <2> QED BY <1>1, <2>2, Bystander
  <1> QED BY <1>2, <1>3

LEMMA WithdrawStep ==
  ASSUME IInv, NEW tokens, NEW certificates, Withdraw(tokens, certificates)
  PROVE  SharedOK' /\ \A c \in Clients : ClientOK(c)'
  <1> USE DEF IInv
  <1>1. /\ db' = db /\ revoked \subseteq revoked' /\ active' \subseteq active
        /\ UNCHANGED cacheVars /\ moments' = moments
        /\ \A c \in Clients : Undisturbed(c)
    BY DEF Withdraw, Undisturbed, readVars
  <1>2. SharedOK'
    BY <1>1, StatementsStay DEF SharedOK, Undisturbed, NonEmpty, Pinned
  <1>3. ASSUME NEW c \in Clients PROVE ClientOK(c)'
    <2>1. Prefix(db, db') /\ db' \in Database
      BY <1>1, PrefixReflexive DEF TypeOK
    <2>2. StillTrue(c)
      BY <1>1, <2>1 DEF StillTrue, cacheVars, ClientOK, MomentsOK
    <2> QED BY <1>1, <2>1, <2>2, Bystander
  <1> QED BY <1>2, <1>3

LEMMA CloseStep ==
  ASSUME IInv, Close \/ CloseStatement
  PROVE  SharedOK' /\ \A c \in Clients : ClientOK(c)'
  <1> USE DEF IInv
  <1>1. /\ db' = db /\ revoked' = revoked /\ active' = active /\ moments' = moments
        /\ \A c \in Clients : Undisturbed(c)
    BY DEF Close, CloseStatement, Undisturbed, readVars, storeVars
  <1>2. Prefix(db, db') /\ db' \in Database
    BY <1>1, PrefixReflexive DEF TypeOK
  <1>k. \A c \in Clients : At(c, "keep")' = At(c, "keep")
    BY <1>1 DEF Undisturbed, At
  <1>n. \A q \in Queries, c \in Clients : <<q, c>> # None
    BY DEF Statement
  <1>3. CASE Close
    <2>1. /\ ~closed /\ closed' /\ closing = {} /\ open' = open
          /\ closing' = {cache[q] : q \in Queries} \ {None}
          /\ \A q \in Queries : cache'[q] = None
      BY <1>3 DEF Close, CacheOK
    <2>2. CacheOK'
      BY <2>1 DEF CacheOK
    <2>3. ASSUME NEW s \in open' PROVE Kept(s)'
      <3>1. Kept(s) /\ s # None
        BY <2>1 DEF OpenOK, TypeOK
      <3> QED BY <1>1, <1>k, <2>1, <3>1 DEF Kept, Undisturbed
    <2>4. ASSUME NEW c \in Clients PROVE ClientOK(c)'
      <3>1. ASSUME NEW q \in Queries, cache[q] # <<q, c>> PROVE <<q, c>> \notin closing'
        <4>1. SUFFICES ASSUME NEW p \in Queries, cache[p] = <<q, c>> PROVE FALSE
          BY <2>1
        <4>2. p = q
          <5>1. cache[p] # None
            BY <1>n, <4>1
          <5>2. cache[p][1] = p
            BY <5>1 DEF CacheOK
          <5>3. <<q, c>>[1] = q
            OBVIOUS
          <5> QED BY <4>1, <5>2, <5>3
        <4> QED BY <3>1, <4>1, <4>2
      <3>2. StillTrue(c)
        <4>1. \A q \in Queries : cache'[q] # <<q, c>>
          BY <1>n, <2>1
        <4>2. req[c] # None => FullRead(db', req[c]) \in moments'[c]
          BY <1>1 DEF ClientOK, MomentsOK
        <4> QED BY <1>1, <1>2, <2>1, <3>1, <4>1, <4>2 DEF StillTrue
      <3> QED BY <1>1, <1>2, <3>2, Bystander
    <2> QED BY <1>1, <2>2, <2>3, <2>4 DEF SharedOK, OpenOK, NonEmpty, Pinned
  <1>4. CASE CloseStatement
    <2>1. PICK s \in closing : closing' = closing \ {s} /\ open' = open \ {s}
      BY <1>4 DEF CloseStatement
    <2>2. cache' = cache /\ closed' = closed /\ \A q \in Queries : cache[q] = None
      BY <1>4, <2>1 DEF CloseStatement, CacheOK, TypeOK
    <2>3. CacheOK'
      BY <2>1, <2>2 DEF CacheOK
    <2>4. ASSUME NEW o \in open' PROVE Kept(o)'
      <3>1. Kept(o) /\ o # s
        BY <2>1, <2>4 DEF OpenOK
      <3> QED BY <1>1, <1>k, <2>1, <2>2, <3>1 DEF Kept, Undisturbed
    <2>5. ASSUME NEW c \in Clients PROVE ClientOK(c)'
      <3>1. At(c, "keep") => <<Head(todo[c]), c>> # s
        BY <2>1 DEF ClientOK, ObtainOK, At
      <3>2. StillTrue(c)
        BY <1>1, <1>2, <2>1, <2>2, <3>1 DEF StillTrue, ClientOK, MomentsOK
      <3> QED BY <1>1, <1>2, <3>2, Bystander
    <2> QED BY <1>1, <2>3, <2>4, <2>5 DEF SharedOK, OpenOK, NonEmpty, Pinned
  <1> QED BY <1>3, <1>4

-----------------------------------------------------------------------------
LEMMA InitInv == Init => IInv
  <1> SUFFICES ASSUME Init PROVE IInv
    OBVIOUS
  <1>w. /\ workload \in Workload
        /\ \A k \in Configs : workload.document[k] \in Documents
        /\ \A i \in Items : workload.content[i] \in Contents
    BY DEF Init, Workload
  <1>d. /\ db.environment \in BOOLEAN
        /\ db.documents = [k \in Configs |-> <<workload.document[k]>>]
        /\ db.contents = [i \in Items |-> <<workload.content[i]>>]
        /\ db.archived \in SUBSET (Configs \cup Items)
        /\ db.release = [k \in Configs |-> None]
        /\ db = Rows(db.environment, db.documents, db.contents, db.archived, db.release)
    BY DEF Init, Rows
  <1>1. db \in Database
    <2>1. db.documents \in [Configs -> Seq(Documents)]
      BY <1>w, <1>d
    <2>2. db.contents \in [Items -> Seq(Contents)]
      BY <1>w, <1>d
    <2>3. db.release \in [Configs -> Release \cup {None}]
      BY <1>d
    <2>4. Rows(db.environment, db.documents, db.contents, db.archived, db.release) \in Database
      BY <1>d, <2>1, <2>2, <2>3, RowsType
    <2> QED BY <1>d, <2>4
  <1>2. ServerTypeOK
    BY <1>1, <1>w DEF Init, ServerTypeOK, Workload
  <1>3. ClientsTypeOK
    BY DEF Init, ClientsTypeOK, Steps, Status
  <1>4. TypeOK
    BY <1>2, <1>3, TypePieces
  <1>5. CacheOK /\ OpenOK
    BY DEF Init, CacheOK, OpenOK
  <1>6. NonEmpty(db) /\ Pinned(db)
    <2>1. \A k \in Configs : db.documents[k] # <<>>
      BY <1>d
    <2>2. \A i \in Items : db.contents[i] # <<>>
      BY <1>d
    <2> QED BY <1>d, <2>1, <2>2 DEF NonEmpty, Pinned
  <1>7. \A c \in Clients : ClientOK(c)
    BY DEF Init, ClientOK, ObtainOK, RequestOK, LateOK, ViewOK, MomentsOK, FoundOK, HeldOK,
           Obtaining
  <1> QED BY <1>4, <1>5, <1>6, <1>7 DEF IInv

LEMMA InvStep == IInv /\ [Next]_vars => IInv'
  <1> SUFFICES ASSUME IInv, [Next]_vars PROVE IInv'
    OBVIOUS
  <1>t. TypeOK'
    BY TypeStep DEF IInv
  <1> SUFFICES SharedOK' /\ \A c \in Clients : ClientOK(c)'
    BY <1>t DEF IInv, SharedOK
  <1>1. CASE \E c \in Clients, r \in workload.requests : Begin(c, r)
    BY <1>1, BeginStep
  <1>2. ASSUME NEW c \in Clients, Step(c) \/ Abort(c)
        PROVE  SharedOK' /\ \A d \in Clients : ClientOK(d)'
    <2>1. ClientOK(c)'
      BY <1>2, <1>t, OwnStep DEF IInv
    <2>2. CacheOK' /\ OpenOK'
      BY <1>2, StatementStep DEF IInv
    <2>3. db' = db
      BY <1>2 DEF Step, FindStatement, PrepareStatement, KeepStatement, ReadToken,
                  ReadCertificate, BeginSnapshot, ReadConfig, ReadReferences, ReadEnvironment,
                  ReadMetadata, ReadPayload, ReadReleaseRoot, ResolveRelease, Abort, storeVars
    <2>4. ASSUME NEW d \in Clients, d # c PROVE ClientOK(d)'
      <3>1. StillTrue(d) /\ Undisturbed(d)
        BY <1>2, <2>4, StepStillTrue, OthersUndisturbed DEF IInv
      <3> QED BY <1>t, <3>1, Bystander DEF IInv, TypeOK
    <2> QED BY <2>1, <2>2, <2>3, <2>4 DEF SharedOK, NonEmpty, Pinned, IInv
  <1>3. CASE \/ \E k \in Configs : CommitConfig(k) \/ ActivateRelease(k)
             \/ \E i \in Items : CommitVault(i)
             \/ \E x \in Configs \cup Items : ChangeLifecycle(x)
             \/ ChangeEnvironment
    <2>1. PICK d \in Database : Change(d)
      BY <1>3, WriteType DEF IInv, ClientOK
    <2>2. NonEmpty(d) /\ Pinned(d) /\ Prefix(db, d)
      BY <1>3, <2>1, WriteGrows DEF IInv, ClientOK, Change
    <2> QED BY <1>t, <2>1, <2>2, WriteStep
  <1>4. CASE (\E t \in Tokens : RevokeToken(t)) \/ (\E x \in Certificates : RevokeCertificate(x))
    BY <1>4, WithdrawStep DEF RevokeToken, RevokeCertificate
  <1>5. CASE Close \/ CloseStatement
    BY <1>5, CloseStep
  <1>6. CASE UNCHANGED vars
    <2>1. UNCHANGED cacheVars /\ moments' = moments /\ UNCHANGED storeVars
          /\ \A c \in Clients : Undisturbed(c)
      BY <1>6 DEF vars, readVars, Undisturbed
    <2>2. SharedOK'
      BY <2>1, StatementsStay DEF SharedOK, Undisturbed, NonEmpty, Pinned, IInv, storeVars
    <2>3. ASSUME NEW c \in Clients PROVE ClientOK(c)'
      <3>1. Prefix(db, db') /\ db' \in Database
        BY <2>1, PrefixReflexive DEF TypeOK, IInv, storeVars
      <3>2. StillTrue(c)
        BY <2>1, <3>1 DEF StillTrue, cacheVars, storeVars, ClientOK, MomentsOK, IInv
      <3> QED BY <2>1, <3>1, <3>2, Bystander DEF IInv
    <2> QED BY <2>2, <2>3
  <1> QED BY <1>1, <1>2, <1>3, <1>4, <1>5, <1>6, NextCases

THEOREM Invariant == Spec => []IInv
  BY InitInv, InvStep, PTL DEF Spec

(* Every variable has its type in every state: rows are only ever added    *)
(* and what a request keeps of them is well-formed.                        *)
THEOREM TypeCorrect == Spec => []TypeOK
  <1>1. IInv => TypeOK
    BY DEF IInv
  <1> QED BY <1>1, Invariant, PTL

(* However the requests that prepare the same statement and the closing of *)
(* the cache interleave, no statement is left open by nobody, and what is  *)
(* shared is open (machineStatement and close of machine_statements.go).   *)
THEOREM StatementsAreKept == Spec => []NoStatementLeaks
  <1>1. IInv => NoStatementLeaks
    <2> SUFFICES ASSUME IInv PROVE NoStatementLeaks
      OBVIOUS
    <2> DEFINE shared == {cache[q] : q \in Queries} \ {None}
               fresh == {<<Head(todo[c]), c>> : c \in {d \in Clients : At(d, "keep")}}
    <2>1. ASSUME NEW s \in open PROVE s \in shared \cup fresh \cup closing
      <3>1. Kept(s) /\ s # None
        BY <2>1 DEF IInv, OpenOK, TypeOK
      <3> QED BY <3>1 DEF Kept
    <2>2. shared \subseteq open
      BY DEF IInv, CacheOK
    <2>3. closed => shared = {}
      BY DEF IInv, CacheOK
    <2> QED BY <2>1, <2>2, <2>3 DEF NoStatementLeaks
  <1> QED BY <1>1, Invariant, PTL

(* A request ends by a step of its own.                                    *)
LEMMA EndsByItself ==
  ASSUME IInv, [Next]_vars, NEW c \in Clients, pc[c] # "idle", pc'[c] = "idle"
  PROVE  Ends(c)
  <1>1. CASE \E d \in Clients, r \in workload.requests : Begin(d, r)
    BY <1>1 DEF Begin, Goto, At, IInv, TypeOK
  <1>2. ASSUME NEW d \in Clients, Step(d) \/ Abort(d) PROVE Ends(c)
    <2>1. CASE d = c
      BY <1>2, <2>1, StepEnds DEF IInv
    <2>2. CASE d # c
      BY <1>2, <2>2, OthersUndisturbed DEF IInv, Undisturbed
    <2> QED BY <2>1, <2>2
  <1>3. CASE pc' = pc
    BY <1>3
  <1> QED BY <1>1, <1>2, <1>3, NextCases
       DEF CommitConfig, ActivateRelease, CommitVault, ChangeLifecycle, ChangeEnvironment, Change,
           RevokeToken, RevokeCertificate, Withdraw, Close, CloseStatement, vars

(* For any number of requests, writers and revisions: what a caller is     *)
(* left with after "content" or "not modified" is what one read in one     *)
(* piece would have returned at a moment of its request                    *)
(* (ReadResolvedConfig, ReadFile and ReadRelease, with ETags).             *)
THEOREM AnswersAreWhole == Spec => AnswersAreOneMoment
  <1>1. ASSUME IInv, [Next]_vars, NEW c \in Clients, pc[c] # "idle", pc'[c] = "idle"
        PROVE  /\ status'[c] \in {"content", "unchanged"} =>
                     [status |-> "content", answer |-> held'[c]] \in moments[c]
               /\ status'[c] \in Failure => Failed(status'[c]) \in moments[c]
    <2>1. Ends(c)
      BY <1>1, EndsByItself
    <2>2. FullRead(Seen(c), req[c]) \in moments[c]
      BY <1>1, SeenOK DEF IInv, ClientOK, RequestOK
    <2> QED BY <2>1, <2>2 DEF Ends, Failure
  <1>2. IInv /\ [Next]_vars =>
          [\A c \in Clients :
             pc[c] # "idle" /\ pc'[c] = "idle" =>
               /\ status'[c] \in {"content", "unchanged"} =>
                     [status |-> "content", answer |-> held'[c]] \in moments[c]
               /\ status'[c] \in Failure => Failed(status'[c]) \in moments[c]]_vars
    BY <1>1
  <1> QED BY <1>2, Invariant, PTL DEF Spec, AnswersAreOneMoment

(* Withdrawn credentials: no request that begins after its token or its    *)
(* certificate was revoked is answered with content or with "not modified",*)
(* statements being cached or not (TokenForEnvironment, authenticate).     *)
THEOREM RevocationIsSeen == Spec => RevokedIsRefused
  <1>1. ASSUME IInv, [Next]_vars, NEW c \in Clients, late[c], pc'[c] = "idle"
        PROVE  status'[c] \notin {"content", "unchanged"}
    <2>1. pc[c] \in Obtaining \cup {"token", "certificate"}
      BY <1>1 DEF IInv, ClientOK, LateOK
    <2>2. Ends(c)
      BY <1>1, <2>1, EndsByItself DEF Obtaining
    <2> QED BY <2>1, <2>2 DEF Ends, Obtaining, Failure
  <1>2. IInv /\ [Next]_vars =>
          [\A c \in Clients :
             late[c] /\ pc'[c] = "idle" => status'[c] \notin {"content", "unchanged"}]_vars
    BY <1>1
  <1> QED BY <1>2, Invariant, PTL DEF Spec, RevokedIsRefused

=============================================================================
