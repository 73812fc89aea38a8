----------------------------- MODULE SecretStore -----------------------------
(***************************************************************************)
(* What MySQL holds encrypted and who may use it (internal/storage/        *)
(* mysqlstore): revisions of a vault item, private keys of certificate     *)
(* authorities and credentials of a notification destination, each with a  *)
(* data key that the master key wraps; the certificates and tokens issued  *)
(* on top; and the change of the master key beside all of it.              *)
(*                                                                         *)
(* A request is one transaction. Plan gives its statements in their order: *)
(* each takes row locks, which are held to the end, and the last one       *)
(* stands for the writes and the commit. The EXISTS of a token's           *)
(* authorization is the only plain read before the last lock, so it opens  *)
(* the read view, and only requests of tokens have one that may be old.    *)
(*                                                                         *)
(* All vault requests are about one item. Environments are active and      *)
(* field types do not change; display names and requests that are          *)
(* malformed in themselves are left out.                                   *)
(***************************************************************************)
EXTENDS Integers, Sequences, FiniteSets

CONSTANTS
    Keys,           \* master keys
    Environments,
    Fields,         \* fields of the item
    Values,         \* what a field may hold
    Writers,        \* scoped write tokens
    Granted,        \* their environments
    Authorities,
    Certificates,   \* a deployment's token goes by its certificate
    Limit,          \* of active authorities, 32 in the code
    Attempts,       \* of a deadlock victim, 4 in the code
    Operations,     \* operation ids
    Requests,       \* what callers may ask for, and ask for again
    MaxOperations,  \* bound on the operations of a behaviour
    Clients,        \* requests in progress, each in a process of its own
    None

(* The statements of each kind of request.                                 *)
Plan ==
    [commit            |-> <<"key", "operation", "item", "write">>,
     put_item          |-> <<"key", "token", "operation", "item", "write">>,
     put_field         |-> <<"key", "token", "operation", "item", "write">>,
     delete_field      |-> <<"key", "token", "operation", "item", "write">>,
     delete_item       |-> <<"key", "token", "operation", "item", "write">>,
     archive           |-> <<"operation", "item", "write">>,
     unarchive         |-> <<"operation", "item", "write">>,
     createAuthority   |-> <<"key", "operation", "count", "write">>,
     revokeAuthority   |-> <<"operation", "authority", "write">>,
     issue             |-> <<"key", "operation", "authority", "write">>,
     register          |-> <<"operation", "authority", "write">>,
     revokeCertificate |-> <<"operation", "write">>,
     deploy            |-> <<"key", "token", "operation", "authority", "write">>,
     undeploy          |-> <<"token", "target", "operation", "write">>,
     revoke            |-> <<"operation", "target", "write">>,
     destination       |-> <<"key", "operation", "write">>,
     rotate            |-> <<"key", "write">>]

Scoped == {"put_item", "put_field", "delete_field", "delete_item"}

VaultWrite == {"commit"} \cup Scoped

Tokens == Writers \cup Certificates

(* The values of an environment, None for a field there is not; and those  *)
(* of all environments, None for one the item is not bound to.             *)
Bundle == [Fields -> Values \cup {None}]

Snapshot == [Environments -> Bundle \cup {None}]

(* content: a snapshot to commit, what to put, or the field to delete.     *)
Request == [op : Operations \cup {None}, action : DOMAIN Plan, token : Writers \cup {None},
            environment : Environments \cup {None}, expected : Nat,
            content : Snapshot \cup Bundle \cup {None},
            authority : Authorities \cup {None}, certificate : Certificates \cup {None},
            target : Tokens \cup {None}, key : Keys \cup {None}]

Outcome == {"success", "no_change", "conflict", "validation_failed"}

(* An operation id goes with one request. A rotation has an id of its own  *)
(* making.                                                                 *)

ASSUME SecretAssumption ==
    /\ Requests \subseteq Request
    /\ \A r \in Requests : r.op = None <=> r.action = "rotate"
    /\ \A r, s \in Requests : r.op # None /\ r.op = s.op => r = s
    /\ \A r \in Requests :
          /\ r.action \in Scoped \cup {"deploy", "undeploy"}
                => r.token \in Writers /\ r.environment \in Environments
          /\ r.action \in {"createAuthority", "revokeAuthority", "issue", "deploy"}
                => r.authority \in Authorities
          /\ r.action \in {"issue", "deploy", "register"} => r.certificate \in Certificates
          /\ r.action \in {"revoke", "undeploy"} => r.target \in Tokens
    /\ Granted \in [Writers -> SUBSET Environments]
    /\ Writers \cap Certificates = {}
    /\ IsFiniteSet(Authorities)
    /\ Limit \in Nat /\ Attempts \in Nat \ {0} /\ MaxOperations \in Nat \ {0}
    /\ \A S \in {Keys, Values, Operations, Environments, Tokens, Authorities} : None \notin S
    /\ None \notin Outcome

(* What a request carries fits what it asks for.                           *)
ASSUME ContentAssumption == \A r \in Requests :
    /\ r.action = "commit" => r.content \in Snapshot
    /\ r.action \in {"put_item", "put_field", "delete_field"} => r.content \in Bundle
    /\ r.action = "revokeCertificate" => r.certificate \in Certificates
    /\ r.action = "rotate" => r.key \in Keys

VARIABLES
    sentinel,       \* the master key crypto_sentinel is sealed with
    wrapped,        \* the master key that wraps a record's data key
    item,           \* vault_items: "absent", "active" or "archived"
    history,        \* vault_item_revisions of the item
    authority,      \* certificate_authorities
    certificate,    \* client_certificates
    issuer,         \* client_certificates.authority_id
    token,          \* api_tokens
    parent,         \* api_tokens.parent_public_id
    operation,      \* operations
    applied,        \* how often an operation has changed something
    provider,       \* the master key each client's process has in memory
    pc,             \* the next statement of each client
    req,            \* its request
    view,           \* the item in its read view, None before it is open
    locks,          \* rows and gaps it has locked
    attempt         \* how often its transaction has been started

vaultVars == <<item, history>>
credentialVars == <<authority, certificate, issuer, token, parent>>
keyVars == <<sentinel, wrapped>>
ledgerVars == <<operation, applied>>
clientVars == <<pc, req, view, locks, attempt>>
vars == <<vaultVars, credentialVars, keyVars, ledgerVars, provider, clientVars>>

Revision == 1..MaxOperations

Sealed == ({"revision"} \X Revision) \cup ({"authority"} \X Authorities)
          \cup {<<"destination", None>>}

Rows == {<<"sentinel", None>>, <<"item", None>>, <<"destination", None>>}
        \cup ({"operation"} \X Operations) \cup ({"token"} \X Tokens)
        \cup ({"authority"} \X Authorities) \cup ({"certificate"} \X Certificates)

(* Shared, exclusive, a gap that is read, a gap that is written to.        *)
Modes == {"S", "X", "gap", "insert"}

Status == {"absent", "active", "revoked"}

Steps == {"idle"} \cup UNION {{Plan[a][i] : i \in DOMAIN Plan[a]} : a \in DOMAIN Plan}

TypeOK ==
    /\ sentinel \in Keys
    /\ wrapped \in [Sealed -> Keys \cup {None}]
    /\ item \in {"absent", "active", "archived"}
    /\ history \in Seq(Snapshot)
    /\ authority \in [Authorities -> Status]
    /\ certificate \in [Certificates -> Status]
    /\ issuer \in [Certificates -> Authorities \cup {None}]
    /\ token \in [Tokens -> Status]
    /\ parent \in [Certificates -> Writers \cup {None}]
    /\ operation \in [Operations -> Outcome \cup {None}]
    /\ applied \in [Operations -> Nat]
    /\ provider \in [Clients -> Keys]
    /\ pc \in [Clients -> Steps]
    /\ req \in [Clients -> Requests \cup {None}]
    /\ view \in [Clients -> [item : {"absent", "active", "archived"}, revisions : Nat] \cup {None}]
    /\ locks \in [Clients -> SUBSET (Rows \X Modes)]
    /\ attempt \in [Clients -> 0..Attempts]

Init ==
    /\ sentinel \in Keys
    /\ wrapped = [s \in Sealed |-> None]
    /\ item = "absent"
    /\ history = <<>>
    /\ authority = [a \in Authorities |-> "absent"]
    /\ certificate = [x \in Certificates |-> "absent"]
    /\ issuer = [x \in Certificates |-> None]
    /\ token = [t \in Tokens |-> IF t \in Writers THEN "active" ELSE "absent"]
    /\ parent = [x \in Certificates |-> None]
    /\ operation = [o \in Operations |-> None]
    /\ applied = [o \in Operations |-> 0]
    /\ provider = [c \in Clients |-> sentinel]
    /\ pc = [c \in Clients |-> "idle"]
    /\ req = [c \in Clients |-> None]
    /\ view = [c \in Clients |-> None]
    /\ locks = [c \in Clients |-> {}]
    /\ attempt = [c \in Clients |-> 0]

-----------------------------------------------------------------------------
(* Transactions.                                                           *)

At(c, step) == pc[c] = step

Family(t) == {t} \cup {x \in Certificates : parent[x] = t}

Issued(a) == {x \in Certificates : issuer[x] = a}

Exclusive(kind, S) == {<<<<kind, i>>, "X">> : i \in S}

(* Mutant: the sentinel is read without a lock.                            *)
KeyLock_None(r) == {}

(* Mutant: creation of an authority shares the lock.                       *)
KeyLock_Shared(r) == {<<<<"sentinel", None>>, IF r.action = "rotate" THEN "X" ELSE "S">>}

(* "The exclusive Sentinel lock also serializes the active-CA limit check."*)
KeyLock(r) ==
    {<<<<"sentinel", None>>, IF r.action \in {"rotate", "createAuthority"} THEN "X" ELSE "S">>}

TokenLock(r) == {<<<<"token", r.token>>, "S">>}

(* Mutant: the authority is read without FOR UPDATE.                       *)
AuthorityLock_None(r) == {}

AuthorityLock(r) == IF r.authority = None THEN {} ELSE Exclusive("authority", {r.authority})

ItemLock == {<<<<"item", None>>, IF item = "absent" THEN "gap" ELSE "X">>}

(* The rows a request writes that it has not locked before.                *)
WriteLocks(r) ==
    CASE r.action \in {"commit", "put_item", "put_field"} /\ item = "absent" -> {<<<<"item", None>>, "insert">>}
      [] r.action \in {"register", "revokeCertificate"} -> Exclusive("certificate", {r.certificate})
      [] r.action = "revokeAuthority" -> Exclusive("certificate", Issued(r.authority))
      [] r.action \in {"revoke", "undeploy"} ->
            Exclusive("token", Family(r.target))
            \cup Exclusive("certificate", Family(r.target) \cap Certificates)
      [] r.action = "destination" -> Exclusive("destination", {None})
      [] r.action = "rotate" -> Exclusive("destination", {None}) \cup Exclusive("authority", Authorities)
      [] OTHER -> {}

(* The locks of a client's next statement.                                 *)
Wanted(c) ==
    CASE At(c, "key") -> KeyLock(req[c])
      [] At(c, "token") -> TokenLock(req[c])
      [] At(c, "operation") -> Exclusive("operation", {req[c].op})
      [] At(c, "item") -> ItemLock
      [] At(c, "authority") -> AuthorityLock(req[c])
      [] At(c, "target") -> Exclusive("token", {req[c].target})
      [] At(c, "write") -> WriteLocks(req[c])
      [] OTHER -> {}

Compatible(m, n) == m = n /\ m \in {"S", "gap"}

Waits(c, d) ==
    /\ c # d
    /\ \E l \in Wanted(c), h \in locks[d] : l[1] = h[1] /\ ~Compatible(l[2], h[2])

Ready(c, step) == At(c, step) /\ \A d \in Clients : ~Waits(c, d)

(* The statement is done: on to the next one.                              *)
Advance(c) ==
    LET plan == Plan[req[c].action] IN
    /\ \E i \in DOMAIN plan : plan[i] = pc[c] /\ pc' = [pc EXCEPT ![c] = plan[i + 1]]
    /\ locks' = [locks EXCEPT ![c] = @ \cup Wanted(c)]
    /\ UNCHANGED <<req, attempt>>

End(c) ==
    /\ pc' = [pc EXCEPT ![c] = "idle"]
    /\ req' = [req EXCEPT ![c] = None]
    /\ view' = [view EXCEPT ![c] = None]
    /\ locks' = [locks EXCEPT ![c] = {}]
    /\ attempt' = [attempt EXCEPT ![c] = 0]

(* Record the outcome and commit.                                          *)
Conclude(c, outcome) ==
    LET o == req[c].op IN
    /\ operation' = [operation EXCEPT ![o] = outcome]
    /\ applied' = [applied EXCEPT ![o] = IF outcome = "success" THEN @ + 1 ELSE @]
    /\ End(c)

Decline(c, outcome) ==
    Conclude(c, outcome) /\ UNCHANGED <<vaultVars, credentialVars, keyVars, provider>>

(* Roll back, and answer with an error that is not kept.                   *)
Fail(c) == End(c) /\ UNCHANGED <<vaultVars, credentialVars, keyVars, ledgerVars, provider>>

Taken == {o \in Operations : operation[o] # None}
         \cup {req[c].op : c \in {d \in Clients : ~At(d, "idle")}}

(* What a request refers to has been made before it: the authority that    *)
(* signs or has signed, the certificate or token to revoke.                *)
Begin(c, r) ==
    /\ At(c, "idle")
    /\ r.authority # None /\ r.action # "createAuthority" => authority[r.authority] # "absent"
    /\ r.target # None => token[r.target] # "absent"
    /\ Cardinality((Taken \cup {r.op}) \ {None}) <= MaxOperations
    /\ req' = [req EXCEPT ![c] = r]
    /\ pc' = [pc EXCEPT ![c] = Head(Plan[r.action])]
    /\ attempt' = [attempt EXCEPT ![c] = 1]
    /\ UNCHANGED <<vaultVars, credentialVars, keyVars, ledgerVars, provider, view, locks>>

(* The sentinel opens with this process's key, and not with a new one.     *)
LockMasterKey(c) ==
    /\ Ready(c, "key")
    /\ IF provider[c] = sentinel /\ (req[c].action = "rotate" => req[c].key # sentinel)
       THEN Advance(c) /\ UNCHANGED view ELSE End(c)
    /\ UNCHANGED <<vaultVars, credentialVars, keyVars, ledgerVars, provider>>

AuthorizeScopedWrite(c) ==
    LET r == req[c] IN
    /\ Ready(c, "token")
    /\ IF token[r.token] = "active" /\ r.environment \in Granted[r.token]
       THEN /\ Advance(c)
            /\ view' = [view EXCEPT ![c] = [item |-> item, revisions |-> Len(history)]]
       ELSE End(c)
    /\ UNCHANGED <<vaultVars, credentialVars, keyVars, ledgerVars, provider>>

(* An id that is taken is answered from its row, or refused.               *)
BeginOperation(c) ==
    /\ Ready(c, "operation")
    /\ IF operation[req[c].op] = None THEN Advance(c) /\ UNCHANGED view ELSE End(c)
    /\ UNCHANGED <<vaultVars, credentialVars, keyVars, ledgerVars, provider>>

LockItem(c) ==
    /\ Ready(c, "item")
    /\ Advance(c)
    /\ UNCHANGED <<vaultVars, credentialVars, keyVars, ledgerVars, provider, view>>

Deadlocked(S) == S # {} /\ \A c \in S : \E d \in S : Waits(c, d)

(* Mutant: the operation is not begun again.                               *)
Restart_AfterOperation(c) == IF req[c].action = "deploy" THEN "authority" ELSE "item"

(* "The mutation can run again from the start."                            *)
Restart(c) == Head(Plan[req[c].action])

Retried == VaultWrite \cup {"deploy"}

LastAttempt(c) == attempt[c] = Attempts

(* InnoDB rolls back one of the transactions that wait for each other.     *)
RetryDeadlock(c) ==
    /\ \E S \in SUBSET Clients :
          /\ c \in S
          /\ Deadlocked(S)
          /\ \A T \in SUBSET S : T # S => ~Deadlocked(T)
    /\ IF req[c].action \in Retried /\ ~LastAttempt(c)
       THEN /\ pc' = [pc EXCEPT ![c] = Restart(c)]
            /\ attempt' = [attempt EXCEPT ![c] = @ + 1]
            /\ view' = [view EXCEPT ![c] = None]
            /\ locks' = [locks EXCEPT ![c] = {}]
            /\ UNCHANGED req
       ELSE End(c)
    /\ UNCHANGED <<vaultVars, credentialVars, keyVars, ledgerVars, provider>>

(* A statement fails, the caller goes away, or the process stops.          *)
Abort(c) == ~At(c, "idle") /\ Fail(c)

(* A process only starts with the key that opens the sentinel.             *)
OpenStore(c) ==
    /\ At(c, "idle")
    /\ provider' = [provider EXCEPT ![c] = sentinel]
    /\ UNCHANGED <<vaultVars, credentialVars, keyVars, ledgerVars, clientVars>>

-----------------------------------------------------------------------------
(* Vault items.                                                            *)

Unbound == [e \in Environments |-> None]

Current == IF history = <<>> THEN Unbound ELSE history[Len(history)]

Bound(s) == {e \in Environments : s[e] # None}

Given(b) == {f \in Fields : b[f] # None}

FieldsOf(s) == UNION {Given(s[e]) : e \in Bound(s)}

(* The item's lock shows the current revision, which may be younger than   *)
(* the view.                                                               *)
Shown(c) == view[c] # None => Len(history) <= view[c].revisions

(* Mutant: the item is read as it is now.                                  *)
Readable_Latest(c) == TRUE

(* readVaultItem finds the item and its current revision in the view.      *)
Readable(c) ==
    item # "absent" => Shown(c) /\ (view[c] # None => view[c].item = "active")

(* "Zero creates a missing Environment Variant." A revision that is not in *)
(* the view has no bindings there, either.                                 *)
Creates(c) ==
    /\ req[c].action \in {"put_item", "put_field"}
    /\ req[c].expected = 0
    /\ item = "active"
    /\ Shown(c) => Current[req[c].environment] = None

ExpectedRevision(c) == req[c].expected = Len(history) \/ Creates(c)

RefuseVault(c) ==
    /\ Ready(c, "write")
    /\ req[c].action \in VaultWrite
    /\ \/ item = "archived" /\ Decline(c, "validation_failed")
       \/ item # "archived" /\ ~ExpectedRevision(c) /\ Decline(c, "conflict")

Proceeds(c) ==
    /\ Ready(c, "write")
    /\ req[c].action \in VaultWrite
    /\ item # "archived"
    /\ ExpectedRevision(c)

(* The values the request leaves its environment with.                     *)
NewBundle(r) ==
    LET old == Current[r.environment] IN
    CASE r.action = "put_item" -> r.content
      [] r.action = "put_field" ->
            [f \in Fields |-> IF r.content[f] # None THEN r.content[f]
                              ELSE IF old = None THEN None ELSE old[f]]
      [] r.action = "delete_field" ->
            [f \in Fields |-> IF r.content[f] # None THEN None ELSE old[f]]

NewFields(r) ==
    CASE r.action = "put_item" -> Given(r.content)
      [] r.action = "put_field" -> FieldsOf(Current) \cup Given(r.content)
      [] r.action = "delete_field" -> FieldsOf(Current) \ Given(r.content)

(* "Merge only the requested Environment's values": fields that go, go     *)
(* everywhere, and fields that come are given to every environment.        *)
Merged(r) ==
    [e \in Environments |->
        IF e = r.environment THEN NewBundle(r)
        ELSE IF Current[e] = None THEN None
        ELSE [f \in Fields |-> IF f \notin NewFields(r) THEN None
                               ELSE IF Current[e][f] # None THEN Current[e][f]
                               ELSE NewBundle(r)[f]]]

NewSnapshot(r) == IF r.action = "commit" THEN r.content ELSE Merged(r)

(* Every environment has all fields, and there is a field.                 *)
Valid(s) == FieldsOf(s) # {} /\ \A e \in Bound(s) : Given(s[e]) = FieldsOf(s)

(* Mutant: only the request's environment is looked at.                    *)
AllBindingsGranted_Own(r) == r.environment \in Granted[r.token]

AllBindingsGranted(r) == Bound(Current) \subseteq Granted[r.token]

(* prepareScopedVault goes on. Otherwise nothing is recorded.              *)
Permitted(c) ==
    LET r == req[c] IN
    r.action \in Scoped =>
        /\ Readable(c)
        /\ r.action \in {"delete_field", "delete_item"} => Current[r.environment] # None
        /\ r.action # "delete_item" => NewFields(r) # {}
        /\ \/ history = <<>>
           \/ r.action # "delete_item" /\ NewFields(r) = FieldsOf(Current)
           \/ AllBindingsGranted(r)

ForbidVault(c) == Proceeds(c) /\ ~Permitted(c) /\ Fail(c)

CommitVault(c) ==
    LET r == req[c]
        s == NewSnapshot(r)
        n == Len(history) + 1 IN
    /\ Proceeds(c)
    /\ Permitted(c)
    /\ r.action # "delete_item"
    /\ \/ ~Valid(s) /\ Decline(c, "validation_failed")
       \/ Valid(s) /\ s = Current /\ Decline(c, "no_change")
       \/ /\ Valid(s) /\ s # Current
          /\ item' = "active"
          /\ history' = Append(history, s)
          /\ wrapped' = [wrapped EXCEPT ![<<"revision", n>>] = provider[c]]
          /\ Conclude(c, "success")
          /\ UNCHANGED <<sentinel, credentialVars, provider>>

DeleteItem(c) ==
    /\ Proceeds(c)
    /\ Permitted(c)
    /\ req[c].action = "delete_item"
    /\ item' = "archived"
    /\ Conclude(c, "success")
    /\ UNCHANGED <<history, credentialVars, keyVars, provider>>

ApplyVaultLifecycleChange(c) ==
    LET state == IF req[c].action = "archive" THEN "archived" ELSE "active" IN
    /\ Ready(c, "write")
    /\ req[c].action \in {"archive", "unarchive"}
    /\ \/ item = "absent" /\ Decline(c, "validation_failed")
       \/ item = state /\ Decline(c, "no_change")
       \/ /\ item \notin {"absent", state}
          /\ item' = state
          /\ Conclude(c, "success")
          /\ UNCHANGED <<history, credentialVars, keyVars, provider>>

-----------------------------------------------------------------------------
(* Authorities, certificates and tokens.                                   *)

AtLimit == Cardinality({a \in Authorities : authority[a] = "active"}) >= Limit

CountAuthorities(c) ==
    /\ Ready(c, "count")
    /\ \/ AtLimit /\ Decline(c, "validation_failed")
       \/ /\ ~AtLimit /\ Advance(c)
          /\ UNCHANGED <<vaultVars, credentialVars, keyVars, ledgerVars, provider, view>>

(* What is made in a request is new: its id is drawn, its key generated.   *)
CreateAuthority(c) ==
    LET a == req[c].authority IN
    /\ Ready(c, "write")
    /\ req[c].action = "createAuthority"
    /\ authority[a] = "absent"
    /\ authority' = [authority EXCEPT ![a] = "active"]
    /\ wrapped' = [wrapped EXCEPT ![<<"authority", a>>] = provider[c]]
    /\ Conclude(c, "success")
    /\ UNCHANGED <<sentinel, vaultVars, certificate, issuer, token, parent, provider>>

Usable(r) ==
    r.authority # None /\ r.action # "revokeAuthority" => authority[r.authority] = "active"

(* A certificate that no managed authority has signed locks none.          *)
LockAuthority(c) ==
    /\ Ready(c, "authority")
    /\ \/ /\ Usable(req[c]) /\ Advance(c)
          /\ UNCHANGED <<vaultVars, credentialVars, keyVars, ledgerVars, provider, view>>
       \/ ~Usable(req[c]) /\ req[c].action # "deploy" /\ Decline(c, "validation_failed")
       \/ ~Usable(req[c]) /\ req[c].action = "deploy" /\ Fail(c)

Certify(x, a) ==
    /\ certificate[x] = "absent"
    /\ certificate' = [certificate EXCEPT ![x] = "active"]
    /\ issuer' = [issuer EXCEPT ![x] = a]

IssueClientCertificate(c) ==
    /\ Ready(c, "write")
    /\ req[c].action = "issue"
    /\ Certify(req[c].certificate, req[c].authority)
    /\ Conclude(c, "success")
    /\ UNCHANGED <<vaultVars, authority, token, parent, keyVars, provider>>

(* A deployment gets a token of the writer's, bound to the certificate.    *)
IssueDeploymentCredential(c) ==
    LET x == req[c].certificate IN
    /\ Ready(c, "write")
    /\ req[c].action = "deploy"
    /\ Certify(x, req[c].authority)
    /\ token' = [token EXCEPT ![x] = "active"]
    /\ parent' = [parent EXCEPT ![x] = req[c].token]
    /\ Conclude(c, "success")
    /\ UNCHANGED <<vaultVars, authority, keyVars, provider>>

(* "revoked Client Certificate cannot be restored"                         *)
RegisterCertificate(c) ==
    LET x == req[c].certificate IN
    /\ Ready(c, "write")
    /\ req[c].action = "register"
    /\ \/ certificate[x] = "revoked" /\ Decline(c, "validation_failed")
       \/ certificate[x] = "active" /\ Decline(c, "no_change")
       \/ /\ Certify(x, req[c].authority)
          /\ Conclude(c, "success")
          /\ UNCHANGED <<vaultVars, authority, token, parent, keyVars, provider>>

RevokeClientCertificate(c) ==
    LET x == req[c].certificate IN
    /\ Ready(c, "write")
    /\ req[c].action = "revokeCertificate"
    /\ \/ certificate[x] = "absent" /\ Decline(c, "validation_failed")
       \/ certificate[x] = "revoked" /\ Decline(c, "no_change")
       \/ /\ certificate[x] = "active"
          /\ certificate' = [certificate EXCEPT ![x] = "revoked"]
          /\ Conclude(c, "success")
          /\ UNCHANGED <<vaultVars, authority, issuer, token, parent, keyVars, provider>>

Revoke(status, S) == [x \in DOMAIN status |-> IF x \in S THEN "revoked" ELSE status[x]]

RevokeCertificateAuthority(c) ==
    LET a == req[c].authority IN
    /\ Ready(c, "write")
    /\ req[c].action = "revokeAuthority"
    /\ \/ authority[a] = "revoked" /\ Decline(c, "no_change")
       \/ /\ authority[a] = "active"
          /\ authority' = Revoke(authority, {a})
          /\ certificate' = Revoke(certificate, Issued(a))
          /\ Conclude(c, "success")
          /\ UNCHANGED <<vaultVars, issuer, token, parent, keyVars, provider>>

(* A writer may revoke the deployments it has issued, an operator any      *)
(* token.                                                                  *)
LockTarget(c) ==
    LET r == req[c] IN
    /\ Ready(c, "target")
    /\ IF r.action = "undeploy" => r.target \in Family(r.token) \ {r.token}
       THEN Advance(c) /\ UNCHANGED view ELSE End(c)
    /\ UNCHANGED <<vaultVars, credentialVars, keyVars, ledgerVars, provider>>

RevokeToken(c) ==
    LET t == req[c].target IN
    /\ Ready(c, "write")
    /\ req[c].action \in {"revoke", "undeploy"}
    /\ \/ token[t] = "revoked" /\ Decline(c, "no_change")
       \/ /\ token[t] = "active"
          /\ token' = Revoke(token, Family(t))
          /\ certificate' = Revoke(certificate, Family(t))
          /\ Conclude(c, "success")
          /\ UNCHANGED <<vaultVars, authority, issuer, parent, keyVars, provider>>

-----------------------------------------------------------------------------
(* The master key.                                                         *)

CommitNotificationDestination(c) ==
    /\ Ready(c, "write")
    /\ req[c].action = "destination"
    /\ wrapped' = [wrapped EXCEPT ![<<"destination", None>>] = provider[c]]
    /\ Conclude(c, "success")
    /\ UNCHANGED <<sentinel, vaultVars, credentialVars, provider>>

(* Every row of the three tables is gone through. The process that rotates *)
(* keeps the old key; it is opened again with the new one.                 *)
RotateMasterKey(c) ==
    LET key == req[c].key IN
    /\ Ready(c, "write")
    /\ req[c].action = "rotate"
    /\ wrapped' = [s \in Sealed |-> IF wrapped[s] # None THEN key ELSE None]
    /\ sentinel' = key
    /\ End(c)
    /\ UNCHANGED <<vaultVars, credentialVars, ledgerVars, provider>>

-----------------------------------------------------------------------------
Next ==
    \E c \in Clients :
        \/ \E r \in Requests : Begin(c, r)
        \/ LockMasterKey(c)
        \/ AuthorizeScopedWrite(c)
        \/ BeginOperation(c)
        \/ LockItem(c)
        \/ RefuseVault(c)
        \/ ForbidVault(c)
        \/ CommitVault(c)
        \/ DeleteItem(c)
        \/ ApplyVaultLifecycleChange(c)
        \/ CountAuthorities(c)
        \/ CreateAuthority(c)
        \/ LockAuthority(c)
        \/ IssueClientCertificate(c)
        \/ IssueDeploymentCredential(c)
        \/ RegisterCertificate(c)
        \/ RevokeClientCertificate(c)
        \/ RevokeCertificateAuthority(c)
        \/ LockTarget(c)
        \/ RevokeToken(c)
        \/ CommitNotificationDestination(c)
        \/ RotateMasterKey(c)
        \/ RetryDeadlock(c)
        \/ Abort(c)
        \/ OpenStore(c)

Spec == Init /\ [][Next]_vars

-----------------------------------------------------------------------------
(* Every stored secret opens with the master key that opens the sentinel,  *)
(* whichever processes still hold an older one and whatever they were      *)
(* writing when the key was changed: a record sealed with a key that has   *)
(* been replaced would be lost (RotateMasterKey, lockMasterKey).           *)
SealedUnderSentinel == \A s \in Sealed : wrapped[s] \in {None, sentinel}

(* Revocation reaches what is being made. No certificate of a revoked      *)
(* authority is accepted, not even one that was being issued or imported   *)
(* meanwhile ("so import cannot bypass subsequent Authority revocation"),  *)
(* and a revoked writer leaves no deployment behind ("also revokes its     *)
(* children and their certificates atomically").                           *)
RevocationIsComplete ==
    /\ \A a \in Authorities : authority[a] = "revoked" =>
          \A x \in Issued(a) : certificate[x] # "active"
    /\ \A x \in Certificates, t \in Tokens :
          t \in {x, parent[x]} /\ token[t] = "revoked"
              => token[x] # "active" /\ certificate[x] # "active"

(* There are never more active authorities than the limit, however many    *)
(* are created at once (CreateCertificateAuthority).                       *)
AuthoritiesBounded == Cardinality({a \in Authorities : authority[a] = "active"}) <= Limit

(* A deadlock victim that runs again applies its operation once, whoever   *)
(* has repeated the request meanwhile: "without applying anything twice".  *)
AppliedOnce == \A o \in Operations : applied[o] <= 1

Commits(c) == At(c, "write") /\ pc'[c] = "idle" /\ history' # history

(* A request with a token leaves the values alone of every environment     *)
(* that the token is not granted, those present and those still to come    *)
(* (prepareScopedVault, allVaultBindingsGranted).                          *)
UngrantedValuesKept ==
    [][\A c \in Clients : Commits(c) /\ req[c].action \in Scoped =>
          \A e \in Environments \ Granted[req[c].token] : Current'[e] = Current[e]]_vars

(* A request that expects revision 0 only creates: it never writes over    *)
(* the values of its environment, although its read view may be older than *)
(* the item it has locked (commitVault, creatingVariant).                  *)
ZeroOnlyCreates ==
    [][\A c \in Clients : Commits(c) /\ req[c].action \in Scoped
                          /\ req[c].expected = 0
          => Current[req[c].environment] = None]_vars

=============================================================================
