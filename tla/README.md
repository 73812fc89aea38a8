# Configra: formal models, checks and proofs

Configra (Go, `src/`) is a configuration and secret manager. A management API
lets operators commit configs and vaults per environment, cut release sets and
manage access; a machine API serves them to workloads; a log worker delivers
audit records to ClickHouse and notifications to webhooks; a Kubernetes
controller projects values into objects of a cluster. MySQL is the only
durable shared state between the processes, and nearly every guarantee is a
matter of what its transactions lock, read and write, and in which order.

This directory holds TLA+ modules of that behaviour, TLC configurations that
check them on small instances, and TLAPS proofs for every value of the
constants.

## 1. Inventory

| Component | State it keeps | Operations | What is hard | What makes it correct |
|---|---|---|---|---|
| Outbox (`mysqlstore/outbox.go`, `schema.go`) | rows of `outbox_events`: status, due time, claim time | insert with a mutation, claim oldest, complete, retry, give up | leases by two clocks; any caller may settle a claimed row | nothing lost, nothing settled twice |
| Notification worker (`logworker/notification.go`, `mysqlstore/notification_delivery.go`) | targets, attempt counts, delivery log | claim event, claim target, send, record, progress, complete/retry | a dozen store calls per cycle with crashes and another replica between any two | an event is completed only when each target is settled; each attempt once in the log; the lease excludes |
| Notification sender (`notification/sender.go`) | none | one bounded HTTP request, classification | the receiver may have taken a request whose answer is lost | final outcomes only for final answers |
| Notification destinations (`notification_destination.go`, `notification_action.go`) | subscription, enabled/archived, sealed credentials | commit, archive, test, redeliver | targets are fixed when the event is | no target for an inactive destination |
| Config store (`config_mutation.go`, `config_transfer.go`, `config_lifecycle.go`) | operations by id, configs, revisions, current revision | commit, merge, replace, restore, clone, archive, unarchive | concurrent writers, retries beside the first try, REPEATABLE READ views next to locking reads, gap-lock deadlocks | compare-and-set by revision, one result per operation id, revisions immutable |
| Environments (`environment_mutation.go`) | existence, archive mark | create, rename, archive, unarchive | read without a lock by writers | archived means frozen |
| Scoped write tokens (`scoped.go`, `token_mutation.go`) | tokens, scopes, revocation | create, revoke, authorize inside a write | revocation beside a write | no write after revocation |
| Config documents (`configdoc`) | none | canonicalise, merge, resolve | algorithmic | merge keeps what it should |
| Audit delivery (`logworker/audit.go`, `audit_recovery.go`, `logstore/clickhouse.go`) | outbox rows, ClickHouse table | claim batch, decode, append, settle; recovery scan after an upgrade | append of unknown outcome, replicas of two versions, restores that drop the table | completed implies appended; recoverable events do not stay dead |
| Outbox maintenance (`prune.go`, `app/prune.go`) | archive files, pruned rows | prune, redeliver | a file and a transaction that cannot commit together | deleted implies archived |
| Release sets (`release.go`, `machine/release*.go`) | immutable releases, stream generation | prepare, activate, read | snapshot reads next to a locked stream row | one active release per generation |
| Credentials (`deployment_credential.go`, `authority.go`, `clientcert`) | authorities, certificates, tokens | issue, rotate, revoke | issue beside rotation | a credential in use is traceable and revocable |
| Vault store (`vault_mutation.go`, `vaultdoc`) | sealed vault revisions | commit, reveal, archive | as configs, under the master key | sealed under the current key |
| Master key rotation (`key_rotation.go`) | key sentinel, wrapped keys | rotate | three tables beside running writers; commit of unknown outcome | everything stored opens with the current key |
| Schema bootstrap (`bootstrap.go`) | schema version, tables | initialise or verify, migrate | DDL is not transactional | a version implies its tables |
| Machine reads (`machine.go`, `machine_statements.go`, `internal/machine`) | prepared statements shared by all requests, the connection pool | authenticate, read a config, a file or a release, answer or say "not modified" | some eight statements per answer beside writers; statements prepared by two requests at once; a pool everybody needs twice | an answer is of one moment; revocation is seen; nobody waits for ever |
| Human sessions (`internal/humanauth`, `mysqlstore/session.go`, `session_policy.go`) | session rows, generations and blocks per subject and provider session | sign in, check a request, sign out, invalidate, block, unblock, logout notices | each request writes its own copy of the session back; policies are read in two statements and change beside a sign-in; notices come twice | no revoked session is served; a sign-in is later than the last revocation |
| Write admission (`management/limits.go`) | token buckets by token | admit | a bounded map | bounded |
| Management API, CLI, metrics, web | none | decode, dispatch | nothing interleaves in them | — |
| Access events (`accessnats`) | none | publish, consume | may drop by design | none promised |
| Kubernetes controller (`kubernetes/internal/binding`) | status of the binding, target objects | reconcile | several objects without a transaction, an old leader still at work, caches that lag, users of the same objects | only own objects change, content never goes back, the latest spec wins |
| Secrets-store provider (`kubernetes/internal/provider`) | none | mount | stateless | — |

Interactions: every successful mutation writes its result, an audit event and
one event per class of notification in its own transaction; the log worker
consumes both kinds from the outbox; destination changes decide the targets of
later events; archival and revocation change what a running commit may do;
rotation excludes all writers of sealed data by the key sentinel row.

`PROJECT.json` lists the components with their status and, under `hazards`,
what in each is hard to test, at its line.

## 2. Plan

In this order, most important first; (done) marks what this directory has.

1. `Outbox`, `NotificationDelivery` (done; proved), with the abstract
   `NotificationPromise` it implements (proved).
2. `ConfigStore` (done; proved), with the abstract `ConfigHistory` it implements
   (proved).
3. `AuditDelivery`, over `Outbox` (done; proved): batches, appends of unknown outcome,
   recovery of rejected events after an upgrade, restores.
4. `OutboxRetention` (done; proved): archive file and deleting transaction,
   beside redelivery.
5. `ReleaseStream` (done; proved): immutable releases and generations.
6. `SecretStore` (done; proved): vault items, authorities, certificates and
   tokens under a master key that changes.
7. `MachineRead` (done; proved): answers of one moment, shared statements, the
   pool.
8. `KubernetesBinding` (done; proved): reconciliation by leaders that overlap.
9. `HumanSession` (done; proved): sign-ins and checks beside changes of policies.
10. Pure algorithms: document merge, path validation.

Theorems worth proving next: of `SecretStore` that a replay answers what was
recorded, of `ReleaseStream` and `OutboxRetention` abstract specifications as
the first two modules have, and of `KubernetesBinding` the safety part of
settling, that a status of the latest generation speaks of the latest spec.

## 3. Modules

### Outbox and NotificationDelivery

`Outbox` is the table `outbox_events` as its consumers use it; each operator
is one statement of `outbox.go`. Points in time are kept as the time left
until them. `Skew` is how far a consumer's clock may run ahead of MySQL's,
since `claimed_at` is set by the database and the lease cut-off by the
consumer.

`NotificationDelivery` is the worker: every store call is one transaction and
one action (`ClaimEvent`, `ClaimNotificationTarget`,
`RecordNotificationDelivery`, `NotificationProgress`, `Settle`), the HTTP
request is `Send`, and the worker's local variables between them are `job`,
`request` and `next`. `left[w]` is what remains of the 45 s context plus the
3 s of the detached recording context. `Abandon` is a crash, or an error of a
call whether or not it took effect, at any step. Events come from mutations
(`Publish`), operator tests and redeliveries, and destinations change
meanwhile. Payloads are abstracted to whether `DecodeEvent` accepts them,
receivers to whether they took the request (`accepted`).

`NotificationPromise` is what delivery promises without workers, leases or
time. `KeepsPromise` is the refinement: a row is open from insert until it is
completed or dead.

### AuditDelivery

The other consumer of the outbox, with the same rows and leases. A replica has
its loop (`run.go`) in `pc`: ping ClickHouse and make the schema, recover, claim
a batch, append it in one request, settle its events one by one. What the
replica knows between the steps is `batch`; `tables` says whether ClickHouse has
the log tables, and `logged` is every event that was ever stored, since a
restore may drop what was there. Decoders of both versions run side by side:
`Accepts(v, f)` says whether version `v` accepts a payload of format `f`, so a
row one replica marks dead is one another could deliver. Recovery goes through
the dead rows a page at a time by their id, which is random and not in the order
of creation (`Id`).

An append has three ends: stored and acknowledged, stored and not
acknowledged, not stored. `SKIP LOCKED` makes a claim one statement over rows
nobody else holds, so it is one action. Attempts are abstracted to the backoff
`delay` they produce; the error code a dead row carries is merged with its
status. `MaxFaults` bounds restarts and restores.

### ConfigStore

A request is a sequence of statements of one transaction (`authorize`,
`operation`, `environment`, `config`, `insert`, `current`, `commit`), for
transfers preceded by three reads outside it (`replay`, `source`, `target`).
`locks` are the InnoDB row and gap locks by name; `view` is the REPEATABLE READ
view, opened by the first plain SELECT; locking reads see the latest rows. The
writes of a transaction become visible in one action, `Commit`. Short
transactions that only make locking reads (archive, unarchive, environment
changes, token revocation) are one action each. The document merge is the
constant function `Merged` of two documents; documents are values, revisions
numbers.

`ConfigHistory` is the promise: each operation id is decided once and in one
step, with its expected revision right at that step.

Left out: request digests of older versions; rename, which only changes a
display name; gap locks other than on the key itself; the `config_env_states`
row lock, which the row lock of its config subsumes; the shared locks of
foreign keys, taken inside the atomic `Commit`. Config commits are not run
again after a deadlock (`deadlock.go` is used by vaults and credentials only),
so `Deadlock` ends the request.

### OutboxRetention

A run of `prune` is a file protocol around one transaction: lock the operation
row, select and lock the completed rows before the cutoff (`SelectBatch`), write
a temporary file and sync it, link it under its name, sync the directory,
delete the rows with the operation's receipt, commit. The directory entry is a
state apart from the file: a power loss takes back a link whose directory was
not synced, together with every run, while a process that dies leaves the link
and rolls back its transaction. Completed rows do not change any more, so an
archive's bytes are represented by the set of events in it and a found archive
is compared by that set. A receipt (`replies`) may be lost although the
transaction committed, and the run is repeated with the same operation id.
Beside all of this redeliveries queue a payload once more as an event of its
own, locking the delivery before the event. The preview command only reads and
is left out; the audit event of a run is one more event `PublishEvent` may add.
Names that `Outbox` and `AuditDelivery` use as well are distinct here (`Rows`,
`stage`, `RetentionInit`, `CompleteEvent`), so that `OutboxProofs` can extend both.

### ReleaseStream

Preparing and activating a release are requests of some statements each over
two kinds of reads: plain ones in the transaction's view (`view[c]`, taken by
its first plain SELECT), and locking ones on the stream's row, the release key
and the operation key, which see what is committed. A request's writes are one
step, taken when it has its last row lock. Drafts move and archive meanwhile;
the ghost `moments` remembers which revisions of config and item were current
together. `archived` merges the marks of environment, config and item,
which the source tests one after the other and answers alike. Reading a release
is one view; it changes nothing and cannot see two states.

A prepare beside another with the same key and the same spec, but a vault
revision that has moved between the two, is answered Conflict although neither
request changed anything the caller named; the code's comments promise nothing
else for it.

### SecretStore

Everything MySQL holds sealed (revisions of a vault item, keys of authorities,
credentials of destinations) is written by requests that first lock the
sentinel row of the master key, shared, and check that their process has the
key; the rotation locks it exclusively. `Plan` lists the statements of every
kind of request, `pc` is the next one of each client, `locks` the rows and gaps
it holds, and `view` what its read view shows of the item. The writes become
visible in one step, the last. A wrapped data key is abstracted to the master
key that opens it (`wrapped`), `provider` is the key each process has in
memory; processes are opened again at any time, and only with the current key.

A snapshot of the item is a function from environments to values; which of
them share a variant is left out, since the split of a shared variant leaves the
same function. A scoped token's commit is merged with the values there are
(`Merged`), and goes through only if its view shows the item as the lock does
(`Readable`). For a token the view opens at its authorization, before the item
is locked. So a request with `expected_revision: 0` that is overtaken by another
commit of the item is answered "not found", although
`docs/scoped-write-tokens.md` has it create the variant; nothing is recorded
and the same request works when it is sent again.

A deadlock rolls one transaction back, which the code runs again from the start
up to `Attempts` times for commits and deployments. `Abort` stands for a failed
statement, a caller that has gone and a process that stops.

Left out: archived environments (the race is the one of `ConfigStore`), restores
of a vault revision (an earlier read and a commit), changes of a token's
grants, expiry by time, display names, field types, and waits of a statement
for its second row while it holds the first. The rotation first verifies every
record with the old key; by `SealedUnderSentinel` that never fails.

### MachineRead

A request of a workload is a sequence of statements: the token, the
certificate, then in one `REPEATABLE READ` transaction the rows that make up the
answer. `pc` is the next statement, `view` what the transaction sees since its
first SELECT, `held` what the caller has kept and asks about by ETag. The
database `db` changes between any two statements: commits of configs and items,
archival, activation of a release, revocation. The ghost `moments` collects
what one read in one piece (`FullRead`) would have returned at each moment of
the request; `AnswersAreOneMoment` says the caller is left with one of these,
whether it was sent content or told "not modified".

Statements are prepared once and shared. `cache` is the table behind a mutex
that is given up for the I/O; `open` is what is not closed, by who
prepared it; `closing` is what `close` has taken out and not closed yet.
Authentication uses the shared statements themselves and fails when they are
closed (`Usable`); a transaction keeps those it is bound to, or prepares them
again on its own connection (`database/sql`'s `StmtContext`), and goes on. A
transaction holds a connection of the pool (`Holding`), other statements need
one for a moment; waiting requests are served at random by `database/sql`, so
none is passed over for ever. The reads of a release use no prepared statements.

A hash is abstracted to what goes into it, so different inputs have different
ETags. Keys, texts, encryption, the access event, the identity endpoint and
releases asked for by key are left out. `TokenValid` stands for the digest, the
revocation and the expiry together. An item has one field, and the reads of types
and values of several items are one step: within one view their order makes no
difference.

### KubernetesBinding

One binding, its possible targets, and the controllers that have led one after
another: a controller that lost the lease may still be in a call. Each call of
`Reconcile` to the API server and to Configra is an action, in the source's
order: read the binding, the target, fetch, check the binding once more, write
the target, find and delete the previous one, set the status. The API server's
optimistic locking is `fresh`, the pairs of a controller and an object whose
last read is of the current version: a write by anyone takes them away, and an
update or a deletion with preconditions needs one. A missing target is created,
which fails if there is one by now. Targets are read from caches that may lag
(`cached`, `lagging`); the binding is read uncached, since the client's cache
does not serve unstructured objects by default.

Users change, delete and create the binding, take over or delete targets, and
Configra answers with newer content (`upstream`), up to `MaxChanges` such steps,
failing calls and stops of a process included. `CallFails` also stands for a
write whose answer is lost, as it may come right after it. Garbage collection
removes what deleted bindings owned. The data of a target is known by the
generation that asked for it and the version it was fetched at; the mapping of
objects to keys, size limits and sensitive values in ConfigMaps are reasons to
fail.

### HumanSession

Requests of browsers at the management server and changes of session policies.
A request loads its session into a copy (`data`), which the session library
writes back (`Save`) when the response begins, perhaps after another request of
the same session was refused and its row deleted. A session carries the
generations its subject and its provider session had when the sign-in read them
(`stamp`); `known` remembers for the properties how many changes had been made
then. `SessionPolicy` reads the two rows in two statements
(`ReadSubjectPolicy`, then `AdmitSignIn` or `AcceptSession`).

A change is a transaction: its operation row excludes the same operation id, and
its `INSERT .. ON DUPLICATE KEY UPDATE` takes `UTC_TIMESTAMP`, when it begins and
before it waits for the policy's row. `BeginOperation` is both, as nobody can tell
a change that has only its operation row from one that has not begun;
`CommitChange` is the rest, in the order in which the row's lock is got. So
`stamp` and the order of commits may disagree. `log` lists the changes as they
are audited. An ID token is issued at a whole second of the provider's clock,
`Second` units of time long, and the two clocks agree.

The verification of tokens, roles, and the state, nonce and verifier of a
sign-in are left out (a callback is accepted or not); a session made without a
session authority, which has an empty stamp, is not modelled.

## 4. Runs

| Run | Bounds | Shows |
|---|---|---|
| `notification_lease` | 2 events, 2 replicas, 1 destination, 2 attempts, 2 rounds per cycle, lease 4 = budget 1 + grace 1 + skew 1 + 1; the second replica and changes of the destination only with one event (`QueueSpec`) | leases exclude, refinement of the promise, and every event settles although any step may be interrupted, also behind an older one that is retried, abandoned or damaged |
| `notification_skew` | 2 events, 1 destination, 2 replicas, lease 2, so leases overlap | the books agree even when two replicas work on one event |
| `config_requests` | 2 configs, 2 clients, one of three mixes (`MCWorkloads`): 7 requests for one config with archival and revocation, 8 while its environment is created, archived and unarchived, or 6 with the transfers to a clone and back | operation ids, frozen archives, revocation, transfers write what their source says, refinement of the history, and that no request waits for ever |
| `config_moved_revision` | 2 clients, two first revisions | finding: an internal error where a conflict is documented |
| `audit_replicas` | 2 events, 2 replicas of 2 versions, batches of 2, recovery pages of 1, one fault | completed means logged, recovery finds every recoverable event, recovery puts nothing back that was delivered |
| `audit_liveness` | 2 events, 1 replica, batches and recovery pages of 1, two faults | every event is logged in the end, damaged rows do not hide those behind them |
| `retention_runs` | 2 clients, 4 runs under 3 operation ids, 2 archives, 2 events, redeliveries, power loss | deleted implies durably archived, one receipt per operation |
| `release_streams` | 2 clients, 8 requests under 6 ids, 2 release keys, 2 revisions of config and item | a release pins one moment; one switch per generation |
| `secret_requests` | 2 clients, 2 keys, any 3 of 24 operations, 2 environments of which a token is granted one, 2 authorities of which 1 may be active | nothing is stored under an old key, revocation reaches what is being issued, scoped writes stay in their scope |
| `machine_reads` | 1 config, 2 items, 2 tokens, 1 certificate; 1 client with 2 or 3 changes of the database for each kind of read, or 2 clients with a pool of 1 connection | answers of one moment, revocation seen, no statement left open, nobody waits for ever |
| `kubernetes_bindings` | 2 targets, 2 leaders, 2 changes by users, Configra or failures | content never goes back, others' objects are left, status and target settle on the latest |
| `human_sessions` | 1 subject with 1 provider session, 2 requests, 2 cookies, 2 changes in all, of block, unblock and a logout notice, at most 2 units of time, whole seconds of 1 unit | revoked sessions are not served, sign-ins are fresh, a notice made twice ends a session once |

Two replicas and two clients are enough for every pairwise race, since no step
looks at more than one other holder of a row; two attempts per target have a
first and a last one; times of one or two units distinguish before, at and
after a deadline. Three operations are what the longest story of `secret_requests` needs: create
an authority, issue from it and revoke it meanwhile, or make an item and let two
requests race for it. `NotificationSkew` deliberately breaks the margin
`LeaseCoversBudget` so that the case of two replicas on one event happens.

Liveness of two events with two replicas and changing destinations is more than
TLC does in minutes, so `QueueSpec` of `MCNotificationDelivery` lets one event
have both, until another is inserted while it is open. From then on one replica
works, which may still stop at any step, destinations stay as they are, and a
receiver that reports a failure has not taken the request. This takes choices
away, but rules out no fair step for good: an event that can be claimed is claimed
by the replica that works, and a request that can be sent is sent. The mutant `OldestClaimable_BehindDead`, under which an event
waits until every older one is completed, is harmless to one event and found
with two.

In `machine_reads` a torn read needs one change between two statements, and a
release one activation before; the callers that race for a statement or for the
only connection need no changes but the close. In `kubernetes_bindings` two
changes are what the worst stories need: a new spec and a failure, or a takeover
by a user and a deletion; leaders change for free. In `human_sessions` a block
and an unblock, or one of them and a notice, surround a sign-in; a second
request holds the other copy of the session. The instance has no ID token
without a `sid`, one account only, and no seconds longer than the unit of time;
the proofs cover all three. Several
destinations of one event and several callers, targets and sessions beyond
these numbers are covered by the proofs as well.

Deadlock is checked in every run but `kubernetes_bindings`, where a binding that
has been deleted for good leaves nothing to do.

Every property has a mutant of the code, in its module next to the definition
it changes, under which the run finds it violated.

## 5. Fairness

Workers poll for as long as they run, HTTP requests are bounded by a timeout
and time passes, hence weak fairness of `Tick`, `Send`, `Timeout` and
recording. A worker may be interrupted any number of times between two steps,
so a step that keeps coming up again is strongly fair: the store is not out of
reach for ever. For config requests InnoDB grants locks in the order they are
asked for, so a step that keeps becoming possible is taken.

In `MachineRead` a step of a request is strongly fair: a request that waits for
a connection sees one become free again and again, and `database/sql` hands it
to a waiting request at random, so it is not passed over for ever. Callers may
leave or begin at any time and nothing is assumed of them.

In `KubernetesBinding` the leader's next call is weakly fair, as `Reconcile` is
called again after every end of it, and so are the caches' watches and garbage
collection; nothing is assumed of a controller that leads no more, of users or
of Configra, whose changes are finitely many. `HumanSession` states no liveness.

In `AuditDelivery` time and each replica's next step are weakly fair, which is
a process that is scheduled. Faults need no bound to be fair to: the properties
speak of behaviours in which after any number of faults comes a last one
(`<>[][no fault]`), since a log store that is restored for ever keeps nothing.

## 6. Proofs

`NotificationDeliveryProofs`:

* `TypeCorrect`: `TypeInv`, which adds to `TypeOK` that a worker in a cycle has
  an event, and one that sends or records has a request.
* `CompletedIsSettled`: progress is read in one statement and the event
  completed in another. The strengthening `SettledInv` says that a worker about
  to complete its event has no pending target there; no step makes a target
  pending again after the insert.
* `LeaseIsExclusive`, assuming `LeaseCoversBudget` (the margin of the timing
  comment, `notification.go:40-43`): a worker in a cycle has its event claimed,
  and the lease has at least as long to go as its cycle and the skew.
* `OutcomeIsRecordable`, from the same assumption: with the event to itself,
  the worker's claimed attempt stays the target's last one.

* `LogExplainsTargets` and `AttemptsAreHeldOnce`: the log and the counts agree,
  also when leases overlap. `LogInv` says of every row that it belongs to an
  attempt that was counted (`RowOK`), of every target that its status is the one
  its last answered attempt has left (`TargetOK`), and of a worker that sends
  that its attempt is counted and no other worker's (`SendingOK`); a claim counts one
  attempt more in the statement that gives it out. It needs no assumption on
  leases or clocks.
* `Refinement`, assuming `LeaseCoversBudget` again: `Spec => KeepsPromise`. The
  invariant (`HeldInv`) is all of the above with `RecordInv`: a claimed attempt stays
  its target's last one until it is recorded. Initial states map to initial states, and each action
  maps to a step of the promise or to none, one lemma each (`AnnounceMaps`,
  `ClaimTargetMaps`, `SendMaps`, `RecordMaps`, `DecodeMaps`, `SettleMaps`).

They hold for any number of replicas, events, destinations and attempts.

`ConfigStoreProofs`, for any configs, environments, clients, workloads, documents
and any function that merges them: type correctness, four properties of the run
(`AnswersRecorded`, `TransfersCopy`, `ArchivedIsFrozen`, `RevokedWritesNothing`)
and that the store implements `ConfigHistory` (`Refinement`). Besides the types
the invariant is `StoreInv`, that a config's current revision is its last one,
each revision belongs to a decided operation whose request explains its document
(`Explained`), and recorded results are true; `LocksOK`, that locks of rows have one
holder and no row is made in a gap another transaction has locked; and `ClientOK`,
that a client past a statement holds what it locks (`HoldsOK`), has the document
its request asks for, read from histories that only grow (`ContentOK`), and that
its verdict is still right (`DecisionOK`). A commit therefore appends to the revision it has checked although it
checked it several statements earlier, and two clients with one operation id
cannot both be past `operation`, which is what the history's "decided once" asks.

`OutboxProofs` has two parts. The first is about maintenance, for any number of runs, events, operations and
archives: type correctness (`RetentionTypeCorrect`); that what is deleted stays archived
(`DeletedStaysArchived`) and was delivered, that no event is pruned twice, that
receipts name what they did, and that archives stay what they are. The
argument is a chain. `LockInv`: a row lock has one holder, and a run holds its operation id and the
events it has selected until it commits. `RunInv`, from it: the id stays new
and the events stay as they were selected. `FileInv`: a
run that goes on to delete has a linked and durable archive of exactly its
candidates; a power loss takes with it every run that counted on a file it may
have removed, and a run that finds an archive another one linked syncs its
directory all the same. `StoreInv`
then is the statement about what has been committed.

The second part is about `AuditDelivery`, for any events, replicas of both versions,
sizes of batch and page, skew and faults: type correctness (`AuditTypeCorrect`), and
the three safety properties of `audit_replicas`. `RowStep` sums up what any step does to a row: it
dies only in the hands of a worker whose version does not accept it, and is
completed only by a worker that is at `complete`; `DeliveryIsFinal` follows at
once. `CompletedIsLogged` needs that what such a worker holds has been stored
(`Appended`). `UpgradeIsComplete` is the deep one. While an old replica runs
nothing can be said, since it may reject an event any time. The invariant
`RecoverInv` is that, once all are new, as long as an event is dead that could be
decoded, some worker's scan is not finished and has all such events before it
(`Ahead`): behind its cursor and on its page, or on a later page, its page being
full. The last replica that is upgraded is such a worker, new ones add no
such event, and the lemmas on `First` (`FirstIsLeast`, `FirstIsFull`) say that a page is the
lowest rows and a page that leaves one out is full.

`ReleaseStreamProofs`, for any number of clients, releases and drafts: type
correctness; that a release pins revisions of one moment (`PinInv`: what a
request has read came from its view, and moments do not change once past);
that answers name the stored manifest and manifests are immutable (`NameInv`:
a key that was seen, or answered, is there to stay); and that each generation
is left by one switch at most (`SwitchInv`: the generation has left behind what
every successful activation expected, so a later one cannot expect it again).

`SecretStoreProofs`, for any requests, clients, keys, writers and authorities:
every stored key opens with the sentinel's master key (`Sealing`), revocation
is complete (`Revocation`), authorities stay within any limit (`Limitation`),
and operations are applied once (`OnceOnly`), commits of a scoped token keep the values of
environments it is not granted (`GrantsAreKept`), and one that expects revision
zero writes only where its environment has no values (`ZeroCreates`). The 17 kinds of requests are
handled alike: `Past(c, s)` says that a transaction has executed statement s of
its plan, `HeldInv` that it holds the locks s has taken, and `KeyKnown`,
`TokenKnown`, `OperationKnown`, `AuthorityKnown` and `CountKnown` that what s
has found is still so. `LockInv` makes the last of these inductive: whoever
would change it needs a lock that excludes the holder's. For the limit that is
the sentinel's exclusive lock, which `count` is always behind. A deadlock victim
starts before all statements, where nothing is claimed. That families are one
level deep (parents are writers, never deployments) is what `Revocation` needs
beside the locks. `ItemInv` is for the last two: every revision of the item is a
valid snapshot, and a token that has been authorized is granted the environment it
writes to (`GrantKnown`); what the view shows counts only where it agrees with
the locked row. These proofs need no more of the types than the domains of
the functions; `TypeCorrect` has the whole of them.

`MachineReadProofs`, for any callers, items, tokens, pool size and changes:
answers are of one moment (`AnswersAreWhole`), a request that begins after a
revocation is refused (`RevocationIsSeen`), and statements are not left open
(`StatementsAreKept`). The invariant says of a request in a transaction that
a full read of its view is among its moments (`MomentsOK`) and that what it has
found is so in its view (`FoundOK`), so the last step only finishes the case
distinction of `FullRead`. A caller that is told "not modified" skips the types;
what it keeps was of the right type (`HeldOK`), and the rows its revisions name
never change (`Prefix`). Credentials withdrawn before a request are still to be
asked for wherever it is (`LateOK`). Of statements: an open one is shared, at
`keep` with its maker, or being closed (`OpenOK`).

`KubernetesBindingProofs`, for any targets, leaders and changes. `Sound` says of
an object, of a cached one and of one that was read, that its owner has
existed, that its version is no newer than what Configra answers, and that its
content has been delivered. What is fetched after the target was read is no
older than the target (`FetchedOK`), and after the second look at the binding
the target is of no later generation (`RecheckedOK`); an update is accepted only
if the target is still the one that was read, so its content advances
(`ContentAdvances`). The same comparison gives `OthersAreLeft`. A status is set to
ready only when what it names has been delivered (`DeliveredOK`), and
`delivered` only grows (`ReadyIsTrue`).

`HumanSessionProofs`, for any subjects, sessions, browsers and changes: the
three properties of the run. Policies, and every copy of them in a session or a
request, are what the log says at some length (`PolicyAt`); the log only grows,
so what was read stays true of that length (`Stays`). Equal generations mean that
no change lies between two lengths (`NoneBetween`), different ones that some
does (`SomeBetween`), and a subject that is not blocked has been unblocked
after every block (`BlockBetween`).

The assumptions on constants are named in the modules that declare them, where
TLC evaluates them; they say what kind of thing a constant is
(`ContentAssumption`: a request has the content its action needs). The only
assumption on sizes is `LeaseCoversBudget`, a hypothesis of the three theorems
that need it.

Some theorems state what no run checks, being close to what others say of the
same state: `OutcomeIsRecordable`, `ManifestsAreImmutable`,
`GenerationTellsSwitches`, `PruningIsExclusive`, `PrunedWasDelivered`,
`ArchivesStay`, and the type correctness of the modules that have proofs.

Every safety property that a run finds to hold, invariant, action property or
refinement, is thereby a theorem. Only model-checked is liveness:
`EveryEventSettles`, `RequestsEnd`, `EveryEventIsLogged`, `RejectedEventsReturn`,
`ReadsEnd` and `SettlesOnLatest`. Liveness under fairness and ENABLED,
induction over data, and recursive operators are outside what the prover does.

## 7. Findings

`MovedRevisionIsConflict` (`config_mutation.go:353`), shown by
`config_moved_revision`: the writer that loses a race gets an internal error
instead of a conflict.

Disagreements with the documentation that were met while modelling and have no
run of their own, as the models are of what the code does:

* `config_mutation.go:135-140` reads the environment without a lock and never
  again. A commit that has read it as active adds its revision after the
  archival of the environment has committed, although `CONTEXT.md:147-148` has an
  archived resource "unavailable for new reads, resolution, or mutation".
* `kubernetes/README.md:154-156`: the controller "removes an old owned target
  after a successful target-name/kind change". It knows the old target from the
  status only. If the spec moves from t1 to t2 and, after t2 is written, the
  cleanup or the status fails, and the spec then names t3 or t1 again, nothing
  refers to t2 any more: it stays until the binding is deleted. A late call of an
  old leader may also delete the target the new spec names; it is made again
  (`SettlesOnLatest`).
* `docs/session-control.md:28-29`: a sign-in needs an ID token "issued after the
  latest policy change". `revoked_at` is the time the statement began
  (`session_policy.go:105-106`, no `GREATEST`), so of two changes that overlap
  the later one to be applied may set it back, and an ID token issued between the
  two times is admitted. `FreshSignIn` says what does hold: the token is newer
  than the change applied last.
* `docs/design.md:313`: signing out "destroys the server-side session". A request
  that is in progress meanwhile writes its copy back when it is answered
  (`scs` stores the session again to move its idle timeout), and the cookie
  works again. Revocation is not affected: the copy keeps its old generations
  (`ServedIsCurrent`).

## 8. Not modelled

* Management write admission (`management/limits.go`): a token bucket per token
  in one process under one mutex, a sequential data structure over the wall clock.
* Schema bootstrap (`bootstrap.go`): one process under an advisory lock runs a
  list of repeatable DDL statements; a model would restate the list.
* HTTP decoding, command line, configuration files, metrics, the web client and
  the secrets-store provider have no protocol of their own.
* Access events are best effort by design and nothing depends on them.
* Cryptography is the relation of a record to the key that opens it; document
  merge and resolution are constant functions. What a model of documents as trees
  would have to settle is the alias of YAML: `mergeYAMLNode` (`merge.go:82-101`)
  moves an alias node of the source into the target under its name, so that it
  may come to stand for an anchor of the target that has the same name.

`components` in `PROJECT.json` lists all parts with what is left out of each.
