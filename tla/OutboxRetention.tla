--------------------------- MODULE OutboxRetention ---------------------------
(***************************************************************************)
(* Maintenance of the outbox (Prune of mysqlstore/prune.go under the       *)
(* command of app/prune.go): completed events are written to an archive    *)
(* file and then deleted, together with their notification rows, in a      *)
(* transaction that also records the result. The file system and MySQL do  *)
(* not commit together, the process and its machine may stop anywhere, and *)
(* other runs of the command and redeliveries of an operator go on beside. *)
(*                                                                         *)
(* The rows of a completed event whose targets all succeeded do not change *)
(* any more, so the bytes of an archive are the set of its events.         *)
(* Names that Outbox uses as well are distinct here, so that OutboxProofs  *)
(* can extend both.                                                        *)
(***************************************************************************)
EXTENDS Integers, FiniteSets

CONSTANTS
    Rows,           \* outbox row identities
    Operations,     \* operation ids, chosen by the operator
    Paths,          \* archive files
    Requests,       \* runs of the command, first ones and repeated ones
    Clients,        \* runs and redeliveries in progress at the same time
    MaxTime,        \* bound of this model on points in time
    None

Request == [op : Operations, before : 1..MaxTime, limit : Nat \ {0}, path : Paths]

Result == [request : Requests, outcome : {"success", "no_change"}, archived : SUBSET Rows]

ASSUME RetentionAssumption ==
    /\ Rows \subseteq Nat
    /\ MaxTime \in Nat
    /\ Requests \subseteq Request
    /\ None \notin Requests
    /\ None \notin Rows
    /\ \A S \in SUBSET Rows : S # None
    /\ None \notin Result

VARIABLES
    event,          \* outbox_events.status, as far as pruning asks
    completedAt,    \* outbox_events.completed_at
    succeeded,      \* events without a target that did not succeed
    now,
    operation,      \* operations
    files,          \* the events in an archive file
    durable,        \* paths whose directory entry is on disk
    stage,          \* the next step of each client
    req,            \* the run of the command
    source,         \* the event to redeliver
    chosen,         \* the events it has selected
    locks,          \* rows it has locked
    replies         \* receipts printed

eventVars == <<event, completedAt, succeeded, now>>
fileVars == <<files, durable>>
clientVars == <<stage, req, source, chosen, locks>>
retentionVars == <<eventVars, operation, fileVars, clientVars, replies>>

EventState == {"absent", "open", "completed", "deleted"}

Stages == {"idle", "operation", "select", "archive", "sync", "commit", "event", "queue"}

Locks == {<<"operation", o>> : o \in Operations}
         \cup {<<"event", e>> : e \in Rows} \cup {<<"delivery", e>> : e \in Rows}

RetentionTypeOK ==
    /\ event \in [Rows -> EventState]
    /\ completedAt \in [Rows -> 0..MaxTime]
    /\ succeeded \subseteq Rows
    /\ now \in 0..MaxTime
    /\ operation \in [Operations -> Result \cup {None}]
    /\ files \in [Paths -> (SUBSET Rows) \cup {None}]
    /\ durable \subseteq Paths
    /\ stage \in [Clients -> Stages]
    /\ req \in [Clients -> Requests \cup {None}]
    /\ source \in [Clients -> Rows \cup {None}]
    /\ chosen \in [Clients -> SUBSET Rows]
    /\ locks \in [Clients -> SUBSET Locks]
    /\ replies \subseteq Result

RetentionInit ==
    /\ event = [e \in Rows |-> "absent"]
    /\ completedAt = [e \in Rows |-> 0]
    /\ succeeded = {}
    /\ now = 0
    /\ operation = [o \in Operations |-> None]
    /\ files = [p \in Paths |-> None]
    /\ durable = {}
    /\ stage = [c \in Clients |-> "idle"]
    /\ req = [c \in Clients |-> None]
    /\ source = [c \in Clients |-> None]
    /\ chosen = [c \in Clients |-> {}]
    /\ locks = [c \in Clients |-> {}]
    /\ replies = {}

-----------------------------------------------------------------------------
(* The outbox in use.                                                      *)

InsertEvent(e) ==
    /\ event[e] = "absent"
    /\ event' = [event EXCEPT ![e] = "open"]

PublishEvent(e) ==
    /\ InsertEvent(e)
    /\ UNCHANGED <<completedAt, succeeded, now, operation, fileVars, clientVars, replies>>

(* With every target succeeded, or with one that is dead.                  *)
CompleteEvent(e) ==
    /\ event[e] = "open"
    /\ event' = [event EXCEPT ![e] = "completed"]
    /\ completedAt' = [completedAt EXCEPT ![e] = now]
    /\ succeeded' \in {succeeded, succeeded \cup {e}}
    /\ UNCHANGED <<now, operation, fileVars, clientVars, replies>>

RetentionTick ==
    /\ now < MaxTime
    /\ now' = now + 1
    /\ UNCHANGED <<event, completedAt, succeeded, operation, fileVars, clientVars, replies>>

-----------------------------------------------------------------------------
(* Transactions.                                                           *)

AtStage(c, step) == stage[c] = step

Proceed(c, step) == stage' = [stage EXCEPT ![c] = step]

Free(c, l) == \A d \in Clients \ {c} : l \notin locks[d]

Lock(c, S) == locks' = [locks EXCEPT ![c] = @ \cup S]

End(c) ==
    /\ Proceed(c, "idle")
    /\ req' = [req EXCEPT ![c] = None]
    /\ source' = [source EXCEPT ![c] = None]
    /\ chosen' = [chosen EXCEPT ![c] = {}]
    /\ locks' = [locks EXCEPT ![c] = {}]

(* The cutoff has to be in the past.                                       *)
StartRun(c, r) ==
    /\ AtStage(c, "idle")
    /\ r.before <= now
    /\ req' = [req EXCEPT ![c] = r]
    /\ Proceed(c, "operation")
    /\ UNCHANGED <<eventVars, operation, fileVars, source, chosen, locks, replies>>

(* Mutant: any request with the id is taken for the first one.             *)
SameRequest_SameId(r, s) == r.op = s.op

(* The id stands for one cutoff, one limit and one archive.                *)
SameRequest(r, s) == r = s

(* The recorded result as the answer to r.                                 *)
Receipt(r, row) == [request |-> r, outcome |-> row.outcome, archived |-> row.archived]

BeginOperation(c) ==
    /\ AtStage(c, "operation")
    /\ Free(c, <<"operation", req[c].op>>)
    /\ LET row == operation[req[c].op] IN
       \/ /\ row = None
          /\ Lock(c, {<<"operation", req[c].op>>})
          /\ Proceed(c, "select")
          /\ UNCHANGED <<req, source, chosen, replies>>
       \/ /\ row # None
          /\ replies' = IF SameRequest(req[c], row.request)
                        THEN replies \cup {Receipt(req[c], row)} ELSE replies
          /\ End(c)
    /\ UNCHANGED <<eventVars, operation, fileVars>>

Eligible(e, before) ==
    /\ event[e] = "completed"
    /\ completedAt[e] < before
    /\ e \in succeeded

(* ORDER BY completed_at, id.                                              *)
Older(d, e) ==
    completedAt[d] < completedAt[e] \/ (completedAt[d] = completedAt[e] /\ d < e)

Oldest(S, n) == {e \in S : Cardinality({d \in S : Older(d, e)}) < n}

(* SKIP LOCKED.                                                            *)
Selectable(c) ==
    {e \in Rows : Eligible(e, req[c].before) /\ Free(c, <<"event", e>>)}

SelectBatch(c) ==
    /\ AtStage(c, "select")
    /\ LET S == Oldest(Selectable(c), req[c].limit) IN
       /\ chosen' = [chosen EXCEPT ![c] = S]
       /\ Lock(c, {<<"event", e>> : e \in S})
       /\ Proceed(c, IF S = {} THEN "commit" ELSE "archive")
    /\ UNCHANGED <<eventVars, operation, fileVars, req, source, replies>>

(* Publication by link does not replace a file; one with the same bytes    *)
(* may be there from a run that did not come to its end.                   *)
Writable(p, S) == files[p] \in {None, S}

SaveArchive(c) ==
    /\ AtStage(c, "archive")
    /\ LET p == req[c].path IN
       \/ /\ Writable(p, chosen[c])
          /\ files' = [files EXCEPT ![p] = chosen[c]]
          /\ Proceed(c, "sync")
          /\ UNCHANGED <<req, source, chosen, locks>>
       \/ ~Writable(p, chosen[c]) /\ End(c) /\ UNCHANGED files
    /\ UNCHANGED <<eventVars, operation, durable, replies>>

(* Mutant: the directory is taken to be on disk.                           *)
Synced_Skipped(p) == durable

Synced(p) == durable \cup {p}

(* Also for a file that was there: nobody knows who synced it.             *)
SyncArchiveDirectory(c) ==
    /\ AtStage(c, "sync")
    /\ durable' = Synced(req[c].path)
    /\ Proceed(c, "commit")
    /\ UNCHANGED <<eventVars, operation, files, req, source, chosen, locks, replies>>

RunOutcome(S) == IF S = {} THEN "no_change" ELSE "success"

(* The deletes wait for whoever holds a delivery row. The receipt may be   *)
(* lost although the transaction is committed. That the operation leaves   *)
(* an audit event of its own is one more PublishEvent.                     *)
Commit(c) ==
    /\ AtStage(c, "commit")
    /\ \A e \in chosen[c] : Free(c, <<"delivery", e>>)
    /\ LET row == [request |-> req[c],
                   outcome |-> RunOutcome(chosen[c]),
                   archived |-> chosen[c]] IN
       /\ operation' = [operation EXCEPT ![req[c].op] = row]
       /\ replies' \in {replies, replies \cup {row}}
    /\ event' = [e \in Rows |-> IF e \in chosen[c] THEN "deleted" ELSE event[e]]
    /\ End(c)
    /\ UNCHANGED <<completedAt, succeeded, now, fileVars>>

-----------------------------------------------------------------------------
(* RedeliverNotification: the join locks the delivery before the event.    *)

LockDelivery(c, e) ==
    /\ AtStage(c, "idle")
    /\ event[e] \in {"open", "completed"}
    /\ Free(c, <<"delivery", e>>)
    /\ source' = [source EXCEPT ![c] = e]
    /\ Lock(c, {<<"delivery", e>>})
    /\ Proceed(c, "event")
    /\ UNCHANGED <<eventVars, operation, fileVars, req, chosen, replies>>

LockEvent(c) ==
    /\ AtStage(c, "event")
    /\ Free(c, <<"event", source[c]>>)
    /\ Lock(c, {<<"event", source[c]>>})
    /\ Proceed(c, "queue")
    /\ UNCHANGED <<eventVars, operation, fileVars, req, source, chosen, replies>>

(* The event's payload goes into an event of its own.                      *)
Redeliver(c, f) ==
    /\ AtStage(c, "queue")
    /\ InsertEvent(f)
    /\ End(c)
    /\ UNCHANGED <<completedAt, succeeded, now, operation, fileVars, replies>>

-----------------------------------------------------------------------------
(* A process stops, a statement fails, or InnoDB breaks the deadlock of a  *)
(* redelivery that waits for an event and a run that waits for its rows.   *)
Abort(c) ==
    /\ ~AtStage(c, "idle")
    /\ End(c)
    /\ UNCHANGED <<eventVars, operation, fileVars, replies>>

(* The maintenance machine stops: what is not on disk may be gone.         *)
PowerLoss ==
    /\ \E lost \in SUBSET (Paths \ durable) :
          files' = [p \in Paths |-> IF p \in lost THEN None ELSE files[p]]
    /\ stage' = [c \in Clients |-> "idle"]
    /\ req' = [c \in Clients |-> None]
    /\ source' = [c \in Clients |-> None]
    /\ chosen' = [c \in Clients |-> {}]
    /\ locks' = [c \in Clients |-> {}]
    /\ UNCHANGED <<eventVars, operation, durable, replies>>

RetentionNext ==
    \/ \E e \in Rows : PublishEvent(e) \/ CompleteEvent(e)
    \/ RetentionTick
    \/ \E c \in Clients :
          \/ \E r \in Requests : StartRun(c, r)
          \/ BeginOperation(c)
          \/ SelectBatch(c)
          \/ SaveArchive(c)
          \/ SyncArchiveDirectory(c)
          \/ Commit(c)
          \/ \E e \in Rows : LockDelivery(c, e)
          \/ LockEvent(c)
          \/ \E f \in Rows : Redeliver(c, f)
          \/ Abort(c)
    \/ PowerLoss

RetentionSpec == RetentionInit /\ [][RetentionNext]_retentionVars

-----------------------------------------------------------------------------
(* Properties.                                                             *)

(* Whatever is gone from the outbox is on disk, in the archive named by    *)
(* the operation that deleted it, whose bytes are those of its receipt.    *)
DeletedIsArchived ==
    \A e \in Rows : event[e] = "deleted" =>
        \E o \in Operations :
            /\ operation[o] # None
            /\ e \in operation[o].archived
            /\ operation[o].request.path \in durable
            /\ files[operation[o].request.path] = operation[o].archived

(* However often runs are repeated or run beside each other, an event is   *)
(* pruned by one operation, and a receipt counts only what is gone.        *)
PrunedOnce ==
    \A o \in Operations : operation[o] # None =>
        /\ \A e \in operation[o].archived : event[e] = "deleted"
        /\ \A p \in Operations \ {o} : operation[p] # None =>
              operation[o].archived \cap operation[p].archived = {}

(* "Operations, all Revisions and failed/pending deliveries stay": what is *)
(* deleted had succeeded everywhere before the cutoff of its operation.    *)
OnlyDeliveredIsPruned ==
    \A o \in Operations : operation[o] # None =>
        \A e \in operation[o].archived :
            e \in succeeded /\ completedAt[e] < operation[o].request.before

(* "A committed operation replays its original result": a receipt is the   *)
(* recorded result of the very request it answers.                         *)
ReceiptsAreRecorded ==
    \A r \in replies : operation[r.request.op] = r

(* "Existing files are never overwritten."                                 *)
ArchivesAreKept ==
    [][\A p \in durable : files'[p] = files[p]]_retentionVars
=============================================================================
