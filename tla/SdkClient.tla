------------------------------ MODULE SdkClient ------------------------------
(***************************************************************************)
(* One client of the SDK (src/apps/sdk/src/syncra-sdk.ts): the application's *)
(* calls, which write a record and queue an operation in IndexedDB, and     *)
(* sync(), which pushes the pending operations as a job, polls the job,     *)
(* stores its results and pulls the server's changes.                       *)
(*                                                                          *)
(* Every await lets the other calls run, so an action is what happens from  *)
(* one await to the next, or several such stretches when nothing else can   *)
(* tell them apart.  The server applies one operation of a job at a time    *)
(* (SyncServer has the statements) and its changes are pulled as one answer *)
(* (DeltaPull has the pages).                                               *)
(*                                                                          *)
(* Not covered: the in-memory copies of the queue and the records, which    *)
(* are only displayed; events; the online flag, without which sync()        *)
(* returns at once.                                                         *)
(***************************************************************************)
EXTENDS Integers, FiniteSets

CONSTANTS
    Recs,         \* record ids
    Ops,          \* operation ids, numbers: their order is that of the queue
    Calls,        \* calls of the application that can be under way
    Syncs,        \* calls of sync() that can be under way
    Jobs,         \* jobs of this client the server can be holding
    None,         \* no operation, no data
    Other,        \* data written by another client
    Edits,        \* which of "create", "update", "delete" the application calls
    Handler,      \* a conflict handler is registered
    Faults,       \* what can go wrong
    MaxFaults,    \* bound on how often
    MaxForeign,   \* bound on the changes by other clients
    MaxRetries    \* MAX_RETRIES

FaultKinds ==
    {"unreachable", "refused", "lost answer", "job error", "gave up",
     "pull error", "closed"}

ASSUME SdkClientAssumption ==
    /\ Ops \subseteq Nat /\ None \notin Ops /\ Other \notin Ops
    /\ Edits \subseteq {"create", "update", "delete"}
    /\ Handler \in BOOLEAN
    /\ Faults \subseteq FaultKinds
    /\ MaxFaults \in Nat /\ MaxForeign \in Nat
    /\ MaxRetries \in Nat \ {0}

VARIABLES
    store,       \* IndexedDB: records, version = 0 where there is none
    queue,       \* IndexedDB: offline_queue, status "none" where no entry
    lastCursor,  \* IndexedDB: metadata "lastCursor"
    edit,        \* what each operation does; its id is also the data it writes
    call,        \* calls of the application under way
    sync,        \* calls of sync() under way
    srv,         \* server: row of each record, or the cursor of its tombstone
    seq,         \* server: last cursor drawn
    done,        \* server: idempotency keys recorded as applied
    job,         \* server: jobs
    faults,      \* faults so far, to bound the model
    foreign      \* changes by other clients so far, to bound the model

client == <<store, queue, lastCursor, edit, call, sync>>
server == <<srv, seq, done, foreign>>
vars   == <<client, server, job, faults>>

-----------------------------------------------------------------------------
(* Data. *)

Types   == {"create", "update", "delete"}
Data    == Ops \cup {None, Other}
Copies  == [version : Nat, data : Data]
NoCopy  == [version |-> 0, data |-> None]
Rows    == [version : Nat, data : Data, cursor : Nat]
NoRow   == [version |-> 0, data |-> None, cursor |-> 0]
Changes == [rec : Recs, version : Nat, data : Data, cursor : Nat]

\* base is the version the operation is sent with.
EditsOf == [type : Types, rec : Recs, base : Nat]
NoEdit  == [type |-> "none"]

Entries == [status : {"pending", "applied", "failed"}, retries : Nat, waiting : BOOLEAN]
NoEntry == [status |-> "none"]

\* What the server answers about an operation: for an applied one its new
\* version and data, for a rejected one the server's.
Answers == [op : Ops, version : Nat, data : Data]

CallStates == [step : {"idle", "write", "enqueue"}, op : Ops \cup {None}]
NoCall     == [step |-> "idle", op |-> None]

Steps == {"idle", "post", "poll", "applied", "confirm", "rejected", "resolve",
          "pull", "store", "retry", "fail"}

\* batch: the operations read from the queue, with their retries then.
SyncAt(step, batch, todo) ==
    [step |-> step, batch |-> batch, todo |-> todo, job |-> None,
     applied |-> {}, rejected |-> {}, pulled |-> {}, max |-> 0]
NoSync == SyncAt("idle", {}, {})
Tried  == [op : Ops, retries : Nat]
SyncStates ==
    [step : Steps, batch : SUBSET Tried, todo : SUBSET Tried, job : Jobs \cup {None},
     applied : SUBSET Answers, rejected : SUBSET Answers,
     pulled : SUBSET Changes, max : Nat]

JobOf(state, ops) ==
    [state |-> state, ops |-> ops, todo |-> ops, applied |-> {}, rejected |-> {}]
NoJob == JobOf("none", {})
JobStates ==
    [state : {"none", "active", "completed", "failed"}, ops : SUBSET Ops,
     todo : SUBSET Ops, applied : SUBSET Answers, rejected : SUBSET Answers]

OpsOf(items) == {i.op : i \in items}

Has(r)     == store[r].version > 0
Queued(o)  == queue[o].status # "none"
Pending(o) == queue[o].status = "pending"

\* Type invariant of the stores, the calls under way and the jobs.
TypeOK ==
    /\ store \in [Recs -> Copies]
    /\ queue \in [Ops -> Entries \cup {NoEntry}]
    /\ edit \in [Ops -> EditsOf \cup {NoEdit}]
    /\ lastCursor \in Nat
    /\ call \in [Calls -> CallStates]
    /\ sync \in [Syncs -> SyncStates]
    /\ srv \in [Recs -> Rows]
    /\ seq \in Nat
    /\ done \subseteq Ops
    /\ job \in [Jobs -> JobStates]
    /\ faults \in 0..MaxFaults /\ foreign \in 0..MaxForeign

Init ==
    /\ store = [r \in Recs |-> NoCopy]
    /\ queue = [o \in Ops |-> NoEntry]
    /\ edit = [o \in Ops |-> NoEdit]
    /\ lastCursor = 0
    /\ call = [c \in Calls |-> NoCall]
    /\ sync = [s \in Syncs |-> NoSync]
    /\ srv = [r \in Recs |-> NoRow]
    /\ seq = 0
    /\ done = {}
    /\ job = [j \in Jobs |-> NoJob]
    /\ faults = 0 /\ foreign = 0

Fault(kind) ==
    /\ kind \in Faults
    /\ faults < MaxFaults
    /\ faults' = faults + 1

-----------------------------------------------------------------------------
(* The application's calls. *)

\* uuidv4: any id that is not in use.
NewEdit(o, type, r, base) ==
    /\ edit[o] = NoEdit
    /\ edit' = [edit EXCEPT ![o] = [type |-> type, rec |-> r, base |-> base]]

SetCall(c, step, o) == call' = [call EXCEPT ![c] = [step |-> step, op |-> o]]

Fresh(r) == srv[r] = NoRow /\ \A o \in Ops : edit[o] # NoEdit => edit[o].rec # r

CreateRecord(c, r, o) ==
    /\ "create" \in Edits
    /\ call[c] = NoCall /\ Fresh(r)
    /\ NewEdit(o, "create", r, 1)
    /\ store' = [store EXCEPT ![r] = [version |-> 1, data |-> o]]
    /\ SetCall(c, "enqueue", o)
    /\ UNCHANGED <<queue, lastCursor, sync, server, job, faults>>

\* updateRecord and deleteRecord read the record, and throw without one.
ReadRecord(c, r, o) ==
    /\ call[c] = NoCall /\ Has(r)
    /\ \E type \in Edits \ {"create"} : NewEdit(o, type, r, store[r].version)
    /\ SetCall(c, "write", o)
    /\ UNCHANGED <<store, queue, lastCursor, sync, server, job, faults>>

\* What the call leaves locally: the version it read plus one.
Written(o) ==
    CASE edit[o].type = "create" -> [version |-> 1, data |-> o]
      [] edit[o].type = "update" -> [version |-> edit[o].base + 1, data |-> o]
      [] edit[o].type = "delete" -> NoCopy

WriteRecord(c) ==
    /\ call[c].step = "write"
    /\ store' = [store EXCEPT ![edit[call[c].op].rec] = Written(call[c].op)]
    /\ SetCall(c, "enqueue", call[c].op)
    /\ UNCHANGED <<queue, lastCursor, edit, sync, server, job, faults>>

\* Bug: the entry is queued without its count of retries.
NewEntry_Bare == [status |-> "pending", waiting |-> FALSE]

NewEntry == [status |-> "pending", retries |-> 0, waiting |-> FALSE]

Enqueue(c) ==
    LET o == call[c].op
    IN  /\ call[c].step = "enqueue"
        /\ queue' = [queue EXCEPT ![o] = NewEntry]
        /\ call' = [call EXCEPT ![c] = NoCall]
        /\ UNCHANGED <<store, lastCursor, edit, sync, server, job, faults>>

-----------------------------------------------------------------------------
(* The server. *)

\* Operations are processed in the order of the batch, that of their ids.
First(ops) == {o \in ops : \A p \in ops : o <= p}

Change(r, version, data) ==
    /\ seq' = seq + 1
    /\ srv' = [srv EXCEPT ![r] = [version |-> version, data |-> data, cursor |-> seq + 1]]

Conflict(o) ==
    LET row == srv[edit[o].rec]
    IN  edit[o].type # "create" /\ row.version > 0 /\ row.version # edit[o].base

\* The mutation of applyOperation; a delete of no record changes nothing.
Mutate(o) ==
    LET row == srv[edit[o].rec]
    IN  IF edit[o].type # "delete" THEN Change(edit[o].rec, row.version + 1, o)
        ELSE IF row.version > 0 THEN Change(edit[o].rec, 0, None)
        ELSE UNCHANGED <<srv, seq>>

Progress(j, o, applied, rejected) ==
    job' = [job EXCEPT ![j].todo = @ \ {o},
                       ![j].state = IF job[j].todo = {o} THEN "completed" ELSE "active",
                       ![j].applied = @ \cup applied,
                       ![j].rejected = @ \cup rejected]

\* A repeated operation is answered under the id of its row in sync_operations
\* and without a version: the client can make nothing of the answer.
JobRepeat(j, o) ==
    /\ o \in done
    /\ Progress(j, o, {}, {})
    /\ UNCHANGED <<client, server, faults>>

\* Bug: the operation is applied without its row in sync_operations.
Apply_NotRecorded(o) ==
    /\ o \notin done /\ ~Conflict(o)
    /\ Mutate(o)
    /\ UNCHANGED <<done, foreign>>

\* Bug: nobody asks whether the operation was applied before.
Apply_Again(o) ==
    /\ ~Conflict(o)
    /\ Mutate(o)
    /\ done' = done \cup {o}
    /\ UNCHANGED foreign

Apply(o) ==
    /\ o \notin done /\ ~Conflict(o)
    /\ Mutate(o)
    /\ done' = done \cup {o}
    /\ UNCHANGED foreign

JobApply(j, o) ==
    /\ Apply(o)
    /\ Progress(j, o, {[op |-> o, version |-> srv'[edit[o].rec].version, data |-> o]}, {})
    /\ UNCHANGED <<client, faults>>

JobReject(j, o) ==
    LET row == srv[edit[o].rec]
    IN  /\ o \notin done /\ Conflict(o)
        /\ Progress(j, o, {}, {[op |-> o, version |-> row.version, data |-> row.data]})
        /\ UNCHANGED <<client, server, faults>>

\* An operation fails, or is applied and the answer to its COMMIT is lost, or
\* its worker stalls: the job starts again, or was at its last attempt.
JobError(j, o) ==
    /\ Fault("job error")
    /\ Apply(o) \/ UNCHANGED server
    /\ \E state \in {"active", "failed"} :
          job' = [job EXCEPT ![j] = JobOf(state, job[j].ops)]
    /\ UNCHANGED client

JobStep(j) ==
    /\ job[j].state = "active"
    /\ \E o \in First(job[j].todo) : JobRepeat(j, o) \/ JobApply(j, o) \/ JobReject(j, o)

JobFault(j) ==
    /\ job[j].state = "active"
    /\ \E o \in First(job[j].todo) : JobError(j, o)

\* Another client's operation on a record it has pulled, or a new one.
ForeignPut(r) ==
    /\ foreign < MaxForeign /\ foreign' = foreign + 1
    /\ srv[r].version > 0 \/ Fresh(r)
    /\ Change(r, srv[r].version + 1, Other)
    /\ UNCHANGED <<client, done, job, faults>>

ForeignDelete(r) ==
    /\ foreign < MaxForeign /\ foreign' = foreign + 1
    /\ srv[r].version > 0
    /\ Change(r, 0, None)
    /\ UNCHANGED <<client, done, job, faults>>

-----------------------------------------------------------------------------
(* sync(): the push. *)

At(s, step)   == sync[s].step = step
Goto(s, step) == sync' = [sync EXCEPT ![s].step = step]

\* Bug: an operation with a retry time is left out, whether it has passed or not.
Due_FirstTry(o) == Pending(o) /\ queue[o].retries = 0

Due(o) == Pending(o) /\ ~queue[o].waiting

Begin(s) ==
    LET batch == {[op |-> o, retries |-> queue[o].retries] : o \in {p \in Ops : Due(p)}}
    IN  /\ At(s, "idle")
        /\ sync' = [sync EXCEPT ![s] =
                       SyncAt(IF batch = {} THEN "pull" ELSE "post", batch, {})]
        /\ UNCHANGED <<store, queue, lastCursor, edit, call, server, job, faults>>

Awaited(j) == \E s \in Syncs : At(s, "poll") /\ sync[s].job = j

\* POST /sync reaches the server, which queues a job.
Accepted(s, j) ==
    /\ job[j].state # "active" /\ ~Awaited(j)
    /\ job' = [job EXCEPT ![j] = JobOf("active", OpsOf(sync[s].batch))]

Post(s, j) ==
    /\ At(s, "post")
    /\ Accepted(s, j)
    /\ sync' = [sync EXCEPT ![s].step = "poll", ![s].job = j]
    /\ UNCHANGED <<store, queue, lastCursor, edit, call, server, faults>>

\* To the catch block, or the branch for retriable statuses.
Recover(s, step) ==
    sync' = [sync EXCEPT ![s] = SyncAt(step, sync[s].batch, sync[s].batch)]

PostUnanswered(s, j) ==
    /\ At(s, "post")
    /\ Fault("lost answer")
    /\ Accepted(s, j)
    /\ Recover(s, "retry")
    /\ UNCHANGED <<store, queue, lastCursor, edit, call, server>>

\* A network error or a 5xx, 408 or 429 on one side, any other 4xx on the other.
PostFails(s) ==
    /\ At(s, "post")
    /\ \/ Fault("unreachable") /\ Recover(s, "retry")
       \/ Fault("refused") /\ Recover(s, "fail")
    /\ UNCHANGED <<store, queue, lastCursor, edit, call, server, job>>

PollCompleted(s) ==
    LET j == sync[s].job
    IN  /\ At(s, "poll")
        /\ job[j].state = "completed"
        /\ sync' = [sync EXCEPT ![s].step = "applied", ![s].job = None,
                                ![s].applied = job[j].applied,
                                ![s].rejected = job[j].rejected]
        /\ job' = [job EXCEPT ![j] = NoJob]
        /\ UNCHANGED <<store, queue, lastCursor, edit, call, server, faults>>

PollFailed(s) ==
    LET j == sync[s].job
    IN  /\ At(s, "poll")
        /\ job[j].state = "failed"
        /\ Recover(s, "fail")
        /\ job' = [job EXCEPT ![j] = NoJob]
        /\ UNCHANGED <<store, queue, lastCursor, edit, call, server, faults>>

\* A poll fails, or MAX_JOB_POLLS of them found the job unfinished.
GiveUp(s) ==
    /\ At(s, "poll")
    /\ Fault("gave up")
    /\ Recover(s, "retry")
    /\ UNCHANGED <<store, queue, lastCursor, edit, call, server, job>>

-----------------------------------------------------------------------------
(* sync(): the results of the job. *)

FirstAnswer(answers) == {a \in answers : \A b \in answers : a.op <= b.op}

Patch(o, entry) ==
    queue' = IF Queued(o) THEN [queue EXCEPT ![o] = entry] ELSE queue

\* Bug: an applied operation is removed from the queue.
MarkApplied_Removes(s, a) ==
    /\ At(s, "applied")
    /\ a \in FirstAnswer(sync[s].applied)
    /\ Patch(a.op, NoEntry)
    /\ sync' = [sync EXCEPT ![s].applied = @ \ {a}]
    /\ UNCHANGED <<store, lastCursor, edit, call, server, job, faults>>

\* markOperationApplied, then getRecord: what is there is overwritten next.
MarkApplied(s, a) ==
    LET found == edit[a.op].type # "delete" /\ Has(edit[a.op].rec)
    IN  /\ At(s, "applied")
        /\ a \in FirstAnswer(sync[s].applied)
        /\ Patch(a.op, [queue[a.op] EXCEPT !.status = "applied"])
        /\ sync' = IF found THEN [sync EXCEPT ![s].step = "confirm"]
                            ELSE [sync EXCEPT ![s].applied = @ \ {a}]
        /\ UNCHANGED <<store, lastCursor, edit, call, server, job, faults>>

\* Whatever the application has written to the record since is overwritten.
Confirm(s, a) ==
    /\ At(s, "confirm")
    /\ a \in FirstAnswer(sync[s].applied)
    /\ store' = [store EXCEPT ![edit[a.op].rec] = [version |-> a.version, data |-> a.data]]
    /\ sync' = [sync EXCEPT ![s].step = "applied", ![s].applied = @ \ {a}]
    /\ UNCHANGED <<queue, lastCursor, edit, call, server, job, faults>>

AllApplied(s) ==
    /\ At(s, "applied") /\ sync[s].applied = {}
    /\ Goto(s, "rejected")
    /\ UNCHANGED <<store, queue, lastCursor, edit, call, server, job, faults>>

\* getRecord; without a local record only the queue is left to change.
ReadRejected(s, a) ==
    /\ At(s, "rejected")
    /\ a \in FirstAnswer(sync[s].rejected)
    /\ Has(edit[a.op].rec)
    /\ Goto(s, "resolve")
    /\ UNCHANGED <<store, queue, lastCursor, edit, call, server, job, faults>>

\* Bug: the rejected change is left in the local record.
Overwrite_Not(s, a, data) ==
    (At(s, "resolve") <=> Has(edit[a.op].rec)) /\ UNCHANGED store

Overwrite(s, a, data) ==
    IF At(s, "resolve")
    THEN store' = [store EXCEPT ![edit[a.op].rec] = [version |-> a.version, data |-> data]]
    ELSE ~Has(edit[a.op].rec) /\ UNCHANGED store

Resolved(s, a) ==
    sync' = [sync EXCEPT ![s].step = "rejected", ![s].rejected = @ \ {a}]

\* Last write wins: the server's version, and the operation is dropped.
ServerWins(s, a) ==
    /\ ~Handler
    /\ sync[s].step \in {"rejected", "resolve"}
    /\ a \in FirstAnswer(sync[s].rejected)
    /\ Overwrite(s, a, a.data)
    /\ queue' = [queue EXCEPT ![a.op] = NoEntry]
    /\ Resolved(s, a)
    /\ UNCHANGED <<lastCursor, edit, call, server, job, faults>>

\* The handler's data on the server's version, as a new update; the rejected
\* operation stays queued.
HandlerWins(s, a, o) ==
    /\ Handler
    /\ sync[s].step \in {"rejected", "resolve"}
    /\ a \in FirstAnswer(sync[s].rejected)
    /\ Overwrite(s, a, o)
    /\ NewEdit(o, "update", edit[a.op].rec, a.version)
    /\ queue' = [queue EXCEPT ![o] = NewEntry]
    /\ Resolved(s, a)
    /\ UNCHANGED <<lastCursor, call, server, job, faults>>

AllRejected(s) ==
    /\ At(s, "rejected") /\ sync[s].rejected = {}
    /\ Goto(s, "pull")
    /\ UNCHANGED <<store, queue, lastCursor, edit, call, server, job, faults>>

-----------------------------------------------------------------------------
(* sync(): the pull, and what happens after an error. *)

NewChanges ==
    {[rec |-> r, version |-> srv[r].version, data |-> srv[r].data, cursor |-> srv[r].cursor] :
        r \in {q \in Recs : srv[q].cursor > lastCursor}}

Highest(cursors) == {c \in cursors : \A d \in cursors : d <= c}

Pull(s) ==
    /\ At(s, "pull")
    /\ \E max \in Highest({lastCursor} \cup {c.cursor : c \in NewChanges}) :
          sync' = [sync EXCEPT ![s].step = "store", ![s].pulled = NewChanges, ![s].max = max]
    /\ UNCHANGED <<store, queue, lastCursor, edit, call, server, job, faults>>

\* After a push the error is caught as one of the push; else it is only told.
PullFails(s) ==
    /\ At(s, "pull")
    /\ Fault("pull error")
    /\ IF sync[s].batch = {} THEN sync' = [sync EXCEPT ![s] = NoSync] ELSE Recover(s, "retry")
    /\ UNCHANGED <<store, queue, lastCursor, edit, call, server, job>>

StorePulled(s, c) ==
    LET copy == IF c.version = 0 THEN NoCopy ELSE [version |-> c.version, data |-> c.data]
    IN  /\ At(s, "store")
        /\ c \in sync[s].pulled
        /\ \A d \in sync[s].pulled : c.cursor <= d.cursor
        /\ store' = [store EXCEPT ![c.rec] = copy]
        /\ sync' = [sync EXCEPT ![s].pulled = @ \ {c}]
        /\ UNCHANGED <<queue, lastCursor, edit, call, server, job, faults>>

\* Bug: the last cursor of the server is saved, not the last one pulled.
SaveCursor_Latest(s) ==
    /\ At(s, "store") /\ sync[s].pulled = {}
    /\ lastCursor' = seq
    /\ sync' = [sync EXCEPT ![s] = NoSync]
    /\ UNCHANGED <<store, queue, edit, call, server, job, faults>>

SaveCursor(s) ==
    /\ At(s, "store") /\ sync[s].pulled = {}
    /\ lastCursor' = sync[s].max
    /\ sync' = [sync EXCEPT ![s] = NoSync]
    /\ UNCHANGED <<store, queue, edit, call, server, job, faults>>

FirstTried(s) == {t \in sync[s].todo : \A u \in sync[s].todo : t.op <= u.op}

\* Bug: the retry sets the status again.
Retried_Pending(t) ==
    [queue[t.op] EXCEPT !.status = IF t.retries + 1 >= MaxRetries THEN "failed" ELSE "pending",
                        !.retries = t.retries + 1, !.waiting = t.retries + 1 < MaxRetries]

\* applyRetryLogic counts from the retries read with the batch; the entry's
\* status is only touched by the last one.
Retried(t) ==
    IF t.retries + 1 >= MaxRetries
    THEN [queue[t.op] EXCEPT !.status = "failed", !.retries = t.retries + 1]
    ELSE [queue[t.op] EXCEPT !.retries = t.retries + 1, !.waiting = TRUE]

Retry(s, t) ==
    /\ At(s, "retry") /\ t \in FirstTried(s)
    /\ Patch(t.op, Retried(t))
    /\ sync' = [sync EXCEPT ![s].todo = @ \ {t}]
    /\ UNCHANGED <<store, lastCursor, edit, call, server, job, faults>>

MarkFailed(s, t) ==
    /\ At(s, "fail") /\ t \in FirstTried(s)
    /\ Patch(t.op, [queue[t.op] EXCEPT !.status = "failed", !.retries = t.retries + 1])
    /\ sync' = [sync EXCEPT ![s].todo = @ \ {t}]
    /\ UNCHANGED <<store, lastCursor, edit, call, server, job, faults>>

Throw(s) ==
    /\ sync[s].step \in {"retry", "fail"}
    /\ sync[s].todo = {}
    /\ sync' = [sync EXCEPT ![s] = NoSync]
    /\ UNCHANGED <<store, queue, lastCursor, edit, call, server, job, faults>>

\* nextRetryAt passes.
Elapse(o) ==
    /\ Pending(o) /\ queue[o].waiting
    /\ queue' = [queue EXCEPT ![o].waiting = FALSE]
    /\ UNCHANGED <<store, lastCursor, edit, call, sync, server, job, faults>>

\* The page is closed and opened again: what was under way is lost, IndexedDB
\* is not.
Reload ==
    /\ Fault("closed")
    /\ call' = [c \in Calls |-> NoCall]
    /\ sync' = [s \in Syncs |-> NoSync]
    /\ UNCHANGED <<store, queue, lastCursor, edit, server, job>>

-----------------------------------------------------------------------------

CallStep(c) == WriteRecord(c) \/ Enqueue(c)

Push(s)  == (\E j \in Jobs : Post(s, j)) \/ PollCompleted(s) \/ PollFailed(s)

Results(s) ==
    \/ \E a \in sync[s].applied : MarkApplied(s, a) \/ Confirm(s, a)
    \/ \E a \in sync[s].rejected :
          \/ ReadRejected(s, a) \/ ServerWins(s, a)
          \/ \E o \in Ops : HandlerWins(s, a, o)
    \/ AllApplied(s) \/ AllRejected(s)

Finish(s) ==
    \/ Pull(s) \/ SaveCursor(s) \/ Throw(s)
    \/ \E c \in sync[s].pulled : StorePulled(s, c)
    \/ \E t \in sync[s].todo : Retry(s, t) \/ MarkFailed(s, t)

SyncStep(s) == Begin(s) \/ Push(s) \/ Results(s) \/ Finish(s)

SyncFault(s) ==
    \/ (\E j \in Jobs : PostUnanswered(s, j)) \/ PostFails(s)
    \/ GiveUp(s) \/ PullFails(s)

Next ==
    \/ \E c \in Calls :
          \/ \E r \in Recs, o \in Ops : CreateRecord(c, r, o) \/ ReadRecord(c, r, o)
          \/ CallStep(c)
    \/ \E s \in Syncs : SyncStep(s) \/ SyncFault(s)
    \/ \E j \in Jobs : JobStep(j) \/ JobFault(j)
    \/ \E r \in Recs : ForeignPut(r) \/ ForeignDelete(r)
    \/ \E o \in Ops : Elapse(o)
    \/ Reload

\* The timer calls sync() while online, requests are answered or fail, the
\* worker processes its jobs, and time passes; nothing makes the application
\* edit or anything go wrong.
Fairness ==
    /\ \A c \in Calls : WF_vars(CallStep(c))
    /\ \A s \in Syncs : WF_vars(SyncStep(s))
    /\ \A j \in Jobs : WF_vars(JobStep(j))
    /\ \A o \in Ops : WF_vars(Elapse(o))

Spec     == Init /\ [][Next]_vars
FairSpec == Spec /\ Fairness

-----------------------------------------------------------------------------
(* Safety. *)

\* An operation marked applied in the queue has been applied by the server:
\* whatever fails, is repeated or is given up, none is dropped as applied that
\* the server does not have.
AppliedIsDone == \A o \in Ops : queue[o].status = "applied" => o \in done

\* An operation that has been marked applied or failed is never pushed again,
\* although retries are written from what a sync() read before its requests.
SettledIsFinal ==
    [][\A o \in Ops : queue[o].status \in {"applied", "failed"} =>
            queue'[o].status # "pending"]_vars

\* An operation is dropped from the queue only when the server, having rejected
\* it, has not applied it.
DroppedIsNotDone ==
    [][\A o \in Ops : Queued(o) /\ queue'[o] = NoEntry => o \notin done']_vars

\* A local change is in the queue, or about to be.
LocalIsQueued ==
    \A r \in Recs : store[r].data \in Ops =>
        \/ Queued(store[r].data)
        \/ \E c \in Calls : call[c].op = store[r].data

Quiet ==
    /\ \A c \in Calls : call[c] = NoCall
    /\ \A s \in Syncs : At(s, "idle")
    /\ \A o \in Ops : queue[o].status \in {"none", "applied"}
    /\ lastCursor = seq

\* A client with nothing left to push, nothing failed and nothing to pull has
\* no copy that is not the server's.
NothingStale ==
    Quiet => \A r \in Recs : Has(r) =>
                store[r].version = srv[r].version /\ store[r].data = srv[r].data

\* A client that is alone never has a change of its own rejected.
NoOwnConflict ==
    foreign = 0 => \A j \in Jobs : job[j].rejected = {}

-----------------------------------------------------------------------------
(* The inductive invariant of the proofs. *)

Edited(ops)  == \A o \in ops : edit[o] # NoEdit

\* A call under way is about an operation of its own, not queued yet.
CallOK(c) ==
    call[c] # NoCall =>
        /\ call[c].op \in Ops
        /\ edit[call[c].op] # NoEdit
        /\ queue[call[c].op] = NoEntry
        /\ \A d \in Calls \ {c} : call[d].op # call[c].op

QueueOK(o) ==
    /\ queue[o] # NoEntry => edit[o] # NoEdit
    /\ queue[o].status = "applied" => o \in done

\* An answer that says applied is about an applied operation, wherever it is.
SyncOK(s) ==
    /\ At(s, "poll") => sync[s].job \in Jobs
    /\ Edited(OpsOf(sync[s].batch)) /\ Edited(OpsOf(sync[s].todo))
    /\ Edited(OpsOf(sync[s].applied)) /\ Edited(OpsOf(sync[s].rejected))
    /\ OpsOf(sync[s].applied) \subseteq done

JobOK(j) ==
    /\ Edited(job[j].ops) /\ Edited(job[j].todo)
    /\ Edited(OpsOf(job[j].applied)) /\ Edited(OpsOf(job[j].rejected))
    /\ OpsOf(job[j].applied) \subseteq done

\* Holds initially, is preserved by every step, and implies AppliedIsDone.
Inductive ==
    /\ TypeOK
    /\ \A c \in Calls : CallOK(c)
    /\ \A o \in Ops : QueueOK(o)
    /\ \A s \in Syncs : SyncOK(s)
    /\ \A j \in Jobs : JobOK(j)

-----------------------------------------------------------------------------
(* Refinement. *)

Serial == INSTANCE SerialStore WITH
    NoOp      <- None,
    NoRequest <- NoEdit,
    Outsiders <- {Other},
    request   <- edit,
    store     <- [r \in Recs |-> [version |-> srv[r].version, data |-> srv[r].data]],
    applied   <- done,
    checked   <- {r \in Recs : srv[r].version > 0}

\* The server the client works against keeps to what SyncServer implements: jobs
\* that are repeated, given up or run twice at a time apply no operation again,
\* and none to a version its client did not have.
ImplementsSerialStore == Serial!SerialSpec

-----------------------------------------------------------------------------
(* Liveness. *)

\* Every queued operation is settled: applied, dropped or failed.
OperationsSettle == \A o \in Ops : Pending(o) ~> ~Pending(o)

=============================================================================
