----------------------------- MODULE SyncServer -----------------------------
(***************************************************************************)
(* The operation processor of the API server: SyncService.applyOperation    *)
(* and checkIdempotency (src/apps/api/src/sync/sync.service.ts) running in  *)
(* the concurrent slots of the queue worker against PostgreSQL under READ   *)
(* COMMITTED, and RecordsService.create, the other writer of the records    *)
(* table.                                                                   *)
(*                                                                          *)
(* One action is one SQL statement, or several when no other transaction    *)
(* can tell them apart.  A statement that waits for a row lock is an action *)
(* that is not enabled while another transaction holds the lock.  What a    *)
(* transaction has written is kept in tx[w] and reaches the tables at its   *)
(* COMMIT.                                                                  *)
(*                                                                          *)
(* Covered: duplicate and concurrent deliveries of an operation, row locks, *)
(* deadlock detection, failed statements and lost commit acknowledgements,  *)
(* the cursor sequence, cascades of the foreign keys.                       *)
(* Not covered: users and projects (one user's rows are modelled), the      *)
(* collection column, timestamps, the shape of payloads: the data of a row  *)
(* is the operation that wrote it.                                          *)
(***************************************************************************)
EXTENDS Integers, FiniteSets

CONSTANTS
    Workers,   \* the slots of the queue worker (concurrency: 10)
    Ops,       \* idempotency keys, each standing for one client operation
    Recs,      \* record ids
    Nobody,    \* no worker
    NoOp,      \* the data of a row no client operation wrote
    MaxBase,   \* bound on the version a client operation is based on
    MaxSends   \* bound on the deliveries of one operation to a worker

ASSUME SyncServerAssumption ==
    /\ Nobody \notin Workers
    /\ NoOp \notin Ops
    /\ MaxBase \in Nat /\ MaxSends \in Nat

VARIABLES
    request,    \* what each operation asks for; chosen by the clients
    records,    \* table records, version = 0 where there is no row
    versions,   \* table versions, 0 where there is no row
    tombstones, \* table tombstones
    syncOps,    \* status column of table sync_operations, "none" without row
    events,     \* table events
    seq,        \* last value drawn from records_cursor_seq
    recLock,    \* row lock on records (and the key of an uncommitted insert)
    verLock,    \* row lock on versions
    pc,         \* the statement each worker executes next
    cur,        \* the operation each worker is processing, or NoOp
    tx,         \* locals and uncommitted writes of each worker
    out,        \* how the worker's last operation ended
    sent        \* deliveries so far, to bound the model

tables   == <<records, versions, tombstones, syncOps, events>>
locks    == <<recLock, verLock>>
vars     == <<request, records, versions, tombstones, syncOps, events, seq,
              recLock, verLock, pc, cur, tx, out, sent>>

-----------------------------------------------------------------------------
(* Data. *)

\* A create carries the version 1 of the SDK, which the server never reads.
Requests ==
    [type : {"create"}, rec : Recs, base : {1}]
        \cup [type : {"update", "delete"}, rec : Recs, base : 1..MaxBase]

Rows       == [version : Nat, cursor : Nat, data : Ops \cup {NoOp}]
NoRow      == [version |-> 0, cursor |-> 0, data |-> NoOp]
Tombstones == [rec : Recs, cursor : Nat]
Events     == [rec : Recs, op : Ops]

\* saw: the versions row was found and locked by the check of lines 80-131;
\* version, cursor: what the record statement returned; touch: the
\* transaction has a row of versions to write.
NoTx == [saw |-> FALSE, version |-> 0, cursor |-> 0, touch |-> FALSE]
Txs  == [saw : BOOLEAN, version : Nat, cursor : Nat, touch : BOOLEAN]

Exists(r)  == records[r].version > 0
Type(w)    == request[cur[w]].type
Rec(w)     == request[cur[w]].rec
Base(w)    == request[cur[w]].base

InTx  == {"verify", "write", "insert", "versions", "cascade", "commit"}
Pcs   == InTx \cup {"idle", "check", "done"}
Outs  == {"none", "applied", "cached", "rejected", "error"}

\* Type invariant: the tables, locks and locals of processOperations hold only
\* what its statements can put there.
TypeOK ==
    /\ request \in [Ops -> Requests]
    /\ records \in [Recs -> Rows]
    /\ versions \in [Recs -> Nat]
    /\ tombstones \subseteq Tombstones
    /\ syncOps \in [Ops -> {"none", "applied", "rejected"}]
    /\ events \subseteq Events
    /\ seq \in Nat
    /\ recLock \in [Recs -> Workers \cup {Nobody}]
    /\ verLock \in [Recs -> Workers \cup {Nobody}]
    /\ pc \in [Workers -> Pcs]
    /\ cur \in [Workers -> Ops \cup {NoOp}]
    /\ tx \in [Workers -> Txs]
    /\ out \in [Workers -> Outs]
    /\ sent \in [Ops -> 0..MaxSends]

Init ==
    /\ request \in [Ops -> Requests]
    /\ records = [r \in Recs |-> NoRow]
    /\ versions = [r \in Recs |-> 0]
    /\ tombstones = {}
    /\ syncOps = [o \in Ops |-> "none"]
    /\ events = {}
    /\ seq = 0
    /\ recLock = [r \in Recs |-> Nobody]
    /\ verLock = [r \in Recs |-> Nobody]
    /\ pc = [w \in Workers |-> "idle"]
    /\ cur = [w \in Workers |-> NoOp]
    /\ tx = [w \in Workers |-> NoTx]
    /\ out = [w \in Workers |-> "none"]
    /\ sent = [o \in Ops |-> 0]

-----------------------------------------------------------------------------
(* Transactions. *)

Free(lock, w)    == [r \in Recs |-> IF lock[r] = w THEN Nobody ELSE lock[r]]
CanLock(lock, w) == lock[Rec(w)] \in {Nobody, w}
Goto(w, step)    == pc' = [pc EXCEPT ![w] = step]

\* ROLLBACK, or COMMIT, releases every lock, and applyOperation returns.
EndTx(w, outcome) ==
    /\ recLock' = Free(recLock, w)
    /\ verLock' = Free(verLock, w)
    /\ tx' = [tx EXCEPT ![w] = NoTx]
    /\ out' = [out EXCEPT ![w] = outcome]
    /\ Goto(w, "done")

\* The holders of the lock the next statement of w waits for.
WaitsFor(w) ==
    LET wanted == CASE pc[w] \in {"write", "insert"}     -> {recLock[Rec(w)]}
                    [] pc[w] \in {"verify", "versions", "cascade"}
                                                         -> {verLock[Rec(w)]}
                    [] OTHER                             -> {}
    IN  wanted \ {Nobody, w}

-----------------------------------------------------------------------------
(* The job's loop over its operations (processOperations). *)

\* A worker reaches operation o of a job.  The same operation may be in several
\* jobs: the client pushes its pending operations again, a failed job is retried.
Deliver(w, o) ==
    /\ pc[w] = "idle"
    /\ sent[o] < MaxSends
    /\ sent' = [sent EXCEPT ![o] = @ + 1]
    /\ cur' = [cur EXCEPT ![w] = o]
    /\ Goto(w, "check")
    /\ UNCHANGED <<request, tables, seq, locks, tx, out>>

\* Bug: the lookup asks for the status a row is created with.
IsApplied_Pending(o) == syncOps[o] = "pending"

\* The SELECT of checkIdempotency, outside any transaction.
IsApplied(o) == syncOps[o] = "applied"

CheckHit(w) ==
    /\ pc[w] = "check"
    /\ IsApplied(cur[w])
    /\ out' = [out EXCEPT ![w] = "cached"]
    /\ Goto(w, "done")
    /\ UNCHANGED <<request, tables, seq, locks, cur, tx, sent>>

CheckMiss(w) ==
    /\ pc[w] = "check"
    /\ ~IsApplied(cur[w])
    /\ Goto(w, IF Type(w) = "create" THEN "write" ELSE "verify")
    /\ UNCHANGED <<request, tables, seq, locks, cur, tx, out, sent>>

\* The loop goes on with the next operation, or the job ends.
Return(w) ==
    /\ pc[w] = "done"
    /\ cur' = [cur EXCEPT ![w] = NoOp]
    /\ out' = [out EXCEPT ![w] = "none"]
    /\ Goto(w, "idle")
    /\ UNCHANGED <<request, tables, seq, locks, tx, sent>>

-----------------------------------------------------------------------------
(* The version check of updates and deletes: SELECT ... FOR UPDATE OF v. *)

VersionMatches(w) == Base(w) = versions[Rec(w)]

\* No committed row: nothing is locked and the operation proceeds.  A SELECT
\* that waited for a transaction which then deletes the row ends here too.
VerifyNoRow(w) ==
    /\ pc[w] = "verify"
    /\ versions[Rec(w)] = 0
    /\ Goto(w, "write")
    /\ UNCHANGED <<request, tables, seq, locks, cur, tx, out, sent>>

\* Bug: the row is read without FOR UPDATE.
VerifyMatch_NoLock(w) ==
    /\ pc[w] = "verify"
    /\ versions[Rec(w)] > 0
    /\ CanLock(verLock, w)
    /\ VersionMatches(w)
    /\ tx' = [tx EXCEPT ![w].saw = TRUE]
    /\ Goto(w, "write")
    /\ UNCHANGED <<request, tables, seq, locks, cur, out, sent>>

VerifyMatch(w) ==
    /\ pc[w] = "verify"
    /\ versions[Rec(w)] > 0
    /\ CanLock(verLock, w)
    /\ VersionMatches(w)
    /\ verLock' = [verLock EXCEPT ![Rec(w)] = w]
    /\ tx' = [tx EXCEPT ![w].saw = TRUE]
    /\ Goto(w, "write")
    /\ UNCHANGED <<request, tables, seq, recLock, cur, out, sent>>

\* Bug: the ROLLBACK of line 117 is missing, the connection keeps its lock.
VerifyMismatch_NoRollback(w) ==
    /\ pc[w] = "verify"
    /\ versions[Rec(w)] > 0
    /\ CanLock(verLock, w)
    /\ ~VersionMatches(w)
    /\ verLock' = [verLock EXCEPT ![Rec(w)] = w]
    /\ out' = [out EXCEPT ![w] = "rejected"]
    /\ Goto(w, "done")
    /\ UNCHANGED <<request, tables, seq, recLock, cur, tx, sent>>

\* The 'rejected' row is inserted, then the transaction is rolled back: the
\* tables are as they were.
VerifyMismatch(w) ==
    /\ pc[w] = "verify"
    /\ versions[Rec(w)] > 0
    /\ CanLock(verLock, w)
    /\ ~VersionMatches(w)
    /\ EndTx(w, "rejected")
    /\ UNCHANGED <<request, tables, seq, cur, sent>>

-----------------------------------------------------------------------------
(* The mutation. *)

\* An INSERT evaluates the default of its cursor column before it finds out
\* whether the key is free, and keeps the value if it has to wait.
DrawForInsert(w) ==
    /\ seq' = seq + 1
    /\ tx' = [tx EXCEPT ![w].cursor = seq + 1]
    /\ Goto(w, "insert")
    /\ UNCHANGED <<request, tables, locks, cur, out, sent>>

CreateDraw(w) ==
    /\ pc[w] = "write" /\ Type(w) = "create"
    /\ DrawForInsert(w)

\* UPDATE finds no committed row: its fallback is a plain INSERT.
UpdateNoRow(w) ==
    /\ pc[w] = "write" /\ Type(w) = "update"
    /\ ~Exists(Rec(w))
    /\ DrawForInsert(w)

InsertRow(w) ==
    /\ pc[w] = "insert"
    /\ CanLock(recLock, w)
    /\ ~Exists(Rec(w))
    /\ recLock' = [recLock EXCEPT ![Rec(w)] = w]
    /\ tx' = [tx EXCEPT ![w].version = 1]
    /\ Goto(w, "versions")
    /\ UNCHANGED <<request, tables, seq, verLock, cur, out, sent>>

\* Bug: the new version is the client's plus one, not the server's.
BumpRow_FromBase(w) ==
    /\ CanLock(recLock, w)
    /\ Exists(Rec(w))
    /\ recLock' = [recLock EXCEPT ![Rec(w)] = w]
    /\ seq' = seq + 1
    /\ tx' = [tx EXCEPT ![w].version = Base(w) + 1, ![w].cursor = seq + 1]
    /\ Goto(w, "versions")
    /\ UNCHANGED <<request, tables, verLock, cur, out, sent>>

\* version + 1 and a cursor drawn under the lock: the UPDATE of an existing row.
BumpRow(w) ==
    /\ CanLock(recLock, w)
    /\ Exists(Rec(w))
    /\ recLock' = [recLock EXCEPT ![Rec(w)] = w]
    /\ seq' = seq + 1
    /\ tx' = [tx EXCEPT ![w].version = records[Rec(w)].version + 1,
                        ![w].cursor = seq + 1]
    /\ Goto(w, "versions")
    /\ UNCHANGED <<request, tables, verLock, cur, out, sent>>

\* ON CONFLICT (id) DO UPDATE of the create.
CreateOnConflict(w) ==
    /\ pc[w] = "insert" /\ Type(w) = "create"
    /\ BumpRow(w)

UpdateRow(w) ==
    /\ pc[w] = "write" /\ Type(w) = "update"
    /\ BumpRow(w)

\* The fallback INSERT of an update meets a row created since: unique violation.
InsertFails(w) ==
    /\ pc[w] = "insert" /\ Type(w) = "update"
    /\ CanLock(recLock, w)
    /\ Exists(Rec(w))
    /\ EndTx(w, "error")
    /\ UNCHANGED <<request, tables, seq, cur, sent>>

\* Bug: an update leaves the versions row alone.
HasVersionsRow_NotOnUpdate(w) == tx[w].version = 1 \/ Type(w) = "create"

\* An inserted row upserts its versions row, an updated one updates the
\* versions row if there is one (records of POST /records have none).
HasVersionsRow(w) == tx[w].version = 1 \/ Type(w) = "create" \/ versions[Rec(w)] > 0

WriteVersions(w) ==
    /\ pc[w] = "versions"
    /\ IF HasVersionsRow(w)
       THEN /\ CanLock(verLock, w)
            /\ verLock' = [verLock EXCEPT ![Rec(w)] = w]
            /\ tx' = [tx EXCEPT ![w].touch = TRUE]
       ELSE UNCHANGED <<verLock, tx>>
    /\ Goto(w, "commit")
    /\ UNCHANGED <<request, tables, seq, recLock, cur, out, sent>>

DeleteNoRow(w) ==
    /\ pc[w] = "write" /\ Type(w) = "delete"
    /\ ~Exists(Rec(w))
    /\ Goto(w, "commit")
    /\ UNCHANGED <<request, tables, seq, locks, cur, tx, out, sent>>

DeleteRow(w) ==
    /\ pc[w] = "write" /\ Type(w) = "delete"
    /\ CanLock(recLock, w)
    /\ Exists(Rec(w))
    /\ recLock' = [recLock EXCEPT ![Rec(w)] = w]
    /\ tx' = [tx EXCEPT ![w].version = records[Rec(w)].version]
    /\ Goto(w, "cascade")
    /\ UNCHANGED <<request, tables, seq, verLock, cur, out, sent>>

\* Bug: tombstones number themselves, as before migration 00012.
TombstoneCursor_OwnSequence == Cardinality(tombstones) + 1

\* Bug: the default that migration 00012 drops is not set again (NULL).
TombstoneCursor_NoDefault == -1

\* The foreign keys delete the versions and events rows, then the tombstone
\* draws its cursor from the sequence of the records.
TombstoneCursor == seq + 1

DeleteCascade(w) ==
    /\ pc[w] = "cascade"
    /\ IF versions[Rec(w)] > 0
       THEN /\ CanLock(verLock, w)
            /\ verLock' = [verLock EXCEPT ![Rec(w)] = w]
       ELSE UNCHANGED verLock
    /\ seq' = seq + 1
    /\ tx' = [tx EXCEPT ![w].cursor = TombstoneCursor, ![w].touch = TRUE]
    /\ Goto(w, "commit")
    /\ UNCHANGED <<request, tables, recLock, cur, out, sent>>

-----------------------------------------------------------------------------
(* COMMIT. *)

Effective(w) == tx[w].version > 0

NewRow(w) == [version |-> tx[w].version, cursor |-> tx[w].cursor, data |-> cur[w]]

CommitPut(w) ==
    LET r == Rec(w)
    IN  /\ records' = [records EXCEPT ![r] = NewRow(w)]
        /\ versions' = IF tx[w].touch
                       THEN [versions EXCEPT ![r] = tx[w].version] ELSE versions
        /\ events' = events \cup {[rec |-> r, op |-> cur[w]]}
        /\ UNCHANGED tombstones

CommitDelete(w) ==
    LET r == Rec(w)
    IN  IF Effective(w)
        THEN /\ records' = [records EXCEPT ![r] = NoRow]
             /\ versions' = [versions EXCEPT ![r] = 0]
             /\ events' = {e \in events : e.rec # r}
             /\ tombstones' = tombstones \cup {[rec |-> r, cursor |-> tx[w].cursor]}
        ELSE UNCHANGED <<records, versions, events, tombstones>>

\* The events and sync_operations rows are inserted and the transaction commits.
\* When the connection is lost before the answer to COMMIT arrives the caller
\* sees an error although the transaction committed.
Commit(w) ==
    /\ pc[w] = "commit"
    /\ IF Type(w) = "delete" THEN CommitDelete(w) ELSE CommitPut(w)
    /\ syncOps' = [syncOps EXCEPT ![cur[w]] = "applied"]
    /\ \E outcome \in {"applied", "error"} : EndTx(w, outcome)
    /\ UNCHANGED <<request, seq, cur, sent>>

\* A statement fails (connection lost, statement timeout): ROLLBACK.
Fail(w) ==
    /\ pc[w] \in InTx \cup {"check"}
    /\ EndTx(w, "error")
    /\ UNCHANGED <<request, tables, seq, cur, sent>>

\* PostgreSQL aborts one of two transactions that wait for each other.
DeadlockAbort(w) ==
    /\ \E v \in WaitsFor(w) : w \in WaitsFor(v)
    /\ EndTx(w, "error")
    /\ UNCHANGED <<request, tables, seq, cur, sent>>

-----------------------------------------------------------------------------
(* POST /records: RecordsService.create inserts a row under a fresh id and no *)
(* versions row.                                                              *)

DirectCreate(r) ==
    /\ ~Exists(r)
    /\ \A o \in Ops : request[o].rec = r => sent[o] = 0
    /\ seq' = seq + 1
    /\ records' = [records EXCEPT ![r] =
                      [version |-> 1, cursor |-> seq + 1, data |-> NoOp]]
    /\ UNCHANGED <<request, versions, tombstones, syncOps, events, locks,
                   pc, cur, tx, out, sent>>

-----------------------------------------------------------------------------

Step(w) ==
    \/ CheckHit(w) \/ CheckMiss(w) \/ Return(w)
    \/ VerifyNoRow(w) \/ VerifyMatch(w) \/ VerifyMismatch(w)
    \/ CreateDraw(w) \/ CreateOnConflict(w)
    \/ UpdateRow(w) \/ UpdateNoRow(w)
    \/ InsertRow(w) \/ InsertFails(w)
    \/ WriteVersions(w)
    \/ DeleteRow(w) \/ DeleteNoRow(w) \/ DeleteCascade(w)
    \/ Commit(w)
    \/ DeadlockAbort(w)

Next ==
    \/ \E w \in Workers, o \in Ops : Deliver(w, o)
    \/ \E w \in Workers : Step(w) \/ Fail(w)
    \/ \E r \in Recs : DirectCreate(r)

\* The database executes every statement it can, and its deadlock detector runs;
\* nothing makes clients deliver or statements fail.
Fairness == \A w \in Workers : WF_vars(Step(w))

Spec     == Init /\ [][Next]_vars
FairSpec == Spec /\ Fairness

-----------------------------------------------------------------------------
(* Safety. *)

\* A versions row holds the version of its record: the denormalised copy that
\* conflict detection reads never drifts from the table it copies, although the
\* two are written by two statements under two locks.
VersionsMatchRecords ==
    \A r \in Recs : versions[r] > 0 => versions[r] = records[r].version

\* Records and tombstones share one cursor space: no two committed changes have
\* the same cursor, and none has one the sequence has not reached.
CursorsUnique ==
    /\ \A r \in Recs : Exists(r) => records[r].cursor \in 1..seq
    /\ \A t \in tombstones : t.cursor \in 1..seq
    /\ \A r, q \in Recs :
          Exists(r) /\ Exists(q) /\ records[r].cursor = records[q].cursor => r = q
    /\ \A t, u \in tombstones : t.cursor = u.cursor => t = u
    /\ \A r \in Recs, t \in tombstones : Exists(r) => records[r].cursor # t.cursor

\* Every change of a row that clients may have pulled is announced above the
\* cursor they pulled it at: an overwrite raises the version by one and the
\* cursor, a deletion leaves a tombstone with a higher cursor.
ChangesAreAnnounced ==
    [][\A r \in Recs : Exists(r) /\ records'[r] # records[r] =>
          \/ /\ records'[r].version = records[r].version + 1
             /\ records'[r].cursor > records[r].cursor
          \/ /\ records'[r] = NoRow
             /\ \E t \in tombstones' : t.rec = r /\ t.cursor > records[r].cursor
      ]_vars

\* The transaction of w commits and changes a record.
Writes(w) == pc[w] = "commit" /\ pc'[w] = "done" /\ records' # records

\* What the FOR UPDATE check promises: when it found a versions row, the
\* transaction replaces or deletes exactly the version its client had, whatever
\* other transactions did between the check and the commit.
CheckedWritesReplaceTheirBase ==
    [][\A w \in Workers : Writes(w) /\ tx[w].saw => records[Rec(w)].version = Base(w)
      ]_vars

\* An operation recorded as applied never changes a record again.
NeverReapplied ==
    [][\A w \in Workers : Writes(w) => syncOps[cur[w]] # "applied"]_vars

\* "For update and delete operations, the version check is performed inside the
\* same transaction using SELECT ... FOR UPDATE on the versions table,
\* eliminating the TOCTOU race between check and mutation"
\* (sync.service.ts:63-66): an update or delete that commits over a record with a
\* versions row replaces the version its client had.  A check that finds no row
\* locks none, so this holds only where transactions on a record do not overlap.
NoUncheckedOverwrite ==
    [][\A w \in Workers :
          Writes(w) /\ Type(w) # "create" /\ versions[Rec(w)] > 0
              => records[Rec(w)].version = Base(w)
      ]_vars

-----------------------------------------------------------------------------
(* The inductive invariant. *)

\* The statements the uncommitted write of a record lasts over.
HoldsRow(w) == pc[w] \in {"versions", "cascade"} \/ (pc[w] = "commit" /\ Effective(w))

\* Where a worker is says what it is working on.
StageOK(w) ==
    /\ pc[w] # "idle" => cur[w] \in Ops /\ sent[cur[w]] > 0
    /\ pc[w] \in {"idle", "check", "verify", "done"} => tx[w] = NoTx
    /\ pc[w] \in {"write", "insert"} => ~Effective(w)
    /\ pc[w] \in {"insert", "versions"} => Type(w) # "delete"
    /\ pc[w] = "cascade" => Type(w) = "delete"
    /\ pc[w] = "commit" /\ ~Effective(w) => Type(w) = "delete"
    /\ tx[w].touch => pc[w] = "commit"

\* A worker with an uncommitted write holds the row, and what the statement
\* computed from the row still holds of it.
RowHeld(w) ==
    HoldsRow(w) =>
        /\ recLock[Rec(w)] = w
        /\ tx[w].version = IF Type(w) = "delete" THEN records[Rec(w)].version
                                                 ELSE records[Rec(w)].version + 1
        /\ Type(w) = "delete" => Exists(Rec(w))

\* A worker that found its versions row keeps it locked and unchanged.
CheckHeld(w) ==
    tx[w].saw => verLock[Rec(w)] = w /\ versions[Rec(w)] = Base(w)

\* A worker about to commit has locked the versions row it will write.
VersionsHeld(w) ==
    pc[w] = "commit" /\ Effective(w) =>
        /\ Type(w) # "delete" /\ tx[w].touch => verLock[Rec(w)] = w
        /\ versions[Rec(w)] > 0 => tx[w].touch /\ verLock[Rec(w)] = w

WorkerOK(w) == StageOK(w) /\ RowHeld(w) /\ CheckHeld(w) /\ VersionsHeld(w)

\* A cursor drawn and not yet committed is not the cursor of a committed change.
CursorFresh(w) ==
    tx[w].cursor # 0 =>
        /\ tx[w].cursor <= seq
        /\ \A r \in Recs : Exists(r) => records[r].cursor # tx[w].cursor
        /\ \A t \in tombstones : t.cursor # tx[w].cursor

\* An uncommitted write has a cursor, above that of the row it will replace.
CursorDrawn(w) ==
    /\ pc[w] \in {"insert", "versions"} \/ (pc[w] = "commit" /\ Effective(w))
          => tx[w].cursor # 0
    /\ HoldsRow(w) /\ pc[w] # "cascade" /\ Exists(Rec(w))
          => tx[w].cursor > records[Rec(w)].cursor

DrawnCursorsUnique ==
    \A v, w \in Workers : tx[v].cursor = tx[w].cursor /\ tx[w].cursor # 0 => v = w

\* Holds initially, is preserved by every statement of applyOperation, and
\* implies the safety properties: what a transaction has read under a lock still
\* holds, and the cursors it has drawn are nobody else's.
Inductive ==
    /\ TypeOK
    /\ \A w \in Workers : WorkerOK(w) /\ CursorFresh(w) /\ CursorDrawn(w)
    /\ DrawnCursorsUnique
    /\ VersionsMatchRecords
    /\ CursorsUnique

-----------------------------------------------------------------------------
(* Refinement. *)

Store == INSTANCE VersionedStore WITH
    store   <- [r \in Recs |-> [version |-> records[r].version,
                                data    |-> records[r].data]],
    applied <- {o \in Ops : syncOps[o] = "applied"}

\* The processor implements the abstract store: every change of the tables is
\* the whole effect of one operation, recorded as applied by the same commit.
ImplementsStore == Store!Spec

Feed == INSTANCE CursorFeed WITH
    Writers     <- Workers,
    FirstCursor <- 0,
    rows        <- [r \in Recs |-> IF Exists(r) THEN records[r].cursor ELSE 0],
    graves      <- tombstones,
    drawn       <- [w \in Workers |-> tx[w].cursor]

\* The processor implements the feed of changes that clients pull: cursors
\* become visible out of order, but those of one record only ever rise.
ImplementsFeed == Feed!FeedSpec

Serial == INSTANCE SerialStore WITH
    store     <- [r \in Recs |-> [version |-> records[r].version,
                                  data    |-> records[r].data]],
    applied   <- {o \in Ops : syncOps[o] = "applied"},
    checked   <- {r \in Recs : versions[r] > 0},
    NoRequest <- NoOp,
    Outsiders <- {}

\* Where transactions do not overlap, the processor implements the store its
\* clients see: each operation is applied once and to the version its client
\* had, for the records that have a row of versions, which are those an
\* operation inserted and not those of POST /records.
ImplementsSerialStore == Serial!SerialSpec

-----------------------------------------------------------------------------
(* Liveness. *)

\* Every operation a worker takes up is finished, applied or not: no order of
\* row locks, aborts and rollbacks leaves a worker waiting for ever.
OperationsFinish ==
    \A w \in Workers : pc[w] = "check" ~> pc[w] = "idle"

=============================================================================
