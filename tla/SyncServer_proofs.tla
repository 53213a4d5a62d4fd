------------------------- MODULE SyncServer_proofs -------------------------
(***************************************************************************)
(* Proofs about SyncServer, for any number of workers, operations, records  *)
(* and deliveries.                                                          *)
(***************************************************************************)
EXTENDS SyncServer, TLAPS

USE DEF tables, locks

-----------------------------------------------------------------------------
(* Type correctness. *)

\* Ending a transaction only frees locks and resets the worker's locals.
LEMMA EndTxType ==
    ASSUME TypeOK, NEW w \in Workers, NEW outcome \in Outs, EndTx(w, outcome)
    PROVE  /\ recLock' \in [Recs -> Workers \cup {Nobody}]
           /\ verLock' \in [Recs -> Workers \cup {Nobody}]
           /\ pc' \in [Workers -> Pcs]
           /\ tx' \in [Workers -> Txs]
           /\ out' \in [Workers -> Outs]
BY DEF TypeOK, EndTx, Free, Goto, Txs, NoTx, Pcs, InTx, Outs

\* A worker that is not idle has an operation.  With it the operators Type, Rec
\* and Base of the worker are defined.
Busy == \A w \in Workers : pc[w] # "idle" => cur[w] \in Ops

LEMMA BusyType ==
    ASSUME TypeOK, Busy, NEW w \in Workers, pc[w] # "idle"
    PROVE  /\ cur[w] \in Ops
           /\ Rec(w) \in Recs
           /\ Type(w) \in {"create", "update", "delete"}
           /\ Base(w) \in Nat
           /\ tx[w] \in Txs
           /\ records[Rec(w)] \in Rows
           /\ versions[Rec(w)] \in Nat
<1>1. cur[w] \in Ops /\ request[cur[w]] \in Requests /\ tx[w] \in Txs
  BY DEF TypeOK, Busy
<1>2. Rec(w) \in Recs /\ Type(w) \in {"create", "update", "delete"} /\ Base(w) \in Nat
  BY <1>1, SyncServerAssumption DEF Requests, Rec, Type, Base
<1>3. QED
  BY <1>1, <1>2 DEF TypeOK

LEMMA TypeStep ==
    ASSUME TypeOK, Busy, [Next]_vars
    PROVE  TypeOK' /\ Busy'
<1> USE DEF TypeOK, Busy, Goto, Pcs, InTx
<1>1. ASSUME NEW w \in Workers, NEW o \in Ops, Deliver(w, o)
      PROVE  TypeOK' /\ Busy'
  BY <1>1, SyncServerAssumption DEF Deliver
<1>2. ASSUME NEW w \in Workers, CheckHit(w)
      PROVE  TypeOK' /\ Busy'
  BY <1>2 DEF CheckHit, Outs
<1>3. ASSUME NEW w \in Workers, CheckMiss(w)
      PROVE  TypeOK' /\ Busy'
  BY <1>3 DEF CheckMiss
<1>4. ASSUME NEW w \in Workers, Return(w)
      PROVE  TypeOK' /\ Busy'
  BY <1>4 DEF Return, Outs
<1>5. ASSUME NEW w \in Workers, VerifyNoRow(w)
      PROVE  TypeOK' /\ Busy'
  BY <1>5 DEF VerifyNoRow
<1>6. ASSUME NEW w \in Workers, VerifyMatch(w)
      PROVE  TypeOK' /\ Busy'
  BY <1>6, BusyType DEF VerifyMatch, Txs
<1>7. ASSUME NEW w \in Workers, VerifyMismatch(w)
      PROVE  TypeOK' /\ Busy'
  BY <1>7, EndTxType DEF VerifyMismatch, Outs, EndTx
<1>8. ASSUME NEW w \in Workers, DrawForInsert(w), pc[w] = "write"
      PROVE  TypeOK' /\ Busy'
  BY <1>8 DEF DrawForInsert, Txs
<1>9. ASSUME NEW w \in Workers, InsertRow(w)
      PROVE  TypeOK' /\ Busy'
  BY <1>9, BusyType DEF InsertRow, Txs
<1>10. ASSUME NEW w \in Workers, BumpRow(w), pc[w] \in {"write", "insert"}
       PROVE  TypeOK' /\ Busy'
  <2>1. tx[w] \in Txs /\ Rec(w) \in Recs /\ records[Rec(w)] \in Rows
    BY <1>10, BusyType
  <2>2. tx' \in [Workers -> Txs]
    <3>1. records[Rec(w)].version + 1 \in Nat /\ seq + 1 \in Nat
      BY <2>1 DEF Rows
    <3>2. QED
      BY <3>1, <1>10 DEF BumpRow, Txs
  <2>3. QED
    BY <2>1, <2>2, <1>10 DEF BumpRow
<1>11. ASSUME NEW w \in Workers, InsertFails(w)
       PROVE  TypeOK' /\ Busy'
  BY <1>11, EndTxType DEF InsertFails, Outs, EndTx
<1>12. ASSUME NEW w \in Workers, WriteVersions(w)
       PROVE  TypeOK' /\ Busy'
  <2>1. tx[w] \in Txs /\ Rec(w) \in Recs
    BY <1>12, BusyType DEF WriteVersions
  <2>2. tx' \in [Workers -> Txs] /\ verLock' \in [Recs -> Workers \cup {Nobody}]
    <3>1. CASE HasVersionsRow(w)
      <4>1. tx' = [tx EXCEPT ![w].touch = TRUE]
        BY <3>1, <1>12 DEF WriteVersions
      <4>2. tx' \in [Workers -> Txs]
        BY <4>1 DEF Txs
      <4>3. QED
        BY <2>1, <3>1, <4>2, <1>12 DEF WriteVersions
    <3>2. CASE ~HasVersionsRow(w)
      BY <3>2, <1>12 DEF WriteVersions
    <3>3. QED
      BY <3>1, <3>2
  <2>3. QED
    BY <2>2, <1>12 DEF WriteVersions
<1>13. ASSUME NEW w \in Workers, DeleteNoRow(w)
       PROVE  TypeOK' /\ Busy'
  BY <1>13 DEF DeleteNoRow
<1>14. ASSUME NEW w \in Workers, DeleteRow(w)
       PROVE  TypeOK' /\ Busy'
  BY <1>14, BusyType DEF DeleteRow, Txs, Rows
<1>15. ASSUME NEW w \in Workers, DeleteCascade(w)
       PROVE  TypeOK' /\ Busy'
  <2>1. tx[w] \in Txs /\ Rec(w) \in Recs
    BY <1>15, BusyType DEF DeleteCascade
  <2>2. tx' \in [Workers -> Txs] /\ verLock' \in [Recs -> Workers \cup {Nobody}]
    <3>1. tx' \in [Workers -> Txs]
      <4>1. tx' = [tx EXCEPT ![w].cursor = seq + 1, ![w].touch = TRUE] /\ seq + 1 \in Nat
        BY <1>15 DEF DeleteCascade, TombstoneCursor
      <4>2. QED
        BY <4>1 DEF Txs
    <3>2. verLock' \in [Recs -> Workers \cup {Nobody}]
      BY <2>1, <1>15 DEF DeleteCascade
    <3>3. QED
      BY <3>1, <3>2
  <2>3. QED
    BY <2>2, <1>15 DEF DeleteCascade
<1>16. ASSUME NEW w \in Workers, Commit(w)
       PROVE  TypeOK' /\ Busy'
  <2>1. cur[w] \in Ops /\ Rec(w) \in Recs /\ tx[w] \in Txs
    BY <1>16, BusyType DEF Commit
  <2>2. records' \in [Recs -> Rows] /\ versions' \in [Recs -> Nat]
    <3>1. NewRow(w) \in Rows /\ NoRow \in Rows /\ tx[w].version \in Nat
      BY <2>1 DEF NewRow, NoRow, Rows, Txs
    <3>2. QED
      BY <2>1, <3>1, <1>16 DEF Commit, CommitPut, CommitDelete
  <2>3. tombstones' \subseteq Tombstones /\ events' \subseteq Events
    BY <2>1, <1>16 DEF Commit, CommitPut, CommitDelete, Tombstones, Events, Txs
  <2>4. QED
    BY <2>1, <2>2, <2>3, <1>16, EndTxType DEF Commit, Outs, EndTx
<1>17. ASSUME NEW w \in Workers, Fail(w)
       PROVE  TypeOK' /\ Busy'
  BY <1>17, EndTxType DEF Fail, Outs, EndTx
<1>18. ASSUME NEW w \in Workers, DeadlockAbort(w)
       PROVE  TypeOK' /\ Busy'
  <2>1. pc[w] # "idle"
    BY <1>18 DEF DeadlockAbort, WaitsFor
  <2>2. QED
    BY <2>1, <1>18, EndTxType DEF DeadlockAbort, Outs, EndTx
<1>19. ASSUME NEW r \in Recs, DirectCreate(r)
       PROVE  TypeOK' /\ Busy'
  BY <1>19 DEF DirectCreate, Rows
<1>20. CASE UNCHANGED vars
  BY <1>20 DEF vars
<1>21. QED
  BY <1>1, <1>2, <1>3, <1>4, <1>5, <1>6, <1>7, <1>8, <1>9, <1>10, <1>11, <1>12,
     <1>13, <1>14, <1>15, <1>16, <1>17, <1>18, <1>19, <1>20
  DEF Next, Step, CreateDraw, UpdateNoRow, CreateOnConflict, UpdateRow

\* Every table, lock and local keeps its type: theorem behind the TypeOK of the
\* runs, for every instance.
THEOREM TypeCorrect == Spec => []TypeOK
<1>1. Init => TypeOK /\ Busy
  BY SyncServerAssumption DEF Init, TypeOK, Busy, NoRow, Rows, NoTx, Txs, Pcs, Outs
<1>2. TypeOK /\ Busy /\ [Next]_vars => TypeOK' /\ Busy'
  BY TypeStep
<1>3. QED
  BY <1>1, <1>2, PTL DEF Spec

-----------------------------------------------------------------------------
(* The locking protocol. *)

Locking == TypeOK /\ (\A w \in Workers : WorkerOK(w)) /\ VersionsMatchRecords

LEMMA LockingBusy == ASSUME Locking PROVE Busy
BY DEF Locking, WorkerOK, StageOK, Busy

\* A step does not disturb worker v: it leaves v's locals and locks alone, and
\* the rows v has locked.
Undisturbed(v) ==
    /\ request' = request
    /\ \A o \in Ops : sent'[o] >= sent[o]
    /\ pc'[v] = pc[v] /\ cur'[v] = cur[v] /\ tx'[v] = tx[v]
    /\ \A r \in Recs : recLock[r] = v => recLock'[r] = v
    /\ \A r \in Recs : verLock[r] = v => verLock'[r] = v
    /\ HoldsRow(v) => records'[Rec(v)] = records[Rec(v)]
    /\ HoldsRow(v) \/ tx[v].saw => versions'[Rec(v)] = versions[Rec(v)]

LEMMA UndisturbedKeeps ==
    ASSUME Locking, TypeOK', NEW v \in Workers, Undisturbed(v)
    PROVE  WorkerOK(v)'
<1>1. WorkerOK(v) /\ (pc[v] # "idle" => cur[v] \in Ops)
  BY DEF Locking, WorkerOK, StageOK
<1>2. tx[v].saw \/ HoldsRow(v) => pc[v] # "idle"
  BY <1>1 DEF WorkerOK, StageOK, NoTx, HoldsRow
<1>3. pc[v] # "idle" => Rec(v) \in Recs
  BY <1>1 DEF Locking, TypeOK, Rec, Requests
<1>4. StageOK(v)'
  <2>1. pc[v] # "idle" => sent'[cur[v]] > 0
    <3>1. SUFFICES ASSUME pc[v] # "idle"
                   PROVE  sent'[cur[v]] > 0
      OBVIOUS
    <3>2. cur[v] \in Ops /\ sent[cur[v]] > 0
      BY <1>1, <3>1 DEF WorkerOK, StageOK
    <3>3. sent[cur[v]] \in Int /\ sent'[cur[v]] \in Int /\ sent'[cur[v]] >= sent[cur[v]]
      BY <3>2 DEF Locking, TypeOK, Undisturbed
    <3>4. QED
      BY <3>2, <3>3
  <2>2. QED
    BY <1>1, <2>1 DEF Undisturbed, WorkerOK, StageOK, Type, Effective
<1>5. RowHeld(v)'
  BY <1>1, <1>2, <1>3 DEF Undisturbed, WorkerOK, RowHeld, HoldsRow, Effective, Type, Rec, Exists
<1>6. CheckHeld(v)'
  BY <1>1, <1>2, <1>3 DEF Undisturbed, WorkerOK, CheckHeld, Rec, Base
<1>7. VersionsHeld(v)'
  BY <1>1, <1>2, <1>3 DEF Undisturbed, WorkerOK, VersionsHeld, HoldsRow, Effective, Type, Rec
<1>8. QED
  BY <1>4, <1>5, <1>6, <1>7 DEF WorkerOK

\* A transaction that ends without a commit: rollback.
LEMMA RollbackKeeps ==
    ASSUME Locking, TypeOK', NEW w \in Workers, NEW outcome \in Outs, pc[w] # "idle",
           EndTx(w, outcome), UNCHANGED <<request, records, versions, cur, sent>>
    PROVE  \A v \in Workers : WorkerOK(v)'
<1>1. \A v \in Workers \ {w} : Undisturbed(v)
  BY DEF Locking, TypeOK, EndTx, Free, Goto, Undisturbed
<1>2. WorkerOK(w)'
  <2>1. pc'[w] = "done" /\ tx'[w] = NoTx
    BY DEF Locking, TypeOK, EndTx, Goto
  <2>2. cur[w] \in Ops /\ sent[cur[w]] > 0
    BY DEF Locking, WorkerOK, StageOK
  <2>3. QED
    BY <2>1, <2>2 DEF WorkerOK, StageOK, RowHeld, CheckHeld, VersionsHeld, HoldsRow,
                      Effective, NoTx
<1>3. QED
  BY <1>1, <1>2, UndisturbedKeeps

\* A step of one worker that leaves the tables alone keeps the protocol if it
\* keeps the worker's own part of it.
LEMMA LocalStep ==
    ASSUME Locking, TypeOK', NEW w \in Workers, WorkerOK(w)',
           \A v \in Workers \ {w} : Undisturbed(v),
           records' = records, versions' = versions
    PROVE  Locking'
<1>1. \A v \in Workers : WorkerOK(v)'
  BY UndisturbedKeeps
<1>2. VersionsMatchRecords'
  BY DEF Locking, VersionsMatchRecords
<1>3. QED
  BY <1>1, <1>2 DEF Locking


\* What is known of a worker in the middle of an operation.
WorkerFacts(w) ==
    /\ cur[w] \in Ops /\ Rec(w) \in Recs /\ Base(w) \in Nat
    /\ Type(w) \in {"create", "update", "delete"}
    /\ tx[w] \in Txs
    /\ tx[w].version \in Nat
    /\ records[Rec(w)].version \in Nat /\ records[Rec(w)].cursor \in Nat
    /\ versions[Rec(w)] \in Nat
    /\ Nobody \notin Workers
    /\ StageOK(w) /\ RowHeld(w) /\ CheckHeld(w) /\ VersionsHeld(w)

LEMMA Facts ==
    ASSUME Locking, NEW w \in Workers, pc[w] # "idle"
    PROVE  WorkerFacts(w)
<1>1. WorkerOK(w)
  BY DEF Locking
<1>2. tx[w] \in Txs /\ records[Rec(w)] \in Rows /\ Rec(w) \in Recs /\ Base(w) \in Nat
      /\ Type(w) \in {"create", "update", "delete"} /\ versions[Rec(w)] \in Nat /\ cur[w] \in Ops
  BY LockingBusy, BusyType DEF Locking
<1>3. QED
  BY <1>1, <1>2, SyncServerAssumption DEF WorkerFacts, WorkerOK, Txs, Rows

LEMMA LockingStep ==
    ASSUME Locking, TypeOK', [Next]_vars
    PROVE  Locking'
<1> USE DEF Locking, Goto
<1>1. ASSUME NEW w \in Workers, NEW o \in Ops, Deliver(w, o)
      PROVE  Locking'
  <2>1. /\ \A v \in Workers \ {w} : Undisturbed(v)
        /\ records' = records /\ versions' = versions
    BY <1>1 DEF Deliver, Undisturbed, TypeOK
  <2>2. WorkerOK(w)'
    BY <1>1 DEF Deliver, TypeOK, WorkerOK, StageOK, RowHeld, CheckHeld, VersionsHeld, HoldsRow, NoTx
  <2>3. QED
    BY <2>1, <2>2, LocalStep
<1>2. ASSUME NEW w \in Workers, CheckHit(w)
      PROVE  Locking'
  <2>1. WorkerFacts(w)
    BY <1>2, Facts DEF CheckHit
  <2>2. /\ \A v \in Workers \ {w} : Undisturbed(v)
        /\ records' = records /\ versions' = versions
    BY <1>2, <2>1 DEF CheckHit, Undisturbed, WorkerFacts, TypeOK
  <2>3. WorkerOK(w)'
    BY <1>2, <2>1 DEF CheckHit, WorkerFacts, TypeOK, WorkerOK, StageOK, RowHeld, CheckHeld, VersionsHeld, HoldsRow, Effective, Type, Rec, Base, NoTx
  <2>4. QED
    BY <2>2, <2>3, LocalStep
<1>3. ASSUME NEW w \in Workers, CheckMiss(w)
      PROVE  Locking'
  <2>1. WorkerFacts(w)
    BY <1>3, Facts DEF CheckMiss
  <2>2. /\ \A v \in Workers \ {w} : Undisturbed(v)
        /\ records' = records /\ versions' = versions
    BY <1>3, <2>1 DEF CheckMiss, Undisturbed, WorkerFacts, TypeOK
  <2>3. WorkerOK(w)'
    BY <1>3, <2>1 DEF CheckMiss, WorkerFacts, TypeOK, WorkerOK, StageOK, RowHeld, CheckHeld, VersionsHeld, HoldsRow, Effective, Type, Rec, Base, NoTx
  <2>4. QED
    BY <2>2, <2>3, LocalStep
<1>4. ASSUME NEW w \in Workers, Return(w)
      PROVE  Locking'
  <2>1. WorkerFacts(w)
    BY <1>4, Facts DEF Return
  <2>2. /\ \A v \in Workers \ {w} : Undisturbed(v)
        /\ records' = records /\ versions' = versions
    BY <1>4, <2>1 DEF Return, Undisturbed, WorkerFacts, TypeOK
  <2>3. WorkerOK(w)'
    BY <1>4, <2>1 DEF Return, WorkerFacts, TypeOK, WorkerOK, StageOK, RowHeld, CheckHeld, VersionsHeld, HoldsRow, Effective, Type, Rec, Base, NoTx
  <2>4. QED
    BY <2>2, <2>3, LocalStep
<1>5. ASSUME NEW w \in Workers, VerifyNoRow(w)
      PROVE  Locking'
  <2>1. WorkerFacts(w)
    BY <1>5, Facts DEF VerifyNoRow
  <2>2. /\ \A v \in Workers \ {w} : Undisturbed(v)
        /\ records' = records /\ versions' = versions
    BY <1>5, <2>1 DEF VerifyNoRow, Undisturbed, WorkerFacts, TypeOK
  <2>3. WorkerOK(w)'
    BY <1>5, <2>1 DEF VerifyNoRow, WorkerFacts, TypeOK, WorkerOK, StageOK, RowHeld, CheckHeld, VersionsHeld, HoldsRow, Effective, Type, Rec, Base, NoTx
  <2>4. QED
    BY <2>2, <2>3, LocalStep
<1>6. ASSUME NEW w \in Workers, VerifyMatch(w)
      PROVE  Locking'
  <2>1. WorkerFacts(w)
    BY <1>6, Facts DEF VerifyMatch, CanLock, VersionMatches
  <2>2. /\ \A v \in Workers \ {w} : Undisturbed(v)
        /\ records' = records /\ versions' = versions
    BY <1>6, <2>1 DEF VerifyMatch, CanLock, VersionMatches, Undisturbed, WorkerFacts, TypeOK
  <2>3. WorkerOK(w)'
    BY <1>6, <2>1 DEF VerifyMatch, CanLock, VersionMatches, WorkerFacts, TypeOK, WorkerOK, StageOK, RowHeld, CheckHeld, VersionsHeld, HoldsRow, Effective, Type, Rec, Base, NoTx
  <2>4. QED
    BY <2>2, <2>3, LocalStep
<1>7. ASSUME NEW w \in Workers, DrawForInsert(w), pc[w] = "write", Type(w) # "delete"
      PROVE  Locking'
  <2>1. WorkerFacts(w)
    BY <1>7, Facts DEF DrawForInsert
  <2>2. /\ \A v \in Workers \ {w} : Undisturbed(v)
        /\ records' = records /\ versions' = versions
    BY <1>7, <2>1 DEF DrawForInsert, Undisturbed, WorkerFacts, TypeOK
  <2>3. WorkerOK(w)'
    BY <1>7, <2>1 DEF DrawForInsert, WorkerFacts, TypeOK, WorkerOK, StageOK, RowHeld, CheckHeld, VersionsHeld, HoldsRow, Effective, Type, Rec, Base, NoTx
  <2>4. QED
    BY <2>2, <2>3, LocalStep
<1>8. ASSUME NEW w \in Workers, InsertRow(w)
      PROVE  Locking'
  <2>1. WorkerFacts(w)
    BY <1>8, Facts DEF InsertRow, CanLock, Exists
  <2>2. /\ \A v \in Workers \ {w} : Undisturbed(v)
        /\ records' = records /\ versions' = versions
    BY <1>8, <2>1 DEF InsertRow, CanLock, Exists, Undisturbed, WorkerFacts, TypeOK
  <2>3. WorkerOK(w)'
    BY <1>8, <2>1 DEF InsertRow, CanLock, Exists, WorkerFacts, TypeOK, WorkerOK, StageOK, RowHeld, CheckHeld, VersionsHeld, HoldsRow, Effective, Type, Rec, Base, NoTx
  <2>4. QED
    BY <2>2, <2>3, LocalStep
<1>9. ASSUME NEW w \in Workers, BumpRow(w), pc[w] \in {"write", "insert"}, Type(w) # "delete"
      PROVE  Locking'
  <2>1. WorkerFacts(w)
    BY <1>9, Facts DEF BumpRow, CanLock, Exists
  <2>2. /\ \A v \in Workers \ {w} : Undisturbed(v)
        /\ records' = records /\ versions' = versions
    BY <1>9, <2>1 DEF BumpRow, CanLock, Exists, Undisturbed, WorkerFacts, TypeOK
  <2>3. WorkerOK(w)'
    BY <1>9, <2>1, SMTT(30) DEF BumpRow, CanLock, Exists, WorkerFacts, TypeOK, WorkerOK, StageOK, RowHeld, CheckHeld, VersionsHeld, HoldsRow, Effective, Type, Rec, Base, NoTx
  <2>4. QED
    BY <2>2, <2>3, LocalStep
<1>10. ASSUME NEW w \in Workers, WriteVersions(w)
      PROVE  Locking'
  <2>1. WorkerFacts(w)
    BY <1>10, Facts DEF WriteVersions, CanLock, HasVersionsRow
  <2>2. /\ \A v \in Workers \ {w} : Undisturbed(v)
        /\ records' = records /\ versions' = versions
    BY <1>10, <2>1 DEF WriteVersions, CanLock, HasVersionsRow, Undisturbed, WorkerFacts, TypeOK
  <2>3. WorkerOK(w)'
    <3>1. /\ pc'[w] = "commit" /\ cur' = cur /\ request' = request /\ sent' = sent
          /\ tx'[w].version = tx[w].version /\ tx'[w].saw = tx[w].saw
          /\ recLock' = recLock
      BY <1>10, <2>1 DEF WriteVersions, WorkerFacts, TypeOK, Txs
    <3>2. /\ HasVersionsRow(w) => tx'[w].touch /\ verLock'[Rec(w)] = w
          /\ ~HasVersionsRow(w) => tx'[w].touch = tx[w].touch /\ verLock' = verLock
      BY <1>10, <2>1 DEF WriteVersions, WorkerFacts, TypeOK, Txs
    <3>3. StageOK(w)'
      BY <1>10, <2>1, <2>2, <3>1 DEF WriteVersions, WorkerFacts, StageOK, RowHeld, HoldsRow, Effective, Type, Rec
    <3>4. RowHeld(w)'
      BY <1>10, <2>1, <2>2, <3>1 DEF WriteVersions, WorkerFacts, RowHeld, HoldsRow, Type, Rec, Exists
    <3>5. CheckHeld(w)'
      BY <1>10, <2>1, <2>2, <3>1, <3>2 DEF WriteVersions, WorkerFacts, CheckHeld, Rec, Base
    <3>6. ~HasVersionsRow(w) => ~tx[w].touch /\ ~(versions[Rec(w)] > 0)
      BY <1>10, <2>1 DEF WriteVersions, WorkerFacts, StageOK, HasVersionsRow
    <3>7. VersionsHeld(w)'
      BY <2>1, <2>2, <3>1, <3>2, <3>6 DEF VersionsHeld, Type, Rec
    <3>8. QED
      BY <3>3, <3>4, <3>5, <3>7 DEF WorkerOK
  <2>4. QED
    BY <2>2, <2>3, LocalStep
<1>11. ASSUME NEW w \in Workers, DeleteNoRow(w)
      PROVE  Locking'
  <2>1. WorkerFacts(w)
    BY <1>11, Facts DEF DeleteNoRow
  <2>2. /\ \A v \in Workers \ {w} : Undisturbed(v)
        /\ records' = records /\ versions' = versions
    BY <1>11, <2>1 DEF DeleteNoRow, Undisturbed, WorkerFacts, TypeOK
  <2>3. WorkerOK(w)'
    BY <1>11, <2>1 DEF DeleteNoRow, WorkerFacts, TypeOK, WorkerOK, StageOK, RowHeld, CheckHeld, VersionsHeld, HoldsRow, Effective, Type, Rec, Base, NoTx
  <2>4. QED
    BY <2>2, <2>3, LocalStep
<1>12. ASSUME NEW w \in Workers, DeleteRow(w)
      PROVE  Locking'
  <2>1. WorkerFacts(w)
    BY <1>12, Facts DEF DeleteRow, CanLock, Exists
  <2>2. /\ \A v \in Workers \ {w} : Undisturbed(v)
        /\ records' = records /\ versions' = versions
    BY <1>12, <2>1 DEF DeleteRow, CanLock, Exists, Undisturbed, WorkerFacts, TypeOK
  <2>3. WorkerOK(w)'
    BY <1>12, <2>1 DEF DeleteRow, CanLock, Exists, WorkerFacts, TypeOK, WorkerOK, StageOK, RowHeld, CheckHeld, VersionsHeld, HoldsRow, Effective, Type, Rec, Base, NoTx
  <2>4. QED
    BY <2>2, <2>3, LocalStep
<1>13. ASSUME NEW w \in Workers, DeleteCascade(w)
      PROVE  Locking'
  <2>1. WorkerFacts(w)
    BY <1>13, Facts DEF DeleteCascade, CanLock, TombstoneCursor
  <2>2. /\ \A v \in Workers \ {w} : Undisturbed(v)
        /\ records' = records /\ versions' = versions
    BY <1>13, <2>1 DEF DeleteCascade, CanLock, TombstoneCursor, Undisturbed, WorkerFacts, TypeOK
  <2>3. WorkerOK(w)'
    <3>1. /\ pc'[w] = "commit" /\ cur' = cur /\ request' = request /\ sent' = sent
          /\ tx'[w].version = tx[w].version /\ tx'[w].saw = tx[w].saw /\ tx'[w].touch
          /\ recLock' = recLock
      BY <1>13, <2>1 DEF DeleteCascade, TombstoneCursor, WorkerFacts, TypeOK, Txs
    <3>2. /\ versions[Rec(w)] > 0 => verLock'[Rec(w)] = w
          /\ ~(versions[Rec(w)] > 0) => verLock' = verLock
      BY <1>13, <2>1 DEF DeleteCascade, WorkerFacts, TypeOK
    <3>3. StageOK(w)'
      BY <1>13, <2>1, <3>1 DEF DeleteCascade, WorkerFacts, StageOK, Effective, Type
    <3>4. RowHeld(w)'
      BY <1>13, <2>1, <2>2, <3>1 DEF DeleteCascade, WorkerFacts, RowHeld, HoldsRow, Type, Rec, Exists
    <3>5. CheckHeld(w)' /\ VersionsHeld(w)'
      BY <1>13, <2>1, <2>2, <3>1, <3>2
      DEF DeleteCascade, WorkerFacts, CheckHeld, VersionsHeld, StageOK, Type, Rec, Base
    <3>6. QED
      BY <3>3, <3>4, <3>5 DEF WorkerOK
  <2>4. QED
    BY <2>2, <2>3, LocalStep
<1>14. ASSUME NEW w \in Workers, Commit(w)
       PROVE  Locking'
  <2>1. WorkerFacts(w)
    BY <1>14, Facts DEF Commit
  <2>2. /\ pc'[w] = "done" /\ tx'[w] = NoTx
        /\ request' = request /\ cur' = cur /\ sent' = sent
    BY <1>14 DEF Commit, EndTx, TypeOK
  <2>3. WorkerOK(w)'
    BY <1>14, <2>1, <2>2 DEF Commit, WorkerFacts, WorkerOK, StageOK, RowHeld, CheckHeld,
                             VersionsHeld, HoldsRow, Effective, NoTx
  <2>4. Effective(w) => /\ HoldsRow(w)
                        /\ \A r \in Recs \ {Rec(w)} : records'[r] = records[r]
                                                   /\ versions'[r] = versions[r]
    BY <1>14, <2>1 DEF Commit, CommitPut, CommitDelete, HoldsRow, WorkerFacts, TypeOK
  <2>5. ~Effective(w) => records' = records /\ versions' = versions
    BY <1>14, <2>1 DEF Commit, CommitDelete, WorkerFacts, StageOK
  <2>6. verLock[Rec(w)] # w => versions' = versions
    BY <1>14, <2>1, <2>5 DEF Commit, CommitPut, CommitDelete, WorkerFacts, VersionsHeld, TypeOK
  <2>7. ASSUME NEW v \in Workers \ {w}
        PROVE  Undisturbed(v)
    <3>1. /\ pc'[v] = pc[v] /\ tx'[v] = tx[v]
          /\ \A r \in Recs : recLock[r] = v => recLock'[r] = v
          /\ \A r \in Recs : verLock[r] = v => verLock'[r] = v
      BY <1>14 DEF Commit, EndTx, Free, TypeOK
    <3>2. \A o \in Ops : sent'[o] >= sent[o]
      BY <2>2 DEF TypeOK
    <3>3. HoldsRow(v) => records'[Rec(v)] = records[Rec(v)] /\ versions'[Rec(v)] = versions[Rec(v)]
      <4>1. HoldsRow(v) => recLock[Rec(v)] = v /\ Rec(v) \in Recs
        BY Facts DEF WorkerFacts, RowHeld, HoldsRow
      <4>2. Effective(w) => recLock[Rec(w)] = w
        BY <2>1, <2>4 DEF WorkerFacts, RowHeld
      <4>3. QED
        BY <4>1, <4>2, <2>4, <2>5
    <3>4. tx[v].saw => versions'[Rec(v)] = versions[Rec(v)]
      <4>1. tx[v].saw => verLock[Rec(v)] = v /\ Rec(v) \in Recs
        <5>1. tx[v].saw => pc[v] # "idle"
          BY DEF WorkerOK, StageOK, NoTx
        <5>2. QED
          BY <5>1, Facts DEF WorkerFacts, CheckHeld
      <4>2. QED
        BY <4>1, <2>4, <2>5, <2>6
    <3>5. QED
      BY <2>2, <3>1, <3>2, <3>3, <3>4 DEF Undisturbed
  <2>8. VersionsMatchRecords'
    <3>1. CASE ~Effective(w)
      BY <3>1, <2>5 DEF VersionsMatchRecords
    <3>2. CASE Effective(w)
      <4>1. versions'[Rec(w)] > 0 => versions'[Rec(w)] = records'[Rec(w)].version
        BY <3>2, <1>14, <2>1 DEF Commit, CommitPut, CommitDelete, NewRow, WorkerFacts,
                                 VersionsHeld, TypeOK
      <4>2. QED
        BY <3>2, <4>1, <2>4 DEF VersionsMatchRecords
    <3>3. QED
      BY <3>1, <3>2
  <2>9. QED
    BY <2>3, <2>7, <2>8, UndisturbedKeeps
<1>15. ASSUME NEW w \in Workers, VerifyMismatch(w) \/ InsertFails(w) \/ Fail(w) \/ DeadlockAbort(w)
       PROVE  Locking'
  <2>1. pc[w] # "idle"
    BY <1>15 DEF VerifyMismatch, InsertFails, Fail, DeadlockAbort, WaitsFor, InTx
  <2>2. /\ EndTx(w, "rejected") \/ EndTx(w, "error")
        /\ UNCHANGED <<request, records, versions, cur, sent>>
    BY <1>15 DEF VerifyMismatch, InsertFails, Fail, DeadlockAbort
  <2>3. \A v \in Workers : WorkerOK(v)'
    BY <2>1, <2>2, RollbackKeeps DEF Outs
  <2>4. QED
    BY <2>2, <2>3 DEF VersionsMatchRecords
<1>16. ASSUME NEW r \in Recs, DirectCreate(r)
       PROVE  Locking'
  <2>1. versions[r] = 0
    BY <1>16 DEF DirectCreate, VersionsMatchRecords, Exists, TypeOK, Rows
  <2>2. VersionsMatchRecords'
    BY <1>16, <2>1 DEF DirectCreate, VersionsMatchRecords, TypeOK
  <2>3. ASSUME NEW v \in Workers
        PROVE  Undisturbed(v)
    <3>1. HoldsRow(v) => Rec(v) # r
      BY <1>16, Facts DEF DirectCreate, HoldsRow, WorkerFacts, StageOK, Rec, TypeOK
    <3>2. QED
      BY <1>16, <3>1 DEF DirectCreate, Undisturbed, TypeOK
  <2>4. QED
    BY <2>2, <2>3, UndisturbedKeeps
<1>17. CASE UNCHANGED vars
  <2>1. \A v \in Workers : Undisturbed(v)
    BY <1>17 DEF vars, Undisturbed, TypeOK
  <2>2. QED
    BY <1>17, <2>1, UndisturbedKeeps DEF vars, VersionsMatchRecords
<1>18. QED
  BY <1>1, <1>2, <1>3, <1>4, <1>5, <1>6, <1>7, <1>8, <1>9, <1>10, <1>11, <1>12,
     <1>13, <1>14, <1>15, <1>16, <1>17
  DEF Next, Step, CreateDraw, UpdateNoRow, CreateOnConflict, UpdateRow

\* What a transaction has read of the rows it has locked still holds when it
\* commits: the part of the invariant that is about FOR UPDATE and row locks.
THEOREM LockingCorrect == Spec => []Locking
<1>1. Init => Locking
  BY SyncServerAssumption
  DEF Init, Locking, TypeOK, WorkerOK, StageOK, RowHeld, CheckHeld, VersionsHeld, HoldsRow,
      VersionsMatchRecords, NoRow, Rows, NoTx, Txs, Pcs, Outs
<1>2. TypeOK /\ Locking /\ [Next]_vars => Locking'
  BY TypeStep, LockingBusy, LockingStep DEF Locking
<1>3. QED
  BY <1>1, <1>2, TypeCorrect, PTL DEF Spec

\* The versions table never disagrees with the records it denormalises, for any
\* number of workers, records and duplicate deliveries.
THEOREM VersionsCorrect == Spec => []VersionsMatchRecords
<1>1. Locking => VersionsMatchRecords
  BY DEF Locking
<1>2. QED
  BY <1>1, LockingCorrect, PTL

\* An update or delete whose check found the versions row replaces exactly the
\* version its client had: the FOR UPDATE lock closes the window between check
\* and commit whenever there is a row to lock.
THEOREM ChecksCorrect == Spec => CheckedWritesReplaceTheirBase
<1>1. ASSUME Locking, NEW w \in Workers, Writes(w), tx[w].saw
      PROVE  records[Rec(w)].version = Base(w)
  <2>1. WorkerFacts(w)
    BY <1>1, Facts DEF Writes
  <2>2. versions[Rec(w)] = Base(w) /\ Base(w) > 0
    <3>1. request[cur[w]] \in Requests
      BY <1>1, <2>1 DEF WorkerFacts, Locking, TypeOK
    <3>2. Base(w) > 0
      BY <3>1, SyncServerAssumption DEF Requests, Base
    <3>3. QED
      BY <1>1, <2>1, <3>2 DEF WorkerFacts, CheckHeld
  <2>3. QED
    BY <1>1, <2>1, <2>2 DEF Locking, VersionsMatchRecords, WorkerFacts
<1>2. Locking /\ [Next]_vars =>
        [\A w \in Workers : Writes(w) /\ tx[w].saw => records[Rec(w)].version = Base(w)]_vars
  BY <1>1
<1>3. QED
  BY <1>2, LockingCorrect, PTL DEF Spec, CheckedWritesReplaceTheirBase

-----------------------------------------------------------------------------
(* Two checks that no lock protects: the look-up of the idempotency key, made  *)
(* outside the transaction, and the version check of a record without a        *)
(* versions row.  They hold their promise as long as no second slot works at   *)
(* the same time on the same operation, or the same record.                    *)

\* No two slots hold the same operation.
OperationsApart ==
    \A v, w \in Workers : cur[v] = cur[w] /\ cur[v] # NoOp => v = w

\* No two open transactions are about the same record.
RecordsApart ==
    \A v, w \in Workers : pc[v] \in InTx /\ pc[w] \in InTx /\ Rec(v) = Rec(w) => v = w

\* An operation with an open transaction has not been applied.
OpenIsNotApplied == \A w \in Workers : pc[w] \in InTx => syncOps[cur[w]] # "applied"

\* An update or delete past its check either found the versions row, or the
\* record still has none.
PassedUnchecked(w) ==
    pc[w] \in InTx \ {"verify"} /\ Type(w) # "create" /\ versions[Rec(w)] > 0 => tx[w].saw

\* With one slot, as in the run, both hold whatever is delivered.
LEMMA OneSlotApart ==
    ASSUME \A v, w \in Workers : v = w
    PROVE  OperationsApart /\ RecordsApart
BY DEF OperationsApart, RecordsApart

\* Without a commit, the applied operations and the versions rows are as they were.
LEMMA OnlyCommitsWrite ==
    ASSUME Locking, [Next]_vars, \A w \in Workers : ~Commit(w)
    PROVE  UNCHANGED <<request, syncOps, versions>>
BY DEF Next, Step, vars, Deliver, Fail, DirectCreate, CheckHit, CheckMiss, Return,
       VerifyNoRow, VerifyMatch, VerifyMismatch, CreateDraw, CreateOnConflict, UpdateRow,
       UpdateNoRow, InsertRow, InsertFails, WriteVersions, DeleteRow, DeleteNoRow,
       DeleteCascade, DeadlockAbort, DrawForInsert, BumpRow

\* A transaction is opened by a check that misses, and goes on with the operation
\* it was opened for.
LEMMA TransactionsOpen ==
    ASSUME Locking, [Next]_vars, NEW w \in Workers, pc'[w] \in InTx
    PROVE  cur'[w] = cur[w] /\ (pc[w] \in InTx \/ CheckMiss(w))
<1> USE DEF Locking, TypeOK, InTx, Goto, EndTx
<1>1. ASSUME NEW v \in Workers, Step(v)
      PROVE  cur'[w] = cur[w] /\ (pc[w] \in InTx \/ CheckMiss(w))
  BY <1>1 DEF Step, CheckHit, CheckMiss, Return,
       VerifyNoRow, VerifyMatch, VerifyMismatch, CreateDraw, CreateOnConflict, UpdateRow,
       UpdateNoRow, InsertRow, InsertFails, WriteVersions, DeleteRow, DeleteNoRow,
       DeleteCascade, DeadlockAbort, DrawForInsert, BumpRow, Commit
<1>2. ASSUME NEW v \in Workers, Fail(v)
      PROVE  cur'[w] = cur[w] /\ (pc[w] \in InTx \/ CheckMiss(w))
  BY <1>2 DEF Fail
<1>3. ASSUME NEW v \in Workers, NEW o \in Ops, Deliver(v, o)
      PROVE  cur'[w] = cur[w] /\ (pc[w] \in InTx \/ CheckMiss(w))
  BY <1>3 DEF Deliver
<1>4. ASSUME NEW r \in Recs, DirectCreate(r)
      PROVE  cur'[w] = cur[w] /\ (pc[w] \in InTx \/ CheckMiss(w))
  BY <1>4 DEF DirectCreate
<1>5. QED
  BY <1>1, <1>2, <1>3, <1>4 DEF Next, vars

LEMMA OpenIsNotAppliedStep ==
    ASSUME Locking, OperationsApart, OpenIsNotApplied, [Next]_vars
    PROVE  OpenIsNotApplied'
<1> SUFFICES ASSUME NEW w \in Workers, pc'[w] \in InTx
             PROVE  syncOps'[cur'[w]] # "applied"
  BY DEF OpenIsNotApplied
<1>1. cur'[w] = cur[w] /\ (pc[w] \in InTx \/ CheckMiss(w))
  BY TransactionsOpen
<1>2. syncOps[cur[w]] # "applied"
  BY <1>1 DEF OpenIsNotApplied, CheckMiss, IsApplied
<1>3. CASE \A v \in Workers : ~Commit(v)
  BY <1>1, <1>2, <1>3, OnlyCommitsWrite
<1>4. ASSUME NEW v \in Workers, Commit(v)
      PROVE  syncOps'[cur'[w]] # "applied"
  <2>1. cur[v] \in Ops /\ v # w
    BY <1>4, Facts DEF Commit, EndTx, Goto, WorkerFacts, InTx, Locking, TypeOK
  <2>2. pc[w] # "idle"
    BY <1>1 DEF InTx, CheckMiss
  <2>3. cur[w] \in Ops /\ cur[w] # cur[v]
    BY <2>1, <2>2, Facts, SyncServerAssumption DEF WorkerFacts, OperationsApart
  <2>4. QED
    BY <1>1, <1>2, <1>4, <2>1, <2>3 DEF Commit, Locking, TypeOK
<1>5. QED
  BY <1>3, <1>4

\* As long as no two slots hold the same operation, an operation that has been
\* applied never changes a record again, however often it is delivered, fails or
\* loses the answer to its commit: for any number of slots, not the one of the run.
THEOREM NeverReappliedCorrect == Spec /\ []OperationsApart => NeverReapplied
<1>1. Init => OpenIsNotApplied
  BY DEF Init, OpenIsNotApplied, InTx
<1>2. Locking /\ OperationsApart /\ OpenIsNotApplied /\ [Next]_vars => OpenIsNotApplied'
  BY OpenIsNotAppliedStep
<1>3. Locking /\ OpenIsNotApplied /\ [Next]_vars =>
        [\A w \in Workers : Writes(w) => syncOps[cur[w]] # "applied"]_vars
  BY DEF OpenIsNotApplied, Writes, InTx
<1>4. QED
  BY <1>1, <1>2, <1>3, LockingCorrect, PTL DEF Spec, NeverReapplied

\* A slot in a transaction moves by its own statements only.
LEMMA OthersStay ==
    ASSUME Locking, [Next]_vars, NEW w \in Workers, pc[w] \in InTx
    PROVE  (pc'[w] = pc[w] /\ tx'[w] = tx[w]) \/ Step(w) \/ Fail(w)
<1> USE DEF Locking, TypeOK, InTx, Goto, EndTx
<1>1. ASSUME NEW v \in Workers \ {w}, Step(v)
      PROVE  pc'[w] = pc[w] /\ tx'[w] = tx[w]
  BY <1>1 DEF Step, CheckHit, CheckMiss, Return,
       VerifyNoRow, VerifyMatch, VerifyMismatch, CreateDraw, CreateOnConflict, UpdateRow,
       UpdateNoRow, InsertRow, InsertFails, WriteVersions, DeleteRow, DeleteNoRow,
       DeleteCascade, DeadlockAbort, DrawForInsert, BumpRow, Commit
<1>2. ASSUME NEW v \in Workers \ {w}, Fail(v)
      PROVE  pc'[w] = pc[w] /\ tx'[w] = tx[w]
  BY <1>2 DEF Fail
<1>3. ASSUME NEW v \in Workers, NEW o \in Ops, Deliver(v, o)
      PROVE  pc'[w] = pc[w] /\ tx'[w] = tx[w]
  BY <1>3 DEF Deliver
<1>4. ASSUME NEW r \in Recs, DirectCreate(r)
      PROVE  pc'[w] = pc[w] /\ tx'[w] = tx[w]
  BY <1>4 DEF DirectCreate
<1>5. QED
  BY <1>1, <1>2, <1>3, <1>4 DEF Next, vars

LEMMA PassedUncheckedStep ==
    ASSUME Locking, Locking', RecordsApart, \A w \in Workers : PassedUnchecked(w), [Next]_vars,
           NEW w \in Workers
    PROVE  PassedUnchecked(w)'
<1> SUFFICES ASSUME pc'[w] \in InTx \ {"verify"}, Type(w)' # "create", versions'[Rec(w)'] > 0
             PROVE  tx'[w].saw
  BY DEF PassedUnchecked
<1>1. cur'[w] = cur[w] /\ request' = request /\ (pc[w] \in InTx \/ CheckMiss(w))
  <2>1. request' = request
    BY DEF Next, Step, vars, Deliver, Fail, DirectCreate, CheckHit, CheckMiss, Return,
       VerifyNoRow, VerifyMatch, VerifyMismatch, CreateDraw, CreateOnConflict, UpdateRow,
       UpdateNoRow, InsertRow, InsertFails, WriteVersions, DeleteRow, DeleteNoRow,
       DeleteCascade, DeadlockAbort, DrawForInsert, BumpRow, Commit
  <2>2. QED
    BY <2>1, TransactionsOpen
<1>2. Type(w)' = Type(w) /\ Rec(w)' = Rec(w)
  BY <1>1 DEF Type, Rec
<1>3. ~CheckMiss(w)
  BY <1>2 DEF CheckMiss, Goto, Locking, TypeOK
<1>4. WorkerFacts(w) /\ pc[w] \in InTx
  BY <1>1, <1>3, Facts DEF InTx
<1>5. CASE \E v \in Workers : Commit(v)
  <2> PICK v \in Workers : Commit(v)
    BY <1>5
  <2>1. v # w /\ WorkerFacts(v) /\ pc[v] = "commit"
    BY Facts DEF Commit, EndTx, Goto, InTx, Locking, TypeOK
  <2>2. Rec(v) # Rec(w)
    BY <1>4, <2>1 DEF RecordsApart, InTx
  <2>3. versions'[Rec(w)] = versions[Rec(w)] /\ tx'[w] = tx[w] /\ pc'[w] = pc[w]
    BY <1>4, <2>1, <2>2 DEF Commit, CommitPut, CommitDelete, EndTx, Goto, WorkerFacts, Locking, TypeOK
  <2>4. QED
    BY <1>2, <2>3 DEF PassedUnchecked
<1>6. CASE \A v \in Workers : ~Commit(v)
  <2>1. versions'[Rec(w)] = versions[Rec(w)]
    BY <1>6, OnlyCommitsWrite
  <2>2. CASE pc'[w] = pc[w] /\ tx'[w] = tx[w]
    BY <1>2, <2>1, <2>2 DEF PassedUnchecked
  <2>3. CASE Step(w) \/ Fail(w)
    <3>1. CASE pc[w] = "verify"
      <4>1. VerifyNoRow(w) \/ VerifyMatch(w)
        BY <1>4, <1>6, <2>3, <3>1 DEF Step, Fail, CheckHit, CheckMiss, Return, VerifyMismatch,
           CreateDraw, CreateOnConflict, UpdateRow, UpdateNoRow, InsertRow, InsertFails,
           WriteVersions, DeleteRow, DeleteNoRow, DeleteCascade, DeadlockAbort, EndTx, Goto,
           Locking, TypeOK, InTx
      <4>2. ~VerifyNoRow(w)
        BY <2>1, <1>2 DEF VerifyNoRow
      <4>3. QED
        BY <1>4, <4>1, <4>2 DEF VerifyMatch, Locking, TypeOK, Txs, WorkerFacts
    <3>2. CASE pc[w] # "verify"
      <4>1. tx[w].saw
        BY <1>2, <1>4, <2>1, <3>2 DEF PassedUnchecked
      <4>3. tx'[w].saw = tx[w].saw
        BY <1>4, <1>6, <2>3, <3>2 DEF Step, Fail, CheckHit, CheckMiss, Return, VerifyNoRow,
           VerifyMatch, VerifyMismatch, CreateDraw, CreateOnConflict, UpdateRow, UpdateNoRow,
           InsertRow, InsertFails, WriteVersions, DeleteRow, DeleteNoRow, DeleteCascade,
           DeadlockAbort, DrawForInsert, BumpRow, EndTx, Goto, Locking, TypeOK, Txs,
           WorkerFacts, InTx
      <4>4. QED
        BY <4>1, <4>3
    <3>3. QED
      BY <3>1, <3>2
  <2>4. QED
    BY <1>4, <1>6, <2>2, <2>3, OthersStay
<1>7. QED
  BY <1>5, <1>6

\* As long as no two transactions on the same record overlap, every update or
\* delete of a record with a versions row replaces the version its client had:
\* the check leaves no window, although it locks nothing when there is no row.
THEOREM NoUncheckedOverwriteCorrect == Spec /\ []RecordsApart => NoUncheckedOverwrite
<1>1. Init => \A w \in Workers : PassedUnchecked(w)
  BY DEF Init, PassedUnchecked, InTx
<1>2. Locking /\ Locking' /\ RecordsApart /\ (\A w \in Workers : PassedUnchecked(w)) /\ [Next]_vars
        => (\A w \in Workers : PassedUnchecked(w))'
  BY PassedUncheckedStep
<1>3. ASSUME Locking, NEW w \in Workers, PassedUnchecked(w), Writes(w), Type(w) # "create",
             versions[Rec(w)] > 0
      PROVE  records[Rec(w)].version = Base(w)
  <2>1. WorkerFacts(w) /\ tx[w].saw
    BY <1>3, Facts DEF Writes, PassedUnchecked, InTx
  <2>2. versions[Rec(w)] = Base(w)
    BY <2>1 DEF WorkerFacts, CheckHeld
  <2>3. QED
    BY <1>3, <2>1, <2>2 DEF Locking, VersionsMatchRecords, WorkerFacts
<1>4. Locking /\ (\A w \in Workers : PassedUnchecked(w)) /\ [Next]_vars =>
        [\A w \in Workers :
            Writes(w) /\ Type(w) # "create" /\ versions[Rec(w)] > 0
                => records[Rec(w)].version = Base(w)]_vars
  BY <1>3
<1>5. QED
  BY <1>1, <1>2, <1>4, LockingCorrect, PTL DEF Spec, NoUncheckedOverwrite

-----------------------------------------------------------------------------
(* Refinement of VersionedStore. *)

StoreOf   == [r \in Recs |-> [version |-> records[r].version, data |-> records[r].data]]
AppliedOf == {o \in Ops : syncOps[o] = "applied"}

\* What a commit does to the store, and that it is recorded.
LEMMA CommitEffect ==
    ASSUME Locking, NEW w \in Workers, Commit(w)
    PROVE  /\ cur[w] \in Ops /\ Rec(w) \in Recs
           /\ request' = request /\ AppliedOf' = AppliedOf \cup {cur[w]}
           /\ Type(w) # "delete" =>
                 StoreOf' = [StoreOf EXCEPT ![Rec(w)] =
                                [version |-> StoreOf[Rec(w)].version + 1, data |-> cur[w]]]
           /\ Type(w) = "delete" /\ Effective(w) =>
                 StoreOf' = [StoreOf EXCEPT ![Rec(w)] = [version |-> 0, data |-> NoOp]]
           /\ Type(w) = "delete" /\ ~Effective(w) => StoreOf' = StoreOf
<1>1. WorkerFacts(w) /\ cur[w] \in Ops /\ Rec(w) \in Recs
  BY Facts DEF Commit, WorkerFacts
<1>2. AppliedOf' = AppliedOf \cup {cur[w]} /\ request' = request
  BY <1>1 DEF Commit, AppliedOf, WorkerFacts, Locking, TypeOK
<1>3. ASSUME Type(w) # "delete"
      PROVE  StoreOf' = [StoreOf EXCEPT ![Rec(w)] =
                            [version |-> StoreOf[Rec(w)].version + 1, data |-> cur[w]]]
  <2>1. tx[w].version = records[Rec(w)].version + 1
    BY <1>1, <1>3 DEF Commit, WorkerFacts, StageOK, RowHeld, HoldsRow
  <2>2. records' = [records EXCEPT ![Rec(w)] = NewRow(w)]
    BY <1>3 DEF Commit, CommitPut
  <2>3. QED
    BY <1>1, <2>1, <2>2 DEF StoreOf, NewRow, WorkerFacts, Locking, TypeOK, Rows
<1>4. ASSUME Type(w) = "delete", Effective(w)
      PROVE  StoreOf' = [StoreOf EXCEPT ![Rec(w)] = [version |-> 0, data |-> NoOp]]
  <2>1. records' = [records EXCEPT ![Rec(w)] = NoRow]
    BY <1>4 DEF Commit, CommitDelete
  <2>2. QED
    BY <1>1, <2>1 DEF StoreOf, NoRow, WorkerFacts, Locking, TypeOK
<1>5. ASSUME Type(w) = "delete", ~Effective(w)
      PROVE  StoreOf' = StoreOf
  BY <1>5 DEF Commit, CommitDelete, StoreOf
<1>6. QED
  BY <1>1, <1>2, <1>3, <1>4, <1>5

\* A commit is one step of the abstract store.
LEMMA CommitRefines ==
    ASSUME Locking, NEW w \in Workers, Commit(w)
    PROVE  Store!Next
<1>1. PICK o \in Ops : o = cur[w]
  BY CommitEffect
<1>2. CASE Type(w) # "delete"
  <2>1. Type(w) \in {"create", "update"}
    BY <1>2, Facts DEF Commit, WorkerFacts
  <2>2. Store!Put(o)
    BY <1>1, <1>2, <2>1, CommitEffect DEF Store!Put, StoreOf, AppliedOf, Type, Rec
  <2>3. QED
    BY <2>2 DEF Store!Next
<1>3. CASE Type(w) = "delete" /\ Effective(w)
  <2>1. Store!Remove(o)
    BY <1>1, <1>3, CommitEffect DEF Store!Remove, Store!Empty, StoreOf, AppliedOf, Type, Rec
  <2>2. QED
    BY <2>1 DEF Store!Next
<1>4. CASE Type(w) = "delete" /\ ~Effective(w)
  <2>1. Store!Miss(o)
    BY <1>1, <1>4, CommitEffect DEF Store!Miss, StoreOf, AppliedOf, Type
  <2>2. QED
    BY <2>1 DEF Store!Next
<1>5. QED
  BY <1>2, <1>3, <1>4

LEMMA ImportRefines ==
    ASSUME TypeOK, NEW r \in Recs, DirectCreate(r)
    PROVE  Store!Next
<1>1. Store!Import(r)
  <2>1. records[r].version = 0
    BY DEF DirectCreate, Exists, TypeOK, Rows
  <2>2. StoreOf[r].version = 0
    BY <2>1 DEF StoreOf
  <2>3. StoreOf' = [StoreOf EXCEPT ![r] = [version |-> 1, data |-> NoOp]]
    BY DEF DirectCreate, StoreOf, TypeOK
  <2>4. AppliedOf' = AppliedOf /\ request' = request
    BY DEF DirectCreate, AppliedOf
  <2>5. QED
    BY <2>2, <2>3, <2>4 DEF Store!Import, StoreOf, AppliedOf
<1>2. QED
  BY <1>1 DEF Store!Next

LEMMA StepRefines ==
    ASSUME Locking, [Next]_vars
    PROVE  [Store!Next]_(Store!storeVars)
<1>1. ASSUME NEW w \in Workers, Commit(w)
      PROVE  Store!Next
  BY <1>1, CommitRefines
<1>2. ASSUME NEW r \in Recs, DirectCreate(r)
      PROVE  Store!Next
  BY <1>2, ImportRefines DEF Locking
<1>3. ASSUME UNCHANGED <<request, records, syncOps>>
      PROVE  UNCHANGED Store!storeVars
  BY <1>3 DEF Store!storeVars
<1>4. ASSUME NEW w \in Workers, NEW o \in Ops, Deliver(w, o)
      PROVE  UNCHANGED <<request, records, syncOps>>
  BY <1>4 DEF Deliver
<1>5. ASSUME NEW w \in Workers, Fail(w)
      PROVE  UNCHANGED <<request, records, syncOps>>
  BY <1>5 DEF Fail
<1>6. ASSUME NEW w \in Workers, Step(w), ~Commit(w)
      PROVE  UNCHANGED <<request, records, syncOps>>
  BY <1>6 DEF Step, CheckHit, CheckMiss, Return, VerifyNoRow, VerifyMatch, VerifyMismatch,
              CreateDraw, CreateOnConflict, UpdateRow, UpdateNoRow, InsertRow, InsertFails,
              WriteVersions, DeleteRow, DeleteNoRow, DeleteCascade, DeadlockAbort,
              DrawForInsert, BumpRow
<1>7. CASE UNCHANGED vars
  BY <1>3, <1>7 DEF vars
<1>8. QED
  BY <1>1, <1>2, <1>3, <1>4, <1>5, <1>6, <1>7 DEF Next

\* The operation processor implements the abstract versioned store: with all its
\* transactions, waits, aborts and duplicates, every change of the tables is the
\* whole effect of one client operation, marked applied by the same commit.
THEOREM Implements == Spec => ImplementsStore
<1>1. Init => Store!Init
  BY DEF Init, Store!Init, Store!Empty, NoRow
<1>2. Locking /\ [Next]_vars => [Store!Next]_(Store!storeVars)
  BY StepRefines
<1>3. QED
  BY <1>1, <1>2, LockingCorrect, PTL DEF Spec, ImplementsStore, Store!Spec

-----------------------------------------------------------------------------
(* Refinement of SerialStore, where transactions do not overlap. *)

CheckedOf == {r \in Recs : versions[r] > 0}

\* What a transaction about to commit knows of its record: one it has inserted gets
\* a versions row, an update writes no such row where there was none, and a delete
\* that found no record has none before it.
CommitsTruly(w) ==
    pc[w] = "commit" =>
        /\ Type(w) # "delete" /\ (Type(w) = "create" \/ tx[w].version = 1) => tx[w].touch
        /\ Type(w) = "update" /\ tx[w].touch => tx[w].version = 1 \/ versions[Rec(w)] > 0
        /\ ~Effective(w) => ~Exists(Rec(w))

\* The statement before the commit.
LEMMA LastStatement ==
    ASSUME Locking, Locking', NEW w \in Workers, Step(w), pc'[w] = "commit"
    PROVE  CommitsTruly(w)'
<1>1. \/ WriteVersions(w) \/ DeleteNoRow(w) \/ DeleteCascade(w)
  BY DEF Step, CheckHit, CheckMiss, Return, VerifyNoRow, VerifyMatch, VerifyMismatch,
         CreateDraw, CreateOnConflict, UpdateRow, UpdateNoRow, InsertRow, InsertFails,
         DrawForInsert, BumpRow, Commit, DeleteRow, DeadlockAbort, EndTx, Goto, Locking, TypeOK
<1>2. WorkerFacts(w) /\ tx \in [Workers -> Txs]
  BY <1>1, Facts DEF WriteVersions, DeleteNoRow, DeleteCascade, Locking, TypeOK
<1>3. CASE WriteVersions(w)
  <2>1. /\ request' = request /\ cur' = cur /\ records' = records /\ versions' = versions
        /\ tx'[w].version = tx[w].version /\ pc[w] = "versions"
        /\ tx'[w].touch = (tx[w].touch \/ HasVersionsRow(w))
    BY <1>2, <1>3 DEF WriteVersions, Txs
  <2>2. Type(w) # "delete" /\ ~tx[w].touch /\ tx[w].version > 0
    BY <1>2, <2>1 DEF WorkerFacts, StageOK, RowHeld, HoldsRow
  <2>3. QED
    BY <2>1, <2>2 DEF CommitsTruly, HasVersionsRow, Effective, Exists, Type, Rec
<1>4. CASE DeleteNoRow(w)
  BY <1>4 DEF DeleteNoRow, CommitsTruly, Effective, Exists, Type, Rec
<1>5. CASE DeleteCascade(w)
  <2>1. /\ request' = request /\ cur' = cur /\ records' = records
        /\ tx'[w].version = tx[w].version /\ pc[w] = "cascade"
    BY <1>2, <1>5 DEF DeleteCascade, Txs
  <2>2. Type(w) = "delete" /\ tx[w].version > 0
    BY <1>2, <2>1 DEF WorkerFacts, StageOK, RowHeld, HoldsRow, Exists
  <2>3. QED
    BY <2>1, <2>2 DEF CommitsTruly, Effective, Type
<1>6. QED
  BY <1>1, <1>3, <1>4, <1>5

LEMMA CommitsTrulyStep ==
    ASSUME Locking, Locking', RecordsApart, [Next]_vars, NEW w \in Workers, CommitsTruly(w)
    PROVE  CommitsTruly(w)'
<1> SUFFICES ASSUME pc'[w] = "commit"
             PROVE  CommitsTruly(w)'
  BY DEF CommitsTruly
<1>1. cur'[w] = cur[w] /\ pc[w] \in InTx /\ WorkerFacts(w)
  <2>1. ~CheckMiss(w)
    BY DEF CheckMiss, Goto, Locking, TypeOK
  <2>2. QED
    BY <2>1, TransactionsOpen, Facts DEF InTx
<1>2. CASE Step(w)
  BY <1>2, LastStatement
<1>3. ~Fail(w)
  BY DEF Fail, EndTx, Goto, Locking, TypeOK
<1>4. ASSUME ~Step(w)
      PROVE  CommitsTruly(w)'
  <2>1. pc'[w] = pc[w] /\ tx'[w] = tx[w]
    BY <1>1, <1>3, <1>4, OthersStay
  <2>2. request' = request
    BY DEF Next, Step, vars, Deliver, Fail, DirectCreate, CheckHit, CheckMiss, Return,
       VerifyNoRow, VerifyMatch, VerifyMismatch, CreateDraw, CreateOnConflict, UpdateRow,
       UpdateNoRow, InsertRow, InsertFails, WriteVersions, DeleteRow, DeleteNoRow,
       DeleteCascade, DeadlockAbort, DrawForInsert, BumpRow, Commit
  <2>3. /\ versions'[Rec(w)] = versions[Rec(w)]
        /\ records'[Rec(w)] = records[Rec(w)]
    <3>1. ASSUME NEW v \in Workers, Commit(v)
          PROVE  /\ versions'[Rec(w)] = versions[Rec(w)]
                 /\ records'[Rec(w)] = records[Rec(w)]
      <4>1. v # w
        BY <1>4, <3>1 DEF Step
      <4>2. Rec(v) # Rec(w) /\ Rec(v) \in Recs
        BY <1>1, <3>1, <4>1, CommitEffect DEF RecordsApart, Commit, InTx
      <4>3. QED
        BY <1>1, <3>1, <4>2 DEF Commit, CommitPut, CommitDelete, WorkerFacts, Locking, TypeOK
    <3>2. ASSUME NEW r \in Recs, DirectCreate(r)
          PROVE  /\ versions'[Rec(w)] = versions[Rec(w)]
                 /\ records'[Rec(w)] = records[Rec(w)]
      <4>1. r # Rec(w)
        BY <1>1, <3>2 DEF DirectCreate, WorkerFacts, StageOK, Rec, InTx
      <4>2. QED
        BY <1>1, <3>2, <4>1 DEF DirectCreate, Locking, TypeOK
    <3>3. ASSUME UNCHANGED <<records, versions>>
          PROVE  /\ versions'[Rec(w)] = versions[Rec(w)]
                 /\ records'[Rec(w)] = records[Rec(w)]
      BY <3>3
    <3>4. QED
      BY <3>1, <3>2, <3>3
      DEF Next, Step, vars, Deliver, Fail, CheckHit, CheckMiss, Return,
       VerifyNoRow, VerifyMatch, VerifyMismatch, CreateDraw, CreateOnConflict, UpdateRow,
       UpdateNoRow, InsertRow, InsertFails, WriteVersions, DeleteRow, DeleteNoRow,
       DeleteCascade, DeadlockAbort, DrawForInsert, BumpRow
  <2>4. Rec(w)' = Rec(w) /\ Type(w)' = Type(w)
    BY <1>1, <2>2 DEF Rec, Type
  <2>5. QED
    BY <2>1, <2>3, <2>4 DEF CommitsTruly, Effective, Exists
<1>5. QED
  BY <1>2, <1>4

\* An operation is applied once, to the version its client had.
LEMMA CommitIsDue ==
    ASSUME Locking, OpenIsNotApplied, NEW w \in Workers, PassedUnchecked(w), Commit(w)
    PROVE  Serial!Due(cur[w])
<1>1. WorkerFacts(w) /\ pc[w] = "commit"
  BY Facts DEF Commit
<1>2. cur[w] \notin AppliedOf
  BY <1>1 DEF OpenIsNotApplied, AppliedOf, InTx
<1>3. ASSUME Type(w) # "create", versions[Rec(w)] > 0
      PROVE  StoreOf[Rec(w)].version = Base(w)
  <2>1. tx[w].saw
    BY <1>1, <1>3 DEF PassedUnchecked, InTx
  <2>2. versions[Rec(w)] = Base(w)
    BY <1>1, <2>1 DEF WorkerFacts, CheckHeld
  <2>3. QED
    BY <1>1, <1>3, <2>2 DEF Locking, VersionsMatchRecords, WorkerFacts, StoreOf
<1>4. QED
  BY <1>1, <1>2, <1>3 DEF Serial!Due, WorkerFacts, AppliedOf, StoreOf, Type, Rec, Base

LEMMA CommitSerial ==
    ASSUME Locking, OpenIsNotApplied, NEW w \in Workers, PassedUnchecked(w), CommitsTruly(w),
           Commit(w)
    PROVE  Serial!SerialNext
<1>1. PICK o \in Ops : o = cur[w]
  BY CommitEffect
<1>2. /\ WorkerFacts(w) /\ pc[w] = "commit" /\ CommitsTruly(w)
      /\ versions \in [Recs -> Nat]
  BY Facts DEF Commit, Locking, TypeOK
<1>3. PICK r \in Recs : r = Rec(w)
  BY CommitEffect
<1>4. CASE Type(w) # "delete"
  <2>1. Serial!Put(o)
    BY <1>1, <1>2, <1>4, CommitEffect DEF Serial!Put, StoreOf, AppliedOf, WorkerFacts, Type, Rec
  <2>2. tx[w].version = records[r].version + 1 /\ tx[w].version > 0
    BY <1>2, <1>3, <1>4 DEF WorkerFacts, StageOK, RowHeld, HoldsRow, Effective
  <2>3. versions' = IF tx[w].touch THEN [versions EXCEPT ![r] = tx[w].version] ELSE versions
    BY <1>3, <1>4 DEF Commit, CommitPut
  <2>4. ASSUME Type(w) = "create" \/ records[r].version = 0
        PROVE  tx[w].touch
    BY <1>2, <1>3, <1>4, <2>2, <2>4 DEF CommitsTruly, Effective
  <2>5. CheckedOf' = CheckedOf \cup {q \in {r} : Type(w) = "create" \/ records[q].version = 0}
    BY <1>2, <1>3, <1>4, <2>2, <2>3, <2>4 DEF CheckedOf, CommitsTruly, WorkerFacts, VersionsHeld, Effective
  <2>6. QED
    BY <1>1, <1>3, <2>1, <2>5, CommitIsDue
    DEF Serial!SerialNext, Serial!SerialPut, Serial!Inserted, CheckedOf, StoreOf, Type, Rec
<1>5. CASE Type(w) = "delete" /\ Effective(w)
  <2>1. Serial!Remove(o)
    BY <1>1, <1>5, CommitEffect DEF Serial!Remove, Serial!Empty, StoreOf, AppliedOf, Type, Rec
  <2>2. records[r].version > 0 /\ versions' = [versions EXCEPT ![r] = 0]
    BY <1>2, <1>3, <1>5 DEF WorkerFacts, RowHeld, HoldsRow, Exists, Commit, CommitDelete
  <2>3. CheckedOf' = CheckedOf \ {r}
    BY <1>2, <2>2 DEF CheckedOf
  <2>4. QED
    BY <1>1, <1>3, <2>1, <2>2, <2>3, CommitIsDue
    DEF Serial!SerialNext, Serial!SerialRemove, CheckedOf, StoreOf, Rec
<1>6. CASE Type(w) = "delete" /\ ~Effective(w)
  <2>1. Serial!Miss(o)
    BY <1>1, <1>6, CommitEffect DEF Serial!Miss, StoreOf, AppliedOf, Type
  <2>2. records[r].version = 0 /\ versions' = versions
    BY <1>2, <1>3, <1>6 DEF WorkerFacts, CommitsTruly, Exists, Commit, CommitDelete
  <2>3. QED
    BY <1>1, <1>3, <2>1, <2>2, CommitIsDue
    DEF Serial!SerialNext, Serial!SerialMiss, CheckedOf, StoreOf, Rec
<1>7. QED
  BY <1>4, <1>5, <1>6

LEMMA ImportSerial ==
    ASSUME TypeOK, NEW r \in Recs, DirectCreate(r)
    PROVE  Serial!SerialNext
<1>1. records[r].version = 0
  BY DEF DirectCreate, Exists, TypeOK, Rows
<1>2. StoreOf' = [StoreOf EXCEPT ![r] = [version |-> 1, data |-> NoOp]]
  BY DEF DirectCreate, StoreOf, TypeOK
<1>3. AppliedOf' = AppliedOf /\ request' = request /\ CheckedOf' = CheckedOf
  BY DEF DirectCreate, AppliedOf, CheckedOf
<1>4. Serial!SerialImport(r)
  BY <1>1, <1>2, <1>3 DEF Serial!SerialImport, Serial!Import, StoreOf, AppliedOf, CheckedOf
<1>5. QED
  BY <1>4 DEF Serial!SerialNext

LEMMA StepSerial ==
    ASSUME Locking, OpenIsNotApplied,
           \A w \in Workers : PassedUnchecked(w) /\ CommitsTruly(w), [Next]_vars
    PROVE  [Serial!SerialNext]_(Serial!serialVars)
<1>1. ASSUME UNCHANGED <<request, records, syncOps, versions>>
      PROVE  UNCHANGED Serial!serialVars
  BY <1>1 DEF Serial!serialVars, Serial!storeVars
<1>2. ASSUME \A w \in Workers : ~Commit(w), \A r \in Recs : ~DirectCreate(r)
      PROVE  UNCHANGED <<request, records, syncOps, versions>>
  <2>1. UNCHANGED <<request, syncOps, versions>>
    BY <1>2, OnlyCommitsWrite
  <2>2. records' = records
    BY <1>2 DEF Next, Step, vars, Deliver, Fail, CheckHit, CheckMiss, Return,
       VerifyNoRow, VerifyMatch, VerifyMismatch, CreateDraw, CreateOnConflict, UpdateRow,
       UpdateNoRow, InsertRow, InsertFails, WriteVersions, DeleteRow, DeleteNoRow,
       DeleteCascade, DeadlockAbort, DrawForInsert, BumpRow
  <2>3. QED
    BY <2>1, <2>2
<1>3. QED
  BY <1>1, <1>2, CommitSerial, ImportSerial DEF Locking

\* As long as no two slots hold one operation and no two transactions one record,
\* the processor is the store that the model of the client has for its server:
\* operations are applied once and to the version their client had, except to
\* records of POST /records, which no update makes comparable.
THEOREM ImplementsSerialStoreCorrect ==
    Spec /\ []OperationsApart /\ []RecordsApart => ImplementsSerialStore
<1> DEFINE Inv == OpenIsNotApplied /\ \A w \in Workers : PassedUnchecked(w) /\ CommitsTruly(w)
<1>1. Init => Serial!SerialInit /\ Inv
  BY DEF Init, Serial!SerialInit, Serial!Init, Serial!Empty, NoRow, OpenIsNotApplied,
         PassedUnchecked, CommitsTruly, InTx
<1>2. Locking /\ Locking' /\ OperationsApart /\ RecordsApart /\ Inv /\ [Next]_vars => Inv'
  BY OpenIsNotAppliedStep, PassedUncheckedStep, CommitsTrulyStep
<1>3. Locking /\ Inv /\ [Next]_vars => [Serial!SerialNext]_(Serial!serialVars)
  BY StepSerial
<1>4. QED
  BY <1>1, <1>2, <1>3, LockingCorrect, PTL
  DEF Spec, ImplementsSerialStore, Serial!SerialSpec

\* With one slot, as in MCParts, all three promises are kept whatever is delivered,
\* however often, and whatever fails.
COROLLARY OneSlotKeepsPromises ==
    ASSUME \A v, w \in Workers : v = w
    PROVE  Spec => NeverReapplied /\ NoUncheckedOverwrite /\ ImplementsSerialStore
<1>1. OperationsApart /\ RecordsApart
  BY OneSlotApart
<1>2. QED
  BY <1>1, NeverReappliedCorrect, NoUncheckedOverwriteCorrect, ImplementsSerialStoreCorrect, PTL

-----------------------------------------------------------------------------
(* The cursor sequence. *)

Cursors ==
    /\ \A w \in Workers : CursorFresh(w) /\ CursorDrawn(w)
    /\ DrawnCursorsUnique
    /\ CursorsUnique

\* The worker's cursor is kept, dropped, or the next value of the sequence.
DrawsOrKeeps(w) ==
    /\ records' = records /\ tombstones' = tombstones
    /\ \/ seq' = seq /\ tx'[w].cursor \in {0, tx[w].cursor}
       \/ seq' = seq + 1 /\ tx'[w].cursor = seq + 1
    /\ request' = request
    /\ \A v \in Workers \ {w} : tx'[v] = tx[v] /\ pc'[v] = pc[v] /\ cur'[v] = cur[v]

LEMMA DrawKeeps ==
    ASSUME Locking, TypeOK', Cursors, NEW w \in Workers, DrawsOrKeeps(w), CursorDrawn(w)'
    PROVE  Cursors'
<1>1. /\ seq \in Nat /\ seq' \in Nat /\ seq' >= seq
      /\ \A v \in Workers : tx[v].cursor \in Nat
      /\ \A r \in Recs : records[r].cursor \in Nat /\ records[r].version \in Nat
      /\ \A t \in tombstones : t.cursor \in Nat
  BY DEF Locking, TypeOK, Txs, Rows, Tombstones, DrawsOrKeeps
<1>2. CursorsUnique'
  BY <1>1 DEF Cursors, CursorsUnique, DrawsOrKeeps, Exists
<1>3. \A v \in Workers : CursorFresh(v)'
  BY <1>1 DEF Cursors, CursorFresh, CursorsUnique, DrawsOrKeeps, Exists
<1>4. DrawnCursorsUnique'
  BY <1>1 DEF Cursors, CursorFresh, DrawnCursorsUnique, DrawsOrKeeps
<1>5. ASSUME NEW v \in Workers \ {w}
      PROVE  CursorDrawn(v)'
  BY DEF Cursors, CursorDrawn, DrawsOrKeeps, HoldsRow, Effective, Exists, Rec
<1>6. QED
  BY <1>2, <1>3, <1>4, <1>5 DEF Cursors

\* A commit publishes the cursor its transaction drew.
LEMMA CommitCursors ==
    ASSUME Locking, TypeOK', Cursors, NEW w \in Workers, Commit(w)
    PROVE  Cursors'
<1>1. WorkerFacts(w) /\ CursorFresh(w) /\ CursorDrawn(w) /\ pc[w] = "commit"
  BY Facts DEF Commit, Cursors
<1>2. /\ pc'[w] = "done" /\ tx'[w] = NoTx
      /\ \A v \in Workers \ {w} : tx'[v] = tx[v] /\ pc'[v] = pc[v]
      /\ seq' = seq /\ cur' = cur /\ request' = request
  BY DEF Commit, EndTx, Goto, Locking, TypeOK
<1>3. /\ seq \in Nat
      /\ \A v \in Workers : tx[v].cursor \in Nat
      /\ \A q \in Recs : records[q].cursor \in Nat /\ records[q].version \in Nat
      /\ \A t \in tombstones : t.cursor \in Nat
  BY DEF Locking, TypeOK, Txs, Rows, Tombstones
<1>4. DrawnCursorsUnique'
  BY <1>2 DEF Cursors, DrawnCursorsUnique, NoTx
<1>5. CursorFresh(w)' /\ CursorDrawn(w)'
  BY <1>2 DEF CursorFresh, CursorDrawn, HoldsRow, NoTx
<1>6. CASE ~Effective(w)
  <2>1. records' = records /\ tombstones' = tombstones
    BY <1>1, <1>6 DEF Commit, CommitDelete, WorkerFacts, StageOK
  <2>2. QED
    BY <1>2, <1>4, <1>5, <2>1 DEF Cursors, CursorFresh, CursorDrawn, CursorsUnique, HoldsRow,
                                  Effective, Exists, Rec
<1>7. CASE Effective(w)
  <2> DEFINE r == Rec(w)
             c == tx[w].cursor
  <2>1. /\ r \in Recs /\ c \in 1..seq /\ HoldsRow(w)
        /\ \A q \in Recs : Exists(q) => records[q].cursor # c
        /\ \A t \in tombstones : t.cursor # c
        /\ \A v \in Workers \ {w} : tx[v].cursor # c
    BY <1>1, <1>3, <1>7 DEF WorkerFacts, HoldsRow, CursorFresh, CursorDrawn, Cursors,
                            DrawnCursorsUnique
  <2>2. \/ /\ \A q \in Recs : records'[q] = IF q = r THEN NewRow(w) ELSE records[q]
           /\ tombstones' = tombstones
        \/ /\ \A q \in Recs : records'[q] = IF q = r THEN NoRow ELSE records[q]
           /\ tombstones' = tombstones \cup {[rec |-> r, cursor |-> c]}
    BY <1>7, <2>1 DEF Commit, CommitPut, CommitDelete, Locking, TypeOK
  <2>3. CursorsUnique'
    BY <1>2, <1>3, <2>1, <2>2 DEF Cursors, CursorsUnique, Exists, NewRow, NoRow
  <2>4. ASSUME NEW v \in Workers \ {w}
        PROVE  CursorFresh(v)'
    BY <1>2, <1>3, <2>1, <2>2 DEF Cursors, CursorFresh, Exists, NewRow, NoRow
  <2>5. ASSUME NEW v \in Workers \ {w}
        PROVE  CursorDrawn(v)'
    <3>1. HoldsRow(v) => Rec(v) # r /\ Rec(v) \in Recs
      BY <1>1, <2>1, Facts DEF HoldsRow, WorkerFacts, RowHeld
    <3>2. QED
      BY <1>2, <2>2, <3>1 DEF Cursors, CursorDrawn, HoldsRow, Effective, Exists, Rec
  <2>6. QED
    BY <1>4, <1>5, <2>3, <2>4, <2>5 DEF Cursors
<1>8. QED
  BY <1>6, <1>7

LEMMA CursorStep ==
    ASSUME Locking, TypeOK', Cursors, [Next]_vars
    PROVE  Cursors'
<1> USE DEF Goto
<1>1. ASSUME NEW w \in Workers, NEW o \in Ops, Deliver(w, o)
      PROVE  Cursors'
  <2>1. DrawsOrKeeps(w) /\ CursorDrawn(w)'
    BY <1>1 DEF Deliver, DrawsOrKeeps, CursorDrawn, HoldsRow, Locking, TypeOK
  <2>2. QED
    BY <2>1, DrawKeeps
<1>2. ASSUME NEW w \in Workers, CheckHit(w)
      PROVE  Cursors'
  <2>1. WorkerFacts(w)
    BY <1>2, Facts DEF CheckHit
  <2>2. DrawsOrKeeps(w)
    BY <1>2, <2>1 DEF CheckHit, DrawsOrKeeps, WorkerFacts, Locking, TypeOK, Txs
  <2>3. CursorDrawn(w)'
    BY <1>2, <2>1 DEF CheckHit, CursorDrawn, HoldsRow, Effective, Exists, Rec, WorkerFacts, StageOK,
       Cursors, CursorsUnique, NoTx, Locking, TypeOK, Txs
  <2>4. QED
    BY <2>2, <2>3, DrawKeeps
<1>3. ASSUME NEW w \in Workers, CheckMiss(w)
      PROVE  Cursors'
  <2>1. WorkerFacts(w)
    BY <1>3, Facts DEF CheckMiss
  <2>2. DrawsOrKeeps(w)
    BY <1>3, <2>1 DEF CheckMiss, DrawsOrKeeps, WorkerFacts, Locking, TypeOK, Txs
  <2>3. CursorDrawn(w)'
    BY <1>3, <2>1 DEF CheckMiss, CursorDrawn, HoldsRow, Effective, Exists, Rec, WorkerFacts, StageOK,
       Cursors, CursorsUnique, NoTx, Locking, TypeOK, Txs
  <2>4. QED
    BY <2>2, <2>3, DrawKeeps
<1>4. ASSUME NEW w \in Workers, Return(w)
      PROVE  Cursors'
  <2>1. WorkerFacts(w)
    BY <1>4, Facts DEF Return
  <2>2. DrawsOrKeeps(w)
    BY <1>4, <2>1 DEF Return, DrawsOrKeeps, WorkerFacts, Locking, TypeOK, Txs
  <2>3. CursorDrawn(w)'
    BY <1>4, <2>1 DEF Return, CursorDrawn, HoldsRow, Effective, Exists, Rec, WorkerFacts, StageOK,
       Cursors, CursorsUnique, NoTx, Locking, TypeOK, Txs
  <2>4. QED
    BY <2>2, <2>3, DrawKeeps
<1>5. ASSUME NEW w \in Workers, VerifyNoRow(w)
      PROVE  Cursors'
  <2>1. WorkerFacts(w)
    BY <1>5, Facts DEF VerifyNoRow
  <2>2. DrawsOrKeeps(w)
    BY <1>5, <2>1 DEF VerifyNoRow, DrawsOrKeeps, WorkerFacts, Locking, TypeOK, Txs
  <2>3. CursorDrawn(w)'
    BY <1>5, <2>1 DEF VerifyNoRow, CursorDrawn, HoldsRow, Effective, Exists, Rec, WorkerFacts, StageOK,
       Cursors, CursorsUnique, NoTx, Locking, TypeOK, Txs
  <2>4. QED
    BY <2>2, <2>3, DrawKeeps
<1>6. ASSUME NEW w \in Workers, VerifyMatch(w)
      PROVE  Cursors'
  <2>1. WorkerFacts(w)
    BY <1>6, Facts DEF VerifyMatch
  <2>2. DrawsOrKeeps(w)
    BY <1>6, <2>1 DEF VerifyMatch, DrawsOrKeeps, WorkerFacts, Locking, TypeOK, Txs
  <2>3. CursorDrawn(w)'
    BY <1>6, <2>1 DEF VerifyMatch, CursorDrawn, HoldsRow, Effective, Exists, Rec, WorkerFacts, StageOK,
       Cursors, CursorsUnique, NoTx, Locking, TypeOK, Txs
  <2>4. QED
    BY <2>2, <2>3, DrawKeeps
<1>7. ASSUME NEW w \in Workers, DrawForInsert(w), pc[w] = "write"
      PROVE  Cursors'
  <2>1. WorkerFacts(w)
    BY <1>7, Facts DEF DrawForInsert
  <2>2. DrawsOrKeeps(w)
    BY <1>7, <2>1 DEF DrawForInsert, DrawsOrKeeps, WorkerFacts, Locking, TypeOK, Txs
  <2>3. CursorDrawn(w)'
    BY <1>7, <2>1 DEF DrawForInsert, CursorDrawn, HoldsRow, Effective, Exists, Rec, WorkerFacts, StageOK,
       Cursors, CursorsUnique, NoTx, Locking, TypeOK, Txs
  <2>4. QED
    BY <2>2, <2>3, DrawKeeps
<1>8. ASSUME NEW w \in Workers, InsertRow(w)
      PROVE  Cursors'
  <2>1. WorkerFacts(w)
    BY <1>8, Facts DEF InsertRow
  <2>2. DrawsOrKeeps(w)
    BY <1>8, <2>1 DEF InsertRow, DrawsOrKeeps, WorkerFacts, Locking, TypeOK, Txs
  <2>3. CursorDrawn(w)'
    BY <1>8, <2>1 DEF InsertRow, CursorDrawn, HoldsRow, Effective, Exists, Rec, WorkerFacts, StageOK,
       Cursors, CursorsUnique, NoTx, Locking, TypeOK, Txs
  <2>4. QED
    BY <2>2, <2>3, DrawKeeps
<1>9. ASSUME NEW w \in Workers, BumpRow(w), pc[w] \in {"write", "insert"}
      PROVE  Cursors'
  <2>1. WorkerFacts(w)
    BY <1>9, Facts DEF BumpRow
  <2>2. DrawsOrKeeps(w)
    BY <1>9, <2>1 DEF BumpRow, DrawsOrKeeps, WorkerFacts, Locking, TypeOK, Txs
  <2>3. CursorDrawn(w)'
    BY <1>9, <2>1, SMTT(30) DEF BumpRow, CursorDrawn, HoldsRow, Effective, Exists, Rec, WorkerFacts, StageOK,
       Cursors, CursorsUnique, NoTx, Locking, TypeOK, Txs
  <2>4. QED
    BY <2>2, <2>3, DrawKeeps
<1>10. ASSUME NEW w \in Workers, WriteVersions(w)
      PROVE  Cursors'
  <2>1. WorkerFacts(w)
    BY <1>10, Facts DEF WriteVersions
  <2>2. DrawsOrKeeps(w)
    BY <1>10, <2>1 DEF WriteVersions, DrawsOrKeeps, WorkerFacts, Locking, TypeOK, Txs
  <2>3. CursorDrawn(w)'
    BY <1>10, <2>1 DEF WriteVersions, CursorDrawn, HoldsRow, Effective, Exists, Rec, WorkerFacts, StageOK,
       Cursors, CursorsUnique, NoTx, Locking, TypeOK, Txs
  <2>4. QED
    BY <2>2, <2>3, DrawKeeps
<1>11. ASSUME NEW w \in Workers, DeleteNoRow(w)
      PROVE  Cursors'
  <2>1. WorkerFacts(w)
    BY <1>11, Facts DEF DeleteNoRow
  <2>2. DrawsOrKeeps(w)
    BY <1>11, <2>1 DEF DeleteNoRow, DrawsOrKeeps, WorkerFacts, Locking, TypeOK, Txs
  <2>3. CursorDrawn(w)'
    BY <1>11, <2>1 DEF DeleteNoRow, CursorDrawn, HoldsRow, Effective, Exists, Rec, WorkerFacts, StageOK,
       Cursors, CursorsUnique, NoTx, Locking, TypeOK, Txs
  <2>4. QED
    BY <2>2, <2>3, DrawKeeps
<1>12. ASSUME NEW w \in Workers, DeleteRow(w)
      PROVE  Cursors'
  <2>1. WorkerFacts(w)
    BY <1>12, Facts DEF DeleteRow
  <2>2. DrawsOrKeeps(w)
    BY <1>12, <2>1 DEF DeleteRow, DrawsOrKeeps, WorkerFacts, Locking, TypeOK, Txs
  <2>3. CursorDrawn(w)'
    BY <1>12, <2>1 DEF DeleteRow, CursorDrawn, HoldsRow, Effective, Exists, Rec, WorkerFacts, StageOK,
       Cursors, CursorsUnique, NoTx, Locking, TypeOK, Txs
  <2>4. QED
    BY <2>2, <2>3, DrawKeeps
<1>13. ASSUME NEW w \in Workers, DeleteCascade(w)
      PROVE  Cursors'
  <2>1. WorkerFacts(w)
    BY <1>13, Facts DEF DeleteCascade, TombstoneCursor
  <2>2. DrawsOrKeeps(w)
    BY <1>13, <2>1 DEF DeleteCascade, TombstoneCursor, DrawsOrKeeps, WorkerFacts, Locking, TypeOK, Txs
  <2>3. CursorDrawn(w)'
    BY <1>13, <2>1 DEF DeleteCascade, TombstoneCursor, CursorDrawn, HoldsRow, Effective, Exists, Rec, WorkerFacts, StageOK,
       Cursors, CursorsUnique, NoTx, Locking, TypeOK, Txs
  <2>4. QED
    BY <2>2, <2>3, DrawKeeps
<1>14. ASSUME NEW w \in Workers, Commit(w)
       PROVE  Cursors'
  BY <1>14, CommitCursors
<1>15. ASSUME NEW w \in Workers, VerifyMismatch(w) \/ InsertFails(w) \/ Fail(w) \/ DeadlockAbort(w)
       PROVE  Cursors'
  <2>1. EndTx(w, "rejected") \/ EndTx(w, "error")
    BY <1>15 DEF VerifyMismatch, InsertFails, Fail, DeadlockAbort
  <2>2. DrawsOrKeeps(w) /\ CursorDrawn(w)'
    BY <1>15, <2>1 DEF VerifyMismatch, InsertFails, Fail, DeadlockAbort, EndTx, NoTx,
                       DrawsOrKeeps, CursorDrawn, HoldsRow, Locking, TypeOK
  <2>3. QED
    BY <2>2, DrawKeeps
<1>16. ASSUME NEW r \in Recs, DirectCreate(r)
       PROVE  Cursors'
  <2>1. /\ seq \in Nat /\ seq' = seq + 1
        /\ records' = [records EXCEPT ![r] = [version |-> 1, cursor |-> seq + 1, data |-> NoOp]]
        /\ \A q \in Recs : records'[q] = IF q = r THEN [version |-> 1, cursor |-> seq + 1, data |-> NoOp]
                                                  ELSE records[q]
        /\ tombstones' = tombstones /\ tx' = tx /\ pc' = pc /\ cur' = cur /\ request' = request
    BY <1>16 DEF DirectCreate, Locking, TypeOK
  <2>2. /\ \A v \in Workers : tx[v].cursor \in Nat
        /\ \A q \in Recs : records[q].cursor \in Nat /\ records[q].version \in Nat
        /\ \A t \in tombstones : t.cursor \in Nat
    BY DEF Locking, TypeOK, Txs, Rows, Tombstones
  <2>3. CursorsUnique'
    BY <2>1, <2>2 DEF Cursors, CursorsUnique, Exists
  <2>4. \A v \in Workers : CursorFresh(v)'
    BY <2>1, <2>2 DEF Cursors, CursorFresh, Exists
  <2>5. ASSUME NEW v \in Workers
        PROVE  CursorDrawn(v)'
    <3>1. HoldsRow(v) => Rec(v) # r /\ Rec(v) \in Recs
      BY <1>16, Facts DEF DirectCreate, HoldsRow, WorkerFacts, StageOK, Rec, Locking, TypeOK
    <3>2. QED
      BY <2>1, <3>1 DEF Cursors, CursorDrawn, HoldsRow, Effective, Exists, Rec
  <2>6. DrawnCursorsUnique'
    BY <2>1 DEF Cursors, DrawnCursorsUnique
  <2>7. QED
    BY <2>3, <2>4, <2>5, <2>6 DEF Cursors
<1>17. CASE UNCHANGED vars
  BY <1>17 DEF vars, Cursors, CursorFresh, CursorDrawn, DrawnCursorsUnique, CursorsUnique,
               HoldsRow, Effective, Exists, Rec
<1>18. QED
  BY <1>1, <1>2, <1>3, <1>4, <1>5, <1>6, <1>7, <1>8, <1>9, <1>10, <1>11, <1>12,
     <1>13, <1>14, <1>15, <1>16, <1>17
  DEF Next, Step, CreateDraw, UpdateNoRow, CreateOnConflict, UpdateRow

\* Cursors drawn by open transactions are unused, distinct, and above the cursor
\* of the row they will replace.
THEOREM CursorsCorrect == Spec => []Cursors
<1>1. Init => Cursors
  BY DEF Init, Cursors, CursorFresh, CursorDrawn, DrawnCursorsUnique, CursorsUnique,
         HoldsRow, Exists, NoRow, NoTx
<1>2. Locking /\ TypeOK' /\ Cursors /\ [Next]_vars => Cursors'
  BY CursorStep
<1>3. QED
  BY <1>1, <1>2, TypeCorrect, LockingCorrect, PTL DEF Spec

\* No two committed changes, records and tombstones alike, share a cursor.
THEOREM CursorsUniqueCorrect == Spec => []CursorsUnique
<1>1. Cursors => CursorsUnique
  BY DEF Cursors
<1>2. QED
  BY <1>1, CursorsCorrect, PTL

LEMMA StepAnnounces ==
    ASSUME Locking, Cursors, [Next]_vars,
           NEW r \in Recs, Exists(r), records'[r] # records[r]
    PROVE  \/ /\ records'[r].version = records[r].version + 1
              /\ records'[r].cursor > records[r].cursor
           \/ /\ records'[r] = NoRow
              /\ \E t \in tombstones' : t.rec = r /\ t.cursor > records[r].cursor
<1>1. ASSUME NEW w \in Workers, Commit(w)
      PROVE  \/ /\ records'[r].version = records[r].version + 1
                /\ records'[r].cursor > records[r].cursor
             \/ /\ records'[r] = NoRow
                /\ \E t \in tombstones' : t.rec = r /\ t.cursor > records[r].cursor
  <2>1. WorkerFacts(w) /\ CursorDrawn(w) /\ pc[w] = "commit"
    BY <1>1, Facts DEF Commit, Cursors
  <2>2. Rec(w) = r /\ Effective(w)
    BY <1>1, <2>1 DEF Commit, CommitPut, CommitDelete, WorkerFacts, StageOK, Locking, TypeOK
  <2>3. tx[w].cursor > records[r].cursor
    BY <2>1, <2>2 DEF CursorDrawn, HoldsRow
  <2>4. CASE Type(w) = "delete"
    <3>1. /\ records'[r] = NoRow
          /\ [rec |-> r, cursor |-> tx[w].cursor] \in tombstones'
      BY <1>1, <2>2, <2>4 DEF Commit, CommitDelete, Locking, TypeOK
    <3>2. QED
      BY <2>3, <3>1
  <2>5. CASE Type(w) # "delete"
    <3>1. records'[r] = NewRow(w)
      BY <1>1, <2>2, <2>5 DEF Commit, CommitPut, Locking, TypeOK
    <3>2. tx[w].version = records[r].version + 1
      BY <2>1, <2>2, <2>5 DEF WorkerFacts, RowHeld, HoldsRow
    <3>3. QED
      BY <2>3, <3>1, <3>2 DEF NewRow
  <2>6. QED
    BY <2>4, <2>5
<1>2. ASSUME NEW q \in Recs, DirectCreate(q)
      PROVE  FALSE
  BY <1>2 DEF DirectCreate, Locking, TypeOK
<1>3. ASSUME NEW w \in Workers, NEW o \in Ops, Deliver(w, o)
      PROVE  FALSE
  BY <1>3 DEF Deliver
<1>4. ASSUME NEW w \in Workers, Fail(w)
      PROVE  FALSE
  BY <1>4 DEF Fail
<1>5. ASSUME NEW w \in Workers, Step(w), ~Commit(w)
      PROVE  FALSE
  BY <1>5 DEF Step, CheckHit, CheckMiss, Return, VerifyNoRow, VerifyMatch, VerifyMismatch,
              CreateDraw, CreateOnConflict, UpdateRow, UpdateNoRow, InsertRow, InsertFails,
              WriteVersions, DeleteRow, DeleteNoRow, DeleteCascade, DeadlockAbort,
              DrawForInsert, BumpRow
<1>6. CASE UNCHANGED vars
  BY <1>6 DEF vars
<1>7. QED
  BY <1>1, <1>2, <1>3, <1>4, <1>5, <1>6 DEF Next

\* Every change of a row that clients may have pulled is announced above the
\* cursor they pulled it at, by a new version or by a tombstone.
THEOREM ChangesAnnounced == Spec => ChangesAreAnnounced
<1>1. Locking /\ Cursors /\ [Next]_vars =>
        [\A r \in Recs : Exists(r) /\ records'[r] # records[r] =>
            \/ /\ records'[r].version = records[r].version + 1
               /\ records'[r].cursor > records[r].cursor
            \/ /\ records'[r] = NoRow
               /\ \E t \in tombstones' : t.rec = r /\ t.cursor > records[r].cursor]_vars
  BY StepAnnounces
<1>2. QED
  BY <1>1, LockingCorrect, CursorsCorrect, PTL DEF Spec, ChangesAreAnnounced

\* The invariant the runs check as Inductive.
THEOREM InductiveCorrect == Spec => []Inductive
<1>1. Locking /\ Cursors => Inductive
  BY DEF Locking, Cursors, Inductive
<1>2. QED
  BY <1>1, LockingCorrect, CursorsCorrect, PTL

-----------------------------------------------------------------------------
(* The feed of changes. *)

LEMMA StepDraws ==
    ASSUME Locking, NEW w \in Workers,
           \/ \E o \in Ops : Deliver(w, o)
           \/ Fail(w)
           \/ Step(w) /\ ~Commit(w)
    PROVE  DrawsOrKeeps(w)
<1>1. /\ tx \in [Workers -> Txs] /\ pc \in [Workers -> Pcs]
      /\ cur \in [Workers -> Ops \cup {NoOp}] /\ seq \in Nat
  BY DEF Locking, TypeOK
<1> USE DEF DrawsOrKeeps, Goto
<1>2. ASSUME \/ \E o \in Ops : Deliver(w, o)
             \/ CheckHit(w) \/ CheckMiss(w) \/ Return(w) \/ VerifyNoRow(w) \/ DeleteNoRow(w)
      PROVE  DrawsOrKeeps(w)
  BY <1>1, <1>2 DEF Deliver, CheckHit, CheckMiss, Return, VerifyNoRow, DeleteNoRow
<1>3. ASSUME VerifyMatch(w) \/ InsertRow(w) \/ DeleteRow(w) \/ WriteVersions(w)
      PROVE  DrawsOrKeeps(w)
  BY <1>1, <1>3 DEF VerifyMatch, InsertRow, DeleteRow, WriteVersions, Txs
<1>4. ASSUME DrawForInsert(w) \/ BumpRow(w) \/ DeleteCascade(w)
      PROVE  DrawsOrKeeps(w)
  BY <1>1, <1>4 DEF DrawForInsert, BumpRow, DeleteCascade, TombstoneCursor, Txs
<1>5. ASSUME VerifyMismatch(w) \/ InsertFails(w) \/ Fail(w) \/ DeadlockAbort(w)
      PROVE  DrawsOrKeeps(w)
  BY <1>1, <1>5 DEF VerifyMismatch, InsertFails, Fail, DeadlockAbort, EndTx, NoTx
<1>6. QED
  BY <1>2, <1>3, <1>4, <1>5
  DEF Step, CreateDraw, UpdateNoRow, CreateOnConflict, UpdateRow

LEMMA DrawRefines ==
    ASSUME Locking, NEW w \in Workers, DrawsOrKeeps(w)
    PROVE  [Feed!FeedNext]_(Feed!feedVars)
<1> DEFINE Drawn == [v \in Workers |-> tx[v].cursor]
<1>1. UNCHANGED <<[r \in Recs |-> IF Exists(r) THEN records[r].cursor ELSE 0], tombstones>>
  BY DEF DrawsOrKeeps, Exists
<1>2. \A c : tx'[w].cursor = c => Drawn' = [Drawn EXCEPT ![w] = c]
  BY DEF DrawsOrKeeps
<1>3. CASE seq' = seq + 1 /\ tx'[w].cursor = seq + 1
  <2>1. Feed!Draw(w)
    BY <1>1, <1>2, <1>3 DEF Feed!Draw
  <2>2. QED
    BY <2>1 DEF Feed!FeedNext
<1>4. CASE seq' = seq /\ tx'[w].cursor = tx[w].cursor
  <2>1. Drawn' = Drawn
    BY <1>2, <1>4
  <2>2. QED
    BY <1>1, <1>4, <2>1 DEF Feed!feedVars
<1>5. CASE seq' = seq /\ tx'[w].cursor = 0 /\ tx[w].cursor # 0
  <2>1. Feed!Abandon(w)
    BY <1>1, <1>2, <1>5 DEF Feed!Abandon, Feed!Close
  <2>2. QED
    BY <2>1 DEF Feed!FeedNext
<1>6. QED
  BY <1>3, <1>4, <1>5 DEF DrawsOrKeeps

LEMMA CommitFeeds ==
    ASSUME Locking, Cursors, NEW w \in Workers, Commit(w)
    PROVE  [Feed!FeedNext]_(Feed!feedVars)
<1> DEFINE Shown == [q \in Recs |-> IF Exists(q) THEN records[q].cursor ELSE 0]
<1>1. WorkerFacts(w) /\ CursorDrawn(w) /\ pc[w] = "commit" /\ Rec(w) \in Recs
  BY Facts DEF Commit, Cursors, WorkerFacts
<1>2. PICK r \in Recs : r = Rec(w)
  BY <1>1
<1>3. /\ seq' = seq
      /\ \A v \in Workers : tx'[v].cursor = IF v = w THEN 0 ELSE tx[v].cursor
  BY DEF Commit, EndTx, NoTx, Locking, TypeOK
<1>4. Feed!Close(w)
  BY <1>3 DEF Feed!Close
<1>5. CASE ~Effective(w)
  <2>1. records' = records /\ tombstones' = tombstones
    BY <1>1, <1>5 DEF Commit, CommitDelete, WorkerFacts, StageOK
  <2>2. UNCHANGED <<[q \in Recs |-> IF Exists(q) THEN records[q].cursor ELSE 0], tombstones>>
    BY <2>1 DEF Exists
  <2>3. CASE tx[w].cursor = 0
    <3>1. [v \in Workers |-> tx[v].cursor]' = [v \in Workers |-> tx[v].cursor]
      BY <1>3, <2>3
    <3>2. QED
      BY <1>3, <2>2, <3>1 DEF Feed!feedVars
  <2>4. CASE tx[w].cursor # 0
    <3>1. Feed!Abandon(w)
      BY <1>3, <1>4, <2>2, <2>4 DEF Feed!Abandon
    <3>2. QED
      BY <3>1 DEF Feed!FeedNext
  <2>5. QED
    BY <2>3, <2>4
<1>6. CASE Effective(w)
  <2>1. /\ tx[w].cursor \in Nat /\ tx[w].cursor # 0
        /\ Exists(r) => tx[w].cursor > records[r].cursor
    BY <1>1, <1>2, <1>6 DEF CursorDrawn, HoldsRow, WorkerFacts, Txs
  <2>2. \A q \in Recs \ {r} : records'[q] = records[q]
    BY <1>2 DEF Commit, CommitPut, CommitDelete, Locking, TypeOK
  <2>3. CASE Type(w) = "delete"
    <3>1. /\ records'[r] = NoRow /\ Exists(r)
          /\ tombstones' = tombstones \cup {[rec |-> r, cursor |-> tx[w].cursor]}
      BY <1>1, <1>2, <1>6, <2>3 DEF Commit, CommitDelete, WorkerFacts, RowHeld, HoldsRow, Locking, TypeOK
    <3>2. Shown' = [Shown EXCEPT ![r] = 0] /\ Shown[r] = records[r].cursor /\ Shown[r] # 0
      <4>1. ~Exists(r)' /\ records[r].cursor \in 1..seq
        BY <3>1 DEF Exists, NoRow, Cursors, CursorsUnique
      <4>2. Shown[r] = records[r].cursor /\ Shown[r] # 0
        BY <3>1, <4>1
      <4>3. Shown' = [Shown EXCEPT ![r] = 0]
        BY <2>2, <4>1 DEF Exists
      <4>4. QED
        BY <4>2, <4>3
    <3>3. Feed!Bury(w, r)
      BY <1>3, <1>4, <2>1, <3>1, <3>2 DEF Feed!Bury, Feed!Live
    <3>4. QED
      BY <3>3 DEF Feed!FeedNext
  <2>4. CASE Type(w) # "delete"
    <3>1. records'[r] = NewRow(w) /\ tombstones' = tombstones
      BY <1>2, <2>4 DEF Commit, CommitPut, Locking, TypeOK
    <3>2. Exists(r)' /\ records'[r].cursor = tx[w].cursor
      BY <1>6, <3>1 DEF NewRow, Exists, Effective
    <3>3. Shown' = [Shown EXCEPT ![r] = tx[w].cursor]
      BY <2>2, <3>2 DEF Exists
    <3>4. Feed!Publish(w, r)
      BY <1>3, <1>4, <2>1, <3>1, <3>3 DEF Feed!Publish
    <3>5. QED
      BY <3>4 DEF Feed!FeedNext
  <2>5. QED
    BY <2>3, <2>4
<1>7. QED
  BY <1>5, <1>6

LEMMA ImportFeeds ==
    ASSUME Locking, Cursors, NEW r \in Recs, DirectCreate(r)
    PROVE  [Feed!FeedNext]_(Feed!feedVars)
<1>1. /\ seq' = seq + 1 /\ tombstones' = tombstones /\ tx' = tx
      /\ ~Exists(r) /\ Exists(r)' /\ records'[r].cursor = seq + 1
      /\ \A q \in Recs \ {r} : records'[q] = records[q]
  BY DEF DirectCreate, Exists, Locking, TypeOK
<1>2. Feed!Import(r)
  BY <1>1 DEF Feed!Import, Feed!Live, Exists
<1>3. QED
  BY <1>2 DEF Feed!FeedNext

\* The processor refines the feed that clients pull: the cursors of one record
\* rise from commit to commit, whatever order transactions draw and commit in.
THEOREM ImplementsTheFeed == Spec => ImplementsFeed
<1>1. Init => Feed!FeedInit
  BY DEF Init, Feed!FeedInit, Exists, NoRow, NoTx
<1>2. Locking /\ Cursors /\ [Next]_vars => [Feed!FeedNext]_(Feed!feedVars)
  <2>1. ASSUME UNCHANGED vars
        PROVE  UNCHANGED Feed!feedVars
    BY <2>1 DEF vars, Feed!feedVars, Exists
  <2>2. QED
    BY <2>1, StepDraws, DrawRefines, CommitFeeds, ImportFeeds DEF Next
<1>3. QED
  BY <1>1, <1>2, LockingCorrect, CursorsCorrect, PTL DEF Spec, ImplementsFeed, Feed!FeedSpec

=============================================================================
