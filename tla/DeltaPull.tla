----------------------------- MODULE DeltaPull ------------------------------
(***************************************************************************)
(* The delta pull: SyncraSDK.pullDelta (src/apps/sdk/src/syncra-sdk.ts) of  *)
(* one client against SyncService.getSyncUpdates                            *)
(* (src/apps/api/src/sync/sync.service.ts) of a server that other clients   *)
(* write to (CursorFeed).                                                   *)
(*                                                                          *)
(* Several pulls of the client run at the same time when sync() is called   *)
(* while another call is under way (timer, online event, application).      *)
(* Every SQL statement and every IndexedDB request is an action, so others  *)
(* run in between.                                                          *)
(*                                                                          *)
(* A cursor is a BIGINT, which the PostgreSQL driver returns as a string:   *)
(* the client compares it numerically with a number and as text with        *)
(* another cursor.                                                          *)
(*                                                                          *)
(* Not covered: the client's own unpushed changes, and collections (the SDK *)
(* pulls all of them).                                                      *)
(***************************************************************************)
EXTENDS CursorFeed, FiniteSets

CONSTANTS
    Pulls,         \* calls of pullDelta that can be under way
    PageSize,      \* PAGE_SIZE
    Workload,      \* what the other clients do besides creating and updating
    MaxSeq,        \* bound on the cursors drawn
    MaxInterrupts  \* bound on the pulls cut short

ASSUME DeltaPullAssumption ==
    /\ IsFiniteSet(Recs)
    /\ PageSize \in Nat \ {0}
    /\ Workload \subseteq {"delete", "revive", "import"}
    /\ MaxSeq \in Nat /\ MaxInterrupts \in Nat

VARIABLES
    local,       \* IndexedDB: cursor of the copy of each record, 0 if none
    lastCursor,  \* IndexedDB: metadata "lastCursor"
    tracked,     \* the client's row of table client_cursors, -1 without row
    pull,        \* locals of each call of pullDelta and the page it applies
    interrupts,  \* pulls cut short so far, to bound the model
    clean        \* history: nothing changed on the server since the pull began

clientVars == <<local, lastCursor, pull, interrupts>>
vars       == <<feedVars, clientVars, tracked, clean>>

-----------------------------------------------------------------------------
(* Cursors as text. *)

Width[n \in Nat] == IF n < 10 THEN 1 ELSE 1 + Width[n \div 10]

\* a > b of two strings of digits.
TextGreater(a, b) ==
    LET k == Width[a]
        m == Width[b]
    IN  IF k > m THEN a \div 10^(k - m) >= b ELSE a > b \div 10^(m - k)

\* maxCursor is a number until the first cursor replaces it.
Exceeds(c, p) ==
    IF pull[p].text THEN TextGreater(c, pull[p].max) ELSE c > pull[p].max

-----------------------------------------------------------------------------

Steps == {"idle", "records", "graves", "track", "apply", "save"}

Copies == [rec : Recs, cursor : Nat]

NoPull == [step |-> "idle", cursor |-> 0, max |-> 0, text |-> FALSE,
           records |-> {}, tombstones |-> {}, full |-> FALSE]

PullStates == [step : Steps, cursor : Nat, max : Nat, text : BOOLEAN,
               records : SUBSET Copies, tombstones : SUBSET Graves, full : BOOLEAN]

\* Type invariant of the feed, of IndexedDB and of the locals of pullDelta:
\* no change has a cursor that is not a number.
TypeOK ==
    /\ rows \in [Recs -> Nat]
    /\ graves \subseteq Graves
    /\ seq \in Nat
    /\ drawn \in [Writers -> Nat]
    /\ local \in [Recs -> Nat]
    /\ lastCursor \in Nat
    /\ tracked \in Nat \cup {-1}
    /\ pull \in [Pulls -> PullStates]
    /\ interrupts \in 0..MaxInterrupts
    /\ clean \in [Pulls -> BOOLEAN]

Init ==
    /\ FeedInit
    /\ local = [r \in Recs |-> 0]
    /\ lastCursor = 0
    /\ tracked = -1
    /\ pull = [p \in Pulls |-> NoPull]
    /\ interrupts = 0
    /\ clean = [p \in Pulls |-> FALSE]

\* The client has every change up to its cursor, and a deletion it does not
\* have is still ahead of its cursor.
NothingMissed ==
    \A r \in Recs :
        /\ Live(r) /\ rows[r] <= lastCursor => local[r] = rows[r]
        /\ ~Live(r) /\ local[r] # 0 =>
              \E g \in graves : g.rec = r /\ g.cursor > lastCursor

-----------------------------------------------------------------------------
(* The server. *)

Unclean == clean' = [p \in Pulls |-> FALSE]

ServerStep(w) ==
    /\ \/ seq < MaxSeq /\ Draw(w)
       \/ Abandon(w)
       \/ \E r \in Recs :
            \/ Publish(w, r) /\ (Live(r) \/ ~Buried(r) \/ "revive" \in Workload)
            \/ Bury(w, r) /\ "delete" \in Workload
    /\ Unclean
    /\ UNCHANGED <<clientVars, tracked>>

\* POST /records uses a fresh id.
ServerImport(r) ==
    /\ "import" \in Workload
    /\ seq < MaxSeq
    /\ ~Buried(r)
    /\ Import(r)
    /\ Unclean
    /\ UNCHANGED <<clientVars, tracked>>

-----------------------------------------------------------------------------
(* pullDelta. *)

At(p, step)   == pull[p].step = step
Goto(p, step) == pull' = [pull EXCEPT ![p].step = step]

\* Bug: the highest cursor seen starts from 0 on every pull.
Start_FromZero(p) ==
    /\ At(p, "idle")
    /\ pull' = [pull EXCEPT ![p] = [NoPull EXCEPT !.step = "records",
                                                  !.cursor = lastCursor]]
    /\ clean' = [clean EXCEPT ![p] = FALSE]
    /\ UNCHANGED <<feedVars, local, lastCursor, tracked, interrupts>>

\* sync() reaches pullDelta, which reads its cursor.
Start(p) ==
    /\ At(p, "idle")
    /\ pull' = [pull EXCEPT ![p] = [NoPull EXCEPT !.step = "records",
                                                  !.cursor = lastCursor,
                                                  !.max = lastCursor]]
    /\ clean' = [clean EXCEPT
                    ![p] = NothingMissed /\ \A w \in Writers : drawn[w] = 0]
    /\ UNCHANGED <<feedVars, local, lastCursor, tracked, interrupts>>

\* Bug: ORDER BY cursor DESC.
FirstPage_Descending(changes) ==
    {c \in changes :
        Cardinality({d \in changes : d.cursor >= c.cursor}) <= PageSize}

\* ORDER BY cursor ASC LIMIT $3
FirstPage(changes) ==
    {c \in changes :
        Cardinality({d \in changes : d.cursor <= c.cursor}) <= PageSize}

LiveAbove(cursor) ==
    {c \in {[rec |-> r, cursor |-> rows[r]] : r \in {q \in Recs : Live(q)}} :
        c.cursor > cursor}

SelectRecords(p) ==
    /\ At(p, "records")
    /\ LET page == FirstPage(LiveAbove(pull[p].cursor))
       IN  pull' = [pull EXCEPT ![p].step = "graves",
                                ![p].records = page,
                                ![p].full = Cardinality(page) = PageSize]
    /\ UNCHANGED <<feedVars, local, lastCursor, tracked, interrupts, clean>>

\* Bug: only a full list of tombstones asks for another page.
SelectTombstones_FullAlone(p) ==
    /\ At(p, "graves")
    /\ LET page == FirstPage({g \in graves : g.cursor > pull[p].cursor})
       IN  pull' = [pull EXCEPT ![p].step = "track",
                                ![p].tombstones = page,
                                ![p].full = Cardinality(page) = PageSize]
    /\ UNCHANGED <<feedVars, local, lastCursor, tracked, interrupts, clean>>

\* A second statement, which sees what was committed since the first.
SelectTombstones(p) ==
    /\ At(p, "graves")
    /\ LET page == FirstPage({g \in graves : g.cursor > pull[p].cursor})
       IN  pull' = [pull EXCEPT ![p].step = "track",
                                ![p].tombstones = page,
                                ![p].full = @ \/ Cardinality(page) = PageSize]
    /\ UNCHANGED <<feedVars, local, lastCursor, tracked, interrupts, clean>>

\* The server notes how far the answer goes, whatever becomes of the answer.
TrackClient(p) ==
    LET served == {c.cursor : c \in pull[p].records \cup pull[p].tombstones}
    IN  /\ At(p, "track")
        /\ IF served = {}
           THEN tracked' = pull[p].cursor
           ELSE tracked' \in served /\ \A c \in served : c <= tracked'
        /\ Goto(p, "apply")
        /\ UNCHANGED <<feedVars, local, lastCursor, interrupts, clean>>

Lowest(changes) == {c \in changes : \A d \in changes : c.cursor <= d.cursor}

\* The locals of p once it has seen cursor c.
Advance(p, c) ==
    IF Exceeds(c, p) THEN [pull[p] EXCEPT !.max = c, !.text = TRUE] ELSE pull[p]

\* Bug: a record the client already has is left as it is.
Store_OnlyNew(c) == IF local[c.rec] = 0 THEN c.cursor ELSE local[c.rec]

\* upsertRecord replaces whatever copy there is.
Store(c) == c.cursor

ApplyRecord(p) ==
    /\ At(p, "apply")
    /\ \E c \in Lowest(pull[p].records) :
          /\ local' = [local EXCEPT ![c.rec] = Store(c)]
          /\ pull' = [pull EXCEPT ![p] = [Advance(p, c.cursor) EXCEPT
                                             !.records = @ \ {c}]]
    /\ UNCHANGED <<feedVars, lastCursor, tracked, interrupts, clean>>

\* Deletions come after the records of the page, whatever their cursors.
ApplyTombstone(p) ==
    /\ At(p, "apply") /\ pull[p].records = {}
    /\ \E g \in Lowest(pull[p].tombstones) :
          /\ local' = [local EXCEPT ![g.rec] = 0]
          /\ pull' = [pull EXCEPT ![p] = [Advance(p, g.cursor) EXCEPT
                                             !.tombstones = @ \ {g}]]
    /\ UNCHANGED <<feedVars, lastCursor, tracked, interrupts, clean>>

Applied(p) ==
    At(p, "apply") /\ pull[p].records = {} /\ pull[p].tombstones = {}

NextPage(p) ==
    /\ Applied(p) /\ pull[p].full
    /\ pull' = [pull EXCEPT ![p].step = "records", ![p].cursor = pull[p].max]
    /\ UNCHANGED <<feedVars, local, lastCursor, tracked, interrupts, clean>>

LastPage(p) ==
    /\ Applied(p) /\ ~pull[p].full
    /\ Goto(p, "save")
    /\ UNCHANGED <<feedVars, local, lastCursor, tracked, interrupts, clean>>

Save(p) ==
    /\ At(p, "save")
    /\ lastCursor' = pull[p].max
    /\ pull' = [pull EXCEPT ![p] = NoPull]
    /\ clean' = [clean EXCEPT ![p] = FALSE]
    /\ UNCHANGED <<feedVars, local, tracked, interrupts>>

\* A request fails, or the page is closed; IndexedDB keeps what was applied.
Interrupt(p) ==
    /\ ~At(p, "idle")
    /\ interrupts < MaxInterrupts
    /\ interrupts' = interrupts + 1
    /\ pull' = [pull EXCEPT ![p] = NoPull]
    /\ clean' = [clean EXCEPT ![p] = FALSE]
    /\ UNCHANGED <<feedVars, local, lastCursor, tracked>>

-----------------------------------------------------------------------------

PullStep(p) ==
    \/ SelectRecords(p) \/ SelectTombstones(p) \/ TrackClient(p)
    \/ ApplyRecord(p) \/ ApplyTombstone(p)
    \/ NextPage(p) \/ LastPage(p) \/ Save(p)

Next ==
    \/ \E w \in Writers : ServerStep(w)
    \/ \E r \in Recs : ServerImport(r)
    \/ \E p \in Pulls : Start(p) \/ PullStep(p) \/ Interrupt(p)

\* Statements and requests are answered, transactions end, the periodic timer
\* starts pulls; nothing makes anyone write or a pull be cut short.
Fairness ==
    /\ \A p \in Pulls : WF_vars(Start(p)) /\ WF_vars(PullStep(p))
    /\ \A w \in Writers :
          WF_vars(ServerStep(w) /\ drawn[w] # 0 /\ drawn'[w] = 0)

Spec     == Init /\ [][Next]_vars
FairSpec == Spec /\ Fairness

-----------------------------------------------------------------------------
(* Safety.  NothingMissed, above, is what the monotonic cursor is for. *)

\* The client's cursor never goes back: what was applied is not pulled again.
CursorNeverRegresses == [][lastCursor' >= lastCursor]_vars

\* When nothing is committed from the moment a pull begins, nothing was in
\* flight then, and the client had missed nothing before, then the pages it
\* applies add up to the server's records, whatever an interrupted pull left.
CleanPullConverges ==
    \A p \in Pulls : At(p, "save") /\ clean[p] => local = rows

-----------------------------------------------------------------------------
(* Liveness. *)

\* "Pages through results in chunks of PAGE_SIZE, continuing until both records
\* and tombstones return fewer than a full page" (syncra-sdk.ts:746-747): the loop
\* ends, as the cursors drawn are bounded.  Compared as text, a full page of
\* cursors one digit longer is no progress.
PullsEnd == \A p \in Pulls : At(p, "records") ~> At(p, "idle")

\* Once the server is quiet the client has, and keeps, exactly its records: where
\* PullsEnd holds, that is while no page is full of longer cursors.
CatchesUp == <>[](local = rows)

=============================================================================
