-------------------------- MODULE DeltaPull_proofs --------------------------
(***************************************************************************)
(* Proofs about DeltaPull, for any number of records, any page size and any *)
(* comparison of cursors.                                                   *)
(***************************************************************************)
EXTENDS DeltaPull, FiniteSetTheorems, WellFoundedInduction, TLAPS

USE DEF feedVars, clientVars

-----------------------------------------------------------------------------
(* Type correctness. *)

LEMMA FeedType ==
    ASSUME TypeOK, NEW w \in Writers, ServerStep(w)
    PROVE  /\ rows' \in [Recs -> Nat] /\ graves' \subseteq Graves
           /\ seq' \in Nat /\ drawn' \in [Writers -> Nat]
BY DEF TypeOK, ServerStep, Draw, Abandon, Publish, Bury, Close, Graves

LEMMA PagesType ==
    ASSUME TypeOK, NEW cursor \in Nat
    PROVE  /\ FirstPage(LiveAbove(cursor)) \subseteq Copies
           /\ FirstPage({g \in graves : g.cursor > cursor}) \subseteq Graves
BY DEF TypeOK, FirstPage, LiveAbove, Copies, Graves

LEMMA AdvanceType ==
    ASSUME TypeOK, NEW p \in Pulls, NEW c \in Nat
    PROVE  /\ Advance(p, c) \in PullStates
           /\ Advance(p, c).max \in {c, pull[p].max}
           /\ Advance(p, c).step = pull[p].step
           /\ Advance(p, c).cursor = pull[p].cursor
           /\ Advance(p, c).records = pull[p].records
           /\ Advance(p, c).tombstones = pull[p].tombstones
<1>1. pull[p] \in PullStates
  BY DEF TypeOK
<1>2. CASE Exceeds(c, p)
  BY <1>1, <1>2 DEF Advance, PullStates
<1>3. CASE ~Exceeds(c, p)
  BY <1>1, <1>3 DEF Advance
<1>4. QED
  BY <1>2, <1>3

LEMMA TypeStep ==
    ASSUME TypeOK, [Next]_vars
    PROVE  TypeOK'
<1>1. ASSUME NEW w \in Writers, ServerStep(w)
      PROVE  TypeOK'
  BY <1>1, FeedType DEF TypeOK, ServerStep, Unclean
<1>2. ASSUME NEW r \in Recs, ServerImport(r)
      PROVE  TypeOK'
  BY <1>2 DEF TypeOK, ServerImport, Import, Unclean
<1>3. ASSUME NEW p \in Pulls, Start(p)
      PROVE  TypeOK'
  <2>1. [NoPull EXCEPT !.step = "records", !.cursor = lastCursor, !.max = lastCursor] \in PullStates
    BY DEF TypeOK, NoPull, PullStates, Steps, Copies, Graves
  <2>2. (NothingMissed /\ \A w \in Writers : drawn[w] = 0) \in BOOLEAN
    BY DEF NothingMissed
  <2>3. clean' \in [Pulls -> BOOLEAN]
    BY <1>3, <2>2, Zenon DEF TypeOK, Start
  <2>4. QED
    BY <1>3, <2>1, <2>3 DEF TypeOK, Start
<1>4. ASSUME NEW p \in Pulls, SelectRecords(p)
      PROVE  TypeOK'
  <2>1. /\ pull[p] \in PullStates
        /\ FirstPage(LiveAbove(pull[p].cursor)) \subseteq Copies
    BY PagesType DEF TypeOK, PullStates
  <2>2. QED
    BY <1>4, <2>1 DEF TypeOK, SelectRecords, PullStates, Steps
<1>5. ASSUME NEW p \in Pulls, SelectTombstones(p)
      PROVE  TypeOK'
  <2>1. /\ pull[p] \in PullStates
        /\ FirstPage({g \in graves : g.cursor > pull[p].cursor}) \subseteq Graves
    BY PagesType DEF TypeOK, PullStates
  <2>2. QED
    BY <1>5, <2>1 DEF TypeOK, SelectTombstones, PullStates, Steps
<1>6. ASSUME NEW p \in Pulls, TrackClient(p)
      PROVE  TypeOK'
  <2>1. /\ pull[p] \in PullStates /\ pull[p].cursor \in Nat
        /\ {c.cursor : c \in pull[p].records \cup pull[p].tombstones} \subseteq Nat
    BY DEF TypeOK, PullStates, Copies, Graves
  <2>2. tracked' \in Nat
    BY <1>6, <2>1 DEF TrackClient
  <2>3. QED
    BY <1>6, <2>1, <2>2 DEF TypeOK, TrackClient, Goto, PullStates, Steps
<1>7. ASSUME NEW p \in Pulls, ApplyRecord(p)
      PROVE  TypeOK'
  <2>1. PICK c \in pull[p].records :
           /\ local' = [local EXCEPT ![c.rec] = Store(c)]
           /\ pull' = [pull EXCEPT ![p] = [Advance(p, c.cursor) EXCEPT !.records = @ \ {c}]]
    BY <1>7 DEF ApplyRecord, Lowest
  <2>2. c \in Copies /\ c.cursor \in Nat
    BY DEF TypeOK, PullStates, Copies
  <2>3. Advance(p, c.cursor) \in PullStates
    BY <2>2, AdvanceType
  <2>4. [Advance(p, c.cursor) EXCEPT !.records = @ \ {c}] \in PullStates
    BY <2>3 DEF PullStates
  <2>5. QED
    BY <1>7, <2>1, <2>2, <2>4 DEF TypeOK, ApplyRecord, Store
<1>8. ASSUME NEW p \in Pulls, ApplyTombstone(p)
      PROVE  TypeOK'
  <2>1. PICK g \in pull[p].tombstones :
           /\ local' = [local EXCEPT ![g.rec] = 0]
           /\ pull' = [pull EXCEPT ![p] = [Advance(p, g.cursor) EXCEPT !.tombstones = @ \ {g}]]
    BY <1>8 DEF ApplyTombstone, Lowest
  <2>2. g \in Graves /\ g.cursor \in Nat
    BY DEF TypeOK, PullStates, Graves
  <2>3. Advance(p, g.cursor) \in PullStates
    BY <2>2, AdvanceType
  <2>4. [Advance(p, g.cursor) EXCEPT !.tombstones = @ \ {g}] \in PullStates
    BY <2>3 DEF PullStates
  <2>5. QED
    BY <1>8, <2>1, <2>4 DEF TypeOK, ApplyTombstone
<1>9. ASSUME NEW p \in Pulls, NextPage(p) \/ LastPage(p)
      PROVE  TypeOK'
  BY <1>9, SMTT(30) DEF TypeOK, NextPage, LastPage, Goto, PullStates, Steps
<1>10. NoPull \in PullStates
  BY DEF NoPull, PullStates, Steps, Copies, Graves
<1>11. ASSUME NEW p \in Pulls, Save(p)
       PROVE  TypeOK'
  BY <1>10, <1>11 DEF TypeOK, Save, PullStates
<1>12. ASSUME NEW p \in Pulls, Interrupt(p)
       PROVE  TypeOK'
  BY <1>10, <1>12, DeltaPullAssumption DEF TypeOK, Interrupt
<1>13. CASE UNCHANGED vars
  BY <1>13 DEF vars, TypeOK
<1>14. QED
  BY <1>1, <1>2, <1>3, <1>4, <1>5, <1>6, <1>7, <1>8, <1>9, <1>11, <1>12, <1>13
  DEF Next, PullStep

\* Every variable keeps its type, whatever the workload and the page size.
THEOREM TypeCorrect == Spec => []TypeOK
<1>1. Init => TypeOK
  BY CursorFeedAssumption, DeltaPullAssumption
  DEF Init, FeedInit, TypeOK, NoPull, PullStates, Steps, Copies, Graves
<1>2. TypeOK /\ [Next]_vars => TypeOK'
  BY TypeStep
<1>3. QED
  BY <1>1, <1>2, PTL DEF Spec

-----------------------------------------------------------------------------
(* The cursor of a client that runs one pull at a time. *)

OnePull == \A p, q \in Pulls : p = q

\* What a pull has seen is above the cursor it began with.
Ahead(p) ==
    At(p, "idle") \/
        /\ pull[p].cursor >= lastCursor /\ pull[p].max >= lastCursor
        /\ \A c \in pull[p].records \cup pull[p].tombstones : c.cursor > lastCursor

LEMMA AheadStep ==
    ASSUME OnePull, TypeOK, [Next]_vars, NEW p \in Pulls, Ahead(p)
    PROVE  Ahead(p)' /\ lastCursor' >= lastCursor
<1>1. /\ pull[p] \in PullStates /\ lastCursor \in Nat /\ pull[p].cursor \in Nat
      /\ pull[p].max \in Nat
      /\ \A c \in pull[p].records \cup pull[p].tombstones : c.cursor \in Nat
  BY DEF TypeOK, PullStates, Copies, Graves
<1>2. \A q \in Pulls : q = p
  BY DEF OnePull
<1>3. ASSUME pull' = pull, lastCursor' = lastCursor
      PROVE  Ahead(p)' /\ lastCursor' >= lastCursor
  BY <1>1, <1>3 DEF Ahead, At
<1>4. CASE (\E w \in Writers : ServerStep(w)) \/ (\E r \in Recs : ServerImport(r)) \/ UNCHANGED vars
  BY <1>3, <1>4 DEF ServerStep, ServerImport, vars
<1>5. CASE Start(p)
  BY <1>1, <1>5 DEF Start, Ahead, At, NoPull, TypeOK
<1>6. CASE SelectRecords(p)
  <2>1. \A c \in FirstPage(LiveAbove(pull[p].cursor)) : c.cursor > pull[p].cursor /\ c.cursor \in Nat
    BY DEF FirstPage, LiveAbove, TypeOK
  <2>2. /\ pull'[p].records = FirstPage(LiveAbove(pull[p].cursor))
        /\ pull'[p].tombstones = pull[p].tombstones
        /\ pull'[p].cursor = pull[p].cursor /\ pull'[p].max = pull[p].max
        /\ lastCursor' = lastCursor /\ ~At(p, "idle")
    BY <1>1, <1>6 DEF SelectRecords, PullStates, TypeOK, At
  <2>3. QED
    BY <1>1, <2>1, <2>2 DEF Ahead
<1>7. CASE SelectTombstones(p)
  <2>1. \A c \in FirstPage({g \in graves : g.cursor > pull[p].cursor}) :
           c.cursor > pull[p].cursor /\ c.cursor \in Nat
    BY DEF FirstPage, TypeOK, Graves
  <2>2. /\ pull'[p].tombstones = FirstPage({g \in graves : g.cursor > pull[p].cursor})
        /\ pull'[p].records = pull[p].records
        /\ pull'[p].cursor = pull[p].cursor /\ pull'[p].max = pull[p].max
        /\ lastCursor' = lastCursor /\ ~At(p, "idle")
    BY <1>1, <1>7 DEF SelectTombstones, PullStates, TypeOK, At
  <2>3. QED
    BY <1>1, <2>1, <2>2 DEF Ahead
<1>8. CASE TrackClient(p) \/ NextPage(p) \/ LastPage(p)
  <2>1. /\ pull'[p].records = pull[p].records /\ pull'[p].tombstones = pull[p].tombstones
        /\ pull'[p].cursor \in {pull[p].cursor, pull[p].max} /\ pull'[p].max = pull[p].max
        /\ lastCursor' = lastCursor /\ ~At(p, "idle")
    BY <1>1, <1>8 DEF TrackClient, NextPage, LastPage, Applied, Goto, PullStates, TypeOK, At
  <2>2. QED
    BY <1>1, <2>1 DEF Ahead
<1>9. CASE ApplyRecord(p) \/ ApplyTombstone(p)
  <2>1. PICK c \in pull[p].records \cup pull[p].tombstones :
           /\ pull'[p].max = Advance(p, c.cursor).max
           /\ pull'[p].cursor = Advance(p, c.cursor).cursor
           /\ pull'[p].records \subseteq pull[p].records
           /\ pull'[p].tombstones \subseteq pull[p].tombstones
    <3>1. CASE ApplyRecord(p)
      <4>1. PICK c \in pull[p].records :
               pull' = [pull EXCEPT ![p] = [Advance(p, c.cursor) EXCEPT !.records = @ \ {c}]]
        BY <3>1 DEF ApplyRecord, Lowest
      <4>2. Advance(p, c.cursor) \in PullStates
            /\ Advance(p, c.cursor).records = pull[p].records
            /\ Advance(p, c.cursor).tombstones = pull[p].tombstones
        BY <1>1, AdvanceType
      <4>3. pull'[p] = [Advance(p, c.cursor) EXCEPT !.records = @ \ {c}]
        BY <4>1 DEF TypeOK
      <4>4. QED
        BY <4>2, <4>3 DEF PullStates
    <3>2. CASE ApplyTombstone(p)
      <4>1. PICK c \in pull[p].tombstones :
               pull' = [pull EXCEPT ![p] = [Advance(p, c.cursor) EXCEPT !.tombstones = @ \ {c}]]
        BY <3>2 DEF ApplyTombstone, Lowest
      <4>2. Advance(p, c.cursor) \in PullStates
            /\ Advance(p, c.cursor).records = pull[p].records
            /\ Advance(p, c.cursor).tombstones = pull[p].tombstones
        BY <1>1, AdvanceType
      <4>3. pull'[p] = [Advance(p, c.cursor) EXCEPT !.tombstones = @ \ {c}]
        BY <4>1 DEF TypeOK
      <4>4. QED
        BY <4>2, <4>3 DEF PullStates
    <3>3. QED
      BY <1>9, <3>1, <3>2
  <2>2. /\ Advance(p, c.cursor).max \in {c.cursor, pull[p].max}
        /\ Advance(p, c.cursor).cursor = pull[p].cursor
    BY <1>1, AdvanceType
  <2>3. lastCursor' = lastCursor /\ ~At(p, "idle")
    BY <1>9 DEF ApplyRecord, ApplyTombstone, At
  <2>4. QED
    BY <1>1, <2>1, <2>2, <2>3 DEF Ahead
<1>10. CASE Save(p)
  BY <1>1, <1>10 DEF Save, Ahead, At, NoPull, TypeOK
<1>11. CASE Interrupt(p)
  BY <1>1, <1>11 DEF Interrupt, Ahead, At, NoPull, TypeOK
<1>12. QED
  BY <1>2, <1>4, <1>5, <1>6, <1>7, <1>8, <1>9, <1>10, <1>11 DEF Next, PullStep

\* A client that pulls one at a time never goes back, whatever the server does,
\* and although it compares cursors as text.
THEOREM CursorNeverRegressesCorrect ==
    ASSUME OnePull, Pulls # {}
    PROVE  Spec => CursorNeverRegresses
<1> DEFINE Inv == \A p \in Pulls : Ahead(p)
<1>1. Init => Inv
  BY DEF Init, Ahead, At, NoPull
<1>2. TypeOK /\ Inv /\ [Next]_vars => Inv' /\ [lastCursor' >= lastCursor]_vars
  BY AheadStep
<1>3. QED
  BY <1>1, <1>2, TypeCorrect, PTL DEF Spec, CursorNeverRegresses

-----------------------------------------------------------------------------
(* Nothing is missed when transactions commit one at a time, nothing is      *)
(* deleted and pulls do not overlap: what the violations of NothingMissed    *)
(* need is exactly what this theorem assumes away.                           *)

OneWriter == \A v, w \in Writers : v = w

\* Every cursor the client may compare or save.
Seen(p) == {lastCursor, pull[p].cursor, pull[p].max} \cup {c.cursor : c \in pull[p].records}

\* A transaction under way has the highest cursor of all.
DrawnOnTop ==
    /\ graves = {}
    /\ \A r \in Recs : rows[r] <= seq
    /\ \A w \in Writers : drawn[w] # 0 =>
          drawn[w] <= seq /\ \A r \in Recs : rows[r] < drawn[w]

\* No cursor the client has seen can still be overtaken by a commit.
Settled(p) ==
    \A s \in Seen(p) : s <= seq /\ \A w \in Writers : drawn[w] # 0 => s < drawn[w]

\* A record of the page is current, or was replaced above everything seen.
PageCurrent(p) ==
    \A c \in pull[p].records : rows[c.rec] = c.cursor \/ \A s \in Seen(p) : rows[c.rec] > s

\* What lies below a cursor the client has seen is stored or on the page.
Covered(p) ==
    \A s \in Seen(p), r \in Recs :
        Live(r) /\ rows[r] <= s =>
            local[r] = rows[r] \/ [rec |-> r, cursor |-> rows[r]] \in pull[p].records

Exact(p) ==
    /\ pull[p].tombstones = {}
    /\ At(p, "idle") \/ At(p, "records") \/ At(p, "save") => pull[p].records = {}
    /\ Settled(p) /\ PageCurrent(p) /\ Covered(p)

NoGhosts == \A r \in Recs : local[r] # 0 => Live(r)

Complete == DrawnOnTop /\ NoGhosts /\ NothingMissed

\* A page of ORDER BY ... LIMIT has no holes.
LEMMA FirstPageHasNoHoles ==
    ASSUME NEW S, IsFiniteSet(S), NEW c \in FirstPage(S), NEW d \in S,
           \A e \in S : e.cursor \in Nat, d.cursor <= c.cursor
    PROVE  d \in FirstPage(S)
<1>1. {e \in S : e.cursor <= d.cursor} \subseteq {e \in S : e.cursor <= c.cursor}
  BY DEF FirstPage
<1>2. IsFiniteSet({e \in S : e.cursor <= c.cursor})
  BY FS_Subset
<1>3. /\ Cardinality({e \in S : e.cursor <= d.cursor}) <= Cardinality({e \in S : e.cursor <= c.cursor})
      /\ Cardinality({e \in S : e.cursor <= d.cursor}) \in Nat
      /\ Cardinality({e \in S : e.cursor <= c.cursor}) \in Nat
  BY <1>1, <1>2, FS_Subset, FS_CardinalityType
<1>4. Cardinality({e \in S : e.cursor <= c.cursor}) <= PageSize
  BY DEF FirstPage
<1>5. QED
  BY <1>3, <1>4, DeltaPullAssumption DEF FirstPage

LEMMA LiveAboveFinite ==
    ASSUME NEW cursor
    PROVE  IsFiniteSet(LiveAbove(cursor))
<1> DEFINE f == [c \in LiveAbove(cursor) |-> c.rec]
<1>1. /\ \A c \in LiveAbove(cursor) : c.rec \in Recs /\ c = [rec |-> c.rec, cursor |-> rows[c.rec]]
  BY DEF LiveAbove
<1>2. f \in Injection(LiveAbove(cursor), Recs)
  <2>1. f \in [LiveAbove(cursor) -> Recs]
    BY <1>1
  <2>2. \A c, d \in LiveAbove(cursor) : f[c] = f[d] => c = d
    BY <1>1
  <2>3. QED
    BY <2>1, <2>2 DEF Injection, IsInjective
<1>3. QED
  BY <1>2, FS_Injection, DeltaPullAssumption

\* The values the steps below compare.
LEMMA Values ==
    ASSUME TypeOK, NEW p \in Pulls
    PROVE  /\ pull[p] \in PullStates /\ pull[p].cursor \in Nat /\ pull[p].max \in Nat
           /\ lastCursor \in Nat /\ seq \in Nat
           /\ \A c \in pull[p].records : c \in Copies /\ c.cursor \in Nat /\ c.rec \in Recs
           /\ \A s \in Seen(p) : s \in Nat
           /\ \A r \in Recs : rows[r] \in Nat /\ local[r] \in Nat
           /\ \A w \in Writers : drawn[w] \in Nat
<1>1. pull[p] \in PullStates
  BY DEF TypeOK
<1>2. \A c \in pull[p].records : c \in Copies
  BY <1>1 DEF PullStates
<1>3. QED
  BY <1>1, <1>2 DEF TypeOK, PullStates, Copies, Seen

\* The server draws a cursor, or a transaction ends without effect.
LEMMA DrawExact ==
    ASSUME OneWriter, TypeOK, Complete, NEW p \in Pulls, Exact(p), NEW w \in Writers,
           Draw(w) \/ Abandon(w), UNCHANGED clientVars
    PROVE  Complete' /\ Exact(p)'
<1>1. /\ rows' = rows /\ graves' = graves /\ pull' = pull /\ local' = local
      /\ lastCursor' = lastCursor
      /\ seq' >= seq /\ seq' \in Nat
      /\ \A v \in Writers : drawn'[v] \in {0, drawn[v]} \/ (drawn'[v] = seq + 1 /\ seq' = seq + 1)
  BY DEF Draw, Abandon, Close, TypeOK
<1>2. DrawnOnTop'
  BY <1>1, Values DEF Complete, DrawnOnTop
<1>3. Settled(p)'
  <2>1. Seen(p)' = Seen(p)
    BY <1>1 DEF Seen
  <2>2. ASSUME NEW s \in Seen(p), NEW v \in Writers, drawn'[v] # 0
        PROVE  s < drawn'[v]
    BY <1>1, <2>2, Values DEF Exact, Settled
  <2>3. \A s \in Seen(p) : s <= seq'
    BY <1>1, Values DEF Exact, Settled
  <2>4. QED
    BY <2>1, <2>2, <2>3 DEF Settled
<1>4. QED
  BY <1>1, <1>2, <1>3 DEF Complete, NoGhosts, NothingMissed, Live, Exact, At, PageCurrent,
                          Covered, Seen

\* A commit lands above everything the client has seen.
LEMMA PublishExact ==
    ASSUME OneWriter, TypeOK, Complete, NEW p \in Pulls, Exact(p), NEW w \in Writers,
           NEW r \in Recs, Publish(w, r), UNCHANGED clientVars
    PROVE  Complete' /\ Exact(p)'
<1>1. /\ drawn[w] > rows[r] /\ drawn[w] # 0
      /\ \A q \in Recs : rows'[q] = IF q = r THEN drawn[w] ELSE rows[q]
      /\ \A v \in Writers : drawn'[v] = 0
      /\ seq' = seq /\ graves' = graves /\ pull' = pull /\ local' = local
      /\ lastCursor' = lastCursor
  BY Values DEF Publish, Close, OneWriter, TypeOK
<1>2. \A s \in Seen(p) : s < drawn[w]
  BY <1>1 DEF Exact, Settled
<1>3. DrawnOnTop'
  BY <1>1, Values DEF Complete, DrawnOnTop
<1>4. NoGhosts'
  BY <1>1 DEF Complete, NoGhosts, Live
<1>5. lastCursor < drawn[w]
  BY <1>2 DEF Seen
<1>6. NothingMissed'
  BY <1>1, <1>4, <1>5, Values DEF Complete, NothingMissed, NoGhosts, Live
<1>7. Seen(p)' = Seen(p)
  BY <1>1 DEF Seen
<1>8. Settled(p)'
  BY <1>1, <1>7 DEF Exact, Settled
<1>9. PageCurrent(p)'
  BY <1>1, <1>2, <1>7, Values DEF Exact, PageCurrent
<1>10. Covered(p)'
  BY <1>1, <1>2, <1>7, Values DEF Exact, Covered, Live
<1>11. QED
  BY <1>1, <1>3, <1>4, <1>6, <1>8, <1>9, <1>10 DEF Complete, Exact, At

\* The records of a page are current, and what it leaves out is above it.
LEMMA SelectExact ==
    ASSUME OnePull, TypeOK, Complete, NEW p \in Pulls, Exact(p), SelectRecords(p)
    PROVE  Complete' /\ Exact(p)'
<1> DEFINE page == FirstPage(LiveAbove(pull[p].cursor))
<1>1. /\ pull'[p].records = page /\ pull'[p].tombstones = pull[p].tombstones
      /\ pull'[p].cursor = pull[p].cursor /\ pull'[p].max = pull[p].max
      /\ pull'[p].step = "graves" /\ At(p, "records") /\ pull[p].records = {}
      /\ UNCHANGED <<rows, graves, seq, drawn, local, lastCursor>>
  BY Values DEF SelectRecords, Exact, At, TypeOK, PullStates
<1>2. \A c \in page : /\ c.rec \in Recs /\ c.cursor = rows[c.rec] /\ Live(c.rec)
                      /\ c.cursor > pull[p].cursor
  BY DEF FirstPage, LiveAbove
<1>3. Seen(p)' = Seen(p) \cup {c.cursor : c \in page}
  BY <1>1 DEF Seen
<1>4. Settled(p)'
  BY <1>1, <1>2, <1>3, Values DEF Exact, Settled, Complete, DrawnOnTop
<1>5. PageCurrent(p)'
  BY <1>1, <1>2 DEF PageCurrent
<1>6. ASSUME NEW s \in Seen(p)', NEW r \in Recs, Live(r), rows[r] <= s
      PROVE  local[r] = rows[r] \/ [rec |-> r, cursor |-> rows[r]] \in page
  <2>1. CASE s \in Seen(p)
    BY <1>1, <1>6, <2>1 DEF Exact, Covered
  <2>2. CASE s \notin Seen(p)
    <3>1. PICK c \in page : c.cursor = s
      BY <1>3, <2>2
    <3>2. CASE rows[r] <= pull[p].cursor
      BY <1>1, <1>6, <3>2 DEF Exact, Covered, Seen
    <3>3. CASE rows[r] > pull[p].cursor
      <4>1. [rec |-> r, cursor |-> rows[r]] \in LiveAbove(pull[p].cursor)
        BY <1>6, <3>3 DEF LiveAbove
      <4>2. \A e \in LiveAbove(pull[p].cursor) : e.cursor \in Nat
        BY Values DEF LiveAbove
      <4>3. [rec |-> r, cursor |-> rows[r]] \in page
        BY <1>6, <3>1, <4>1, <4>2, LiveAboveFinite, FirstPageHasNoHoles
      <4>4. QED
        BY <4>3
    <3>4. QED
      BY <3>2, <3>3, Values
  <2>3. QED
    BY <2>1, <2>2
<1>7. Covered(p)'
  BY <1>1, <1>6 DEF Covered, Live
<1>8. QED
  BY <1>1, <1>4, <1>5, <1>7 DEF Complete, DrawnOnTop, NoGhosts, NothingMissed, Live, Exact, At

\* Storing a record of the page only moves the client towards the server.
LEMMA ApplyExact ==
    ASSUME OnePull, TypeOK, Complete, NEW p \in Pulls, Exact(p), Ahead(p), ApplyRecord(p)
    PROVE  Complete' /\ Exact(p)'
<1>1. PICK c \in pull[p].records :
         /\ local' = [local EXCEPT ![c.rec] = c.cursor]
         /\ pull' = [pull EXCEPT ![p] = [Advance(p, c.cursor) EXCEPT !.records = @ \ {c}]]
  BY DEF ApplyRecord, Lowest, Store
<1>2. c \in Copies /\ c.cursor \in Nat /\ c.rec \in Recs
  BY Values
<1>3. /\ pull'[p].records = pull[p].records \ {c}
      /\ pull'[p].tombstones = pull[p].tombstones
      /\ pull'[p].cursor = pull[p].cursor /\ pull'[p].max \in {c.cursor, pull[p].max}
      /\ pull'[p].step = "apply" /\ At(p, "apply")
      /\ UNCHANGED <<rows, graves, seq, drawn, lastCursor>>
  <2>1. pull'[p] = [Advance(p, c.cursor) EXCEPT !.records = @ \ {c}]
    BY <1>1 DEF TypeOK
  <2>2. Advance(p, c.cursor) \in PullStates
    BY <1>2, AdvanceType
  <2>3. QED
    BY <1>2, <2>1, <2>2, AdvanceType DEF ApplyRecord, At, PullStates
<1>4. \A r \in Recs : local'[r] = IF r = c.rec THEN c.cursor ELSE local[r]
  BY <1>1 DEF TypeOK
<1>5. c.cursor \in Seen(p) /\ Seen(p)' \subseteq Seen(p)
  BY <1>3 DEF Seen
<1>6. rows[c.rec] = c.cursor \/ \A s \in Seen(p) : rows[c.rec] > s
  BY DEF Exact, PageCurrent
<1>7. c.cursor > lastCursor /\ rows[c.rec] >= c.cursor
  BY <1>2, <1>3, <1>5, <1>6, Values DEF Ahead, At
<1>8. NoGhosts'
  BY <1>2, <1>3, <1>4, <1>7, Values DEF Complete, NoGhosts, Live
<1>9. NothingMissed'
  BY <1>2, <1>3, <1>4, <1>7, <1>8, Values DEF Complete, NothingMissed, NoGhosts, Live
<1>10. Settled(p)' /\ PageCurrent(p)'
  BY <1>3, <1>5 DEF Exact, Settled, PageCurrent
<1>11. ASSUME NEW s \in Seen(p), NEW r \in Recs, Live(r), rows[r] <= s
       PROVE  local'[r] = rows[r] \/ [rec |-> r, cursor |-> rows[r]] \in pull'[p].records
  <2>1. local[r] = rows[r] \/ [rec |-> r, cursor |-> rows[r]] \in pull[p].records
    BY <1>11 DEF Exact, Covered
  <2>2. CASE r = c.rec
    BY <1>4, <1>6, <1>11, <2>2, Values
  <2>3. CASE r # c.rec
    BY <1>3, <1>4, <2>1, <2>3
  <2>4. QED
    BY <2>2, <2>3
<1>12. Covered(p)'
  BY <1>3, <1>5, <1>11 DEF Covered, Live
<1>13. QED
  BY <1>3, <1>8, <1>9, <1>10, <1>12 DEF Complete, DrawnOnTop, Exact, At

\* The other steps of a pull move what it has seen around.
LEMMA MoveExact ==
    ASSUME OnePull, TypeOK, Complete, NEW p \in Pulls, Exact(p),
           \/ Start(p) \/ SelectTombstones(p) \/ TrackClient(p) \/ NextPage(p)
           \/ LastPage(p) \/ Save(p) \/ Interrupt(p)
    PROVE  Complete' /\ Exact(p)'
<1>1. UNCHANGED <<rows, graves, seq, drawn, local>>
  BY DEF Start, SelectTombstones, TrackClient, NextPage, LastPage, Save, Interrupt
<1>2. /\ lastCursor' \in Seen(p) /\ pull'[p].cursor \in Seen(p) \cup {0}
      /\ pull'[p].max \in Seen(p) \cup {0}
      /\ pull'[p].tombstones = {}
      /\ \/ pull'[p].records = {}
         \/ pull'[p].records = pull[p].records
  <2>1. CASE Start(p)
    BY <2>1, Values DEF Start, NoPull, Seen, TypeOK
  <2>2. CASE SelectTombstones(p)
    <3>1. FirstPage({g \in graves : g.cursor > pull[p].cursor}) = {}
      BY DEF Complete, DrawnOnTop, FirstPage
    <3>2. QED
      BY <2>2, <3>1, Values DEF SelectTombstones, Seen, TypeOK, PullStates
  <2>3. CASE TrackClient(p) \/ NextPage(p) \/ LastPage(p)
    BY <2>3, Values DEF TrackClient, NextPage, LastPage, Goto, Exact, Seen, TypeOK, PullStates
  <2>4. CASE Save(p) \/ Interrupt(p)
    BY <2>4, Values DEF Save, Interrupt, NoPull, Seen, TypeOK
  <2>5. QED
    BY <2>1, <2>2, <2>3, <2>4
<1>3. \/ pull'[p].records = pull[p].records
      \/ pull'[p].records = {} /\ Seen(p)' = {lastCursor, 0}
  <2>1. CASE Start(p)
    <3>1. pull[p].records = {}
      BY <2>1 DEF Start, Exact
    <3>2. QED
      BY <2>1, <3>1 DEF Start, NoPull, TypeOK
  <2>2. CASE SelectTombstones(p) \/ TrackClient(p) \/ NextPage(p) \/ LastPage(p)
    <3>1. CASE SelectTombstones(p)
      BY <3>1, Values DEF SelectTombstones, TypeOK, PullStates
    <3>2. CASE TrackClient(p)
      BY <3>2, Values DEF TrackClient, Goto, TypeOK, PullStates
    <3>3. CASE NextPage(p)
      BY <3>3, Values DEF NextPage, Goto, TypeOK, PullStates
    <3>4. CASE LastPage(p)
      BY <3>4, Values DEF LastPage, Goto, TypeOK, PullStates
    <3>5. QED
      BY <2>2, <3>1, <3>2, <3>3, <3>4
  <2>3. CASE Save(p)
    BY <2>3, Values DEF Save, Exact, At, NoPull, TypeOK
  <2>4. CASE Interrupt(p)
    BY <2>4, Values DEF Interrupt, NoPull, Seen, TypeOK
  <2>5. QED
    BY <2>1, <2>3, <2>4, <2>2
<1>4. Seen(p)' \subseteq Seen(p) \cup {0}
  BY <1>2 DEF Seen
<1>5. Settled(p)'
  BY <1>1, <1>4, Values DEF Exact, Settled
<1>6. PageCurrent(p)'
  BY <1>1, <1>2, <1>4, Values DEF Exact, PageCurrent
<1>7. Covered(p)'
  <2>1. ASSUME NEW s \in Seen(p)', NEW r \in Recs, Live(r), rows[r] <= s
        PROVE  local[r] = rows[r] \/ [rec |-> r, cursor |-> rows[r]] \in pull'[p].records
    <3>1. s # 0 /\ s \in Seen(p)
      BY <1>4, <2>1, Values DEF Live
    <3>2. CASE pull'[p].records = pull[p].records
      BY <2>1, <3>1, <3>2 DEF Exact, Covered
    <3>3. CASE Seen(p)' = {lastCursor, 0}
      BY <2>1, <3>1, <3>3 DEF Complete, NothingMissed
    <3>4. QED
      BY <1>3, <3>2, <3>3
  <2>2. QED
    BY <1>1, <2>1 DEF Covered, Live
<1>8. NothingMissed'
  <2>1. ASSUME NEW r \in Recs, Live(r), rows[r] <= lastCursor'
        PROVE  local[r] = rows[r]
    <3>1. CASE Save(p)
      <4>1. pull[p].records = {}
        BY <3>1 DEF Save, Exact
      <4>2. QED
        BY <1>2, <2>1, <4>1 DEF Exact, Covered
    <3>2. CASE ~Save(p)
      <4>1. lastCursor' = lastCursor
        BY <3>2 DEF Start, SelectTombstones, TrackClient, NextPage, LastPage, Interrupt
      <4>2. QED
        BY <2>1, <4>1 DEF Complete, NothingMissed
    <3>3. QED
      BY <3>1, <3>2
  <2>2. QED
    BY <1>1, <2>1 DEF Complete, NothingMissed, NoGhosts, Live
<1>9. At(p, "idle")' \/ At(p, "records")' \/ At(p, "save")' => pull'[p].records = {}
  <2>1. CASE Start(p)
    BY <2>1 DEF Start, NoPull, TypeOK
  <2>2. CASE Save(p) \/ Interrupt(p)
    BY <2>2 DEF Save, Interrupt, NoPull, TypeOK
  <2>3. CASE SelectTombstones(p) \/ TrackClient(p)
    <3>1. pull'[p].step \in {"track", "apply"}
      <4>1. CASE SelectTombstones(p)
        BY <4>1, Values DEF SelectTombstones, TypeOK, PullStates
      <4>2. CASE TrackClient(p)
        BY <4>2, Values DEF TrackClient, Goto, TypeOK, PullStates
      <4>3. QED
        BY <2>3, <4>1, <4>2
    <3>2. QED
      BY <3>1 DEF At
  <2>4. CASE NextPage(p) \/ LastPage(p)
    <3>1. pull'[p].records = pull[p].records
      BY <2>4, Values DEF NextPage, LastPage, Goto, TypeOK, PullStates
    <3>2. QED
      BY <2>4, <3>1 DEF NextPage, LastPage, Applied
  <2>5. QED
    BY <2>1, <2>3, <2>4, <2>2
<1>10. Complete'
  BY <1>1, <1>8 DEF Complete, DrawnOnTop, NoGhosts, Live
<1>11. QED
  BY <1>2, <1>5, <1>6, <1>7, <1>9, <1>10 DEF Exact

\* With one writer, no deletions and one pull at a time, the client has every
\* change up to its cursor: for any number of records, any page size, through
\* interrupted pulls, and although it compares cursors as text.
THEOREM NothingMissedCorrect ==
    ASSUME OneWriter, OnePull, Pulls # {}, Workload = {}
    PROVE  Spec => []NothingMissed
<1> DEFINE Inv == Complete /\ \A p \in Pulls : Ahead(p) /\ Exact(p)
<1>1. Init => Inv
  BY CursorFeedAssumption
  DEF Init, FeedInit, Complete, DrawnOnTop, NoGhosts, NothingMissed, Live, Ahead, Exact, At,
      NoPull, Settled, PageCurrent, Covered, Seen
<1>2. TypeOK /\ Inv /\ [Next]_vars => Inv'
  <2> SUFFICES ASSUME TypeOK, Inv, [Next]_vars
               PROVE  Inv'
    OBVIOUS
  <2>1. \A p \in Pulls : Ahead(p)'
    BY AheadStep
  <2>2. ASSUME NEW p \in Pulls
        PROVE  Complete' /\ Exact(p)'
    <3>1. ASSUME NEW w \in Writers, ServerStep(w)
          PROVE  Complete' /\ Exact(p)'
      <4>1. /\ Draw(w) \/ Abandon(w) \/ (\E r \in Recs : Publish(w, r))
            /\ UNCHANGED clientVars
        BY <3>1 DEF ServerStep
      <4>2. QED
        BY <4>1, DrawExact, PublishExact
    <3>2. ~\E r \in Recs : ServerImport(r)
      BY DEF ServerImport
    <3>3. ~ApplyTombstone(p)
      BY DEF ApplyTombstone, Lowest, Exact
    <3>4. CASE UNCHANGED vars
      BY <3>4 DEF vars, Complete, DrawnOnTop, NoGhosts, NothingMissed, Live, Exact, At,
                  Settled, PageCurrent, Covered, Seen
    <3>5. ASSUME Start(p) \/ PullStep(p) \/ Interrupt(p)
          PROVE  Complete' /\ Exact(p)'
      BY <3>3, <3>5, SelectExact, ApplyExact, MoveExact DEF PullStep
    <3>6. \A q \in Pulls : q = p
      BY DEF OnePull
    <3>7. QED
      BY <3>1, <3>2, <3>4, <3>5, <3>6 DEF Next
  <2>3. QED
    BY <2>1, <2>2
<1>3. Inv => NothingMissed
  BY DEF Complete
<1>4. QED
  BY <1>1, <1>2, <1>3, TypeCorrect, PTL DEF Spec

-----------------------------------------------------------------------------
(* A page of ORDER BY cursor LIMIT that is not full is all there is.          *)

\* Every set of naturals has a least element.
LEMMA Least ==
    ASSUME NEW T \in SUBSET Nat, T # {}
    PROVE  \E x \in T : \A y \in T : x <= y
<1>1. PICK x \in T : \A y \in T : ~ (<<y, x>> \in OpToRel(<, Nat))
  BY NatLessThanWellFounded, WFMin, Zenon
<1>2. ASSUME NEW y \in T
      PROVE  x <= y
  <2>1. ~(y < x)
    <3>1. SUFFICES ASSUME y < x PROVE <<y, x>> \in OpToRel(<, Nat)
      BY <1>1, Zenon
    <3>2. QED
      BY <3>1, Zenon DEF OpToRel
  <2>2. QED
    BY <2>1
<1>3. QED
  BY <1>2

\* A set of changes with cursors of their own has a first and, below a bound, a last.
LEMMA FirstChange ==
    ASSUME NEW T, T # {}, \A c \in T : c.cursor \in Nat
    PROVE  \E x \in T : \A d \in T : x.cursor <= d.cursor
<1> DEFINE N == {c.cursor : c \in T}
<1>1. N \in SUBSET Nat /\ N # {}
  OBVIOUS
<1>2. PICK n \in N : \A m \in N : n <= m
  BY <1>1, Least
<1>3. QED
  BY <1>2

LEMMA LastChange ==
    ASSUME NEW T, T # {}, \A c \in T : c.cursor \in Nat,
           NEW b \in Nat, \A c \in T : c.cursor <= b
    PROVE  \E x \in T : \A d \in T : d.cursor <= x.cursor
<1> DEFINE U == {n \in Nat : \A c \in T : c.cursor <= n}
<1>1. PICK n \in U : \A m \in U : n <= m
  <2>1. U \in SUBSET Nat /\ b \in U
    OBVIOUS
  <2>2. QED
    BY <2>1, Least
<1>2. PICK x \in T : x.cursor = n
  <2>1. SUFFICES ASSUME \A c \in T : c.cursor # n
                 PROVE  FALSE
    OBVIOUS
  <2>2. \A c \in T : c.cursor <= n - 1
    BY <2>1
  <2>3. n - 1 \in Nat
    BY <2>2
  <2>4. n - 1 \in U
    BY <2>2, <2>3
  <2>5. QED
    BY <1>1, <2>4
<1>3. QED
  BY <1>2

\* What the client makes of a page: when it has not PageSize rows, there is no other.
LEMMA ShortPageIsAll ==
    ASSUME NEW S, IsFiniteSet(S), \A c \in S : c.cursor \in Nat,
           \A c, d \in S : c.cursor = d.cursor => c = d,
           Cardinality(FirstPage(S)) # PageSize
    PROVE  FirstPage(S) = S
<1> DEFINE page == FirstPage(S)
           Upto(c) == {d \in S : d.cursor <= c.cursor}
<1>1. page \subseteq S /\ \A c \in S : c \in page <=> Cardinality(Upto(c)) <= PageSize
  BY DEF FirstPage
<1>2. SUFFICES ASSUME S \ page # {}
               PROVE  FALSE
  BY <1>1
<1>3. PICK x \in S \ page : \A d \in S \ page : x.cursor <= d.cursor
  BY <1>2, FirstChange
<1>4. \A d \in page : d.cursor < x.cursor
  BY <1>1, <1>3, FirstPageHasNoHoles
<1>5. page = Upto(x) \ {x}
  BY <1>1, <1>3, <1>4
<1>6. /\ \A c \in S : IsFiniteSet(Upto(c)) /\ Cardinality(Upto(c)) \in Nat
      /\ IsFiniteSet(page) /\ Cardinality(page) \in Nat
  <2>1. \A c \in S : Upto(c) \subseteq S
    OBVIOUS
  <2>2. QED
    BY <1>1, <2>1, FS_Subset, FS_CardinalityType
<1>7. Cardinality(page) >= PageSize
  <2>1. Cardinality(page) = Cardinality(Upto(x)) - 1
    BY <1>3, <1>5, <1>6, FS_RemoveElement
  <2>2. ~(Cardinality(Upto(x)) <= PageSize) /\ Cardinality(Upto(x)) \in Nat
    BY <1>1, <1>3, <1>6
  <2> HIDE DEF page, Upto
  <2>3. QED
    BY <1>3, <1>6, <2>1, <2>2, DeltaPullAssumption
<1>8. page # {}
  BY <1>7, FS_EmptySet, DeltaPullAssumption
<1>9. PICK y \in page : \A d \in page : d.cursor <= y.cursor
  BY <1>1, <1>3, <1>4, <1>8, LastChange
<1>10. Cardinality(page) <= Cardinality(Upto(y))
  <2>1. page \subseteq Upto(y)
    BY <1>1, <1>9
  <2>2. QED
    BY <1>1, <1>6, <2>1, FS_Subset
<1>11. Cardinality(page) <= PageSize
  <2>1. Cardinality(Upto(y)) <= PageSize /\ Cardinality(Upto(y)) \in Nat
    BY <1>1, <1>6, <1>9
  <2> HIDE DEF page, Upto
  <2>2. QED
    BY <1>6, <1>10, <2>1, DeltaPullAssumption
<1>12. QED
  BY <1>6, <1>7, <1>11, DeltaPullAssumption

-----------------------------------------------------------------------------
(* A pull against a quiet server leaves what the server has, page after page, *)
(* when no change is on neither page and below one of a page, and no record   *)
(* that was deleted is created again.                                        *)

GravesAbove(cursor) == {g \in graves : g.cursor > cursor}

\* Each list has its own LIMIT and the client goes on above the maximum of both:
\* what a quiet server has left for the next answer is above all of this one.
NothingSkipped ==
    \A p \in Pulls : clean[p] /\ (At(p, "records") \/ At(p, "graves")) =>
        LET page == FirstPage(LiveAbove(pull[p].cursor)) \cup FirstPage(GravesAbove(pull[p].cursor))
        IN  \A c \in (LiveAbove(pull[p].cursor) \cup GravesAbove(pull[p].cursor)) \ page, d \in page :
               d.cursor < c.cursor

\* No two changes have one cursor.
CursorsDistinct ==
    /\ \A r \in Recs : rows[r] <= seq
    /\ \A g \in graves : g.cursor <= seq
    /\ \A w \in Writers : drawn[w] <= seq
    /\ \A q, r \in Recs : Live(q) /\ rows[q] = rows[r] => q = r
    /\ \A g, h \in graves : g.cursor = h.cursor => g = h
    /\ \A w \in Writers : drawn[w] # 0 =>
          /\ \A r \in Recs : rows[r] # drawn[w]
          /\ \A g \in graves : g.cursor # drawn[w]
          /\ \A v \in Writers : drawn[v] = drawn[w] => v = w

\* Records are deleted once, and not created again.
GravesFinal ==
    /\ \A g \in graves : ~Live(g.rec)
    /\ \A g, h \in graves : g.rec = h.rec => g = h
    /\ IsFiniteSet(graves)

\* A change left for the next answer, which starts above the maximum of this one.
Beyond(p, cursor) ==
    /\ pull[p].full /\ cursor > pull[p].max
    /\ \A d \in pull[p].records \cup pull[p].tombstones : cursor > d.cursor

Selecting(p) == At(p, "records") \/ At(p, "graves")
Applying(p)  == At(p, "track") \/ At(p, "apply")

\* What a pull has left to do to the copy of r, while the server is quiet.
RecordDue(p, r) ==
    \/ [rec |-> r, cursor |-> rows[r]] \in pull[p].records
    \/ Selecting(p) /\ rows[r] > pull[p].cursor
    \/ Applying(p) /\ Beyond(p, rows[r])

RemovalDue(p, r) ==
    \E g \in graves :
        /\ g.rec = r
        /\ \/ g \in pull[p].tombstones
           \/ Selecting(p) /\ g.cursor > pull[p].cursor
           \/ Applying(p) /\ Beyond(p, g.cursor)

\* The pages of a pull are what the quiet server has.
PagesTrue(p) ==
    /\ \A c \in pull[p].records : c.cursor = rows[c.rec] /\ Live(c.rec)
    /\ pull[p].tombstones \subseteq graves
    /\ At(p, "records") \/ At(p, "save") => pull[p].records = {}
    /\ Selecting(p) \/ At(p, "save") => pull[p].tombstones = {}
    /\ Selecting(p) => pull[p].max = pull[p].cursor
    /\ At(p, "graves") =>
          /\ pull[p].records = FirstPage(LiveAbove(pull[p].cursor))
          /\ pull[p].full = (Cardinality(pull[p].records) = PageSize)

\* Every copy is that of the quiet server or is still to be changed.
Converging(p) ==
    clean[p] =>
        /\ PagesTrue(p)
        /\ \A r \in Recs : IF Live(r) THEN local[r] = rows[r] \/ RecordDue(p, r)
                                      ELSE local[r] = 0 \/ RemovalDue(p, r)

LEMMA DistinctStep ==
    ASSUME TypeOK, CursorsDistinct, [Next]_vars
    PROVE  CursorsDistinct'
<1>1. /\ seq \in Nat /\ rows \in [Recs -> Nat] /\ drawn \in [Writers -> Nat]
      /\ \A g \in graves : g \in Graves /\ g.cursor \in Nat
  BY DEF TypeOK, Graves
<1>2. ASSUME UNCHANGED feedVars
      PROVE  CursorsDistinct'
  BY <1>2 DEF CursorsDistinct, Live
<1>3. ASSUME NEW w \in Writers, ServerStep(w)
      PROVE  CursorsDistinct'
  <2>1. CASE Draw(w)
    BY <1>1, <2>1 DEF Draw, CursorsDistinct, Live
  <2>2. CASE Abandon(w)
    BY <1>1, <2>2 DEF Abandon, Close, CursorsDistinct, Live
  <2>3. ASSUME NEW r \in Recs, Publish(w, r)
        PROVE  CursorsDistinct'
    <3>1. /\ drawn[w] # 0 /\ rows' = [rows EXCEPT ![r] = drawn[w]]
          /\ drawn' = [drawn EXCEPT ![w] = 0] /\ graves' = graves /\ seq' = seq
      BY <1>1, <2>3 DEF Publish, Close
    <3>2. QED
      BY <1>1, <3>1 DEF CursorsDistinct, Live
  <2>4. ASSUME NEW r \in Recs, Bury(w, r)
        PROVE  CursorsDistinct'
    <3>1. /\ drawn[w] # 0 /\ rows' = [rows EXCEPT ![r] = 0]
          /\ drawn' = [drawn EXCEPT ![w] = 0] /\ seq' = seq
          /\ graves' = graves \cup {[rec |-> r, cursor |-> drawn[w]]}
      BY <1>1, <2>4 DEF Bury, Close
    <3>2. QED
      BY <1>1, <3>1 DEF CursorsDistinct, Live
  <2>5. QED
    BY <1>3, <2>1, <2>2, <2>3, <2>4 DEF ServerStep
<1>4. ASSUME NEW r \in Recs, ServerImport(r)
      PROVE  CursorsDistinct'
  BY <1>1, <1>4 DEF ServerImport, Import, CursorsDistinct, Live
<1>5. ASSUME NEW p \in Pulls, Start(p) \/ PullStep(p) \/ Interrupt(p)
      PROVE  UNCHANGED feedVars
  BY <1>5 DEF Start, PullStep, Interrupt, SelectRecords, SelectTombstones, TrackClient,
              ApplyRecord, ApplyTombstone, NextPage, LastPage, Save
<1>6. QED
  BY <1>2, <1>3, <1>4, <1>5 DEF Next, vars

\* Without "revive" a record whose row is gone stays away.
LEMMA GravesStep ==
    ASSUME "revive" \notin Workload, TypeOK, GravesFinal, [Next]_vars
    PROVE  GravesFinal'
<1>1. ASSUME UNCHANGED <<rows, graves>>
      PROVE  GravesFinal'
  BY <1>1 DEF GravesFinal, Live
<1>2. ASSUME NEW w \in Writers, ServerStep(w)
      PROVE  GravesFinal'
  <2>1. CASE Draw(w) \/ Abandon(w)
    BY <1>1, <2>1 DEF Draw, Abandon
  <2>2. ASSUME NEW r \in Recs, Publish(w, r), Live(r) \/ ~Buried(r)
        PROVE  GravesFinal'
    <3>1. ~Buried(r)
      BY <2>2 DEF GravesFinal, Buried
    <3>2. graves' = graves /\ \A q \in Recs : q # r => rows'[q] = rows[q]
      BY <2>2 DEF Publish, TypeOK
    <3>3. \A g \in graves : g.rec # r /\ g.rec \in Recs
      BY <3>1 DEF Buried, TypeOK, Graves
    <3>4. QED
      BY <3>2, <3>3 DEF GravesFinal, Live
  <2>3. ASSUME NEW r \in Recs, Bury(w, r)
        PROVE  GravesFinal'
    <3>1. PICK h \in Graves : h.rec = r /\ graves' = graves \cup {h}
      BY <2>3 DEF Bury, TypeOK, Graves
    <3>2. \A g \in graves : g.rec # r /\ g.rec \in Recs
      BY <2>3 DEF Bury, GravesFinal, TypeOK, Graves
    <3>3. rows'[r] = 0 /\ \A q \in Recs : q # r => rows'[q] = rows[q]
      BY <2>3 DEF Bury, TypeOK
    <3>4. IsFiniteSet(graves')
      BY <3>1, FS_AddElement DEF GravesFinal
    <3>5. QED
      BY <3>1, <3>2, <3>3, <3>4 DEF GravesFinal, Live
  <2>4. QED
    BY <1>2, <2>1, <2>2, <2>3 DEF ServerStep
<1>3. ASSUME NEW r \in Recs, ServerImport(r)
      PROVE  GravesFinal'
  <2>1. \A g \in graves : g.rec # r /\ g.rec \in Recs
    BY <1>3 DEF ServerImport, Buried, TypeOK, Graves
  <2>2. graves' = graves /\ \A q \in Recs : q # r => rows'[q] = rows[q]
    BY <1>3 DEF ServerImport, Import, TypeOK
  <2>3. QED
    BY <2>1, <2>2 DEF GravesFinal, Live
<1>4. ASSUME NEW p \in Pulls, Start(p) \/ PullStep(p) \/ Interrupt(p)
      PROVE  GravesFinal'
  BY <1>1, <1>4 DEF Start, PullStep, Interrupt, SelectRecords, SelectTombstones, TrackClient,
                    ApplyRecord, ApplyTombstone, NextPage, LastPage, Save
<1>5. QED
  BY <1>1, <1>2, <1>3, <1>4 DEF Next, vars

\* The lists a pull selects from have the cursors that pages need.
LEMMA ListsOrdered ==
    ASSUME TypeOK, CursorsDistinct, GravesFinal, NEW cursor \in Nat
    PROVE  /\ IsFiniteSet(LiveAbove(cursor)) /\ IsFiniteSet(GravesAbove(cursor))
           /\ \A c \in LiveAbove(cursor) \cup GravesAbove(cursor) : c.cursor \in Nat
           /\ \A c, d \in LiveAbove(cursor) : c.cursor = d.cursor => c = d
           /\ \A c, d \in GravesAbove(cursor) : c.cursor = d.cursor => c = d
<1>1. IsFiniteSet(GravesAbove(cursor))
  BY FS_Subset DEF GravesFinal, GravesAbove
<1>2. \A c \in LiveAbove(cursor) : c.rec \in Recs /\ Live(c.rec) /\ c = [rec |-> c.rec, cursor |-> rows[c.rec]]
  BY DEF LiveAbove
<1>3. \A c, d \in LiveAbove(cursor) : c.cursor = d.cursor => c = d
  <2>1. SUFFICES ASSUME NEW c \in LiveAbove(cursor), NEW d \in LiveAbove(cursor), c.cursor = d.cursor
                 PROVE  c = d
    OBVIOUS
  <2>2. c.rec = d.rec
    BY <1>2, <2>1 DEF CursorsDistinct
  <2>3. QED
    BY <1>2, <2>2
<1>4. \A c \in LiveAbove(cursor) \cup GravesAbove(cursor) : c.cursor \in Nat
  BY DEF TypeOK, LiveAbove, GravesAbove, Graves
<1>5. QED
  BY <1>1, <1>3, <1>4, LiveAboveFinite DEF CursorsDistinct, GravesAbove

\* A pull that begins has everything above its cursor before it.
LEMMA StartConverging ==
    ASSUME TypeOK, NEW p \in Pulls, Start(p)
    PROVE  Converging(p)'
<1>1. /\ pull'[p].step = "records" /\ pull'[p].cursor = lastCursor /\ pull'[p].max = lastCursor
      /\ pull'[p].records = {} /\ pull'[p].tombstones = {}
      /\ clean'[p] => NothingMissed
      /\ UNCHANGED <<rows, graves, local>>
  BY DEF Start, NoPull, TypeOK
<1>2. /\ lastCursor \in Nat
      /\ \A r \in Recs : rows[r] \in Nat
  BY DEF TypeOK
<1>3. ASSUME clean'[p], NEW r \in Recs
      PROVE  IF Live(r) THEN local[r] = rows[r] \/ rows[r] > lastCursor
                        ELSE local[r] = 0 \/ \E g \in graves : g.rec = r /\ g.cursor > lastCursor
  BY <1>1, <1>2, <1>3 DEF NothingMissed
<1>4. PagesTrue(p)'
  BY <1>1 DEF PagesTrue, Selecting, At
<1>5. QED
  BY <1>1, <1>3, <1>4 DEF Converging, RecordDue, RemovalDue, Selecting, At, Live

\* The first statement of an answer.
LEMMA RecordsConverging ==
    ASSUME TypeOK, NEW p \in Pulls, Converging(p), SelectRecords(p)
    PROVE  Converging(p)'
<1>1. /\ pull[p] \in PullStates /\ pull[p].cursor \in Nat
      /\ UNCHANGED <<rows, graves, local, clean>>
  BY Values DEF SelectRecords
<1>2. /\ At(p, "records") /\ pull'[p].step = "graves"
      /\ pull'[p].records = FirstPage(LiveAbove(pull[p].cursor))
      /\ pull'[p].tombstones = pull[p].tombstones /\ pull'[p].cursor = pull[p].cursor
      /\ pull'[p].max = pull[p].max
      /\ pull'[p].full = (Cardinality(FirstPage(LiveAbove(pull[p].cursor))) = PageSize)
  BY <1>1 DEF SelectRecords, At, TypeOK, PullStates
<1>3. \A c \in pull'[p].records : c.cursor = rows[c.rec] /\ Live(c.rec)
  BY <1>2 DEF LiveAbove, FirstPage
<1>4. LiveAbove(pull[p].cursor)' = LiveAbove(pull'[p].cursor)
  BY <1>1, <1>2 DEF LiveAbove, Live
<1>5. clean[p] => PagesTrue(p)'
  BY <1>1, <1>2, <1>3, <1>4 DEF Converging, PagesTrue, Selecting, At, LiveAbove, Live, FirstPage
<1>6. ASSUME clean[p], NEW r \in Recs, Live(r)
      PROVE  local[r] = rows[r] \/ RecordDue(p, r)'
  BY <1>1, <1>2, <1>6 DEF Converging, PagesTrue, RecordDue, Selecting, Applying, At
<1>7. ASSUME clean[p], NEW r \in Recs, ~Live(r)
      PROVE  local[r] = 0 \/ RemovalDue(p, r)'
  BY <1>1, <1>2, <1>7 DEF Converging, RemovalDue, Selecting, Applying, At
<1>8. QED
  BY <1>1, <1>5, <1>6, <1>7 DEF Converging, Live

\* A change is on the page of its list, or left for an answer that will come.
LEMMA OnPageOrBeyond ==
    ASSUME TypeOK, CursorsDistinct, GravesFinal, NothingSkipped, NEW p \in Pulls,
           clean[p], PagesTrue(p), SelectTombstones(p)
    PROVE  /\ \A c \in LiveAbove(pull[p].cursor) :
                 c \in pull'[p].records \/ Beyond(p, c.cursor)'
           /\ \A g \in GravesAbove(pull[p].cursor) :
                 g \in pull'[p].tombstones \/ Beyond(p, g.cursor)'
<1> DEFINE R == LiveAbove(pull[p].cursor)
           G == GravesAbove(pull[p].cursor)
<1>1. /\ pull[p] \in PullStates /\ pull[p].cursor \in Nat /\ At(p, "graves")
  BY Values DEF SelectTombstones
<1>2. /\ pull'[p].tombstones = FirstPage(G)
      /\ pull'[p].records = FirstPage(R) /\ pull'[p].max = pull[p].cursor
      /\ pull'[p].full = (\/ Cardinality(FirstPage(R)) = PageSize
                          \/ Cardinality(FirstPage(G)) = PageSize)
  BY <1>1 DEF SelectTombstones, PagesTrue, GravesAbove, Selecting, TypeOK, PullStates
<1>3. \A c \in (R \cup G) \ (FirstPage(R) \cup FirstPage(G)), d \in FirstPage(R) \cup FirstPage(G) :
         d.cursor < c.cursor
  BY <1>1 DEF NothingSkipped
<1>4. /\ \A c \in R : c.rec \in Recs /\ Live(c.rec) /\ c.cursor > pull[p].cursor
      /\ \A g \in G : g \in graves /\ ~Live(g.rec) /\ g.cursor > pull[p].cursor
  BY DEF LiveAbove, GravesAbove, GravesFinal
<1>5. R \cap G = {} /\ FirstPage(R) \subseteq R /\ FirstPage(G) \subseteq G
  BY <1>4 DEF FirstPage
<1>6. /\ Cardinality(FirstPage(R)) # PageSize => FirstPage(R) = R
      /\ Cardinality(FirstPage(G)) # PageSize => FirstPage(G) = G
  BY <1>1, ListsOrdered, ShortPageIsAll
<1>7. ASSUME NEW c \in (R \cup G) \ (FirstPage(R) \cup FirstPage(G))
      PROVE  Beyond(p, c.cursor)'
  <2>1. pull'[p].full
    BY <1>2, <1>6
  <2>2. \A d \in FirstPage(R) \cup FirstPage(G) : d.cursor < c.cursor
    BY <1>3
  <2>3. c.cursor > pull[p].cursor /\ c.cursor \in Nat /\ \A d \in FirstPage(R) \cup FirstPage(G) : d.cursor \in Nat
    BY <1>1, <1>4, <1>5, ListsOrdered
  <2> HIDE DEF R, G
  <2>4. QED
    BY <1>2, <2>1, <2>2, <2>3 DEF Beyond
<1>8. QED
  BY <1>2, <1>5, <1>7

\* The second.
LEMMA TombstonesConverging ==
    ASSUME TypeOK, CursorsDistinct, GravesFinal, NothingSkipped, NEW p \in Pulls,
           Converging(p), SelectTombstones(p)
    PROVE  Converging(p)'
<1>1. /\ pull[p] \in PullStates
      /\ UNCHANGED <<rows, graves, local, clean>>
      /\ At(p, "graves") /\ pull'[p].step = "track"
      /\ pull'[p].tombstones = FirstPage(GravesAbove(pull[p].cursor))
      /\ pull'[p].records = pull[p].records
  BY Values DEF SelectTombstones, GravesAbove, At, TypeOK, PullStates
<1>2. pull'[p].tombstones \subseteq graves
  BY <1>1 DEF FirstPage, GravesAbove
<1>3. clean[p] => PagesTrue(p)'
  BY <1>1, <1>2 DEF Converging, PagesTrue, Selecting, At, Live
<1>4. ASSUME clean[p], NEW r \in Recs, Live(r), local[r] # rows[r]
      PROVE  RecordDue(p, r)'
  <2>1. rows[r] > pull[p].cursor => [rec |-> r, cursor |-> rows[r]] \in LiveAbove(pull[p].cursor)
    BY <1>4 DEF LiveAbove
  <2>2. \/ [rec |-> r, cursor |-> rows[r]] \in pull[p].records
        \/ rows[r] > pull[p].cursor
    BY <1>1, <1>4 DEF Converging, RecordDue, Applying, At
  <2>3. PagesTrue(p)
    BY <1>4 DEF Converging
  <2>4. \/ [rec |-> r, cursor |-> rows[r]] \in pull'[p].records
        \/ Beyond(p, rows[r])'
    BY <1>1, <1>4, <2>1, <2>2, <2>3, OnPageOrBeyond DEF Beyond
  <2>5. QED
    BY <1>1, <2>4 DEF RecordDue, Applying, At
<1>5. ASSUME clean[p], NEW r \in Recs, ~Live(r), local[r] # 0
      PROVE  RemovalDue(p, r)'
  <2>1. PICK g \in graves : g.rec = r /\ (g \in pull[p].tombstones \/ g.cursor > pull[p].cursor)
    BY <1>1, <1>5 DEF Converging, RemovalDue, Applying, At
  <2>2. PagesTrue(p)
    BY <1>5 DEF Converging
  <2>3. g \in GravesAbove(pull[p].cursor)
    BY <1>1, <2>1, <2>2 DEF PagesTrue, Selecting, GravesAbove
  <2>4. g \in pull'[p].tombstones \/ Beyond(p, g.cursor)'
    BY <1>5, <2>2, <2>3, OnPageOrBeyond
  <2>5. QED
    BY <1>1, <2>1, <2>4 DEF RemovalDue, Applying, At
<1>6. QED
  BY <1>1, <1>3, <1>4, <1>5 DEF Converging, Live

\* Seeing a change of the page leaves the later ones beyond it.
LEMMA BeyondKept ==
    ASSUME TypeOK, NEW p \in Pulls, NEW c \in pull[p].records \cup pull[p].tombstones,
           NEW n \in Nat, Beyond(p, n),
           pull'[p].max = Advance(p, c.cursor).max, pull'[p].full = pull[p].full,
           pull'[p].records \subseteq pull[p].records,
           pull'[p].tombstones \subseteq pull[p].tombstones
    PROVE  Beyond(p, n)'
<1>1. pull[p] \in PullStates /\ c.cursor \in Nat
  BY DEF TypeOK, PullStates, Copies, Graves
<1>2. Advance(p, c.cursor).max \in {c.cursor, pull[p].max}
  BY <1>1, AdvanceType
<1>3. QED
  BY <1>2 DEF Beyond

LEMMA AdvanceFull ==
    ASSUME TypeOK, NEW p \in Pulls, NEW c
    PROVE  Advance(p, c).full = pull[p].full
<1>1. pull[p] \in PullStates
  BY DEF TypeOK
<1>2. QED
  BY <1>1 DEF Advance, PullStates

\* Storing a record of the page is one thing less to do.
LEMMA ApplyRecordConverging ==
    ASSUME TypeOK, NEW p \in Pulls, Converging(p), ApplyRecord(p)
    PROVE  Converging(p)'
<1>1. /\ pull[p] \in PullStates /\ At(p, "apply")
      /\ UNCHANGED <<rows, graves, clean>>
  BY Values DEF ApplyRecord
<1>2. PICK c \in pull[p].records :
        /\ local' = [local EXCEPT ![c.rec] = c.cursor]
        /\ pull' = [pull EXCEPT ![p] = [Advance(p, c.cursor) EXCEPT !.records = @ \ {c}]]
  BY DEF ApplyRecord, Lowest, Store
<1>3. c \in Copies /\ c.cursor \in Nat /\ c.rec \in Recs
  BY Values
<1>4. pull'[p] = [Advance(p, c.cursor) EXCEPT !.records = @ \ {c}]
  BY <1>2 DEF TypeOK
<1>5. /\ pull'[p].records = pull[p].records \ {c}
      /\ pull'[p].tombstones = pull[p].tombstones
      /\ pull'[p].step = "apply" /\ pull'[p].full = pull[p].full
      /\ pull'[p].max = Advance(p, c.cursor).max
  BY <1>1, <1>3, <1>4, AdvanceType, AdvanceFull DEF PullStates, At
<1>6. \A r \in Recs : local'[r] = IF r = c.rec THEN c.cursor ELSE local[r]
  BY <1>2 DEF TypeOK
<1>7. \A n \in Nat : Beyond(p, n) => Beyond(p, n)'
  BY <1>5, BeyondKept
<1>8. clean[p] => PagesTrue(p)' /\ c.cursor = rows[c.rec] /\ Live(c.rec)
  BY <1>1, <1>5 DEF Converging, PagesTrue, Selecting, At, Live
<1>9. ASSUME clean[p], NEW r \in Recs, Live(r), local'[r] # rows[r]
      PROVE  RecordDue(p, r)'
  <2>1. r # c.rec /\ local[r] # rows[r]
    BY <1>6, <1>8, <1>9
  <2>2. \/ [rec |-> r, cursor |-> rows[r]] \in pull[p].records
        \/ Beyond(p, rows[r])
    BY <1>1, <1>9, <2>1 DEF Converging, RecordDue, Selecting, At
  <2>3. rows[r] \in Nat
    BY DEF TypeOK
  <2>4. QED
    BY <1>1, <1>5, <1>7, <2>1, <2>2, <2>3 DEF RecordDue, Applying, At
<1>10. ASSUME clean[p], NEW r \in Recs, ~Live(r), local'[r] # 0
       PROVE  RemovalDue(p, r)'
  <2>1. local[r] # 0
    BY <1>6, <1>8, <1>10
  <2>2. PICK g \in graves : g.rec = r /\ (g \in pull[p].tombstones \/ Beyond(p, g.cursor))
    BY <1>1, <1>10, <2>1 DEF Converging, RemovalDue, Selecting, At
  <2>3. g.cursor \in Nat
    BY DEF TypeOK, Graves
  <2>4. QED
    BY <1>1, <1>5, <1>7, <2>2, <2>3 DEF RemovalDue, Applying, At
<1>11. QED
  BY <1>1, <1>8, <1>9, <1>10 DEF Converging, Live

\* Removing one is, too.
LEMMA ApplyTombstoneConverging ==
    ASSUME TypeOK, GravesFinal, NEW p \in Pulls, Converging(p), ApplyTombstone(p)
    PROVE  Converging(p)'
<1>1. /\ pull[p] \in PullStates /\ At(p, "apply")
      /\ UNCHANGED <<rows, graves, clean>>
  BY Values DEF ApplyTombstone
<1>2. PICK g \in pull[p].tombstones :
        /\ local' = [local EXCEPT ![g.rec] = 0]
        /\ pull' = [pull EXCEPT ![p] = [Advance(p, g.cursor) EXCEPT !.tombstones = @ \ {g}]]
  BY DEF ApplyTombstone, Lowest
<1>3. g \in Graves /\ g.cursor \in Nat /\ g.rec \in Recs
  BY <1>1 DEF PullStates, Graves
<1>4. pull'[p] = [Advance(p, g.cursor) EXCEPT !.tombstones = @ \ {g}]
  BY <1>2 DEF TypeOK
<1>5. /\ pull'[p].tombstones = pull[p].tombstones \ {g}
      /\ pull'[p].records = pull[p].records
      /\ pull'[p].step = "apply" /\ pull'[p].full = pull[p].full
      /\ pull'[p].max = Advance(p, g.cursor).max
  BY <1>1, <1>3, <1>4, AdvanceType, AdvanceFull DEF PullStates, At
<1>6. \A r \in Recs : local'[r] = IF r = g.rec THEN 0 ELSE local[r]
  BY <1>2 DEF TypeOK
<1>7. \A n \in Nat : Beyond(p, n) => Beyond(p, n)'
  BY <1>5, BeyondKept
<1>8. clean[p] => PagesTrue(p)' /\ ~Live(g.rec)
  BY <1>1, <1>5 DEF Converging, PagesTrue, GravesFinal, Selecting, At, Live
<1>9. ASSUME clean[p], NEW r \in Recs, Live(r), local'[r] # rows[r]
      PROVE  RecordDue(p, r)'
  <2>1. local[r] # rows[r]
    BY <1>6, <1>8, <1>9
  <2>2. \/ [rec |-> r, cursor |-> rows[r]] \in pull[p].records
        \/ Beyond(p, rows[r])
    BY <1>1, <1>9, <2>1 DEF Converging, RecordDue, Selecting, At
  <2>3. rows[r] \in Nat
    BY DEF TypeOK
  <2>4. QED
    BY <1>1, <1>5, <1>7, <2>2, <2>3 DEF RecordDue, Applying, At
<1>10. ASSUME clean[p], NEW r \in Recs, ~Live(r), local'[r] # 0
       PROVE  RemovalDue(p, r)'
  <2>1. r # g.rec /\ local[r] # 0
    BY <1>6, <1>10
  <2>2. PICK h \in graves : h.rec = r /\ (h \in pull[p].tombstones \/ Beyond(p, h.cursor))
    BY <1>1, <1>10, <2>1 DEF Converging, RemovalDue, Selecting, At
  <2>3. h.cursor \in Nat
    BY DEF TypeOK, Graves
  <2>4. QED
    BY <1>1, <1>5, <1>7, <2>1, <2>2, <2>3 DEF RemovalDue, Applying, At
<1>11. QED
  BY <1>1, <1>8, <1>9, <1>10 DEF Converging, Live

\* The end of a page: what is left is above the maximum, where the next begins.
LEMMA MoveConverging ==
    ASSUME TypeOK, NEW p \in Pulls, Converging(p),
           TrackClient(p) \/ NextPage(p) \/ LastPage(p)
    PROVE  Converging(p)'
<1>1. /\ pull[p] \in PullStates
      /\ pull'[p].records = pull[p].records /\ pull'[p].tombstones = pull[p].tombstones
      /\ pull'[p].max = pull[p].max /\ pull'[p].full = pull[p].full
      /\ UNCHANGED <<rows, graves, local, clean>>
      /\ ~Selecting(p)
      /\ \/ pull'[p].step = "apply"
         \/ /\ pull'[p].step = "records" /\ pull'[p].cursor = pull[p].max
            /\ pull[p].records = {} /\ pull[p].tombstones = {}
         \/ /\ pull'[p].step = "save" /\ ~pull[p].full
            /\ pull[p].records = {} /\ pull[p].tombstones = {}
  BY Values DEF TrackClient, NextPage, LastPage, Applied, Goto, Selecting, At, TypeOK, PullStates
<1>2. \A n : Beyond(p, n)' <=> Beyond(p, n)
  BY <1>1 DEF Beyond
<1>3. clean[p] => PagesTrue(p)'
  BY <1>1 DEF Converging, PagesTrue, Selecting, At, Live
<1>4. ASSUME clean[p], NEW r \in Recs, Live(r), local[r] # rows[r]
      PROVE  RecordDue(p, r)'
  <2>1. [rec |-> r, cursor |-> rows[r]] \in pull[p].records \/ Beyond(p, rows[r])
    BY <1>1, <1>4 DEF Converging, RecordDue
  <2>2. CASE [rec |-> r, cursor |-> rows[r]] \in pull[p].records
    BY <1>1, <2>2 DEF RecordDue
  <2>3. CASE Beyond(p, rows[r])
    BY <1>1, <1>2, <2>3 DEF RecordDue, Beyond, Selecting, Applying, At
  <2>4. QED
    BY <2>1, <2>2, <2>3
<1>5. ASSUME clean[p], NEW r \in Recs, ~Live(r), local[r] # 0
      PROVE  RemovalDue(p, r)'
  <2>1. PICK g \in graves : g.rec = r /\ (g \in pull[p].tombstones \/ Beyond(p, g.cursor))
    BY <1>1, <1>5 DEF Converging, RemovalDue
  <2>2. CASE g \in pull[p].tombstones
    BY <1>1, <2>1, <2>2 DEF RemovalDue
  <2>3. CASE Beyond(p, g.cursor)
    BY <1>1, <1>2, <2>1, <2>3 DEF RemovalDue, Beyond, Selecting, Applying, At
  <2>4. QED
    BY <2>1, <2>2, <2>3
<1>6. QED
  BY <1>1, <1>3, <1>4, <1>5 DEF Converging, Live

\* What a pull that is done has left to do is nothing.
LEMMA ConvergedAtTheEnd ==
    ASSUME TypeOK, NEW p \in Pulls, Converging(p), At(p, "save"), clean[p]
    PROVE  local = rows
<1>1. pull[p].records = {} /\ pull[p].tombstones = {}
  BY DEF Converging, PagesTrue
<1>2. ASSUME NEW r \in Recs
      PROVE  local[r] = rows[r]
  BY <1>1 DEF Converging, RecordDue, RemovalDue, Selecting, Applying, At, Live
<1>3. QED
  BY <1>2 DEF TypeOK

\* A client that pulls one page at a time has, after a pull during which the
\* server was quiet, exactly the server's records: deletions and imports
\* included, however many pages it took, whatever an interrupted pull left, and
\* although cursors are compared as text.
THEOREM CleanPullConvergesCorrect ==
    ASSUME OnePull, "revive" \notin Workload
    PROVE  Spec /\ []NothingSkipped => []CleanPullConverges
<1> DEFINE Inv == CursorsDistinct /\ GravesFinal /\ \A p \in Pulls : Converging(p)
<1>1. Init => Inv
  BY FS_EmptySet, CursorFeedAssumption
  DEF Init, FeedInit, CursorsDistinct, GravesFinal, Converging, Live
<1>2. TypeOK /\ NothingSkipped /\ Inv /\ [Next]_vars => Inv'
  <2> SUFFICES ASSUME TypeOK, NothingSkipped, Inv, [Next]_vars
               PROVE  Inv'
    OBVIOUS
  <2>1. CursorsDistinct' /\ GravesFinal'
    BY DistinctStep, GravesStep
  <2>2. ASSUME NEW p \in Pulls
        PROVE  Converging(p)'
    <3>1. CASE clean'[p] = FALSE
      BY <3>1 DEF Converging
    <3>2. ASSUME Start(p) \/ PullStep(p)
          PROVE  Converging(p)'
      <4>1. CASE Save(p)
        BY <4>1, <3>1 DEF Save, TypeOK
      <4>2. CASE SelectRecords(p) \/ SelectTombstones(p)
        BY <4>2, RecordsConverging, TombstonesConverging
      <4>3. CASE ApplyRecord(p) \/ ApplyTombstone(p)
        BY <4>3, ApplyRecordConverging, ApplyTombstoneConverging
      <4>4. QED
        BY <3>2, <4>1, <4>2, <4>3, StartConverging, MoveConverging DEF PullStep
    <3>3. ASSUME UNCHANGED vars
          PROVE  Converging(p)'
      BY <3>3 DEF vars, Converging, PagesTrue, RecordDue, RemovalDue, Selecting, Applying,
                  Beyond, At, Live, LiveAbove, FirstPage
    <3>4. ASSUME (\E w \in Writers : ServerStep(w)) \/ (\E r \in Recs : ServerImport(r)) \/ Interrupt(p)
          PROVE  clean'[p] = FALSE
      BY <3>4 DEF ServerStep, ServerImport, Unclean, Interrupt, TypeOK
    <3>5. \A q \in Pulls : q = p
      BY DEF OnePull
    <3>6. QED
      BY <3>1, <3>2, <3>3, <3>4, <3>5 DEF Next
  <2>3. QED
    BY <2>1, <2>2
<1>3. TypeOK /\ Inv => CleanPullConverges
  BY ConvergedAtTheEnd DEF CleanPullConverges
<1>4. QED
  BY <1>1, <1>2, <1>3, TypeCorrect, PTL DEF Spec

-----------------------------------------------------------------------------
(* Where nothing is skipped: when nothing is deleted, or when the client is  *)
(* less than a page behind.                                                  *)

\* Without tombstones the answers are the pages of one ordered list.
LEMMA OneListIsNotSkipped ==
    ASSUME TypeOK, graves = {}
    PROVE  NothingSkipped
<1> SUFFICES ASSUME NEW p \in Pulls,
                    NEW c \in LiveAbove(pull[p].cursor) \ FirstPage(LiveAbove(pull[p].cursor)),
                    NEW d \in FirstPage(LiveAbove(pull[p].cursor))
             PROVE  d.cursor < c.cursor
  BY DEF NothingSkipped, GravesAbove, FirstPage
<1>1. \A e \in LiveAbove(pull[p].cursor) : e.cursor \in Nat
  BY DEF TypeOK, LiveAbove
<1>2. d \in LiveAbove(pull[p].cursor)
  BY DEF FirstPage
<1>3. ~(c.cursor <= d.cursor)
  BY <1>1, LiveAboveFinite, FirstPageHasNoHoles
<1>4. QED
  BY <1>1, <1>2, <1>3

\* Where others create, update and import, and delete nothing, a pull with the
\* server quiet converges for every number of records, whatever PageSize is and
\* however many transactions are open before.
COROLLARY PagedStoreConverges ==
    ASSUME OnePull, Workload \subseteq {"import"}
    PROVE  Spec => []CleanPullConverges
<1> DEFINE Inv == graves = {}
<1>1. Init => Inv
  BY DEF Init, FeedInit
<1>2. Inv /\ [Next]_vars => Inv'
  <2> SUFFICES ASSUME graves = {}, [Next]_vars
               PROVE  graves' = graves
    OBVIOUS
  <2>1. ASSUME NEW w \in Writers, ServerStep(w)
        PROVE  graves' = graves
    BY <2>1 DEF ServerStep, Draw, Abandon, Publish
  <2>2. ASSUME NEW r \in Recs, ServerImport(r)
        PROVE  graves' = graves
    BY <2>2 DEF ServerImport, Import
  <2>3. ASSUME NEW p \in Pulls, Start(p) \/ PullStep(p) \/ Interrupt(p)
        PROVE  graves' = graves
    BY <2>3 DEF Start, PullStep, Interrupt, SelectRecords, SelectTombstones, TrackClient,
                ApplyRecord, ApplyTombstone, NextPage, LastPage, Save
  <2>4. QED
    BY <2>1, <2>2, <2>3 DEF Next, vars
<1>3. TypeOK /\ Inv => NothingSkipped
  BY OneListIsNotSkipped
<1>4. Spec /\ []NothingSkipped => []CleanPullConverges
  <2>1. "revive" \notin Workload
    OBVIOUS
  <2>2. QED
    BY <2>1, CleanPullConvergesCorrect
<1>5. QED
  BY <1>1, <1>2, <1>3, <1>4, TypeCorrect, PTL DEF Spec

\* What the client has not got yet fits into one answer.
BacklogFits ==
    /\ Cardinality(LiveAbove(lastCursor)) <= PageSize
    /\ Cardinality({g \in graves : g.cursor > lastCursor}) <= PageSize

\* LIMIT takes nothing away from what fits.
LEMMA PageOfFew ==
    ASSUME NEW S, IsFiniteSet(S), Cardinality(S) <= PageSize, NEW T \in SUBSET S
    PROVE  FirstPage(T) = T
<1>1. ASSUME NEW c \in T
      PROVE  Cardinality({d \in T : d.cursor <= c.cursor}) <= PageSize
  <2>1. {d \in T : d.cursor <= c.cursor} \in SUBSET S
    OBVIOUS
  <2>2. /\ Cardinality({d \in T : d.cursor <= c.cursor}) <= Cardinality(S)
        /\ IsFiniteSet({d \in T : d.cursor <= c.cursor})
    BY <2>1, FS_Subset
  <2>3. QED
    BY <2>2, FS_CardinalityType, DeltaPullAssumption
<1>2. QED
  BY <1>1 DEF FirstPage

LEMMA PagesWhole ==
    ASSUME TypeOK, GravesFinal, BacklogFits, NEW cursor \in Nat, cursor >= lastCursor
    PROVE  /\ FirstPage(LiveAbove(cursor)) = LiveAbove(cursor)
           /\ FirstPage(GravesAbove(cursor)) = GravesAbove(cursor)
<1>1. /\ lastCursor \in Nat
      /\ \A r \in Recs : rows[r] \in Nat
      /\ \A g \in graves : g.cursor \in Nat
  BY DEF TypeOK, Graves
<1>2. LiveAbove(cursor) \in SUBSET LiveAbove(lastCursor)
  BY <1>1 DEF LiveAbove
<1>3. GravesAbove(cursor) \in SUBSET {g \in graves : g.cursor > lastCursor}
  BY <1>1 DEF GravesAbove
<1>4. IsFiniteSet({g \in graves : g.cursor > lastCursor})
  BY FS_Subset DEF GravesFinal
<1>5. FirstPage(LiveAbove(cursor)) = LiveAbove(cursor)
  BY <1>2, LiveAboveFinite, PageOfFew DEF BacklogFits
<1>6. QED
  BY <1>3, <1>4, <1>5, PageOfFew DEF BacklogFits

\* With deletions, a client that is never more than a page of records, and a page
\* of tombstones, behind converges.
COROLLARY SmallBacklogConverges ==
    ASSUME OnePull, "revive" \notin Workload
    PROVE  Spec /\ []BacklogFits => []CleanPullConverges
<1> DEFINE Inv == GravesFinal /\ \A p \in Pulls : Ahead(p)
<1>1. Init => Inv
  BY FS_EmptySet DEF Init, FeedInit, GravesFinal, Ahead, At, NoPull
<1>2. TypeOK /\ Inv /\ [Next]_vars => Inv'
  BY AheadStep, GravesStep
<1>3. TypeOK /\ Inv /\ BacklogFits => NothingSkipped
  <2> SUFFICES ASSUME TypeOK, Inv, BacklogFits, NEW p \in Pulls, At(p, "records") \/ At(p, "graves")
               PROVE  /\ FirstPage(LiveAbove(pull[p].cursor)) = LiveAbove(pull[p].cursor)
                      /\ FirstPage(GravesAbove(pull[p].cursor)) = GravesAbove(pull[p].cursor)
    BY DEF NothingSkipped
  <2>1. pull[p].cursor \in Nat /\ pull[p].cursor >= lastCursor
    BY Values DEF Ahead, At
  <2>2. QED
    BY <2>1, PagesWhole
<1>4. QED
  BY <1>1, <1>2, <1>3, TypeCorrect, CleanPullConvergesCorrect, PTL DEF Spec

\* The backlog fits when pages are as large as the number of records there can be.
LEMMA FewRecordsFit ==
    ASSUME Cardinality(Recs) <= PageSize, TypeOK, GravesFinal
    PROVE  BacklogFits
<1>1. IsFiniteSet(Recs) /\ Cardinality(Recs) \in Nat /\ PageSize \in Nat
  BY FS_CardinalityType, DeltaPullAssumption
<1>2. ASSUME NEW S, \A c \in S : c.rec \in Recs,
             \A c, d \in S : c.rec = d.rec => c = d
      PROVE  Cardinality(S) <= PageSize
  <2> DEFINE f == [c \in S |-> c.rec]
  <2>1. f \in Injection(S, Recs)
    BY <1>2 DEF Injection, IsInjective
  <2>2. Cardinality(S) <= Cardinality(Recs) /\ Cardinality(S) \in Nat
    BY <1>1, <2>1, FS_Injection, FS_CardinalityType
  <2>3. QED
    BY <1>1, <2>2
<1>3. /\ \A c \in LiveAbove(lastCursor) : c.rec \in Recs
      /\ \A c, d \in LiveAbove(lastCursor) : c.rec = d.rec => c = d
  BY DEF LiveAbove
<1>4. Cardinality(LiveAbove(lastCursor)) <= PageSize
  BY <1>2, <1>3
<1>5. Cardinality({g \in graves : g.cursor > lastCursor}) <= PageSize
  BY <1>2 DEF GravesFinal, TypeOK, Graves
<1>6. QED
  BY <1>4, <1>5 DEF BacklogFits

\* In particular when all the records of a user are no more than a page holds.
COROLLARY SmallStoreConverges ==
    ASSUME OnePull, "revive" \notin Workload, Cardinality(Recs) <= PageSize
    PROVE  Spec => []CleanPullConverges
<1>1. Init => GravesFinal
  BY FS_EmptySet DEF Init, FeedInit, GravesFinal
<1>2. TypeOK /\ GravesFinal /\ [Next]_vars => GravesFinal'
  BY GravesStep
<1>3. TypeOK /\ GravesFinal => BacklogFits
  BY FewRecordsFit
<1>4. QED
  BY <1>1, <1>2, <1>3, TypeCorrect, SmallBacklogConverges, PTL DEF Spec

=============================================================================
