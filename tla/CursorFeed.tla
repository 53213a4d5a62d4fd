----------------------------- MODULE CursorFeed -----------------------------
(***************************************************************************)
(* What a client that pulls changes can see of the server: for every record *)
(* the cursor of its committed row, the tombstones, and the cursors that    *)
(* open transactions have drawn from records_cursor_seq and not committed.  *)
(* A cursor identifies a change, so versions and data are left out.         *)
(*                                                                          *)
(* A transaction draws its cursor before it commits, and transactions       *)
(* commit in any order: changes become visible out of cursor order.  What   *)
(* row locks guarantee is that the changes of ONE record do not.            *)
(* SyncServer implements this specification (SyncServer!ImplementsFeed).    *)
(***************************************************************************)
EXTENDS Integers

CONSTANTS
    Writers,     \* transactions that can be open at the same time
    Recs,        \* record ids of one user
    FirstCursor  \* cursors drawn before, for the rows of other users

ASSUME CursorFeedAssumption == FirstCursor \in Nat

VARIABLES
    rows,    \* cursor of the committed row of each record, 0 without a row
    graves,  \* table tombstones
    seq,     \* last value drawn from records_cursor_seq
    drawn    \* cursor of each open transaction, 0 if it has drawn none

feedVars == <<rows, graves, seq, drawn>>

Graves == [rec : Recs, cursor : Nat]

FeedInit ==
    /\ rows = [r \in Recs |-> 0]
    /\ graves = {}
    /\ seq = FirstCursor
    /\ drawn = [w \in Writers |-> 0]

Live(r)   == rows[r] # 0
Buried(r) == \E g \in graves : g.rec = r
Close(w)  == drawn' = [drawn EXCEPT ![w] = 0]

\* nextval: never rolled back.  An INSERT that meets a row draws a second time.
Draw(w) ==
    /\ seq' = seq + 1
    /\ drawn' = [drawn EXCEPT ![w] = seq + 1]
    /\ UNCHANGED <<rows, graves>>

\* COMMIT of a create or an update.
Publish(w, r) ==
    /\ drawn[w] > rows[r]
    /\ rows' = [rows EXCEPT ![r] = drawn[w]]
    /\ Close(w)
    /\ UNCHANGED <<graves, seq>>

\* COMMIT of a delete.
Bury(w, r) ==
    /\ Live(r) /\ drawn[w] > rows[r]
    /\ rows' = [rows EXCEPT ![r] = 0]
    /\ graves' = graves \cup {[rec |-> r, cursor |-> drawn[w]]}
    /\ Close(w)
    /\ UNCHANGED seq

\* ROLLBACK.
Abandon(w) ==
    /\ drawn[w] # 0
    /\ Close(w)
    /\ UNCHANGED <<rows, graves, seq>>

\* The single INSERT of POST /records draws and commits in one statement.
Import(r) ==
    /\ ~Live(r)
    /\ seq' = seq + 1
    /\ rows' = [rows EXCEPT ![r] = seq + 1]
    /\ UNCHANGED <<graves, drawn>>

FeedNext ==
    \/ \E w \in Writers : Draw(w) \/ Abandon(w)
    \/ \E w \in Writers, r \in Recs : Publish(w, r) \/ Bury(w, r)
    \/ \E r \in Recs : Import(r)

FeedSpec == FeedInit /\ [][FeedNext]_feedVars

=============================================================================
