------------------------------ MODULE DemoApp ------------------------------
(***************************************************************************)
(* The demo application around the SDK: SdkProvider                        *)
(* (src/apps/demo-app/src/context/SdkContext.tsx), JobsPage                 *)
(* (src/apps/demo-app/src/pages/JobsPage.tsx) and its dialogs, over the     *)
(* in-memory copies of SyncraSDK, IndexedDB, and the server.                *)
(*                                                                          *)
(* Of a record the module keeps whether it is there; its data and versions, *)
(* and retries, are those of SdkClient.  What depends on them is left open: *)
(* whether the server rejects an operation or has applied it before, and    *)
(* which unchanged records another device has updated.  An action is a      *)
(* stretch of code between two awaits; a write to IndexedDB and the change  *)
(* of the map of records right after its await are one action, since the    *)
(* transactions of a store complete one after the other and each resumes    *)
(* its caller.                                                              *)
(*                                                                          *)
(* Covered: what the board shows, what the SDK holds in memory and what is  *)
(* stored, through overlapping calls of sync(), loss of the network, edits  *)
(* whose awaits interleave with pushes and pulls, logging out while calls   *)
(* are under way, and reloads.                                              *)
(* Not covered: the second mount of React's StrictMode, edits made while    *)
(* another is being stored, filters and dialogs.                            *)
(***************************************************************************)
EXTENDS Integers, FiniteSets

CONSTANTS
    Recs,        \* record ids
    Objects,     \* SDK objects: one for each time somebody is logged in
    Calls,       \* calls of sync() under way at once
    NoRec,       \* no record
    NoObject,    \* no SDK object
    MaxEdits,    \* bound on records created, updated and deleted here
    MaxForeign   \* bound on changes made elsewhere

ASSUME DemoAppAssumption ==
    /\ NoRec \notin Recs /\ NoObject \notin Objects
    /\ MaxEdits \in Nat /\ MaxForeign \in Nat

VARIABLES
    page,       \* "login", "loading" (the SDK initialises) or "board"
    sdk,        \* sdkRef.current
    sdkOnline,  \* isOnline of the SDK objects
    memory,     \* their maps of records
    board,      \* the state jobs of JobsPage
    store,      \* object store records
    pending,    \* object store offline_queue: the operations on each record
    seen,       \* what the server had of each record up to lastCursor
    server,     \* what the server has
    edit,       \* createRecord, updateRecord or deleteRecord under way
    syncs,      \* calls of sync() under way
    orphaned,   \* history: a replaced SDK has written since this one was made
    overtaken,  \* history: records deleted while the result of an operation on
                \* them, which had found them stored, was still to be stored
    used        \* bounds: edits and changes made elsewhere so far

appVars == <<page, sdk, sdkOnline, memory, board, store, pending, seen, server,
             edit, syncs, orphaned, overtaken, used>>

Remote  == {"absent", "live", "dead", "revived"}  \* "revived": inserted again
OnServer == {"live", "revived"}
Kinds   == {"create", "update", "delete"}
NoEdit  == [step |-> "none", kind |-> "none", rec |-> NoRec, by |-> NoObject]
Edits   == [step : {"none", "write", "queue"}, kind : {"none", "seed"} \cup Kinds,
            rec : Recs \cup {NoRec}, by : Objects \cup {NoObject}]
Nothing == [r \in Recs |-> {}]
Batches == [Recs -> SUBSET Kinds]

\* The locals of sync(): the operations the server has still to answer, those
\* it has applied and rejected and whose results are still to be handled, the
\* result being handled, and the answer to the pull with what is left of it.
NoSync == [step |-> "none", by |-> NoObject, batch |-> Nothing, applied |-> Nothing,
           rejected |-> Nothing, rec |-> NoRec, dropped |-> {},
           got |-> [r \in Recs |-> "absent"], todo |-> {}, gone |-> {}]
SyncRows == [step : {"none", "push", "read", "write", "drop", "pull", "apply"},
             by : Objects \cup {NoObject}, batch : Batches, applied : Batches,
             rejected : Batches, rec : Recs \cup {NoRec}, dropped : SUBSET Kinds,
             got : [Recs -> Remote], todo : SUBSET Recs, gone : SUBSET Recs]

\* Type invariant: the page, the SDK objects, IndexedDB and the calls.
AppTypeOK ==
    /\ page \in {"login", "loading", "board"}
    /\ sdk \in Objects \cup {NoObject}
    /\ sdkOnline \in [Objects -> BOOLEAN]
    /\ memory \in [Objects -> SUBSET Recs]
    /\ board \subseteq Recs /\ store \subseteq Recs
    /\ pending \in Batches
    /\ seen \in [Recs -> Remote] /\ server \in [Recs -> Remote]
    /\ edit \in Edits
    /\ syncs \in [Calls -> SyncRows]
    /\ orphaned \in BOOLEAN /\ overtaken \subseteq Recs
    /\ used \in [edits : 0..MaxEdits, foreign : 0..MaxForeign]

AppInit ==
    /\ page = "login"
    /\ sdk = NoObject
    /\ sdkOnline = [o \in Objects |-> FALSE]
    /\ memory = [o \in Objects |-> {}]
    /\ board = {} /\ store = {}
    /\ pending = Nothing
    /\ seen = [r \in Recs |-> "absent"]
    /\ server = [r \in Recs |-> "absent"]
    /\ edit = NoEdit
    /\ syncs = [c \in Calls |-> NoSync]
    /\ orphaned = FALSE /\ overtaken = {}
    /\ used = [edits |-> 0, foreign |-> 0]

stored    == <<store, pending, seen>>
histories == <<orphaned, overtaken>>

\* Bug: the page listens to failures only.
Refreshed_NotOnComplete(o, mem, event) ==
    IF page = "board" /\ o = sdk /\ event # "complete" THEN mem[o] ELSE board

\* refresh, on the events of the SDK that the page listens to.
Refreshed(o, mem, event) ==
    IF page = "board" /\ o = sdk THEN mem[o] ELSE board

\* o writes to IndexedDB and its own memory, and another SDK does not hear of it.
Orphans(o) == orphaned \/ (page = "board" /\ o # sdk)

\* The result of an operation on r is about to be stored.
Confirming(r) == \E c \in Calls : syncs[c].step = "write" /\ syncs[c].rec = r

\* o stores or removes r in IndexedDB and in its own memory.
Overtaken(o, r, there) ==
    IF ~there /\ Confirming(r) THEN overtaken \cup {r}
    ELSE IF o = sdk THEN overtaken \ {r} ELSE overtaken

-----------------------------------------------------------------------------
(* sync(). *)

Queued == {r \in Recs : pending[r] # {}}

\* The call of sync() by object o, up to its first request; offline it returns
\* at once and no event tells of it.
SyncBegins(o) ==
    IF ~sdkOnline[o] THEN UNCHANGED syncs
    ELSE \E c \in Calls :
            /\ syncs[c] = NoSync
            /\ syncs' = [syncs EXCEPT ![c] =
                  [NoSync EXCEPT !.step = IF Queued = {} THEN "pull" ELSE "push",
                                 !.by = o, !.batch = pending]]

\* The periodic sync, or the button of SyncStatus.
TimerSync ==
    /\ page # "login" /\ sdkOnline[sdk]
    /\ SyncBegins(sdk)
    /\ UNCHANGED <<page, sdk, sdkOnline, memory, board, stored, server, edit, histories, used>>

\* What an operation makes of a record: an update of a record that is not there
\* inserts it, and deleting what is not there leaves nothing behind.
Effect(kind, state) ==
    IF kind = "delete"
    THEN IF state \in OnServer THEN "dead" ELSE state
    ELSE CASE state = "absent" -> "live"
           [] state = "dead"   -> "revived"
           [] OTHER            -> state

\* The server processes one operation of the batch, in the order of their ids.
\* It rejects none on a record that is not there; and the answer to one that was
\* applied before names no operation of the client.
ServerProcesses(c, r, kind) ==
    /\ syncs[c].step = "push" /\ kind \in syncs[c].batch[r]
    /\ \/ /\ server' = [server EXCEPT ![r] = Effect(kind, @)]
          /\ syncs' = [syncs EXCEPT ![c].batch[r] = @ \ {kind},
                                    ![c].applied[r] = @ \cup {kind}]
       \/ /\ kind # "create" /\ server[r] \in OnServer
          /\ syncs' = [syncs EXCEPT ![c].batch[r] = @ \ {kind},
                                    ![c].rejected[r] = @ \cup {kind}]
          /\ UNCHANGED server
       \/ /\ syncs' = [syncs EXCEPT ![c].batch[r] = @ \ {kind}]
          /\ UNCHANGED server
    /\ UNCHANGED <<page, sdk, sdkOnline, memory, board, stored, edit, histories, used>>

\* An operation is marked applied.  The answer has data unless it is a deletion.
MarkApplied(c, r, kind) ==
    /\ syncs[c].step = "push" /\ syncs[c].batch = Nothing
    /\ kind \in syncs[c].applied[r]
    /\ pending' = [pending EXCEPT ![r] = @ \ {kind}]
    /\ syncs' = [syncs EXCEPT ![c].applied[r] = @ \ {kind},
                              ![c].step = IF kind = "delete" THEN "push" ELSE "read",
                              ![c].rec = IF kind = "delete" THEN NoRec ELSE r]
    /\ UNCHANGED <<page, sdk, sdkOnline, memory, board, store, seen, server, edit,
                   histories, used>>

\* The rejected come after all applied ones: "conflict" is emitted, on which the
\* page refreshes.  It registers no handler of its own.
MeetConflict(c, r, kind) ==
    /\ syncs[c].step = "push" /\ syncs[c].batch = Nothing /\ syncs[c].applied = Nothing
    /\ kind \in syncs[c].rejected[r]
    /\ board' = Refreshed(syncs[c].by, memory, "conflict")
    /\ syncs' = [syncs EXCEPT ![c].rejected[r] = @ \ {kind}, ![c].step = "read",
                              ![c].rec = r, ![c].dropped = {kind}]
    /\ UNCHANGED <<page, sdk, sdkOnline, memory, stored, server, edit, histories, used>>

\* Nothing more is to be stored for the result being handled.
Handled(c) ==
    IF syncs[c].dropped = {} THEN [syncs[c] EXCEPT !.step = "push", !.rec = NoRec]
                             ELSE [syncs[c] EXCEPT !.step = "drop"]

\* Bug: the record is stored whether getRecord has found one or not.
ReadRecord_Always(c) ==
    /\ syncs[c].step = "read"
    /\ syncs' = [syncs EXCEPT ![c].step = "write"]
    /\ UNCHANGED <<page, sdk, sdkOnline, memory, board, stored, server, edit, histories, used>>

\* getRecord.
ReadRecord(c) ==
    /\ syncs[c].step = "read"
    /\ syncs' = [syncs EXCEPT
          ![c] = IF @.rec \in store THEN [@ EXCEPT !.step = "write"] ELSE Handled(c)]
    /\ UNCHANGED <<page, sdk, sdkOnline, memory, board, stored, server, edit, histories, used>>

\* upsertRecord of what getRecord found with the data of the answer: memory is
\* left alone, whether the record is still stored or not.
WriteRecord(c) ==
    LET r == syncs[c].rec
    IN  /\ syncs[c].step = "write"
        /\ store' = store \cup {r}
        /\ syncs' = [syncs EXCEPT ![c] = Handled(c)]
        /\ UNCHANGED <<page, sdk, sdkOnline, memory, board, pending, seen, server, edit,
                       histories, used>>

\* A rejected operation leaves the queue.
DropRejected(c) ==
    /\ syncs[c].step = "drop"
    /\ pending' = [pending EXCEPT ![syncs[c].rec] = @ \ syncs[c].dropped]
    /\ syncs' = [syncs EXCEPT ![c].step = "push", ![c].rec = NoRec, ![c].dropped = {}]
    /\ UNCHANGED <<page, sdk, sdkOnline, memory, board, store, seen, server, edit,
                   histories, used>>

\* pullDelta starts when every result has been handled.
PushDone(c) ==
    /\ syncs[c].step = "push"
    /\ syncs[c].batch = Nothing /\ syncs[c].applied = Nothing /\ syncs[c].rejected = Nothing
    /\ syncs' = [syncs EXCEPT ![c].step = "pull"]
    /\ UNCHANGED <<page, sdk, sdkOnline, memory, board, stored, server, edit, histories, used>>

\* A tombstone of r is newer than what was seen of r: it is, may be, or is not.
Buried(r) ==
    CASE server[r] = "dead" -> {TRUE}
      [] server[r] = "revived" -> IF seen[r] \in {"dead", "revived"} THEN BOOLEAN ELSE {TRUE}
      [] OTHER -> {FALSE}

\* The answer of the server to lastCursor: what differs from what was seen, and
\* what has changed since though its state is the same.
PullAnswered(c) ==
    \E changed \in SUBSET {r \in Recs : server[r] # "absent"} :
    \E buried \in [Recs -> BOOLEAN] :
       /\ syncs[c].step = "pull"
       /\ \A r \in Recs : /\ server[r] # seen[r] => r \in changed
                          /\ buried[r] \in Buried(r)
       /\ syncs' = [syncs EXCEPT ![c].step = "apply", ![c].got = server,
             ![c].todo = {r \in changed : server[r] \in OnServer},
             ![c].gone = {r \in changed : buried[r]}]
       /\ UNCHANGED <<page, sdk, sdkOnline, memory, board, stored, server, edit,
                      histories, used>>

\* The map of records of o after r is stored or removed.
Remembered(o, r, there) ==
    [memory EXCEPT ![o] = IF there THEN @ \cup {r} ELSE @ \ {r}]

\* o stores or removes r, and changes its map right after.
Keep(o, r, there) ==
    /\ store' = IF there THEN store \cup {r} ELSE store \ {r}
    /\ memory' = Remembered(o, r, there)
    /\ orphaned' = Orphans(o)
    /\ overtaken' = Overtaken(o, r, there)

\* The deletions of an answer are applied after its records.
ApplyPulled(c, r) ==
    /\ syncs[c].step = "apply"
    /\ \/ /\ r \in syncs[c].todo
          /\ Keep(syncs[c].by, r, TRUE)
          /\ syncs' = [syncs EXCEPT ![c].todo = @ \ {r}]
       \/ /\ syncs[c].todo = {} /\ r \in syncs[c].gone
          /\ Keep(syncs[c].by, r, FALSE)
          /\ syncs' = [syncs EXCEPT ![c].gone = @ \ {r}]
    /\ UNCHANGED <<page, sdk, sdkOnline, board, pending, seen, server, edit, used>>

\* lastCursor is stored and sync-complete emitted.
SyncCompletes(c) ==
    /\ syncs[c].step = "apply" /\ syncs[c].todo = {} /\ syncs[c].gone = {}
    /\ seen' = syncs[c].got
    /\ board' = Refreshed(syncs[c].by, memory, "complete")
    /\ syncs' = [syncs EXCEPT ![c] = NoSync]
    /\ UNCHANGED <<page, sdk, sdkOnline, memory, store, pending, server, edit, histories, used>>

\* A request fails, of the network or of IndexedDB, and what was stored so far
\* stays: sync-failed, sync-complete or, for a pull alone, both are emitted.
SyncFails(c) ==
    /\ syncs[c].step # "none"
    /\ board' = Refreshed(syncs[c].by, memory, "failed")
    /\ syncs' = [syncs EXCEPT ![c] = NoSync]
    /\ UNCHANGED <<page, sdk, sdkOnline, memory, stored, server, edit, histories, used>>

-----------------------------------------------------------------------------
(* SdkProvider and App. *)

\* Somebody logs in, or the page finds a token: a new SDK object.
MountProvider(o, online) ==
    /\ page = "login"
    /\ o # sdk /\ \A c \in Calls : syncs[c].by # o
    /\ edit.by # o
    /\ page' = "loading"
    /\ sdk' = o
    /\ sdkOnline' = [sdkOnline EXCEPT ![o] = online]
    /\ memory' = [memory EXCEPT ![o] = {}]
    /\ UNCHANGED <<board, stored, server, edit, syncs, histories, used>>

\* An empty board is given sample jobs, of which r stands for all.
Seed(r) ==
    IF store = {} /\ edit = NoEdit
    THEN /\ server[r] = "absent" /\ pending[r] = {}
         /\ edit' = [step |-> "queue", kind |-> "seed", rec |-> r, by |-> sdk]
         /\ store' = {r}
    ELSE UNCHANGED <<edit, store>>

\* initialize() has read the store, the page is rendered, and sync() is called.
Ready(r) ==
    /\ page = "loading"
    /\ page' = "board"
    /\ board' = store
    /\ SyncBegins(sdk)
    /\ Seed(r)
    /\ memory' = [memory EXCEPT ![sdk] = store']
    /\ overtaken' = {q \in overtaken : Confirming(q)}
    /\ UNCHANGED <<sdk, sdkOnline, pending, seen, server, orphaned, used>>

\* Logging out unmounts the provider, which destroys its SDK; calls go on.
Logout ==
    /\ page # "login"
    /\ page' = "login"
    /\ board' = {} /\ orphaned' = FALSE
    /\ UNCHANGED <<sdk, sdkOnline, memory, stored, server, edit, syncs, overtaken, used>>

\* The page is loaded anew, and all that was under way is gone.
ReloadPage ==
    /\ page' = "login"
    /\ board' = {} /\ orphaned' = FALSE
    /\ memory' = [o \in Objects |-> {}]
    /\ edit' = NoEdit
    /\ syncs' = [c \in Calls |-> NoSync]
    /\ UNCHANGED <<sdk, sdkOnline, stored, server, overtaken, used>>

\* The state of the network changes for the SDK: it emits the event, on which
\* the page refreshes, and calls sync() when it is online.
NetworkSwitches ==
    /\ page # "login"
    /\ sdkOnline' = [sdkOnline EXCEPT ![sdk] = ~@]
    /\ board' = Refreshed(sdk, memory, "network")
    /\ IF sdkOnline[sdk] THEN UNCHANGED syncs
       ELSE \E c \in Calls :
               /\ syncs[c] = NoSync
               /\ syncs' = [syncs EXCEPT ![c] =
                     [NoSync EXCEPT !.step = IF Queued = {} THEN "pull" ELSE "push",
                                    !.by = sdk, !.batch = pending]]
    /\ UNCHANGED <<page, sdk, memory, stored, server, edit, histories, used>>

-----------------------------------------------------------------------------
(* NewJobForm and JobDetail. *)

\* createRecord starts with storing the record, the others with getRecord, which
\* must find a record of the board.
BeginEdit(kind, r) ==
    /\ page = "board" /\ edit = NoEdit
    /\ used.edits < MaxEdits
    /\ IF kind = "create" THEN server[r] = "absent" /\ r \notin store /\ pending[r] = {}
                          ELSE r \in board \cap store
    /\ used' = [used EXCEPT !.edits = @ + 1]
    /\ edit' = [step |-> "write", kind |-> kind, rec |-> r, by |-> sdk]
    /\ UNCHANGED <<page, sdk, sdkOnline, memory, board, stored, server, syncs, histories>>

\* The record is stored or removed.
EditStored ==
    /\ edit.step = "write"
    /\ Keep(edit.by, edit.rec, edit.kind # "delete")
    /\ edit' = [edit EXCEPT !.step = "queue"]
    /\ UNCHANGED <<page, sdk, sdkOnline, board, pending, seen, server, syncs, used>>

\* The operation is queued; the handler of the page calls sync(), and refreshes
\* unless it is the one of NewJobForm, which leaves that to the sync.
EditQueued ==
    /\ edit.step = "queue"
    /\ pending' = [pending EXCEPT ![edit.rec] =
                      @ \cup {IF edit.kind = "seed" THEN "create" ELSE edit.kind}]
    /\ board' = IF edit.kind = "create" THEN board ELSE Refreshed(edit.by, memory, "handler")
    /\ edit' = NoEdit
    /\ IF ~sdkOnline[edit.by] THEN UNCHANGED syncs
       ELSE \E c \in Calls :
               /\ syncs[c] = NoSync
               /\ syncs' = [syncs EXCEPT ![c] =
                     [NoSync EXCEPT !.step = "push", !.by = edit.by, !.batch = pending']]
    /\ UNCHANGED <<page, sdk, sdkOnline, memory, store, seen, server, histories, used>>

-----------------------------------------------------------------------------
\* Another device creates a record, deletes one, or stores a deleted one again.
ForeignChange(r) ==
    /\ used.foreign < MaxForeign
    /\ used' = [used EXCEPT !.foreign = @ + 1]
    /\ \E kind \in Kinds :
          /\ Effect(kind, server[r]) # server[r]
          /\ server[r] = "absent" => kind = "create" /\ pending[r] = {} /\ r \notin store
          /\ server[r] = "dead" => kind = "update"
          /\ server' = [server EXCEPT ![r] = Effect(kind, @)]
    /\ UNCHANGED <<page, sdk, sdkOnline, memory, board, stored, edit, syncs, histories>>

HandleResult(c) ==
    \/ ReadRecord(c) \/ WriteRecord(c) \/ DropRejected(c) \/ PushDone(c)
    \/ \E r \in Recs, kind \in Kinds : MarkApplied(c, r, kind) \/ MeetConflict(c, r, kind)

AppNext ==
    \/ TimerSync \/ Logout \/ ReloadPage \/ NetworkSwitches \/ EditStored \/ EditQueued
    \/ \E c \in Calls :
          \/ \E r \in Recs, kind \in Kinds : ServerProcesses(c, r, kind)
          \/ HandleResult(c) \/ PullAnswered(c) \/ SyncCompletes(c) \/ SyncFails(c)
          \/ \E r \in Recs : ApplyPulled(c, r)
    \/ \E o \in Objects, online \in BOOLEAN : MountProvider(o, online)
    \/ \E r \in Recs : Ready(r) \/ ForeignChange(r) \/ \E kind \in Kinds : BeginEdit(kind, r)

AppSpec == AppInit /\ [][AppNext]_appVars

-----------------------------------------------------------------------------
(* Properties. *)

AtRest ==
    page = "board" /\ edit = NoEdit /\ \A c \in Calls : syncs[c].by # sdk

\* With no call under way the board of a client that is online shows what the
\* SDK has in memory, though no refresh follows the creation of a record; that
\* is stored, and so is nothing else but records that the confirmation of an
\* operation has stored again, unless a replaced SDK has gone on writing.
BoardShowsStore ==
    AtRest /\ sdkOnline[sdk] =>
        /\ board = memory[sdk]
        /\ ~orphaned => memory[sdk] \subseteq store /\ store \ memory[sdk] \subseteq overtaken

\* Loading the page anew gives the SDK the records it had: "Restore records from
\* IndexedDB so getRecords() works after a page reload" (syncra-sdk.ts:232).
ReloadKeepsRecords == AtRest /\ ~orphaned => memory[sdk] = store

=============================================================================
