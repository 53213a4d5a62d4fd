--------------------------- MODULE Browser_proofs ---------------------------
(***************************************************************************)
(* Proofs about the parts of the client that a page is made of:             *)
(* NetworkState, for any number of SDK objects and of changes of the        *)
(* network, and DemoApp, for any records, SDK objects, calls of sync() and  *)
(* bounds.                                                                  *)
(***************************************************************************)
EXTENDS NetworkState, DemoApp, TLAPS

-----------------------------------------------------------------------------
(* NetworkState. *)


\* The state of an SDK, its check and its timer; a check is only under way in an
\* SDK that was made, and an SDK that was not made has no timer.
Listening ==
    /\ navigatorOnline \in BOOLEAN
    /\ dispatches \in Seq(BOOLEAN)
    /\ toggles \in 0..MaxToggles
    /\ life \in [Sdks -> {"none", "live", "destroyed"}]
    /\ isOnline \in [Sdks -> BOOLEAN]
    /\ check \in [Sdks -> {"none", "sent", "answered", "failed"}]
    /\ syncTimer \in [Sdks -> BOOLEAN]

CheckedWasMade == \A s \in Sdks : check[s] # "none" => life[s] # "none"

NetworkIInv == Listening /\ CheckedWasMade /\ TimerFollowsNetwork

\* Whoever is told of a state of the network, timers follow: an SDK that is told
\* and was destroyed has no listener left to start its timer.
LEMMA SetOnlineKeepsTimers ==
    ASSUME Listening, TimerFollowsNetwork, NEW sdks \in SUBSET Sdks,
           NEW online \in BOOLEAN, SetOnline(sdks, online), UNCHANGED life
    PROVE  /\ isOnline' \in [Sdks -> BOOLEAN]
           /\ syncTimer' \in [Sdks -> BOOLEAN]
           /\ TimerFollowsNetwork'
<1> DEFINE changed == {s \in sdks : isOnline[s] # online}
<1>1. isOnline' = [s \in Sdks |-> IF s \in changed THEN online ELSE isOnline[s]]
  BY DEF SetOnline
<1>2. syncTimer' = [s \in Sdks |-> IF s \in changed \cap Live THEN online ELSE syncTimer[s]]
  BY DEF SetOnline, Notified
<1>3. isOnline' \in [Sdks -> BOOLEAN] /\ syncTimer' \in [Sdks -> BOOLEAN]
  BY <1>1, <1>2 DEF Listening
<1>4. ASSUME NEW s \in Sdks
      PROVE  syncTimer'[s] = (life'[s] = "live" /\ isOnline'[s])
  <2>1. syncTimer[s] = (life[s] = "live" /\ isOnline[s]) /\ life'[s] = life[s]
    BY DEF TimerFollowsNetwork
  <2>2. CASE s \in changed /\ life[s] = "live"
    <3>1. s \in Live
      BY <2>2 DEF Live
    <3>2. isOnline'[s] = online /\ syncTimer'[s] = online
      BY <1>1, <1>2, <2>2, <3>1
    <3>3. QED
      BY <2>1, <2>2, <3>2
  <2>3. CASE s \in changed /\ life[s] # "live"
    <3>1. s \notin Live
      BY <2>3 DEF Live
    <3>2. syncTimer'[s] = syncTimer[s]
      BY <1>2, <3>1
    <3>3. QED
      BY <2>1, <2>3, <3>2
  <2>4. CASE s \notin changed
    <3>1. isOnline'[s] = isOnline[s] /\ syncTimer'[s] = syncTimer[s]
      BY <1>1, <1>2, <2>4
    <3>2. QED
      BY <2>1, <3>1
  <2>5. QED
    BY <2>2, <2>3, <2>4
<1>5. QED
  BY <1>3, <1>4 DEF TimerFollowsNetwork

LEMMA NetworkInitEstablishes == NetworkInit => NetworkIInv
<1> SUFFICES ASSUME NetworkInit PROVE NetworkIInv
  OBVIOUS
<1>1. life \in [Sdks -> {"none", "live", "destroyed"}] /\ check \in [Sdks -> {"none", "sent", "answered", "failed"}]
  BY DEF NetworkInit
<1>2. isOnline \in [Sdks -> BOOLEAN] /\ syncTimer \in [Sdks -> BOOLEAN]
  BY DEF NetworkInit
<1>3. navigatorOnline \in BOOLEAN
  BY DEF NetworkInit
<1>4. dispatches \in Seq(BOOLEAN) /\ toggles \in 0..MaxToggles
  BY NetworkStateAssumption DEF NetworkInit
<1>5. Listening
  BY <1>1, <1>2, <1>3, <1>4 DEF Listening
<1>6. CheckedWasMade
  BY DEF NetworkInit, CheckedWasMade
<1>7. ASSUME NEW s \in Sdks PROVE syncTimer[s] = (life[s] = "live" /\ isOnline[s])
  <2>1. syncTimer[s] = FALSE /\ isOnline[s] = FALSE
    BY DEF NetworkInit
  <2>2. QED
    BY <2>1
<1>8. QED
  BY <1>5, <1>6, <1>7 DEF NetworkIInv, TimerFollowsNetwork

\* Actions that leave the network, the lives and the timers of the SDKs alone.
LEMMA CheckStep ==
    ASSUME NetworkIInv, NEW s \in Sdks, CheckAnswered(s) \/ CheckFails(s) \/ SendCheck(s)
    PROVE  NetworkIInv'
<1>1. /\ UNCHANGED <<navigatorOnline, dispatches, life, isOnline, syncTimer, toggles>>
      /\ life[s] # "none"
      /\ \E c \in {"sent", "answered", "failed"} : check' = [check EXCEPT ![s] = c]
  BY DEF CheckAnswered, CheckFails, SendCheck, NetworkIInv, CheckedWasMade
<1>2. Listening' /\ CheckedWasMade'
  BY <1>1 DEF NetworkIInv, Listening, CheckedWasMade
<1>3. TimerFollowsNetwork'
  BY <1>1 DEF NetworkIInv, TimerFollowsNetwork
<1>4. QED
  BY <1>2, <1>3 DEF NetworkIInv

LEMMA NetworkStepKeeps ==
    ASSUME NetworkIInv, [NetworkNext]_netVars
    PROVE  NetworkIInv'
<1>1. CASE NetworkChanges
  <2>1. Listening' /\ CheckedWasMade'
    BY <1>1, NetworkStateAssumption DEF NetworkChanges, NetworkIInv, Listening, CheckedWasMade
  <2>2. TimerFollowsNetwork'
    BY <1>1 DEF NetworkChanges, NetworkIInv, TimerFollowsNetwork
  <2>3. QED
    BY <2>1, <2>2 DEF NetworkIInv
<1>2. CASE DispatchEvent
  <2>1. Live \in SUBSET Sdks /\ Head(dispatches) \in BOOLEAN /\ Tail(dispatches) \in Seq(BOOLEAN)
    BY <1>2 DEF DispatchEvent, NetworkIInv, Listening, Live
  <2>2. /\ SetOnline(Live, Head(dispatches))
        /\ dispatches' = Tail(dispatches)
        /\ UNCHANGED <<navigatorOnline, life, check, toggles>>
    BY <1>2 DEF DispatchEvent
  <2>3. /\ isOnline' \in [Sdks -> BOOLEAN] /\ syncTimer' \in [Sdks -> BOOLEAN]
        /\ TimerFollowsNetwork'
    BY <2>1, <2>2, SetOnlineKeepsTimers DEF NetworkIInv
  <2>4. QED
    BY <2>1, <2>2, <2>3 DEF NetworkIInv, Listening, CheckedWasMade
<1>3. ASSUME NEW s \in Sdks, Construct(s)
      PROVE  NetworkIInv'
  BY <1>3 DEF Construct, NetworkIInv, Listening, CheckedWasMade, TimerFollowsNetwork
<1>4. ASSUME NEW s \in Sdks, CheckProgress(s)
      PROVE  NetworkIInv'
  <2>1. CASE CheckAnswered(s) \/ CheckFails(s) \/ SendCheck(s)
    BY <2>1, CheckStep
  <2>2. ASSUME NEW sdks \in SUBSET Sdks, NEW online \in BOOLEAN, SetOnline(sdks, online),
               check' = [check EXCEPT ![s] = "none"],
               UNCHANGED <<navigatorOnline, dispatches, life, toggles>>
        PROVE  NetworkIInv'
    <3>1. /\ isOnline' \in [Sdks -> BOOLEAN] /\ syncTimer' \in [Sdks -> BOOLEAN]
          /\ TimerFollowsNetwork'
      BY <2>2, SetOnlineKeepsTimers DEF NetworkIInv
    <3>2. QED
      BY <2>2, <3>1 DEF NetworkIInv, Listening, CheckedWasMade
  <2>3. CASE CheckSucceeded(s)
    BY <2>2, <2>3 DEF CheckSucceeded
  <2>4. CASE CheckFailed(s)
    <3>1. LostTo(s) \in SUBSET Sdks
      BY DEF LostTo
    <3>2. QED
      BY <2>2, <2>4, <3>1 DEF CheckFailed
  <2>5. QED
    BY <1>4, <2>1, <2>3, <2>4 DEF CheckProgress
<1>5. ASSUME NEW s \in Sdks, Destroy(s)
      PROVE  NetworkIInv'
  BY <1>5 DEF Destroy, NetworkIInv, Listening, CheckedWasMade, TimerFollowsNetwork
<1>6. CASE UNCHANGED netVars
  BY <1>6 DEF netVars, NetworkIInv, Listening, CheckedWasMade, TimerFollowsNetwork
<1>7. QED
  BY <1>1, <1>2, <1>3, <1>4, <1>5, <1>6 DEF NetworkNext

\* The variables of NetworkState have their types in every state.
THEOREM NetworkTypeCorrect == NetworkSpec => []NetworkTypeOK
<1>1. NetworkIInv => NetworkTypeOK
  BY DEF NetworkIInv, Listening, NetworkTypeOK
<1>2. QED
  BY NetworkInitEstablishes, NetworkStepKeeps, <1>1, PTL DEF NetworkSpec

\* The timer of the periodic sync (startPeriodicSync, stopPeriodicSync) is set
\* exactly while the SDK lives and believes it is online.
THEOREM TimerFollowsNetworkCorrect == NetworkSpec => []TimerFollowsNetwork
<1>1. NetworkIInv => TimerFollowsNetwork
  BY DEF NetworkIInv
<1>2. QED
  BY NetworkInitEstablishes, NetworkStepKeeps, <1>1, PTL DEF NetworkSpec


-----------------------------------------------------------------------------
(* DemoApp. *)

\* The board shows what its SDK has in memory, or something is under way after
\* which it is refreshed; an SDK that is offline is refreshed when it is not.
BoardFollows ==
    page = "board" =>
        \/ board = memory[sdk]
        \/ edit.step # "none" /\ edit.by = sdk
        \/ \E c \in Calls : syncs[c].by = sdk
        \/ ~sdkOnline[sdk]

\* Whatever is under way, the SDK of the board has in memory what is stored,
\* less what was overtaken.
MemoryFollows ==
    page = "board" /\ ~orphaned =>
        memory[sdk] \subseteq store /\ store \subseteq memory[sdk] \cup overtaken

\* A result about to be stored is that of a stored record, or was overtaken.
WritesKnown ==
    \A c \in Calls : syncs[c].step = "write" => syncs[c].rec \in store \cup overtaken

EditKnown == edit.step # "none" => edit.rec \in Recs /\ edit.kind # "none"

AppIInv ==
    /\ AppTypeOK
    /\ page # "login" => sdk \in Objects
    /\ BoardFollows
    /\ MemoryFollows
    /\ WritesKnown
    /\ EditKnown

LEMMA NoSyncTyped == NoSync \in SyncRows /\ NoSync.step = "none" /\ NoSync.by = NoObject
<1>1. Nothing \in Batches /\ [r \in Recs |-> "absent"] \in [Recs -> Remote]
  BY DEF Nothing, Batches, Remote
<1>2. QED
  BY <1>1 DEF NoSync, SyncRows

LEMMA AppInitEstablishes == AppInit => AppIInv
<1> SUFFICES ASSUME AppInit
             PROVE  AppIInv
  OBVIOUS
<1>1. AppTypeOK
  <2>1. NoEdit \in Edits
    BY DEF NoEdit, Edits
  <2>2. Nothing \in Batches /\ [r \in Recs |-> "absent"] \in [Recs -> Remote]
    BY DEF Nothing, Batches, Remote
  <2>3. used \in [edits : 0..MaxEdits, foreign : 0..MaxForeign]
    BY DemoAppAssumption DEF AppInit
  <2>4. /\ sdkOnline \in [Objects -> BOOLEAN]
        /\ memory \in [Objects -> SUBSET Recs]
        /\ syncs \in [Calls -> SyncRows]
    BY NoSyncTyped DEF AppInit
  <2>5. seen \in [Recs -> Remote] /\ server \in [Recs -> Remote]
    BY <2>2 DEF AppInit
  <2>6. QED
    BY <2>1, <2>2, <2>3, <2>4, <2>5 DEF AppInit, AppTypeOK
<1>2. \A c \in Calls : syncs[c].step # "write"
  BY NoSyncTyped DEF AppInit
<1>3. QED
  BY <1>1, <1>2 DEF AppInit, AppIInv, BoardFollows, MemoryFollows, WritesKnown, EditKnown, NoEdit

\* A call of sync() that begins has a place that was free.
LEMMA SyncBegun ==
    ASSUME AppTypeOK, NEW o \in Objects \cup {NoObject}, NEW batch \in Batches,
           NEW step \in {"push", "pull"}, NEW c \in Calls, syncs[c] = NoSync,
           syncs' = [syncs EXCEPT ![c] = [NoSync EXCEPT !.step = step, !.by = o, !.batch = batch]]
    PROVE  /\ syncs' \in [Calls -> SyncRows]
           /\ syncs'[c].by = o
           /\ \A d \in Calls : /\ syncs[d].by \in Objects => syncs'[d].by = syncs[d].by
                               /\ syncs'[d].step = "write" => syncs'[d] = syncs[d]
<1>1. PICK y : y = [NoSync EXCEPT !.step = step, !.by = o, !.batch = batch]
  OBVIOUS
<1>2. y \in SyncRows /\ y.by = o /\ y.step = step
  BY <1>1, NoSyncTyped DEF NoSync, SyncRows
<1>3. syncs' = [syncs EXCEPT ![c] = y]
  BY <1>1
<1>4. QED
  BY <1>2, <1>3, NoSyncTyped, DemoAppAssumption DEF AppTypeOK

LEMMA SyncBeginsOK ==
    ASSUME AppTypeOK, NEW o \in Objects \cup {NoObject}, SyncBegins(o)
    PROVE  /\ syncs' \in [Calls -> SyncRows]
           /\ \A d \in Calls : /\ syncs[d].by \in Objects => syncs'[d].by = syncs[d].by
                               /\ syncs'[d].step = "write" => syncs'[d] = syncs[d]
<1>1. CASE UNCHANGED syncs
  BY <1>1 DEF AppTypeOK
<1>2. CASE ~UNCHANGED syncs
  <2>1. PICK c \in Calls, step \in {"push", "pull"} :
          /\ syncs[c] = NoSync
          /\ syncs' = [syncs EXCEPT ![c] =
                [NoSync EXCEPT !.step = step, !.by = o, !.batch = pending]]
    BY <1>2 DEF SyncBegins
  <2>2. pending \in Batches
    BY DEF AppTypeOK
  <2>3. QED
    BY <2>1, <2>2, SyncBegun
<1>3. QED
  BY <1>1, <1>2

\* A call of sync() that goes on is that of the same object.
LEMMA SyncGoesOn ==
    ASSUME AppTypeOK, NEW c \in Calls, NEW y \in SyncRows, syncs' = [syncs EXCEPT ![c] = y]
    PROVE  /\ syncs' \in [Calls -> SyncRows]
           /\ \A d \in Calls \ {c} : syncs'[d] = syncs[d]
           /\ syncs'[c] = y
BY DEF AppTypeOK

LEMMA Counted ==
    ASSUME AppTypeOK
    PROVE  /\ used.edits < MaxEdits =>
                [used EXCEPT !.edits = @ + 1] \in [edits : 0..MaxEdits, foreign : 0..MaxForeign]
           /\ used.foreign < MaxForeign =>
                [used EXCEPT !.foreign = @ + 1] \in [edits : 0..MaxEdits, foreign : 0..MaxForeign]
BY DemoAppAssumption DEF AppTypeOK

-----------------------------------------------------------------------------
(* sync(). *)

LEMMA TimerSyncStep ==
    ASSUME AppIInv, TimerSync
    PROVE  AppIInv'
<1>1. AppTypeOK /\ sdk \in Objects
  BY DEF AppIInv, TimerSync
<1>2. /\ syncs' \in [Calls -> SyncRows]
      /\ \A d \in Calls : /\ syncs[d].by \in Objects => syncs'[d].by = syncs[d].by
                          /\ syncs'[d].step = "write" => syncs'[d] = syncs[d]
  BY <1>1, SyncBeginsOK DEF TimerSync
<1>3. UNCHANGED <<page, sdk, sdkOnline, memory, board, store, pending, seen, server, edit,
                  orphaned, overtaken, used>>
  BY DEF TimerSync, stored, histories
<1>4. AppTypeOK'
  BY <1>1, <1>2, <1>3 DEF AppTypeOK
<1>5. BoardFollows' /\ MemoryFollows'
  BY <1>1, <1>2, <1>3 DEF AppIInv, BoardFollows, MemoryFollows
<1>6. WritesKnown' /\ EditKnown'
  BY <1>2, <1>3 DEF AppIInv, WritesKnown, EditKnown
<1>7. QED
  BY <1>1, <1>3, <1>4, <1>5, <1>6 DEF AppIInv

\* The steps of a push and the answer to a pull: one call goes on, the server and
\* the queue may change, and what is stored is known.
LEMMA CallGoesOn ==
    ASSUME AppIInv, NEW c \in Calls, NEW y \in SyncRows, syncs' = [syncs EXCEPT ![c] = y],
           y.by = syncs[c].by, y.step = "write" => y.rec \in store,
           board' = board \/ \E event : board' = Refreshed(syncs[c].by, memory, event),
           store' = store \/ (syncs[c].step = "write" /\ store' = store \cup {syncs[c].rec}),
           pending' \in Batches, server' \in [Recs -> Remote],
           UNCHANGED <<page, sdk, sdkOnline, memory, seen, edit, orphaned, overtaken, used>>
    PROVE  AppIInv'
<1>1. AppTypeOK /\ WritesKnown
  BY DEF AppIInv
<1>2. /\ syncs' \in [Calls -> SyncRows]
      /\ \A d \in Calls \ {c} : syncs'[d] = syncs[d]
      /\ syncs'[c] = y
  BY <1>1, SyncGoesOn
<1>3. store \subseteq store' /\ store' \subseteq store \cup overtaken /\ store' \subseteq Recs
  BY <1>1 DEF WritesKnown, AppTypeOK
<1>4. board' \subseteq Recs
  BY <1>1 DEF AppTypeOK, AppIInv, Refreshed
<1>5. AppTypeOK'
  BY <1>1, <1>2, <1>3, <1>4 DEF AppTypeOK
<1>6. \A d \in Calls : syncs'[d].by = syncs[d].by
  BY <1>2
<1>7. BoardFollows'
  BY <1>6 DEF AppIInv, BoardFollows, Refreshed
<1>8. MemoryFollows'
  BY <1>3 DEF AppIInv, MemoryFollows
<1>9. WritesKnown'
  BY <1>1, <1>2, <1>3 DEF WritesKnown
<1>10. QED
  BY <1>5, <1>7, <1>8, <1>9 DEF AppIInv, EditKnown

LEMMA ServerProcessesStep ==
    ASSUME AppIInv, NEW c \in Calls, NEW r \in Recs, NEW kind \in Kinds,
           ServerProcesses(c, r, kind)
    PROVE  AppIInv'
<1>1. AppTypeOK
  BY DEF AppIInv
<1>2. PICK x \in SyncRows : x = syncs[c]
  BY <1>1 DEF AppTypeOK
<1>3. x.batch \in Batches /\ x.applied \in Batches /\ x.rejected \in Batches
  BY <1>2 DEF SyncRows
<1>4. /\ [x.batch EXCEPT ![r] = @ \ {kind}] \in Batches
      /\ [x.applied EXCEPT ![r] = @ \cup {kind}] \in Batches
      /\ [x.rejected EXCEPT ![r] = @ \cup {kind}] \in Batches
  BY <1>3 DEF Batches
<1>5. PICK y : /\ syncs' = [syncs EXCEPT ![c] = y]
               /\ \/ y = [x EXCEPT !.batch = [x.batch EXCEPT ![r] = @ \ {kind}],
                                   !.applied = [x.applied EXCEPT ![r] = @ \cup {kind}]]
                  \/ y = [x EXCEPT !.batch = [x.batch EXCEPT ![r] = @ \ {kind}],
                                   !.rejected = [x.rejected EXCEPT ![r] = @ \cup {kind}]]
                  \/ y = [x EXCEPT !.batch = [x.batch EXCEPT ![r] = @ \ {kind}]]
  BY <1>1, <1>2 DEF ServerProcesses, AppTypeOK, SyncRows
<1>6. y \in SyncRows /\ y.by = syncs[c].by /\ y.step # "write"
  BY <1>2, <1>4, <1>5 DEF SyncRows, ServerProcesses
<1>7. server' \in [Recs -> Remote]
  BY <1>1 DEF ServerProcesses, AppTypeOK, Effect, Remote, OnServer
<1>8. pending' \in Batches
  BY <1>1 DEF ServerProcesses, AppTypeOK, stored
<1>9. UNCHANGED <<page, sdk, sdkOnline, memory, board, store, seen, edit, orphaned, overtaken, used>>
  BY DEF ServerProcesses, stored, histories
<1>10. QED
  BY <1>5, <1>6, <1>7, <1>8, <1>9, CallGoesOn

LEMMA MarkAppliedStep ==
    ASSUME AppIInv, NEW c \in Calls, NEW r \in Recs, NEW kind \in Kinds,
           MarkApplied(c, r, kind)
    PROVE  AppIInv'
<1>1. AppTypeOK
  BY DEF AppIInv
<1>2. PICK x \in SyncRows : x = syncs[c]
  BY <1>1 DEF AppTypeOK
<1>3. [x.applied EXCEPT ![r] = @ \ {kind}] \in Batches
  BY <1>2 DEF SyncRows, Batches
<1>4. PICK y : /\ syncs' = [syncs EXCEPT ![c] = y]
               /\ y = [x EXCEPT !.applied = [x.applied EXCEPT ![r] = @ \ {kind}],
                                !.step = IF kind = "delete" THEN "push" ELSE "read",
                                !.rec = IF kind = "delete" THEN NoRec ELSE r]
  BY <1>1, <1>2 DEF MarkApplied, AppTypeOK, SyncRows
<1>5. y \in SyncRows /\ y.by = syncs[c].by /\ y.step # "write"
  BY <1>2, <1>3, <1>4 DEF SyncRows
<1>6. server' \in [Recs -> Remote] /\ pending' \in Batches
  BY <1>1 DEF MarkApplied, AppTypeOK, Batches
<1>7. UNCHANGED <<page, sdk, sdkOnline, memory, board, store, seen, edit, orphaned, overtaken, used>>
  BY DEF MarkApplied, histories
<1>8. QED
  BY <1>4, <1>5, <1>6, <1>7, CallGoesOn

LEMMA MeetConflictStep ==
    ASSUME AppIInv, NEW c \in Calls, NEW r \in Recs, NEW kind \in Kinds,
           MeetConflict(c, r, kind)
    PROVE  AppIInv'
<1>1. AppTypeOK
  BY DEF AppIInv
<1>2. PICK x \in SyncRows : x = syncs[c]
  BY <1>1 DEF AppTypeOK
<1>3. [x.rejected EXCEPT ![r] = @ \ {kind}] \in Batches
  BY <1>2 DEF SyncRows, Batches
<1>4. PICK y : /\ syncs' = [syncs EXCEPT ![c] = y]
               /\ y = [x EXCEPT !.rejected = [x.rejected EXCEPT ![r] = @ \ {kind}],
                                !.step = "read", !.rec = r, !.dropped = {kind}]
  BY <1>1, <1>2 DEF MeetConflict, AppTypeOK, SyncRows
<1>5. y \in SyncRows /\ y.by = syncs[c].by /\ y.step # "write"
  BY <1>2, <1>3, <1>4 DEF SyncRows
<1>6. server' \in [Recs -> Remote] /\ pending' \in Batches
  BY <1>1 DEF MeetConflict, AppTypeOK, stored
<1>7. /\ \E event : board' = Refreshed(syncs[c].by, memory, event)
      /\ UNCHANGED <<page, sdk, sdkOnline, memory, store, seen, edit, orphaned, overtaken, used>>
  BY DEF MeetConflict, stored, histories
<1>8. QED
  BY <1>4, <1>5, <1>6, <1>7, CallGoesOn

LEMMA HandledTyped ==
    ASSUME AppTypeOK, NEW c \in Calls
    PROVE  Handled(c) \in SyncRows /\ Handled(c).by = syncs[c].by /\ Handled(c).step # "write"
<1>1. PICK x \in SyncRows : x = syncs[c]
  BY DEF AppTypeOK
<1>2. QED
  BY <1>1 DEF Handled, SyncRows

\* getRecord and upsertRecord: what is about to be stored was found, and what is
\* stored was found or overtaken.
LEMMA ConfirmStep ==
    ASSUME AppIInv, NEW c \in Calls, ReadRecord(c) \/ WriteRecord(c)
    PROVE  AppIInv'
<1>1. AppTypeOK
  BY DEF AppIInv
<1>2. PICK x \in SyncRows : x = syncs[c]
  BY <1>1 DEF AppTypeOK
<1>3. PICK y : /\ syncs' = [syncs EXCEPT ![c] = y]
               /\ \/ y = Handled(c)
                  \/ y = [x EXCEPT !.step = "write"] /\ x.rec \in store
  BY <1>1, <1>2 DEF ReadRecord, WriteRecord, AppTypeOK
<1>4. y \in SyncRows /\ y.by = syncs[c].by /\ (y.step = "write" => y.rec \in store)
  BY <1>1, <1>2, <1>3, HandledTyped DEF SyncRows
<1>5. server' \in [Recs -> Remote] /\ pending' \in Batches
  BY <1>1 DEF ReadRecord, WriteRecord, AppTypeOK, stored
<1>6. store' = store \/ (syncs[c].step = "write" /\ store' = store \cup {syncs[c].rec})
  BY DEF ReadRecord, WriteRecord, stored
<1>7. UNCHANGED <<page, sdk, sdkOnline, memory, board, seen, edit, orphaned, overtaken, used>>
  BY DEF ReadRecord, WriteRecord, stored, histories
<1>8. QED
  BY <1>3, <1>4, <1>5, <1>6, <1>7, CallGoesOn

LEMMA PushEndsStep ==
    ASSUME AppIInv, NEW c \in Calls, DropRejected(c) \/ PushDone(c)
    PROVE  AppIInv'
<1>1. AppTypeOK
  BY DEF AppIInv
<1>2. PICK x \in SyncRows : x = syncs[c]
  BY <1>1 DEF AppTypeOK
<1>3. PICK y : /\ syncs' = [syncs EXCEPT ![c] = y]
               /\ \/ y = [x EXCEPT !.step = "push", !.rec = NoRec, !.dropped = {}]
                  \/ y = [x EXCEPT !.step = "pull"]
  BY <1>1, <1>2 DEF DropRejected, PushDone, AppTypeOK
<1>4. y \in SyncRows /\ y.by = syncs[c].by /\ y.step # "write"
  BY <1>2, <1>3 DEF SyncRows
<1>5. pending' \in Batches
  BY <1>1 DEF DropRejected, PushDone, AppTypeOK, Batches, stored
<1>6. server' \in [Recs -> Remote]
  BY <1>1 DEF DropRejected, PushDone, AppTypeOK
<1>7. UNCHANGED <<page, sdk, sdkOnline, memory, board, store, seen, edit, orphaned, overtaken, used>>
  BY DEF DropRejected, PushDone, stored, histories
<1>8. QED
  BY <1>3, <1>4, <1>5, <1>6, <1>7, CallGoesOn

LEMMA PullAnsweredStep ==
    ASSUME AppIInv, NEW c \in Calls, PullAnswered(c)
    PROVE  AppIInv'
<1>1. AppTypeOK
  BY DEF AppIInv
<1>2. PICK x \in SyncRows : x = syncs[c]
  BY <1>1 DEF AppTypeOK
<1>3. PICK todo \in SUBSET Recs, gone \in SUBSET Recs :
        syncs' = [syncs EXCEPT ![c].step = "apply", ![c].got = server,
                               ![c].todo = todo, ![c].gone = gone]
  BY DEF PullAnswered
<1>4. PICK y : /\ syncs' = [syncs EXCEPT ![c] = y]
               /\ y = [x EXCEPT !.step = "apply", !.got = server, !.todo = todo, !.gone = gone]
  BY <1>1, <1>2, <1>3 DEF AppTypeOK
<1>5. y \in SyncRows /\ y.by = syncs[c].by /\ y.step # "write"
  BY <1>1, <1>2, <1>4 DEF SyncRows, AppTypeOK
<1>6. server' \in [Recs -> Remote] /\ pending' \in Batches
  BY <1>1 DEF PullAnswered, AppTypeOK, stored
<1>7. UNCHANGED <<page, sdk, sdkOnline, memory, board, store, seen, edit, orphaned, overtaken, used>>
  BY DEF PullAnswered, stored, histories
<1>8. QED
  BY <1>4, <1>5, <1>6, <1>7, CallGoesOn

\* What the SDK of the board stores or removes it has, or has not, in memory;
\* another one orphans it.  A record that is removed is overtaken by the results
\* about to be stored of it.
LEMMA Kept ==
    ASSUME AppIInv, NEW o \in Objects \cup {NoObject}, NEW r \in Recs, NEW there \in BOOLEAN,
           Keep(o, r, there), UNCHANGED <<page, sdk>>,
           \A d \in Calls : syncs'[d].step = "write" => syncs'[d] = syncs[d]
    PROVE  /\ memory' \in [Objects -> SUBSET Recs] /\ store' \subseteq Recs
           /\ orphaned' \in BOOLEAN /\ overtaken' \subseteq Recs
           /\ o # sdk /\ sdk \in Objects => memory'[sdk] = memory[sdk]
           /\ MemoryFollows' /\ WritesKnown'
<1>1. AppTypeOK
  BY DEF AppIInv
<1>2. /\ store' = IF there THEN store \cup {r} ELSE store \ {r}
      /\ memory' = [memory EXCEPT ![o] = IF there THEN @ \cup {r} ELSE @ \ {r}]
      /\ orphaned' = (orphaned \/ (page = "board" /\ o # sdk))
      /\ overtaken' = IF ~there /\ Confirming(r) THEN overtaken \cup {r}
                      ELSE IF o = sdk THEN overtaken \ {r} ELSE overtaken
  BY DEF Keep, Remembered, Orphans, Overtaken
<1>3. memory' \in [Objects -> SUBSET Recs] /\ store' \subseteq Recs
  BY <1>1, <1>2 DEF AppTypeOK
<1>4. orphaned' \in BOOLEAN /\ overtaken' \subseteq Recs
  BY <1>1, <1>2 DEF AppTypeOK
<1>5. o # sdk /\ sdk \in Objects => memory'[sdk] = memory[sdk]
  BY <1>1, <1>2 DEF AppTypeOK
<1>6. MemoryFollows'
  <2> SUFFICES ASSUME page = "board", ~orphaned'
               PROVE  memory'[sdk] \subseteq store' /\ store' \subseteq memory'[sdk] \cup overtaken'
    BY DEF MemoryFollows
  <2>1. o = sdk /\ sdk \in Objects /\ ~orphaned
    BY <1>1, <1>2 DEF AppIInv, AppTypeOK
  <2>2. memory[sdk] \subseteq store /\ store \subseteq memory[sdk] \cup overtaken
    BY <2>1 DEF AppIInv, MemoryFollows
  <2>3. memory'[sdk] = IF there THEN memory[sdk] \cup {r} ELSE memory[sdk] \ {r}
    BY <1>1, <1>2, <2>1 DEF AppTypeOK
  <2>4. overtaken \ {r} \subseteq overtaken'
    BY <1>2
  <2>5. CASE there
    BY <1>2, <2>2, <2>3, <2>4, <2>5
  <2>6. CASE ~there
    BY <1>2, <2>2, <2>3, <2>4, <2>6
  <2>7. QED
    BY <2>5, <2>6
<1>7. WritesKnown'
  <2> SUFFICES ASSUME NEW d \in Calls, syncs'[d].step = "write"
               PROVE  syncs'[d].rec \in store' \cup overtaken'
    BY DEF WritesKnown
  <2>1. syncs'[d] = syncs[d] /\ syncs[d].rec \in store \cup overtaken
    BY DEF AppIInv, WritesKnown
  <2>2. CASE syncs[d].rec = r
    <3>1. Confirming(r)
      BY <2>1, <2>2 DEF Confirming
    <3>2. QED
      BY <1>2, <2>1, <2>2, <3>1
  <2>3. CASE syncs[d].rec # r
    BY <1>2, <2>1, <2>3
  <2>4. QED
    BY <2>2, <2>3
<1>8. QED
  BY <1>3, <1>4, <1>5, <1>6, <1>7

LEMMA ApplyPulledStep ==
    ASSUME AppIInv, NEW c \in Calls, NEW r \in Recs, ApplyPulled(c, r)
    PROVE  AppIInv'
<1>1. AppTypeOK
  BY DEF AppIInv
<1>2. PICK x \in SyncRows : x = syncs[c]
  BY <1>1 DEF AppTypeOK
<1>3. PICK there \in BOOLEAN : Keep(syncs[c].by, r, there)
  BY DEF ApplyPulled
<1>4. PICK y : /\ syncs' = [syncs EXCEPT ![c] = y]
               /\ y = [x EXCEPT !.todo = @ \ {r}] \/ y = [x EXCEPT !.gone = @ \ {r}]
  BY <1>1, <1>2 DEF ApplyPulled, AppTypeOK
<1>5. y \in SyncRows /\ y.by = syncs[c].by /\ y.step # "write"
  BY <1>2, <1>4 DEF SyncRows, ApplyPulled
<1>6. /\ syncs' \in [Calls -> SyncRows]
      /\ \A d \in Calls : /\ syncs'[d].by = syncs[d].by
                          /\ syncs'[d].step = "write" => syncs'[d] = syncs[d]
  BY <1>1, <1>4, <1>5, SyncGoesOn
<1>7. UNCHANGED <<page, sdk, sdkOnline, board, pending, seen, server, edit, used>>
  BY DEF ApplyPulled
<1>8. PICK o \in Objects \cup {NoObject} : o = syncs[c].by
  BY <1>2 DEF SyncRows
<1>9. /\ memory' \in [Objects -> SUBSET Recs] /\ store' \subseteq Recs
      /\ orphaned' \in BOOLEAN /\ overtaken' \subseteq Recs
      /\ o # sdk /\ sdk \in Objects => memory'[sdk] = memory[sdk]
      /\ MemoryFollows' /\ WritesKnown'
  BY <1>3, <1>6, <1>7, <1>8, Kept
<1>10. AppTypeOK'
  BY <1>1, <1>6, <1>7, <1>9 DEF AppTypeOK
<1>11. BoardFollows'
  BY <1>6, <1>7, <1>8, <1>9 DEF AppIInv, BoardFollows
<1>12. QED
  BY <1>7, <1>9, <1>10, <1>11 DEF AppIInv, EditKnown

\* A call that ends has refreshed the board of its SDK.
LEMMA SyncEndsStep ==
    ASSUME AppIInv, NEW c \in Calls, SyncCompletes(c) \/ SyncFails(c)
    PROVE  AppIInv'
<1>1. AppTypeOK
  BY DEF AppIInv
<1>2. PICK event : board' = Refreshed(syncs[c].by, memory, event)
  BY DEF SyncCompletes, SyncFails
<1>3. NoSync \in SyncRows /\ NoSync.step # "write" /\ syncs' = [syncs EXCEPT ![c] = NoSync]
  BY NoSyncTyped DEF SyncCompletes, SyncFails
<1>4. /\ syncs' \in [Calls -> SyncRows]
      /\ \A d \in Calls \ {c} : syncs'[d] = syncs[d]
      /\ syncs'[c].step # "write"
  BY <1>1, <1>3, SyncGoesOn
<1>5. UNCHANGED <<page, sdk, sdkOnline, memory, store, pending, server, edit, orphaned,
                  overtaken, used>>
  BY DEF SyncCompletes, SyncFails, stored, histories
<1>6. board' \subseteq Recs
  BY <1>1, <1>2 DEF AppTypeOK, AppIInv, Refreshed
<1>7. seen' \in [Recs -> Remote]
  BY <1>1 DEF AppTypeOK, SyncRows, SyncCompletes, SyncFails, stored
<1>8. AppTypeOK'
  BY <1>1, <1>4, <1>5, <1>6, <1>7 DEF AppTypeOK
<1>9. BoardFollows'
  <2>1. CASE syncs[c].by = sdk
    BY <1>2, <1>5, <2>1 DEF BoardFollows, Refreshed
  <2>2. CASE syncs[c].by # sdk
    BY <1>2, <1>4, <1>5, <2>2 DEF AppIInv, BoardFollows, Refreshed
  <2>3. QED
    BY <2>1, <2>2
<1>10. MemoryFollows' /\ WritesKnown' /\ EditKnown'
  BY <1>4, <1>5 DEF AppIInv, MemoryFollows, WritesKnown, EditKnown
<1>11. QED
  BY <1>5, <1>8, <1>9, <1>10 DEF AppIInv

-----------------------------------------------------------------------------
(* SdkProvider and App. *)

LEMMA PageChangesStep ==
    ASSUME AppIInv,
           \/ \E o \in Objects, online \in BOOLEAN : MountProvider(o, online)
           \/ Logout \/ ReloadPage
    PROVE  AppIInv'
<1>1. AppTypeOK
  BY DEF AppIInv
<1>2. CASE \E o \in Objects, online \in BOOLEAN : MountProvider(o, online)
  <2>1. AppTypeOK'
    BY <1>1, <1>2 DEF AppTypeOK, MountProvider, stored, histories
  <2>2. UNCHANGED <<store, edit, syncs, overtaken>> /\ page' = "loading" /\ sdk' \in Objects
    BY <1>2 DEF MountProvider, stored, histories
  <2>3. QED
    BY <2>1, <2>2 DEF AppIInv, BoardFollows, MemoryFollows, WritesKnown, EditKnown
<1>3. CASE Logout
  <2>1. AppTypeOK'
    BY <1>1, <1>3 DEF AppTypeOK, Logout, stored
  <2>2. UNCHANGED <<store, edit, syncs, overtaken>> /\ page' = "login"
    BY <1>3 DEF Logout, stored
  <2>3. QED
    BY <2>1, <2>2 DEF AppIInv, BoardFollows, MemoryFollows, WritesKnown, EditKnown
<1>4. CASE ReloadPage
  <2>1. NoEdit \in Edits /\ NoEdit.step = "none"
    BY DEF NoEdit, Edits
  <2>2. AppTypeOK'
    BY <1>1, <1>4, <2>1, NoSyncTyped DEF AppTypeOK, ReloadPage, stored
  <2>3. page' = "login" /\ edit' = NoEdit /\ \A c \in Calls : syncs'[c].step # "write"
    BY <1>4, NoSyncTyped DEF ReloadPage
  <2>4. QED
    BY <2>1, <2>2, <2>3 DEF AppIInv, BoardFollows, MemoryFollows, WritesKnown, EditKnown
<1>5. QED
  BY <1>2, <1>3, <1>4

\* The board is that of the store, or the sample jobs are being stored.
LEMMA ReadyStep ==
    ASSUME AppIInv, NEW r \in Recs, Ready(r)
    PROVE  AppIInv'
<1>1. AppTypeOK /\ sdk \in Objects
  BY DEF AppIInv, Ready
<1>2. /\ syncs' \in [Calls -> SyncRows]
      /\ \A d \in Calls : syncs'[d].step = "write" => syncs'[d] = syncs[d]
  BY <1>1, SyncBeginsOK DEF Ready
<1>3. \/ /\ edit' = [step |-> "queue", kind |-> "seed", rec |-> r, by |-> sdk]
         /\ store' = {r} /\ store = {}
      \/ UNCHANGED <<edit, store>>
  BY DEF Ready, Seed
<1>4. edit' \in Edits /\ store' \subseteq Recs
  BY <1>1, <1>3 DEF AppTypeOK, Edits
<1>5. memory' \in [Objects -> SUBSET Recs] /\ memory'[sdk] = store'
  BY <1>1, <1>4 DEF AppTypeOK, Ready
<1>6. overtaken' = {q \in overtaken : Confirming(q)}
  BY DEF Ready
<1>7. AppTypeOK'
  BY <1>1, <1>2, <1>4, <1>5, <1>6 DEF AppTypeOK, Ready
<1>8. BoardFollows' /\ MemoryFollows'
  BY <1>3, <1>5 DEF BoardFollows, MemoryFollows, Ready
<1>9. WritesKnown'
  <2> SUFFICES ASSUME NEW d \in Calls, syncs'[d].step = "write"
               PROVE  syncs'[d].rec \in store' \cup overtaken'
    BY DEF WritesKnown
  <2>1. syncs'[d] = syncs[d] /\ syncs[d].rec \in store \cup overtaken
    BY <1>2 DEF AppIInv, WritesKnown
  <2>2. Confirming(syncs[d].rec)
    BY <2>1 DEF Confirming
  <2>3. store \subseteq store'
    BY <1>3
  <2>4. QED
    BY <1>6, <2>1, <2>2, <2>3
<1>10. EditKnown'
  BY <1>3 DEF AppIInv, EditKnown
<1>11. QED
  BY <1>1, <1>7, <1>8, <1>9, <1>10 DEF AppIInv, Ready

LEMMA NetworkSwitchesStep ==
    ASSUME AppIInv, NetworkSwitches
    PROVE  AppIInv'
<1>1. AppTypeOK /\ sdk \in Objects
  BY DEF AppIInv, NetworkSwitches
<1>2. /\ syncs' \in [Calls -> SyncRows]
      /\ \A d \in Calls : syncs'[d].step = "write" => syncs'[d] = syncs[d]
  <2>1. CASE UNCHANGED syncs
    BY <1>1, <2>1 DEF AppTypeOK
  <2>2. CASE ~UNCHANGED syncs
    <3>1. PICK c \in Calls, step \in {"push", "pull"} :
            /\ syncs[c] = NoSync
            /\ syncs' = [syncs EXCEPT ![c] =
                  [NoSync EXCEPT !.step = step, !.by = sdk, !.batch = pending]]
      BY <2>2 DEF NetworkSwitches
    <3>2. pending \in Batches
      BY <1>1 DEF AppTypeOK
    <3>3. QED
      BY <1>1, <3>1, <3>2, SyncBegun
  <2>3. QED
    BY <2>1, <2>2
<1>3. board' = Refreshed(sdk, memory, "network")
  BY DEF NetworkSwitches
<1>4. board' \subseteq Recs
  BY <1>1, <1>3 DEF AppTypeOK, Refreshed
<1>5. sdkOnline' \in [Objects -> BOOLEAN]
  BY <1>1 DEF AppTypeOK, NetworkSwitches
<1>6. UNCHANGED <<page, sdk, memory, store, pending, seen, server, edit, orphaned, overtaken, used>>
  BY DEF NetworkSwitches, stored, histories
<1>7. AppTypeOK'
  BY <1>1, <1>2, <1>4, <1>5, <1>6 DEF AppTypeOK
<1>8. BoardFollows'
  BY <1>3, <1>6 DEF BoardFollows, Refreshed
<1>9. MemoryFollows' /\ WritesKnown' /\ EditKnown'
  BY <1>2, <1>6 DEF AppIInv, MemoryFollows, WritesKnown, EditKnown
<1>10. QED
  BY <1>1, <1>6, <1>7, <1>8, <1>9 DEF AppIInv

-----------------------------------------------------------------------------
(* NewJobForm and JobDetail. *)

LEMMA BeginEditStep ==
    ASSUME AppIInv, NEW r \in Recs, NEW kind \in Kinds, BeginEdit(kind, r)
    PROVE  AppIInv'
<1>1. AppTypeOK /\ sdk \in Objects
  BY DEF AppIInv, BeginEdit
<1>2. UNCHANGED <<page, sdk, sdkOnline, memory, board, store, pending, seen, server, syncs,
                  orphaned, overtaken>>
  BY DEF BeginEdit, stored, histories
<1>3. edit' = [step |-> "write", kind |-> kind, rec |-> r, by |-> sdk] /\ edit = NoEdit
  BY DEF BeginEdit
<1>4. edit' \in Edits
  BY <1>1, <1>3 DEF Edits
<1>5. AppTypeOK'
  BY <1>1, <1>2, <1>4, Counted DEF AppTypeOK, BeginEdit
<1>6. BoardFollows' /\ MemoryFollows' /\ WritesKnown' /\ EditKnown'
  BY <1>2, <1>3 DEF AppIInv, BoardFollows, MemoryFollows, WritesKnown, EditKnown, NoEdit, Kinds
<1>7. QED
  BY <1>1, <1>2, <1>5, <1>6 DEF AppIInv

LEMMA EditStoredStep ==
    ASSUME AppIInv, EditStored
    PROVE  AppIInv'
<1>1. AppTypeOK
  BY DEF AppIInv
<1>2. PICK e \in Edits : e = edit
  BY <1>1 DEF AppTypeOK
<1>3. edit.rec \in Recs /\ edit.by \in Objects \cup {NoObject} /\ edit.step = "write"
  BY <1>2 DEF AppIInv, EditKnown, EditStored, Edits
<1>4. UNCHANGED <<page, sdk, sdkOnline, board, pending, seen, server, syncs, used>>
  BY DEF EditStored
<1>5. PICK there \in BOOLEAN : Keep(edit.by, edit.rec, there)
  BY DEF EditStored
<1>6. /\ memory' \in [Objects -> SUBSET Recs] /\ store' \subseteq Recs
      /\ orphaned' \in BOOLEAN /\ overtaken' \subseteq Recs
      /\ edit.by # sdk /\ sdk \in Objects => memory'[sdk] = memory[sdk]
      /\ MemoryFollows' /\ WritesKnown'
  BY <1>3, <1>4, <1>5, Kept
<1>7. edit' = [e EXCEPT !.step = "queue"]
  BY <1>2 DEF EditStored
<1>8. /\ edit' \in Edits /\ edit'.step = "queue"
      /\ edit'.by = edit.by /\ edit'.rec = edit.rec /\ edit'.kind = edit.kind
  BY <1>2, <1>7 DEF Edits
<1>9. AppTypeOK'
  BY <1>1, <1>4, <1>6, <1>8 DEF AppTypeOK
<1>10. BoardFollows'
  BY <1>4, <1>6, <1>8 DEF AppIInv, BoardFollows
<1>11. EditKnown'
  BY <1>3, <1>8 DEF AppIInv, EditKnown
<1>12. QED
  BY <1>4, <1>6, <1>9, <1>10, <1>11 DEF AppIInv

\* After an edit the board is refreshed, or a call of sync() is to do it, or
\* there is no network for one.
LEMMA EditQueuedStep ==
    ASSUME AppIInv, EditQueued
    PROVE  AppIInv'
<1>1. AppTypeOK /\ edit.by \in Objects \cup {NoObject}
  BY DEF AppIInv, AppTypeOK, Edits
<1>2. pending' \in Batches
  <2>1. PICK kind \in Kinds : pending' = [pending EXCEPT ![edit.rec] = @ \cup {kind}]
    <3>1. PICK e \in Edits : e = edit
      BY <1>1 DEF AppTypeOK
    <3>2. edit.kind \in {"none", "seed"} \cup Kinds
      BY <3>1 DEF Edits
    <3>3. edit.kind # "none"
      BY DEF AppIInv, EditKnown, EditQueued
    <3>4. QED
      BY <3>2, <3>3 DEF EditQueued, Kinds
  <2>2. QED
    BY <1>1, <2>1 DEF AppTypeOK, Batches
<1>3. /\ syncs' \in [Calls -> SyncRows]
      /\ \A d \in Calls : /\ syncs[d].by \in Objects => syncs'[d].by = syncs[d].by
                          /\ syncs'[d].step = "write" => syncs'[d] = syncs[d]
      /\ sdkOnline[edit.by] => \E c \in Calls : syncs'[c].by = edit.by
  <2>1. CASE ~sdkOnline[edit.by]
    BY <1>1, <2>1 DEF EditQueued, AppTypeOK
  <2>2. CASE sdkOnline[edit.by]
    <3>1. PICK c \in Calls :
            /\ syncs[c] = NoSync
            /\ syncs' = [syncs EXCEPT ![c] =
                  [NoSync EXCEPT !.step = "push", !.by = edit.by, !.batch = pending']]
      BY <2>2 DEF EditQueued
    <3>2. PICK batch \in Batches, o \in Objects \cup {NoObject} :
            batch = pending' /\ o = edit.by
      BY <1>1, <1>2
    <3>3. QED
      BY <1>1, <3>1, <3>2, SyncBegun
  <2>3. QED
    BY <2>1, <2>2
<1>4. board' = board \/ board' = Refreshed(edit.by, memory, "handler")
  BY DEF EditQueued
<1>5. board' \subseteq Recs
  BY <1>1, <1>4 DEF AppTypeOK, AppIInv, Refreshed
<1>6. UNCHANGED <<page, sdk, sdkOnline, memory, store, seen, server, orphaned, overtaken, used>>
  BY DEF EditQueued, histories
<1>7. edit' = NoEdit /\ NoEdit \in Edits /\ NoEdit.step = "none"
  BY DEF NoEdit, Edits, EditQueued
<1>8. AppTypeOK'
  BY <1>1, <1>2, <1>3, <1>5, <1>6, <1>7 DEF AppTypeOK
<1>9. BoardFollows'
  <2>1. CASE edit.by = sdk
    BY <1>3, <1>6, <2>1 DEF BoardFollows, EditQueued, Refreshed
  <2>2. CASE edit.by # sdk
    <3>1. board' = board
      BY <1>4, <2>2 DEF Refreshed
    <3>2. QED
      BY <1>3, <1>6, <2>2, <3>1 DEF AppIInv, BoardFollows
  <2>3. QED
    BY <2>1, <2>2
<1>10. MemoryFollows' /\ WritesKnown' /\ EditKnown'
  BY <1>3, <1>6, <1>7 DEF AppIInv, MemoryFollows, WritesKnown, EditKnown
<1>11. QED
  BY <1>6, <1>8, <1>9, <1>10 DEF AppIInv

LEMMA ForeignChangeStep ==
    ASSUME AppIInv, NEW r \in Recs, ForeignChange(r)
    PROVE  AppIInv'
<1>1. AppTypeOK
  BY DEF AppIInv
<1>2. PICK kind \in Kinds : server' = [server EXCEPT ![r] = Effect(kind, @)]
  BY DEF ForeignChange
<1>3. server' \in [Recs -> Remote]
  BY <1>1, <1>2 DEF AppTypeOK, Effect, Remote
<1>4. UNCHANGED <<page, sdk, sdkOnline, memory, board, store, pending, seen, edit, syncs,
                  orphaned, overtaken>>
  BY DEF ForeignChange, stored, histories
<1>5. AppTypeOK'
  BY <1>1, <1>3, <1>4, Counted DEF AppTypeOK, ForeignChange
<1>6. QED
  BY <1>4, <1>5 DEF AppIInv, BoardFollows, MemoryFollows, WritesKnown, EditKnown

-----------------------------------------------------------------------------

LEMMA CallStep ==
    ASSUME AppIInv, NEW c \in Calls,
           \/ \E r \in Recs, kind \in Kinds : ServerProcesses(c, r, kind)
           \/ HandleResult(c) \/ PullAnswered(c) \/ SyncCompletes(c) \/ SyncFails(c)
           \/ \E r \in Recs : ApplyPulled(c, r)
    PROVE  AppIInv'
BY ServerProcessesStep, MarkAppliedStep, MeetConflictStep, ConfirmStep, PushEndsStep,
   PullAnsweredStep, ApplyPulledStep, SyncEndsStep
DEF HandleResult

LEMMA AppStepKeeps == AppIInv /\ [AppNext]_appVars => AppIInv'
<1> SUFFICES ASSUME AppIInv, [AppNext]_appVars
             PROVE  AppIInv'
  OBVIOUS
<1>1. CASE AppNext
  BY <1>1, CallStep, TimerSyncStep, PageChangesStep, ReadyStep, NetworkSwitchesStep,
     BeginEditStep, EditStoredStep, EditQueuedStep, ForeignChangeStep
  DEF AppNext
<1>2. CASE UNCHANGED appVars
  BY <1>2 DEF appVars, AppIInv, AppTypeOK, BoardFollows, MemoryFollows, WritesKnown, EditKnown
<1>3. QED
  BY <1>1, <1>2

\* What the two theorems below rest on holds in every state.
THEOREM AppInvariant == AppSpec => []AppIInv
BY AppInitEstablishes, AppStepKeeps, PTL DEF AppSpec

\* The page, the SDK objects, IndexedDB and the calls are well typed.
THEOREM AppTypeCorrect == AppSpec => []AppTypeOK
<1>1. AppIInv => AppTypeOK
  BY DEF AppIInv
<1>2. QED
  BY <1>1, AppInvariant, PTL

\* With no call under way the board of a client that is online shows what its
\* SDK holds, whatever the refresh handlers of JobsPage (JobsPage.tsx:50) leave
\* to the events of sync(), through logins, reloads and losses of the network.
\* What it holds is stored, and what is stored besides has been stored again by
\* the results of a push, which write to IndexedDB only (syncra-sdk.ts:533-543),
\* unless a replaced SDK has gone on writing.
THEOREM BoardShowsStoreCorrect == AppSpec => []BoardShowsStore
<1>1. AppIInv => BoardShowsStore
  BY DEF AppIInv, BoardFollows, MemoryFollows, BoardShowsStore, AtRest, NoEdit
<1>2. QED
  BY <1>1, AppInvariant, PTL

=============================================================================
