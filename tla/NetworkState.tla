---------------------------- MODULE NetworkState ----------------------------
(***************************************************************************)
(* What a client believes of its network: NetworkStateManager              *)
(* (src/apps/sdk/src/network-state-manager.ts) and the part of SyncraSDK    *)
(* that listens to it and keeps the timer of the periodic sync              *)
(* (src/apps/sdk/src/syncra-sdk.ts).                                        *)
(*                                                                          *)
(* The browser says whether it is online at once in navigator.onLine, and   *)
(* later by an event.  A health check is answered or fails, and the code    *)
(* after its await runs later still.  One action is one task of the event   *)
(* loop.                                                                    *)
(*                                                                          *)
(* Covered: events, health checks in flight across changes of the network,  *)
(* SDK objects that are destroyed with checks in flight and replaced.       *)
(* Not covered: two checks of one SDK in flight at once; options that turn  *)
(* the check or the timer off; what the timer and sync() do (SdkClient).    *)
(***************************************************************************)
EXTENDS Integers, Sequences

CONSTANTS
    Sdks,       \* SDK objects the page creates
    MaxToggles  \* bound on the changes of the network

ASSUME NetworkStateAssumption == MaxToggles \in Nat

VARIABLES
    navigatorOnline, \* navigator.onLine
    dispatches,      \* online and offline events not dispatched yet
    life,            \* of an SDK: "none", "live" or "destroyed"
    isOnline,        \* _isOnline of its manager, and isOnline of the SDK
    check,           \* its health check
    syncTimer,       \* syncIntervalId is set
    toggles          \* changes of the network so far, to bound the model

netVars == <<navigatorOnline, dispatches, life, isOnline, check, syncTimer, toggles>>

Live == {s \in Sdks : life[s] = "live"}

\* Type invariant: the browser's signal and the fields of the SDK objects.
NetworkTypeOK ==
    /\ navigatorOnline \in BOOLEAN
    /\ dispatches \in Seq(BOOLEAN)
    /\ life \in [Sdks -> {"none", "live", "destroyed"}]
    /\ isOnline \in [Sdks -> BOOLEAN]
    /\ check \in [Sdks -> {"none", "sent", "answered", "failed"}]
    /\ syncTimer \in [Sdks -> BOOLEAN]
    /\ toggles \in 0..MaxToggles

NetworkInit ==
    /\ navigatorOnline \in BOOLEAN
    /\ dispatches = <<>>
    /\ life = [s \in Sdks |-> "none"]
    /\ isOnline = [s \in Sdks |-> FALSE]
    /\ check = [s \in Sdks |-> "none"]
    /\ syncTimer = [s \in Sdks |-> FALSE]
    /\ toggles = 0

-----------------------------------------------------------------------------
(* The network. *)

NetworkChanges ==
    /\ toggles < MaxToggles
    /\ toggles' = toggles + 1
    /\ navigatorOnline' = ~navigatorOnline
    /\ dispatches' = Append(dispatches, navigatorOnline')
    /\ UNCHANGED <<life, isOnline, check, syncTimer>>

\* A request is answered while there is a network.
CheckAnswered(s) ==
    /\ check[s] = "sent" /\ navigatorOnline
    /\ check' = [check EXCEPT ![s] = "answered"]
    /\ UNCHANGED <<navigatorOnline, dispatches, life, isOnline, syncTimer, toggles>>

\* It fails without a network, or because the server cannot be reached.
CheckFails(s) ==
    /\ check[s] = "sent"
    /\ check' = [check EXCEPT ![s] = "failed"]
    /\ UNCHANGED <<navigatorOnline, dispatches, life, isOnline, syncTimer, toggles>>

-----------------------------------------------------------------------------
(* The SDK. *)

\* The constructors: the state is the browser's, listeners and timers are set.
Construct(s) ==
    /\ life[s] = "none" /\ Live = {}
    /\ life' = [life EXCEPT ![s] = "live"]
    /\ isOnline' = [isOnline EXCEPT ![s] = navigatorOnline]
    /\ syncTimer' = [syncTimer EXCEPT ![s] = navigatorOnline]
    /\ UNCHANGED <<navigatorOnline, dispatches, check, toggles>>

\* Bug: the listeners are still there after destroy().
Notified_Always(changed) == changed

\* The SDKs that hear of it: destroy() clears the set of listeners.
Notified(changed) == changed \cap Live

\* setOnline in the managers of some SDKs: where the state changes, the listener
\* of the SDK starts or stops the periodic sync.
SetOnline(sdks, online) ==
    LET changed == {s \in sdks : isOnline[s] # online}
    IN  /\ isOnline' = [s \in Sdks |-> IF s \in changed THEN online ELSE isOnline[s]]
        /\ syncTimer' = [s \in Sdks |-> IF s \in Notified(changed) THEN online
                                                                  ELSE syncTimer[s]]

\* The next event is dispatched; a destroyed SDK has removed its listeners.
DispatchEvent ==
    /\ dispatches # <<>>
    /\ dispatches' = Tail(dispatches)
    /\ SetOnline(Live, Head(dispatches))
    /\ UNCHANGED <<navigatorOnline, life, check, toggles>>

\* The timer of the manager fires: HEAD to the health endpoint.
SendCheck(s) ==
    /\ life[s] = "live" /\ check[s] = "none"
    /\ check' = [check EXCEPT ![s] = "sent"]
    /\ UNCHANGED <<navigatorOnline, dispatches, life, isOnline, syncTimer, toggles>>

\* After the await: any answer counts as online, however old it is.
CheckSucceeded(s) ==
    /\ check[s] = "answered"
    /\ check' = [check EXCEPT ![s] = "none"]
    /\ SetOnline({s}, TRUE)
    /\ UNCHANGED <<navigatorOnline, dispatches, life, toggles>>

\* Bug: a failed check is not used at all.
LostTo_Nothing(s) == {}

\* The SDKs a failed check sets offline: only where the browser is.
LostTo(s) == IF navigatorOnline THEN {} ELSE {s}

CheckFailed(s) ==
    /\ check[s] = "failed"
    /\ check' = [check EXCEPT ![s] = "none"]
    /\ SetOnline(LostTo(s), FALSE)
    /\ UNCHANGED <<navigatorOnline, dispatches, life, toggles>>

\* destroy(), when the component that made the SDK is unmounted.
Destroy(s) ==
    /\ life[s] = "live"
    /\ life' = [life EXCEPT ![s] = "destroyed"]
    /\ syncTimer' = [syncTimer EXCEPT ![s] = FALSE]
    /\ UNCHANGED <<navigatorOnline, dispatches, isOnline, check, toggles>>

-----------------------------------------------------------------------------
CheckProgress(s) ==
    SendCheck(s) \/ CheckAnswered(s) \/ CheckFails(s) \/ CheckSucceeded(s) \/ CheckFailed(s)

NetworkNext ==
    \/ NetworkChanges \/ DispatchEvent
    \/ \E s \in Sdks : Construct(s) \/ CheckProgress(s) \/ Destroy(s)

NetworkSpec == NetworkInit /\ [][NetworkNext]_netVars

\* Events are dispatched, the timer of the check fires and its request ends.
NetworkFairSpec ==
    /\ NetworkSpec
    /\ WF_netVars(DispatchEvent)
    /\ \A s \in Sdks : WF_netVars(CheckProgress(s))

-----------------------------------------------------------------------------
(* Properties. *)

\* The periodic sync runs exactly while the SDK believes it is online, and never
\* after destroy(), though answers to health checks come in later.
TimerFollowsNetwork ==
    \A s \in Sdks : syncTimer[s] = (life[s] = "live" /\ isOnline[s])

\* Once the network no longer changes, the SDK comes to agree with the browser
\* and stays so: an answer that is older than the loss of the network makes it
\* online by mistake, until the next check fails.
AgreesWithBrowser ==
    \A s \in Sdks :
        <>[](life[s] = "live" => isOnline[s] = navigatorOnline)

=============================================================================
