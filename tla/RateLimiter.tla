---------------------------- MODULE RateLimiter ----------------------------
(***************************************************************************)
(* The rate limiter of the API: RateLimiter and RateLimitGuard             *)
(* (src/apps/api/src/common/rate-limit/rate-limit.guard.ts) and the timer  *)
(* of RateLimitModule that prunes it.  Every call is synchronous, one       *)
(* action is one call.                                                      *)
(*                                                                          *)
(* Covered: windows that begin with a request, counting past the limit,     *)
(* pruning at any time.                                                     *)
(* Not covered: how a request gets its key (API key, client id or address;  *)
(* the guard runs before a user is known), more than one process, each of   *)
(* which has its own buckets, and a clock that is set back.                 *)
(***************************************************************************)
EXTENDS Integers

CONSTANTS
    Clients,     \* keys of the buckets
    Limit,       \* RATE_LIMIT_LIMIT
    ttlMs,       \* RATE_LIMIT_TTL, in ticks of the clock
    MaxTime,     \* bound on the clock
    MaxCount     \* bound on the count of a bucket

ASSUME RateLimiterAssumption ==
    /\ Limit \in Nat \ {0} /\ ttlMs \in Nat \ {0}
    /\ MaxTime \in Nat /\ MaxCount \in Nat

VARIABLES
    clock,      \* Date.now()
    buckets,    \* the Map, count = 0 where there is no bucket
    accepted    \* history: requests let through up to each time, by client

limitVars == <<clock, buckets, accepted>>

Times    == 0..MaxTime
Bucket   == [count : Nat, windowStart : Nat]
NoBucket == [count |-> 0, windowStart |-> 0]

\* Type invariant: what consume and prune leave in the Map.
LimiterTypeOK ==
    /\ clock \in Times
    /\ buckets \in [Clients -> Bucket]
    /\ accepted \in [Clients -> [Times -> Nat]]

LimiterInit ==
    /\ clock = 0
    /\ buckets = [c \in Clients |-> NoBucket]
    /\ accepted = [c \in Clients |-> [t \in Times |-> 0]]

Tick ==
    /\ clock < MaxTime
    /\ clock' = clock + 1
    /\ UNCHANGED <<buckets, accepted>>

\* Bug: a window ends one tick early for the timer.
Elapsed_Early(b) == clock - b.windowStart >= ttlMs - 1

\* The window of a bucket is over.
Elapsed(b) == clock - b.windowStart >= ttlMs

\* The request is let through.
Accept(c) ==
    /\ accepted' = [accepted EXCEPT ![c] =
                       [t \in Times |-> IF t < clock THEN @[t] ELSE @[t] + 1]]
    /\ UNCHANGED clock

\* consume: no bucket, or one whose window is over.
OpenWindow(c) ==
    /\ buckets[c].count = 0 \/ Elapsed(buckets[c])
    /\ buckets' = [buckets EXCEPT ![c] = [count |-> 1, windowStart |-> clock]]
    /\ Accept(c)

\* consume: a request within the window and the limit.
CountRequest(c) ==
    /\ buckets[c].count \in 1..(Limit - 1)
    /\ ~Elapsed(buckets[c])
    /\ buckets' = [buckets EXCEPT ![c].count = @ + 1]
    /\ Accept(c)

\* consume: 429; the request counts all the same.
Refuse(c) ==
    /\ buckets[c].count \in Limit..MaxCount
    /\ ~Elapsed(buckets[c])
    /\ buckets' = [buckets EXCEPT ![c].count = @ + 1]
    /\ UNCHANGED <<clock, accepted>>

\* prune, by the timer of the module, whenever it fires.
Prune ==
    /\ buckets' = [c \in Clients |-> IF Elapsed(buckets[c]) THEN NoBucket
                                                            ELSE buckets[c]]
    /\ UNCHANGED <<clock, accepted>>

LimiterNext ==
    \/ Tick \/ Prune
    \/ \E c \in Clients : OpenWindow(c) \/ CountRequest(c) \/ Refuse(c)

LimiterSpec == LimiterInit /\ [][LimiterNext]_limitVars

-----------------------------------------------------------------------------
(* Properties. *)

\* Requests let through before time t.
Before(c, t) == IF t = 0 THEN 0 ELSE accepted[c][t - 1]

\* Windows begin with a request, so a burst can lie across two of them: in any
\* stretch as long as a window fewer than twice the limit of requests are let
\* through, however the calls of prune fall.
BurstBound ==
    \A c \in Clients, t, u \in Times :
        t <= u /\ u < t + ttlMs => accepted[c][u] - Before(c, t) <= 2 * Limit - 1

=============================================================================
