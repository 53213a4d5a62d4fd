--------------------------- MODULE Requests_proofs ---------------------------
(***************************************************************************)
(* Proofs about what a request to the API meets before its handler: the     *)
(* rate limiter, for any limit, window and number of clients, and the       *)
(* refresh of its tokens, for any number of connections, addresses and      *)
(* tokens.                                                                  *)
(***************************************************************************)
EXTENDS RateLimiter, RefreshTokens, TLAPS

-----------------------------------------------------------------------------
(* RateLimiter.  In a stretch as long as a window lie the end of one window,  *)
(* without the request it began with, and the whole of the next at most.      *)

\* Counts only grow, and are the total from now on.
CountsGrow(c) ==
    /\ \A t, u \in Times : t <= u => accepted[c][t] <= accepted[c][u]
    /\ \A u \in Times : clock <= u => accepted[c][u] = accepted[c][clock]

\* In an open window the bucket has counted what was let through, the first
\* request when it began.
WindowCounts(c) ==
    LET b == buckets[c]
    IN  b.count > 0 =>
            /\ b.windowStart <= clock
            /\ accepted[c][clock] - Before(c, b.windowStart)
                  = IF b.count < Limit THEN b.count ELSE Limit
            /\ accepted[c][b.windowStart] > Before(c, b.windowStart)

\* Before an open window, in a stretch that reaches into it, less than the limit
\* was let through.
LastWindow(c) ==
    LET b == buckets[c]
    IN  b.count > 0 =>
            \A t \in Times : t < b.windowStart /\ b.windowStart < t + ttlMs =>
                Before(c, b.windowStart) - Before(c, t) <= Limit - 1

\* Without one, less than the limit was let through in the last stretch.
Rested(c) ==
    buckets[c].count = 0 =>
        \A t \in Times : t <= clock /\ clock < t + ttlMs =>
            accepted[c][clock] - Before(c, t) <= Limit - 1

\* At the instant a window is over, or was dropped, nothing has been let through.
NothingNow(c) ==
    buckets[c].count = 0 \/ Elapsed(buckets[c]) => accepted[c][clock] = Before(c, clock)

Bounded(c) ==
    \A t, u \in Times :
        t <= u /\ u < t + ttlMs => accepted[c][u] - Before(c, t) <= 2 * Limit - 1

ClientOK(c) ==
    CountsGrow(c) /\ WindowCounts(c) /\ LastWindow(c) /\ Rested(c) /\ NothingNow(c) /\ Bounded(c)

LimiterIInv == LimiterTypeOK /\ \A c \in Clients : ClientOK(c)

\* What the types say of one client.
LEMMA ClientTypes ==
    ASSUME LimiterTypeOK, NEW c \in Clients
    PROVE  /\ clock \in Times /\ clock \in Nat
           /\ buckets[c].count \in Nat /\ buckets[c].windowStart \in Nat
           /\ \A t \in Times : accepted[c][t] \in Nat /\ Before(c, t) \in Nat
           /\ Limit \in Nat /\ Limit > 0 /\ ttlMs \in Nat /\ ttlMs > 0
<1>1. buckets[c] \in Bucket /\ accepted[c] \in [Times -> Nat] /\ clock \in Times
  BY DEF LimiterTypeOK
<1>2. MaxTime \in Nat /\ Limit \in Nat /\ Limit > 0 /\ ttlMs \in Nat /\ ttlMs > 0
  BY RateLimiterAssumption
<1>3. \A t \in Times : t \in Nat /\ (t # 0 => t - 1 \in Times)
  BY <1>2 DEF Times
<1>4. \A t \in Times : accepted[c][t] \in Nat /\ Before(c, t) \in Nat
  BY <1>1, <1>3 DEF Before
<1>5. QED
  BY <1>1, <1>2, <1>3, <1>4 DEF Bucket

\* Counting up to a later time counts no less.
LEMMA BeforeGrows ==
    ASSUME LimiterTypeOK, NEW c \in Clients, CountsGrow(c),
           NEW t \in Times, NEW u \in Times, t <= u
    PROVE  /\ Before(c, t) <= Before(c, u) /\ Before(c, u) <= accepted[c][u]
           /\ t < u => accepted[c][t] <= Before(c, u)
<1>1. MaxTime \in Nat /\ accepted[c] \in [Times -> Nat]
  BY RateLimiterAssumption DEF LimiterTypeOK
<1>2. t \in Nat /\ u \in Nat /\ (t # 0 => t - 1 \in Times) /\ (u # 0 => u - 1 \in Times)
  BY <1>1 DEF Times
<1>3. QED
  BY <1>1, <1>2 DEF Before, CountsGrow

\* When no window is open less than the limit has been let through in the last
\* stretch, whether the bucket was dropped or is over.
LEMMA QuietStretch ==
    ASSUME LimiterTypeOK, NEW c \in Clients, ClientOK(c),
           buckets[c].count = 0 \/ Elapsed(buckets[c]),
           NEW t \in Times, t <= clock, clock < t + ttlMs
    PROVE  accepted[c][clock] - Before(c, t) <= Limit - 1
<1>1. CASE buckets[c].count = 0
  BY <1>1 DEF ClientOK, Rested
<1>2. CASE buckets[c].count > 0
  <2>1. clock \in Nat /\ t \in Nat /\ ttlMs \in Nat /\ buckets[c].windowStart \in Nat
    BY ClientTypes, RateLimiterAssumption DEF Times
  <2>2. Elapsed(buckets[c])
    BY <1>2
  <2>3. buckets[c].windowStart < t
    BY <2>1, <2>2 DEF Elapsed
  <2>4. buckets[c].windowStart \in Times
    BY <2>1, <2>3, RateLimiterAssumption DEF Times
  <2>5. accepted[c][buckets[c].windowStart] <= Before(c, t)
    BY <2>3, <2>4, <2>1, BeforeGrows DEF ClientOK
  <2>6. QED
    BY <1>2, <2>4, <2>5, ClientTypes DEF ClientOK, WindowCounts
<1>3. QED
  BY <1>1, <1>2, ClientTypes

\* A request that is let through counts from now on.
LEMMA Accepting ==
    ASSUME LimiterTypeOK, NEW c \in Clients, CountsGrow(c), Accept(c)
    PROVE  /\ clock' = clock
           /\ accepted' \in [Clients -> [Times -> Nat]]
           /\ \A d \in Clients \ {c} : accepted'[d] = accepted[d]
           /\ \A t \in Times : accepted'[c][t] = IF t < clock THEN accepted[c][t]
                                                 ELSE accepted[c][clock] + 1
           /\ \A t \in Times : Before(c, t)' = IF t <= clock THEN Before(c, t)
                                               ELSE accepted[c][clock] + 1
           /\ CountsGrow(c)'
<1>1. MaxTime \in Nat /\ clock \in Times /\ accepted \in [Clients -> [Times -> Nat]]
  BY RateLimiterAssumption DEF LimiterTypeOK
<1>2. clock \in Nat /\ \A t \in Times : t \in Nat /\ (t # 0 => t - 1 \in Times)
  BY <1>1 DEF Times
<1>3. clock' = clock /\ accepted' = [accepted EXCEPT ![c] =
                       [t \in Times |-> IF t < clock THEN accepted[c][t] ELSE accepted[c][t] + 1]]
  BY DEF Accept
<1>4. /\ accepted' \in [Clients -> [Times -> Nat]]
      /\ \A d \in Clients \ {c} : accepted'[d] = accepted[d]
      /\ accepted'[c] = [t \in Times |-> IF t < clock THEN accepted[c][t] ELSE accepted[c][t] + 1]
  BY <1>1, <1>3
<1>5. \A t \in Times : ~(t < clock) => accepted[c][t] = accepted[c][clock]
  BY <1>1, <1>2 DEF CountsGrow
<1>6. \A t \in Times : accepted'[c][t] = IF t < clock THEN accepted[c][t]
                                         ELSE accepted[c][clock] + 1
  BY <1>4, <1>5
<1>7. \A t \in Times : Before(c, t)' = IF t <= clock THEN Before(c, t)
                                       ELSE accepted[c][clock] + 1
  <2> SUFFICES ASSUME NEW t \in Times
               PROVE  Before(c, t)' = IF t <= clock THEN Before(c, t)
                                      ELSE accepted[c][clock] + 1
    OBVIOUS
  <2>1. CASE t = 0
    BY <1>2, <2>1 DEF Before
  <2>2. CASE t # 0
    <3>1. t - 1 \in Times /\ t \in Nat
      BY <1>2, <2>2
    <3>2. accepted'[c][t - 1] = IF t - 1 < clock THEN accepted[c][t - 1]
                                ELSE accepted[c][clock] + 1
      BY <1>6, <3>1
    <3>3. QED
      BY <1>2, <2>2, <3>1, <3>2 DEF Before
  <2>3. QED
    BY <2>1, <2>2
<1>8. CountsGrow(c)'
  <2>1. \A t, u \in Times : t <= u => accepted'[c][t] <= accepted'[c][u]
    <3> SUFFICES ASSUME NEW t \in Times, NEW u \in Times, t <= u
                 PROVE  accepted'[c][t] <= accepted'[c][u]
      OBVIOUS
    <3>1. /\ t \in Nat /\ u \in Nat /\ accepted[c][t] \in Nat /\ accepted[c][u] \in Nat
          /\ accepted[c][clock] \in Nat
      BY <1>1, <1>2
    <3>2. /\ accepted[c][t] <= accepted[c][u]
          /\ t <= clock => accepted[c][t] <= accepted[c][clock]
      BY <1>1 DEF CountsGrow
    <3>3. QED
      BY <1>2, <1>6, <3>1, <3>2
  <2>2. \A u \in Times : clock <= u => accepted'[c][u] = accepted'[c][clock]
    <3> SUFFICES ASSUME NEW u \in Times, clock <= u
                 PROVE  accepted'[c][u] = accepted'[c][clock]
      OBVIOUS
    <3>1. u \in Nat /\ ~(u < clock) /\ ~(clock < clock)
      BY <1>2
    <3>2. QED
      BY <1>1, <1>6, <3>1
  <2>3. QED
    BY <1>3, <2>1, <2>2 DEF CountsGrow
<1>9. QED
  BY <1>3, <1>4, <1>6, <1>7, <1>8

\* A step that leaves what was let through, the clock and a client's bucket alone.
LEMMA ClientStays ==
    ASSUME NEW c \in Clients, ClientOK(c), clock' = clock, accepted'[c] = accepted[c],
           buckets'[c] = buckets[c]
    PROVE  ClientOK(c)'
BY DEF ClientOK, CountsGrow, WindowCounts, LastWindow, Rested, NothingNow, Bounded, Before, Elapsed

LEMMA OpenWindowKeeps ==
    ASSUME LimiterIInv, NEW c \in Clients, OpenWindow(c)
    PROVE  LimiterIInv'
<1> DEFINE now == accepted[c][clock]
<1>1. ClientOK(c) /\ LimiterTypeOK /\ CountsGrow(c)
  BY DEF LimiterIInv, ClientOK
<1>2. /\ buckets' \in [Clients -> Bucket]
      /\ buckets'[c].count = 1 /\ buckets'[c].windowStart = clock
      /\ \A d \in Clients \ {c} : buckets'[d] = buckets[d]
      /\ buckets[c].count = 0 \/ Elapsed(buckets[c])
      /\ Accept(c)
  BY <1>1, ClientTypes DEF OpenWindow, LimiterTypeOK, Bucket
<1>3. LimiterTypeOK'
  BY <1>1, <1>2, Accepting DEF LimiterTypeOK
<1>4. \A t \in Times : /\ accepted[c][t] \in Nat /\ Before(c, t) \in Nat /\ t \in Nat
                       /\ accepted'[c][t] = IF t < clock THEN accepted[c][t] ELSE now + 1
                       /\ Before(c, t)' = IF t <= clock THEN Before(c, t) ELSE now + 1
  BY <1>1, <1>2, Accepting, ClientTypes, RateLimiterAssumption, SMTT(30) DEF Times
<1>5. /\ clock' = clock /\ clock \in Times /\ clock \in Nat /\ now \in Nat
      /\ Limit \in Nat /\ Limit > 0 /\ ttlMs \in Nat /\ ttlMs > 0
  BY <1>1, <1>2, ClientTypes, Accepting
<1>6. \A t \in Times : t <= clock /\ clock < t + ttlMs => now - Before(c, t) <= Limit - 1
  BY <1>1, <1>2, QuietStretch
<1>7. Before(c, clock) = now
  BY <1>1, <1>2 DEF ClientOK, NothingNow
<1>8. CountsGrow(c)'
  BY <1>1, <1>2, Accepting
<1>9. WindowCounts(c)'
  BY <1>2, <1>4, <1>5, <1>7 DEF WindowCounts
<1>10. LastWindow(c)'
  BY <1>2, <1>4, <1>5, <1>6, <1>7 DEF LastWindow
<1>11. Rested(c)' /\ NothingNow(c)'
  BY <1>2, <1>5 DEF Rested, NothingNow, Elapsed
<1>12. Bounded(c)'
  <2> SUFFICES ASSUME NEW t \in Times, NEW u \in Times, t <= u, u < t + ttlMs
               PROVE  accepted'[c][u] - Before(c, t)' <= 2 * Limit - 1
    BY DEF Bounded
  <2>1. CASE u < clock
    BY <1>1, <1>4, <1>5, <2>1 DEF ClientOK, Bounded
  <2>2. CASE t <= clock /\ clock <= u
    <3>1. t \in Nat /\ u \in Nat /\ Before(c, t) \in Nat
      BY <1>4
    <3>2. accepted'[c][u] = now + 1 /\ Before(c, t)' = Before(c, t)
      BY <1>4, <1>5, <2>2, <3>1
    <3>3. now - Before(c, t) <= Limit - 1
      BY <1>5, <1>6, <2>2, <3>1
    <3>4. QED
      BY <1>5, <3>1, <3>2, <3>3
  <2>3. CASE clock < t
    <3>1. t \in Nat /\ u \in Nat /\ ~(t <= clock) /\ ~(u < clock)
      BY <1>4, <1>5, <2>3
    <3>2. accepted'[c][u] = now + 1 /\ Before(c, t)' = now + 1
      BY <1>4, <3>1
    <3>3. QED
      BY <1>5, <3>2
  <2>4. t \in Nat /\ u \in Nat
    BY <1>4
  <2>5. QED
    BY <1>5, <2>1, <2>2, <2>3, <2>4
<1>13. ClientOK(c)'
  BY <1>8, <1>9, <1>10, <1>11, <1>12 DEF ClientOK
<1>14. \A d \in Clients \ {c} : ClientOK(d)'
  BY <1>1, <1>2, Accepting, ClientStays DEF LimiterIInv
<1>15. QED
  BY <1>3, <1>13, <1>14 DEF LimiterIInv

LEMMA CountRequestKeeps ==
    ASSUME LimiterIInv, NEW c \in Clients, CountRequest(c)
    PROVE  LimiterIInv'
<1> DEFINE now == accepted[c][clock]
           W   == buckets[c].windowStart
<1>1. ClientOK(c) /\ LimiterTypeOK /\ CountsGrow(c)
  BY DEF LimiterIInv, ClientOK
<1>2. /\ buckets' \in [Clients -> Bucket]
      /\ buckets'[c].count = buckets[c].count + 1 /\ buckets'[c].windowStart = W
      /\ \A d \in Clients \ {c} : buckets'[d] = buckets[d]
      /\ buckets[c].count > 0 /\ buckets[c].count < Limit
      /\ ~Elapsed(buckets[c])
      /\ Accept(c)
  BY <1>1, ClientTypes DEF CountRequest, LimiterTypeOK, Bucket
<1>3. LimiterTypeOK'
  BY <1>1, <1>2, Accepting DEF LimiterTypeOK
<1>4. \A t \in Times : /\ accepted[c][t] \in Nat /\ Before(c, t) \in Nat /\ t \in Nat
                       /\ accepted'[c][t] = IF t < clock THEN accepted[c][t] ELSE now + 1
                       /\ Before(c, t)' = IF t <= clock THEN Before(c, t) ELSE now + 1
  BY <1>1, <1>2, Accepting, ClientTypes, RateLimiterAssumption DEF Times
<1>5. /\ clock' = clock /\ clock \in Times /\ clock \in Nat /\ now \in Nat
      /\ Limit \in Nat /\ Limit > 0 /\ ttlMs \in Nat /\ ttlMs > 0
      /\ buckets[c].count \in Nat /\ W \in Nat
  BY <1>1, <1>2, ClientTypes, Accepting
<1>6. /\ W <= clock /\ W \in Times /\ clock < W + ttlMs
      /\ now - Before(c, W) = buckets[c].count
      /\ accepted[c][W] > Before(c, W)
  <2>1. W <= clock /\ now - Before(c, W) = buckets[c].count /\ accepted[c][W] > Before(c, W)
    BY <1>1, <1>2 DEF ClientOK, WindowCounts
  <2>2. W \in Times
    BY <1>5, <2>1, RateLimiterAssumption DEF Times
  <2>3. QED
    BY <1>2, <1>5, <2>1, <2>2 DEF Elapsed
<1>7. \A t \in Times : t < W /\ W < t + ttlMs => Before(c, W) - Before(c, t) <= Limit - 1
  BY <1>1, <1>2 DEF ClientOK, LastWindow
<1>8. CountsGrow(c)'
  BY <1>1, <1>2, Accepting
<1>9. WindowCounts(c)'
  BY <1>2, <1>4, <1>5, <1>6 DEF WindowCounts
<1>10. LastWindow(c)'
  BY <1>2, <1>4, <1>5, <1>6, <1>7 DEF LastWindow
<1>11. Rested(c)' /\ NothingNow(c)'
  BY <1>2, <1>5, <1>6 DEF Rested, NothingNow, Elapsed
<1>12. Bounded(c)'
  <2> SUFFICES ASSUME NEW t \in Times, NEW u \in Times, t <= u, u < t + ttlMs
               PROVE  accepted'[c][u] - Before(c, t)' <= 2 * Limit - 1
    BY DEF Bounded
  <2>1. CASE u < clock
    BY <1>1, <1>4, <1>5, <2>1 DEF ClientOK, Bounded
  <2>2. CASE t < W /\ clock <= u
    BY <1>2, <1>4, <1>5, <1>6, <1>7, <2>2
  <2>3. CASE W <= t /\ t <= clock /\ clock <= u
    <3>1. Before(c, W) <= Before(c, t)
      BY <1>1, <1>6, <2>3, BeforeGrows
    <3>2. QED
      BY <1>2, <1>4, <1>5, <1>6, <2>3, <3>1
  <2>4. CASE clock < t
    <3>1. t \in Nat /\ u \in Nat /\ ~(t <= clock) /\ ~(u < clock)
      BY <1>4, <1>5, <2>4
    <3>2. accepted'[c][u] = now + 1 /\ Before(c, t)' = now + 1
      BY <1>4, <3>1
    <3>3. QED
      BY <1>5, <3>2
  <2>5. t \in Nat /\ u \in Nat
    BY <1>4
  <2>6. QED
    BY <1>5, <1>6, <2>1, <2>2, <2>3, <2>4, <2>5
<1>13. ClientOK(c)'
  BY <1>8, <1>9, <1>10, <1>11, <1>12 DEF ClientOK
<1>14. \A d \in Clients \ {c} : ClientOK(d)'
  BY <1>1, <1>2, Accepting, ClientStays DEF LimiterIInv
<1>15. QED
  BY <1>3, <1>13, <1>14 DEF LimiterIInv

LEMMA RefuseKeeps ==
    ASSUME LimiterIInv, NEW c \in Clients, Refuse(c)
    PROVE  LimiterIInv'
<1>1. ClientOK(c) /\ LimiterTypeOK
  BY DEF LimiterIInv
<1>2. /\ buckets' \in [Clients -> Bucket]
      /\ buckets'[c].count = buckets[c].count + 1
      /\ buckets'[c].windowStart = buckets[c].windowStart
      /\ \A d \in Clients \ {c} : buckets'[d] = buckets[d]
      /\ buckets[c].count >= Limit
      /\ ~Elapsed(buckets[c])
      /\ clock' = clock /\ accepted' = accepted
  <2>1. buckets[c].count \in Nat /\ buckets[c].count >= Limit
    BY <1>1, ClientTypes, RateLimiterAssumption DEF Refuse
  <2>2. QED
    BY <1>1, <2>1 DEF Refuse, LimiterTypeOK, Bucket
<1>3. LimiterTypeOK'
  BY <1>1, <1>2 DEF LimiterTypeOK
<1>4. buckets[c].count \in Nat /\ Limit \in Nat /\ Limit > 0
  BY <1>1, ClientTypes
<1>5. CountsGrow(c)' /\ LastWindow(c)' /\ Bounded(c)'
  BY <1>1, <1>2, <1>4 DEF ClientOK, CountsGrow, LastWindow, Bounded, Before
<1>6. WindowCounts(c)' /\ Rested(c)' /\ NothingNow(c)'
  BY <1>1, <1>2, <1>4 DEF ClientOK, WindowCounts, Rested, NothingNow, Before, Elapsed
<1>7. \A d \in Clients \ {c} : ClientOK(d)'
  BY <1>1, <1>2, ClientStays DEF LimiterIInv
<1>8. QED
  BY <1>3, <1>5, <1>6, <1>7 DEF LimiterIInv, ClientOK

LEMMA PruneKeeps ==
    ASSUME LimiterIInv, Prune
    PROVE  LimiterIInv'
<1>1. LimiterTypeOK'
  BY DEF LimiterIInv, LimiterTypeOK, Prune, NoBucket, Bucket
<1>2. ASSUME NEW c \in Clients
      PROVE  ClientOK(c)'
  <2>1. ClientOK(c) /\ clock' = clock /\ accepted' = accepted /\ LimiterTypeOK
    BY DEF LimiterIInv, Prune
  <2>2. CASE Elapsed(buckets[c])
    <3>1. buckets'[c] = NoBucket
      BY <2>2 DEF Prune
    <3>2. \A t \in Times : t <= clock /\ clock < t + ttlMs =>
              accepted[c][clock] - Before(c, t) <= Limit - 1
      BY <2>1, <2>2, QuietStretch
    <3>3. accepted[c][clock] = Before(c, clock)
      BY <2>1, <2>2 DEF ClientOK, NothingNow
    <3>4. QED
      BY <2>1, <3>1, <3>2, <3>3 DEF ClientOK, CountsGrow, WindowCounts, LastWindow, Rested,
         NothingNow, Bounded, Before, NoBucket
  <2>3. CASE ~Elapsed(buckets[c])
    BY <2>1, <2>3, ClientStays DEF Prune
  <2>4. QED
    BY <2>2, <2>3
<1>3. QED
  BY <1>1, <1>2 DEF LimiterIInv

LEMMA TickKeeps ==
    ASSUME LimiterIInv, Tick
    PROVE  LimiterIInv'
<1>1. /\ LimiterTypeOK /\ clock' = clock + 1 /\ clock < MaxTime
      /\ buckets' = buckets /\ accepted' = accepted
      /\ clock \in Nat /\ clock \in Times /\ MaxTime \in Nat
  BY RateLimiterAssumption DEF LimiterIInv, LimiterTypeOK, Tick, Times
<1>2. clock' \in Times
  BY <1>1 DEF Times
<1>3. LimiterTypeOK'
  BY <1>1, <1>2 DEF LimiterTypeOK
<1>4. ASSUME NEW c \in Clients
      PROVE  ClientOK(c)'
  <2>1. ClientOK(c)
    BY DEF LimiterIInv
  <2>2. accepted[c][clock'] = accepted[c][clock]
    BY <1>1, <1>2, <2>1 DEF ClientOK, CountsGrow
  <2>3. /\ \A t \in Times : Before(c, t)' = Before(c, t) /\ t \in Nat
        /\ Before(c, clock') = accepted[c][clock]
    BY <1>1, RateLimiterAssumption DEF Before, Times
  <2>4. CountsGrow(c)'
    BY <1>1, <1>2, <2>1, <2>2 DEF ClientOK, CountsGrow, Times
  <2>5. WindowCounts(c)'
    BY <1>1, <2>1, <2>2, <2>3, ClientTypes DEF ClientOK, WindowCounts, Before
  <2>6. LastWindow(c)'
    BY <1>1, <2>1, <2>3 DEF ClientOK, LastWindow, Before
  <2>7. Rested(c)'
    <3> SUFFICES ASSUME buckets[c].count = 0, NEW t \in Times, t <= clock', clock' < t + ttlMs
                 PROVE  accepted[c][clock'] - Before(c, t) <= Limit - 1
      BY <1>1, <2>3 DEF Rested
    <3>1. CASE t = clock'
      BY <1>1, <2>2, <2>3, <3>1, ClientTypes
    <3>2. CASE t # clock'
      <4>1. t <= clock /\ clock < t + ttlMs
        BY <1>1, <2>3, <3>2, RateLimiterAssumption
      <4>2. QED
        BY <2>1, <2>2, <4>1 DEF ClientOK, Rested
    <3>3. QED
      BY <3>1, <3>2
  <2>8. NothingNow(c)'
    BY <1>1, <1>2, <2>2, <2>3 DEF NothingNow
  <2>9. Bounded(c)'
    BY <1>1, <2>1, <2>3 DEF ClientOK, Bounded
  <2>10. QED
    BY <2>4, <2>5, <2>6, <2>7, <2>8, <2>9 DEF ClientOK
<1>5. QED
  BY <1>3, <1>4 DEF LimiterIInv

LEMMA LimiterInitEstablishes == LimiterInit => LimiterIInv
<1> SUFFICES ASSUME LimiterInit
             PROVE  LimiterIInv
  OBVIOUS
<1>1. MaxTime \in Nat /\ Limit \in Nat /\ Limit > 0 /\ ttlMs \in Nat /\ ttlMs > 0
  BY RateLimiterAssumption
<1>2. clock = 0 /\ 0 \in Times /\ \A t \in Times : t \in Nat /\ (t # 0 => t - 1 \in Times)
  BY <1>1 DEF LimiterInit, Times
<1>3. LimiterTypeOK
  BY <1>2 DEF LimiterInit, LimiterTypeOK, NoBucket, Bucket
<1>4. ASSUME NEW c \in Clients
      PROVE  ClientOK(c)
  <2>1. \A t \in Times : accepted[c][t] = 0 /\ Before(c, t) = 0
    BY <1>2 DEF LimiterInit, Before
  <2>2. buckets[c].count = 0
    BY DEF LimiterInit, NoBucket
  <2>3. QED
    BY <1>1, <1>2, <2>1, <2>2 DEF ClientOK, CountsGrow, WindowCounts, LastWindow, Rested,
       NothingNow, Bounded
<1>5. QED
  BY <1>3, <1>4 DEF LimiterIInv

LEMMA LimiterStepKeeps == LimiterIInv /\ [LimiterNext]_limitVars => LimiterIInv'
<1> SUFFICES ASSUME LimiterIInv, [LimiterNext]_limitVars
             PROVE  LimiterIInv'
  OBVIOUS
<1>1. CASE UNCHANGED limitVars
  <2>1. LimiterTypeOK'
    BY <1>1 DEF limitVars, LimiterIInv, LimiterTypeOK
  <2>2. \A c \in Clients : ClientOK(c)'
    BY <1>1, ClientStays DEF limitVars, LimiterIInv
  <2>3. QED
    BY <2>1, <2>2 DEF LimiterIInv
<1>2. QED
  BY <1>1, OpenWindowKeeps, CountRequestKeeps, RefuseKeeps, PruneKeeps, TickKeeps DEF LimiterNext

\* The clock, the buckets and the counts keep their types.
THEOREM LimiterTypeCorrect == LimiterSpec => []LimiterTypeOK
<1>1. LimiterIInv => LimiterTypeOK
  BY DEF LimiterIInv
<1>2. QED
  BY <1>1, LimiterInitEstablishes, LimiterStepKeeps, PTL DEF LimiterSpec

\* In any stretch as long as a window fewer than twice the limit of requests are
\* let through, for every limit and length of window, however prune is timed.
THEOREM BurstBoundCorrect == LimiterSpec => []BurstBound
<1>1. LimiterIInv => BurstBound
  BY DEF LimiterIInv, ClientOK, Bounded, BurstBound
<1>2. QED
  BY <1>1, LimiterInitEstablishes, LimiterStepKeeps, PTL DEF LimiterSpec

-----------------------------------------------------------------------------
(* RefreshTokens.  A token that is used up stays so, and the SELECT of a      *)
(* request that presents it comes later.                                      *)

\* Rows that exist are never taken out; what a client was given, and what a
\* request presents, exists.
PresentedExists ==
    /\ \A t \in given : tokens[t].state # "none"
    /\ \A h \in Handlers : presented[h] # NoToken => tokens[presented[h]].state # "none"

\* A token that was used up when it was presented still is, and its request has
\* not got beyond the SELECT.
ReplaysStop ==
    \A h \in Handlers : replay[h] =>
        presented[h] # NoToken /\ UsedUp(presented[h]) /\ authStep[h] = "selectToken"

\* Which statements are executed for a token that was presented, and which for an
\* address.
StepsPresent ==
    \A h \in Handlers :
        /\ authStep[h] \in {"selectToken", "consume"} => presented[h] # NoToken
        /\ authStep[h] \in {"insertUser", "selectUser"} => presented[h] = NoToken
        /\ authStep[h] = "insertUser" => email[h] \in Emails

TokensIInv ==
    /\ TokensTypeOK
    /\ PresentedExists
    /\ ReplaysStop
    /\ StepsPresent
    /\ ReplayRejected

LEMMA TokensInitEstablishes == TokensInit => TokensIInv
<1> SUFFICES ASSUME TokensInit PROVE TokensIInv
  OBVIOUS
<1>1. NoTokenRow \in TokenRows
  BY RefreshTokensAssumption DEF NoTokenRow, TokenRows
<1>2. TokensTypeOK
  BY <1>1, RefreshTokensAssumption DEF TokensInit, TokensTypeOK, AuthSteps
<1>3. \A t \in Tokens : ~tokens[t].replay
  BY DEF TokensInit, NoTokenRow
<1>4. \A h \in Handlers : authStep[h] = "idle" /\ presented[h] = NoToken /\ ~replay[h]
  BY DEF TokensInit
<1>5. given = {}
  BY DEF TokensInit
<1>6. QED
  BY <1>2, <1>3, <1>4, <1>5 DEF TokensIInv, PresentedExists, ReplaysStop, StepsPresent,
     ReplayRejected

\* A request moves on or ends; the rows of refresh_tokens stay as they are.
LEMMA RequestKeeps ==
    ASSUME TokensIInv, NEW h \in Handlers, NEW step \in AuthSteps,
           NEW e \in Emails \cup {NoEmail}, NEW t \in Tokens \cup {NoToken}, NEW r \in BOOLEAN,
           authStep' = [authStep EXCEPT ![h] = step],
           email' = [email EXCEPT ![h] = e],
           presented' = [presented EXCEPT ![h] = t],
           replay' = [replay EXCEPT ![h] = r],
           t # NoToken => tokens[t].state # "none",
           step \in {"consume", "selectToken"} => t # NoToken,
           step \in {"insertUser", "selectUser"} => t = NoToken,
           step = "insertUser" => e \in Emails,
           r => t # NoToken /\ UsedUp(t) /\ step = "selectToken",
           UNCHANGED <<tokens, given, expired>>, users' \in SUBSET Emails
    PROVE  TokensIInv'
<1>1. TokensTypeOK
  BY DEF TokensIInv
<1>2. \A g \in Handlers :
          /\ authStep'[g] = IF g = h THEN step ELSE authStep[g]
          /\ presented'[g] = IF g = h THEN t ELSE presented[g]
          /\ email'[g] = IF g = h THEN e ELSE email[g]
          /\ replay'[g] = IF g = h THEN r ELSE replay[g]
  BY <1>1 DEF TokensTypeOK
<1>3. TokensTypeOK'
  BY <1>1 DEF TokensTypeOK
<1>4. PresentedExists' /\ StepsPresent'
  BY <1>2 DEF TokensIInv, PresentedExists, StepsPresent
<1>5. ReplaysStop' /\ ReplayRejected'
  BY <1>2 DEF TokensIInv, ReplaysStop, ReplayRejected, UsedUp
<1>6. QED
  BY <1>3, <1>4, <1>5 DEF TokensIInv

\* The UPDATE uses a token up, whatever it is by then.
LEMMA ConsumeKeeps ==
    ASSUME TokensIInv, NEW h \in Handlers, Consume(h)
    PROVE  TokensIInv'
<1> DEFINE p == presented[h]
<1>1. TokensTypeOK
  BY DEF TokensIInv
<1>2. /\ authStep[h] = "consume" /\ p # NoToken /\ p \in Tokens
      /\ tokens' = [tokens EXCEPT ![p].state = "revoked"]
      /\ authStep' = [authStep EXCEPT ![h] = "issue"]
      /\ UNCHANGED <<users, given, expired, email, presented, replay>>
  BY <1>1 DEF Consume, AuthGoto, TokensIInv, StepsPresent, TokensTypeOK
<1>3. PICK row \in TokenRows :
           /\ row.state = "revoked" /\ row.replay = tokens[p].replay
           /\ tokens' = [tokens EXCEPT ![p] = row]
  <2>1. PICK r \in TokenRows : r = tokens[p]
    BY <1>1, <1>2 DEF TokensTypeOK
  <2>2. tokens' = [tokens EXCEPT ![p] = [r EXCEPT !.state = "revoked"]]
    BY <1>2, <2>1
  <2>3. [r EXCEPT !.state = "revoked"] \in TokenRows
    BY <2>1 DEF TokenRows
  <2>4. QED
    BY <2>1, <2>2, <2>3 DEF TokenRows
<1>4. tokens[p].state # "none"
  BY <1>2 DEF TokensIInv, PresentedExists
<1> HIDE DEF p
<1>5. TokensTypeOK'
  BY <1>1, <1>2, <1>3 DEF TokensTypeOK, AuthSteps
<1>6. \A t \in Tokens :
          /\ tokens'[t].state # "none" <=> tokens[t].state # "none"
          /\ tokens'[t].state = "valid" => tokens[t].state = "valid"
          /\ tokens'[t].replay = tokens[t].replay
  BY <1>1, <1>2, <1>3, <1>4 DEF TokensTypeOK
<1>7. \A g \in Handlers : /\ authStep'[g] = IF g = h THEN "issue" ELSE authStep[g]
                          /\ presented[g] \in Tokens \cup {NoToken}
  BY <1>1, <1>2 DEF TokensTypeOK
<1>8. given \subseteq Tokens
  BY <1>1 DEF TokensTypeOK
<1>9. PresentedExists' /\ StepsPresent'
  BY <1>2, <1>6, <1>7, <1>8 DEF TokensIInv, PresentedExists, StepsPresent
<1>10. ReplaysStop'
  BY <1>2, <1>6, <1>7 DEF TokensIInv, ReplaysStop, UsedUp
<1>11. ReplayRejected'
  BY <1>6 DEF TokensIInv, ReplayRejected
<1>12. QED
  BY <1>5, <1>9, <1>10, <1>11 DEF TokensIInv

\* The new row is that of a request which got beyond the SELECT.
LEMMA IssueKeeps ==
    ASSUME TokensIInv, NEW h \in Handlers, NEW t \in Tokens, IssueToken(h, t)
    PROVE  TokensIInv'
<1> DEFINE row == [user |-> Subject(h), parent |-> presented[h], replay |-> replay[h],
                   state |-> "valid"]
<1>1. TokensTypeOK
  BY DEF TokensIInv
<1>2. /\ authStep[h] = "issue" /\ tokens[t].state = "none"
      /\ tokens' = [tokens EXCEPT ![t] = row]
      /\ given' = given \/ given' = given \cup {t}
      /\ authStep' = [authStep EXCEPT ![h] = "idle"]
      /\ email' = [email EXCEPT ![h] = NoEmail]
      /\ presented' = [presented EXCEPT ![h] = NoToken]
      /\ replay' = [replay EXCEPT ![h] = FALSE]
      /\ UNCHANGED <<users, expired>>
  BY RefreshTokensAssumption DEF IssueToken, AuthDone, Tokens
<1>3. row \in TokenRows
  <2>1. presented[h] \in Tokens \cup {NoToken} /\ replay[h] \in BOOLEAN
    BY <1>1 DEF TokensTypeOK
  <2>2. Subject(h) \in Emails \cup {NoEmail}
    BY <1>1, <2>1 DEF TokensTypeOK, Subject, TokenRows
  <2>3. QED
    BY <2>1, <2>2 DEF TokenRows
<1>4. row.state = "valid" /\ ~row.replay
  BY <1>2 DEF TokensIInv, ReplaysStop
<1> HIDE DEF row
<1>5. TokensTypeOK'
  BY <1>1, <1>2, <1>3 DEF TokensTypeOK, AuthSteps
<1>6. \A u \in Tokens : tokens'[u] = IF u = t THEN row ELSE tokens[u]
  BY <1>1, <1>2 DEF TokensTypeOK
<1>7. \A g \in Handlers :
           /\ authStep'[g] = IF g = h THEN "idle" ELSE authStep[g]
           /\ presented'[g] = IF g = h THEN NoToken ELSE presented[g]
           /\ replay'[g] = IF g = h THEN FALSE ELSE replay[g]
           /\ g # h => email'[g] = email[g]
           /\ presented[g] \in Tokens \cup {NoToken}
  BY <1>1, <1>2 DEF TokensTypeOK
<1>8. given \subseteq Tokens
  BY <1>1 DEF TokensTypeOK
<1>9. PresentedExists'
  BY <1>2, <1>4, <1>6, <1>7, <1>8 DEF TokensIInv, PresentedExists
<1>10. StepsPresent'
  BY <1>7 DEF TokensIInv, StepsPresent
<1>11. ReplaysStop'
  <2> SUFFICES ASSUME NEW g \in Handlers, replay'[g]
               PROVE  presented'[g] # NoToken /\ UsedUp(presented[g])' /\ authStep'[g] = "selectToken"
    BY DEF ReplaysStop
  <2>1. g # h /\ replay[g]
    BY <1>7
  <2>2. presented[g] # NoToken /\ UsedUp(presented[g]) /\ authStep[g] = "selectToken"
    BY <2>1 DEF TokensIInv, ReplaysStop
  <2>3. presented[g] # t /\ presented[g] \in Tokens
    BY <1>2, <1>7, <2>2 DEF TokensIInv, PresentedExists
  <2>4. QED
    BY <1>2, <1>6, <1>7, <2>1, <2>2, <2>3 DEF UsedUp
<1>12. ReplayRejected'
  BY <1>4, <1>6 DEF TokensIInv, ReplayRejected
<1>13. QED
  BY <1>5, <1>9, <1>10, <1>11, <1>12 DEF TokensIInv

-----------------------------------------------------------------------------
LEMMA TokensStepKeeps ==
    ASSUME TokensIInv, [TokensNext]_authVars
    PROVE  TokensIInv'
<1>1. /\ users \in SUBSET Emails /\ given \in SUBSET Tokens
      /\ authStep \in [Handlers -> AuthSteps]
      /\ email \in [Handlers -> Emails \cup {NoEmail}]
      /\ presented \in [Handlers -> Tokens \cup {NoToken}]
      /\ replay \in [Handlers -> BOOLEAN]
  BY DEF TokensIInv, TokensTypeOK
<1>2. NoToken \in Tokens \cup {NoToken} /\ NoEmail \in Emails \cup {NoEmail}
      /\ {"idle", "insertUser", "selectUser", "selectToken", "consume", "issue"} = AuthSteps
  BY DEF AuthSteps
<1>3. ASSUME NEW h \in Handlers, AuthDone(h), UNCHANGED <<tokens, given, expired>>,
             users' \in SUBSET Emails
      PROVE  TokensIInv'
  BY <1>2, <1>3, RequestKeeps DEF AuthDone
<1>4. ASSUME NEW h \in Handlers, NEW step \in {"issue", "consume"}, AuthGoto(h, step), ~replay[h],
             step = "consume" => presented[h] # NoToken,
             UNCHANGED <<tokens, given, expired>>, users' \in SUBSET Emails
      PROVE  TokensIInv'
  <2>1. /\ authStep' = [authStep EXCEPT ![h] = step]
        /\ email' = [email EXCEPT ![h] = email[h]]
        /\ presented' = [presented EXCEPT ![h] = presented[h]]
        /\ replay' = [replay EXCEPT ![h] = replay[h]]
    BY <1>1, <1>4 DEF AuthGoto
  <2>2. /\ email[h] \in Emails \cup {NoEmail} /\ presented[h] \in Tokens \cup {NoToken}
        /\ replay[h] \in BOOLEAN /\ step \in AuthSteps
        /\ presented[h] # NoToken => tokens[presented[h]].state # "none"
    BY <1>1, <1>2 DEF TokensIInv, PresentedExists
  <2>3. QED
    BY <1>4, <2>1, <2>2, RequestKeeps
<1>5. ASSUME NEW h \in Handlers, NEW e \in Emails, Register(h, e) \/ Login(h, e)
      PROVE  TokensIInv'
  <2>1. PICK step \in {"insertUser", "selectUser"} : AuthRequest(h, e, NoToken, step)
    BY <1>5 DEF Register, Login
  <2>2. replay' = [replay EXCEPT ![h] = FALSE] /\ step \in AuthSteps
    BY <1>2, <2>1 DEF AuthRequest
  <2>3. QED
    BY <1>1, <1>2, <2>1, <2>2, RequestKeeps DEF AuthRequest
<1>6. ASSUME NEW h \in Handlers, NEW t \in Tokens, Refresh(h, t)
      PROVE  TokensIInv'
  <2>1. tokens[t].state # "none" /\ t \in Tokens \cup {NoToken}
    BY <1>6 DEF Refresh, TokensIInv, PresentedExists
  <2>2. t # NoToken
    BY RefreshTokensAssumption DEF Tokens, NoToken
  <2>3. PICK r \in BOOLEAN : r = (t # NoToken /\ UsedUp(t))
    OBVIOUS
  <2>4. replay' = [replay EXCEPT ![h] = r]
    BY <1>6, <2>3 DEF Refresh, AuthRequest
  <2>5. QED
    BY <1>1, <1>2, <1>6, <2>1, <2>2, <2>3, <2>4, RequestKeeps DEF Refresh, AuthRequest
<1>7. ASSUME NEW h \in Handlers, InsertUser(h) \/ SelectUser(h)
      PROVE  TokensIInv'
  <2>1. ~replay[h] /\ (InsertUser(h) => email[h] \in Emails)
    BY <1>1, <1>7 DEF InsertUser, SelectUser, TokensIInv, StepsPresent, ReplaysStop
  <2>2. users' \in SUBSET Emails
    BY <1>1, <1>7, <2>1 DEF InsertUser, SelectUser
  <2>3. AuthGoto(h, "issue") \/ AuthDone(h)
    BY <1>7 DEF InsertUser, SelectUser
  <2>4. UNCHANGED <<tokens, given, expired>>
    BY <1>7 DEF InsertUser, SelectUser
  <2>5. QED
    BY <1>3, <1>4, <2>1, <2>2, <2>3, <2>4
<1>8. ASSUME NEW h \in Handlers, SelectToken(h)
      PROVE  TokensIInv'
  <2>1. presented[h] # NoToken
    BY <1>8 DEF SelectToken, TokensIInv, StepsPresent
  <2>2. users' \in SUBSET Emails /\ UNCHANGED <<tokens, given, expired>>
    BY <1>1, <1>8 DEF SelectToken
  <2>3. CASE Acceptable(presented[h])
    <3>1. AuthGoto(h, "consume")
      BY <1>8, <2>3 DEF SelectToken
    <3>2. ~replay[h]
      BY <2>3 DEF Acceptable, TokensIInv, ReplaysStop, UsedUp
    <3>3. QED
      BY <1>4, <2>1, <2>2, <3>1, <3>2
  <2>4. CASE ~Acceptable(presented[h])
    BY <1>3, <1>8, <2>2, <2>4 DEF SelectToken
  <2>5. QED
    BY <2>3, <2>4
<1>9. ASSUME NEW h \in Handlers, AuthFails(h)
      PROVE  TokensIInv'
  BY <1>1, <1>3, <1>9 DEF AuthFails
<1>10. ASSUME NEW t \in Tokens, Expire(t)
       PROVE  TokensIInv'
  <2>1. /\ expired \subseteq expired' /\ expired' \subseteq Tokens
        /\ UNCHANGED <<users, tokens, given, authStep, email, presented, replay>>
    BY <1>10 DEF Expire, TokensIInv, TokensTypeOK
  <2>2. TokensTypeOK' /\ PresentedExists' /\ StepsPresent' /\ ReplayRejected'
    BY <2>1 DEF TokensIInv, TokensTypeOK, PresentedExists, StepsPresent, ReplayRejected
  <2>3. ReplaysStop'
    BY <2>1 DEF TokensIInv, ReplaysStop, UsedUp
  <2>4. QED
    BY <2>2, <2>3 DEF TokensIInv
<1>11. CASE UNCHANGED authVars
  BY <1>11 DEF authVars, TokensIInv, TokensTypeOK, PresentedExists, ReplaysStop, UsedUp,
     StepsPresent, ReplayRejected
<1>12. QED
  BY <1>5, <1>6, <1>7, <1>8, <1>9, <1>10, <1>11, ConsumeKeeps, IssueKeeps DEF TokensNext

\* The variables of RefreshTokens have their types in every state.
THEOREM TokensTypeCorrect == TokensSpec => []TokensTypeOK
<1>1. TokensIInv => TokensTypeOK
  BY DEF TokensIInv
<1>2. QED
  BY TokensInitEstablishes, TokensStepKeeps, <1>1, PTL DEF TokensSpec

\* AuthService.refresh (auth.service.ts:99) issues nothing for a token that was used
\* up when the request came in; what SingleUse says beyond that fails.
THEOREM ReplayRejectedCorrect == TokensSpec => []ReplayRejected
<1>1. TokensIInv => ReplayRejected
  BY DEF TokensIInv
<1>2. QED
  BY TokensInitEstablishes, TokensStepKeeps, <1>1, PTL DEF TokensSpec

=============================================================================
