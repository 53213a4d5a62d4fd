CONSTANTS
    Writers = {w1}
    Recs = {r1, r2, r3}
    FirstCursor = 7
    Pulls = {p1}
    PageSize = 2
    Workload = {}
    MaxSeq = 10
    MaxInterrupts = 1
SPECIFICATION FairSpec
INVARIANTS NothingMissed CleanPullConverges
PROPERTIES CatchesUp
CHECK_DEADLOCK FALSE
