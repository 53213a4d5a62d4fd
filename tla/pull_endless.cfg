CONSTANTS
    Writers = {w1}
    Recs = {r1, r2, r3}
    FirstCursor = 7
    Pulls = {p1}
    PageSize = 2
    Workload = {}
    MaxSeq = 11
    MaxInterrupts = 0
SPECIFICATION FairSpec
PROPERTY PullsEnd
CHECK_DEADLOCK FALSE
