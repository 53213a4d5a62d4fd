CONSTANTS
    Writers = {w1}
    Recs = {r1}
    FirstCursor = 0
    Pulls = {p1}
    PageSize = 4
    Workload = {"delete", "revive"}
    MaxSeq = 4
    MaxInterrupts = 0
SPECIFICATION Spec
SYMMETRY Symmetry
INVARIANTS CleanPullConverges
CHECK_DEADLOCK FALSE
