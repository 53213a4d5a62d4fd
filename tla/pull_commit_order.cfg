CONSTANTS
    Writers = {w1, w2}
    Recs = {r1, r2}
    FirstCursor = 0
    Pulls = {p1}
    PageSize = 4
    Workload = {}
    MaxSeq = 4
    MaxInterrupts = 0
SPECIFICATION Spec
SYMMETRY Symmetry
INVARIANTS NothingMissed
CHECK_DEADLOCK FALSE
