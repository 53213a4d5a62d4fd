CONSTANTS
    Writers = {w1, w2}
    Recs = {r1, r2, r3}
    FirstCursor = 7
    Pulls = {p1}
    PageSize = 5
    Workload = {"delete", "import"}
    MaxSeq = 12
    MaxInterrupts = 1
SPECIFICATION Spec
SYMMETRY Symmetry
INVARIANTS CleanPullConverges
PROPERTIES CursorNeverRegresses
CHECK_DEADLOCK FALSE
