CONSTANTS
    Recs = {r1}
    Ops = {1, 2}
    Calls = {c1}
    Syncs = {s1, s2}
    Jobs = {j1, j2}
    None = None
    Other = Other
    Edits = {"update", "delete"}
    Handler = TRUE
    Faults = {"lost answer", "job error", "gave up", "pull error", "closed"}
    MaxFaults = 1
    MaxForeign = 1
    MaxRetries = 2
SPECIFICATION Spec
INVARIANTS AppliedIsDone
PROPERTIES SettledIsFinal ImplementsSerialStore
CHECK_DEADLOCK FALSE
SYMMETRY Alike
