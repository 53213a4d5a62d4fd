CONSTANTS
    Recs = {r1}
    Ops = {1, 2, 3}
    Calls = {c1}
    Syncs = {s1}
    Jobs = {j1}
    None = None
    Other = Other
    Edits = {"create", "update", "delete"}
    Handler = FALSE
    Faults = {"unreachable", "refused", "pull error"}
    MaxFaults = 1
    MaxForeign = 1
    MaxRetries = 2
SPECIFICATION FairSpec
INVARIANTS TypeOK LocalIsQueued NothingStale
PROPERTIES OperationsSettle DroppedIsNotDone
