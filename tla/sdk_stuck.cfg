CONSTANTS
    Recs = {r1}
    Ops = {1, 2}
    Calls = {c1}
    Syncs = {s1}
    Jobs = {j1}
    None = None
    Other = Other
    Edits = {"create", "update", "delete"}
    Handler = FALSE
    Faults = {"job error"}
    MaxFaults = 1
    MaxForeign = 0
    MaxRetries = 2
SPECIFICATION FairSpec
PROPERTY OperationsSettle
