CONSTANTS
    Recs = {r1}
    Ops = {1, 2, 3}
    Calls = {c1}
    Syncs = {s1}
    Jobs = {j1}
    None = None
    Other = Other
    Edits = {"create", "update"}
    Handler = FALSE
    Faults = {}
    MaxFaults = 1
    MaxForeign = 0
    MaxRetries = 2
SPECIFICATION Spec
INVARIANT NoOwnConflict
