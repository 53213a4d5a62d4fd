CONSTANTS
    Workers = {w}
    Ops = {o1, o2}
    Recs = {r1}
    Nobody = Nobody
    NoOp = NoOp
    MaxBase = 2
    MaxSends = 3
    Callers = {c1, c2}
    Projects = {p1}
    Keys = {k1, k2, k3}
    NoProject = NoProject
    NoKey = NoKey
    Handlers = {h1, h2}
    Emails = {e1}
    NoEmail = NoEmail
    MaxTokens = 3
    Clients = {k}
    Limit = 2
    ttlMs = 4
    MaxTime = 9
    MaxCount = 3
    Instances = {i1, i2}
    Scripts = {s1}
    NFiles = 2
    MaxFaults = 2
    Jobs = {j1}
    Slots = {w1, w2}
    NoJob = NoJob
    NoSlot = NoSlot
    NOps = 2
    Attempts = 3
    MaxStalled = 1
    MaxExpired = 2
    Sdks = {a, b}
    MaxToggles = 3
SPECIFICATION PartsSpec
INVARIANTS OnlyOverlapsAddUp NeverWithoutKey RotationRevokes ReplayRejected BurstBound MigrationsInOrder ServesMigrated TimerFollowsNetwork CompletedDidAll
PROPERTIES NeverReapplied ImplementsSerialStore KeyCallsEnd InstancesMigrate JobsEnd AgreesWithBrowser
CHECK_DEADLOCK FALSE
