CONSTANTS
    Workers = {w1, w2}
    Ops = {o1}
    Recs = {r1}
    Nobody = Nobody
    NoOp = NoOp
    MaxBase = 1
    MaxSends = 2
SPECIFICATION Spec
PROPERTY NeverReapplied
CHECK_DEADLOCK FALSE
