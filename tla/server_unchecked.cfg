CONSTANTS
    Workers = {w1, w2}
    Ops = {o1, o2, o3}
    Recs = {r1}
    Nobody = Nobody
    NoOp = NoOp
    MaxBase = 1
    MaxSends = 1
SPECIFICATION PushedSpec
SYMMETRY Symmetry
PROPERTY NoUncheckedOverwrite
CHECK_DEADLOCK FALSE
