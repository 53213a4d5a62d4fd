CONSTANTS
    Callers = {c1, c2}
    Projects = {p1}
    Keys = {k1, k2, k3}
    NoProject = NoProject
    NoKey = NoKey
SPECIFICATION KeysSpec
INVARIANT AtMostOneActive
CHECK_DEADLOCK FALSE
