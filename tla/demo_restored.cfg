CONSTANTS
    Recs = {r1}
    Objects = {a}
    Calls = {c1}
    NoRec = NoRec
    NoObject = NoObject
    MaxEdits = 1
    MaxForeign = 0
SPECIFICATION AppSpec
INVARIANT ReloadKeepsRecords
CHECK_DEADLOCK FALSE
