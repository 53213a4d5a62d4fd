CONSTANTS
    Recs = {r1}
    Objects = {a, b}
    Calls = {c1, c2}
    NoRec = NoRec
    NoObject = NoObject
    MaxEdits = 1
    MaxForeign = 1
SPECIFICATION StorySpec
INVARIANT BoardShowsStore
SYMMETRY Alike
CHECK_DEADLOCK FALSE
