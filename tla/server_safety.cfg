CONSTANTS
    Workers = {w1, w2}
    Ops = {o1, o2}
    Recs = {r1}
    Nobody = Nobody
    NoOp = NoOp
    MaxBase = 2
    MaxSends = 2
SPECIFICATION FairSpec
INVARIANTS TypeOK VersionsMatchRecords CursorsUnique
PROPERTIES OperationsFinish ChangesAreAnnounced CheckedWritesReplaceTheirBase ImplementsStore ImplementsFeed
CHECK_DEADLOCK FALSE
