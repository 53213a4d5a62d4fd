CONSTANTS
    Instances = {i1}
    Scripts = {s1}
    NFiles = 2
    MaxFaults = 1
SPECIFICATION MigrationsSpec
INVARIANT ForcedOnlyInShutdown
CHECK_DEADLOCK FALSE
