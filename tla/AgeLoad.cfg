SPECIFICATION Spec
CONSTANTS
    s1 = s1
    s2 = s2
    Sessions = {s1, s2}
    EntryIdMax = 6
    BatchSize = 2
    Files <- MCFiles
    EdgeFiles <- MCEdgeFiles
    MaxNodes = 3
    MaxCalls = 3
SYMMETRY SessionSymmetry
INVARIANT UniqueIds
INVARIANT SequenceCovers
INVARIANT CompleteGraphIsComplete
PROPERTY LoadsWholeFile
CHECK_DEADLOCK FALSE
