SPECIFICATION Spec
CONSTANTS
    s1 = s1
    s2 = s2
    Sessions = {s1}
    EntryIdMax = 6
    BatchSize = 2
    Files <- MCFiles
    EdgeFiles <- MCEdgeFiles
    MaxNodes = 3
    MaxCalls = 3
INVARIANT BarbellIsJoined
CHECK_DEADLOCK FALSE
