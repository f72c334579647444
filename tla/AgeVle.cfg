SPECIFICATION Spec
CONSTANTS
    None = None
    Vertices <- MCVertices
    Edges <- MCEdges
    Shapes <- MCShapes
    First <- MCFirst
    Changes <- MCChanges
    Nodes <- MCNodes
    MaxContexts = 2
    MaxXid = 2
    MaxRunning = 2
    Cancels = {"fetch", "load"}
INVARIANT TrailsExact
INVARIANT FreshGraph
INVARIANT CacheIsClean
CHECK_DEADLOCK FALSE
