SPECIFICATION Spec
CONSTANTS
    None = None
    Vertices <- MCVertices
    Edges <- MCEdges
    Shapes <- MCShapes
    First <- MCFirst
    Changes <- MCChanges
    Nodes <- MCNodes
    MaxContexts = 2
    MaxXid = 0
    MaxRunning = 0
    Cancels = {}
INVARIANT StartsAsDocumented
CHECK_DEADLOCK FALSE
