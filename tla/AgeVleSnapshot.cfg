SPECIFICATION Spec
CONSTANTS
    None = None
    Vertices <- MCVertices
    Edges <- MCEdges
    Shapes <- MCShapes
    First <- MCFirst
    Changes <- MCChanges
    Nodes <- MCNodes
    MaxContexts = 2
    MaxXid = 3
    MaxRunning = 3
    Cancels = {}
INVARIANT FreshGraph
CHECK_DEADLOCK FALSE
