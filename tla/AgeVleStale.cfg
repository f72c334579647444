SPECIFICATION Spec
CONSTANTS
    None = None
    Vertices <- MCVertices
    Edges <- MCEdges
    Shapes <- MCShapes
    First <- MCFirst
    Changes <- MCUpdates
    Nodes <- MCNodes
    MaxContexts = 2
    MaxXid = 2
    MaxRunning = 1
    Cancels = {}
INVARIANT TrailsExact
CHECK_DEADLOCK FALSE
