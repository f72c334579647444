SPECIFICATION Spec
CONSTANTS
    None = None
    Vertices <- MCVertices
    Edges <- MCEdges
    Shapes <- MCShapes
    First <- MCFirst
    Changes <- MCChanges
    Nodes <- MCNodes
    MaxContexts = 2
    MaxXid = 2
    MaxRunning = 2
    Cancels = {"fetch", "load"}
INVARIANT NeverHangs
CHECK_DEADLOCK FALSE
