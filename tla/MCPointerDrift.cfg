SPECIFICATION RouterSpec
CONSTANTS
    IntMin <- MCIntMin
    IntMax <- MCIntMax
    NoEdge = NONE
    p1 = p1
    p2 = p2
    BoundPeers = {p1, p2}
    Bindings <- MCBindings
    Screens <- MCOneScreen
    Deltas <- MCDeltas
PROPERTY
    CrossesAtTheEdge
CHECK_DEADLOCK FALSE
