SPECIFICATION MCSpec
CONSTANTS
    ctrl = ctrl
    alt = alt
    bksp = bksp
    left = left
    Keys <- MCKeys
    ModifierKeys <- MCModifierKeys
    ControlKeys <- MCControlKeys
    AltKeys <- MCAltKeys
    PanicKey = bksp
    Buttons <- MCButtons
    p1 = p1
    p2 = p2
    Peers = {p1, p2}
    Sessions = {s1, s2}
    Points = {pt}
    NONE = NONE
    NoEdge = NONE
    BoundPeers = {p1, p2}
    IntMin <- MCIntMin
    IntMax <- MCIntMax
    Bindings <- MCBindings
    Screens <- MCScreens
    Deltas <- MCDeltas
INVARIANTS
    TypeOK
    LeaseMatchesMode
    NothingStuckAtPeer
    ModifiersMirrorKeys
    RouterTypeOK
PROPERTIES
    ReleaseBeforeStop
    LeaseSpec
    NeverTurnsBack
    CrossingIsExact
CHECK_DEADLOCK FALSE
