SPECIFICATION Spec
CONSTANTS
    Chord = chord
    PanicKey = panic
    Peers = {p, q}
    QueueCapacity = 1
    DrainBatch = 1
    MaxConnects = 1
    PlatformMayFail = FALSE
    NONE = NONE
INVARIANT
    ForwardedOnlyWhileRemote
CHECK_DEADLOCK FALSE
