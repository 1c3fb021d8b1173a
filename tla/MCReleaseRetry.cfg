SPECIFICATION Spec
CONSTANTS
    Chord = chord
    PanicKey = panic
    Peers = {p, q}
    QueueCapacity = 1
    DrainBatch = 1
    MaxConnects = 0
    PlatformMayFail = TRUE
    NONE = NONE
INVARIANT
    ReleasedMeansReleased
CHECK_DEADLOCK FALSE
