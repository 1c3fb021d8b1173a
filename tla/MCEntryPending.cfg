SPECIFICATION FairSpec
CONSTANTS
    Chord = chord
    PanicKey = panic
    Peers = {p, q}
    QueueCapacity = 1
    DrainBatch = 1
    MaxConnects = 0
    PlatformMayFail = FALSE
    NONE = NONE
PROPERTY
    EntryIsConfirmed
CHECK_DEADLOCK FALSE
