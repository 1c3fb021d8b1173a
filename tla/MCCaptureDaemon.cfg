SPECIFICATION FairSpec
CONSTANTS
    Chord = chord
    PanicKey = panic
    Peers = {p, q}
    QueueCapacity = 1
    DrainBatch = 1
    MaxConnects = 1
    PlatformMayFail = FALSE
    NONE = NONE
INVARIANTS
    TypeOK
    NothingStuckAtThePeer
PROPERTIES
    InputComesBack
    PanicHotkeyWorks
CHECK_DEADLOCK FALSE
