SPECIFICATION Spec
CHECK_DEADLOCK FALSE
CONSTANTS
    NONE = NONE
    NoKey = NoKey
    Nothing = Nothing
    Keys <- MCKeys
    BadKeys <- MCBadKeys
    Digest <- MCDigest
    Fullnames <- MCFullnames
    Lower <- MCLower
    Spaced = {}
    Control = {"bell"}
    Announcements <- MCAnnouncements
    MaxEvents = 2
    Keyboard <- MCKeyboard
    Inputs = {"a", "b", "c", "side"}
    Unsupported = {"side"}
    Switches = {"a", "b"}
    Capacities = {0, 2}
    Systems = {"Windows", "X11"}
    NoEvent = NoEvent
    IntMin <- MCIntMin
    IntMax = 7
    Unset = Unset
    PollGap = 2
    ResumeGap = 4
    IdleTimeout = 3
    MaxAge = 6
    Bounds = {"one", "two"}
    Unread = Unread
    LocalId = "me"
    TrustedSets <- MCTrustedSets
    Devices <- MCDevices
    Commands <- MCCommands
    FrameSeqs <- MCFrameSeqs
    Versions <- MCVersions
    Machines <- MCMachines
INVARIANTS
    TypeOK
    NothingStaysDown
    CommandsArrive
    ProbesTruthful
    DiscoveryPairs
    WatchKeepsUp
PROPERTIES
    CaptureEnds
