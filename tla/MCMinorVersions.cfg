SPECIFICATION MCSpec
CHECK_DEADLOCK FALSE
CONSTANTS
    NONE = NONE
    Me <- MCMe
    Peers <- MCPeers
    Addresses = {"x"}
    Builds <- MCBuilds
    PeerCaps <- MCPeerCaps
    OlderCaps <- MCOlderCaps
    InitialDelay = 1
    MaxDelay = 2
    MaxSessions = 2
    MaxVisits = 0
    MaxChanges = 1
PROPERTY
    CompatibleVersionsShareSessions
