SPECIFICATION FairSpec
CONSTANTS
    Keys = {k}
    MaxSeq = 2
    Capacity = 3
    NONE = NONE
INVARIANTS
    TypeOK
    SequencesAgree
    EndedMeansReleased
    HeldFollowsSent
PROPERTIES
    EveryReleaseArrives
    StopEndsTheSession
CHECK_DEADLOCK FALSE
