SPECIFICATION FairSpec
CONSTANTS
    Word = 160
    Period = 12
    FrameNumbers = 3
    PullDivisor = 2
    Lead = 3
    MaxStep = 1
    MaxAge = 15
    MaxLatency = 1
    MaxDelay = 11
    MaxMissed = 1
    MaxGap = 26
INVARIANTS
    TypeOK
    ReferenceIsOnGrid
PROPERTIES
    ObservationsFindTheGrid
    StaleReadIsHarmless
    LocksOn
CHECK_DEADLOCK FALSE
