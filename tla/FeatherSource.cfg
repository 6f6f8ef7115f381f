SPECIFICATION Spec
CONSTANTS
    keyA = keyA
    mediaKey = mediaKey
    Modifiers = {}
    ForwardedKeys <- MCKeys
    UnforwardedKeys <- MCOtherKeys
    SourceErrors = {}
    BootKeyCount = 6
    ErrorRollOver = rollOver
    ForwardSourceErrors = FALSE
    Capacity = 3
    MaxEpoch = 3
    QueueDepth = 3
    KeyboardReports <- MCReports
    MaxHubEvents = 2
    MaxInterfaces = 2
    InterruptPreempts = TRUE
INVARIANTS
    TypeOK
    OutdatedEventsDoNotMatter
    EpochsArriveInOrder
    ReadyMeansKeyboard
    EnumerationIsPaced
CHECK_DEADLOCK FALSE
