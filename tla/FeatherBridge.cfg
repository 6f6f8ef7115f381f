SPECIFICATION FairSpec
CONSTANTS
    keyA = keyA
    Modifiers = {}
    ForwardedKeys <- MCKeys
    UnforwardedKeys = {}
    SourceErrors = {}
    BootKeyCount = 6
    ErrorRollOver = rollOver
    ForwardSourceErrors = FALSE
    Capacity = 3
    MaxEpoch = 2
    QueueDepth = 2
    KeyboardReports <- MCReports
    MaxHubEvents = 1
    MaxInterfaces = 1
    InterruptPreempts = FALSE
    RecoveryModifiers = {}
    HostHabits = {}

INVARIANTS
    QuietBridgeAgrees
PROPERTIES
    ImplementsAdapter
    ComputerFollowsKeyboard
CHECK_DEADLOCK FALSE
