SPECIFICATION Spec
CONSTANTS
    shift = shift
    keyA = keyA
    keyB = keyB
    ledsOff = ledsOff
    capsLock = capsLock
    Modifiers <- MCModifiers
    ForwardedKeys <- MCKeys
    UnforwardedKeys = {mediaKey}
    SourceErrors = {}
    BootKeyCount = 1
    ErrorRollOver = rollOver
    ForwardSourceErrors = FALSE
    Capacity = 4
    MaxEpoch = 2
    SourceStates <- MCStates
    SourceSteps <- MCSteps
    RecoveryModifiers <- ShiftRecovery
    Leds <- NoLeds
    LedsOff = ledsOff
    HostHabits <- HurriedHost
INVARIANTS
    TypeOK
    SettledHostSeesLatest
    SettledHasNoWake
    OneWakePerSuspend
PROPERTIES
    MountStartsFresh
    ReleaseBetweenSources
    ReportsFollowSource
    ImplementsRelay
    SleepKeepsWake
