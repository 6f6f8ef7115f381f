SPECIFICATION Spec
CONSTANTS
    shift = shift
    keyA = keyA
    keyB = keyB
    ledsOff = ledsOff
    capsLock = capsLock
    Modifiers <- MCModifiers
    ForwardedKeys <- MCKeys
    UnforwardedKeys = {}
    SourceErrors = {}
    BootKeyCount = 1
    ErrorRollOver = rollOver
    ForwardSourceErrors = FALSE
    Capacity = 4
    MaxEpoch = 2
    SourceStates <- MCStates
    SourceSteps <- MCSteps
    RecoveryModifiers <- NoRecovery
    Leds <- NoLeds
    LedsOff = ledsOff
    HostHabits <- EarlySuspend
PROPERTIES
    MountStartsFresh
