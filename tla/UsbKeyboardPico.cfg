SPECIFICATION Spec
CONSTANTS
    shift = shift
    keyA = keyA
    keyB = keyB
    ledsOff = ledsOff
    capsLock = capsLock
    Modifiers <- MCModifiers
    ForwardedKeys <- MCKeys
    UnforwardedKeys = {}
    SourceErrors = {}
    BootKeyCount = 1
    ErrorRollOver = rollOver
    ForwardSourceErrors = FALSE
    Capacity = 4
    MaxEpoch = 2
    SourceStates <- MCStates
    SourceSteps <- MCSteps
    RecoveryModifiers <- NoRecovery
    Leds <- CapsLed
    LedsOff = ledsOff
    HostHabits <- UsualHost
INVARIANTS
    SettledHostSeesLatest
    OfflineKeepsNoHistory
    LedsOfThisSession
PROPERTIES
    MountStartsFresh
    ImplementsRelay
