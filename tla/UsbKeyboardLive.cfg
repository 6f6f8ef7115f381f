SPECIFICATION FairSpec
CONSTANTS
    shift = shift
    keyA = keyA
    keyB = keyB
    ledsOff = ledsOff
    capsLock = capsLock
    Modifiers <- MCModifiers
    ForwardedKeys <- MCKeys
    UnforwardedKeys = {}
    SourceErrors = {}
    BootKeyCount = 1
    ErrorRollOver = rollOver
    ForwardSourceErrors = FALSE
    Capacity = 3
    MaxEpoch = 1
    SourceStates <- MCStates
    SourceSteps <- MCSteps
    RecoveryModifiers <- NoRecovery
    Leds <- NoLeds
    LedsOff = ledsOff
    HostHabits <- UsualHost
PROPERTIES
    HostConverges
    PressWakesHost
