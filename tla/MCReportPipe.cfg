SPECIFICATION Spec
CONSTANTS
    shift = shift
    keyA = keyA
    keyB = keyB
    Modifiers <- MCModifiers
    ForwardedKeys <- MCKeys
    UnforwardedKeys = {}
    SourceErrors = {}
    BootKeyCount = 6
    ErrorRollOver = rollOver
    ForwardSourceErrors = FALSE
    Capacity = 4
    MaxEpoch = 2
    RecoveryMasks <- MCRecovery
    SourceSteps <- MCSteps
INVARIANTS
    TypeOK
    EndsOnLatest
    SkipsOnlyAcrossRelease
