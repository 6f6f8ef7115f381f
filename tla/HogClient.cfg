SPECIFICATION FairSpec
CONSTANTS
    g915 = g915
    other = other
    handleA = handleA
    handleB = handleB
    keyA = keyA
    mediaKey = mediaKey
    firstReport = firstReport
    secondReport = secondReport
    Modifiers = {}
    ForwardedKeys <- MCKeys
    UnforwardedKeys <- MCOtherKeys
    SourceErrors = {}
    BootKeyCount = 6
    ErrorRollOver = rollOver
    ForwardSourceErrors = FALSE
    Capacity = 3
    MaxEpoch = 3
    ReportKeys <- MCReportKeys
    MaxFragments = 2
    Peers <- MCPeers
    NoPeer = noPeer
    Incompatible = incompatible
    Handles <- MCHandles
    NoHandle = noHandle
    Reports <- MCReports
    RetryInitial = 1
    RetryMax = 2
    LastEpoch = 3
INVARIANTS
    TypeOK
    ReadyIsApproved
    ForgottenStaysOut
    PipeShowsKeyboard
    NoLinkIsOrphaned
    EveryWaitEnds
PROPERTIES
    ApprovalSurvives
    NeverGivesUp
