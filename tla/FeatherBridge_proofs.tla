------------------------ MODULE FeatherBridge_proofs ------------------------
(***************************************************************************)
(* The Feather bridge from end to end, for every keyboard, queue, ring,    *)
(* number of epochs, recovery and computer: what FeatherSource_proofs and  *)
(* UsbKeyboard_proofs show of its two sides, put together.                 *)
(***************************************************************************)
EXTENDS FeatherBridge, ReportPipeOps_proofs

\* FeatherBridge's instances again, for the theorems about them.
SourceFacts == INSTANCE FeatherSource_proofs

UsbFacts == INSTANCE UsbKeyboard_proofs WITH
    SourceStates <- KeyboardStates, SourceSteps <- KeyboardStates \X KeyboardStates,
    Leds <- {"off"}, LedsOff <- "off"

\* Each side keeps its invariant, around the one pipe.
BridgeInv == SourceFacts!IInv /\ UsbFacts!IInv

-----------------------------------------------------------------------------
(* Both instances of each side are the same specification.                 *)

(* The keyboard side.                                                      *)
LEMMA OneSource ==
    /\ Source!Init <=> SourceFacts!Init
    /\ Source!Next <=> SourceFacts!Next
<1>1. Source!Init <=> SourceFacts!Init
  BY ZenonT(40) DEF
       Source!Released, SourceFacts!Released, Source!InitialPipe,
       SourceFacts!InitialPipe, Source!Idle, SourceFacts!Idle, Source!Calls,
       SourceFacts!Calls, Source!Init, SourceFacts!Init
<1>2. Source!Next <=> SourceFacts!Next
  BY ZenonT(40) DEF
       Source!Released, SourceFacts!Released, Source!HasNewPress,
       SourceFacts!HasNewPress, Source!FilterForBootReport,
       SourceFacts!FilterForBootReport, Source!Item, SourceFacts!Item,
       Source!ClearItems, SourceFacts!ClearItems, Source!AppendItem,
       SourceFacts!AppendItem, Source!AppendLatestIfHeld,
       SourceFacts!AppendLatestIfHeld, Source!EnqueueResync,
       SourceFacts!EnqueueResync, Source!RequestResync,
       SourceFacts!RequestResync, Source!BeginEpoch, SourceFacts!BeginEpoch,
       Source!RecordChange, SourceFacts!RecordChange, Source!PublishCurrent,
       SourceFacts!PublishCurrent, Source!Publish, SourceFacts!Publish,
       Source!SourceReset, SourceFacts!SourceReset, Source!queueVars,
       SourceFacts!queueVars, Source!contextVars, SourceFacts!contextVars,
       Source!coreOneVars, SourceFacts!coreOneVars, Source!coreZeroVars,
       SourceFacts!coreZeroVars, Source!driverVars, SourceFacts!driverVars,
       Source!deviceVars, SourceFacts!deviceVars, Source!StatusKinds,
       SourceFacts!StatusKinds, Source!SourceEvent, SourceFacts!SourceEvent,
       Source!StatusEvent, SourceFacts!StatusEvent, Source!Idle,
       SourceFacts!Idle, Source!Calls, SourceFacts!Calls, Source!TaskIsFree,
       SourceFacts!TaskIsFree, Source!InterruptIsFree,
       SourceFacts!InterruptIsFree, Source!QueueIsFull, SourceFacts!QueueIsFull,
       Source!Finished, SourceFacts!Finished, Source!TellsKeys,
       SourceFacts!TellsKeys, Source!LossOfOldest, SourceFacts!LossOfOldest,
       Source!TryAdd, SourceFacts!TryAdd, Source!AddIsRefused,
       SourceFacts!AddIsRefused, Source!TryRemove, SourceFacts!TryRemove,
       Source!TryAddAgain, SourceFacts!TryAddAgain,
       Source!QueueEvent, SourceFacts!QueueEvent,
       Source!TaskQueues, SourceFacts!TaskQueues, Source!HookQueues,
       SourceFacts!HookQueues, Source!TuhEventHookCb,
       SourceFacts!TuhEventHookCb, Source!DeviceAttaches,
       SourceFacts!DeviceAttaches, Source!DeviceIsRemoved,
       SourceFacts!DeviceIsRemoved, Source!EnumerationStarts,
       SourceFacts!EnumerationStarts, Source!DriverOpen, SourceFacts!DriverOpen,
       Source!ArmReceive, SourceFacts!ArmReceive, Source!ResetSource,
       SourceFacts!ResetSource, Source!BootKeyboardHostMountCb,
       SourceFacts!BootKeyboardHostMountCb, Source!CompleteConfiguration,
       SourceFacts!CompleteConfiguration, Source!AwaitRequest,
       SourceFacts!AwaitRequest, Source!DriverSetConfig,
       SourceFacts!DriverSetConfig, Source!ProcessSetConfig,
       SourceFacts!ProcessSetConfig, Source!TuhMountCb, SourceFacts!TuhMountCb,
       Source!DecodeBootReport, SourceFacts!DecodeBootReport,
       Source!BootKeyboardHostReportCb, SourceFacts!BootKeyboardHostReportCb,
       Source!DriverXferCb, SourceFacts!DriverXferCb,
       Source!BootKeyboardHostUmountCb, SourceFacts!BootKeyboardHostUmountCb,
       Source!DriverClose, SourceFacts!DriverClose, Source!TuhUmountCb,
       SourceFacts!TuhUmountCb, Source!RemovalIsHandled,
       SourceFacts!RemovalIsHandled, Source!PipeAfter, SourceFacts!PipeAfter,
       Source!StatusAfter, SourceFacts!StatusAfter, Source!UsbHostKeyboardTask,
       SourceFacts!UsbHostKeyboardTask, Source!Next, SourceFacts!Next
<1> QED
  BY <1>1, <1>2

(* What the two sides and the bridge send for a state.                     *)
LEMMA SameReports ==
    /\ \A state : /\ Usb!BootReport(state) = BootReport(state)
                  /\ UsbFacts!BootReport(state) = BootReport(state)
    /\ Usb!BlankReport = UsbFacts!BlankReport
    /\ Usb!EmptyEndpoint = UsbFacts!EmptyEndpoint
<1>1. ASSUME NEW state
      PROVE  /\ Usb!BootReport(state) = BootReport(state)
             /\ UsbFacts!BootReport(state) = BootReport(state)
  BY ZenonT(40) DEF BootReport, Usb!BootReport, UsbFacts!BootReport,
               Cardinality, Usb!Cardinality, UsbFacts!Cardinality
<1>2. Usb!BlankReport = UsbFacts!BlankReport
  BY <1>1 DEF Usb!BlankReport, UsbFacts!BlankReport, Usb!Released, UsbFacts!Released
<1>3. Usb!EmptyEndpoint = UsbFacts!EmptyEndpoint
  BY <1>2 DEF Usb!EmptyEndpoint, UsbFacts!EmptyEndpoint
<1> QED
  BY <1>1, <1>2, <1>3

(* The computer side.                                                      *)
LEMMA OneAdapter ==
    /\ Usb!Init <=> UsbFacts!Init
    /\ Usb!AdapterAndHost <=> UsbFacts!AdapterAndHost
    /\ [Usb!Next]_(Usb!vars) <=> [UsbFacts!Next]_(UsbFacts!vars)
<1> USE DEF
     Usb!Released, UsbFacts!Released, Usb!Epochs, UsbFacts!Epochs, Usb!Item,
     UsbFacts!Item, Usb!ClearItems, UsbFacts!ClearItems, Usb!AppendItem,
     UsbFacts!AppendItem, Usb!AppendLatestIfHeld, UsbFacts!AppendLatestIfHeld,
     Usb!EnqueueResync, UsbFacts!EnqueueResync, Usb!RequestResync,
     UsbFacts!RequestResync, Usb!SetActive, UsbFacts!SetActive, Usb!BeginEpoch,
     UsbFacts!BeginEpoch, Usb!Pop, UsbFacts!Pop, Usb!TakeWakeRequest,
     UsbFacts!TakeWakeRequest, Usb!adapterVars, UsbFacts!adapterVars,
     Usb!hostVars, UsbFacts!hostVars, Usb!busVars, UsbFacts!busVars,
     Usb!TudMounted, UsbFacts!TudMounted, Usb!TudHidReady, UsbFacts!TudHidReady,
     Usb!EpochsFrom, UsbFacts!EpochsFrom, Usb!ForgetSession,
     UsbFacts!ForgetSession, Usb!MaySend, UsbFacts!MaySend, Usb!Dequeued,
     UsbFacts!Dequeued, Usb!NothingToReport, UsbFacts!NothingToReport,
     Usb!SessionEnds, UsbFacts!SessionEnds
<1>1. Usb!Init <=> UsbFacts!Init
  BY SameReports DEF
       Usb!InitialPipe, UsbFacts!InitialPipe, Usb!Init, UsbFacts!Init
<1>2. Usb!SourcePublishes <=> UsbFacts!SourcePublishes
  BY ZenonT(40) DEF
       Usb!HasNewPress, UsbFacts!HasNewPress, Usb!RecordChange, UsbFacts!RecordChange,
       Usb!PublishCurrent, UsbFacts!PublishCurrent, Usb!Publish, UsbFacts!Publish,
       Usb!SourcePublishes, UsbFacts!SourcePublishes
<1>3. Usb!SourceResets <=> UsbFacts!SourceResets
  BY ZenonT(40) DEF
       Usb!SourceReset, UsbFacts!SourceReset, Usb!SourceResets, UsbFacts!SourceResets
<1>4. Usb!TaskIsRefused <=> UsbFacts!TaskIsRefused
  BY ZenonT(40) DEF Usb!TaskIsRefused, UsbFacts!TaskIsRefused
<1>5. Usb!ReportFails <=> UsbFacts!ReportFails
  BY SameReports DEF
       Usb!TudHidReportFailedCb, UsbFacts!TudHidReportFailedCb, Usb!ReportFails,
       UsbFacts!ReportFails
<1>6. Usb!BusResets <=> UsbFacts!BusResets
  BY SameReports DEF Usb!BusResets, UsbFacts!BusResets
<1>7. Usb!HostLeaves <=> UsbFacts!HostLeaves
  BY SameReports DEF
       Usb!TudUmountCb, UsbFacts!TudUmountCb, Usb!HostLeaves, UsbFacts!HostLeaves
<1>8. Usb!HostAddresses <=> UsbFacts!HostAddresses
  BY ZenonT(40) DEF Usb!HostAddresses, UsbFacts!HostAddresses
<1>9. Usb!HostConfigures <=> UsbFacts!HostConfigures
  BY ZenonT(40) DEF
       Usb!RequestModifierRecovery, UsbFacts!RequestModifierRecovery, Usb!TudMountCb,
       UsbFacts!TudMountCb, Usb!HostConfigures, UsbFacts!HostConfigures
<1>10. Usb!HostSuspends <=> UsbFacts!HostSuspends
  BY ZenonT(40) DEF
       Usb!TudSuspendCb, UsbFacts!TudSuspendCb, Usb!HostSuspends, UsbFacts!HostSuspends
<1>11. Usb!HostResumes <=> UsbFacts!HostResumes
  BY ZenonT(40) DEF
       Usb!TudResumeCb, UsbFacts!TudResumeCb, Usb!HostResumes, UsbFacts!HostResumes
<1>12. Usb!HostSetsProtocol <=> UsbFacts!HostSetsProtocol
  BY ZenonT(40) DEF
       Usb!TudHidSetProtocolCb, UsbFacts!TudHidSetProtocolCb, Usb!HostSetsProtocol,
       UsbFacts!HostSetsProtocol
<1>13. Usb!TaskSeesReset <=> UsbFacts!TaskSeesReset
  BY ZenonT(40) DEF Usb!TaskSeesReset, UsbFacts!TaskSeesReset
<1>14. Usb!TaskWakesHost <=> UsbFacts!TaskWakesHost
  BY ZenonT(40) DEF Usb!TaskWakesHost, UsbFacts!TaskWakesHost
<1>15. Usb!WakeDelayElapses <=> UsbFacts!WakeDelayElapses
  BY ZenonT(40) DEF Usb!WakeDelayElapses, UsbFacts!WakeDelayElapses
<1>16. Usb!TaskSends <=> UsbFacts!TaskSends
  BY SameReports DEF
       Usb!PendingItem, UsbFacts!PendingItem, Usb!TaskSends, UsbFacts!TaskSends
<1>17. Usb!HostPolls <=> UsbFacts!HostPolls
  BY ZenonT(40) DEF Usb!HostPolls, UsbFacts!HostPolls
<1>18. Usb!ReportCompletes <=> UsbFacts!ReportCompletes
  BY SameReports DEF
       Usb!Acknowledge, UsbFacts!Acknowledge, Usb!TudHidReportCompleteCb,
       UsbFacts!TudHidReportCompleteCb, Usb!ReportCompletes, UsbFacts!ReportCompletes
<1>19. Usb!HostSetsIdle <=> UsbFacts!HostSetsIdle
  BY ZenonT(40) DEF Usb!TudHidSetIdleCb, UsbFacts!TudHidSetIdleCb, Usb!HostSetsIdle,
       UsbFacts!HostSetsIdle
<1>20. Usb!HostSetsLeds <=> UsbFacts!HostSetsLeds
  BY ZenonT(40) DEF
       Usb!TudHidSetReportCb, UsbFacts!TudHidSetReportCb, Usb!HostSetsLeds,
       UsbFacts!HostSetsLeds
<1>21. UNCHANGED Usb!vars <=> UNCHANGED UsbFacts!vars
  BY ZenonT(40) DEF Usb!vars, UsbFacts!vars
<1>22. Usb!AdapterAndHost <=> UsbFacts!AdapterAndHost
  BY <1>4, <1>5, <1>6, <1>7, <1>8, <1>9, <1>10, <1>11, <1>12, <1>13, <1>14,
     <1>15, <1>16, <1>17, <1>18, <1>19, <1>20
     DEF Usb!AdapterAndHost, UsbFacts!AdapterAndHost,
         Usb!BusDisturbance, UsbFacts!BusDisturbance
<1>23. Usb!Next <=> UsbFacts!Next
  BY <1>2, <1>3, <1>22 DEF Usb!Next, UsbFacts!Next
<1> QED
  BY <1>1, <1>21, <1>22, <1>23

(* What the pipe's functions return is the same for both sides.            *)
LEMMA OnePipe ==
    ASSUME NEW p
    PROVE  /\ SourceFacts!SoundPipe(p) <=> SoundPipe(p)
           /\ UsbFacts!SoundPipe(p) <=> SoundPipe(p)
           /\ \A state, epoch :
                /\ SourceFacts!Publish(p, state, epoch)
                     = UsbFacts!Publish(p, state, epoch)
                /\ SourceFacts!SourceReset(p, epoch) = UsbFacts!SourceReset(p, epoch)
<1>1. /\ SourceFacts!SoundPipe(p) <=> SoundPipe(p)
      /\ UsbFacts!SoundPipe(p) <=> SoundPipe(p)
  BY ZenonT(40) DEF SoundPipe, SourceFacts!SoundPipe, UsbFacts!SoundPipe,
       KeyboardStates, SourceFacts!KeyboardStates, UsbFacts!KeyboardStates,
       Usages, SourceFacts!Usages, UsbFacts!Usages, Epochs, SourceFacts!Epochs,
       UsbFacts!Epochs, Items, SourceFacts!Items, UsbFacts!Items, Pipes,
       SourceFacts!Pipes, UsbFacts!Pipes, Item, SourceFacts!Item, UsbFacts!Item
<1>2. ASSUME NEW state, NEW epoch
      PROVE  /\ SourceFacts!Publish(p, state, epoch)
                  = UsbFacts!Publish(p, state, epoch)
             /\ SourceFacts!SourceReset(p, epoch) = UsbFacts!SourceReset(p, epoch)
  BY ZenonT(40) DEF
       SourceFacts!Released, UsbFacts!Released, SourceFacts!HasNewPress,
       UsbFacts!HasNewPress, SourceFacts!Item, UsbFacts!Item,
       SourceFacts!ClearItems, UsbFacts!ClearItems, SourceFacts!AppendItem,
       UsbFacts!AppendItem, SourceFacts!AppendLatestIfHeld,
       UsbFacts!AppendLatestIfHeld, SourceFacts!EnqueueResync,
       UsbFacts!EnqueueResync, SourceFacts!RequestResync,
       UsbFacts!RequestResync, SourceFacts!BeginEpoch, UsbFacts!BeginEpoch,
       SourceFacts!RecordChange, UsbFacts!RecordChange,
       SourceFacts!PublishCurrent, UsbFacts!PublishCurrent, SourceFacts!Publish,
       UsbFacts!Publish, SourceFacts!SourceReset, UsbFacts!SourceReset
<1> QED
  BY <1>1, <1>2

-----------------------------------------------------------------------------
(* The invariant holds at first and is kept by every step.                 *)

(* Both bridges' sides start around an empty, inactive pipe.               *)
LEMMA InitBridge == Init => BridgeInv
<1> SUFFICES ASSUME Init PROVE BridgeInv
  OBVIOUS
<1>1. SourceFacts!Init /\ UsbFacts!Init
  BY OneSource, OneAdapter DEF Init
<1>2. SourceFacts!IInv
  BY <1>1, SourceFacts!InitIInv, BridgeAssumption, UsagesAssumption, PipeAssumption
     DEF SourceFacts!KeyboardStates, SourceFacts!Usages, KeyboardStates, Usages
<1>3. UsbFacts!IInv
  BY <1>1, UsbFacts!InitIInv, BridgeAssumption, UsagesAssumption, PipeAssumption
     DEF UsbFacts!KeyboardStates, UsbFacts!Usages, KeyboardStates, Usages, UsbFacts!Habits
<1> QED
  BY <1>2, <1>3 DEF BridgeInv

(* What core 0 takes from the queue is published in an epoch that is not   *)
(* behind the pipe's, and the rest of the keyboard side leaves the pipe.   *)
LEMMA KeyboardSideIsSource ==
    ASSUME BridgeInv, KeyboardSide
    PROVE  \/ UsbFacts!SourcePublishes \/ UsbFacts!SourceResets
           \/ UNCHANGED UsbFacts!vars
<1>1. SourceFacts!Next /\ UNCHANGED computerSideVars
  BY OneSource DEF KeyboardSide
<1>2. UNCHANGED <<UsbFacts!adapterVars, UsbFacts!busVars, UsbFacts!hostVars>>
  BY <1>1 DEF computerSideVars, UsbFacts!adapterVars, UsbFacts!busVars, UsbFacts!hostVars
<1>3. CASE SourceFacts!UsbHostKeyboardTask
  <2> DEFINE event == Head(events)
  <2>1. /\ event.epoch \in UsbFacts!EpochsFrom(pipe.epoch)
        /\ event.state \in KeyboardStates
    <3>1. events # << >> /\ events \in Seq(SourceFacts!SourceEvents)
      BY <1>3 DEF SourceFacts!UsbHostKeyboardTask, BridgeInv, SourceFacts!IInv,
                  SourceFacts!TypeOK
    <3>2. event = events[1] /\ event \in SourceFacts!SourceEvents /\ 1 \in 1 .. Len(events)
      BY <3>1
    <3>3. event.epoch >= pipe.epoch
      BY <3>2 DEF BridgeInv, SourceFacts!IInv, SourceFacts!OrderInv, SourceFacts!Between
    <3> QED
      BY <3>2, <3>3 DEF SourceFacts!SourceEvents, SourceFacts!Epochs, UsbFacts!Epochs,
                        UsbFacts!EpochsFrom, SourceFacts!KeyboardStates,
                        SourceFacts!Usages, KeyboardStates, Usages
  <2>2. \/ pipe' = UsbFacts!SourceReset(pipe, event.epoch)
        \/ pipe' = UsbFacts!Publish(pipe, event.state, event.epoch)
        \/ pipe' = pipe
    BY <1>3, OnePipe DEF SourceFacts!UsbHostKeyboardTask, SourceFacts!PipeAfter
  <2>3. CASE pipe' = UsbFacts!SourceReset(pipe, event.epoch)
    BY <1>2, <2>1, <2>3 DEF UsbFacts!SourceResets
  <2>4. CASE pipe' = UsbFacts!Publish(pipe, event.state, event.epoch)
    <3>1. pipe.latest \in KeyboardStates
      BY OnePipe DEF BridgeInv, UsbFacts!IInv, SoundPipe, Pipes
    <3>2. <<pipe.latest, event.state>> \in KeyboardStates \X KeyboardStates
      BY <2>1, <3>1
    <3> QED
      BY <1>2, <2>1, <2>4, <3>2 DEF UsbFacts!SourcePublishes
  <2>5. CASE pipe' = pipe
    BY <1>2, <2>5 DEF UsbFacts!vars
  <2> QED
    BY <2>2, <2>3, <2>4, <2>5
<1>4. CASE ~SourceFacts!UsbHostKeyboardTask
  <2>1. UNCHANGED pipe
    BY <1>1, <1>4 DEF SourceFacts!Next, SourceFacts!coreZeroVars,
       SourceFacts!TaskQueues, SourceFacts!HookQueues,
       SourceFacts!DeviceAttaches, SourceFacts!DeviceIsRemoved,
       SourceFacts!EnumerationStarts, SourceFacts!DriverOpen,
       SourceFacts!DriverSetConfig, SourceFacts!ProcessSetConfig,
       SourceFacts!TuhMountCb, SourceFacts!DriverXferCb,
       SourceFacts!RemovalIsHandled, SourceFacts!TuhEventHookCb,
       SourceFacts!AwaitRequest, SourceFacts!CompleteConfiguration
  <2> QED
    BY <1>2, <2>1 DEF UsbFacts!vars
<1> QED
  BY <1>3, <1>4

(* A step of the keyboard side.                                            *)
LEMMA KeyboardSideKeeps ==
    ASSUME BridgeInv, KeyboardSide
    PROVE  BridgeInv'
<1>1. SourceFacts!IInv'
  <2>1. SourceFacts!IInv /\ SourceFacts!Next
    BY OneSource DEF KeyboardSide, BridgeInv
  <2> QED
    BY <2>1, SourceFacts!NextIInv, BridgeAssumption, UsagesAssumption, PipeAssumption
       DEF SourceFacts!KeyboardStates, SourceFacts!Usages, KeyboardStates, Usages
<1>2. UsbFacts!IInv'
  <2>1. UsbFacts!IInv /\ [UsbFacts!Next]_(UsbFacts!vars)
    BY KeyboardSideIsSource DEF BridgeInv, UsbFacts!Next
  <2> QED
    BY <2>1, UsbFacts!NextIInv, BridgeAssumption, UsagesAssumption, PipeAssumption
       DEF UsbFacts!KeyboardStates, UsbFacts!Usages, KeyboardStates, Usages,
           UsbFacts!Habits
<1> QED
  BY <1>1, <1>2 DEF BridgeInv

(* A step of the adapter, the bus or the computer.                         *)
LEMMA ComputerSideKeeps ==
    ASSUME BridgeInv, ComputerSide
    PROVE  BridgeInv'
<1>1. UsbFacts!IInv /\ UsbFacts!AdapterAndHost /\ UNCHANGED keyboardSideVars
  BY OneAdapter DEF ComputerSide, BridgeInv
<1>2. UsbFacts!IInv'
  BY <1>1, UsbFacts!NextIInv, BridgeAssumption, UsagesAssumption, PipeAssumption
     DEF UsbFacts!KeyboardStates, UsbFacts!Usages, KeyboardStates, Usages,
         UsbFacts!Habits, UsbFacts!Next
<1>3. pipe'.latest = pipe.latest /\ pipe'.epoch = pipe.epoch
  BY <1>1, UsbFacts!LatestIsLeft, BridgeAssumption, UsagesAssumption, PipeAssumption
     DEF UsbFacts!KeyboardStates, UsbFacts!Usages, KeyboardStates, Usages,
         UsbFacts!Habits
<1>4. SourceFacts!SoundPipe(pipe')
  BY <1>2, OnePipe DEF UsbFacts!IInv
<1>5. UNCHANGED <<SourceFacts!queueVars, SourceFacts!contextVars,
                  SourceFacts!coreOneVars, hostStatus,
                  SourceFacts!driverVars, SourceFacts!deviceVars>>
  BY <1>1 DEF keyboardSideVars, SourceFacts!queueVars, SourceFacts!contextVars,
              SourceFacts!coreOneVars, SourceFacts!driverVars, SourceFacts!deviceVars
<1>6. SourceFacts!IInv'
  BY <1>3, <1>4, <1>5, SourceFacts!SendingStep,
     BridgeAssumption, UsagesAssumption, PipeAssumption
     DEF BridgeInv, SourceFacts!KeyboardStates, SourceFacts!Usages, KeyboardStates, Usages
<1> QED
  BY <1>2, <1>6 DEF BridgeInv

(* Every step.                                                             *)
LEMMA NextBridge == BridgeInv /\ [Next]_vars => BridgeInv'
<1> SUFFICES ASSUME BridgeInv, [Next]_vars PROVE BridgeInv'
  OBVIOUS
<1>1. CASE UNCHANGED vars
  <2>1. UNCHANGED SourceFacts!vars /\ UNCHANGED UsbFacts!vars
    BY <1>1 DEF vars, keyboardSideVars, computerSideVars, SourceFacts!vars,
       SourceFacts!queueVars, SourceFacts!contextVars, SourceFacts!coreOneVars,
       SourceFacts!coreZeroVars, SourceFacts!driverVars, SourceFacts!deviceVars,
       UsbFacts!vars, UsbFacts!adapterVars, UsbFacts!busVars, UsbFacts!hostVars
  <2>2. SourceFacts!IInv'
    BY <2>1, SourceFacts!NextIInv, BridgeAssumption, UsagesAssumption, PipeAssumption
       DEF BridgeInv, SourceFacts!KeyboardStates, SourceFacts!Usages, KeyboardStates, Usages
  <2>3. UsbFacts!IInv'
    BY <2>1, UsbFacts!NextIInv, BridgeAssumption, UsagesAssumption, PipeAssumption
       DEF BridgeInv, UsbFacts!KeyboardStates, UsbFacts!Usages, KeyboardStates, Usages,
           UsbFacts!Habits
  <2> QED
    BY <2>2, <2>3 DEF BridgeInv
<1> QED
  BY <1>1, KeyboardSideKeeps, ComputerSideKeeps DEF Next

(* Both sides' invariants hold of the bridge, around their one pipe.       *)
THEOREM BridgeInvariance == Spec => []BridgeInv
BY InitBridge, NextBridge, PTL DEF Spec

-----------------------------------------------------------------------------
(* What it implies.                                                        *)

(* The two cores and the queue between them are such a source as           *)
(* UsbKeyboard has: in epochs that never go back they publish and reset,   *)
(* and touch nothing else of the adapter's (usb_host_keyboard.c:342-371).  *)
THEOREM BridgeIsAdapter == Spec => ImplementsAdapter
<1>1. Init => UsbFacts!Init
  BY OneAdapter DEF Init
<1>2. BridgeInv /\ [Next]_vars => [UsbFacts!Next]_(UsbFacts!vars)
  <2> SUFFICES ASSUME BridgeInv, [Next]_vars PROVE [UsbFacts!Next]_(UsbFacts!vars)
    OBVIOUS
  <2>1. CASE KeyboardSide
    BY <2>1, KeyboardSideIsSource DEF UsbFacts!Next
  <2>2. CASE ComputerSide
    BY <2>2, OneAdapter DEF ComputerSide, UsbFacts!Next
  <2>3. CASE UNCHANGED vars
    BY <2>3 DEF vars, computerSideVars,
       UsbFacts!vars, UsbFacts!adapterVars, UsbFacts!busVars, UsbFacts!hostVars
  <2> QED
    BY <2>1, <2>2, <2>3 DEF Next
<1> QED
  BY <1>1, <1>2, OneAdapter, BridgeInvariance, PTL
     DEF Spec, Usb!Spec, ImplementsAdapter

(* Keys do not stick and presses are not lost: once nothing is under way   *)
(* on either side, the computer holds down what the keyboard holds, for    *)
(* recovering bridges and for computers that neither suspend a device they *)
(* have not configured nor outrun the task (usb_host_keyboard.c,           *)
(* report_pipe.c and usb_keyboard.c together).                             *)
THEOREM QuietBridgesAgree ==
    ASSUME UsbFacts!Recovers
    PROVE  Spec => []QuietBridgeAgrees
<1>1. ASSUME BridgeInv PROVE QuietBridgeAgrees
  <2> SUFFICES ASSUME Source!Drained, lost \subseteq {"any"}, Usb!Settled
               PROVE  hostReport = BootReport(Source!HeldKeys)
    BY DEF QuietBridgeAgrees
  <2>1. pipe.latest = Source!HeldKeys
    <3>1. SourceFacts!KeysInv
      BY <1>1 DEF BridgeInv, SourceFacts!IInv
    <3>2. /\ task.calls = << >> /\ events = << >>
      BY DEF Source!Drained, Source!Idle, Source!Calls
    <3>3. \A kinds, event : /\ ~SourceFacts!LastOf(task.calls, kinds, event)
                            /\ ~SourceFacts!LastOf(events, kinds, event)
      BY <3>2 DEF SourceFacts!LastOf
    <3> QED
      BY <3>1, <3>3 DEF SourceFacts!KeysInv, SourceFacts!HeldKeys, Source!HeldKeys,
                        SourceFacts!Released, Source!Released
  <2>2. hostReport = UsbFacts!BootReport(pipe.latest)
    BY <1>1 DEF BridgeInv, UsbFacts!IInv, UsbFacts!BusInv, UsbFacts!SentInv,
                UsbFacts!Watched, UsbFacts!LastSent, UsbFacts!TudMounted,
                Usb!Settled, Usb!TudMounted
  <2> QED
    BY <2>1, <2>2, SameReports
<1> QED
  BY <1>1, BridgeInvariance, PTL
=============================================================================
