---------------------------- MODULE FeatherBridge ----------------------------
(***************************************************************************)
(* The Feather bridge from end to end: the keyboard side of both cores     *)
(* (FeatherSource) and the computer side (UsbKeyboard) around one report   *)
(* pipe, as main.c puts them together.  On core 0 the loop takes an event  *)
(* from the queue between the cores, lets the adapter send and serves      *)
(* TinyUSB, in turns; core 1, the keyboard and the computer go on between  *)
(* any two of these steps.                                                 *)
(*                                                                         *)
(* UsbKeyboard's own source, which publishes and resets at will, is left   *)
(* out: the events of core 1 are the source here.                          *)
(***************************************************************************)
EXTENDS ReportPipeOps

CONSTANTS QueueDepth, KeyboardReports, MaxHubEvents, MaxInterfaces,
          InterruptPreempts, RecoveryModifiers, HostHabits

ASSUME BridgeAssumption ==
    /\ QueueDepth \in Nat \ {0}
    /\ KeyboardReports \subseteq KeyboardStates
    /\ MaxHubEvents \in Nat \ {0} /\ MaxInterfaces \in Nat
    /\ InterruptPreempts \in BOOLEAN
    /\ RecoveryModifiers \subseteq Modifiers
    /\ HostHabits \subseteq {"earlySuspend", "fastEnumeration", "retainsModifiers",
                             "setsIdle", "allowsWakeup"}

VARIABLES
    \* the pipe between the two sides
    pipe,
    \* FeatherSource
    events, task, hook, keyboardMounted, sourceEpoch, lastHostState,
    hostDeviceConfigured, hostStatus, claimed, stage, armed, attached,
    hubEvents, device, interfaces, lost,
    \* UsbKeyboard
    mounted, suspended, remoteWakeupEnabled, wakeRequested, wakeDelayElapsed,
    inFlight, hostLeds, idleReporting, bus, busSuspended, endpoint,
    hostReport, hostEpoch, hostModifiers, sessionLeds, wakeSignals

keyboardSideVars == <<events, task, hook, keyboardMounted, sourceEpoch,
    lastHostState, hostDeviceConfigured, hostStatus, claimed, stage, armed,
    attached, hubEvents, device, interfaces, lost>>
computerSideVars == <<mounted, suspended, remoteWakeupEnabled, wakeRequested,
    wakeDelayElapsed, inFlight, hostLeds, idleReporting, bus, busSuspended,
    endpoint, hostReport, hostEpoch, hostModifiers, sessionLeds, wakeSignals>>
vars == <<pipe, keyboardSideVars, computerSideVars>>

Source == INSTANCE FeatherSource

\* The computer's LEDs never leave the adapter.
Usb == INSTANCE UsbKeyboard WITH
    SourceStates <- KeyboardStates, SourceSteps <- KeyboardStates \X KeyboardStates,
    Leds <- {"off"}, LedsOff <- "off"

Init == Source!Init /\ Usb!Init

KeyboardSide == Source!Next /\ UNCHANGED computerSideVars

ComputerSide == Usb!AdapterAndHost /\ UNCHANGED keyboardSideVars

Next == KeyboardSide \/ ComputerSide

Spec == Init /\ [][Next]_vars

(***************************************************************************)
(* Both cores run, and so does the computer: core 1 goes on with what it   *)
(* has begun and handles what its interrupt saw, core 0's loop serves the  *)
(* queue and the adapter, an awake computer polls.  None of the three has  *)
(* so much to do that one of its duties could keep it from another.        *)
(***************************************************************************)
CoreOneWorks == /\ UNCHANGED computerSideVars
                /\ \/ Source!TaskQueues \/ Source!HookQueues
                   \/ Source!TuhMountCb \/ Source!RemovalIsHandled

CoreZeroWorks == \/ UNCHANGED computerSideVars /\ Source!UsbHostKeyboardTask
                 \/ UNCHANGED keyboardSideVars /\ (Usb!TaskSeesReset \/ Usb!TaskSends)

ComputerPolls == /\ UNCHANGED keyboardSideVars
                 /\ Usb!HostPolls \/ Usb!ReportCompletes

Fairness == WF_vars(CoreOneWorks) /\ WF_vars(CoreZeroWorks) /\ WF_vars(ComputerPolls)

FairSpec == Spec /\ Fairness

-----------------------------------------------------------------------------
(* When nothing is under way any more on either side, the computer holds   *)
(* down what the keyboard holds, and nothing once it is gone, however many *)
(* events and reports were discarded, refused or interrupted on the way    *)
(* from one USB to the other (usb_host_keyboard.c, report_pipe.c and       *)
(* usb_keyboard.c together).                                               *)
QuietBridgeAgrees ==
    Source!Drained /\ lost \subseteq {"any"} /\ Usb!Settled
        => hostReport = BootReport(Source!HeldKeys)

(* To the adapter, the two cores and the queue between them are a source   *)
(* as UsbKeyboard has it: they publish and reset in epochs that never go   *)
(* back and touch nothing else, so what is checked and proved there for    *)
(* every such source holds of the bridge (usb_host_keyboard.c:342-371).    *)
ImplementsAdapter == Usb!Spec

KeyboardActs == Source!DeviceAttaches \/ Source!DeviceIsRemoved \/ Source!DriverXferCb

PluggedInKeys == IF attached THEN Source!HeldKeys ELSE Released

(* Keys do not stick: when the user and the computer leave it alone, the   *)
(* computer comes to see what the keyboard holds and keeps seeing it; for  *)
(* one that was unplugged with keys down, that is nothing.                 *)
ComputerFollowsKeyboard ==
    \/ []<><<Usb!BusDisturbance \/ KeyboardActs>>_vars
    \/ <>("keys" \in lost)
    \/ <>[](Usb!TudMounted /\ ~busSuspended => hostReport = BootReport(PluggedInKeys))
=============================================================================
