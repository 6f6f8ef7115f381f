---------------------------- MODULE FeatherSource ----------------------------
(***************************************************************************)
(* The keyboard side of the Feather bridge: usb_host_keyboard.c on both    *)
(* cores and the boot keyboard driver, boot_keyboard_host.c, below it.     *)
(* Core 1 runs TinyUSB's host task, whose callbacks turn what the keyboard *)
(* does into source events; core 0 takes the events from a bounded queue   *)
(* between the cores and feeds the report pipe.                            *)
(*                                                                         *)
(* Each operation on the queue is atomic (the SDK takes a spin lock with   *)
(* interrupts off), but queue_event makes up to three of them, and between *)
(* any two core 0 may run and, on core 1, an interrupt may call            *)
(* tuh_event_hook_cb, which calls queue_event itself.  So a callback runs  *)
(* in one step up to its first queue operation, and then takes a step for  *)
(* each; the variables it sets first are not touched by the interrupt.     *)
(*                                                                         *)
(* One device at a time (CFG_TUH_DEVICE_MAX, no hub).  Left out: vid, pid, *)
(* counters of interfaces and failures, and frame gaps, which are printed  *)
(* and decide nothing.                                                     *)
(***************************************************************************)
EXTENDS ReportPipeOps

CONSTANTS
    QueueDepth,          \* SOURCE_EVENT_QUEUE_DEPTH
    KeyboardReports,     \* the usages the reports of the keyboard list
    MaxHubEvents,        \* bound: attach and remove events TinyUSB may have pending
    MaxInterfaces,       \* bound: HID interfaces of a device
    InterruptPreempts    \* whether an interrupt may find a queue_event under way

ASSUME SourceQueueAssumption ==
    /\ QueueDepth \in Nat \ {0}
    /\ KeyboardReports \subseteq KeyboardStates
    /\ MaxHubEvents \in Nat \ {0} /\ MaxInterfaces \in Nat
    /\ InterruptPreempts \in BOOLEAN

VARIABLES
    events,                \* source_events
    task,                  \* core 1: the queue_event calls the callback still makes
    hook,                  \* core 1, interrupt: the same for tuh_event_hook_cb
    keyboardMounted,       \* keyboard_dev_addr # 0
    sourceEpoch,           \* source_epoch
    lastHostState,         \* <<last_host_state>> when valid, else << >>
    hostDeviceConfigured,  \* host_device_configured, and the steering it sets
    hostStatus,            \* core 0: host_status
    pipe,                  \* core 0: the report pipe
    claimed,               \* driver: keyboard.dev_addr # 0
    stage,                 \* driver: the class request it waits for
    armed,                 \* driver: the IN endpoint has a transfer
    attached,              \* a device is plugged in
    hubEvents,             \* TinyUSB: attaches and removals not handled yet
    device,                \* TinyUSB: how far it is with the device
    interfaces,            \* TinyUSB: HID interfaces it has opened
    lost                   \* ghost: what queue_event has lost so far

queueVars == <<events, lost>>
contextVars == <<task, hook>>
coreOneVars == <<keyboardMounted, sourceEpoch, lastHostState, hostDeviceConfigured>>
coreZeroVars == <<hostStatus, pipe>>
driverVars == <<claimed, stage, armed>>
deviceVars == <<attached, hubEvents, device, interfaces>>
vars == <<queueVars, contextVars, coreOneVars, coreZeroVars, driverVars, deviceVars>>

StatusKinds == {"WAITING", "ATTACHED", "CONFIGURED", "READY"}

EventKinds == StatusKinds \cup {"RESET", "STATE", "HID_INTERFACE"}

SourceEvents == [kind : EventKinds, state : KeyboardStates, epoch : Epochs]

SourceEvent(kind, state, epoch) == [kind |-> kind, state |-> state, epoch |-> epoch]

StatusEvent(kind, epoch) == SourceEvent(kind, Released, epoch)

\* A context on core 1: the events it has to queue, and the operation that
\* queue_event makes next for the first of them.
Contexts == [calls : Seq(SourceEvents), next : {"add", "remove", "addAgain"}]

Calls(someEvents) == [calls |-> someEvents, next |-> "add"]

Idle == Calls(<< >>)

\* Core 1 runs one thing at a time: callbacks of the host task, interrupted
\* by the hook, which runs to its end.  The driver's mount callback is
\* followed by tuh_mount_cb in the same call.
TaskIsFree == task = Idle /\ hook = Idle /\ device # "mounting"
InterruptIsFree == hook = Idle /\ (InterruptPreempts \/ task = Idle)

Init ==
    /\ events = << >> /\ task = Idle /\ hook = Idle /\ lost = {}
    /\ keyboardMounted = FALSE /\ sourceEpoch = 0 /\ lastHostState = << >>
    /\ hostDeviceConfigured = FALSE
    /\ hostStatus = "WAITING" /\ pipe = InitialPipe
    /\ claimed = FALSE /\ stage = "none" /\ armed = FALSE
    /\ attached = FALSE /\ hubEvents = << >> /\ device = "none" /\ interfaces = 0

-----------------------------------------------------------------------------
(* queue_event, one queue operation at a time                              *)

QueueIsFull == Len(events) = QueueDepth

Finished(context) == Calls(Tail(context.calls))

TellsKeys(event) == event.kind \in {"RESET", "STATE"}

\* What is lost with the oldest event: "keys" when no later one tells them.
\* The interrupt's events never do.
LossOfOldest ==
    LET later == Tail(events) \o task.calls IN
    {"any"} \cup
    IF TellsKeys(Head(events)) /\ ~\E i \in 1 .. Len(later) : TellsKeys(later[i])
    THEN {"keys"} ELSE {}

\* Adds to a full queue.
TryAddSlip(context) ==
    /\ context.calls # << >> /\ context.next = "add"
    /\ events' = Append(events, Head(context.calls))
    /\ UNCHANGED lost

TryAdd(context) ==
    /\ context.calls # << >> /\ context.next = "add"
    /\ ~QueueIsFull
    /\ events' = Append(events, Head(context.calls))
    /\ UNCHANGED lost

AddIsRefused(context) ==
    /\ context.calls # << >> /\ context.next = "add"
    /\ QueueIsFull
    /\ UNCHANGED queueVars

\* Removes whatever is oldest by now, if core 0 has left anything.
TryRemove(context) ==
    /\ context.calls # << >> /\ context.next = "remove"
    /\ IF events = << >> THEN UNCHANGED queueVars
       ELSE events' = Tail(events) /\ lost' = lost \cup LossOfOldest

\* The result of the second queue_try_add is ignored.
TryAddAgain(context) ==
    /\ context.calls # << >> /\ context.next = "addAgain"
    /\ events' = IF QueueIsFull THEN events ELSE Append(events, Head(context.calls))
    /\ lost' = IF QueueIsFull THEN lost \cup {"any", "newest"} ELSE lost

QueueEvent(context, after) ==
    \/ TryAdd(context) /\ after = Finished(context)
    \/ AddIsRefused(context) /\ after = [context EXCEPT !.next = "remove"]
    \/ TryRemove(context) /\ after = [context EXCEPT !.next = "addAgain"]
    \/ TryAddAgain(context) /\ after = Finished(context)

TaskQueues ==
    /\ hook = Idle /\ QueueEvent(task, task')
    /\ UNCHANGED <<hook, coreOneVars, coreZeroVars, driverVars, deviceVars>>

HookQueues ==
    /\ QueueEvent(hook, hook')
    /\ UNCHANGED <<task, coreOneVars, coreZeroVars, driverVars, deviceVars>>

-----------------------------------------------------------------------------
(* Core 1: the interrupt that sees a device come and go                    *)

TuhEventHookCb(someEvents) ==
    /\ hook' = Calls(someEvents)
    /\ hostDeviceConfigured' = FALSE
    /\ UNCHANGED <<queueVars, task, keyboardMounted, sourceEpoch, lastHostState,
                   coreZeroVars, driverVars, device, interfaces>>

\* Nothing is plugged in any more when the epochs (MaxEpoch) are used up.
DeviceAttaches ==
    /\ InterruptIsFree
    /\ ~attached /\ Len(hubEvents) < MaxHubEvents /\ sourceEpoch < MaxEpoch
    /\ attached' = TRUE
    /\ hubEvents' = Append(hubEvents, "attach")
    /\ TuhEventHookCb(<<StatusEvent("ATTACHED", sourceEpoch)>>)

DeviceIsRemoved ==
    /\ InterruptIsFree
    /\ attached /\ Len(hubEvents) < MaxHubEvents
    /\ attached' = FALSE
    /\ hubEvents' = Append(hubEvents, "remove")
    /\ TuhEventHookCb(IF keyboardMounted THEN << >>
                      ELSE <<StatusEvent("WAITING", sourceEpoch)>>)

-----------------------------------------------------------------------------
(* Core 1: enumeration and the boot keyboard driver                        *)

EnumerationStarts ==
    /\ TaskIsFree
    /\ hubEvents # << >> /\ Head(hubEvents) = "attach" /\ device = "none"
    /\ hubEvents' = Tail(hubEvents)
    /\ device' = "opening" /\ interfaces' = 0
    /\ UNCHANGED <<attached, queueVars, contextVars, coreOneVars, coreZeroVars,
                   driverVars>>

\* A HID interface is offered; the first boot keyboard is claimed, unless
\* its descriptors do not parse or its endpoint does not open.
DriverOpen ==
    /\ TaskIsFree /\ device = "opening" /\ interfaces < MaxInterfaces
    /\ interfaces' = interfaces + 1
    /\ claimed' \in {claimed, TRUE}
    /\ task' = Calls(<<StatusEvent("HID_INTERFACE", sourceEpoch)>>)
    /\ UNCHANGED <<queueVars, hook, coreOneVars, coreZeroVars,
                   stage, armed, attached, hubEvents, device>>

\* arm_receive.  A failure is counted for the diagnostics, and an endpoint
\* left idle is never armed again: no transfer will complete.
ArmReceive == armed' \in BOOLEAN

\* Keeps the old keyboard's state for the comparison with the next report.
ResetSourceSlip(status) ==
    /\ sourceEpoch < MaxEpoch
    /\ sourceEpoch' = sourceEpoch + 1
    /\ task' = Calls(<<StatusEvent("RESET", sourceEpoch + 1),
                       StatusEvent(status, sourceEpoch + 1)>>)
    /\ UNCHANGED lastHostState

\* reset_source, with the status that goes with it.
ResetSource(status) ==
    /\ sourceEpoch < MaxEpoch
    /\ sourceEpoch' = sourceEpoch + 1
    /\ lastHostState' = << >>
    /\ task' = Calls(<<StatusEvent("RESET", sourceEpoch + 1),
                       StatusEvent(status, sourceEpoch + 1)>>)

\* Counts the epochs of each keyboard from the start.
BootKeyboardHostMountCbSlip ==
    /\ keyboardMounted' = TRUE
    /\ sourceEpoch' = 1
    /\ lastHostState' = << >>
    /\ task' = Calls(<<StatusEvent("RESET", 1), StatusEvent("READY", 1)>>)

BootKeyboardHostMountCb ==
    /\ keyboardMounted' = TRUE
    /\ ResetSource("READY")

CompleteConfiguration ==
    /\ stage' = "configured" /\ device' = "mounting"
    /\ ArmReceive
    /\ BootKeyboardHostMountCb
    /\ UNCHANGED <<queueVars, hook, hostDeviceConfigured, coreZeroVars, claimed,
                   attached, hubEvents, interfaces>>

AwaitRequest(request) ==
    /\ stage' = request /\ device' = "configuring"
    /\ UNCHANGED <<queueVars, contextVars, coreOneVars, coreZeroVars, claimed,
                   armed, attached, hubEvents, interfaces>>

\* The device is configured: SET_IDLE, or on with it if that cannot be sent.
DriverSetConfig ==
    /\ TaskIsFree /\ device = "opening" /\ claimed
    /\ AwaitRequest("setIdle") \/ CompleteConfiguration

\* A request was answered, stalled or failed: the result is not looked at.
ProcessSetConfig ==
    /\ TaskIsFree /\ device = "configuring"
    /\ \/ stage = "setIdle" /\ (AwaitRequest("setProtocol") \/ CompleteConfiguration)
       \/ stage = "setProtocol" /\ CompleteConfiguration

\* Every interface is configured, or none was claimed.
TuhMountCb ==
    /\ task = Idle /\ hook = Idle
    /\ device = "mounting" \/ (device = "opening" /\ ~claimed)
    /\ device' = "configured"
    /\ hostDeviceConfigured' = TRUE
    /\ task' = Calls(<<StatusEvent("CONFIGURED", sourceEpoch)>>)
    /\ UNCHANGED <<queueVars, hook, keyboardMounted, sourceEpoch, lastHostState,
                   coreZeroVars, driverVars, attached, hubEvents, interfaces>>

DecodeBootReport(report) == FilterForBootReport(report)

BootKeyboardHostReportCb(report) ==
    LET state == DecodeBootReport(report) IN
    IF ~keyboardMounted \/ lastHostState = <<state>>
    THEN UNCHANGED <<lastHostState, task>>
    ELSE /\ lastHostState' = <<state>>
         /\ task' = Calls(<<SourceEvent("STATE", state, sourceEpoch)>>)

\* A report, or a failed transfer; the endpoint is armed again either way.
DriverXferCb ==
    /\ TaskIsFree /\ device = "configured" /\ armed
    /\ \/ \E report \in KeyboardReports : BootKeyboardHostReportCb(report)
       \/ UNCHANGED <<lastHostState, task>>
    /\ ArmReceive
    /\ UNCHANGED <<queueVars, hook, keyboardMounted, sourceEpoch,
                   hostDeviceConfigured, coreZeroVars, claimed, stage, deviceVars>>

\* Leaves the source as it is.
BootKeyboardHostUmountCbSlip ==
    /\ keyboardMounted' = FALSE
    /\ task' = Calls(<<StatusEvent("WAITING", sourceEpoch)>>)
    /\ UNCHANGED <<sourceEpoch, lastHostState>>

BootKeyboardHostUmountCb ==
    /\ keyboardMounted' = FALSE
    /\ ResetSource("WAITING")

DriverClose ==
    /\ claimed' = FALSE /\ stage' = "none" /\ armed' = FALSE

\* Leaves host_device_configured set.
TuhUmountCbSlip ==
    /\ UNCHANGED hostDeviceConfigured
    /\ \/ keyboardMounted /\ BootKeyboardHostUmountCb
       \/ /\ ~keyboardMounted
          /\ task' = Calls(<<StatusEvent("WAITING", sourceEpoch)>>)
          /\ UNCHANGED <<keyboardMounted, sourceEpoch, lastHostState>>

\* tuh_umount_cb says WAITING only when no keyboard was mounted; the driver's
\* close, which follows, resets the source when one was.
TuhUmountCb ==
    /\ hostDeviceConfigured' = FALSE
    /\ \/ keyboardMounted /\ BootKeyboardHostUmountCb
       \/ /\ ~keyboardMounted
          /\ task' = Calls(<<StatusEvent("WAITING", sourceEpoch)>>)
          /\ UNCHANGED <<keyboardMounted, sourceEpoch, lastHostState>>

RemovalIsHandled ==
    /\ TaskIsFree
    /\ hubEvents # << >> /\ Head(hubEvents) = "remove"
    /\ hubEvents' = Tail(hubEvents)
    /\ device' = "none" /\ interfaces' = 0
    /\ TuhUmountCb /\ DriverClose
    /\ UNCHANGED <<attached, queueVars, hook, coreZeroVars>>

-----------------------------------------------------------------------------
(* Core 0: one turn of the loop in usb_host_keyboard_task                  *)

\* Starts the pipe over, its activation by the adapter with it.
PipeAfterSlip(event) ==
    IF event.kind = "RESET" THEN InitialPipe
    ELSE IF event.kind = "STATE" THEN Publish(pipe, event.state, event.epoch)
    ELSE pipe

PipeAfter(event) ==
    CASE event.kind = "RESET" -> SourceReset(pipe, event.epoch)
      [] event.kind = "STATE" -> Publish(pipe, event.state, event.epoch)
      [] OTHER -> pipe

\* Lets CONFIGURED overwrite READY.
StatusAfterSlip(event) ==
    IF event.kind \notin StatusKinds THEN hostStatus ELSE event.kind

StatusAfter(event) ==
    IF \/ event.kind \notin StatusKinds
       \/ event.kind = "CONFIGURED" /\ hostStatus = "READY"
    THEN hostStatus ELSE event.kind

UsbHostKeyboardTask ==
    /\ events # << >>
    /\ events' = Tail(events)
    /\ pipe' = PipeAfter(Head(events))
    /\ hostStatus' = StatusAfter(Head(events))
    /\ UNCHANGED <<contextVars, lost, coreOneVars, driverVars, deviceVars>>

-----------------------------------------------------------------------------
Next == \/ TaskQueues \/ HookQueues
        \/ DeviceAttaches \/ DeviceIsRemoved
        \/ EnumerationStarts \/ DriverOpen \/ DriverSetConfig
        \/ ProcessSetConfig \/ TuhMountCb
        \/ DriverXferCb \/ RemovalIsHandled
        \/ UsbHostKeyboardTask

Spec == Init /\ [][Next]_vars

-----------------------------------------------------------------------------
(* Every variable has its type and the queue its depth.                    *)
TypeOK ==
    /\ events \in Seq(SourceEvents) /\ Len(events) <= QueueDepth
    /\ {task, hook} \subseteq Contexts
    /\ {keyboardMounted, hostDeviceConfigured, claimed, armed, attached}
         \subseteq BOOLEAN
    /\ sourceEpoch \in Epochs
    /\ lastHostState \in Seq(KeyboardStates) /\ Len(lastHostState) <= 1
    /\ hostStatus \in StatusKinds /\ pipe \in Pipes
    /\ stage \in {"none", "setIdle", "setProtocol", "configured"}
    /\ device \in {"none", "opening", "configuring", "mounting", "configured"}
    /\ hubEvents \in Seq({"attach", "remove"}) /\ Len(hubEvents) <= MaxHubEvents
    /\ interfaces \in 0 .. MaxInterfaces
    /\ lost \subseteq {"any", "keys", "newest"}

\* Core 0 has handled all that core 1 has to say.
Drained == events = << >> /\ task = Idle /\ hook = Idle

HeldKeys == IF lastHostState = << >> THEN Released ELSE lastHostState[1]

(* Discarding the oldest event is harmless while a later one tells the     *)
(* keys: core 0 then ends up with the state the keyboard reported last,    *)
(* and with none once it is gone, even when the RESET between two sources  *)
(* was the event discarded (usb_host_keyboard.c:84-114, 196-206, 342-371). *)
OutdatedEventsDoNotMatter ==
    Drained /\ lost \subseteq {"any"} => pipe.latest = HeldKeys

(* Core 0 never meets an event of an earlier source than the pipe already  *)
(* has, so none is dropped as stale: epochs only grow along the pipe, the  *)
(* queue and the events still to be queued.                                *)
EpochsArriveInOrder ==
    LET underWay == events \o task.calls IN
    /\ \A i \in 1 .. Len(underWay) : underWay[i].epoch >= pipe.epoch
    /\ \A i, j \in 1 .. Len(underWay) : i < j => underWay[i].epoch <= underWay[j].epoch
    /\ pipe.epoch <= sourceEpoch

(* The status LED shows READY exactly while a keyboard is mounted, once    *)
(* every event has arrived, whatever attaches and removals the interrupt   *)
(* reported in between (usb_host_keyboard.c:207-230, 259-302).             *)
ReadyMeansKeyboard ==
    Drained /\ hubEvents = << >> /\ lost = {}
        => (hostStatus = "READY" <=> keyboardMounted)

(* Core 1 keeps its pauses, and the frame period its nominal length, for   *)
(* the whole of an enumeration, whatever removals and attaches raced with  *)
(* the end of the one before (usb_host_keyboard.c:185-192, 263-301).       *)
EnumerationIsPaced ==
    device \in {"opening", "configuring", "mounting"} => ~hostDeviceConfigured

(* queue_event keeps the newest event (usb_host_keyboard.c:87-89).         *)
NewestEventIsKept == "newest" \notin lost
=============================================================================
