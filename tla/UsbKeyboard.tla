----------------------------- MODULE UsbKeyboard -----------------------------
(***************************************************************************)
(* The USB device side of both bridges: usb_keyboard.c driving the report  *)
(* pipe, TinyUSB's device stack, and the computer ("the host") at the      *)
(* other end of the cable.                                                 *)
(*                                                                         *)
(* Everything of the firmware runs in one loop on core 0: a TinyUSB        *)
(* callback and a pass of usb_keyboard_task are each one step.  What       *)
(* interleaves with them is the bus: the host resets, configures,          *)
(* suspends, resumes and polls whenever it likes, and a report that        *)
(* TinyUSB accepted waits in the endpoint until the host polls for it.     *)
(*                                                                         *)
(* pending_valid is FALSE whenever a callback or a task pass ends, so the  *)
(* dequeued item lives only inside TaskSends and TaskIsRefused.            *)
(***************************************************************************)
EXTENDS ReportPipeOps

CONSTANTS
    SourceStates,        \* the keyboard states the source publishes ...
    SourceSteps,         \* ... and the changes it makes from one to the next
    RecoveryModifiers,   \* APP_USB_STARTUP_MODIFIER_RECOVERY_MASK
    Leds,                \* what the host can set the keyboard LEDs to ...
    LedsOff,             \* ... and the value that means none is lit
    HostHabits           \* what this host is allowed to do, see Habits

(***************************************************************************)
(* earlySuspend:     the host suspends the device before configuring it.   *)
(* fastEnumeration:  a bus reset and the next SET_CONFIGURATION are both   *)
(*                   handled with no pass of usb_keyboard_task in between. *)
(* retainsModifiers: the host keeps the modifiers of a vanished session    *)
(*                   down (the case report_pipe.c:113-115 describes).      *)
(* setsIdle:         the host asks for a report when nothing has changed.  *)
(* allowsWakeup:     the host may enable remote wakeup before a suspend.   *)
(***************************************************************************)
Habits == {"earlySuspend", "fastEnumeration", "retainsModifiers", "setsIdle",
           "allowsWakeup"}

ASSUME AdapterAssumption ==
    /\ SourceStates \subseteq KeyboardStates
    /\ SourceSteps \subseteq SourceStates \X SourceStates
    /\ RecoveryModifiers \subseteq Modifiers
    /\ LedsOff \in Leds
    /\ HostHabits \subseteq Habits

VARIABLES
    pipe,                  \* keyboard_pipe
    mounted,               \* usb_mounted
    suspended,             \* usb_suspended
    remoteWakeupEnabled,   \* remote_wakeup_enabled
    wakeRequested,         \* wake_requested_this_suspend
    wakeDelayElapsed,      \* suspended, and APP_USB_REMOTE_WAKE_DELAY_MS are over
    inFlight,              \* <<in_flight_item>> when report_in_flight, else << >>
    hostLeds,              \* host_leds
    idleReporting,         \* idle_rate # 0
    bus,                   \* TinyUSB: how far this device is enumerated
    busSuspended,          \* TinyUSB: the bus is suspended
    endpoint,              \* the IN endpoint's buffer
    hostReport,            \* host: the last report of this session
    hostEpoch,             \* ghost: the source epoch hostReport came from
    hostModifiers,         \* host: the modifiers its OS holds down
    sessionLeds,           \* host: the LEDs it set in this session
    wakeSignals            \* host: remote wakeups seen in this suspend

adapterVars == <<mounted, suspended, remoteWakeupEnabled, wakeRequested,
                 wakeDelayElapsed, inFlight, hostLeds, idleReporting>>
hostVars == <<hostReport, hostEpoch, hostModifiers, sessionLeds>>
busVars == <<bus, busSuspended, endpoint, wakeSignals>>
vars == <<pipe, adapterVars, busVars, hostVars>>

\* detached, or reset and silent; addressed by a first SETUP; configured.
BusStates == {"detached", "addressed", "configured"}

EndpointStates == [status : {"idle", "armed", "done"},
                   report : BootReports, epoch : Epochs]

EmptyEndpoint == [status |-> "idle", report |-> BlankReport, epoch |-> 0]

TudMounted == bus = "configured"

TudHidReady == TudMounted /\ ~busSuspended /\ endpoint.status = "idle"

Init ==
    /\ pipe = SetActive(InitialPipe, FALSE)
    /\ mounted = FALSE /\ suspended = FALSE
    /\ remoteWakeupEnabled = FALSE /\ wakeRequested = FALSE
    /\ wakeDelayElapsed = FALSE
    /\ inFlight = << >> /\ hostLeds = LedsOff /\ idleReporting = FALSE
    /\ bus = "detached" /\ busSuspended = FALSE /\ endpoint = EmptyEndpoint
    /\ hostReport = BlankReport /\ hostEpoch = 0
    /\ hostModifiers \in IF "retainsModifiers" \in HostHabits
                         THEN SUBSET Modifiers ELSE {{}}
    /\ sessionLeds = LedsOff /\ wakeSignals = 0

-----------------------------------------------------------------------------
(* The source: report_pipe_publish_at and report_pipe_source_reset as the  *)
(* bridges' main loops call them, in an epoch that never goes back.        *)

EpochsFrom(epoch) == {next \in Epochs : next >= epoch}

SourcePublishes ==
    \E state \in SourceStates, epoch \in EpochsFrom(pipe.epoch) :
        /\ epoch = pipe.epoch => <<pipe.latest, state>> \in SourceSteps
        /\ pipe' = Publish(pipe, state, epoch)
        /\ UNCHANGED <<adapterVars, busVars, hostVars>>

SourceResets ==
    \E epoch \in EpochsFrom(pipe.epoch) :
        /\ pipe' = SourceReset(pipe, epoch)
        /\ UNCHANGED <<adapterVars, busVars, hostVars>>

-----------------------------------------------------------------------------
(* usb_keyboard_task                                                       *)

\* Leaves the pipe active.
ForgetSessionActiveSlip ==
    /\ mounted' = FALSE /\ suspended' = FALSE
    /\ remoteWakeupEnabled' = FALSE /\ wakeRequested' = FALSE
    /\ inFlight' = << >> /\ hostLeds' = LedsOff /\ idleReporting' = FALSE
    /\ wakeDelayElapsed' = FALSE
    /\ pipe' = TakeWakeRequest(pipe)

\* Leaves the LEDs as the last host set them.
ForgetSessionLedsSlip ==
    /\ mounted' = FALSE /\ suspended' = FALSE
    /\ remoteWakeupEnabled' = FALSE /\ wakeRequested' = FALSE
    /\ inFlight' = << >> /\ idleReporting' = FALSE
    /\ wakeDelayElapsed' = FALSE
    /\ pipe' = TakeWakeRequest(SetActive(pipe, FALSE))
    /\ UNCHANGED hostLeds

\* What leaving a configuration clears, in the task and in tud_umount_cb.
ForgetSession ==
    /\ mounted' = FALSE /\ suspended' = FALSE
    /\ remoteWakeupEnabled' = FALSE /\ wakeRequested' = FALSE
    /\ inFlight' = << >> /\ hostLeds' = LedsOff /\ idleReporting' = FALSE
    /\ wakeDelayElapsed' = FALSE
    /\ pipe' = TakeWakeRequest(SetActive(pipe, FALSE))

TaskSeesReset ==
    /\ mounted /\ ~TudMounted
    /\ ForgetSession
    /\ UNCHANGED <<busVars, hostVars>>

\* Does not remember that it asked.
TaskWakesHostAgainSlip ==
    /\ mounted /\ TudMounted /\ suspended
    /\ pipe.wakePending /\ remoteWakeupEnabled /\ ~wakeRequested
    /\ wakeDelayElapsed /\ busSuspended
    /\ wakeSignals' = IF wakeSignals = 2 THEN 2 ELSE wakeSignals + 1
    /\ UNCHANGED <<pipe, adapterVars, bus, busSuspended, endpoint, hostVars>>

\* Looks for a report to send first, and a suspended pipe has none.
TaskWakesHostNeverSlip ==
    /\ mounted /\ TudMounted /\ suspended
    /\ pipe.wakePending /\ remoteWakeupEnabled /\ ~wakeRequested
    /\ wakeDelayElapsed /\ busSuspended /\ pipe.items # << >>
    /\ wakeRequested' = TRUE
    /\ wakeSignals' = IF wakeSignals = 2 THEN 2 ELSE wakeSignals + 1
    /\ UNCHANGED <<pipe, mounted, suspended, remoteWakeupEnabled,
                   wakeDelayElapsed, inFlight, hostLeds, idleReporting,
                   bus, busSuspended, endpoint, hostVars>>

\* tud_remote_wakeup succeeds on a suspended bus whose host allows it.
TaskWakesHost ==
    /\ mounted /\ TudMounted /\ suspended
    /\ pipe.wakePending /\ remoteWakeupEnabled /\ ~wakeRequested
    /\ wakeDelayElapsed /\ busSuspended
    /\ wakeRequested' = TRUE
    /\ wakeSignals' = IF wakeSignals = 2 THEN 2 ELSE wakeSignals + 1
    /\ UNCHANGED <<pipe, mounted, suspended, remoteWakeupEnabled,
                   wakeDelayElapsed, inFlight, hostLeds, idleReporting,
                   bus, busSuspended, endpoint, hostVars>>

\* The next queued item, or the latest state when the idle period is over
\* (it may be over whenever an idle rate is set: time is abstracted).
MaySend ==
    /\ mounted /\ TudMounted /\ ~suspended
    /\ inFlight = << >> /\ TudHidReady
    /\ pipe.items # << >> \/ idleReporting

PendingItem == IF pipe.items = << >> THEN Item(pipe.latest, pipe.epoch)
               ELSE Head(pipe.items)

Dequeued == IF pipe.items = << >> THEN pipe ELSE Pop(pipe)

TaskSends ==
    /\ MaySend
    /\ endpoint' = [status |-> "armed", report |-> BootReport(PendingItem.state),
                    epoch |-> PendingItem.epoch]
    /\ inFlight' = <<PendingItem>>
    /\ pipe' = Dequeued
    /\ UNCHANGED <<mounted, suspended, remoteWakeupEnabled, wakeRequested,
                   wakeDelayElapsed, hostLeds, idleReporting,
                   bus, busSuspended, wakeSignals, hostVars>>

\* Drops the refused report.
TaskIsRefusedSlip ==
    /\ MaySend
    /\ pipe' = Dequeued
    /\ UNCHANGED <<adapterVars, busVars, hostVars>>

TaskIsRefused ==
    /\ MaySend
    /\ pipe' = RequestResync(Dequeued)
    /\ UNCHANGED <<adapterVars, busVars, hostVars>>

\* Of interest only where a wakeup is allowed.
WakeDelayElapses ==
    /\ suspended /\ remoteWakeupEnabled /\ ~wakeDelayElapsed
    /\ wakeDelayElapsed' = TRUE
    /\ UNCHANGED <<pipe, mounted, suspended, remoteWakeupEnabled, wakeRequested,
                   inFlight, hostLeds, idleReporting, busVars, hostVars>>

-----------------------------------------------------------------------------
(* TinyUSB's callbacks                                                     *)

\* Trusts the activation to start afresh.
TudMountCbSlip ==
    /\ mounted' = TRUE /\ suspended' = FALSE
    /\ remoteWakeupEnabled' = FALSE /\ wakeRequested' = FALSE
    /\ wakeDelayElapsed' = FALSE
    /\ inFlight' = << >>
    /\ pipe' = SetActive(TakeWakeRequest(pipe), TRUE)
    /\ UNCHANGED <<hostLeds, idleReporting>>

TudMountCb ==
    /\ mounted' = TRUE /\ suspended' = FALSE
    /\ remoteWakeupEnabled' = FALSE /\ wakeRequested' = FALSE
    /\ wakeDelayElapsed' = FALSE
    /\ inFlight' = << >>
    /\ pipe' = RequestModifierRecovery(
                   SetActive(TakeWakeRequest(pipe), TRUE), RecoveryModifiers)
    /\ UNCHANGED <<hostLeds, idleReporting>>

TudUmountCb == ForgetSession

\* Leaves the pipe active.
TudSuspendCbSlip(remoteWakeupEn) ==
    /\ suspended' = TRUE
    /\ remoteWakeupEnabled' = remoteWakeupEn /\ wakeRequested' = FALSE
    /\ wakeDelayElapsed' = FALSE
    /\ inFlight' = << >>
    /\ UNCHANGED <<pipe, mounted, hostLeds, idleReporting>>

TudSuspendCb(remoteWakeupEn) ==
    /\ suspended' = TRUE
    /\ remoteWakeupEnabled' = remoteWakeupEn /\ wakeRequested' = FALSE
    /\ wakeDelayElapsed' = FALSE
    /\ inFlight' = << >>
    /\ pipe' = SetActive(pipe, FALSE)
    /\ UNCHANGED <<mounted, hostLeds, idleReporting>>

TudResumeCb ==
    /\ suspended' = FALSE
    /\ remoteWakeupEnabled' = FALSE /\ wakeRequested' = FALSE
    /\ wakeDelayElapsed' = FALSE
    /\ inFlight' = << >>
    /\ pipe' = SetActive(pipe, TRUE)
    /\ UNCHANGED <<mounted, hostLeds, idleReporting>>

\* Acknowledges nothing.
TudHidReportCompleteCbSlip ==
    /\ inFlight' = << >>
    /\ UNCHANGED <<pipe, mounted, suspended, remoteWakeupEnabled, wakeRequested,
                   wakeDelayElapsed, hostLeds, idleReporting>>

\* A completion nobody waits for (armed before a suspend) acknowledges nothing.
TudHidReportCompleteCb ==
    /\ pipe' = IF inFlight = << >> THEN pipe ELSE Acknowledge(pipe, inFlight[1])
    /\ inFlight' = << >>
    /\ UNCHANGED <<mounted, suspended, remoteWakeupEnabled, wakeRequested,
                   wakeDelayElapsed, hostLeds, idleReporting>>

\* Forgets the report that failed.
TudHidReportFailedCbSlip ==
    /\ inFlight' = << >>
    /\ UNCHANGED <<pipe, mounted, suspended, remoteWakeupEnabled, wakeRequested,
                   wakeDelayElapsed, hostLeds, idleReporting>>

TudHidReportFailedCb ==
    /\ inFlight' = << >>
    /\ pipe' = IF mounted /\ ~suspended THEN RequestResync(pipe) ELSE pipe
    /\ UNCHANGED <<mounted, suspended, remoteWakeupEnabled, wakeRequested,
                   wakeDelayElapsed, hostLeds, idleReporting>>

TudHidSetProtocolCb ==
    /\ pipe' = RequestResync(pipe)
    /\ UNCHANGED adapterVars

TudHidSetIdleCb(rateIsSet) ==
    /\ idleReporting' = rateIsSet
    /\ UNCHANGED <<pipe, mounted, suspended, remoteWakeupEnabled, wakeRequested,
                   wakeDelayElapsed, inFlight, hostLeds>>

TudHidSetReportCb(leds) ==
    /\ hostLeds' = leds
    /\ UNCHANGED <<pipe, mounted, suspended, remoteWakeupEnabled, wakeRequested,
                   wakeDelayElapsed, inFlight, idleReporting>>

\* What tud_hid_get_report_cb answers for an input report.
GetInputReport == BootReport(pipe.latest)

-----------------------------------------------------------------------------
(* The bus.  TinyUSB handles its events in order, so a completed transfer  *)
(* is reported before anything the host did after it.                      *)

NothingToReport == endpoint.status # "done"

\* The host's driver forgets the device; its OS may keep modifiers down.
SessionEnds ==
    /\ hostReport' = BlankReport /\ hostEpoch' = 0
    /\ sessionLeds' = LedsOff
    /\ hostModifiers' \in IF "retainsModifiers" \in HostHabits
                          THEN {{}, hostModifiers} ELSE {{}}

\* TinyUSB resets itself and calls nobody.
BusResets ==
    /\ bus # "detached" /\ NothingToReport
    /\ bus' = "detached" /\ busSuspended' = FALSE /\ endpoint' = EmptyEndpoint
    /\ wakeSignals' = 0
    /\ SessionEnds
    /\ UNCHANGED <<pipe, adapterVars>>

\* The cable is pulled, or SET_CONFIGURATION(0).
HostLeaves ==
    /\ bus # "detached" /\ NothingToReport
    /\ \/ bus' = "detached"
       \/ bus = "configured" /\ ~busSuspended /\ bus' = "addressed"
    /\ busSuspended' = FALSE /\ endpoint' = EmptyEndpoint /\ wakeSignals' = 0
    /\ SessionEnds
    /\ TudUmountCb

HostAddresses ==
    /\ bus = "detached"
    /\ bus' = "addressed"
    /\ UNCHANGED <<pipe, adapterVars, busSuspended, endpoint, wakeSignals, hostVars>>

HostConfigures ==
    /\ bus = "addressed" /\ ~busSuspended
    /\ mounted => "fastEnumeration" \in HostHabits
    /\ bus' = "configured"
    /\ TudMountCb
    /\ UNCHANGED <<busSuspended, endpoint, wakeSignals, hostVars>>

HostSuspends ==
    /\ ~busSuspended /\ NothingToReport
    /\ \/ bus = "configured"
       \/ bus = "addressed" /\ "earlySuspend" \in HostHabits
    /\ busSuspended' = TRUE /\ wakeSignals' = 0
    /\ \E remoteWakeupEn \in BOOLEAN :
          /\ remoteWakeupEn => "allowsWakeup" \in HostHabits
          /\ TudSuspendCb(remoteWakeupEn)
    /\ UNCHANGED <<bus, endpoint, hostVars>>

HostResumes ==
    /\ busSuspended
    /\ busSuspended' = FALSE
    /\ TudResumeCb
    /\ UNCHANGED <<bus, endpoint, wakeSignals, hostVars>>

\* An OS reacts to the differences between one report and the next.
HostPolls ==
    /\ endpoint.status = "armed" /\ ~busSuspended
    /\ endpoint' = [endpoint EXCEPT !.status = "done"]
    /\ hostReport' = endpoint.report /\ hostEpoch' = endpoint.epoch
    /\ hostModifiers' = (hostModifiers \ hostReport.modifiers)
                           \cup endpoint.report.modifiers
    /\ UNCHANGED <<pipe, adapterVars, bus, busSuspended, wakeSignals, sessionLeds>>

ReportCompletes ==
    /\ endpoint.status = "done"
    /\ endpoint' = EmptyEndpoint
    /\ TudHidReportCompleteCb
    /\ UNCHANGED <<bus, busSuspended, wakeSignals, hostVars>>

ReportFails ==
    /\ endpoint.status = "armed"
    /\ endpoint' = EmptyEndpoint
    /\ TudHidReportFailedCb
    /\ UNCHANGED <<bus, busSuspended, wakeSignals, hostVars>>

\* Control requests of a configured, awake host.
HostSetsProtocol ==
    /\ TudMounted /\ ~busSuspended /\ NothingToReport
    /\ TudHidSetProtocolCb
    /\ UNCHANGED <<busVars, hostVars>>

HostSetsIdle ==
    /\ "setsIdle" \in HostHabits
    /\ TudMounted /\ ~busSuspended /\ NothingToReport
    /\ \E rateIsSet \in BOOLEAN : TudHidSetIdleCb(rateIsSet)
    /\ UNCHANGED <<busVars, hostVars>>

HostSetsLeds ==
    /\ TudMounted /\ ~busSuspended /\ NothingToReport
    /\ \E leds \in Leds : TudHidSetReportCb(leds) /\ sessionLeds' = leds
    /\ UNCHANGED <<busVars, hostReport, hostEpoch, hostModifiers>>

-----------------------------------------------------------------------------
\* What keeps a report from reaching the host undisturbed.
BusDisturbance == \/ TaskIsRefused \/ ReportFails
                  \/ BusResets \/ HostLeaves \/ HostAddresses \/ HostConfigures
                  \/ HostSuspends \/ HostResumes \/ HostSetsProtocol

Disturbance == SourcePublishes \/ SourceResets \/ BusDisturbance

\* All but the source, which FeatherBridge puts in its place.
AdapterAndHost == \/ BusDisturbance
                  \/ TaskSeesReset \/ TaskWakesHost \/ WakeDelayElapses \/ TaskSends
                  \/ HostPolls \/ ReportCompletes
                  \/ HostSetsIdle \/ HostSetsLeds

Next == SourcePublishes \/ SourceResets \/ AdapterAndHost

Spec == Init /\ [][Next]_vars

(***************************************************************************)
(* The main loop never stops calling tud_task and usb_keyboard_task, time  *)
(* passes, an awake host keeps polling an interrupt endpoint, and a host   *)
(* that was sent resume signalling resumes the bus.                        *)
(***************************************************************************)
Fairness == /\ WF_vars(TaskSeesReset) /\ WF_vars(TaskWakesHost)
            /\ WF_vars(TaskSends) /\ WF_vars(WakeDelayElapses)
            /\ WF_vars(HostPolls) /\ WF_vars(ReportCompletes)
            /\ WF_vars(wakeSignals > 0 /\ HostResumes)

FairSpec == Spec /\ Fairness

-----------------------------------------------------------------------------
(* Every variable has its type, and the queue fits its ring.               *)
TypeOK ==
    /\ pipe \in Pipes /\ Len(pipe.items) <= Capacity
    /\ {mounted, suspended, remoteWakeupEnabled, wakeRequested,
         wakeDelayElapsed, idleReporting, busSuspended} \subseteq BOOLEAN
    /\ inFlight \in Seq(Items) /\ Len(inFlight) <= 1
    /\ {hostLeds, sessionLeds} \subseteq Leds
    /\ bus \in BusStates /\ endpoint \in EndpointStates
    /\ hostReport \in BootReports /\ hostEpoch \in Epochs
    /\ hostModifiers \subseteq Modifiers
    /\ wakeSignals \in 0 .. 2

\* A configured, awake host with nothing left to be sent to it.
Settled ==
    /\ TudMounted /\ mounted /\ ~busSuspended
    /\ endpoint.status = "idle" /\ inFlight = << >> /\ pipe.items = << >>

(* No key sticks and no press is lost: when nothing is left to send, the   *)
(* host's last report is the keyboard's current state, whatever resets,    *)
(* refusals, failures, suspends and overflows came before                  *)
(* (usb_keyboard.c:119-188 with its callbacks).                            *)
SettledHostSeesLatest == Settled => hostReport = GetInputReport

(* Nor is a wake request left behind: once everything was delivered, the   *)
(* latch is clear, so the next suspend is not ended at once by a press the *)
(* host already has (usb_keyboard.c:311-322, report_pipe.c:132-141).       *)
SettledHasNoWake == Settled => ~pipe.wakePending

(* While USB is unavailable or suspended the pipe keeps the latest state   *)
(* only, no history (usb_keyboard.c:226-259).                              *)
OfflineKeepsNoHistory == ~mounted \/ suspended => pipe.items = << >>

(* The host resumes no more than one wake request per suspend, however     *)
(* many keys are pressed and however often the task runs before it resumes *)
(* (usb_keyboard.c:139-149).                                               *)
OneWakePerSuspend == wakeSignals <= 1

(* GET_REPORT(output) never shows a host the LEDs of an earlier session    *)
(* (host_leds, usb_keyboard.c:132, 233, 280-283).                          *)
LedsOfThisSession == TudMounted /\ mounted => hostLeds = sessionLeds

(* A newly configured host starts from a release or recovery and the       *)
(* current state, not from an old queue (usb_keyboard.c:122-124).          *)
MountStartsFresh ==
    [][HostConfigures =>
         \A i \in 1 .. Len(pipe'.items) :
            pipe'.items[i].state \in {Released, RecoveryModifiers, pipe'.latest}]_vars

(* What one source held is let go at the host before it sees anything of   *)
(* the next source: within a session a report of another epoch is the      *)
(* release, or the modifier press of a recovery, first                     *)
(* (report_pipe.c:58-65, 86-97, through endpoint and resets).              *)
ReleaseBetweenSources ==
    [][HostPolls /\ hostEpoch' # hostEpoch =>
         \/ hostReport' \in {BlankReport, BootReport(RecoveryModifiers)}
         \/ hostReport = BlankReport]_vars

(* The host goes from one report to another only as the keyboard did, or   *)
(* across a release of everything or a recovery: reports dropped on the    *)
(* way (a refusal, a failure, an overflow, a suspend with a report still   *)
(* armed) never join two states of the keyboard that were apart.           *)
ReportsFollowSource ==
    [][HostPolls =>
         \/ hostReport' = hostReport
         \/ BlankReport \in {hostReport, hostReport'}
         \/ hostReport' = BootReport(RecoveryModifiers)
         \/ \E step \in SourceSteps : /\ hostReport = BootReport(step[1])
                                      /\ hostReport' = BootReport(step[2])]_vars

(* The whole of it: whatever the hosts, the bus and the sources do, the     *)
(* adapter and the pipe relay a keyboard as KeyboardRelay says, to a host   *)
(* of this session, that is configured and awake.                          *)
Watched == TudMounted /\ pipe.active

Relay == INSTANCE KeyboardRelay WITH
    Reports <- BootReports,
    NoKeys <- BlankReport,
    Recoveries <- {BootReport(RecoveryModifiers)} \ {BlankReport},
    Steps <- {<<BootReport(step[1]), BootReport(step[2])>> : step \in SourceSteps},
    held <- BootReport(pipe.latest),
    plan <- IF Watched
            THEN [i \in DOMAIN pipe.items |-> BootReport(pipe.items[i].state)]
            ELSE << >>,
    wire <- IF endpoint.status = "armed" THEN <<endpoint.report>> ELSE << >>,
    online <- Watched,
    seen <- hostReport

ImplementsRelay == Relay!Spec

(* A key pressed while the host sleeps is remembered for the wake: only a  *)
(* new source, or the end of the session, forgets it.                      *)
SleepKeepsWake ==
    [][suspended /\ pipe.wakePending /\ ~pipe'.wakePending =>
         \/ pipe'.epoch # pipe.epoch \/ SourceResets
         \/ ~mounted' \/ (TudMounted' /\ ~TudMounted)]_vars

(* Left alone, an online host gets to see what the keyboard holds, and     *)
(* keeps seeing it.                                                        *)
HostConverges ==
    \/ []<><<Disturbance>>_vars
    \/ <>[](TudMounted /\ ~busSuspended => hostReport = GetInputReport)

(* A press during a suspend wakes a host that allows it, once the delay    *)
(* APP_USB_REMOTE_WAKE_DELAY_MS has passed (usb_keyboard.c:139-149).       *)
PressWakesHost ==
    (TudMounted /\ busSuspended /\ remoteWakeupEnabled /\ pipe.wakePending)
        ~> (~busSuspended \/ ~pipe.wakePending)

(* A recovery does what it is for: when nothing is left to send, the host  *)
(* holds none of the mask's modifiers that the keyboard does not hold      *)
(* (report_pipe.c:113-115).                                                *)
RecoveryClearsRetained ==
    Settled => hostModifiers \cap RecoveryModifiers \subseteq pipe.latest
=============================================================================
