---------------------------- MODULE SofPhaseLock ----------------------------
(***************************************************************************)
(* The frame phase lock of the Feather: sof_phase_lock.c on both cores,    *)
(* and the part of main.c that delivers the console's SOF to it.           *)
(*                                                                         *)
(* Core 0 observes the console's SOF in the USB device interrupt and keeps *)
(* the tracker; core 1 starts a frame of its own bus in an alarm interrupt *)
(* and steers the next start by the reference that core 0 published.  The  *)
(* console resets, suspends, configures and unconfigures the device as it  *)
(* likes, TinyUSB drops the SOF registration with each reset and each      *)
(* SET_CONFIGURATION of 0, and the main loop renews it.                    *)
(*                                                                         *)
(* The code computes with differences of times only, so every time is kept *)
(* as its distance from the present and moves with each Tick; a word that  *)
(* the code compares still wraps.                                          *)
(***************************************************************************)
EXTENDS FramePhase

CONSTANTS
    MaxLatency,    \* bound: ticks from a SOF to its observation
    MaxDelay,      \* bound: ticks from a frame's due time to its handler's end
    MaxMissed,     \* bound: SOFs missed in a row, interrupts being masked
    MaxGap         \* bound: ticks a reference goes unobserved, Word for none

\* An observation is late by less than half a frame and pulls the model by
\* less, frame numbers tell missed SOFs apart, and the word is wide enough for
\* all times that are compared.
ASSUME PhaseLockAssumption ==
    /\ {MaxLatency, MaxDelay, MaxMissed, MaxGap} \subseteq Nat
    /\ MaxLatency + 1 < Period \div 2 /\ PullDivisor <= Period \div 2
    /\ MaxMissed + 1 < FrameNumbers
    /\ 2 * ((MaxMissed + 4) * Period + Lead + MaxDelay) <= Word
    /\ 2 * (FrameNumbers + 1) * Period <= Word
    /\ MaxAge + 2 < Word

VARIABLES
    tracker,         \* core 0: console_sof
    reference,       \* console_reference_valid and console_reference_us
    steering,        \* core 1: steering_enabled
    started,         \* core 1 has called sof_phase_lock_start_frames
    nextFrame,       \* core 1: next_frame_time_us
    sample,          \* core 1: what the alarm handler has read, << >> outside it
    subscribed,      \* core 0: service_console_sof_subscription's own flag
    serviced,        \* core 0: it was called since tud_task last handled an event
    mounted,         \* TinyUSB: tud_mounted
    sofInterrupt,    \* TinyUSB: the SOF interrupt is enabled
    resetQueued,     \* TinyUSB: a bus reset or unplug that tud_task has to handle
    console,         \* the console sends SOFs: the next one, and its frame number
    sofPending,      \* <<ticks ago>> while a SOF is not yet observed, else << >>
    astray           \* history: since the device was last unconfigured with a
                     \* tracker in use, none was forgotten or found on the grid

coreZeroVars == <<tracker, reference, subscribed>>
coreOneVars == <<steering, started, nextFrame, sample>>
stackVars == <<mounted, sofInterrupt, resetQueued, serviced>>
consoleVars == <<console, sofPending>>
vars == <<coreZeroVars, coreOneVars, stackVars, consoleVars, astray>>

References == [valid : BOOLEAN, us : Times]

\* Nothing says what the word still holds, but resets, resumes and
\* enumerations all take the console longer than MaxAge.
Forgotten == [valid |-> FALSE, us |-> Wrapped(-MaxAge - 2)]

Silent == [awake |-> FALSE, untilSof |-> 0, frame |-> 0]

Init ==
    /\ tracker = ResetTracker /\ reference = Forgotten
    /\ steering = FALSE /\ started = FALSE /\ nextFrame = 0 /\ sample = << >>
    /\ subscribed = FALSE /\ serviced = TRUE
    /\ mounted = FALSE /\ sofInterrupt = FALSE /\ resetQueued = FALSE
    /\ console = Silent /\ sofPending = << >> /\ astray = FALSE

-----------------------------------------------------------------------------
(* Core 1                                                                  *)

\* Resets core 0's tracker: nothing in the code keeps core 0 from having
\* observed a SOF before.
StartFrames ==
    /\ ~started
    /\ started' = TRUE /\ nextFrame' = Period /\ steering' = FALSE
    /\ tracker' = ResetTracker /\ reference' = Forgotten /\ astray' = FALSE
    /\ UNCHANGED <<sample, subscribed, stackVars, consoleVars>>

\* The callbacks of the USB host, in task context or before the alarm's reads.
SetSteering(enabled) ==
    /\ started /\ sample = << >>
    /\ steering' = (enabled /\ Lead > 0)
    /\ UNCHANGED <<coreZeroVars, started, nextFrame, sample, stackVars,
                   consoleVars, astray>>

\* The alarm handler begins to read what core 0 writes.
FrameAlarmReads ==
    /\ started /\ sample = << >> /\ nextFrame <= 0
    /\ sample' = <<[reference |-> reference, age |-> 0]>>
    /\ UNCHANGED <<coreZeroVars, steering, started, nextFrame, stackVars,
                   consoleVars, astray>>

\* The signed change of next_frame_time_us.
FrameStep(valid, us, now) ==
    LET frameStart == Wrapped(nextFrame)
    IN  IF steering THEN Signed(Wrapped(NextStart(frameStart, valid, us, now) - frameStart))
        ELSE Period

\* Targets in the past are skipped, a period at a time.
Armed(target) ==
    IF target > 0 THEN target ELSE target + Period * ((-target) \div Period + 1)

\* Each argument of the controller is read once, in no particular order: it
\* is what it was at the start or what it is at the end.
FrameAlarmEnds ==
    /\ sample # << >>
    /\ \E valid \in {sample[1].reference.valid, reference.valid},
          us \in {sample[1].reference.us, reference.us},
          now \in {Wrapped(-sample[1].age), 0} :
          nextFrame' = Armed(nextFrame + FrameStep(valid, us, now))
    /\ sample' = << >>
    /\ UNCHANGED <<coreZeroVars, steering, started, stackVars, consoleVars, astray>>

-----------------------------------------------------------------------------
(* Core 0, in the USB device interrupt: tud_event_hook_cb                  *)

Distance(offset) == IF offset < 0 THEN -offset ELSE offset

\* An offset from the nearest point of a grid, in [-Period / 2, Period / 2).
OffGrid(offset) == ((offset + Period \div 2) % Period) - (Period \div 2)

\* How far a time is from the grid of a SOF of so many ticks ago.
OffSof(us, age) == OffGrid(Signed(us) + age)

\* Late by an interrupt's latency, or early by what is too little to pull the
\* tracker.
ObservedErrors == -(PullDivisor - 1) .. MaxLatency

\* An observation that leaves the reference off the grid leaves it astray, as
\* does one that the alarm handler has half missed.
FindsTheGrid(age) == OffSof(reference'.us, age) \in ObservedErrors /\ sample = << >>

\* Publishes the model of the SOF before.
ObserveConsoleSofSlip ==
    /\ sofPending # << >>
    /\ tracker' = Observe(tracker, 0, console.frame)
    /\ reference' = [valid |-> TRUE, us |-> tracker.model]
    /\ sofPending' = << >>
    /\ astray' = (astray /\ ~FindsTheGrid(sofPending[1]))
    /\ UNCHANGED <<subscribed, coreOneVars, stackVars, console>>

\* Before core 1 has set the tracker's period, every arrival is later than
\* half of it and starts the model anew.
ObserveConsoleSof ==
    /\ sofPending # << >>
    /\ LET known == IF started THEN tracker ELSE ResetTracker
       IN  tracker' = Observe(known, 0, console.frame)
    /\ reference' = [valid |-> TRUE, us |-> tracker'.model]
    /\ sofPending' = << >>
    /\ astray' = (astray /\ ~FindsTheGrid(sofPending[1]))
    /\ UNCHANGED <<subscribed, coreOneVars, stackVars, console>>

\* Keeps the tracker, to be quicker when the console comes back.
ForgetConsoleSlip ==
    /\ reference' = Forgotten /\ astray' = FALSE
    /\ UNCHANGED tracker

ForgetConsole ==
    /\ reference' = Forgotten /\ astray' = FALSE
    /\ tracker' = ResetTracker

\* A reset or an unplug: the interrupt queues it for tud_task.
ConsoleLeaves ==
    /\ ~resetQueued
    /\ console' = Silent /\ sofPending' = << >>
    /\ resetQueued' = TRUE
    /\ ForgetConsole
    /\ UNCHANGED <<subscribed, coreOneVars, mounted, sofInterrupt, serviced>>

ConsoleSuspends ==
    /\ console.awake
    /\ console' = Silent /\ sofPending' = << >>
    /\ ForgetConsole
    /\ UNCHANGED <<subscribed, coreOneVars, stackVars>>

-----------------------------------------------------------------------------
(* Core 0, in the main loop                                                *)

\* One event of TinyUSB in a pass of the loop: a console takes longer than a
\* pass from a reset, or a SET_CONFIGURATION, to the SET_CONFIGURATION after it.
TudTask ==
    /\ serviced
    /\ serviced' = FALSE
    /\ UNCHANGED <<coreZeroVars, coreOneVars, console>>

\* TinyUSB's reset drops the configuration and the SOF registration.
TudTaskHandlesReset ==
    /\ resetQueued
    /\ resetQueued' = FALSE /\ mounted' = FALSE /\ sofInterrupt' = FALSE
    /\ sofPending' = << >>
    /\ UNCHANGED astray
    /\ TudTask

GapIsShort == reference.valid => Wrapped(-reference.us) < MaxGap

\* SET_CONFIGURATION of 1.
TudTaskConfigures ==
    /\ console.awake /\ ~resetQueued /\ ~mounted
    /\ mounted' = TRUE
    /\ UNCHANGED <<sofInterrupt, resetQueued, sofPending, astray>>
    /\ TudTask

\* SET_CONFIGURATION of 0: TinyUSB drops the SOF registration, and nothing
\* forgets the tracker and the reference.
TudTaskUnconfigures ==
    /\ console.awake /\ ~resetQueued /\ mounted /\ GapIsShort
    /\ mounted' = FALSE /\ sofInterrupt' = FALSE
    /\ sofPending' = << >>
    /\ astray' = (astray \/ tracker.valid)
    /\ UNCHANGED resetQueued
    /\ TudTask

\* Does not notice that the device was unconfigured.
ServiceConsoleSofSubscriptionSlip ==
    /\ ~serviced /\ serviced' = TRUE
    /\ subscribed' = (subscribed \/ mounted)
    /\ sofInterrupt' = (sofInterrupt \/ (mounted /\ ~subscribed))
    /\ UNCHANGED <<tracker, reference, coreOneVars, mounted, resetQueued, consoleVars,
                   astray>>

ServiceConsoleSofSubscription ==
    /\ ~serviced /\ serviced' = TRUE
    /\ subscribed' = mounted
    /\ sofInterrupt' = (sofInterrupt \/ (mounted /\ ~subscribed))
    /\ UNCHANGED <<tracker, reference, coreOneVars, mounted, resetQueued, consoleVars,
                   astray>>

-----------------------------------------------------------------------------
(* The console's bus and the time                                          *)

\* After a resume, a plug, or a reset, whose signalling outlasts a pass of the
\* main loop: a new grid, at any phase.
ConsoleWakes ==
    /\ ~console.awake /\ ~resetQueued
    /\ \E untilSof \in 2 .. Period + 1, frame \in 0 .. FrameNumbers - 1 :
          console' = [awake |-> TRUE, untilSof |-> untilSof, frame |-> frame]
    /\ UNCHANGED <<coreZeroVars, coreOneVars, stackVars, sofPending, astray>>

\* The crystals drift apart: a tick once in FrameNumbers frames, and without
\* bound while nothing is observed.
PeriodsBefore(frame) ==
    IF frame = 0 \/ ~sofInterrupt THEN Period - 1 .. Period + 1 ELSE {Period}

NextSof ==
    IF console.untilSof > 1
    THEN /\ console' = [console EXCEPT !.untilSof = @ - 1]
         /\ sofPending' = IF sofPending = << >> THEN << >> ELSE <<sofPending[1] + 1>>
    ELSE /\ \E period \in PeriodsBefore(console.frame) :
               console' = [console EXCEPT !.untilSof = period,
                                          !.frame = (@ + 1) % FrameNumbers]
         /\ sofPending' = IF sofInterrupt THEN <<0>> ELSE << >>

SofIsMissed ==
    /\ sofPending # << >>
    /\ tracker.valid /\ (console.frame - tracker.lastFrame) % FrameNumbers \in 1 .. MaxMissed
    /\ sofPending' = << >>
    /\ UNCHANGED <<coreZeroVars, coreOneVars, stackVars, console, astray>>

\* The reads of the alarm handler are less than two ticks apart.
NothingIsDue ==
    /\ started => nextFrame > -MaxDelay
    /\ sofPending # << >> => sofPending[1] < MaxLatency
    /\ sample # << >> => sample[1].age = 0
    /\ ~sofInterrupt => GapIsShort

\* A tick later.  A forgotten reference is too old when it is next made valid.
Aged(someReference) ==
    IF someReference.valid THEN [someReference EXCEPT !.us = Wrapped(@ - 1)]
    ELSE someReference

Tick ==
    /\ NothingIsDue
    /\ IF console.awake THEN NextSof ELSE UNCHANGED consoleVars
    /\ tracker' = IF tracker.valid THEN [tracker EXCEPT !.model = Wrapped(@ - 1)]
                  ELSE tracker
    /\ reference' = Aged(reference)
    /\ nextFrame' = IF started THEN nextFrame - 1 ELSE nextFrame
    /\ sample' = [i \in DOMAIN sample |->
                    [age |-> sample[i].age + 1, reference |-> Aged(sample[i].reference)]]
    /\ UNCHANGED <<steering, started, subscribed, stackVars, astray>>

-----------------------------------------------------------------------------
\* What the console, and the device on the other bus, do to the phase lock.
Disturbance == \/ ConsoleLeaves \/ ConsoleSuspends \/ ConsoleWakes
               \/ TudTaskConfigures \/ TudTaskUnconfigures
               \/ \E enabled \in BOOLEAN : SetSteering(enabled)

Next == \/ StartFrames \/ FrameAlarmReads \/ FrameAlarmEnds
        \/ ObserveConsoleSof \/ SofIsMissed
        \/ TudTaskHandlesReset \/ ServiceConsoleSofSubscription
        \/ Disturbance \/ Tick

Spec == Init /\ [][Next]_vars

(***************************************************************************)
(* Time passes, core 1 starts and its alarm fires, the main loop runs, and *)
(* interrupts are not masked at every SOF.  Neither core has two of its    *)
(* duties here at once.                                                    *)
(***************************************************************************)
CoreOneRuns == StartFrames \/ FrameAlarmReads \/ FrameAlarmEnds

MainLoopRuns == TudTaskHandlesReset \/ ServiceConsoleSofSubscription

Fairness == /\ WF_vars(Tick) /\ WF_vars(CoreOneRuns) /\ WF_vars(MainLoopRuns)
            /\ SF_vars(ObserveConsoleSof)

FairSpec == Spec /\ Fairness

-----------------------------------------------------------------------------
(* Every variable has its type, and no frame is further away than a period *)
(* and the largest step (the Feather's README.md, lines 64-65).            *)
TypeOK ==
    /\ tracker \in Trackers /\ reference \in References
    /\ {steering, started, subscribed, serviced, mounted,
        sofInterrupt, resetQueued, astray} \subseteq BOOLEAN
    /\ nextFrame \in -MaxDelay .. Period + MaxStep
    /\ \A i \in DOMAIN sample : sample[i] \in [reference : References, age : 0 .. 1]
    /\ console \in [awake : BOOLEAN, untilSof : 0 .. Period + 1, frame : 0 .. FrameNumbers - 1]
    /\ \A i \in DOMAIN sofPending : sofPending[i] \in 0 .. MaxLatency

\* From where the console's grid, a lead earlier, puts a frame to where the
\* next one is.
PhaseError == OffGrid(nextFrame + Lead - console.untilSof)

\* How far off the grid the reference is.
ReferenceError == OffGrid(Signed(reference.us) - console.untilSof)

\* A tick either way more than an observation, since the SOF it was made of.
GridErrors == -(PullDivisor - 1) - 1 .. MaxLatency + 1

\* The furthest of them.
MaxGridError == IF MaxLatency < PullDivisor THEN PullDivisor ELSE MaxLatency + 1

(* A reference that the controller would use lies on the SOF grid of the   *)
(* console as it is now, within the latency of an observation and the      *)
(* drift of the crystals: neither missed SOFs and wrapping frame numbers,  *)
(* nor the grid of before a reset or a suspend mislead the tracker.  Only  *)
(* the SOFs that go unobserved while the device is not configured do, for  *)
(* nothing forgets the tracker then, until it is back on the grid          *)
(* (frame_phase.c:30-62, sof_phase_lock.c:89-102, main.c:35-51, 212-222).  *)
ReferenceIsOnGrid ==
    console.awake /\ reference.valid /\ IsFresh(reference.us, 0) /\ ~astray
        => ReferenceError \in GridErrors

(* However long SOFs went unobserved, and whatever the frame numbers and   *)
(* the words that wrapped meanwhile make of the prediction, the reference  *)
(* is on the grid with the next observation or nearer to it than before:   *)
(* the tracker never settles anywhere else (frame_phase.c:30-62,           *)
(* sof_phase_lock.c:89-94).                                                *)
ObservationsFindTheGrid ==
    [][ObserveConsoleSof =>
         LET age == sofPending[1] IN
         \/ OffSof(reference'.us, age) \in ObservedErrors
         \/ /\ reference.valid
            /\ Distance(OffSof(reference'.us, age)) < Distance(OffSof(reference.us, age))]_vars

(* "A stale read is harmless" (sof_phase_lock.h:14): whatever mixture of   *)
(* old and new values the alarm handler reads, it moves no frame away      *)
(* from the console's grid, but where half a period makes both ways as     *)
(* long, as long as the tracker knows the grid (sof_phase_lock.c:39-48,    *)
(* frame_phase.c:97-125).                                                  *)
StaleReadIsHarmless ==
    [][FrameAlarmEnds /\ console.awake /\ reference.valid /\ ~astray =>
         \/ Distance(PhaseError') <= Distance(PhaseError)
         \/ PhaseError' \in GridErrors
         \/ Distance(PhaseError) >= (Period \div 2) - MaxGridError]_vars

\* Core 0 writes between two reads of the handler, or the handler overruns a
\* whole frame.
FrameIsDisturbed ==
    /\ FrameAlarmEnds
    /\ sample[1].reference # reference \/ nextFrame + Period <= MaxStep

(* The phase lock works: left alone with a configured, awake console and a *)
(* configured receiver, the frames come to start a lead before the         *)
(* console's SOF and stay there, through jitter and drift.  That takes the *)
(* SOF registration that every reset drops, renewed each time              *)
(* (main.c:212-222, with sof_phase_lock.c and frame_phase.c).              *)
LocksOn ==
    \/ []<><<Disturbance \/ SofIsMissed \/ FrameIsDisturbed>>_vars
    \/ <>[](mounted /\ console.awake /\ steering => PhaseError \in GridErrors)
=============================================================================
