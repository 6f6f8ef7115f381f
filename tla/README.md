# A TLA+ model of the G915 keyboard bridges

The repository holds two bridges for a wireless keyboard. The **Feather** bridge
hosts the keyboard's USB receiver on one core and is a USB keyboard to the
computer on the other. The **Pico** bridge is a Bluetooth LE HID host on one side
and the same USB keyboard on the other. Both share `firmware/common`: the
canonical keyboard state, the report pipe between source and USB, and the USB
keyboard adapter. Paths below are relative to `src/firmware/`; `FE/` is
`g915_feather_rp2040_usb_host_bridge/`, `PI/` is `g915_pico2w_bridge/`.

What the bridge has to get right is one sentence: *the computer sees what the
keyboard does, and nothing else*, although reports are dropped when a queue is
full, sources come and go, and the USB bus resets and suspends at any moment.

## 1. Inventory

| Component | State it keeps | Operations | What makes it correct |
|---|---|---|---|
| Keyboard state, `common/core/keyboard_state.c` | usage bitmap, modifiers, errors | set, merge, compare, filter, encode as a boot report | the report is a function of the state; too many keys become a rollover |
| Report pipe, `common/core/report_pipe.c` | ring of states, latest state, source epoch, active, wake latch | publish, source reset, activate, resync, recovery, pop, acknowledge | a consumer that drains it ends on the latest state; nothing of a dead epoch; skips only across a release |
| USB adapter, `common/usb/usb_keyboard.c` | mounted, suspended, wake flags, report in flight, LEDs, idle rate | the task and ten TinyUSB callbacks | the computer ends on the keyboard's state, sees only states the keyboard was in, in order, and is woken once |
| Feather events, `FE/host/usb_host_keyboard.c` | event queue between the cores, source epoch, last state, status | callbacks and interrupt hook on core 1, consumer on core 0 | discarding old events is harmless, epochs arrive in order, the status is right |
| Feather driver, `FE/host/boot_keyboard_host.c` | claimed interface, configuration stage, armed endpoint | open, set_config, transfers, close | a claimed keyboard is configured, polled and reset when it goes |
| Frame phase, `FE/host/frame_phase.c` | an estimate of the console's SOF grid | observe, reset; the next frame's start | the estimate is on the grid; steps are bounded and take the shorter way |
| SOF lock, `FE/host/sof_phase_lock.c` and the hook in `FE/main.c` | tracker and reference (core 0), frame schedule and steering (core 1) | SOF interrupt, frame alarm, steering, forgetting | a torn read is harmless; left alone, the frames lock on |
| BLE host, `PI/ble/hog_client.c` | client state, peers, handle, timer, backoff, epoch; approved peer in flash | HCI, SM, HIDS and timer handlers; forget | only the approved keyboard types; no link or wait is left behind; it never gives up |
| Decoder, `PI/ble/hid_keyboard_decoder.c` | report fragments, merged state | reset, decode | one report never releases another's keys |
| `main.c` of both, descriptors, configuration, `g915_pico2w_blink` | LEDs, serial diagnostics, constants | | wiring and output |

**How they interact.** On the Pico, BTstack, TinyUSB and the serial command line
run in one foreground loop: `hog_client` calls `handle_keyboard_state` and
`handle_source_reset` of `main.c`, which call the pipe; `usb_keyboard_task`
drains it. On the Feather, core 1 runs the USB host (callbacks, and one interrupt
that sees attach and removal) and passes events to core 0 over a bounded SDK
queue; core 0 feeds the pipe and runs the adapter. The pipe itself is only ever
touched from one context. Beside that, core 0 tells core 1 in two plain words
where the console's frames are, and core 1 steers its own frames by them.

**What is hard.** Reports that are refused, fail or complete late; bus resets
TinyUSB announces to nobody; suspends with a report armed; a full ring or event
queue; the three operations of `queue_event` with another core and an interrupt
in between; BLE completions that arrive after the client gave them up; storing
that fails; power cycles; a forget command in the middle of anything; two words
read one at a time while the other core writes them; wrapping times.
`PROJECT.json` lists these hazards line by line.

## 2. Modules

| Module | Models | Uses |
|---|---|---|
| `KeyboardState` | `keyboard_state.c` as sets of usages | |
| `ReportPipeOps` | each function of `report_pipe.c` as an operator on a record | `KeyboardState` |
| `ReportPipe` | those functions called in any order | `ReportPipeOps` |
| `ReportPipeOps_proofs` | what those functions return, lemma by lemma | TLAPS |
| `ReportPipe_proofs` | theorems about `ReportPipe` | `ReportPipeOps_proofs` |
| `KeyboardRelay` | abstract: what a bridge promises its computer | |
| `KeyboardRelay_proofs` | theorems about `KeyboardRelay` | TLAPS |
| `UsbKeyboard` | the adapter, TinyUSB's device side and the computer; implements `KeyboardRelay` | `ReportPipeOps` |
| `UsbKeyboard_proofs` | the adapter's safety, that it implements the relay, that sources are kept apart | `ReportPipeOps_proofs`, `KeyboardRelay_proofs` |
| `FeatherSource` | the Feather's host side on both cores, feeding a pipe | `ReportPipeOps` |
| `FeatherSource_proofs` | that the two cores agree | `ReportPipeOps_proofs` |
| `FeatherBridge` | both sides of the Feather around one pipe; implements `UsbKeyboard` | `FeatherSource`, `UsbKeyboard` |
| `FeatherBridge_proofs` | that refinement, and that the two sides agree | `FeatherSource_proofs`, `UsbKeyboard_proofs` |
| `FramePhase` | `frame_phase.c` as operators on wrapping words | |
| `SofPhaseLock` | the SOF tracker and the frame alarm on two cores, the console's bus | `FramePhase` |
| `SofPhaseLock_proofs` | that the reference stays on the console's grid and stale reads are harmless | TLAPS |
| `HidDecoder` | the fragment table of the decoder | `KeyboardState` |
| `HogClient` | the BLE lifecycle, feeding a pipe | `HidDecoder`, `ReportPipeOps` |
| `HogClient_proofs` | who types, what the pipe shows, and that nothing is left behind | `ReportPipeOps_proofs` |
| `MC*` | the constants of the runs | |

Names follow the source (`tud_suspend_cb` is `TudSuspendCb`). A definition whose
name ends in `Slip` is the definition after it with one plausible mistake; no
specification uses it. Each property of a passing run has one that breaks it.

### How state and actions correspond to the code

*Keyboard state.* A state is the set of pressed usages. Usages are kept apart only
as far as the code does: modifiers, keys a boot report can carry, keys it cannot,
and source errors. `BootReport` turns more than `BootKeyCount` keys into the
rollover report.

*Report pipe.* The ring is the sequence of its items. `latest_valid` is always
true after `report_pipe_init`. Sequence numbers, timestamps and counters decide
nothing. `Publish` is the whole of `report_pipe_publish_at`: the stale check, the
barrier of a new epoch, the duplicate check, the wake latch, the overflow.

*USB adapter.* A callback and a pass of `usb_keyboard_task` are each one step.
`pending_item` does not outlive a pass. `endpoint` is TinyUSB's IN endpoint: a
report is *armed* when TinyUSB accepted it, *done* when the host has polled it and
the completion is not delivered yet; TinyUSB delivers its events in order. The
host's view (`hostReport`, `hostModifiers`, `sessionLeds`) is what the properties
are about. Time is abstracted: the wake delay elapses in a step of its own, an
idle period may be over whenever an idle rate is set. `HostHabits` says which
hosts a run allows: usual ones that set an idle rate or allow remote wakeup, and
uncommon ones: one that suspends before it configures, one that
resets and configures within one pass of the loop, one whose OS keeps the
modifiers of a vanished session. `usb_feather` allows the first two of these, and
the recovery at mount makes them harmless. `usb_pico` allows none: without a recovery
`MountStartsFresh` fails for the first (run `usb_early_suspend`) and would for the
second, which needs an enumeration of several control transfers to be over before
the loop, which passes in microseconds, has come round once.

*The abstract relay.* `KeyboardRelay` knows what the keyboard holds, the reports
still to be shown, the one on the wire, and the one the computer saw last. It may
leave reports out only by starting over, and it starts over from a release.
`ImplementsRelay` maps `UsbKeyboard` to it: the plan is the queue while a host of
this session is watching (`Watched`: the device is configured and the pipe active)
and empty otherwise, the wire is an armed endpoint. Epochs, wake requests, the
ring's size, refusals and failures disappear; a bus reset that nobody has noticed
is the computer's forgetting, and the task noticing it is a stuttering step.

*Feather source.* A callback runs in one step up to its first `queue_event`. Each of
the three queue operations of `queue_event` is a step: the first `queue_try_add`
(`TryAdd`, or `AddIsRefused` by a full queue), `TryRemove` and `TryAddAgain`. Between
two of them core 0 (`UsbHostKeyboardTask`) and the interrupt (`DeviceAttaches`,
`DeviceIsRemoved`, `HookQueues`) may run: core 0 may have drained the queue that was
full, so that the one event left in it is discarded, or none. Enumeration is TinyUSB's: an attach is handled some time
after the interrupt saw it, a removal likewise, in order. Descriptor parsing is
the choice whether an interface is claimed; class requests may be answered, fail,
or not be sendable, and the code treats an answer and a failure alike.
`lost` is a ghost: what `queue_event` has discarded so far. Whether `arm_receive`
works is a choice each time; its failures are only counted.

*The Feather bridge.* `FeatherBridge` takes every action of `FeatherSource` and
every action of `UsbKeyboard` but its two source actions, over one `pipe`. The
loop of `main.c` serves TinyUSB, the queue and the adapter in turn; here they
come in any order, which allows more. `ImplementsAdapter` says that this is the
adapter in front of one particular source: the instance `Usb` has every state as a
source state and every pair of them as a step, and each step of the two cores is
one of its source actions or leaves it alone. `BridgeAssumption` says of the
bridge's own constants what the two modules assume of theirs: an instance has no
assumptions of its own.

*Frame phase and SOF lock.* The code only ever uses differences of times, so the
model keeps each time as its distance from the present: a `Tick` moves all of
them, and the words the code compares (`reference`, `tracker.model`) wrap at
`Word`. The frame alarm samples what core 0 writes (`FrameAlarmReads`) and ends
after up to two ticks (`FrameAlarmEnds`), each of the reference, its validity and
the time being the old or the new one. `console` is the bus: it sends a SOF each
period, a tick early or late once in `FrameNumbers` frames, resets, suspends and
comes back at any phase; the observation is up to `MaxLatency` late and up to
`MaxMissed` in a row are missed. TinyUSB's reset drops the configuration and the
SOF interrupt (the comment at `FE/main.c:204-211`), as does its handling of a
`SET_CONFIGURATION` of 0 (`TudTaskUnconfigures`; TinyUSB is not in the repository,
and this is known of it), and `ServiceConsoleSofSubscription` renews it.

A reset, an unplug and a suspend forget the tracker and the reference; a
`SET_CONFIGURATION` of 0 does not. The console goes on sending SOFs that nobody
observes, the crystals drift by as much as they like, and the first observation
after the gap is compared with a prediction across it. The history variable
`astray` marks this: since such a gap the tracker was neither forgotten nor on the
grid. What the code still does then is `ObservationsFindTheGrid`: an arrival that
is early, or late by more than half a period, starts the model anew, and one that
is late by less pulls it by 1/16, so a wide drift takes some tens of SOFs. The
reference is in use meanwhile; no comment or document promises otherwise.

Assumed: a console's reset, resume or
enumeration takes longer than `MaxAge`, so a forgotten reference is too old to be
used should a torn read take its old validity; the loop handles a reset while it
is still signalled; and it comes round between a reset, or a `SET_CONFIGURATION` of 0, and the
`SET_CONFIGURATION` after it. `sof_phase_lock_start_frames` resets core 0's
tracker from core 1, against the comment at `FE/host/sof_phase_lock.c:18-19`;
the model lets that happen at any time after the start and the properties hold.

*BLE host.* One handler is one step. What it asks of the radio only begins:
`attempt` is the outgoing connection, `links` the connections with their security
and HIDS client; completions are actions of their own that may come when the
client has moved on. A peer is its identity under whatever address. `record` and
`bonds` are flash and survive `Reboot`; storing the approval may fail. Forgetting
deletes the record and up to two bonds one after the other, and the power may go in
between (`ForgetPeerIsCut`): the record is gone and a bond is left, with which that
keyboard may come back without a pairing. It is not in `forgotten` then: the promise
is about a command that was carried out. `held` and
`forgotten` are ghosts: the keys the keyboard holds report by report, and the
peers forgotten since they were last paired. The last part of a handler that ends
in a connect, a retry, a disconnect or a cancellation is an operator over the
client as the handler has left it so far.

Assumed of what is outside `src/`: the flash store is there (it may refuse a
write); the HIDS client's own disconnect event is dispatched with the HCI
disconnection, as the comment at `hog_client.c:416` says; BTstack has
one HIDS client and no second outgoing attempt; TinyUSB delivers events in order.
Four branches of `hog_client.c` are in the model but cannot be taken in it
(a disconnect without a handle, a retry while the controller is down, an
unexpected link while the client has one, a service that
connects on a link that is not secure): they are written as `IF`s, with the
condition of the code.

## 3. Runs

| Run | Question | Bounds | States |
|---|---|---|---|
| `report_pipe` | do the functions keep their promises in any order of calls? | ring of 4, 3 usages, epochs 0..2 | 4 thousand |
| `usb_feather` | does the computer see what the keyboard does, with the Shift recovery? is it the abstract relay? | ring of 4, 5 source states, one of them a key that no report shows, epochs 0..2; hurried host | 55 thousand |
| `usb_pico` | the same without recovery, and LEDs | ring of 4, 4 states, 2 LED values | 79 thousand |
| `usb_live` | does an undisturbed host converge, does a press wake it? | ring of 3, epochs 0..1 | 12 thousand |
| `feather_source` | do the cores agree, at every interleaving of queue operations? | queue of 3, epochs 0..3, 2 pending hub events, 2 interfaces | 537 thousand |
| `feather_bridge` | does the computer hold what the keyboard holds, and let go of what was unplugged? is the bridge the adapter in front of a source? | ring of 3, queue of 2, epochs 0..2, one key, one pending hub event; no remote wakeup, idle rate or recovery | 365 thousand |
| `sof_phase` | do the frames lock on, whatever the console and a torn read do? | 12 ticks a frame, words of 160, 3 frame numbers, a pull of 1/2, steps of 1, a latency of 1, a handler almost a frame late, a reference unobserved for up to 26 ticks | 698 thousand |
| `hog_client` | who may type, and does the client always get on? | 2 keyboards, 2 handles, 2 fragments, 3 epochs | 17 thousand |
| `usb_early_suspend`, `usb_retained`, `feather_newest`, `hog_wrap` | four statements of comments and docs that the code does not keep | as above | |

**Why the bounds are enough.** The pipe behaves differently only for an empty, a
partly filled and a full ring, and a recovery needs three places: 4 gives all
cases. Three epochs give a stale, a current and a newer one at the same time. The
source of the USB runs walks through a fixed relation of states
(`SourceSteps`), so that a pair of reports that is *not* a step of it is
recognised. `BootKeyCount` is 1 there, so a second key already is a rollover. A
queue of 3 is filled by the events of one callback plus the interrupt's; two
pending hub events are a removal and an attach nobody has handled. Two keyboards
and two handles give a late completion by a stranger while the client has, or
awaits, its own link. The retry delay takes two values, the initial and the
capped one.

`feather_bridge` is what remains small enough of two large machines: one keyboard is
plugged in, types, and is unplugged (two epochs), with a queue that a single
callback fills and an interrupt that waits for `queue_event` (the preempting one is
in `feather_source`). A second keyboard and the host's rarer habits are left to the
runs of the two parts.

In `sof_phase` a frame has 12 ticks, so that half a period, the lead, an
observation's latency and a step are all different. `PhaseLockAssumption` asks that
all the times the code compares fit half a word, which takes 160 ticks. 26 ticks
without an observation (`MaxGap`) are more than two frames, and enough for the
reference to grow older than `MaxAge` (15) and become fresh again with the
observation after the gap. A crystal that nobody observes drifts by a tick every
frame here, so one gap puts the tracker further off the grid than an observation may
be, several in a row add up, and frame numbers wrap within them. A handler may be
late by almost a frame: its next target is then past, and it skips a frame. The
ratio of step to period is larger than in the code (1/12 against 2/1000), which only
makes the lock faster; the pull of 1/2 against 1/16 lets late observations disturb
it more.

In `feather_source` and `feather_bridge` epochs are bounded, so the source cannot
reset for ever and nothing is plugged in any more once they are used up: deadlock
is not checked there, nor in `sof_phase`, where a bound
on a delay stops the time but never the actions it waits for. In `HogClient` no connection completes once the
epoch has reached `LastEpoch`; the client still times out, cancels and retries, so
deadlock is checked. With `LastEpoch <= MaxEpoch` the epoch does not wrap;
`hog_wrap` lets it.

**Properties.** Each states its promise in the module, with the code it is about.
The ones to read first: `SkipsOnlyAcrossRelease` and `EndsOnLatest` (pipe),
`ImplementsRelay`, `ReleaseBetweenSources` and `SettledHostSeesLatest` (what
reaches the computer), `ComputerFollowsKeyboard` (end to end), `OutdatedEventsDoNotMatter` and `EpochsArriveInOrder`
(between the cores), `LocksOn`, `StaleReadIsHarmless` and
`ObservationsFindTheGrid` (frame phase),
`ReadyIsApproved`, `NoLinkIsOrphaned`, `ForgottenStaysOut`
and `NeverGivesUp` (BLE).

**Fairness.** `UsbKeyboard`: weak fairness of the task's steps (the main loop
never stops), of time, of the host's polling while awake, of the completion's
delivery, and of the resume after remote wakeup was signalled. Nothing is assumed
of the source or of the host's resets: `HostConverges` says what holds once they
leave the device alone. `FeatherBridge`: each of the three actors is weakly fair as
a whole. Core 1 does not stop while it has a `queue_event` to finish or a removal
to handle (`CoreOneWorks`), core 0's loop goes on taking events and serving the
adapter (`CoreZeroWorks`), and the computer polls while it is awake
(`ComputerPolls`).
Nothing is assumed of the user: `ComputerFollowsKeyboard` says what holds once the
keyboard is left alone, unless the last event that told the keys was discarded
from a full queue (`lost` has "keys"; the hazard at `usb_host_keyboard.c:91`).
`SofPhaseLock`: time passes; core 1 starts, and its alarm fires and ends
(`CoreOneRuns`); the main loop handles resets and serves the subscription
(`MainLoopRuns`); each of the three weakly as a whole, because none has two of its
duties to do at once for ever. Interrupts are not masked at every SOF (strong, for
the observation). `LocksOn` is about frames that are left alone: from some point on no
reset, suspend or reconfiguration, no missed SOF, no frame during which core 0
wrote between the alarm's reads, and none that overran. Without the last two the
alarm could read an old validity or time at every single frame, and never steer.
`HogClient`: the run loop fires its timers; BTstack ends a
disconnection it was asked for (the link's supervision timeout does if the peer is
silent) and a cancellation it has begun; and `gap_connect` is not refused for ever.
No connection is assumed ever to succeed.

**Findings.** `usb_early_suspend`: `tud_resume_cb` activates the pipe of a device
that is not mounted, so a host that suspends and resumes before configuring gets
an old queue. `usb_retained`: the Shift recovery is an ordinary part of the queue,
and any resynchronization before it is sent removes it. `feather_newest`: the
second `queue_try_add` of `queue_event` may fail, and the newest event is lost.
`hog_wrap`: the wrap of `source_epoch` is taken for a stale epoch (after 2^32 - 1
sessions without a power cycle; of theoretical interest). Beside these, the source
has a stale document: `.ai/Raspberry-Pi-Pico-2-W.md:93-95` says that the oldest
queued state is discarded when the USB queue fills, which was so in an older
implementation; `report_pipe.c:78-82` replaces the whole queue by a release and the
latest state, which is what the model does and `SkipsOnlyAcrossRelease` is about.

## 4. Proofs

`KeyboardRelay_proofs` proves, for any reports, recoveries and keyboard:

| Theorem | Statement |
|---|---|
| `RelayInvariance` | `Spec => []Inv`: seen, wire and plan together are legal and end on what is held |
| `SeenStaysLegal` | `Spec => SeenIsLegal`: the computer is never shown a chord the keyboard did not go through |
| `QuietRelayHasAgreed` | `Spec => []QuietRelayAgrees`: with nothing left to show, it has seen what the keyboard holds |

Neither promise is inductive: what the computer may see next depends on what is
planned, so `Inv` says of the whole line from `seen` over the wire to the end of
the plan that neighbours are legal, and that its end is `held`. `FreshPlan` is the
lemma about starting over. No assumption on the constants is needed.

`ReportPipe_proofs` proves, for every set of usages, every ring of at least three
items, every number of epochs, every set of recovery masks and every source:

| Theorem | Statement |
|---|---|
| `Invariance` | `Spec => []IInv` |
| `TypeCorrect` | `Spec => []TypeOK`: the queue fits the ring though `append_item` never looks |
| `DrainedIsLatest` | `Spec => []EndsOnLatest` |
| `SkipsAreReleased` | `Spec => []SkipsOnlyAcrossRelease` |

Assumptions: `PipeAssumption` (a ring of at least three: a recovery appends three
items to an empty queue) and those that type the other constants.

The four invariants are not inductive one by one: that the queue ends on the
latest state needs that what an *inactive* pipe keeps is empty, and that skips are
released needs to know what was popped last. `IInv` ties the queue to `told`:
`QueueOK` says that it fits, is of the current epoch and moves as the source did;
`FollowsOn` that it ends on the latest state, that its first item may follow what
was told, and that an active pipe with an empty queue has told the latest state.
There is one lemma per function of `report_pipe.c` (what it makes of a good pipe
is good), on top of lemmas for `clear_items` and `append_item`; `NextIInv` has one
case per action and cites them.

`UsbKeyboard_proofs` proves, for every keyboard, ring, number of epochs, recovery
mask, LEDs and set of host habits:

| Theorem | Statement | Assumes |
|---|---|---|
| `AdapterInvariance` | `Spec => []IInv` | |
| `AdapterTypeCorrect` | `Spec => []TypeOK` | |
| `HostIsWokenOnce` | `Spec => []OneWakePerSuspend` | |
| `SleepNeverForgetsWake` | `Spec => SleepKeepsWake` | |
| `SettledHostAgrees` | `Spec => []SettledHostSeesLatest` | `Recovers` |
| `SettledHostIsNotWoken` | `Spec => []SettledHasNoWake` | `Recovers` |
| `SessionStartsFresh` | `Spec => MountStartsFresh` | `Recovers` |
| `OfflineHistoryIsDropped` | `Spec => []OfflineKeepsNoHistory` | no early suspend |
| `LedsAreOfThisSession` | `Spec => []LedsOfThisSession` | no fast enumeration |
| `AdapterImplementsRelay` | `Spec => ImplementsRelay` | `Recovers` |
| `HostFollowsSource` | `Spec => ReportsFollowSource` | `Recovers` |
| `SourcesAreApart` | `Spec => ReleaseBetweenSources` | `Recovers` |

`Recovers` says that there is a recovery mask (the Feather), or that the host
neither suspends before it configures nor resets and configures within one pass of
the loop (the Pico). Without it `tud_mount_cb` can find the pipe active and leave
an old queue in it, which `usb_early_suspend` shows: the assumption is where the
proof needed it, and the finding is why.

None of these is inductive. `IInv` adds what ties the adapter to the bus
(`BusInv`: a configured, awake device has an active pipe, a suspended one has
nothing in flight and an inactive pipe, a wake signal means the adapter remembers
it), what holds for hosts without a habit (`HabitInv`), and, under `Recovers`,
what was sent: with an empty queue the report armed, or seen last, is the latest
state (`SentInv`), and if a wake request is still latched, the report in flight is
the one whose completion will clear it (`WakeInv`). That last part also needs that
a queue that is not empty ends on the latest state (`SoundPipe`), so that the last
item popped is it. `ReportPipeOps_proofs` says what each function of
`report_pipe.c` does to a sound pipe; the step lemmas cite those. The refinement
maps a queue to its reports (`Reported`), and shows of `Append`, `Tail` and a
queue that starts over that their images are the relay's `Follows`, `Sends` and
`FreshPlans`. `HostFollowsSource` is then the relay's `SeenStaysLegal`, carried
over by the same `INSTANCE`. Epochs are not in the relay, so `SourcesAreApart` has
an invariant of its own: neighbours on the line from the computer over the
endpoint to the queue are of one epoch or have a release between them
(`ArmedEases`, `QueueEases`).

`FeatherSource_proofs` proves, for every keyboard, depth of the queue between the
cores, number of epochs and of pending hub events, and with an interrupt that
preempts `queue_event` or not:

| Theorem | Statement |
|---|---|
| `SourceInvariance` | `Spec => []IInv` |
| `SourceTypeCorrect` | `Spec => []TypeOK` |
| `DiscardingIsHarmless` | `Spec => []OutdatedEventsDoNotMatter` |
| `NoEventIsStale` | `Spec => []EpochsArriveInOrder` |
| `StatusIsTrue` | `Spec => []ReadyMeansKeyboard` |
| `PausesAreKept` | `Spec => []EnumerationIsPaced` |

What the runs check says nothing while events are under way, so `IInv` says what
they will come to. `KeysInv`: the *last* event that tells the keys, first among
those the callback still queues, then in the queue, tells what the keyboard holds;
without any, the pipe already has it. A discarded oldest event matters only if it
was that one (`OldestIsOutdated`), which is what the ghost `lost` records as
"keys". Core 0 may drain the queue between the refused first try and the removal, so
the last event there is may be discarded although there is room by then.
`ReadyInv` says the same of the status, where the interrupt's events come
between the queue and the callback's. `OrderInv` needs that what is still to be
queued is of the current epoch, because no callback starts, and so no epoch
begins, before the one before has queued its events. `DeviceInv` is the part about
TinyUSB: no keyboard is mounted while there is no device, and only a configured
device has the pauses given up. One lemma says what an operation of `queue_event`
is to the queue (`QueueingType`), from either context; the invariant's parts follow
from it.

`FeatherBridge_proofs` proves, for every keyboard, queue, ring, number of epochs,
recovery mask and set of host habits:

| Theorem | Statement | Assumes |
|---|---|---|
| `BridgeInvariance` | `Spec => []BridgeInv` | |
| `BridgeIsAdapter` | `Spec => ImplementsAdapter` | |
| `QuietBridgesAgree` | `Spec => []QuietBridgeAgrees` | `Recovers` |

`BridgeInv` is the invariants of both sides around the one pipe. A step of the
source is not a step of the adapter, and the other way round, but each treats the
pipe as the other allows: what the source does to the pipe (publish, reset,
nothing) is a source action of the adapter in an epoch that never goes back, so
the adapter's invariant survives it; what the adapter does to the pipe leaves its
latest state and epoch alone, which is all that the source's invariant says of it.
The first half of that is also the refinement, so all that `UsbKeyboard_proofs`
shows for every source holds of the Feather. `QuietBridgesAgree` chains three
facts: a drained queue has told the pipe what the keyboard holds (unless `lost`
says that this event was discarded), a settled computer has seen the pipe's latest
state, and both are the boot report of the same keys.

`HogClient_proofs` proves, for every set of peers, handles, reports and keys, every
ring, and any retry delays:

| Theorem | Statement | Assumes |
|---|---|---|
| `Invariance` | `Spec => []IInv` | |
| `TypeCorrect` | `Spec => []TypeOK` | |
| `OnlyTheApprovedTypes` | `Spec => []ReadyIsApproved` | |
| `TheForgottenStayOut` | `Spec => []ForgottenStaysOut` | |
| `NoneIsOrphaned` | `Spec => []NoLinkIsOrphaned` | |
| `WaitsEnd` | `Spec => []EveryWaitEnds` | |
| `ThePipeShowsTheKeyboard` | `Spec => []PipeShowsKeyboard` | `EpochsSuffice`, `FragmentsSuffice` |
| `NoKeyOutlivesItsSession` | `Spec => []DisconnectReleasesKeys` | `EpochsSuffice` |
| `TheApprovalSurvives` | `Spec => ApprovalSurvives` | |

`ReadyIsApproved` speaks of READY alone, and a keyboard gets there through three
states and as many completions. `PeerInv` follows it: while the controller works
the client's approval is the one on flash; a target was called *because* it is
approved exactly if anyone is; from HIDS_SETUP on the link is strong, the peer is
bonded, and it is the approved one if there is one. `BondInv` is why a forgotten
keyboard stays out: no forgotten peer has a bond, so none gets past security
without pairing anew. `LinkInv` ties the client's handle to its state and every
other connection to a disconnection under way, which is what makes a late
completion harmless. `OneHids` (BTstack has one HIDS client) is needed for the
decoder: the end of a stranger's HIDS connection must not reset what the client's
own keyboard holds.

The two hypotheses are limits of the code. `EpochsSuffice` (`LastEpoch <= MaxEpoch`)
says that sessions end before `source_epoch` wraps; `hog_wrap` shows that without
it a disconnected keyboard's keys stay down, and `NoKeyOutlivesItsSession` that a
wrap is the only way this happens. `FragmentsSuffice` says that the keyboard has
no more reports than the decoder has fragments; the code ignores a report that
finds no fragment. Under the first, `PipeInv` says that no epoch the client uses is
behind the pipe's, so no reset or report is taken for a stale one. Under the second,
`DecoderInv` says that each fragment holds what its report last told.

`SofPhaseLock_proofs` proves, for every word, period, frame number range, pull,
lead, step, age, latency, delay, run of missed SOFs and length of a gap (`MaxGap`
may be a word or more, which is no limit) that the assumptions admit:

| Theorem | Statement |
|---|---|
| `Invariance` | `Spec => []IInv` |
| `TypeCorrect` | `Spec => []TypeOK`: no frame is ever further away than a period and a step |
| `ReferenceStaysOnGrid` | `Spec => []ReferenceIsOnGrid` |
| `StaleReadsAreHarmless` | `Spec => StaleReadIsHarmless` |
| `ObservationsComeNearer` | `Spec => ObservationsFindTheGrid` |

`PhaseLockAssumption` is where the arithmetic needs it, and the code satisfies it
with room: an observation is late by less than half a frame (500 us; an interrupt
is late by a few), the pull divides by 16, frame numbers wrap at 2048, and the
times compared, some frames, fit half of 2^32 us. Without the last, the conversion
of a difference to `int32_t` gives it the wrong sign.

First come lemmas about the words: the same difference gives the same wrapped
value (`WrappedSame`), a difference smaller than half a word survives the
conversion (`SignedWrapped`), how far a time is off the grid does not change when
it moves by a period (`OffGridSame`), `wrap_to_period` returns that distance with
the sign of the shorter way (`WrapToPeriodIs`), and from these what a frame's step
is (`FrameStepIs`) and when its alarm is armed (`ArmedIs`). `NextFrameNumber`
shows that the eleven-bit difference of two frame numbers is the number of frames
between them.

That the reference is on the grid is not inductive. After a drift of one tick the
tracker is off by as much as it was and a tick more; the next observation pulls it
back, but never further than it was off. So `OnTrack`, the part of `TrackerInv` about
a tracker that is not `astray`, has two bounds, a tight one after an observation
(`ObservedErrors`) and a loose one (`GridErrors`) after a drift, and says what a
waiting observation will find. Of a tracker that is astray `TrackerInv` says only
that the reference is its model. What an observation makes of that is a lemma that
needs no history (`ObservationStep`): whatever the model and the frame numbers were,
the new one is on the grid or nearer to it. `ObservationsComeNearer` is that lemma
as a promise, and `ObservedOnTrack` is how a tracker gets back on track. `SampleInv` is the part about two cores: what
the alarm handler has read is on the grid as it now is, or belongs to a console
that is gone, and then it is too old to be used before a new console can have sent
a SOF. `StaleReadsAreHarmless` follows in one step lemma (`StaleStep`), with a case
for each mixture of old and new words that the handler may have read.

**Only model-checked:** the liveness properties (`HostConverges`, `PressWakesHost`,
`ComputerFollowsKeyboard`, `LocksOn`, `NeverGivesUp`): TLAPS proves neither
properties under fairness nor anything about `ENABLED`. Every invariant, action
property and refinement that a run finds to hold is proved. What a recursive
definition computes would be out of its reach too; no module has one.

## 5. Not modelled

The status LEDs, serial diagnostics with their log queue and token statistics, and
latency statistics: output only. The Pico's command parser: it collects at most
six characters of a line and compares them with one word; what the command does is
`ForgetPeer` of `HogClient`. Descriptors and stack configuration;
`g915_pico2w_blink`; the wording of anything printed. The Pico from end to end:
`HogClient` and `UsbKeyboard` around one pipe are too large together for TLC at
bounds where either does anything of interest; each is checked against the pipe.
For the Feather the two are put together, and `ImplementsAdapter` is the statement
the Pico still lacks.

The hazards without a property: a ninth report fragment is ignored, as documented
in the code; and an endpoint whose re-arm failed stays idle, which is counted and
printed and nothing else. The age of a reference wraps after 71 minutes, which only
that of an unconfigured device reaches: it would be steered by again for `MaxAge`,
wherever it points by then. The properties promise nothing of such a reference
(it is `astray`) but that the next observations bring it back.

## 6. Plan

Done: the pipe, the relay, the adapter, both source sides, the Feather from end to
end, the frame phase lock and the BLE host, each with its proofs, and two
refinements: the Feather is the adapter in front of a source, and the adapter, where
the code recovers, is the relay.

1. `HogClient` as a source of the adapter: the Pico's counterpart of
   `BridgeIsAdapter`, which needs no run of both together.
2. `ReportRing`: `read_index` and `count` as in the code, refining the sequence of
   `ReportPipeOps`.
3. Lemmas about the decoder and the boot report beyond what the proofs use.
