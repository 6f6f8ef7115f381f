--------------------------- MODULE ReportPipeOps ---------------------------
(***************************************************************************)
(* The functions of src/firmware/common/core/report_pipe.c as operators on *)
(* a report_pipe_t.                                                        *)
(*                                                                         *)
(* The ring (items, read_index, count) is the sequence of its queued       *)
(* items.  latest_valid is set by report_pipe_init and never cleared, so   *)
(* it is not kept.  sequence, timestamp_us and the overflow and stale      *)
(* counters are statistics that no decision reads.                         *)
(*                                                                         *)
(* A definition whose name ends in Slip, here and in the other modules, is *)
(* the definition after it with one plausible mistake.  No specification   *)
(* uses it: it is there to be put in the other's place, when some property *)
(* must fail.                                                              *)
(***************************************************************************)
EXTENDS KeyboardState, Sequences

CONSTANTS
    Capacity,   \* REPORT_PIPE_CAPACITY
    MaxEpoch    \* the largest source epoch (UINT32_MAX)

\* A recovery appends three items to a cleared queue without looking at its
\* size, so a smaller ring would be overrun.
ASSUME PipeAssumption == /\ Capacity \in Nat /\ Capacity >= 3
                         /\ MaxEpoch \in Nat

Epochs == 0 .. MaxEpoch

Items == [state : KeyboardStates, epoch : Epochs]

Pipes == [items : Seq(Items), latest : KeyboardStates, epoch : Epochs,
          active : BOOLEAN, wakePending : BOOLEAN]

Item(state, epoch) == [state |-> state, epoch |-> epoch]

ClearItems(pipe) == [pipe EXCEPT !.items = << >>]

AppendItem(pipe, state) ==
    [pipe EXCEPT !.items = Append(@, Item(state, pipe.epoch))]

AppendLatestIfHeld(pipe) ==
    IF pipe.latest = Released THEN pipe ELSE AppendItem(pipe, pipe.latest)

\* Forgets the release in front.
EnqueueResyncUnreleasedSlip(pipe) == AppendItem(ClearItems(pipe), pipe.latest)

EnqueueResync(pipe) ==
    AppendLatestIfHeld(AppendItem(ClearItems(pipe), Released))

InitialPipe == [items |-> << >>, latest |-> Released, epoch |-> 0,
                active |-> FALSE, wakePending |-> FALSE]

RequestResync(pipe) == IF pipe.active THEN EnqueueResync(pipe) ELSE pipe

SetActive(pipe, active) ==
    IF pipe.active = active THEN pipe
    ELSE RequestResync(ClearItems([pipe EXCEPT !.active = active]))

\* Clears the queue without queueing the release.
BeginEpochSlip(pipe, epoch) ==
    ClearItems([pipe EXCEPT !.epoch = epoch, !.latest = Released,
                            !.wakePending = FALSE])

\* A newer source epoch forgets everything the previous source held.
BeginEpoch(pipe, epoch) ==
    RequestResync(ClearItems(
        [pipe EXCEPT !.epoch = epoch, !.latest = Released, !.wakePending = FALSE]))

\* Appends to a full ring.
RecordChangeOverrunSlip(pipe, state) ==
    LET changed == [pipe EXCEPT
                        !.latest = state,
                        !.wakePending = @ \/ HasNewPress(pipe.latest, state)]
    IN  IF pipe.active THEN AppendItem(changed, state) ELSE changed

\* Drops the state that does not fit.
RecordChangeDropSlip(pipe, state) ==
    LET changed == [pipe EXCEPT
                        !.latest = state,
                        !.wakePending = @ \/ HasNewPress(pipe.latest, state)]
    IN  IF ~pipe.active \/ Len(pipe.items) = Capacity THEN changed
        ELSE AppendItem(changed, state)

\* Lets a release take a press's wake request back.
RecordChangeForgetsWakeSlip(pipe, state) ==
    LET changed == [pipe EXCEPT !.latest = state,
                                !.wakePending = HasNewPress(pipe.latest, state)]
    IN  IF ~pipe.active THEN changed
        ELSE IF Len(pipe.items) = Capacity THEN EnqueueResync(changed)
        ELSE AppendItem(changed, state)

\* report_pipe_publish_at once the epoch is current and the state has changed.
RecordChange(pipe, state) ==
    LET changed == [pipe EXCEPT
                        !.latest = state,
                        !.wakePending = @ \/ HasNewPress(pipe.latest, state)]
    IN  IF ~pipe.active THEN changed
        ELSE IF Len(pipe.items) = Capacity THEN EnqueueResync(changed)
        ELSE AppendItem(changed, state)

PublishCurrent(pipe, state) ==
    IF pipe.latest = state THEN pipe ELSE RecordChange(pipe, state)

Publish(pipe, state, epoch) ==
    IF epoch < pipe.epoch THEN pipe
    ELSE IF epoch > pipe.epoch THEN PublishCurrent(BeginEpoch(pipe, epoch), state)
    ELSE PublishCurrent(pipe, state)

SourceReset(pipe, epoch) ==
    IF epoch < pipe.epoch THEN pipe ELSE BeginEpoch(pipe, epoch)

\* A press and a release of the mask's modifiers ahead of the current state.
RequestModifierRecovery(pipe, modifierMask) ==
    IF ~pipe.active \/ modifierMask = {} THEN pipe
    ELSE AppendLatestIfHeld(
             AppendItem(AppendItem(ClearItems(pipe), modifierMask), Released))

\* report_pipe_pop of a non-empty queue hands over Head(pipe.items).
Pop(pipe) == [pipe EXCEPT !.items = Tail(@)]

Acknowledge(pipe, item) ==
    IF pipe.items = << >> /\ item = Item(pipe.latest, pipe.epoch)
    THEN [pipe EXCEPT !.wakePending = FALSE]
    ELSE pipe

TakeWakeRequest(pipe) == [pipe EXCEPT !.wakePending = FALSE]
=============================================================================
