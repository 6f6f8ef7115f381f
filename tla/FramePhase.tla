----------------------------- MODULE FramePhase -----------------------------
(***************************************************************************)
(* The arithmetic of frame_phase.c: an estimate of the console's SOF grid  *)
(* (the tracker) and the start of the next local frame (the controller).   *)
(* Times are words that wrap.                                              *)
(*                                                                         *)
(* last_error_us, locked, adjustment_count and observations are printed    *)
(* and decide nothing.                                                     *)
(***************************************************************************)
EXTENDS Integers

CONSTANTS
    Word,           \* the values of a uint32_t
    Period,         \* period_us
    FrameNumbers,   \* the values of a USB frame number, USB_FRAME_NUMBER_MASK + 1
    PullDivisor,    \* TRACKER_PULL_DIVISOR
    Lead,           \* lead_us
    MaxStep,        \* max_step_us
    MaxAge          \* reference_max_age_us

ASSUME FramePhaseAssumption ==
    /\ {Word, Period, FrameNumbers, PullDivisor} \subseteq Nat \ {0}
    /\ {Lead, MaxStep, MaxAge} \subseteq Nat
    /\ Period % 2 = 0 /\ Word % 2 = 0 /\ 2 * Period <= Word /\ MaxAge < Word

Times == 0 .. Word - 1

Wrapped(time) == time % Word

\* The conversion of a uint32_t to int32_t.
Signed(word) == IF word < Word \div 2 THEN word ELSE word - Word

\* The remainder of C's %, which has the sign of its dividend.
Remainder(dividend, divisor) ==
    IF dividend >= 0 THEN dividend % divisor ELSE -((-dividend) % divisor)

\* Bounds one side only.
ClampSlip(value, bound) == IF value < -bound THEN -bound ELSE value

Clamp(value, bound) ==
    IF value > bound THEN bound ELSE IF value < -bound THEN -bound ELSE value

-----------------------------------------------------------------------------
(* The SOF tracker                                                         *)

Trackers == [valid : BOOLEAN, model : Times, lastFrame : 0 .. FrameNumbers - 1]

ResetTracker == [valid |-> FALSE, model |-> 0, lastFrame |-> 0]

ElapsedFrames(tracker, frame) ==
    LET elapsed == (frame - tracker.lastFrame) % FrameNumbers
    IN  IF elapsed = 0 THEN 1 ELSE elapsed

\* An early arrival, or one too late for any interrupt, is the new model; a
\* late one pulls the model after it.
ModelAfter(predicted, observed) ==
    LET residual == Signed(Wrapped(observed - predicted))
    IN  IF residual < 0 \/ residual > Period \div 2 THEN observed
        ELSE Wrapped(predicted + residual \div PullDivisor)

Observe(tracker, observed, frame) ==
    LET predicted ==
            Wrapped(tracker.model + ElapsedFrames(tracker, frame) * Period)
    IN  [valid |-> TRUE, lastFrame |-> frame,
         model |-> IF tracker.valid THEN ModelAfter(predicted, observed)
                   ELSE observed]

-----------------------------------------------------------------------------
(* The frame controller                                                    *)

\* Takes the longer way for offsets beyond half a period.
WrapToPeriodSlip(offset) == Remainder(offset, Period)

\* In [-Period / 2, Period / 2), so the shorter direction is always chosen.
WrapToPeriod(offset) ==
    LET wrapped == Remainder(offset, Period)
    IN  IF wrapped < -(Period \div 2) THEN wrapped + Period
        ELSE IF wrapped >= Period \div 2 THEN wrapped - Period
        ELSE wrapped

IsFresh(reference, now) == Wrapped(now - reference) <= MaxAge

StepToward(nominal, reference) ==
    Clamp(WrapToPeriod(Signed(Wrapped(reference - Lead - nominal))), MaxStep)

NextStart(frameStart, referenceValid, reference, now) ==
    LET nominal == frameStart + Period
    IN  Wrapped(IF referenceValid /\ IsFresh(reference, now)
                THEN nominal + StepToward(nominal, reference)
                ELSE nominal)
=============================================================================
