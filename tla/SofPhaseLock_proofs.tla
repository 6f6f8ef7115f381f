------------------------ MODULE SofPhaseLock_proofs ------------------------
(***************************************************************************)
(* The frame phase lock keeps its reference on the console's grid, and no  *)
(* read of it moves a frame away from that grid, for every word, period,   *)
(* latency, lead and largest step that PhaseLockAssumption allows.         *)
(*                                                                         *)
(* The arithmetic of wrapping words comes first, then the inductive        *)
(* invariant: whatever the tracker predicts is the console's next SOF, but *)
(* for an error that no missed SOF, latency or drift makes larger, and     *)
(* what the alarm handler read of it is on the same grid.  SOFs that went  *)
(* unobserved while the device was not configured lead the tracker astray; *)
(* the last theorem shows that it comes back.                              *)
(***************************************************************************)
EXTENDS SofPhaseLock, TLAPS

HalfPeriod == Period \div 2

HalfWord == Word \div 2

(* What the assumptions say, with the halves as numbers.                   *)
LEMMA Numbers ==
    /\ Word \in Nat \ {0} /\ Period \in Nat \ {0}
    /\ FrameNumbers \in Nat \ {0} /\ PullDivisor \in Nat \ {0}
    /\ Lead \in Nat /\ MaxStep \in Nat /\ MaxAge \in Nat
    /\ MaxLatency \in Nat /\ MaxDelay \in Nat /\ MaxMissed \in Nat
    /\ HalfPeriod \in Nat /\ Period = 2 * HalfPeriod
    /\ HalfWord \in Nat /\ Word = 2 * HalfWord
    /\ MaxLatency + 1 < HalfPeriod /\ PullDivisor <= HalfPeriod
    /\ MaxMissed + 1 < FrameNumbers
    /\ (MaxMissed + 4) * Period + Lead + MaxDelay <= HalfWord
    /\ (FrameNumbers + 1) * Period <= HalfWord
    /\ MaxAge + 2 < Word
<1>1. /\ HalfPeriod \in Nat /\ Period = 2 * HalfPeriod
      /\ HalfWord \in Nat /\ Word = 2 * HalfWord
  BY FramePhaseAssumption DEF HalfPeriod, HalfWord
<1>2. /\ MaxLatency \in Nat /\ MaxDelay \in Nat /\ MaxMissed \in Nat
      /\ Lead \in Nat /\ MaxStep \in Nat /\ MaxAge \in Nat
  BY FramePhaseAssumption, PhaseLockAssumption
<1>3. 2 * ((MaxMissed + 4) * Period + Lead + MaxDelay) <= Word
  BY PhaseLockAssumption
<1>4. (MaxMissed + 4) * Period \in Int
  BY <1>1, <1>2
<1>5. (MaxMissed + 4) * Period + Lead + MaxDelay <= HalfWord
  <2> DEFINE far == (MaxMissed + 4) * Period
  <2>1. far \in Int /\ 2 * (far + Lead + MaxDelay) <= Word
    BY <1>3, <1>4
  <2> HIDE DEF far
  <2>2. far + Lead + MaxDelay <= HalfWord
    BY <1>1, <1>2, <2>1
  <2> QED
    BY <2>2 DEF far
<1>6. (FrameNumbers + 1) * Period <= HalfWord
  <2> DEFINE cycle == (FrameNumbers + 1) * Period
  <2>1. cycle \in Int
    BY <1>1, FramePhaseAssumption
  <2>2. 2 * (FrameNumbers + 1) * Period = 2 * cycle
    BY <1>1, FramePhaseAssumption
  <2>3. 2 * cycle <= Word
    BY <2>2, PhaseLockAssumption
  <2> HIDE DEF cycle
  <2>4. cycle <= HalfWord
    BY <1>1, <2>1, <2>3
  <2> QED
    BY <2>4 DEF cycle
<1> QED
  BY <1>1, <1>2, <1>5, <1>6, FramePhaseAssumption, PhaseLockAssumption DEF HalfPeriod

-----------------------------------------------------------------------------
(* Division and wrapping                                                   *)

(* A remainder and its quotient make up the number.                        *)
LEMMA ModRange ==
    ASSUME NEW n \in Nat \ {0}, NEW x \in Int
    PROVE  x % n \in 0 .. n - 1 /\ x \div n \in Int /\ x = n * (x \div n) + (x % n)
OBVIOUS

(* No other remainder does.                                                *)
LEMMA ModUnique ==
    ASSUME NEW n \in Nat \ {0}, NEW x \in Int, NEW q \in Int,
           NEW r \in 0 .. n - 1, x = n * q + r
    PROVE  x % n = r
<1>1. x % n \in 0 .. n - 1 /\ x = n * (x \div n) + (x % n) /\ x \div n \in Int
  BY ModRange
<1> DEFINE d == q - x \div n
           m == x % n
<1>2. d \in Int /\ m \in 0 .. n - 1 /\ n * d = m - r
  BY <1>1
<1> HIDE DEF d, m
<1>3. (d >= 1 => n * d >= n) /\ (d <= -1 => n * d <= -n)
  BY <1>2
<1>4. n * d > -n /\ n * d < n
  BY <1>2
<1>5. d = 0
  BY <1>2, <1>3, <1>4
<1>6. m = r
  BY <1>2, <1>5
<1> QED
  BY <1>6 DEF m

(* Numbers a multiple apart have the same remainder.                       *)
LEMMA ModSame ==
    ASSUME NEW n \in Nat \ {0}, NEW x \in Int, NEW k \in Int
    PROVE  (x + n * k) % n = x % n
<1>1. x % n \in 0 .. n - 1 /\ x = n * (x \div n) + (x % n) /\ x \div n \in Int
  BY ModRange
<1> DEFINE q == x \div n
           m == x % n
           y == x + n * k
<1>2. q \in Int /\ m \in 0 .. n - 1 /\ x = n * q + m
  BY <1>1
<1> HIDE DEF q, m
<1>3. y = n * (q + k) + m /\ y \in Int /\ q + k \in Int
  BY <1>2
<1> HIDE DEF y
<1>4. y % n = m
  BY <1>2, <1>3, ModUnique
<1> QED
  BY <1>4 DEF y, m

(* A quotient of what is not negative.                                     *)
LEMMA DivBounds ==
    ASSUME NEW r \in Nat, NEW d \in Nat \ {0}
    PROVE  r \div d \in 0 .. r /\ (r >= d => r \div d >= 1)
<1> DEFINE q == r \div d
           m == r % d
<1>1. m \in 0 .. d - 1 /\ q \in Int /\ r = d * q + m
  BY ModRange
<1> HIDE DEF q, m
<1>2. (q <= -1 => d * q <= -d) /\ (q >= 0 => d * q >= q)
  BY <1>1
<1>3. q >= 0 /\ q <= r /\ (r >= d => q # 0)
  BY <1>1, <1>2
<1>4. q \in 0 .. r /\ (r >= d => q >= 1)
  BY <1>1, <1>3
<1> QED
  BY <1>4 DEF q

(* A time is a word, and how often it wrapped makes no difference to what  *)
(* is computed from it.                                                    *)
LEMMA WrappedSame ==
    ASSUME NEW x \in Int
    PROVE  /\ Wrapped(x) \in Times
           /\ \A y \in Int : /\ Wrapped(Wrapped(x) + y) = Wrapped(x + y)
                             /\ Wrapped(y - Wrapped(x)) = Wrapped(y - x)
<1>1. /\ Wrapped(x) \in 0 .. Word - 1 /\ x \div Word \in Int
      /\ x = Word * (x \div Word) + Wrapped(x)
  BY Numbers, ModRange DEF Wrapped
<1>2. Wrapped(x) \in Times
  BY <1>1 DEF Times
<1>3. ASSUME NEW y \in Int
      PROVE  /\ Wrapped(Wrapped(x) + y) = Wrapped(x + y)
             /\ Wrapped(y - Wrapped(x)) = Wrapped(y - x)
  <2> DEFINE q == x \div Word
             w == Wrapped(x)
  <2>1. q \in Int /\ w \in Int /\ x = Word * q + w
    BY <1>1, Numbers
  <2> HIDE DEF q, w
  <2>2. x + y = (w + y) + Word * q /\ w + y \in Int
    BY <2>1, Numbers
  <2>3. y - w = (y - x) + Word * q /\ y - x \in Int
    BY <2>1, Numbers
  <2>4. ((w + y) + Word * q) % Word = (w + y) % Word
    BY <2>1, <2>2, Numbers, ModSame
  <2>5. ((y - x) + Word * q) % Word = (y - x) % Word
    BY <2>1, <2>3, Numbers, ModSame
  <2>6. Wrapped(w + y) = Wrapped(x + y) /\ Wrapped(y - w) = Wrapped(y - x)
    BY <2>2, <2>3, <2>4, <2>5 DEF Wrapped
  <2> QED
    BY <2>6 DEF w
<1> QED
  BY <1>2, <1>3

(* A number that is not too far from 0 survives its way through a word.    *)
LEMMA SignedWrapped ==
    ASSUME NEW x \in Int, -HalfWord <= x, x < HalfWord
    PROVE  Signed(Wrapped(x)) = x
<1>1. CASE x >= 0
  <2>1. x = Word * 0 + x /\ x \in 0 .. Word - 1 /\ 0 \in Int
    BY <1>1, Numbers
  <2>2. Wrapped(x) = x
    BY <2>1, Numbers, ModUnique DEF Wrapped
  <2> QED
    BY <2>2 DEF Signed, HalfWord
<1>2. CASE x < 0
  <2>1. x = Word * (-1) + (x + Word) /\ x + Word \in 0 .. Word - 1 /\ -1 \in Int
    BY <1>2, Numbers
  <2>2. Wrapped(x) = x + Word
    BY <2>1, Numbers, ModUnique DEF Wrapped
  <2>3. ~(x + Word < HalfWord)
    BY Numbers
  <2> QED
    BY <2>2, <2>3, Numbers DEF Signed, HalfWord
<1> QED
  BY <1>1, <1>2

(* What is read as signed is a number.                                     *)
LEMMA SignedType ==
    ASSUME NEW x \in Int
    PROVE  Signed(Wrapped(x)) \in Int
BY WrappedSame, Numbers DEF Signed, Times

-----------------------------------------------------------------------------
(* Offsets from a grid                                                     *)

Offsets == -HalfPeriod .. HalfPeriod - 1

(* An offset in range is the offset.                                       *)
LEMMA OffGridOf ==
    ASSUME NEW x \in Int, NEW k \in Int, NEW r \in Offsets, x = Period * k + r
    PROVE  OffGrid(x) = r
<1>1. /\ x + HalfPeriod = Period * k + (r + HalfPeriod)
      /\ x + HalfPeriod \in Int /\ r + HalfPeriod \in 0 .. Period - 1
  BY Numbers DEF Offsets
<1>2. (x + HalfPeriod) % Period = r + HalfPeriod
  BY <1>1, Numbers, ModUnique
<1> QED
  BY <1>2, Numbers DEF OffGrid, HalfPeriod, Offsets

(* Every number has its offset from the grid.                              *)
LEMMA OffGridIs ==
    ASSUME NEW x \in Int
    PROVE  /\ OffGrid(x) \in Offsets
           /\ \E k \in Int : x = Period * k + OffGrid(x)
<1> DEFINE m == (x + HalfPeriod) % Period
           q == (x + HalfPeriod) \div Period
<1>1. m \in 0 .. Period - 1 /\ q \in Int /\ x + HalfPeriod = Period * q + m
  <2>1. x + HalfPeriod \in Int
    BY Numbers
  <2> QED
    BY <2>1, Numbers, ModRange
<1>2. OffGrid(x) = m - HalfPeriod
  BY DEF OffGrid, HalfPeriod
<1> HIDE DEF m, q
<1>3. m - HalfPeriod \in Offsets /\ x = Period * q + (m - HalfPeriod)
  BY <1>1, Numbers DEF Offsets
<1> QED
  BY <1>1, <1>2, <1>3

(* Whole periods do not change it.                                         *)
LEMMA OffGridSame ==
    ASSUME NEW x \in Int, NEW k \in Int
    PROVE  OffGrid(x + Period * k) = OffGrid(x)
<1>1. OffGrid(x) \in Offsets
  BY OffGridIs
<1>2. PICK q \in Int : x = Period * q + OffGrid(x)
  BY OffGridIs
<1> DEFINE r == OffGrid(x)
<1>3. r \in Offsets /\ x = Period * q + r
  BY <1>1, <1>2
<1> HIDE DEF r
<1>4. x + Period * k = Period * (q + k) + r /\ x + Period * k \in Int /\ q + k \in Int
  BY <1>3, Numbers DEF Offsets
<1>5. OffGrid(x + Period * k) = r
  BY <1>3, <1>4, OffGridOf
<1> QED
  BY <1>5 DEF r

(* frame_controller's remainder, corrected by a period where C's sign or   *)
(* the longer way require it, is the offset.                               *)
LEMMA WrapToPeriodIs ==
    ASSUME NEW x \in Int
    PROVE  WrapToPeriod(x) = OffGrid(x)
<1>1. CASE x >= 0
  <2> DEFINE m == x % Period
             q == x \div Period
  <2>1. m \in 0 .. Period - 1 /\ q \in Int /\ x = Period * q + m
    BY Numbers, ModRange
  <2>2. WrapToPeriod(x) = IF m < -HalfPeriod THEN m + Period
                          ELSE IF m >= HalfPeriod THEN m - Period ELSE m
    BY <1>1 DEF WrapToPeriod, Remainder, HalfPeriod
  <2> HIDE DEF m, q
  <2>3. CASE m >= HalfPeriod
    <3>1. x = Period * (q + 1) + (m - Period) /\ m - Period \in Offsets
      BY <2>1, <2>3, Numbers DEF Offsets
    <3>2. OffGrid(x) = m - Period
      BY <2>1, <3>1, OffGridOf
    <3> QED
      BY <2>1, <2>2, <2>3, <3>2, Numbers
  <2>4. CASE m < HalfPeriod
    <3>1. m \in Offsets
      BY <2>1, <2>4, Numbers DEF Offsets
    <3>2. OffGrid(x) = m
      BY <2>1, <3>1, OffGridOf
    <3> QED
      BY <2>1, <2>2, <2>4, <3>2, Numbers
  <2> QED
    BY <2>1, <2>3, <2>4, Numbers
<1>2. CASE x < 0
  <2> DEFINE m == (-x) % Period
             q == (-x) \div Period
  <2>1. m \in 0 .. Period - 1 /\ q \in Int /\ -x = Period * q + m
    <3>1. -x \in Int
      OBVIOUS
    <3> QED
      BY <3>1, Numbers, ModRange
  <2>2. WrapToPeriod(x) = IF -m < -HalfPeriod THEN -m + Period
                          ELSE IF -m >= HalfPeriod THEN -m - Period ELSE -m
    BY <1>2 DEF WrapToPeriod, Remainder, HalfPeriod
  <2> HIDE DEF m, q
  <2>3. CASE m > HalfPeriod
    <3>1. /\ x = Period * (-q - 1) + (-m + Period) /\ -m + Period \in Offsets
          /\ -q - 1 \in Int
      BY <2>1, <2>3, Numbers DEF Offsets
    <3>2. OffGrid(x) = -m + Period
      BY <2>1, <3>1, OffGridOf
    <3> QED
      BY <2>1, <2>2, <2>3, <3>2, Numbers
  <2>4. CASE m <= HalfPeriod
    <3>1. x = Period * (-q) + (-m) /\ -m \in Offsets /\ -q \in Int
      BY <2>1, <2>4, Numbers DEF Offsets
    <3>2. OffGrid(x) = -m
      BY <3>1, OffGridOf
    <3> QED
      BY <2>1, <2>2, <2>4, <3>2, Numbers
  <2> QED
    BY <2>1, <2>3, <2>4, Numbers
<1> QED
  BY <1>1, <1>2

-----------------------------------------------------------------------------
(* The controller                                                          *)

\* How far the alarm handler moves the next frame from where it was due.
Nudge(valid, us, now) ==
    IF steering /\ valid /\ IsFresh(us, now)
    THEN Clamp(OffGrid(Signed(Wrapped(us - Lead - Period - nextFrame))), MaxStep)
    ELSE 0

(* It moves it by half a period and by the largest step at most.           *)
LEMMA NudgeType ==
    ASSUME nextFrame \in Int, NEW valid \in BOOLEAN, NEW us \in Times, NEW now \in Times
    PROVE  Nudge(valid, us, now) \in Offsets \cap (-MaxStep .. MaxStep)
<1> DEFINE offset == OffGrid(Signed(Wrapped(us - Lead - Period - nextFrame)))
<1>1. us - Lead - Period - nextFrame \in Int
  BY Numbers DEF Times
<1>2. offset \in Offsets
  BY <1>1, SignedType, OffGridIs
<1> HIDE DEF offset
<1>3. Clamp(offset, MaxStep) \in Offsets \cap (-MaxStep .. MaxStep)
  BY <1>2, Numbers DEF Clamp, Offsets
<1>4. 0 \in Offsets \cap (-MaxStep .. MaxStep)
  BY Numbers DEF Offsets
<1> QED
  BY <1>3, <1>4 DEF Nudge, offset

(* The wrapping words of the handler come to a period and that.            *)
LEMMA FrameStepIs ==
    ASSUME nextFrame \in Int, NEW valid \in BOOLEAN, NEW us \in Times, NEW now \in Times
    PROVE  FrameStep(valid, us, now) = Period + Nudge(valid, us, now)
<1> DEFINE start == Wrapped(nextFrame)
           nominal == start + Period
<1>1. start \in Int /\ nominal \in Int
  BY WrappedSame, Numbers DEF Times
<1>2. CASE steering
  <2>1. StepToward(nominal, us) = Clamp(OffGrid(Signed(Wrapped(us - Lead - Period - nextFrame))), MaxStep)
    <3>1. us - Lead - nominal = (us - Lead - Period) - start /\ us - Lead - Period \in Int
      BY <1>1, Numbers DEF Times
    <3>2. Wrapped((us - Lead - Period) - start) = Wrapped((us - Lead - Period) - nextFrame)
      BY <3>1, WrappedSame
    <3>3. (us - Lead - Period) - nextFrame \in Int
      BY <3>1
    <3> HIDE DEF nominal
    <3> QED
      BY <3>1, <3>2, <3>3, SignedType, WrapToPeriodIs DEF StepToward
  <2> DEFINE nudge == Nudge(valid, us, now)
  <2>2. NextStart(start, valid, us, now) = Wrapped(nominal + nudge)
    <3> HIDE DEF start, nominal
    <3>1. CASE valid /\ IsFresh(us, now)
      BY <1>2, <2>1, <3>1 DEF NextStart, Nudge, nominal
    <3>2. CASE ~(valid /\ IsFresh(us, now))
      <4>1. nudge = 0 /\ nominal + 0 = nominal
        BY <1>1, <3>2 DEF Nudge
      <4>2. NextStart(start, valid, us, now) = Wrapped(nominal)
        BY <3>2 DEF NextStart, nominal
      <4> QED
        BY <4>1, <4>2
    <3> QED
      BY <3>1, <3>2
  <2>3. nudge \in Int /\ -HalfPeriod <= nudge /\ nudge < HalfPeriod
    BY NudgeType, Numbers DEF Offsets
  <2>4. FrameStep(valid, us, now) = Signed(Wrapped(Wrapped(nominal + nudge) - start))
    BY <1>2, <2>2 DEF FrameStep
  <2> HIDE DEF nudge
  <2>5. Wrapped(Wrapped(nominal + nudge) - start) = Wrapped(Period + nudge)
    <3>1. nominal + nudge \in Int /\ -start \in Int
      BY <1>1, <2>3
    <3>2. Wrapped(Wrapped(nominal + nudge) + (-start)) = Wrapped((nominal + nudge) + (-start))
      BY <3>1, WrappedSame
    <3>3. (nominal + nudge) + (-start) = Period + nudge
      BY <1>1, <2>3, Numbers
    <3>4. Wrapped(nominal + nudge) + (-start) = Wrapped(nominal + nudge) - start
      BY <1>1, <3>1, WrappedSame, Numbers DEF Times
    <3> QED
      BY <3>2, <3>3, <3>4
  <2>6. Signed(Wrapped(Period + nudge)) = Period + nudge
    <3> DEFINE far == (MaxMissed + 4) * Period
    <3>1. far \in Int /\ far >= 4 * Period
      BY Numbers
    <3> HIDE DEF far
    <3>2. far <= HalfWord
      BY <3>1, Numbers DEF far
    <3>3. Period + nudge \in Int /\ -HalfWord <= Period + nudge /\ Period + nudge < HalfWord
      BY <2>3, <3>1, <3>2, Numbers
    <3> QED
      BY <3>3, SignedWrapped
  <2> QED
    BY <2>4, <2>5, <2>6 DEF nudge
<1>3. CASE ~steering
  BY <1>3, Numbers DEF FrameStep, Nudge
<1> QED
  BY <1>2, <1>3

(* Whole periods bring a target in the past into the next period.          *)
LEMMA ArmedIs ==
    ASSUME NEW target \in Int
    PROVE  /\ target > 0 => Armed(target) = target
           /\ target <= 0 => Armed(target) \in 1 .. Period
           /\ \E k \in Int : Armed(target) = target + Period * k
<1>1. CASE target > 0
  <2>1. Armed(target) = target + Period * 0
    BY <1>1, Numbers DEF Armed
  <2> QED
    BY <1>1, <2>1 DEF Armed
<1>2. CASE target <= 0
  <2> DEFINE q == (-target) \div Period
             m == (-target) % Period
  <2>1. m \in 0 .. Period - 1 /\ q \in Int /\ -target = Period * q + m
    <3>1. -target \in Int
      OBVIOUS
    <3> QED
      BY <3>1, Numbers, ModRange
  <2>2. Armed(target) = target + Period * (q + 1)
    BY <1>2 DEF Armed
  <2> HIDE DEF q, m
  <2>3. target + Period * (q + 1) = Period - m
    BY <2>1, Numbers
  <2>4. Period - m \in 1 .. Period
    BY <2>1, Numbers
  <2> QED
    BY <1>2, <2>1, <2>2, <2>3, <2>4
<1> QED
  BY <1>1, <1>2

-----------------------------------------------------------------------------
(* The inductive invariant                                                 *)

\* The SOFs since the one the tracker has observed last.
FramesSince == (console.frame - tracker.lastFrame) % FrameNumbers

\* A frame whose length the crystal may have changed has begun by then.
Drifted == (1 - tracker.lastFrame) % FrameNumbers <= FramesSince

\* A time on the console's grid, this much off it.
OnGrid(us, frames, error) ==
    us = Wrapped(console.untilSof - frames * Period + error)

\* A time on the grid of the frames that are not too long ago.
IsOnGrid(us) ==
    \E frames \in 1 .. MaxMissed + 2, error \in GridErrors : OnGrid(us, frames, error)

\* How much longer than nominal the present frame of the console is.
Excess == sofPending[1] + console.untilSof - Period

\* At most one SOF waits to be observed, and one alarm handler runs.
ShapeInv ==
    /\ sofPending = << >> \/ \E age \in 0 .. MaxLatency : sofPending = <<age>>
    /\ \/ sample = << >>
       \/ \E read \in [reference : References, age : 0 .. 1] : sample = <<read>>
    /\ sample # << >> => started /\ nextFrame <= 0

\* What waits to be observed is the start of the console's present frame.
BusInv ==
    /\ console.awake => console.untilSof >= 1
    /\ sofPending # << >> =>
         /\ console.awake /\ sofInterrupt
         /\ Excess \in -1 .. 1 /\ (console.frame # 1 => Excess = 0)
    /\ resetQueued => ~console.awake
    /\ ~tracker.valid => reference = Forgotten

\* The tracker's model is on the grid, at the SOF it has observed last.
OnTrack ==
    /\ sofInterrupt
    /\ FramesSince <= MaxMissed + 1
    /\ sofPending = << >> => FramesSince <= MaxMissed
    /\ sofPending # << >> => FramesSince >= 1
    /\ \E error \in IF Drifted THEN GridErrors ELSE ObservedErrors :
         /\ OnGrid(tracker.model, FramesSince + 1, error)
         /\ sofPending # << >> /\ console.frame = 1 =>
                error + Excess \in ObservedErrors

\* The reference is the model, and on the grid unless SOFs went unobserved.
TrackerInv ==
    tracker.valid =>
        /\ console.awake
        /\ reference = [valid |-> TRUE, us |-> tracker.model]
        /\ ~astray => OnTrack

\* What the alarm handler has read is of the grid as it is, or of none: no
\* console comes back while it reads.
SampleInv ==
    \A i \in DOMAIN sample : LET read == sample[i].reference IN
        /\ ~read.valid => read = Forgotten
        /\ read.valid /\ reference.valid =>
             /\ ~astray => IsOnGrid(read.us)
             /\ sample[i].age = 0 /\ console.untilSof = 1 => read = reference
        /\ read.valid /\ ~reference.valid =>
             /\ sofPending = << >>
             /\ console.awake => console.untilSof + sample[i].age >= 2

IInv == TypeOK /\ ShapeInv /\ BusInv /\ TrackerInv /\ SampleInv

(* The flags are Booleans.                                                 *)
LEMMA FlagsType ==
    ASSUME TypeOK
    PROVE  /\ steering \in BOOLEAN /\ started \in BOOLEAN /\ subscribed \in BOOLEAN
           /\ serviced \in BOOLEAN /\ mounted \in BOOLEAN
           /\ sofInterrupt \in BOOLEAN /\ resetQueued \in BOOLEAN
           /\ astray \in BOOLEAN
BY DEF TypeOK

(* The values things start with have their types.                          *)
LEMMA InitialTypes ==
    /\ ResetTracker \in Trackers /\ ~ResetTracker.valid
    /\ Forgotten \in References /\ ~Forgotten.valid
    /\ Silent \in [awake : BOOLEAN, untilSof : 0 .. Period + 1, frame : 0 .. FrameNumbers - 1]
    /\ ~Silent.awake
<1>1. 0 \in Times /\ 0 \in 0 .. FrameNumbers - 1 /\ 0 \in 0 .. Period + 1
  BY Numbers DEF Times
<1>2. -MaxAge - 2 \in Int
  BY Numbers
<1>3. Wrapped(-MaxAge - 2) \in Times
  BY <1>2, WrappedSame
<1> QED
  BY <1>1, <1>3 DEF ResetTracker, Trackers, Forgotten, References, Silent

(* An aged reference is a reference, as valid as before.                   *)
LEMMA AgedType ==
    ASSUME NEW r \in References
    PROVE  /\ Aged(r) \in References /\ Aged(r).valid = r.valid
           /\ ~r.valid => Aged(r) = r
           /\ r.valid => Aged(r).us = Wrapped(r.us - 1)
<1>1. r.us - 1 \in Int
  BY Numbers DEF References, Times
<1>2. Wrapped(r.us - 1) \in Times
  BY <1>1, WrappedSame
<1> QED
  BY <1>2 DEF Aged, References

(* What the tracker makes of an observation is a tracker.                  *)
LEMMA ObserveType ==
    ASSUME NEW t \in Trackers, NEW frame \in 0 .. FrameNumbers - 1
    PROVE  /\ Observe(t, 0, frame) \in Trackers
           /\ Observe(t, 0, frame).valid
           /\ Observe(t, 0, frame).lastFrame = frame
<1> DEFINE predicted == Wrapped(t.model + ElapsedFrames(t, frame) * Period)
           residual == Signed(Wrapped(0 - predicted))
<1>1. 0 \in Times
  BY Numbers DEF Times
<1>2. predicted \in Times
  <2>1. ElapsedFrames(t, frame) \in Int
    <3>1. frame - t.lastFrame \in Int
      BY Numbers DEF Trackers
    <3>2. (frame - t.lastFrame) % FrameNumbers \in Int
      BY SMTT(20), <3>1, Numbers, ModRange
    <3> QED
      BY <3>2 DEF ElapsedFrames
  <2>2. t.model + ElapsedFrames(t, frame) * Period \in Int
    BY <2>1, Numbers DEF Trackers, Times
  <2> QED
    BY <2>2, WrappedSame
<1>3. ModelAfter(predicted, 0) \in Times
  <2> HIDE DEF predicted
  <2>1. 0 - predicted \in Int
    BY <1>2, Numbers DEF Times
  <2>2. residual \in Int
    BY <2>1, SignedType
  <2> HIDE DEF residual
  <2>3. residual >= 0 => predicted + residual \div PullDivisor \in Int
    BY <1>2, <2>2, Numbers DEF Times
  <2>4. residual >= 0 => Wrapped(predicted + residual \div PullDivisor) \in Times
    BY <2>3, WrappedSame
  <2> QED
    BY <1>1, <2>2, <2>4, Numbers DEF ModelAfter, residual
<1> HIDE DEF predicted
<1> DEFINE model == IF t.valid THEN ModelAfter(predicted, 0) ELSE 0
<1>4. model \in Times
  BY <1>1, <1>3
<1>5. Observe(t, 0, frame) = [valid |-> TRUE, lastFrame |-> frame, model |-> model]
  BY DEF Observe, predicted
<1> HIDE DEF model, residual
<1>6. [valid |-> TRUE, lastFrame |-> frame, model |-> model] \in Trackers
  BY <1>4 DEF Trackers
<1> DEFINE o == [valid |-> TRUE, lastFrame |-> frame, model |-> model]
<1>7. o.valid /\ o.lastFrame = frame
  OBVIOUS
<1>8. Observe(t, 0, frame) = o /\ o \in Trackers
  BY <1>5, <1>6
<1> HIDE DEF o
<1> QED
  BY <1>7, <1>8

(* One more frame, one more number, as long as they tell frames apart.     *)
LEMMA NextFrameNumber ==
    ASSUME NEW f \in 0 .. FrameNumbers - 1, NEW l \in 0 .. FrameNumbers - 1
    PROVE  /\ (f - l) % FrameNumbers \in 0 .. FrameNumbers - 1
           /\ (f + 1) % FrameNumbers \in 0 .. FrameNumbers - 1
           /\ ((f - l) % FrameNumbers) + 1 < FrameNumbers =>
                (((f + 1) % FrameNumbers) - l) % FrameNumbers = ((f - l) % FrameNumbers) + 1
           /\ (f + 1) % FrameNumbers = 1 <=> f = 0
<1>1. f - l \in Int /\ f + 1 \in Int
  BY Numbers
<1> DEFINE d == (f - l) % FrameNumbers
           q == (f - l) \div FrameNumbers
           s == (f + 1) % FrameNumbers
<1>2. d \in 0 .. FrameNumbers - 1 /\ q \in Int /\ f - l = FrameNumbers * q + d
  BY <1>1, Numbers, ModRange
<1>3. /\ f + 1 < FrameNumbers => s = f + 1
      /\ f + 1 = FrameNumbers => s = 0
  <2>1. f + 1 < FrameNumbers => f + 1 = FrameNumbers * 0 + (f + 1) /\ f + 1 \in 0 .. FrameNumbers - 1
    BY Numbers
  <2>2. f + 1 < FrameNumbers => (f + 1) % FrameNumbers = f + 1
    BY <1>1, <2>1, Numbers, ModUnique
  <2>3. f + 1 = FrameNumbers => f + 1 = FrameNumbers * 1 + 0 /\ 0 \in 0 .. FrameNumbers - 1
    BY Numbers
  <2>4. f + 1 = FrameNumbers => (f + 1) % FrameNumbers = 0
    BY <1>1, <2>3, Numbers, ModUnique
  <2> QED
    BY <2>2, <2>4
<1>4. s \in 0 .. FrameNumbers - 1 /\ (s = 1 <=> f = 0)
  <2>1. f + 1 < FrameNumbers \/ f + 1 = FrameNumbers
    BY Numbers
  <2>2. FrameNumbers >= 2
    BY Numbers
  <2> HIDE DEF s
  <2> QED
    BY <1>3, <2>1, <2>2, Numbers
<1> HIDE DEF d, q, s
<1>5. PICK k \in Int : s - l = FrameNumbers * k + (d + 1)
  <2>1. f + 1 < FrameNumbers => s - l = FrameNumbers * q + (d + 1)
    BY <1>2, <1>3, Numbers
  <2>2. f + 1 = FrameNumbers => s - l = FrameNumbers * (q - 1) + (d + 1)
    BY <1>2, <1>3, Numbers
  <2>3. q \in Int /\ q - 1 \in Int
    BY <1>2
  <2>4. f + 1 < FrameNumbers \/ f + 1 = FrameNumbers
    BY Numbers
  <2> QED
    BY <2>1, <2>2, <2>3, <2>4
<1>6. d + 1 < FrameNumbers => (s - l) % FrameNumbers = d + 1
  <2>1. d + 1 < FrameNumbers => d + 1 \in 0 .. FrameNumbers - 1
    BY <1>2, Numbers
  <2> DEFINE e == d + 1
             x == s - l
  <2>2. x \in Int /\ x = FrameNumbers * k + e
    BY <1>4, <1>5, Numbers
  <2> HIDE DEF e, x
  <2>3. e \in 0 .. FrameNumbers - 1 => x % FrameNumbers = e
    BY <2>2, Numbers, ModUnique
  <2> QED
    BY <2>1, <2>3 DEF e, x
<1> QED
  BY <1>2, <1>4, <1>6 DEF d, s

(* No frame is further away than a period and the largest step, whatever   *)
(* the alarm handler read.                                                 *)
LEMMA FrameStaysNear ==
    ASSUME TypeOK, nextFrame <= 0,
           NEW valid \in BOOLEAN, NEW us \in Times, NEW now \in Times
    PROVE  Armed(nextFrame + FrameStep(valid, us, now)) \in 1 .. Period + MaxStep
<1>1. nextFrame \in Int
  BY Numbers DEF TypeOK
<1> DEFINE nudge == Nudge(valid, us, now)
           target == nextFrame + FrameStep(valid, us, now)
<1>2. nudge \in -MaxStep .. MaxStep /\ target = nextFrame + Period + nudge
  BY <1>1, NudgeType, FrameStepIs, Numbers DEF Offsets
<1> HIDE DEF nudge, target
<1>3. target \in Int /\ target <= Period + MaxStep
  BY <1>1, <1>2, Numbers
<1>4. Armed(target) \in 1 .. Period + MaxStep
  <2>1. /\ target > 0 => Armed(target) = target
        /\ target <= 0 => Armed(target) \in 1 .. Period
    BY <1>3, ArmedIs
  <2> QED
    BY <1>3, <2>1, Numbers
<1> QED
  BY <1>4 DEF target

(* What the alarm handler reads and a waiting SOF keep their shape while   *)
(* time passes.                                                            *)
LEMMA TickShape ==
    ASSUME IInv, Tick
    PROVE  /\ sofPending' = << >> \/ \E age \in 0 .. MaxLatency : sofPending' = <<age>>
           /\ sample = << >> => sample' = << >>
           /\ sample # << >> =>
                /\ sample[1].age = 0
                /\ sample' = <<[age |-> 1, reference |-> Aged(sample[1].reference)]>>
<1>1. sofPending' = << >> \/ \E age \in 0 .. MaxLatency : sofPending' = <<age>>
  <2>1. CASE console.awake
    <3>1. sofPending' \in {<< >>, <<0>>} \/ (sofPending # << >> /\ sofPending' = <<sofPending[1] + 1>>)
      BY <2>1 DEF Tick, NextSof
    <3>2. CASE sofPending # << >> /\ sofPending' = <<sofPending[1] + 1>>
      <4>1. PICK age \in 0 .. MaxLatency : sofPending = <<age>>
        BY <3>2 DEF IInv, ShapeInv
      <4>2. age < MaxLatency /\ sofPending' = <<age + 1>>
        BY <3>2, <4>1 DEF Tick, NothingIsDue
      <4>3. age + 1 \in 0 .. MaxLatency
        BY <4>2, Numbers
      <4> QED
        BY <4>2, <4>3
    <3>3. 0 \in 0 .. MaxLatency
      BY Numbers
    <3> QED
      BY <3>1, <3>2, <3>3
  <2>2. CASE ~console.awake
    BY <2>2 DEF Tick, consoleVars, IInv, ShapeInv
  <2> QED
    BY <2>1, <2>2
<1>2. sample = << >> => sample' = << >>
  BY DEF Tick
<1>3. ASSUME sample # << >>
      PROVE  /\ sample[1].age = 0
             /\ sample' = <<[age |-> 1, reference |-> Aged(sample[1].reference)]>>
  <2>1. PICK read \in [reference : References, age : 0 .. 1] : sample = <<read>>
    BY <1>3 DEF IInv, ShapeInv
  <2>2. sample[1].age = 0
    BY <1>3 DEF Tick, NothingIsDue
  <2>3. sample[1] = read /\ DOMAIN sample = {1}
    BY <2>1
  <2>4. sample' = [i \in {1} |-> [age |-> sample[i].age + 1, reference |-> Aged(sample[i].reference)]]
    BY <2>3 DEF Tick
  <2>5. sample' = [i \in {1} |-> [age |-> 1, reference |-> Aged(sample[1].reference)]]
    BY <2>2, <2>4
  <2> QED
    BY <2>2, <2>5
<1> QED
  BY <1>1, <1>2, <1>3

(* Every step keeps the types and the shapes.                              *)
LEMMA TypeStep ==
    ASSUME IInv, [Next]_vars
    PROVE  TypeOK' /\ ShapeInv'
<1> USE DEF IInv
<1> TypeOK /\ ShapeInv
  OBVIOUS
<1>1. CASE StartFrames
  <2>1. Period \in -MaxDelay .. Period + MaxStep
    BY Numbers
  <2>2. TypeOK'
    BY <1>1, <2>1, InitialTypes DEF StartFrames, TypeOK, stackVars, consoleVars
  <2>3. ShapeInv'
    BY <1>1 DEF StartFrames, ShapeInv, consoleVars
  <2> QED
    BY <2>2, <2>3
<1>2. CASE \E enabled \in BOOLEAN : SetSteering(enabled)
  <2>1. steering' \in BOOLEAN
    BY <1>2 DEF SetSteering
  <2>2. TypeOK' /\ ShapeInv'
    BY <1>2, <2>1 DEF SetSteering, TypeOK, ShapeInv, coreZeroVars, stackVars, consoleVars
  <2> QED
    BY <2>2
<1>3. CASE FrameAlarmReads
  <2> DEFINE read == [reference |-> reference, age |-> 0]
  <2>1. read \in [reference : References, age : 0 .. 1] /\ sample' = <<read>>
    BY <1>3 DEF FrameAlarmReads, TypeOK
  <2> HIDE DEF read
  <2>2. DOMAIN sample' = {1} /\ sample'[1] = read
    BY <2>1
  <2>3. TypeOK'
    BY <1>3, <2>1, <2>2 DEF FrameAlarmReads, TypeOK, coreZeroVars, stackVars, consoleVars
  <2>4. ShapeInv'
    BY <1>3, <2>1 DEF FrameAlarmReads, ShapeInv, consoleVars
  <2> QED
    BY <2>3, <2>4
<1>4. CASE FrameAlarmEnds
  <2>1. PICK read \in [reference : References, age : 0 .. 1] : sample = <<read>>
    BY <1>4 DEF FrameAlarmEnds, ShapeInv
  <2>2. nextFrame <= 0
    BY <1>4 DEF FrameAlarmEnds, ShapeInv
  <2>3. PICK valid \in {read.reference.valid, reference.valid},
             us \in {read.reference.us, reference.us},
             now \in {Wrapped(-read.age), 0} :
             nextFrame' = Armed(nextFrame + FrameStep(valid, us, now))
    BY <1>4, <2>1 DEF FrameAlarmEnds
  <2>4. valid \in BOOLEAN /\ us \in Times /\ now \in Times
    <3>1. read.reference \in References /\ reference \in References
      BY <2>1 DEF TypeOK
    <3>2. -read.age \in Int /\ 0 \in Times
      BY <2>1, Numbers DEF Times
    <3> QED
      BY <3>1, <3>2, <2>3, WrappedSame DEF References
  <2>5. nextFrame' \in 1 .. Period + MaxStep
    BY <2>2, <2>3, <2>4, FrameStaysNear
  <2>6. nextFrame' \in -MaxDelay .. Period + MaxStep
    BY <2>5, Numbers
  <2>7. TypeOK'
    BY <1>4, <2>6 DEF FrameAlarmEnds, TypeOK, coreZeroVars, stackVars, consoleVars
  <2>8. ShapeInv'
    BY <1>4 DEF FrameAlarmEnds, ShapeInv, consoleVars
  <2> QED
    BY <2>7, <2>8
<1>5. CASE ObserveConsoleSof
  <2> DEFINE known == IF started THEN tracker ELSE ResetTracker
  <2>1. known \in Trackers /\ console.frame \in 0 .. FrameNumbers - 1
    BY InitialTypes DEF TypeOK
  <2>2. tracker' = Observe(known, 0, console.frame)
    BY <1>5 DEF ObserveConsoleSof
  <2> HIDE DEF known
  <2>3. tracker' \in Trackers
    BY <2>1, <2>2, ObserveType
  <2>4. reference' \in References
    BY <1>5, <2>3 DEF ObserveConsoleSof, References, Trackers
  <2>5. astray' \in BOOLEAN
    <3>1. astray' = (astray /\ ~FindsTheGrid(sofPending[1]))
      BY <1>5 DEF ObserveConsoleSof
    <3> QED
      BY <3>1
  <2>6. TypeOK'
    BY <1>5, <2>3, <2>4, <2>5 DEF ObserveConsoleSof, TypeOK, coreOneVars, stackVars
  <2>7. ShapeInv'
    BY <1>5 DEF ObserveConsoleSof, ShapeInv, coreOneVars
  <2> QED
    BY <2>6, <2>7
<1>6. CASE SofIsMissed
  BY <1>6 DEF SofIsMissed, TypeOK, ShapeInv, coreZeroVars, coreOneVars, stackVars
<1>7. CASE ConsoleLeaves \/ ConsoleSuspends
  <2>1. /\ tracker' = ResetTracker /\ reference' = Forgotten
        /\ console' = Silent /\ sofPending' = << >> /\ UNCHANGED coreOneVars
        /\ UNCHANGED <<subscribed, mounted, sofInterrupt, serviced>>
        /\ resetQueued' \in BOOLEAN /\ astray' \in BOOLEAN
    BY <1>7, FlagsType DEF ConsoleLeaves, ConsoleSuspends, ForgetConsole, stackVars
  <2>2. TypeOK'
    <3>1. {steering, started, subscribed, serviced, mounted,
           sofInterrupt, resetQueued, astray}' \subseteq BOOLEAN
      BY <2>1, FlagsType DEF coreOneVars
    <3> QED
      BY <2>1, <3>1, InitialTypes DEF TypeOK, coreOneVars
  <2>3. ShapeInv'
    BY <2>1 DEF ShapeInv, coreOneVars
  <2> QED
    BY <2>2, <2>3
<1>8. CASE ConsoleWakes
  <2>1. console' \in [awake : BOOLEAN, untilSof : 0 .. Period + 1, frame : 0 .. FrameNumbers - 1]
    <3>1. PICK untilSof \in 2 .. Period + 1, frame \in 0 .. FrameNumbers - 1 :
              console' = [awake |-> TRUE, untilSof |-> untilSof, frame |-> frame]
      BY <1>8 DEF ConsoleWakes
    <3>2. untilSof \in 0 .. Period + 1
      BY Numbers
    <3> QED
      BY <3>1, <3>2
  <2>2. TypeOK' /\ ShapeInv'
    BY <1>8, <2>1 DEF ConsoleWakes, TypeOK, ShapeInv, coreZeroVars, coreOneVars, stackVars
  <2> QED
    BY <2>2
<1>9. CASE \/ TudTaskHandlesReset \/ TudTaskConfigures \/ TudTaskUnconfigures
           \/ ServiceConsoleSofSubscription
  <2>1. /\ serviced' \in BOOLEAN /\ mounted' \in BOOLEAN /\ sofInterrupt' \in BOOLEAN
        /\ resetQueued' \in BOOLEAN /\ subscribed' \in BOOLEAN /\ astray' \in BOOLEAN
    BY <1>9, FlagsType DEF TudTaskHandlesReset, TudTaskConfigures, TudTaskUnconfigures,
                           TudTask, ServiceConsoleSofSubscription, coreZeroVars,
                           TypeOK, Trackers
  <2>2. /\ tracker' = tracker /\ reference' = reference /\ steering' = steering
        /\ started' = started /\ nextFrame' = nextFrame /\ sample' = sample
        /\ console' = console /\ sofPending' \in {sofPending, << >>}
    BY <1>9 DEF TudTaskHandlesReset, TudTaskConfigures, TudTaskUnconfigures, TudTask,
                ServiceConsoleSofSubscription, coreZeroVars, coreOneVars, consoleVars
  <2>3. TypeOK'
    BY <2>1, <2>2 DEF TypeOK
  <2>4. ShapeInv'
    BY <2>2 DEF ShapeInv
  <2> QED
    BY <2>3, <2>4
<1>10. CASE Tick
  <2>1. tracker' \in Trackers
    <3>1. tracker \in Trackers /\ tracker.model - 1 \in Int
      BY Numbers DEF TypeOK, Trackers, Times
    <3>2. Wrapped(tracker.model - 1) \in Times
      BY <3>1, WrappedSame
    <3> QED
      BY <1>10, <3>1, <3>2 DEF Tick, Trackers
  <2>2. reference' \in References
    BY <1>10, AgedType DEF Tick, TypeOK
  <2>3. nextFrame' \in -MaxDelay .. Period + MaxStep
    <3>1. nextFrame \in -MaxDelay .. Period + MaxStep
      BY DEF TypeOK
    <3>2. started => nextFrame > -MaxDelay
      BY <1>10 DEF Tick, NothingIsDue
    <3> QED
      BY <1>10, <3>1, <3>2, Numbers DEF Tick
  <2>4. console' \in [awake : BOOLEAN, untilSof : 0 .. Period + 1, frame : 0 .. FrameNumbers - 1]
    <3>1. console \in [awake : BOOLEAN, untilSof : 0 .. Period + 1, frame : 0 .. FrameNumbers - 1]
      BY DEF TypeOK
    <3>2. CASE console.awake /\ console.untilSof > 1
      <4>1. console.untilSof - 1 \in 0 .. Period + 1
        BY <3>1, <3>2, Numbers
      <4> QED
        BY <1>10, <3>1, <3>2, <4>1 DEF Tick, NextSof
    <3>3. CASE console.awake /\ ~(console.untilSof > 1)
      <4>1. PICK period \in PeriodsBefore(console.frame) :
                 console' = [console EXCEPT !.untilSof = period,
                                            !.frame = (@ + 1) % FrameNumbers]
        BY <1>10, <3>3 DEF Tick, NextSof
      <4>2. period \in 0 .. Period + 1
        BY Numbers DEF PeriodsBefore
      <4>3. (console.frame + 1) % FrameNumbers \in 0 .. FrameNumbers - 1
        BY <3>1, NextFrameNumber
      <4> QED
        BY <3>1, <4>1, <4>2, <4>3
    <3>4. CASE ~console.awake
      BY <1>10, <3>1, <3>4 DEF Tick, consoleVars
    <3> QED
      BY <3>2, <3>3, <3>4
  <2>5. sample' = << >> \/ \E read \in [reference : References, age : 0 .. 1] : sample' = <<read>>
    <3>1. CASE sample = << >>
      BY <1>10, <3>1, TickShape
    <3>2. CASE sample # << >>
      <4>1. sample' = <<[age |-> 1, reference |-> Aged(sample[1].reference)]>>
        BY <1>10, <3>2, TickShape
      <4>2. PICK read \in [reference : References, age : 0 .. 1] : sample = <<read>>
        BY <3>2 DEF ShapeInv
      <4>3. Aged(sample[1].reference) \in References
        BY <4>2, AgedType
      <4>4. [age |-> 1, reference |-> Aged(sample[1].reference)] \in [reference : References, age : 0 .. 1]
        BY <4>3
      <4> QED
        BY <4>1, <4>4
    <3> QED
      BY <3>1, <3>2
  <2>6. sofPending' = << >> \/ \E age \in 0 .. MaxLatency : sofPending' = <<age>>
    BY <1>10, TickShape
  <2>7. ShapeInv'
    <3>1. sample' # << >> => sample # << >>
      BY <1>10, TickShape
    <3>2. nextFrame <= 0 => nextFrame' <= 0
      BY <1>10, Numbers DEF Tick, TypeOK
    <3> QED
      BY <1>10, <2>5, <2>6, <3>1, <3>2 DEF ShapeInv, Tick
  <2>8. TypeOK'
    <3>1. \A i \in DOMAIN sample' : sample'[i] \in [reference : References, age : 0 .. 1]
      BY <2>5
    <3>2. \A i \in DOMAIN sofPending' : sofPending'[i] \in 0 .. MaxLatency
      BY <2>6
    <3> QED
      BY <1>10, <2>1, <2>2, <2>3, <2>4, <3>1, <3>2 DEF Tick, TypeOK, stackVars
  <2> QED
    BY <2>7, <2>8
<1>11. CASE UNCHANGED vars
  BY <1>11 DEF vars, coreZeroVars, coreOneVars, stackVars, consoleVars, TypeOK, ShapeInv
<1> QED
  BY <1>1, <1>2, <1>3, <1>4, <1>5, <1>6, <1>7, <1>8, <1>9, <1>10, <1>11
     DEF Next, Disturbance

-----------------------------------------------------------------------------
(* The console's bus                                                       *)

\* A step that starts the tracker over.
TrackerStartsOver ==
    /\ tracker' = ResetTracker /\ reference' = Forgotten /\ astray' = FALSE
    /\ \/ console' = console /\ sofPending' = sofPending /\ sofInterrupt' = sofInterrupt
                             /\ resetQueued' = resetQueued
       \/ console' = Silent /\ sofPending' = << >>
    /\ sample' = sample /\ (StartFrames => sample = << >>)

(* Starting the frames, a reset, an unplug and a suspend do.               *)
LEMMA StartingOver ==
    ASSUME IInv, StartFrames \/ ConsoleLeaves \/ ConsoleSuspends
    PROVE  TrackerStartsOver
<1>1. CASE StartFrames
  <2>1. sample = << >>
    BY <1>1 DEF StartFrames, IInv, ShapeInv
  <2> QED
    BY <1>1, <2>1 DEF StartFrames, TrackerStartsOver, stackVars, consoleVars
<1>2. CASE ConsoleLeaves
  <2>1. StartFrames => sample = << >>
    BY DEF StartFrames, IInv, ShapeInv
  <2> QED
    BY <1>2, <2>1 DEF ConsoleLeaves, ForgetConsole, TrackerStartsOver, coreOneVars
<1>3. CASE ConsoleSuspends
  <2>1. StartFrames => sample = << >>
    BY DEF StartFrames, IInv, ShapeInv
  <2> QED
    BY <1>3, <2>1 DEF ConsoleSuspends, ForgetConsole, TrackerStartsOver, coreOneVars
<1> QED
  BY <1>1, <1>2, <1>3

\* A step that leaves the console, its SOFs and the tracker as they are, but
\* may register for them.
GridIsLeft ==
    /\ tracker' = tracker /\ reference' = reference /\ astray' = astray
    /\ console' = console /\ sofPending' = sofPending
    /\ resetQueued' = resetQueued /\ (sofInterrupt => sofInterrupt')

(* The steps of core 1 and of the main loop do, but for a reset's.         *)
LEMMA LeavingTheGrid ==
    ASSUME TypeOK,
           \/ \E enabled \in BOOLEAN : SetSteering(enabled)
           \/ FrameAlarmReads \/ FrameAlarmEnds \/ TudTaskConfigures
           \/ ServiceConsoleSofSubscription \/ UNCHANGED vars
    PROVE  GridIsLeft
<1>1. CASE \/ \E enabled \in BOOLEAN : SetSteering(enabled)
           \/ FrameAlarmReads \/ FrameAlarmEnds
  BY <1>1 DEF SetSteering, FrameAlarmReads, FrameAlarmEnds, GridIsLeft,
              coreZeroVars, stackVars, consoleVars
<1>2. CASE TudTaskConfigures \/ ServiceConsoleSofSubscription
  BY <1>2, FlagsType DEF TudTaskConfigures, TudTask, ServiceConsoleSofSubscription,
              GridIsLeft, coreZeroVars, consoleVars
<1>3. CASE UNCHANGED vars
  BY <1>3 DEF vars, coreZeroVars, stackVars, consoleVars, GridIsLeft
<1> QED
  BY <1>1, <1>2, <1>3

\* A tick within a frame of the console.
WithinFrame ==
    /\ console.awake /\ console.untilSof > 1
    /\ console' = [console EXCEPT !.untilSof = @ - 1]
    /\ sofPending = << >> => sofPending' = << >>
    /\ sofPending # << >> => sofPending' = <<sofPending[1] + 1>>

\* The tick of its SOF, at which none waits any more.
AtSof(period) ==
    /\ console.awake /\ console.untilSof = 1 /\ sofPending = << >>
    /\ period - Period \in -1 .. 1
    /\ console.frame # 0 /\ sofInterrupt => period = Period
    /\ console' = [console EXCEPT !.untilSof = period,
                                  !.frame = (@ + 1) % FrameNumbers]
    /\ sofPending' = IF sofInterrupt THEN <<0>> ELSE << >>

(* A tick is one of these, or passes while the console sleeps.             *)
LEMMA TickCases ==
    ASSUME IInv, Tick
    PROVE  \/ WithinFrame
           \/ \E period \in Int : AtSof(period)
           \/ ~console.awake /\ console' = console /\ sofPending' = sofPending
<1> USE DEF IInv
<1>1. CASE console.awake /\ console.untilSof > 1
  BY <1>1 DEF Tick, NextSof, WithinFrame
<1>2. CASE console.awake /\ ~(console.untilSof > 1)
  <2>1. console.untilSof = 1
    <3>1. console.untilSof \in Int /\ console.untilSof >= 1
      BY <1>2, Numbers DEF TypeOK, BusInv
    <3> QED
      BY <1>2, <3>1
  <2>2. sofPending = << >>
    <3> SUFFICES ASSUME sofPending # << >> PROVE FALSE
      OBVIOUS
    <3>1. PICK age \in 0 .. MaxLatency : sofPending = <<age>>
      BY DEF ShapeInv
    <3>2. age < MaxLatency
      BY <3>1 DEF Tick, NothingIsDue
    <3>3. age + 1 - Period \in -1 .. 1
      BY <2>1, <3>1 DEF BusInv, Excess
    <3> QED
      BY <3>2, <3>3, Numbers
  <2>3. PICK period \in PeriodsBefore(console.frame) :
             console' = [console EXCEPT !.untilSof = period,
                                        !.frame = (@ + 1) % FrameNumbers]
    BY <1>2 DEF Tick, NextSof
  <2>4. /\ period \in Int /\ period - Period \in -1 .. 1
        /\ console.frame # 0 /\ sofInterrupt => period = Period
    BY Numbers DEF PeriodsBefore
  <2>5. sofPending' = IF sofInterrupt THEN <<0>> ELSE << >>
    BY <1>2 DEF Tick, NextSof
  <2>6. AtSof(period)
    BY <1>2, <2>1, <2>2, <2>3, <2>4, <2>5 DEF AtSof
  <2> QED
    BY <2>4, <2>6
<1>3. CASE ~console.awake
  BY <1>3 DEF Tick, consoleVars
<1> QED
  BY <1>1, <1>2, <1>3

(* What becomes of the console in either.                                  *)
LEMMA TickFields ==
    ASSUME TypeOK
    PROVE  /\ WithinFrame =>
                /\ console'.awake /\ console'.frame = console.frame
                /\ console'.untilSof = console.untilSof - 1 /\ console'.untilSof >= 1
           /\ \A period \in Int : AtSof(period) =>
                /\ console'.awake /\ console'.untilSof = period /\ period >= 1
                /\ console'.frame = (console.frame + 1) % FrameNumbers
<1>1. console \in [awake : BOOLEAN, untilSof : 0 .. Period + 1, frame : 0 .. FrameNumbers - 1]
  BY DEF TypeOK
<1>2. ASSUME WithinFrame
      PROVE  /\ console'.awake /\ console'.frame = console.frame
             /\ console'.untilSof = console.untilSof - 1 /\ console'.untilSof >= 1
  <2>1. /\ console.awake /\ console.untilSof \in Int /\ console.untilSof > 1
        /\ console' = [console EXCEPT !.untilSof = console.untilSof - 1]
    BY <1>1, <1>2, Numbers DEF WithinFrame
  <2>2. console'.awake = console.awake /\ console'.frame = console.frame
    BY <1>1, <2>1
  <2>3. console'.untilSof = console.untilSof - 1
    BY <1>1, <2>1
  <2> QED
    BY <2>1, <2>2, <2>3
<1>3. ASSUME NEW period \in Int, AtSof(period)
      PROVE  /\ console'.awake /\ console'.untilSof = period /\ period >= 1
             /\ console'.frame = (console.frame + 1) % FrameNumbers
  <2>1. /\ console.awake /\ period - Period \in -1 .. 1
        /\ console' = [console EXCEPT !.untilSof = period,
                                      !.frame = (console.frame + 1) % FrameNumbers]
    BY <1>1, <1>3 DEF AtSof
  <2>2. /\ console'.awake = console.awake /\ console'.untilSof = period
        /\ console'.frame = (console.frame + 1) % FrameNumbers
    BY <1>1, <2>1
  <2>3. period >= 1
    BY <2>1, Numbers
  <2> QED
    BY <2>1, <2>2, <2>3
<1> QED
  BY <1>2, <1>3

(* Every step keeps what waits to be observed the start of the console's   *)
(* present frame.                                                          *)
LEMMA BusStep ==
    ASSUME IInv, [Next]_vars
    PROVE  BusInv'
<1> USE DEF IInv
<1>1. CASE StartFrames \/ ConsoleLeaves \/ ConsoleSuspends
  <2>1. TrackerStartsOver
    BY <1>1, StartingOver
  <2>2. BusInv
    OBVIOUS
  <2>3. CASE /\ console' = console /\ sofPending' = sofPending
             /\ sofInterrupt' = sofInterrupt /\ resetQueued' = resetQueued
    BY <2>1, <2>2, <2>3, InitialTypes DEF TrackerStartsOver, BusInv, Excess
  <2>4. CASE console' = Silent /\ sofPending' = << >>
    BY <2>1, <2>4, InitialTypes DEF TrackerStartsOver, BusInv
  <2> QED
    BY <2>1, <2>3, <2>4 DEF TrackerStartsOver
<1>2. CASE \/ \E enabled \in BOOLEAN : SetSteering(enabled)
           \/ FrameAlarmReads \/ FrameAlarmEnds \/ TudTaskConfigures
           \/ ServiceConsoleSofSubscription \/ UNCHANGED vars
  <2>1. GridIsLeft /\ BusInv
    BY <1>2, LeavingTheGrid
  <2> QED
    BY <2>1 DEF GridIsLeft, BusInv, Excess
<1>3. CASE ObserveConsoleSof
  <2> DEFINE known == IF started THEN tracker ELSE ResetTracker
  <2>1. known \in Trackers /\ console.frame \in 0 .. FrameNumbers - 1
    BY InitialTypes DEF TypeOK
  <2>2. tracker' = Observe(known, 0, console.frame)
    BY <1>3 DEF ObserveConsoleSof
  <2> HIDE DEF known
  <2>3. tracker'.valid
    BY <2>1, <2>2, ObserveType
  <2>4. sofPending' = << >> /\ console' = console /\ resetQueued' = resetQueued /\ BusInv
    BY <1>3 DEF ObserveConsoleSof, stackVars
  <2> QED
    BY <2>3, <2>4 DEF BusInv
<1>4. CASE SofIsMissed
  <2>1. /\ sofPending' = << >> /\ console' = console /\ resetQueued' = resetQueued
        /\ tracker' = tracker /\ reference' = reference /\ BusInv
    BY <1>4 DEF SofIsMissed, stackVars, coreZeroVars
  <2> QED
    BY <2>1 DEF BusInv
<1>5. CASE ConsoleWakes
  <2>1. /\ ~resetQueued /\ resetQueued' = resetQueued
        /\ tracker' = tracker /\ reference' = reference
        /\ sofPending' = sofPending /\ ~console.awake /\ BusInv
    BY <1>5 DEF ConsoleWakes, stackVars, coreZeroVars
  <2>2. console'.untilSof >= 1 /\ sofPending' = << >>
    BY <1>5, <2>1, Numbers DEF ConsoleWakes, BusInv
  <2> QED
    BY <2>1, <2>2 DEF BusInv
<1>6. CASE TudTaskHandlesReset \/ TudTaskUnconfigures
  <2>1. /\ (resetQueued' => resetQueued) /\ sofPending' = << >>
        /\ console' = console
        /\ tracker' = tracker /\ reference' = reference /\ BusInv
    BY <1>6 DEF TudTaskHandlesReset, TudTaskUnconfigures, TudTask, coreZeroVars
  <2> QED
    BY <2>1 DEF BusInv
<1>7. CASE Tick
  <2>1. resetQueued' = resetQueued /\ sofInterrupt' = sofInterrupt /\ BusInv
    BY <1>7 DEF Tick, stackVars
  <2>2. ~tracker'.valid => reference' = Forgotten
    <3>1. tracker'.valid = tracker.valid
      BY <1>7 DEF Tick, TypeOK, Trackers
    <3>2. ~tracker.valid => reference = Forgotten
      BY DEF BusInv
    <3>3. reference = Forgotten => reference' = Forgotten
      BY <1>7, InitialTypes, AgedType DEF Tick
    <3> QED
      BY <3>1, <3>2, <3>3
  <2>3. CASE WithinFrame
    <3>1. console \in [awake : BOOLEAN, untilSof : 0 .. Period + 1, frame : 0 .. FrameNumbers - 1]
      BY DEF TypeOK
    <3>2. /\ console'.awake /\ console'.frame = console.frame
          /\ console'.untilSof = console.untilSof - 1 /\ console'.untilSof >= 1
      BY <2>3, TickFields
    <3>3. sofPending' # << >> => sofPending # << >> /\ Excess' = Excess
      <4> SUFFICES ASSUME sofPending' # << >> PROVE sofPending # << >> /\ Excess' = Excess
        OBVIOUS
      <4>1. sofPending # << >> /\ sofPending'[1] = sofPending[1] + 1
        BY <2>3 DEF WithinFrame
      <4>2. sofPending[1] \in Int
        BY <4>1, Numbers DEF ShapeInv
      <4> QED
        BY <3>1, <3>2, <4>1, <4>2, Numbers DEF Excess
    <3>4. console.awake
      BY <2>3 DEF WithinFrame
    <3> HIDE DEF IInv
    <3> QED
      BY <2>1, <2>2, <3>2, <3>3, <3>4 DEF BusInv
  <2>4. ASSUME NEW period \in Int, AtSof(period)
        PROVE  BusInv'
    <3>1. console \in [awake : BOOLEAN, untilSof : 0 .. Period + 1, frame : 0 .. FrameNumbers - 1]
      BY DEF TypeOK
    <3>2. /\ console'.awake /\ console'.frame = (console.frame + 1) % FrameNumbers
          /\ console'.untilSof = period /\ period >= 1
      BY <2>4, TickFields
    <3>3. console'.frame # 1 => console.frame # 0
      BY <3>1, <3>2, NextFrameNumber, Numbers
    <3>4. sofPending' # << >> =>
            sofInterrupt /\ Excess' \in -1 .. 1 /\ (console'.frame # 1 => Excess' = 0)
      <4> SUFFICES ASSUME sofPending' # << >>
                   PROVE  sofInterrupt /\ Excess' \in -1 .. 1 /\ (console'.frame # 1 => Excess' = 0)
        OBVIOUS
      <4>1. sofInterrupt /\ sofPending'[1] = 0
        BY <2>4 DEF AtSof
      <4>2. Excess' = period - Period
        BY <2>4, <3>2, <4>1, Numbers DEF Excess
      <4> QED
        BY <2>4, <3>3, <4>1, <4>2, Numbers DEF AtSof
    <3>5. ~resetQueued
      BY <2>1, <2>4 DEF AtSof, BusInv
    <3> QED
      BY <2>1, <2>2, <3>2, <3>4, <3>5 DEF BusInv
  <2>5. CASE ~console.awake /\ console' = console /\ sofPending' = sofPending
    BY <2>1, <2>2, <2>5 DEF BusInv
  <2> QED
    BY <1>7, <2>3, <2>4, <2>5, TickCases
<1> QED
  BY <1>1, <1>2, <1>3, <1>4, <1>5, <1>6, <1>7 DEF Next, Disturbance

-----------------------------------------------------------------------------
(* The tracker                                                             *)

(* A time on the grid stays on it when it ages with the console.           *)
LEMMA WrappedAges ==
    ASSUME NEW x \in Int
    PROVE  Wrapped(Wrapped(x) - 1) = Wrapped(x - 1)
<1>1. Wrapped(x) \in Int
  BY WrappedSame, Numbers DEF Times
<1>2. Wrapped(Wrapped(x) + (-1)) = Wrapped(x + (-1)) /\ x + (-1) = x - 1
  BY WrappedSame
<1>3. Wrapped(x) + (-1) = Wrapped(x) - 1
  BY <1>1
<1> QED
  BY <1>2, <1>3

(* An observation makes the model the present, or pulls it towards the     *)
(* present from where it was predicted, half a period earlier at most.     *)
LEMMA ObservedModel ==
    ASSUME NEW t \in Trackers, NEW frame \in 0 .. FrameNumbers - 1
    PROVE  \/ Observe(t, 0, frame).model = 0
           \/ \E late \in 0 .. HalfPeriod, frames \in 1 .. FrameNumbers :
                /\ t.valid /\ t.model = Wrapped(-late - frames * Period)
                /\ Observe(t, 0, frame).model = Wrapped(-(late - late \div PullDivisor))
<1> DEFINE k == ElapsedFrames(t, frame)
           shift == k * Period
           predicted == Wrapped(t.model + shift)
           residual == Signed(Wrapped(0 - predicted))
<1>1. k \in 1 .. FrameNumbers
  <2> DEFINE d == (frame - t.lastFrame) % FrameNumbers
  <2>1. d \in 0 .. FrameNumbers - 1
    BY NextFrameNumber DEF Trackers
  <2>2. k = IF d = 0 THEN 1 ELSE d
    BY DEF ElapsedFrames
  <2> HIDE DEF d, k
  <2> QED
    BY <2>1, <2>2, Numbers
<1>2. t.model \in Times /\ t.model \in Int /\ shift \in Int
  <2> HIDE DEF k
  <2> QED
    BY <1>1, Numbers DEF Trackers, Times
<1>3. /\ Observe(t, 0, frame).model =
             IF t.valid THEN ModelAfter(predicted, 0) ELSE 0
      /\ ModelAfter(predicted, 0) = IF residual < 0 \/ residual > HalfPeriod THEN 0
                                    ELSE Wrapped(predicted + residual \div PullDivisor)
  BY DEF Observe, ModelAfter, HalfPeriod
<1> DEFINE model == Observe(t, 0, frame).model
<1> HIDE DEF k, model
<1>4. predicted \in Times /\ predicted \in Int
  <2>1. t.model + shift \in Int
    BY <1>2
  <2> QED
    BY <2>1, WrappedSame, Numbers DEF Times
<1>5. residual \in Int
  <2>1. 0 - predicted \in Int
    BY <1>4
  <2> QED
    BY <2>1, SignedType
<1>6. predicted = Wrapped(0 - residual)
  <2> DEFINE w == Wrapped(0 - predicted)
  <2>1. w \in Times /\ w \in Int /\ 0 - predicted \in Int
    <3>1. 0 - predicted \in Int
      BY <1>4
    <3> HIDE DEF predicted
    <3>2. w \in Times
      BY <3>1, WrappedSame
    <3> QED
      BY <3>1, <3>2, Numbers DEF Times
  <2>2. Wrapped(0 - w) = Wrapped(0 - (0 - predicted))
    BY <2>1, WrappedSame
  <2>3. 0 - (0 - predicted) = predicted
    BY <1>4
  <2>4. Wrapped(predicted) = predicted
    <3>1. predicted = Word * 0 + predicted /\ predicted \in 0 .. Word - 1
      BY <1>4, Numbers DEF Times
    <3> HIDE DEF predicted
    <3> QED
      BY <1>4, <3>1, Numbers, ModUnique DEF Wrapped
  <2>5. residual = w \/ residual = w - Word
    BY DEF Signed
  <2>6. Wrapped(0 - residual) = Wrapped(0 - w)
    <3>1. CASE residual = w
      BY <3>1
    <3>2. CASE residual = w - Word
      <4>1. 0 - residual = (0 - w) + Word * 1 /\ 0 - w \in Int /\ 1 \in Int
        BY <2>1, <3>2, Numbers
      <4> HIDE DEF residual, w
      <4>2. ((0 - w) + Word * 1) % Word = (0 - w) % Word
        BY <4>1, Numbers, ModSame
      <4> QED
        BY <4>1, <4>2 DEF Wrapped
    <3> QED
      BY <2>5, <3>1, <3>2
  <2> HIDE DEF w, residual, predicted
  <2> QED
    BY <2>2, <2>3, <2>4, <2>6
<1>7. t.model = Wrapped((0 - residual) - shift)
  <2>1. Wrapped(predicted - shift) = t.model
    <3>1. t.model + shift \in Int /\ -shift \in Int
      BY <1>2
    <3>2. Wrapped(Wrapped(t.model + shift) + (-shift)) = Wrapped((t.model + shift) + (-shift))
      BY <3>1, WrappedSame
    <3>3. (t.model + shift) + (-shift) = t.model /\ predicted + (-shift) = predicted - shift
      BY <1>2, <1>4
    <3>4. Wrapped(t.model) = t.model
      <4>1. t.model = Word * 0 + t.model /\ t.model \in 0 .. Word - 1
        BY <1>2, Numbers DEF Times
      <4> QED
        BY <1>2, <4>1, Numbers, ModUnique DEF Wrapped
    <3> QED
      BY <3>2, <3>3, <3>4
  <2> HIDE DEF predicted, residual, shift
  <2>2. 0 - residual \in Int /\ -shift \in Int
    BY <1>2, <1>5
  <2>3. Wrapped(Wrapped(0 - residual) + (-shift)) = Wrapped((0 - residual) + (-shift))
    BY <2>2, WrappedSame
  <2>4. /\ predicted + (-shift) = predicted - shift
        /\ (0 - residual) + (-shift) = (0 - residual) - shift
    BY <1>2, <1>4, <1>5
  <2> QED
    BY <1>6, <2>1, <2>3, <2>4
<1>8. CASE ~t.valid \/ residual < 0 \/ residual > HalfPeriod
  BY <1>3, <1>8
<1>9. CASE t.valid /\ ~(residual < 0 \/ residual > HalfPeriod)
  <2> DEFINE q == residual \div PullDivisor
  <2>1. Observe(t, 0, frame).model = Wrapped(predicted + q)
    BY <1>3, <1>9
  <2> HIDE DEF predicted, residual
  <2>2. residual \in 0 .. HalfPeriod /\ residual \in Nat
    BY <1>5, <1>9, Numbers
  <2>3. q \in Int
    BY <2>2, DivBounds, Numbers
  <2> HIDE DEF q
  <2>4. 0 - residual \in Int /\ (0 - residual) + q = -(residual - q)
    BY <2>2, <2>3
  <2>5. Wrapped(Wrapped(0 - residual) + q) = Wrapped((0 - residual) + q)
    BY <2>3, <2>4, WrappedSame
  <2>6. Observe(t, 0, frame).model = Wrapped(-(residual - q))
    BY <1>6, <2>1, <2>4, <2>5
  <2>7. (0 - residual) - shift = -residual - k * Period
    BY <1>2, <2>2
  <2>8. t.model = Wrapped(-residual - k * Period)
    BY <1>7, <2>7
  <2> QED
    BY <1>1, <1>9, <2>2, <2>6, <2>8 DEF q
<1> QED
  BY <1>8, <1>9

(* In the handler: it is as late for the SOF as its latency and what is    *)
(* left of the model's lateness.                                           *)
LEMMA ObservationStep ==
    ASSUME IInv, ObserveConsoleSof
    PROVE  \E age \in 0 .. MaxLatency, back \in 0 .. HalfPeriod :
              /\ sofPending = <<age>> /\ tracker'.model = Wrapped(-back)
              /\ OffSof(reference'.us, age) = age - back
              /\ \/ back = 0
                 \/ \E late \in 0 .. HalfPeriod :
                      /\ back = late - late \div PullDivisor
                      /\ reference.valid /\ OffSof(reference.us, age) = age - late
<1> DEFINE known == IF started THEN tracker ELSE ResetTracker
<1>1. PICK age \in 0 .. MaxLatency : sofPending = <<age>>
  BY DEF ObserveConsoleSof, IInv, ShapeInv
<1>2. /\ known \in Trackers /\ console.frame \in 0 .. FrameNumbers - 1
      /\ tracker' = Observe(known, 0, console.frame)
      /\ reference' = [valid |-> TRUE, us |-> tracker'.model]
  BY InitialTypes DEF ObserveConsoleSof, IInv, TypeOK
<1>3. known.valid => tracker.valid /\ known = tracker
  BY InitialTypes
<1>4. tracker.valid => reference = [valid |-> TRUE, us |-> tracker.model]
  BY DEF IInv, TrackerInv
<1> HIDE DEF known
<1>5. ASSUME NEW back \in 0 .. HalfPeriod, NEW frames \in 0 .. FrameNumbers
      PROVE  /\ -back - frames * Period \in Int
             /\ OffSof(Wrapped(-back - frames * Period), age) = age - back
  <2> DEFINE shift == frames * Period
             cycle == (FrameNumbers + 1) * Period
             x == -back - shift
  <2>1. shift \in Int /\ cycle \in Int /\ 0 <= shift /\ shift + Period <= cycle
        /\ cycle <= HalfWord
    <3>1. shift \in Int /\ cycle \in Int /\ cycle <= HalfWord
      BY Numbers
    <3>2. cycle - shift = (FrameNumbers + 1 - frames) * Period
      BY Numbers
    <3>3. FrameNumbers + 1 - frames >= 1 /\ FrameNumbers + 1 - frames \in Int
      BY Numbers
    <3>4. (FrameNumbers + 1 - frames) * Period >= Period
      BY <3>3, Numbers
    <3>5. 0 <= shift
      BY Numbers
    <3> HIDE DEF shift, cycle
    <3> QED
      BY <3>1, <3>2, <3>4, <3>5, Numbers
  <2> HIDE DEF shift, cycle
  <2>2. x \in Int /\ -HalfWord <= x /\ x < HalfWord
    BY <2>1, Numbers
  <2>3. Signed(Wrapped(x)) = x
    <3> HIDE DEF x
    <3> QED
      BY <2>2, SignedWrapped
  <2>4. x + age = Period * (-frames) + (age - back)
    BY Numbers DEF shift
  <2>5. x + age \in Int /\ -frames \in Int /\ age - back \in Offsets
    BY <2>2, Numbers DEF Offsets
  <2>6. OffGrid(x + age) = age - back
    <3> HIDE DEF x
    <3> QED
      BY <2>4, <2>5, OffGridOf
  <2> QED
    BY <2>2, <2>3, <2>6 DEF OffSof, shift
<1>6. ASSUME NEW back \in 0 .. HalfPeriod
      PROVE  OffSof(Wrapped(-back), age) = age - back
  <2>1. 0 \in 0 .. FrameNumbers /\ -back - 0 * Period = -back
    BY Numbers
  <2> QED
    BY <1>5, <2>1
<1>7. CASE tracker'.model = 0
  <2>1. 0 = Word * 0 + 0 /\ 0 \in 0 .. Word - 1 /\ 0 \in 0 .. HalfPeriod
    BY Numbers
  <2>2. Wrapped(0) = 0
    BY <2>1, Numbers, ModUnique DEF Wrapped
  <2>3. PICK back \in 0 .. HalfPeriod : back = 0
    BY <2>1
  <2>4. -back = 0
    <3>1. -back = 0 - back /\ back \in Int
      BY Numbers
    <3>2. 0 - back = 0
      BY <2>3, <3>1
    <3> QED
      BY <3>1, <3>2, Zenon
  <2>5. reference'.us = Wrapped(-back) /\ tracker'.model = Wrapped(-back)
    BY <1>2, <1>7, <2>2, <2>4
  <2>6. OffSof(reference'.us, age) = age - back
    BY <1>6, <2>5
  <2> QED
    BY <1>1, <2>3, <2>5, <2>6
<1>8. ASSUME NEW late \in 0 .. HalfPeriod, NEW frames \in 1 .. FrameNumbers,
             known.valid, known.model = Wrapped(-late - frames * Period),
             tracker'.model = Wrapped(-(late - late \div PullDivisor))
      PROVE  \E back \in 0 .. HalfPeriod :
                /\ tracker'.model = Wrapped(-back)
                /\ OffSof(reference'.us, age) = age - back
                /\ back = late - late \div PullDivisor
                /\ reference.valid /\ OffSof(reference.us, age) = age - late
  <2> DEFINE back == late - late \div PullDivisor
  <2>1. back \in 0 .. HalfPeriod
    <3>1. late \in Nat /\ late \div PullDivisor \in 0 .. late
      BY DivBounds, Numbers
    <3> QED
      BY <3>1, Numbers
  <2>2. frames \in 0 .. FrameNumbers
    BY Numbers
  <2>3. reference.valid /\ reference.us = Wrapped(-late - frames * Period)
    BY <1>3, <1>4, <1>8
  <2>4. OffSof(reference.us, age) = age - late
    BY <1>5, <2>2, <2>3
  <2>5. reference'.us = Wrapped(-back)
    BY <1>2, <1>8
  <2>6. OffSof(reference'.us, age) = age - back
    <3> HIDE DEF back
    <3> QED
      BY <1>6, <2>1, <2>5
  <2> QED
    BY <1>8, <2>1, <2>3, <2>4, <2>6
<1>9. \/ tracker'.model = 0
      \/ \E late \in 0 .. HalfPeriod, frames \in 1 .. FrameNumbers :
            /\ known.valid /\ known.model = Wrapped(-late - frames * Period)
            /\ tracker'.model = Wrapped(-(late - late \div PullDivisor))
  BY <1>2, ObservedModel
<1>10. CASE tracker'.model # 0
  <2>1. PICK late \in 0 .. HalfPeriod, frames \in 1 .. FrameNumbers :
            /\ known.valid /\ known.model = Wrapped(-late - frames * Period)
            /\ tracker'.model = Wrapped(-(late - late \div PullDivisor))
    BY <1>9, <1>10
  <2>2. PICK back \in 0 .. HalfPeriod :
            /\ tracker'.model = Wrapped(-back)
            /\ OffSof(reference'.us, age) = age - back
            /\ back = late - late \div PullDivisor
            /\ reference.valid /\ OffSof(reference.us, age) = age - late
    BY <1>8, <2>1
  <2> QED
    BY <1>1, <2>2
<1> QED
  BY <1>7, <1>10

(* An observation leaves the model where the SOF was, but for latency and  *)
(* drift: a pull never reaches beyond what was observed.  A tracker that   *)
(* was astray is back on the grid if it is found there.                    *)
LEMMA ObservedError ==
    ASSUME IInv, ObserveConsoleSof, ~astray'
    PROVE  /\ console.awake /\ sofInterrupt /\ console.untilSof \in Int
           /\ \E error \in IF console.frame = 1 THEN GridErrors ELSE ObservedErrors :
                 tracker'.model = Wrapped(console.untilSof - Period + error)
<1> USE DEF IInv
<1> DEFINE u == console.untilSof
           f == console.frame
           x == Excess
           known == IF started THEN tracker ELSE ResetTracker
<1>1. PICK t \in 0 .. MaxLatency : sofPending = <<t>>
  BY DEF ObserveConsoleSof, ShapeInv
<1>2. /\ console.awake /\ sofInterrupt /\ u \in Int /\ u >= 1 /\ u <= Period + 1
      /\ f \in 0 .. FrameNumbers - 1
      /\ x \in -1 .. 1 /\ (f # 1 => x = 0) /\ t + u - Period = x
  <2>1. sofPending # << >> /\ sofPending[1] = t
    BY <1>1
  <2>2. console.awake /\ sofInterrupt /\ x \in -1 .. 1 /\ (f # 1 => x = 0)
    BY <2>1 DEF BusInv
  <2>3. u \in 0 .. Period + 1 /\ f \in 0 .. FrameNumbers - 1
    BY DEF TypeOK
  <2>4. u >= 1
    BY <2>2 DEF BusInv
  <2>5. t + u - Period = x
    BY <2>1 DEF Excess
  <2> QED
    BY <2>2, <2>3, <2>4, <2>5, Numbers
<1>3. known \in Trackers /\ tracker' = Observe(known, 0, f)
  BY InitialTypes DEF ObserveConsoleSof, TypeOK
<1> HIDE DEF IInv
<1>4. ASSUME tracker'.model = 0
      PROVE  \E error \in IF f = 1 THEN GridErrors ELSE ObservedErrors :
                 tracker'.model = Wrapped(u - Period + error)
  <2>1. u - Period + (t - x) = 0 /\ t - x \in Int
    BY <1>2, Numbers
  <2>2. Wrapped(0) = 0
    <3>1. 0 = Word * 0 + 0 /\ 0 \in 0 .. Word - 1
      BY Numbers
    <3> QED
      BY <3>1, Numbers, ModUnique DEF Wrapped
  <2>3. t - x \in GridErrors /\ (f # 1 => t - x \in ObservedErrors)
    BY <1>2, Numbers DEF GridErrors, ObservedErrors
  <2> HIDE DEF u, f, x
  <2> QED
    BY <1>4, <2>1, <2>2, <2>3
<1>5. CASE ~known.valid
  <2>1. tracker'.model = 0
    BY <1>3, <1>5 DEF Observe
  <2> QED
    BY <1>2, <1>4, <2>1
<1>6. CASE astray
  <2>1. OffSof(reference'.us, t) \in ObservedErrors
    <3>1. sofPending[1] = t
      BY <1>1
    <3> QED
      BY <1>6, <3>1 DEF ObserveConsoleSof, FindsTheGrid
  <2>2. PICK age \in 0 .. MaxLatency, back \in 0 .. HalfPeriod :
            /\ sofPending = <<age>> /\ tracker'.model = Wrapped(-back)
            /\ OffSof(reference'.us, age) = age - back
    BY ObservationStep
  <2>3. t = age
    BY <1>1, <2>2
  <2> DEFINE error == t - back - x
  <2>4. t - back \in ObservedErrors
    BY <2>1, <2>2, <2>3
  <2>5. -back = u - Period + error
    BY <1>2, Numbers
  <2>6. error \in GridErrors /\ (f # 1 => error \in ObservedErrors)
    BY <1>2, <2>4, Numbers DEF GridErrors, ObservedErrors
  <2> HIDE DEF u, f, x, error
  <2> QED
    BY <1>2, <2>2, <2>5, <2>6 DEF u, f
<1>7. CASE known.valid /\ ~astray
  <2> DEFINE k == FramesSince
             predicted == Wrapped(tracker.model + k * Period)
             residual == Signed(Wrapped(0 - predicted))
  <2>1. known = tracker /\ tracker.valid
    BY <1>7, InitialTypes
  <2>2. k \in Int /\ k >= 1 /\ ElapsedFrames(tracker, f) = k
    <3>1. k >= 1
      BY <1>1, <1>7, <2>1 DEF IInv, TrackerInv, OnTrack
    <3>2. tracker.lastFrame \in 0 .. FrameNumbers - 1
      BY DEF IInv, TypeOK, Trackers
    <3>3. k \in 0 .. FrameNumbers - 1
      BY <1>2, <3>2, NextFrameNumber DEF FramesSince
    <3>4. ElapsedFrames(tracker, f) = IF k = 0 THEN 1 ELSE k
      BY DEF ElapsedFrames, FramesSince
    <3> HIDE DEF k
    <3> QED
      BY <3>1, <3>3, <3>4, Numbers
  <2>3. tracker'.model = ModelAfter(predicted, 0)
    BY <1>3, <2>1, <2>2 DEF Observe
  <2>4. PICK error \in IF Drifted THEN GridErrors ELSE ObservedErrors :
              /\ OnGrid(tracker.model, k + 1, error)
              /\ f = 1 => error + x \in ObservedErrors
    <3>1. sofPending # << >>
      BY <1>1
    <3> HIDE DEF k
    <3> QED
      BY <1>7, <2>1, <3>1 DEF IInv, TrackerInv, OnTrack, k
  <2>5. error \in Int /\ -PullDivisor <= error /\ error <= MaxLatency + 1
    <3>1. error \in GridErrors
      BY <2>4, Numbers DEF GridErrors, ObservedErrors
    <3> QED
      BY <3>1, Numbers DEF GridErrors
  <2> HIDE DEF k, u, f, x
  <2>6. predicted = Wrapped(u - Period + error)
    <3> DEFINE y == u - (k + 1) * Period + error
    <3>1. tracker.model = Wrapped(y)
      BY <2>4 DEF OnGrid, u
    <3>2. y \in Int /\ k * Period \in Int /\ y + k * Period = u - Period + error
      BY <1>2, <2>2, <2>5, Numbers
    <3> HIDE DEF y
    <3>3. Wrapped(Wrapped(y) + k * Period) = Wrapped(y + k * Period)
      BY <3>2, WrappedSame
    <3> QED
      BY <3>1, <3>2, <3>3
  <2>7. residual = t - x - error
    <3> DEFINE y == u - Period + error
    <3>1. y \in Int /\ 0 - y = t - x - error
      BY <1>2, <2>5, Numbers
    <3> HIDE DEF y
    <3>2. Wrapped(0 - Wrapped(y)) = Wrapped(0 - y)
      BY <3>1, WrappedSame
    <3>3. Period <= HalfWord
      <4> DEFINE far == (MaxMissed + 4) * Period
      <4>1. far \in Int /\ far >= 4 * Period
        BY Numbers
      <4>2. far + Lead + MaxDelay <= HalfWord
        BY Numbers
      <4> HIDE DEF far
      <4> QED
        BY <4>1, <4>2, Numbers
    <3>4. t - x - error \in Int /\ -HalfWord <= t - x - error /\ t - x - error < HalfWord
      BY <1>2, <2>5, <3>3, Numbers
    <3>5. Signed(Wrapped(t - x - error)) = t - x - error
      BY <3>4, SignedWrapped
    <3> QED
      BY <2>6, <3>1, <3>2, <3>5 DEF y
  <2>8. CASE residual < 0 \/ residual > HalfPeriod
    <3>1. tracker'.model = 0
      BY <2>3, <2>8 DEF ModelAfter, HalfPeriod
    <3> QED
      BY <1>2, <1>4, <3>1 DEF u, f
  <2>9. CASE ~(residual < 0 \/ residual > HalfPeriod)
    <3> DEFINE q == residual \div PullDivisor
    <3>1. tracker'.model = Wrapped(predicted + q)
      BY <2>3, <2>9 DEF ModelAfter, HalfPeriod
    <3> HIDE DEF predicted, residual
    <3>2. residual \in Nat
      BY <1>2, <2>5, <2>7, <2>9, Numbers
    <3>3. q \in 0 .. residual /\ (residual >= PullDivisor => q >= 1)
      BY <3>2, DivBounds, Numbers
    <3> HIDE DEF q
    <3>4. Wrapped(predicted + q) = Wrapped(u - Period + (error + q))
      <4> DEFINE y == u - Period + error
      <4>1. y \in Int /\ q \in Int /\ y + q = u - Period + (error + q)
        BY <1>2, <2>5, <3>2, <3>3, Numbers
      <4> HIDE DEF y
      <4>2. Wrapped(Wrapped(y) + q) = Wrapped(y + q)
        BY <4>1, WrappedSame
      <4> QED
        BY <2>6, <4>1, <4>2 DEF y
    <3>5. f = 1 => error + q \in GridErrors
      BY <1>2, <2>4, <2>5, <2>7, <3>2, <3>3, Numbers DEF GridErrors, ObservedErrors
    <3>6. f # 1 => error + q \in ObservedErrors
      BY <1>2, <2>5, <2>7, <3>2, <3>3, Numbers DEF ObservedErrors
    <3> QED
      BY <1>2, <3>1, <3>4, <3>5, <3>6 DEF u, f
  <2> QED
    BY <2>8, <2>9
<1> QED
  BY <1>2, <1>5, <1>6, <1>7

(* A tick leaves the tracker as far off the grid as it was, but for a      *)
(* drift of the frame that begins.                                         *)
LEMMA TickKeepsTracker ==
    ASSUME IInv, TypeOK', Tick, tracker.valid, ~astray
    PROVE  TrackerInv'
<1> USE DEF IInv
<1> DEFINE u == console.untilSof
           k == FramesSince
<1>1. /\ tracker' = [tracker EXCEPT !.model = Wrapped(@ - 1)]
      /\ reference' = Aged(reference) /\ sofInterrupt' = sofInterrupt
      /\ astray' = astray
  BY DEF Tick, stackVars
<1>2. /\ console.awake /\ sofInterrupt
      /\ reference = [valid |-> TRUE, us |-> tracker.model]
  BY DEF TrackerInv, OnTrack
<1>3. /\ tracker \in Trackers /\ tracker.lastFrame \in 0 .. FrameNumbers - 1
      /\ console.frame \in 0 .. FrameNumbers - 1 /\ u \in Int
      /\ 1 \in 0 .. FrameNumbers - 1
  BY Numbers DEF TypeOK, Trackers
<1>4. /\ tracker'.valid /\ tracker'.lastFrame = tracker.lastFrame
      /\ tracker'.model = Wrapped(tracker.model - 1)
  BY <1>1, <1>3 DEF Trackers
<1>5. reference' = [valid |-> TRUE, us |-> tracker'.model]
  BY <1>1, <1>2, <1>4 DEF Aged
<1>6. k \in 0 .. FrameNumbers - 1
  BY <1>3, NextFrameNumber DEF FramesSince
<1>7. PICK error \in IF Drifted THEN GridErrors ELSE ObservedErrors :
           /\ OnGrid(tracker.model, k + 1, error)
           /\ sofPending # << >> /\ console.frame = 1 => error + Excess \in ObservedErrors
  BY DEF TrackerInv, OnTrack
<1>8. error \in GridErrors /\ error \in Int
  BY <1>7, Numbers DEF GridErrors, ObservedErrors
<1>9. tracker'.model = Wrapped((u - 1) - (k + 1) * Period + error)
  <2> DEFINE y == u - (k + 1) * Period + error
  <2>1. tracker.model = Wrapped(y)
    BY <1>7 DEF OnGrid
  <2>2. y \in Int /\ y - 1 = (u - 1) - (k + 1) * Period + error
    BY <1>3, <1>6, <1>8, Numbers
  <2> HIDE DEF y
  <2> QED
    BY <1>4, <2>1, <2>2, WrappedAges
<1>10. CASE WithinFrame
  <2>1. /\ console'.awake /\ console'.frame = console.frame
        /\ console'.untilSof = u - 1
    BY <1>10, TickFields
  <2>2. FramesSince' = k /\ Drifted' = Drifted
    BY <1>4, <2>1 DEF FramesSince, Drifted
  <2>3. /\ sofPending' = << >> <=> sofPending = << >>
        /\ sofPending # << >> => Excess' = Excess
    <3>1. sofPending' = << >> <=> sofPending = << >>
      BY <1>10 DEF WithinFrame
    <3>2. ASSUME sofPending # << >> PROVE Excess' = Excess
      <4>1. sofPending'[1] = sofPending[1] + 1 /\ sofPending[1] \in Int
        BY <1>10, <3>2, Numbers DEF WithinFrame, ShapeInv
      <4> QED
        BY <1>3, <2>1, <4>1, Numbers DEF Excess
    <3> QED
      BY <3>1, <3>2
  <2>4. OnGrid(tracker.model, FramesSince + 1, error)'
    BY <1>9, <2>1, <2>2 DEF OnGrid
  <2>5. /\ k <= MaxMissed + 1 /\ (sofPending = << >> => k <= MaxMissed)
        /\ sofPending # << >> => k >= 1
    BY DEF TrackerInv, OnTrack
  <2>6. error \in IF Drifted' THEN GridErrors ELSE ObservedErrors
    BY <1>7, <2>2
  <2>7. sofPending' # << >> /\ console'.frame = 1 => error + Excess' \in ObservedErrors
    BY <1>7, <2>1, <2>3
  <2> HIDE DEF IInv, k, u
  <2> QED
    BY <1>1, <1>2, <1>5, <2>1, <2>2, <2>3, <2>4, <2>5, <2>6, <2>7 DEF TrackerInv, OnTrack
<1>11. ASSUME NEW period \in Int, AtSof(period)
       PROVE  TrackerInv'
  <2>1. /\ console'.awake /\ console'.untilSof = period
        /\ console'.frame = (console.frame + 1) % FrameNumbers
    BY <1>11, TickFields
  <2>2. /\ u = 1 /\ sofPending' = <<0>>
        /\ period - Period \in -1 .. 1 /\ (console.frame # 0 => period = Period)
    BY <1>2, <1>11 DEF AtSof
  <2>3. k <= MaxMissed
    BY <1>11 DEF TrackerInv, OnTrack, AtSof
  <2>4. FramesSince' = k + 1
    <3>1. k + 1 < FrameNumbers
      BY <1>6, <2>3, Numbers
    <3>2. k = (console.frame - tracker.lastFrame) % FrameNumbers
      BY DEF FramesSince
    <3>3. FramesSince' = (((console.frame + 1) % FrameNumbers) - tracker.lastFrame) % FrameNumbers
      BY <1>4, <2>1 DEF FramesSince
    <3> HIDE DEF IInv, k
    <3> QED
      BY <1>3, <3>1, <3>2, <3>3, NextFrameNumber
  <2>5. console'.frame = 1 <=> console.frame = 0
    BY <1>3, <2>1, NextFrameNumber
  <2>6. Drifted => Drifted'
    <3> DEFINE b == (1 - tracker.lastFrame) % FrameNumbers
    <3>1. b \in Int
      BY <1>3, NextFrameNumber, Numbers
    <3>2. (Drifted <=> b <= k) /\ (Drifted' <=> b <= k + 1)
      BY <1>4, <2>4 DEF Drifted
    <3> HIDE DEF b
    <3> QED
      BY <1>6, <3>1, <3>2, Numbers
  <2>7. console.frame = 0 => ~Drifted /\ Drifted'
    <3> SUFFICES ASSUME console.frame = 0 PROVE ~Drifted /\ Drifted'
      OBVIOUS
    <3> DEFINE b == (1 - tracker.lastFrame) % FrameNumbers
    <3>1. b = k + 1
      BY <1>4, <2>1, <2>4, <2>5 DEF FramesSince
    <3>2. (Drifted <=> b <= k) /\ (Drifted' <=> b <= k + 1)
      BY <1>4, <2>4 DEF Drifted
    <3> HIDE DEF b, k
    <3> QED
      BY <1>6, <3>1, <3>2, Numbers
  <2> DEFINE drift == period - Period
             rest == error - drift
  <2>8. Excess' = drift
    <3>1. sofPending'[1] = 0
      BY <2>2
    <3> QED
      BY <2>1, <3>1, Numbers DEF Excess
  <2>9. OnGrid(tracker.model, FramesSince + 1, rest)'
    <3>1. (u - 1) - (k + 1) * Period + error = period - (k + 2) * Period + rest
      BY <1>6, <1>8, <2>2, Numbers
    <3>2. tracker'.model = Wrapped(period - (FramesSince' + 1) * Period + rest)
      <4>1. FramesSince' + 1 = k + 2
        BY <1>6, <2>4, Numbers
      <4> QED
        BY <1>9, <3>1, <4>1
    <3> QED
      BY <2>1, <3>2 DEF OnGrid
  <2>10. rest \in IF Drifted' THEN GridErrors ELSE ObservedErrors
    <3>1. CASE console.frame = 0
      <4>1. error \in ObservedErrors
        BY <1>7, <2>7, <3>1
      <4>2. rest \in GridErrors
        BY <2>2, <4>1, Numbers DEF GridErrors, ObservedErrors
      <4> QED
        BY <2>7, <3>1, <4>2
    <3>2. CASE console.frame # 0
      <4>1. rest = error
        BY <1>8, <2>2, <3>2, Numbers
      <4> QED
        BY <1>7, <1>8, <2>6, <4>1
    <3> QED
      BY <3>1, <3>2
  <2>11. console'.frame = 1 => rest + Excess' \in ObservedErrors
    <3> SUFFICES ASSUME console'.frame = 1 PROVE rest + Excess' \in ObservedErrors
      OBVIOUS
    <3>1. error \in ObservedErrors
      BY <1>7, <2>5, <2>7
    <3>2. rest + Excess' = error
      BY <1>8, <2>2, <2>8, Numbers
    <3> QED
      BY <3>1, <3>2
  <2>12. FramesSince' \in Int /\ FramesSince' >= 1 /\ FramesSince' <= MaxMissed + 1
    BY <1>6, <2>3, <2>4, Numbers
  <2>13. sofPending' # << >>
    BY <2>2
  <2> HIDE DEF IInv, k, u, rest, drift
  <2> QED
    BY <1>1, <1>2, <1>5, <2>1, <2>9, <2>10, <2>11, <2>12, <2>13 DEF TrackerInv, OnTrack
<1> QED
  BY <1>2, <1>10, <1>11, TickCases

(* An observation puts the tracker on the grid, unless it stays astray.    *)
LEMMA ObservedOnTrack ==
    ASSUME IInv, TypeOK', ObserveConsoleSof, ~astray'
    PROVE  OnTrack'
<1> USE DEF IInv
<1> DEFINE known == IF started THEN tracker ELSE ResetTracker
<1>1. known \in Trackers /\ console.frame \in 0 .. FrameNumbers - 1
  BY InitialTypes DEF TypeOK
<1>2. tracker' = Observe(known, 0, console.frame)
  BY DEF ObserveConsoleSof
<1> HIDE DEF known
<1>3. tracker'.lastFrame = console.frame
  BY <1>1, <1>2, ObserveType
<1>4. /\ reference' = [valid |-> TRUE, us |-> tracker'.model]
      /\ sofPending' = << >> /\ console' = console /\ sofInterrupt' = sofInterrupt
  BY DEF ObserveConsoleSof, stackVars
<1>5. FramesSince' = 0
  <2>1. 0 = FrameNumbers * 0 + 0 /\ 0 \in 0 .. FrameNumbers - 1
    BY Numbers
  <2>2. 0 % FrameNumbers = 0
    BY <2>1, Numbers, ModUnique
  <2>3. console'.frame - tracker'.lastFrame = 0
    BY <1>1, <1>3, <1>4, Numbers
  <2> QED
    BY <2>2, <2>3 DEF FramesSince
<1>6. /\ console.awake /\ sofInterrupt /\ console.untilSof \in Int
      /\ \E error \in IF console.frame = 1 THEN GridErrors ELSE ObservedErrors :
            tracker'.model = Wrapped(console.untilSof - Period + error)
  BY ObservedError
<1>7. console.frame = 1 => Drifted'
  <2> SUFFICES ASSUME console.frame = 1 PROVE Drifted'
    OBVIOUS
  <2>1. (1 - tracker'.lastFrame) % FrameNumbers = FramesSince'
    BY <1>3, <1>4 DEF FramesSince
  <2> QED
    BY <1>5, <2>1 DEF Drifted
<1>8. PICK error \in IF console.frame = 1 THEN GridErrors ELSE ObservedErrors :
           tracker'.model = Wrapped(console.untilSof - Period + error)
  BY <1>6
<1>9. error \in IF Drifted' THEN GridErrors ELSE ObservedErrors
  <2>1. ObservedErrors \subseteq GridErrors
    BY Numbers DEF ObservedErrors, GridErrors
  <2> QED
    BY <1>7, <1>8, <2>1
<1>10. OnGrid(tracker.model, FramesSince + 1, error)'
  <2>1. (FramesSince' + 1) * Period = Period
    BY <1>5, Numbers
  <2> QED
    BY <1>4, <1>8, <2>1 DEF OnGrid
<1>11. FramesSince' <= MaxMissed + 1 /\ FramesSince' <= MaxMissed
  BY <1>5, Numbers
<1> HIDE DEF IInv
<1> QED
  BY <1>4, <1>6, <1>9, <1>10, <1>11 DEF OnTrack

(* Every step keeps the tracker on the grid, or leads it astray.           *)
LEMMA TrackerStep ==
    ASSUME IInv, TypeOK', [Next]_vars
    PROVE  TrackerInv'
<1> USE DEF IInv
<1>1. CASE StartFrames \/ ConsoleLeaves \/ ConsoleSuspends
  <2>1. ~tracker'.valid
    BY <1>1, StartingOver, InitialTypes DEF TrackerStartsOver
  <2> QED
    BY <2>1 DEF TrackerInv
<1>2. CASE \/ \E enabled \in BOOLEAN : SetSteering(enabled)
           \/ FrameAlarmReads \/ FrameAlarmEnds \/ TudTaskConfigures
           \/ ServiceConsoleSofSubscription \/ UNCHANGED vars
  <2>1. GridIsLeft /\ TrackerInv
    BY <1>2, LeavingTheGrid
  <2> QED
    BY <2>1 DEF GridIsLeft, TrackerInv, OnTrack, Drifted, FramesSince, OnGrid, Excess
<1>3. CASE ObserveConsoleSof
  <2>1. /\ reference' = [valid |-> TRUE, us |-> tracker'.model]
        /\ console' = console /\ console.awake
    BY <1>3 DEF ObserveConsoleSof, BusInv
  <2>2. ~astray' => OnTrack'
    BY <1>3, ObservedOnTrack
  <2> HIDE DEF IInv
  <2> QED
    BY <2>1, <2>2 DEF TrackerInv
<1>4. CASE SofIsMissed
  <2>1. /\ tracker' = tracker /\ reference' = reference /\ console' = console
        /\ sofInterrupt' = sofInterrupt /\ sofPending' = << >> /\ astray' = astray
        /\ FramesSince \in 1 .. MaxMissed /\ TrackerInv
    BY <1>4 DEF SofIsMissed, coreZeroVars, stackVars, FramesSince
  <2>2. FramesSince' = FramesSince /\ (Drifted' <=> Drifted)
    BY <2>1 DEF FramesSince, Drifted
  <2> HIDE DEF IInv
  <2>3. ASSUME tracker.valid, ~astray PROVE OnTrack'
    <3>1. PICK error \in IF Drifted THEN GridErrors ELSE ObservedErrors :
               OnGrid(tracker.model, FramesSince + 1, error)
      BY <2>1, <2>3 DEF TrackerInv, OnTrack
    <3>2. OnGrid(tracker.model, FramesSince + 1, error)'
      BY <2>1, <2>2, <3>1 DEF OnGrid
    <3>3. error \in IF Drifted' THEN GridErrors ELSE ObservedErrors
      BY <2>2, <3>1
    <3>4. FramesSince' <= MaxMissed + 1 /\ FramesSince' <= MaxMissed
      BY <2>1, <2>2, Numbers
    <3>5. sofInterrupt'
      BY <2>1, <2>3 DEF TrackerInv, OnTrack
    <3> QED
      BY <2>1, <3>2, <3>3, <3>4, <3>5 DEF OnTrack
  <2> QED
    BY <2>1, <2>3 DEF TrackerInv
<1>5. CASE ConsoleWakes
  <2>1. tracker' = tracker /\ ~tracker.valid
    BY <1>5 DEF ConsoleWakes, coreZeroVars, TrackerInv
  <2> QED
    BY <2>1 DEF TrackerInv
<1>6. CASE TudTaskHandlesReset
  <2>1. tracker' = tracker /\ ~tracker.valid
    BY <1>6 DEF TudTaskHandlesReset, TudTask, coreZeroVars, TrackerInv, BusInv
  <2> QED
    BY <2>1 DEF TrackerInv
<1>7. CASE Tick
  <2>1. ~tracker.valid => tracker' = tracker
    BY <1>7 DEF Tick
  <2>2. ASSUME tracker.valid, astray PROVE TrackerInv'
    <3>1. /\ tracker' = [tracker EXCEPT !.model = Wrapped(@ - 1)]
          /\ reference' = Aged(reference) /\ astray' = astray
      BY <1>7, <2>2 DEF Tick
    <3>2. console.awake /\ reference = [valid |-> TRUE, us |-> tracker.model]
      BY <2>2 DEF TrackerInv
    <3>3. tracker'.model = Wrapped(tracker.model - 1)
      BY <3>1 DEF TypeOK, Trackers
    <3>4. reference' = [valid |-> TRUE, us |-> tracker'.model]
      BY <3>1, <3>2, <3>3 DEF Aged
    <3>5. console'.awake
      BY <1>7, <3>2, TickCases, TickFields
    <3> QED
      BY <2>2, <3>1, <3>4, <3>5 DEF TrackerInv
  <2> QED
    BY <1>7, <2>1, <2>2, TickKeepsTracker DEF TrackerInv
<1>8. CASE TudTaskUnconfigures
  <2>1. /\ tracker' = tracker /\ reference' = reference /\ console' = console
        /\ tracker.valid => astray'
    BY <1>8 DEF TudTaskUnconfigures, TudTask, coreZeroVars
  <2> QED
    BY <2>1 DEF TrackerInv
<1> QED
  BY <1>1, <1>2, <1>3, <1>4, <1>5, <1>6, <1>7, <1>8 DEF Next, Disturbance

-----------------------------------------------------------------------------
(* What the alarm handler has read                                         *)

\* What SampleInv says of one read.
GoodRead(read) ==
    /\ ~read.reference.valid => read.reference = Forgotten
    /\ read.reference.valid /\ reference.valid =>
         /\ ~astray => IsOnGrid(read.reference.us)
         /\ read.age = 0 /\ console.untilSof = 1 => read.reference = reference
    /\ read.reference.valid /\ ~reference.valid =>
         /\ sofPending = << >>
         /\ console.awake => console.untilSof + read.age >= 2

(* The handler that runs, if any, has one.                                 *)
LEMMA SampleIsGood ==
    ShapeInv => (SampleInv <=> (sample = << >> \/ GoodRead(sample[1])))
<1> SUFFICES ASSUME ShapeInv PROVE SampleInv <=> (sample = << >> \/ GoodRead(sample[1]))
  OBVIOUS
<1>1. CASE sample = << >>
  BY <1>1 DEF SampleInv
<1>2. CASE sample # << >>
  <2>1. PICK read \in [reference : References, age : 0 .. 1] : sample = <<read>>
    BY <1>2 DEF ShapeInv
  <2>2. DOMAIN sample = {1}
    BY <2>1
  <2>3. SampleInv <=> GoodRead(sample[1])
    BY <2>2 DEF SampleInv, GoodRead
  <2> QED
    BY <1>2, <2>1, <2>3
<1> QED
  BY <1>1, <1>2

(* A reference that is valid is the tracker's model, and on the grid       *)
(* unless that is astray.                                                  *)
LEMMA ReferenceOnGrid ==
    TypeOK /\ BusInv /\ TrackerInv /\ reference.valid =>
        tracker.valid /\ console.awake /\ (~astray => IsOnGrid(reference.us))
<1> SUFFICES ASSUME TypeOK, BusInv, TrackerInv, reference.valid
             PROVE  tracker.valid /\ console.awake /\ (~astray => IsOnGrid(reference.us))
  OBVIOUS
<1>1. tracker.valid /\ console.awake
  BY InitialTypes DEF BusInv, TrackerInv
<1> SUFFICES ASSUME ~astray PROVE IsOnGrid(reference.us)
  BY <1>1
<1>2. reference = [valid |-> TRUE, us |-> tracker.model] /\ FramesSince <= MaxMissed + 1
  BY <1>1 DEF TrackerInv, OnTrack
<1>3. PICK error \in IF Drifted THEN GridErrors ELSE ObservedErrors :
           OnGrid(tracker.model, FramesSince + 1, error)
  BY <1>1 DEF TrackerInv, OnTrack
<1>4. error \in GridErrors
  BY <1>3, Numbers DEF GridErrors, ObservedErrors
<1>5. FramesSince \in 0 .. FrameNumbers - 1
  BY NextFrameNumber DEF TypeOK, Trackers, FramesSince
<1>6. FramesSince + 1 \in 1 .. MaxMissed + 2
  BY <1>2, <1>5, Numbers
<1>7. OnGrid(reference.us, FramesSince + 1, error)
  BY <1>2, <1>3
<1> HIDE DEF FramesSince
<1> QED
  BY <1>1, <1>2, <1>4, <1>6, <1>7 DEF IsOnGrid

(* Every step keeps what was read good.                                    *)
LEMMA SampleStep ==
    ASSUME IInv, TypeOK', ShapeInv', BusInv', TrackerInv', [Next]_vars
    PROVE  SampleInv'
<1> USE DEF IInv
<1>1. /\ sample = << >> \/ GoodRead(sample[1])
      /\ sample = << >> \/ \E read \in [reference : References, age : 0 .. 1] : sample = <<read>>
  BY SampleIsGood DEF ShapeInv
<1>2. SampleInv' <=> (sample' = << >> \/ GoodRead(sample[1])')
  <2>1. ShapeInv' => (SampleInv <=> (sample = << >> \/ GoodRead(sample[1])))'
    BY SampleIsGood, PTL
  <2> QED
    BY <2>1
<1>3. reference'.valid /\ ~astray' => IsOnGrid(reference.us)'
  <2>1. (TypeOK /\ BusInv /\ TrackerInv /\ reference.valid)' =>
            (tracker.valid /\ console.awake /\ (~astray => IsOnGrid(reference.us)))'
    BY ReferenceOnGrid, PTL
  <2> QED
    BY <2>1
<1>4. CASE StartFrames \/ FrameAlarmEnds
  <2>1. sample' = << >>
    BY <1>4 DEF StartFrames, FrameAlarmEnds, ShapeInv
  <2> QED
    BY <1>2, <2>1
<1>5. CASE ConsoleLeaves \/ ConsoleSuspends
  <2>1. /\ sample' = sample /\ reference' = Forgotten
        /\ console' = Silent /\ sofPending' = << >>
    BY <1>5 DEF ConsoleLeaves, ConsoleSuspends, ForgetConsole, coreOneVars
  <2>2. GoodRead(sample[1]) => GoodRead(sample[1])'
    BY <2>1, InitialTypes DEF GoodRead
  <2> QED
    BY <1>1, <1>2, <2>1, <2>2
<1>6. CASE FrameAlarmReads
  <2>1. sample' = <<[reference |-> reference, age |-> 0]>> /\ reference' = reference
    BY <1>6 DEF FrameAlarmReads, coreZeroVars
  <2>2. sample'[1].reference = reference /\ sample'[1].age = 0
    BY <2>1
  <2>3. console' = console /\ astray' = astray
    BY <1>6 DEF FrameAlarmReads, consoleVars
  <2>4. ~reference.valid => reference = Forgotten
    BY DEF BusInv, TrackerInv
  <2>5. reference.valid /\ ~astray => IsOnGrid(reference.us)
    BY ReferenceOnGrid
  <2> HIDE DEF IInv
  <2>6. GoodRead(sample[1])'
    BY <2>1, <2>2, <2>3, <2>4, <2>5 DEF GoodRead, IsOnGrid, OnGrid
  <2> QED
    BY <1>2, <2>6
<1>7. CASE \/ \E enabled \in BOOLEAN : SetSteering(enabled)
           \/ TudTaskConfigures \/ ServiceConsoleSofSubscription \/ UNCHANGED vars
  <2>1. GridIsLeft
    BY <1>7, LeavingTheGrid
  <2>2. sample' = sample
    BY <1>7 DEF SetSteering, TudTaskConfigures, TudTask, ServiceConsoleSofSubscription,
                vars, coreOneVars
  <2>3. GoodRead(sample[1]) => GoodRead(sample[1])'
    BY <2>1, <2>2 DEF GridIsLeft, GoodRead, IsOnGrid, OnGrid
  <2> QED
    BY <1>1, <1>2, <2>2, <2>3
<1>8. CASE ObserveConsoleSof
  <2>1. /\ sample' = sample /\ console' = console /\ reference'.valid
        /\ sample # << >> /\ astray => astray'
    BY <1>8 DEF ObserveConsoleSof, coreOneVars, FindsTheGrid
  <2>2. sofPending # << >> /\ console.untilSof # 1
    <3>1. PICK age \in 0 .. MaxLatency : sofPending = <<age>>
      BY <1>8 DEF ObserveConsoleSof, ShapeInv
    <3>2. age + console.untilSof - Period \in -1 .. 1
      BY <3>1 DEF BusInv, Excess
    <3> QED
      BY <3>1, <3>2, Numbers
  <2>3. sample # << >> /\ GoodRead(sample[1]) => GoodRead(sample[1])'
    BY <2>1, <2>2 DEF GoodRead, IsOnGrid, OnGrid
  <2> QED
    BY <1>1, <1>2, <2>1, <2>3
<1>9. CASE SofIsMissed \/ TudTaskHandlesReset \/ TudTaskUnconfigures
  <2>1. /\ sample' = sample /\ console' = console /\ reference' = reference
        /\ sofPending' = << >> /\ (astray => astray')
    BY <1>9, FlagsType DEF SofIsMissed, TudTaskHandlesReset, TudTaskUnconfigures, TudTask,
                coreZeroVars, coreOneVars
  <2>2. GoodRead(sample[1]) => GoodRead(sample[1])'
    BY <2>1 DEF GoodRead, IsOnGrid, OnGrid
  <2> QED
    BY <1>1, <1>2, <2>1, <2>2
<1>10. CASE ConsoleWakes
  <2>1. /\ sample' = sample /\ reference' = reference /\ sofPending' = sofPending
        /\ ~console.awake
    BY <1>10 DEF ConsoleWakes, coreZeroVars, coreOneVars
  <2>2. ~reference.valid
    BY <2>1, ReferenceOnGrid
  <2>3. console'.untilSof \in 2 .. Period + 1
    BY <1>10 DEF ConsoleWakes
  <2>4. ASSUME sample # << >>, GoodRead(sample[1]) PROVE GoodRead(sample[1])'
    <3>1. sample[1].age \in 0 .. 1
      BY <1>1, <2>4
    <3>2. console'.untilSof + sample[1].age >= 2
      BY <2>3, <3>1, Numbers
    <3> QED
      BY <2>1, <2>2, <2>4, <3>2 DEF GoodRead
  <2> QED
    BY <1>1, <1>2, <2>1, <2>4
<1>11. CASE Tick
  <2>1. CASE sample = << >>
    <3>1. sample' = << >>
      BY <1>11, <2>1, TickShape
    <3> QED
      BY <1>2, <3>1
  <2>2. CASE sample # << >>
    <3> DEFINE read == sample[1]
               old == read.reference
    <3>1. /\ GoodRead(read) /\ read.age = 0 /\ old \in References
          /\ sample' = <<[age |-> 1, reference |-> Aged(old)]>>
      BY <1>1, <1>11, <2>2, TickShape
    <3>2. sample'[1].age = 1 /\ sample'[1].reference = Aged(old)
      BY <3>1
    <3>3. reference' = Aged(reference) /\ reference \in References /\ astray' = astray
      BY <1>11 DEF Tick, TypeOK
    <3>4. /\ Aged(old).valid = old.valid /\ reference'.valid = reference.valid
          /\ ~old.valid => Aged(old) = old
          /\ old.valid => Aged(old).us = Wrapped(old.us - 1)
      BY <3>1, <3>3, AgedType
    <3>5. ~Aged(old).valid => Aged(old) = Forgotten
      BY <3>1, <3>4 DEF GoodRead
    <3>6. ASSUME old.valid, reference.valid, ~astray
          PROVE  IsOnGrid(sample[1].reference.us)'
      <4>1. console.awake
        BY <3>6, ReferenceOnGrid
      <4>2. CASE WithinFrame
        <5>1. PICK frames \in 1 .. MaxMissed + 2, error \in GridErrors :
                   OnGrid(old.us, frames, error)
          BY <3>1, <3>6 DEF GoodRead, IsOnGrid
        <5> DEFINE x == console.untilSof - frames * Period + error
        <5>2. /\ x \in Int
              /\ x - 1 = (console.untilSof - 1) - frames * Period + error
          BY Numbers DEF TypeOK, GridErrors
        <5>3. old.us = Wrapped(x)
          BY <5>1 DEF OnGrid
        <5> HIDE DEF x
        <5>4. Aged(old).us = Wrapped(x - 1)
          BY <3>4, <3>6, <5>2, <5>3, WrappedAges
        <5>5. console'.untilSof = console.untilSof - 1
          BY <4>2, TickFields
        <5>6. Aged(old).us = Wrapped(console'.untilSof - frames * Period + error)
          BY <5>2, <5>4, <5>5
        <5> QED
          BY <3>2, <5>6 DEF IsOnGrid, OnGrid
      <4>3. CASE \E period \in Int : AtSof(period)
        <5>1. console.untilSof = 1
          BY <4>3 DEF AtSof
        <5>2. old = reference
          BY <3>1, <3>6, <5>1 DEF GoodRead
        <5>3. sample'[1].reference = reference' /\ reference'.valid
          BY <3>2, <3>3, <3>4, <3>6, <5>2
        <5> HIDE DEF IInv
        <5> QED
          BY <1>3, <3>3, <3>6, <5>3 DEF IsOnGrid, OnGrid
      <4> QED
        BY <1>11, <4>1, <4>2, <4>3, TickCases
    <3>7. ASSUME old.valid, ~reference.valid
          PROVE  /\ sofPending' = << >>
                 /\ console'.awake => console'.untilSof + 1 >= 2
      <4>1. sofPending = << >> /\ (console.awake => console.untilSof >= 2)
        <5>1. sofPending = << >> /\ (console.awake => console.untilSof + 0 >= 2)
          BY <3>1, <3>7 DEF GoodRead
        <5>2. console.untilSof \in Int
          BY Numbers DEF TypeOK
        <5> QED
          BY <5>1, <5>2
      <4>2. CASE WithinFrame
        <5>1. console'.untilSof = console.untilSof - 1 /\ console.awake /\ sofPending' = << >>
          BY <4>1, <4>2, TickFields DEF WithinFrame
        <5> QED
          BY <4>1, <5>1, Numbers DEF TypeOK
      <4>3. ASSUME NEW period \in Int PROVE ~AtSof(period)
        BY <4>1 DEF AtSof
      <4> QED
        BY <1>11, <4>1, <4>2, <4>3, TickCases
    <3> HIDE DEF IInv, read, old
    <3>8. GoodRead(sample[1])'
      BY <3>2, <3>3, <3>4, <3>5, <3>6, <3>7 DEF GoodRead
    <3> QED
      BY <1>2, <3>8
  <2> QED
    BY <2>1, <2>2
<1> QED
  BY <1>4, <1>5, <1>6, <1>7, <1>8, <1>9, <1>10, <1>11 DEF Next, Disturbance

-----------------------------------------------------------------------------
(* The theorems                                                            *)

(* The phase lock starts with the invariant ...                            *)
LEMMA InitIInv == Init => IInv
<1> SUFFICES ASSUME Init PROVE IInv
  OBVIOUS
<1>1. TypeOK
  <2>1. 0 \in -MaxDelay .. Period + MaxStep
    BY Numbers
  <2>2. DOMAIN sample = {} /\ DOMAIN sofPending = {}
    BY DEF Init
  <2>3. /\ tracker \in Trackers /\ reference \in References
        /\ console \in [awake : BOOLEAN, untilSof : 0 .. Period + 1, frame : 0 .. FrameNumbers - 1]
    BY InitialTypes DEF Init
  <2>4. {steering, started, subscribed, serviced, mounted,
         sofInterrupt, resetQueued, astray} \subseteq BOOLEAN
    BY DEF Init
  <2>5. nextFrame \in -MaxDelay .. Period + MaxStep
    BY <2>1 DEF Init
  <2> QED
    BY <2>2, <2>3, <2>4, <2>5 DEF TypeOK
<1>2. ShapeInv /\ BusInv /\ TrackerInv /\ SampleInv
  BY InitialTypes DEF Init, ShapeInv, BusInv, TrackerInv, SampleInv
<1> QED
  BY <1>1, <1>2 DEF IInv

(* ... and every step keeps it.                                            *)
LEMMA NextIInv == IInv /\ [Next]_vars => IInv'
<1> SUFFICES ASSUME IInv, [Next]_vars PROVE IInv'
  OBVIOUS
<1>1. TypeOK' /\ ShapeInv'
  BY TypeStep
<1>2. BusInv'
  BY BusStep
<1>3. TrackerInv'
  BY <1>1, TrackerStep
<1>4. SampleInv'
  BY <1>1, <1>2, <1>3, SampleStep
<1> QED
  BY <1>1, <1>2, <1>3, <1>4 DEF IInv

(* What the tracker predicts and what the alarm handler has read is on the *)
(* console's present grid, within the error of an observation, unless SOFs *)
(* have gone unobserved and no observation found the grid again since.     *)
THEOREM Invariance == Spec => []IInv
<1>1. Init => IInv
  BY InitIInv
<1>2. IInv /\ [Next]_vars => IInv'
  BY NextIInv
<1> QED
  BY <1>1, <1>2, PTL DEF Spec

(* Every variable keeps its type, and no frame is ever further away than a *)
(* period and the largest step, whatever is read and however late the      *)
(* alarm handler is (sof_phase_lock.c:39-68).                              *)
THEOREM TypeCorrect == Spec => []TypeOK
<1>1. IInv => TypeOK
  BY DEF IInv
<1> QED
  BY <1>1, Invariance, PTL

(* A reference that the controller would use lies on the console's grid:   *)
(* missed SOFs, wrapping frame numbers and the grid of before a reset do   *)
(* not mislead the tracker, and what SOFs unobserved by an unconfigured    *)
(* device do to it ends with the first observation that finds the grid     *)
(* (frame_phase.c:30-62, sof_phase_lock.c:89-102).                         *)
THEOREM ReferenceStaysOnGrid == Spec => []ReferenceIsOnGrid
<1>1. IInv => ReferenceIsOnGrid
  <2> SUFFICES ASSUME IInv, reference.valid, ~astray
               PROVE  ReferenceError \in GridErrors
    BY DEF ReferenceIsOnGrid
  <2> DEFINE u == console.untilSof
  <2>1. PICK frames \in 1 .. MaxMissed + 2, error \in GridErrors :
             OnGrid(reference.us, frames, error)
    BY ReferenceOnGrid DEF IInv, IsOnGrid
  <2>2. error \in Offsets /\ error \in Int /\ frames \in Int
    BY Numbers DEF GridErrors, Offsets
  <2>3. u \in Int /\ u >= 0 /\ u <= Period + 1
    BY Numbers DEF IInv, TypeOK
  <2> DEFINE back == frames * Period
             far == (MaxMissed + 4) * Period
             y == u - back + error
  <2>4. reference.us = Wrapped(y)
    BY <2>1 DEF OnGrid
  <2>5. y - u = Period * (-frames) + error /\ -frames \in Int
    BY <2>2, <2>3, Numbers
  <2>6. /\ back \in Int /\ far \in Int /\ back >= Period /\ back + 2 * Period <= far
        /\ far <= HalfWord
    <3>1. back \in Int /\ far \in Int /\ far + Lead + MaxDelay <= HalfWord
      BY <2>2, Numbers
    <3>2. back >= Period
      BY <2>2, Numbers
    <3>3. back + 2 * Period <= far
      <4>1. far - back = (MaxMissed + 4 - frames) * Period
        BY <2>2, Numbers
      <4>2. MaxMissed + 4 - frames >= 2 /\ MaxMissed + 4 - frames \in Int
        BY Numbers
      <4>3. (MaxMissed + 4 - frames) * Period >= 2 * Period
        BY <4>2, Numbers
      <4> HIDE DEF far, back
      <4> QED
        BY <3>1, <4>1, <4>3, Numbers
    <3> HIDE DEF far, back
    <3> QED
      BY <3>1, <3>2, <3>3, Numbers
  <2> HIDE DEF back, far, u
  <2>7. y \in Int /\ -HalfWord <= y /\ y < HalfWord
    BY <2>2, <2>3, <2>6, Numbers DEF Offsets
  <2>8. Signed(reference.us) = y
    BY <2>4, <2>7, SignedWrapped
  <2> HIDE DEF y
  <2>9. y - u \in Int
    BY <2>3, <2>7
  <2>10. OffGrid(y - u) = error
    BY <2>2, <2>5, <2>9, OffGridOf
  <2> QED
    BY <2>8, <2>10 DEF ReferenceError, u
<1> QED
  BY <1>1, Invariance, PTL

(* The controller pulls a frame towards what it read, and never past it:   *)
(* as that is on the grid or too old to be used, the frame comes closer to *)
(* the grid or is on it.                                                   *)
LEMMA StaleStep ==
    ASSUME IInv, FrameAlarmEnds, console.awake, reference.valid, ~astray
    PROVE  \/ Distance(PhaseError') <= Distance(PhaseError)
           \/ PhaseError' \in GridErrors
           \/ Distance(PhaseError) >= (Period \div 2) - MaxGridError
<1> USE DEF IInv
<1> DEFINE u == console.untilSof
           a == nextFrame + Lead - u
           p == PhaseError
<1>1. PICK read \in [reference : References, age : 0 .. 1] : sample = <<read>>
  BY DEF FrameAlarmEnds, ShapeInv
<1>2. PICK valid \in {read.reference.valid, reference.valid},
           us \in {read.reference.us, reference.us},
           now \in {Wrapped(-read.age), 0} :
           nextFrame' = Armed(nextFrame + FrameStep(valid, us, now))
  BY <1>1 DEF FrameAlarmEnds
<1>3. /\ u \in Int /\ u >= 0 /\ u <= Period + 1 /\ console' = console
      /\ nextFrame \in Int /\ nextFrame <= 0 /\ nextFrame >= -MaxDelay
  BY Numbers DEF FrameAlarmEnds, ShapeInv, TypeOK, consoleVars
<1>4. valid \in BOOLEAN /\ us \in Times /\ now \in Times
  <2>1. read.reference \in References /\ reference \in References
    BY DEF TypeOK
  <2>2. -read.age \in Int /\ 0 \in Times
    BY Numbers DEF Times
  <2>3. Wrapped(-read.age) \in Times
    BY <2>2, WrappedSame
  <2> QED
    BY <2>1, <2>2, <2>3 DEF References
<1>5. a \in Int /\ p = OffGrid(a)
  BY <1>3, Numbers DEF PhaseError
<1>6. p \in Offsets /\ \E j \in Int : a = Period * j + p
  BY <1>5, OffGridIs
<1> DEFINE n == Nudge(valid, us, now)
<1>7. n \in Offsets /\ n \in -MaxStep .. MaxStep
  BY <1>3, <1>4, NudgeType
<1>8. FrameStep(valid, us, now) = Period + n
  BY <1>3, <1>4, FrameStepIs
<1> HIDE DEF n
<1>9. PhaseError' = OffGrid(a + n)
  <2> DEFINE target == nextFrame + (Period + n)
  <2>1. target \in Int /\ nextFrame' = Armed(target)
    BY <1>2, <1>3, <1>7, <1>8, Numbers DEF Offsets
  <2>2. PICK k \in Int : Armed(target) = target + Period * k
    BY <2>1, ArmedIs
  <2>3. /\ a + n \in Int /\ k + 1 \in Int
        /\ nextFrame' + Lead - u = (a + n) + Period * (k + 1)
    BY <1>3, <1>5, <1>7, <2>1, <2>2, Numbers DEF Offsets
  <2> HIDE DEF a, target
  <2>4. OffGrid((a + n) + Period * (k + 1)) = OffGrid(a + n)
    BY <2>3, OffGridSame
  <2>5. PhaseError' = OffGrid(nextFrame' + Lead - u)
    BY <1>3 DEF PhaseError
  <2> QED
    BY <2>3, <2>4, <2>5
<1>10. CASE n = 0
  <2>1. PhaseError' = p
    <3>1. a + n = a
      BY <1>5, <1>10
    <3> QED
      BY <1>5, <1>9, <3>1
  <2>2. Distance(PhaseError') = Distance(PhaseError) /\ Distance(PhaseError) \in Int
    BY <1>6, <2>1, Numbers DEF Distance, Offsets
  <2> QED
    BY <2>2
<1>11. CASE n # 0
  <2>1. /\ steering /\ valid /\ IsFresh(us, now)
        /\ n = Clamp(OffGrid(Signed(Wrapped(us - Lead - Period - nextFrame))), MaxStep)
    BY <1>11 DEF Nudge, n
  <2>2. IsOnGrid(us)
    <3>1. CASE us = reference.us
      BY <3>1, ReferenceOnGrid
    <3>2. CASE us = read.reference.us /\ read.reference.valid
      <4>1. GoodRead(sample[1]) /\ sample[1] = read
        BY <1>1, SampleIsGood
      <4> QED
        BY <3>2, <4>1 DEF GoodRead
    <3>3. CASE us = read.reference.us /\ ~read.reference.valid
      <4>1. GoodRead(sample[1]) /\ sample[1] = read
        BY <1>1, SampleIsGood
      <4>2. us = Wrapped(-MaxAge - 2)
        BY <3>3, <4>1 DEF GoodRead, Forgotten
      <4>3. PICK age \in 0 .. 1 : now = Wrapped(0 - age)
        <5>1. 0 = Word * 0 + 0 /\ 0 \in 0 .. Word - 1
          BY Numbers
        <5>2. Wrapped(0) = 0
          BY <5>1, Numbers, ModUnique DEF Wrapped
        <5>3. read.age \in 0 .. 1
          OBVIOUS
        <5>4. 0 \in 0 .. 1 /\ 0 - 0 = 0
          OBVIOUS
        <5>5. CASE now = 0
          BY <5>2, <5>4, <5>5
        <5>6. CASE now = Wrapped(-read.age)
          <6>1. -read.age = 0 - read.age
            BY <5>3
          <6> QED
            BY <5>3, <5>6, <6>1
        <5> QED
          BY <1>2, <5>5, <5>6
      <4> DEFINE y == MaxAge + 2 - age
      <4>4. Wrapped(now - us) = Wrapped(y)
        <5>1. -MaxAge - 2 \in Int /\ 0 - age \in Int /\ now \in Int
          BY <1>4, Numbers DEF Times
        <5>2. Wrapped(now - us) = Wrapped(now - (-MaxAge - 2))
          BY <4>2, <5>1, WrappedSame
        <5>3. now - (-MaxAge - 2) = now + (MaxAge + 2) /\ MaxAge + 2 \in Int
          BY <5>1, Numbers
        <5>4. Wrapped(Wrapped(0 - age) + (MaxAge + 2)) = Wrapped((0 - age) + (MaxAge + 2))
          BY <5>1, <5>3, WrappedSame
        <5>5. (0 - age) + (MaxAge + 2) = y
          BY Numbers
        <5> QED
          BY <4>3, <5>2, <5>3, <5>4, <5>5
      <4>5. y = Word * 0 + y /\ y \in 0 .. Word - 1 /\ y \in Int /\ y > MaxAge
        BY Numbers
      <4> HIDE DEF y
      <4>6. Wrapped(y) = y
        BY <4>5, Numbers, ModUnique DEF Wrapped
      <4>7. ~(y <= MaxAge)
        BY <4>5, Numbers
      <4> QED
        BY <2>1, <4>4, <4>6, <4>7 DEF IsFresh
    <3> QED
      BY <1>2, <3>1, <3>2, <3>3
  <2>3. PICK m \in 1 .. MaxMissed + 2, e \in GridErrors :
             us = Wrapped(u - m * Period + e)
    BY <2>2 DEF IsOnGrid, OnGrid
  <2>4. /\ m \in Int /\ m >= 1 /\ m <= MaxMissed + 2 /\ e \in Int
        /\ -PullDivisor <= e /\ e <= MaxLatency + 1
    BY Numbers DEF GridErrors
  <2> DEFINE back == (m + 1) * Period
             far == (MaxMissed + 4) * Period
             z == e - a - back
  <2>5. /\ back \in Int /\ far \in Int /\ back >= 2 * Period /\ back + Period <= far
        /\ far + Lead + MaxDelay <= HalfWord
    <3>1. back \in Int /\ far \in Int /\ far + Lead + MaxDelay <= HalfWord
      BY <2>4, Numbers
    <3>2. back >= 2 * Period
      BY <2>4, Numbers
    <3>3. back + Period <= far
      <4>1. far - back = (MaxMissed + 3 - m) * Period
        BY <2>4, Numbers
      <4>2. MaxMissed + 3 - m >= 1 /\ MaxMissed + 3 - m \in Int
        BY <2>4, Numbers
      <4>3. (MaxMissed + 3 - m) * Period >= Period
        BY <4>2, Numbers
      <4> HIDE DEF far, back
      <4> QED
        BY <3>1, <4>1, <4>3, Numbers
    <3> HIDE DEF far, back
    <3> QED
      BY <3>1, <3>2, <3>3, Numbers
  <2>6. Wrapped(us - Lead - Period - nextFrame) = Wrapped(z)
    <3> DEFINE y == u - m * Period + e
               d == -Lead - Period - nextFrame
    <3>1. y \in Int /\ d \in Int /\ y + d = z
      BY <1>3, <2>4, Numbers
    <3>2. us = Wrapped(y)
      BY <2>3
    <3>3. us - Lead - Period - nextFrame = us + d
      BY <1>3, <1>4, Numbers DEF Times
    <3> HIDE DEF y, d, z
    <3>4. Wrapped(Wrapped(y) + d) = Wrapped(y + d)
      BY <3>1, WrappedSame
    <3> QED
      BY <3>1, <3>2, <3>3, <3>4
  <2>7. z \in Int /\ -HalfWord <= z /\ z < HalfWord
    <3> HIDE DEF back, far
    <3> QED
      BY <1>3, <2>4, <2>5, Numbers
  <2>8. Signed(Wrapped(us - Lead - Period - nextFrame)) = z
    BY <2>6, <2>7, SignedWrapped
  <2>9. OffGrid(z) = OffGrid(e - a)
    <3>1. e - a \in Int /\ -(m + 1) \in Int /\ z = (e - a) + Period * (-(m + 1))
      BY <1>5, <2>4, Numbers
    <3> HIDE DEF a, z
    <3>2. OffGrid((e - a) + Period * (-(m + 1))) = OffGrid(e - a)
      BY <3>1, OffGridSame
    <3> QED
      BY <3>1, <3>2
  <2>10. n = Clamp(OffGrid(e - a), MaxStep)
    BY <2>1, <2>8, <2>9
  <2>11. PICK j \in Int : a = Period * j + p
    BY <1>6
  <2> HIDE DEF a, p, z, back, far
  <2>12. CASE Distance(p) >= HalfPeriod - MaxGridError
    BY <2>12 DEF HalfPeriod, p
  <2>13. CASE ~(Distance(p) >= HalfPeriod - MaxGridError)
    <3>1. e - p \in Offsets
      BY <1>6, <2>4, <2>13, Numbers DEF Distance, MaxGridError, Offsets
    <3>2. OffGrid(e - a) = e - p
      <4>1. e - a \in Int /\ -j \in Int /\ e - a = Period * (-j) + (e - p)
        BY <1>5, <1>6, <2>4, <2>11, Numbers DEF Offsets
      <4> QED
        BY <3>1, <4>1, OffGridOf
    <3>3. n = Clamp(e - p, MaxStep)
      BY <2>10, <3>2
    <3>4. p + n \in Offsets
      BY <1>6, <2>4, <3>1, <3>3, Numbers DEF Clamp, Offsets
    <3>5. PhaseError' = p + n
      <4>1. a + n \in Int /\ a + n = Period * j + (p + n)
        BY <1>5, <1>6, <1>7, <2>11, Numbers DEF Offsets
      <4> QED
        BY <1>9, <3>4, <4>1, OffGridOf
    <3>6. CASE e - p > MaxStep
      <4>1. n = MaxStep
        BY <3>3, <3>6 DEF Clamp
      <4>2. p + n \in GridErrors \/ Distance(p + n) <= Distance(p)
        BY <1>6, <2>4, <3>6, <4>1, Numbers DEF GridErrors, Distance, Offsets
      <4> QED
        BY <3>5, <4>2 DEF p
    <3>7. CASE e - p < -MaxStep
      <4>1. n = -MaxStep
        BY <1>6, <2>4, <3>3, <3>7, Numbers DEF Clamp, Offsets
      <4>2. p + n \in GridErrors \/ Distance(p + n) <= Distance(p)
        BY <1>6, <2>4, <3>7, <4>1, Numbers DEF GridErrors, Distance, Offsets
      <4> QED
        BY <3>5, <4>2 DEF p
    <3>8. CASE ~(e - p > MaxStep) /\ ~(e - p < -MaxStep)
      <4>1. p + n = e
        BY <1>6, <2>4, <3>3, <3>8, Numbers DEF Clamp, Offsets
      <4> QED
        BY <3>5, <4>1
    <3> QED
      BY <3>6, <3>7, <3>8
  <2> QED
    BY <2>12, <2>13
<1> QED
  BY <1>10, <1>11

(* "A stale read is harmless" (sof_phase_lock.h:14): whatever mixture of   *)
(* old and new values the alarm handler reads, it moves no frame away from *)
(* the console's grid, but where half a period makes both ways as long, as *)
(* long as the tracker is not astray.                                      *)
THEOREM StaleReadsAreHarmless == Spec => StaleReadIsHarmless
<1>1. IInv /\ [Next]_vars =>
        [FrameAlarmEnds /\ console.awake /\ reference.valid /\ ~astray =>
           \/ Distance(PhaseError') <= Distance(PhaseError)
           \/ PhaseError' \in GridErrors
           \/ Distance(PhaseError) >= (Period \div 2) - MaxGridError]_vars
  BY StaleStep
<1> QED
  BY <1>1, Invariance, PTL DEF Spec, StaleReadIsHarmless

(* Wherever the tracker was led while no SOF was observed, and however the *)
(* words and the frame numbers wrapped meanwhile, each observation puts    *)
(* the reference on the console's grid or nearer to it                     *)
(* (frame_phase.c:30-62, sof_phase_lock.c:89-94).                          *)
THEOREM ObservationsComeNearer == Spec => ObservationsFindTheGrid
<1>1. ASSUME IInv, ObserveConsoleSof
      PROVE  \/ OffSof(reference'.us, sofPending[1]) \in ObservedErrors
             \/ /\ reference.valid
                /\ Distance(OffSof(reference'.us, sofPending[1]))
                     < Distance(OffSof(reference.us, sofPending[1]))
  <2>1. PICK age \in 0 .. MaxLatency, back \in 0 .. HalfPeriod :
              /\ sofPending = <<age>>
              /\ OffSof(reference'.us, age) = age - back
              /\ \/ back = 0
                 \/ \E late \in 0 .. HalfPeriod :
                      /\ back = late - late \div PullDivisor
                      /\ reference.valid /\ OffSof(reference.us, age) = age - late
    BY <1>1, ObservationStep
  <2>2. sofPending[1] = age
    BY <2>1
  <2>3. CASE back = 0
    <3>1. age - back \in ObservedErrors
      BY <2>3, Numbers DEF ObservedErrors
    <3> QED
      BY <2>1, <2>2, <3>1
  <2>4. ASSUME NEW late \in 0 .. HalfPeriod,
               back = late - late \div PullDivisor,
               reference.valid, OffSof(reference.us, age) = age - late
        PROVE  \/ age - back \in ObservedErrors
               \/ Distance(age - back) < Distance(OffSof(reference.us, age))
    <3> DEFINE q == late \div PullDivisor
    <3>1. late \in Nat /\ q \in 0 .. late /\ (late >= PullDivisor => q >= 1)
      BY DivBounds, Numbers
    <3> HIDE DEF q
    <3>2. back = late - q
      BY <2>4 DEF q
    <3>3. CASE age - back >= -(PullDivisor - 1)
      <4>1. age - back \in ObservedErrors
        BY <3>3, Numbers DEF ObservedErrors
      <4> QED
        BY <4>1
    <3>4. CASE age - back < -(PullDivisor - 1)
      <4>1. age - late < age - back /\ age - back < 0
        BY <3>1, <3>2, <3>4, Numbers
      <4>2. Distance(age - back) < Distance(age - late)
        BY <4>1, Numbers DEF Distance
      <4> QED
        BY <2>4, <4>2
    <3> QED
      BY <3>3, <3>4, Numbers
  <2> QED
    BY <2>1, <2>2, <2>3, <2>4
<1>2. IInv /\ [Next]_vars =>
        [ObserveConsoleSof =>
           LET age == sofPending[1] IN
           \/ OffSof(reference'.us, age) \in ObservedErrors
           \/ /\ reference.valid
              /\ Distance(OffSof(reference'.us, age)) < Distance(OffSof(reference.us, age))]_vars
  BY <1>1
<1> QED
  BY <1>2, Invariance, PTL DEF Spec, ObservationsFindTheGrid

=============================================================================
