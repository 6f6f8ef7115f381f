-------------------------- MODULE ReportPipe_proofs --------------------------
(***************************************************************************)
(* The safety of the report pipe for every set of usages, every ring of at *)
(* least three items, every number of epochs and every source.             *)
(***************************************************************************)
EXTENDS ReportPipe, ReportPipeOps_proofs

\* A sequence that at most one item was ever put into.
AtMostOne == {<< >>} \cup {<<item>> : item \in Items}

\* The queue on its own: it fits, is current, and moves as the source did.
QueueOK(p) ==
    /\ p \in Pipes
    /\ Len(p.items) <= Capacity
    /\ \A i \in 1 .. Len(p.items) : p.items[i].epoch = p.epoch
    /\ ~p.active => p.items = << >>
    /\ \A i \in 1 .. Len(p.items) - 1 : Continuous(p.items[i], p.items[i + 1])

\* How it hangs together with what the consumer was told before.
FollowsOn(p, t) ==
    /\ p.items # << >> =>
           /\ p.items[Len(p.items)] = Item(p.latest, p.epoch)
           /\ t # << >> => Continuous(t[1], p.items[1])
    /\ p.active /\ p.items = << >> => t = <<Item(p.latest, p.epoch)>>

GoodPipe(p, t) == QueueOK(p) /\ FollowsOn(p, t)

IInv == told \in AtMostOne /\ GoodPipe(pipe, told)

-----------------------------------------------------------------------------
(* What the helpers of report_pipe.c return.                               *)

(* A resynchronization queues a release and, if a key is held, the latest  *)
(* state: whatever was told before, that is a good continuation.           *)
LEMMA EnqueueResyncGood ==
    ASSUME NEW p \in Pipes, p.active, NEW t \in AtMostOne
    PROVE  /\ GoodPipe(EnqueueResync(p), t)
           /\ EnqueueResync(p).latest = p.latest
           /\ EnqueueResync(p).epoch = p.epoch
           /\ EnqueueResync(p).active = p.active
<1> DEFINE c == ClearItems(p)
           r == AppendItem(c, Released)
           f == AppendItem(r, p.latest)
<1>1. /\ c \in Pipes /\ c.items = << >> /\ c.latest = p.latest
      /\ c.epoch = p.epoch /\ c.active
  BY ClearItemsType
<1>2. /\ r \in Pipes /\ Len(r.items) = 1
      /\ r.items[1] = Item(Released, p.epoch)
      /\ r.latest = p.latest /\ r.epoch = p.epoch /\ r.active
  <2> HIDE DEF c
  <2>1. Len(c.items) = 0
    BY <1>1
  <2>2. /\ r \in Pipes /\ Len(r.items) = Len(c.items) + 1
        /\ r.items[Len(c.items) + 1] = Item(Released, c.epoch)
        /\ r.latest = c.latest /\ r.epoch = c.epoch /\ r.active = c.active
    BY <1>1, AppendItemType, ReleasedIsState, Zenon
  <2> HIDE DEF r
  <2> QED
    BY <1>1, <2>1, <2>2
<1>3. /\ f \in Pipes /\ Len(f.items) = 2
      /\ f.items[1] = Item(Released, p.epoch) /\ f.items[2] = Item(p.latest, p.epoch)
      /\ f.latest = p.latest /\ f.epoch = p.epoch /\ f.active
  <2> HIDE DEF r
  <2>1. p.latest \in KeyboardStates
    BY DEF Pipes
  <2>2. /\ f \in Pipes /\ Len(f.items) = Len(r.items) + 1
        /\ f.items[Len(r.items) + 1] = Item(p.latest, r.epoch)
        /\ \A i \in 1 .. Len(r.items) : f.items[i] = r.items[i]
        /\ f.latest = r.latest /\ f.epoch = r.epoch /\ f.active = r.active
    BY <1>2, <2>1, AppendItemType, Zenon
  <2> HIDE DEF f
  <2> QED
    BY <1>2, <2>2
<1>4. CASE p.latest = Released
  <2>1. EnqueueResync(p) = r
    BY <1>2, <1>4 DEF EnqueueResync, AppendLatestIfHeld
  <2>2. QueueOK(r)
    BY <1>2, PipeAssumption DEF QueueOK, Item
  <2>3. FollowsOn(r, t)
    BY <1>2, <1>4 DEF FollowsOn, Item, Continuous
  <2> QED
    BY <1>2, <2>1, <2>2, <2>3 DEF GoodPipe
<1>5. CASE p.latest # Released
  <2>1. EnqueueResync(p) = f
    BY <1>2, <1>5 DEF EnqueueResync, AppendLatestIfHeld
  <2> HIDE DEF f
  <2>2. QueueOK(f)
    BY <1>3, PipeAssumption DEF QueueOK, Item, Continuous
  <2>3. FollowsOn(f, t)
    BY <1>3 DEF FollowsOn, Item, Continuous
  <2> QED
    BY <1>3, <2>1, <2>2, <2>3 DEF GoodPipe
<1> QED
  BY <1>4, <1>5

(* So does a request for one, which an inactive pipe ignores.              *)
LEMMA RequestResyncGood ==
    ASSUME NEW p \in Pipes, ~p.active => p.items = << >>, NEW t \in AtMostOne
    PROVE  /\ GoodPipe(RequestResync(p), t)
           /\ RequestResync(p).latest = p.latest
           /\ RequestResync(p).epoch = p.epoch
           /\ RequestResync(p).active = p.active
<1>1. CASE p.active
  BY <1>1, EnqueueResyncGood DEF RequestResync
<1>2. CASE ~p.active
  BY <1>2, PipeAssumption DEF RequestResync, GoodPipe, QueueOK, FollowsOn
<1> QED
  BY <1>1, <1>2

(* Turning USB on or off leaves a queue that is empty or a fresh start.    *)
LEMMA SetActiveGood ==
    ASSUME NEW p, NEW t \in AtMostOne, GoodPipe(p, t), NEW active \in BOOLEAN
    PROVE  GoodPipe(SetActive(p, active), t)
<1> DEFINE q == ClearItems([p EXCEPT !.active = active])
<1>1. q \in Pipes /\ q.items = << >>
  <2>1. [p EXCEPT !.active = active] \in Pipes
    BY DEF GoodPipe, QueueOK, Pipes
  <2> QED
    BY <2>1, ClearItemsType
<1>2. GoodPipe(RequestResync(q), t)
  BY <1>1, RequestResyncGood
<1> QED
  BY <1>2 DEF SetActive

(* A new epoch starts from an empty state, released first when active.     *)
LEMMA BeginEpochGood ==
    ASSUME NEW p \in Pipes, NEW t \in AtMostOne, NEW e \in Epochs
    PROVE  /\ GoodPipe(BeginEpoch(p, e), t)
           /\ BeginEpoch(p, e).latest = Released
           /\ BeginEpoch(p, e).epoch = e
<1> DEFINE forgotten == [p EXCEPT !.epoch = e, !.latest = Released,
                                  !.wakePending = FALSE]
           q == ClearItems(forgotten)
<1>1. /\ forgotten \in Pipes /\ forgotten.latest = Released
      /\ forgotten.epoch = e
  BY ReleasedIsState DEF Pipes
<1>2. /\ q \in Pipes /\ q.items = << >>
      /\ q.latest = Released /\ q.epoch = e
  BY <1>1, ClearItemsType
<1>3. /\ GoodPipe(RequestResync(q), t)
      /\ RequestResync(q).latest = Released
      /\ RequestResync(q).epoch = e
  BY <1>2, RequestResyncGood
<1> QED
  BY <1>3 DEF BeginEpoch

(* Appending a state the source went to from the latest one keeps the      *)
(* queue continuous, as long as there is room.                             *)
LEMMA AppendChangeGood ==
    ASSUME NEW p, NEW t \in AtMostOne, GoodPipe(p, t), p.active,
           NEW s \in KeyboardStates, NEW w \in BOOLEAN,
           Len(p.items) # Capacity,
           p.latest = Released \/ <<p.latest, s>> \in SourceSteps
    PROVE  GoodPipe(AppendItem([p EXCEPT !.latest = s, !.wakePending = w], s), t)
<1> DEFINE c == [p EXCEPT !.latest = s, !.wakePending = w]
           new == Item(s, p.epoch)
           a == AppendItem(c, s)
           n == Len(p.items)
<1>1. /\ p \in Pipes /\ c \in Pipes /\ c.items = p.items /\ c.latest = s
      /\ c.epoch = p.epoch /\ c.active
  BY DEF GoodPipe, QueueOK, Pipes
<1>2. /\ a \in Pipes /\ a.latest = s /\ a.epoch = p.epoch /\ a.active
      /\ Len(a.items) = n + 1
      /\ a.items[n + 1] = new
      /\ \A i \in 1 .. n : a.items[i] = p.items[i]
  <2> HIDE DEF c
  <2> QED
    BY SMTT(20), <1>1, AppendItemType
<1>3. n \in Nat /\ n <= Capacity
  BY <1>1 DEF Pipes, GoodPipe, QueueOK
<1> HIDE DEF a
<1>5. \A before : before = Item(p.latest, p.epoch) => Continuous(before, new)
  BY DEF Continuous, Item
<1>6. QueueOK(a)
  <2>1. Len(a.items) <= Capacity
    BY <1>2, <1>3, PipeAssumption
  <2>2. \A i \in 1 .. Len(a.items) : a.items[i].epoch = a.epoch
    <3>1. \A i \in 1 .. n : p.items[i].epoch = p.epoch
      BY DEF GoodPipe, QueueOK
    <3>2. new.epoch = p.epoch
      BY DEF Item
    <3> QED
      BY SMTT(20), <1>2, <1>3, <3>1, <3>2
  <2>3. \A i \in 1 .. Len(a.items) - 1 : Continuous(a.items[i], a.items[i + 1])
    <3> SUFFICES ASSUME NEW i \in 1 .. n
                 PROVE  Continuous(a.items[i], a.items[i + 1])
      BY <1>2, <1>3
    <3>1. CASE i < n
      <4>1. Continuous(p.items[i], p.items[i + 1])
        BY <1>3, <3>1 DEF GoodPipe, QueueOK
      <4> QED
        BY <1>2, <1>3, <3>1, <4>1
    <3>2. CASE i = n
      <4>1. p.items[n] = Item(p.latest, p.epoch)
        BY <1>3, <3>2 DEF GoodPipe, FollowsOn
      <4> QED
        BY <1>2, <1>3, <1>5, <3>2, <4>1
    <3> QED
      BY <1>3, <3>1, <3>2
  <2> QED
    BY <1>2, <2>1, <2>2, <2>3 DEF QueueOK
<1>7. FollowsOn(a, t)
  <2>1. a.items # << >> /\ a.items[Len(a.items)] = Item(a.latest, a.epoch)
    BY <1>2, <1>3
  <2>2. ASSUME t # << >> PROVE Continuous(t[1], a.items[1])
    <3>1. CASE p.items = << >>
      <4>1. t = <<Item(p.latest, p.epoch)>>
        BY <3>1 DEF GoodPipe, FollowsOn
      <4>2. a.items[1] = new
        BY <1>2, <3>1
      <4> QED
        BY <1>5, <4>1, <4>2
    <3>2. CASE p.items # << >>
      <4>1. Continuous(t[1], p.items[1])
        BY <2>2, <3>2 DEF GoodPipe, FollowsOn
      <4>2. a.items[1] = p.items[1]
        BY <1>2, <1>3, <3>2
      <4> QED
        BY <4>1, <4>2
    <3> QED
      BY <3>1, <3>2
  <2> QED
    BY <2>1, <2>2 DEF FollowsOn
<1>8. GoodPipe(a, t)
  BY <1>6, <1>7 DEF GoodPipe
<1> QED
  BY <1>8 DEF a
(* A change of state is appended, or answered with a resynchronization     *)
(* when the queue is full; an inactive pipe only remembers it.             *)
LEMMA RecordChangeGood ==
    ASSUME NEW p, NEW t \in AtMostOne, GoodPipe(p, t),
           NEW s \in KeyboardStates,
           p.latest = Released \/ <<p.latest, s>> \in SourceSteps
    PROVE  GoodPipe(RecordChange(p, s), t)
<1> DEFINE w == p.wakePending \/ HasNewPress(p.latest, s)
           changed == [p EXCEPT !.latest = s, !.wakePending = w]
<1>1. p \in Pipes /\ w \in BOOLEAN
  BY DEF GoodPipe, QueueOK, Pipes
<1>2. /\ changed \in Pipes /\ changed.active = p.active
      /\ changed.items = p.items /\ changed.epoch = p.epoch
  <2> HIDE DEF w
  <2> QED
    BY <1>1 DEF Pipes
<1>3. RecordChange(p, s) = IF ~p.active THEN changed
                           ELSE IF Len(p.items) = Capacity THEN EnqueueResync(changed)
                           ELSE AppendItem(changed, s)
  BY <1>1 DEF RecordChange, Pipes
<1>4. CASE ~p.active
  <2>1. p.items = << >>
    BY <1>4 DEF GoodPipe, QueueOK
  <2> HIDE DEF changed
  <2>2. GoodPipe(changed, t)
    BY <1>2, <1>4, <2>1, PipeAssumption DEF GoodPipe, QueueOK, FollowsOn
  <2> QED
    BY <1>3, <1>4, <2>2
<1>5. CASE p.active /\ Len(p.items) = Capacity
  <2> HIDE DEF changed
  <2> QED
    BY <1>2, <1>3, <1>5, EnqueueResyncGood
<1>6. CASE p.active /\ Len(p.items) # Capacity
  <2> HIDE DEF w
  <2>1. GoodPipe(AppendItem(changed, s), t)
    BY <1>1, <1>6, AppendChangeGood
  <2> QED
    BY <1>3, <1>6, <2>1
<1> QED
  BY <1>4, <1>5, <1>6

(* Publishing, under an old, the current or a newer epoch, keeps the pipe  *)
(* good, provided a state of the current epoch is a step of the source.    *)
LEMMA PublishGood ==
    ASSUME NEW p, NEW t \in AtMostOne, GoodPipe(p, t),
           NEW s \in KeyboardStates, NEW e \in Epochs,
           e = p.epoch => <<p.latest, s>> \in SourceSteps
    PROVE  GoodPipe(Publish(p, s, e), t)
<1>1. p \in Pipes /\ p.epoch \in Epochs
  BY DEF GoodPipe, QueueOK, Pipes
<1>2. CASE e < p.epoch
  BY <1>2 DEF Publish
<1>3. CASE e = p.epoch
  <2>1. GoodPipe(PublishCurrent(p, s), t)
    BY <1>3, RecordChangeGood DEF PublishCurrent
  <2> QED
    BY <1>1, <1>3, <2>1 DEF Publish, Epochs
<1>4. CASE e > p.epoch
  <2> DEFINE q == BeginEpoch(p, e)
  <2>1. GoodPipe(q, t) /\ q.latest = Released
    BY <1>1, BeginEpochGood
  <2>2. GoodPipe(PublishCurrent(q, s), t)
    <3> HIDE DEF q
    <3> QED
      BY <2>1, RecordChangeGood DEF PublishCurrent
  <2> QED
    BY <1>1, <1>4, <2>2 DEF Publish, Epochs
<1> QED
  BY <1>1, <1>2, <1>3, <1>4 DEF Epochs

(* A reset of the source either is stale or begins an epoch.               *)
LEMMA SourceResetGood ==
    ASSUME NEW p, NEW t \in AtMostOne, GoodPipe(p, t), NEW e \in Epochs
    PROVE  GoodPipe(SourceReset(p, e), t)
<1>1. p \in Pipes
  BY DEF GoodPipe, QueueOK
<1> QED
  BY <1>1, BeginEpochGood DEF SourceReset

(* A modifier recovery queues press, release and latest state; the three   *)
(* fit because the ring holds at least three.                              *)
LEMMA RecoveryGood ==
    ASSUME NEW p, NEW t \in AtMostOne, GoodPipe(p, t), NEW mask \in RecoveryMasks
    PROVE  GoodPipe(RequestModifierRecovery(p, mask), t)
<1> DEFINE c == ClearItems(p)
           m == AppendItem(c, mask)
           r == AppendItem(m, Released)
           f == AppendItem(r, p.latest)
<1>1. p \in Pipes /\ p.latest \in KeyboardStates /\ mask \in KeyboardStates
  BY RecoveryAssumption DEF GoodPipe, QueueOK, Pipes, KeyboardStates, Usages
<1>2. CASE ~p.active \/ mask = {}
  BY <1>2 DEF RequestModifierRecovery
<1>3. CASE p.active /\ mask # {}
  <2>1. /\ c \in Pipes /\ Len(c.items) = 0 /\ c.latest = p.latest
        /\ c.epoch = p.epoch /\ c.active
    BY <1>1, <1>3, ClearItemsType
  <2>2. /\ m \in Pipes /\ Len(m.items) = 1 /\ m.items[1] = Item(mask, p.epoch)
        /\ m.latest = p.latest /\ m.epoch = p.epoch /\ m.active
    <3>1. /\ m \in Pipes /\ Len(m.items) = Len(c.items) + 1
          /\ m.items[Len(c.items) + 1] = Item(mask, c.epoch)
          /\ m.latest = c.latest /\ m.epoch = c.epoch /\ m.active = c.active
      BY <1>1, <2>1, AppendItemType, Zenon
    <3> HIDE DEF m
    <3> QED
      BY <2>1, <3>1
  <2>3. /\ r \in Pipes /\ Len(r.items) = 2 /\ r.items[1] = Item(mask, p.epoch)
        /\ r.items[2] = Item(Released, p.epoch)
        /\ r.latest = p.latest /\ r.epoch = p.epoch /\ r.active
    <3>1. /\ r \in Pipes /\ Len(r.items) = Len(m.items) + 1
          /\ r.items[Len(m.items) + 1] = Item(Released, m.epoch)
          /\ \A i \in 1 .. Len(m.items) : r.items[i] = m.items[i]
          /\ r.latest = m.latest /\ r.epoch = m.epoch /\ r.active = m.active
      <4> HIDE DEF m
      <4> QED
        BY <2>2, AppendItemType, ReleasedIsState, Zenon
    <3> HIDE DEF r
    <3> QED
      BY <2>2, <3>1
  <2>4. /\ f \in Pipes /\ Len(f.items) = 3 /\ f.items[1] = Item(mask, p.epoch)
        /\ f.items[2] = Item(Released, p.epoch)
        /\ f.items[3] = Item(p.latest, p.epoch)
        /\ f.latest = p.latest /\ f.epoch = p.epoch /\ f.active
    <3>1. /\ f \in Pipes /\ Len(f.items) = Len(r.items) + 1
          /\ f.items[Len(r.items) + 1] = Item(p.latest, r.epoch)
          /\ \A i \in 1 .. Len(r.items) : f.items[i] = r.items[i]
          /\ f.latest = r.latest /\ f.epoch = r.epoch /\ f.active = r.active
      <4> HIDE DEF r
      <4> QED
        BY <1>1, <2>3, AppendItemType, Zenon
    <3> HIDE DEF f
    <3> QED
      BY <2>3, <3>1
  <2>5. GoodPipe(r, t) \/ p.latest # Released
    <3> HIDE DEF r
    <3>1. ASSUME p.latest = Released PROVE QueueOK(r)
      BY <2>3, PipeAssumption DEF QueueOK, Item, Continuous
    <3>2. ASSUME p.latest = Released PROVE FollowsOn(r, t)
      BY <2>3, <3>2 DEF FollowsOn, Item, Continuous
    <3> QED
      BY <3>1, <3>2 DEF GoodPipe
  <2>6. GoodPipe(f, t)
    <3> HIDE DEF f
    <3>1. QueueOK(f)
      BY <2>4, PipeAssumption DEF QueueOK, Item, Continuous
    <3>2. FollowsOn(f, t)
      BY <2>4 DEF FollowsOn, Item, Continuous
    <3> QED
      BY <3>1, <3>2 DEF GoodPipe
  <2>7. RequestModifierRecovery(p, mask) = IF p.latest = Released THEN r ELSE f
    BY <1>3, <2>3 DEF RequestModifierRecovery, AppendLatestIfHeld
  <2> QED
    BY <2>5, <2>6, <2>7
<1> QED
  BY <1>2, <1>3

(* Popping moves the head from what is to be told to what was told.        *)
LEMMA PopGood ==
    ASSUME NEW p, NEW t \in AtMostOne, GoodPipe(p, t), p.items # << >>
    PROVE  /\ <<Head(p.items)>> \in AtMostOne
           /\ GoodPipe(Pop(p), <<Head(p.items)>>)
<1> DEFINE n == Len(p.items)
           q == Pop(p)
           head == p.items[1]
<1>1. /\ p \in Pipes /\ p.items \in Seq(Items) /\ n \in Nat \ {0} /\ n <= Capacity
      /\ \A i \in 1 .. n : p.items[i].epoch = p.epoch
      /\ \A i \in 1 .. n - 1 : Continuous(p.items[i], p.items[i + 1])
      /\ p.items[n] = Item(p.latest, p.epoch)
      /\ p.active
  BY DEF GoodPipe, QueueOK, FollowsOn, Pipes
<1>2. /\ q \in Pipes /\ q.items = Tail(p.items) /\ q.latest = p.latest
      /\ q.epoch = p.epoch /\ q.active
  BY SMTT(20), <1>1 DEF Pop, Pipes
<1>3. /\ Len(q.items) = n - 1
      /\ \A i \in 1 .. n - 1 : q.items[i] = p.items[i + 1]
      /\ Head(p.items) = head /\ head \in Items
  BY <1>1, <1>2
<1> HIDE DEF q
<1>4. <<Head(p.items)>> \in AtMostOne
  BY <1>3 DEF AtMostOne
<1>5. QueueOK(q)
  <2>1. Len(q.items) <= Capacity
    BY <1>1, <1>3, PipeAssumption
  <2>2. \A i \in 1 .. Len(q.items) : q.items[i].epoch = q.epoch
    BY <1>1, <1>2, <1>3
  <2>3. \A i \in 1 .. Len(q.items) - 1 : Continuous(q.items[i], q.items[i + 1])
    BY <1>1, <1>3
  <2> QED
    BY <1>2, <2>1, <2>2, <2>3 DEF QueueOK
<1>6. FollowsOn(q, <<head>>)
  <2>1. CASE n = 1
    <3>1. q.items = << >>
      <4>1. q.items \in Seq(Items)
        BY <1>2 DEF Pipes
      <4>2. Len(q.items) = 0
        BY <1>3, <2>1
      <4> QED
        BY <4>1, <4>2, EmptySeq
    <3>2. <<head>> = <<Item(q.latest, q.epoch)>>
      BY <1>1, <1>2, <2>1
    <3> QED
      BY <3>1, <3>2 DEF FollowsOn
  <2>2. CASE n > 1
    <3>1. q.items # << >> /\ q.items[Len(q.items)] = Item(q.latest, q.epoch)
      <4>1. Len(q.items) = n - 1 /\ n - 1 \in 1 .. n - 1
        BY <1>1, <1>3, <2>2
      <4>2. q.items[n - 1] = p.items[n]
        BY <1>1, <1>3, <4>1
      <4>3. q.items # << >>
        BY <1>1, <2>2, <4>1
      <4> QED
        BY <1>1, <1>2, <4>1, <4>2, <4>3
    <3>2. Continuous(head, q.items[1])
      BY <1>1, <1>3, <2>2
    <3> QED
      BY <3>1, <3>2 DEF FollowsOn
  <2> QED
    BY <1>1, <2>1, <2>2
<1> QED
  BY <1>3, <1>4, <1>5, <1>6 DEF GoodPipe, q

(* Clearing the wake latch changes nothing else.                           *)
LEMMA WakeGood ==
    ASSUME NEW p, NEW t \in AtMostOne, GoodPipe(p, t), NEW item
    PROVE  /\ GoodPipe(TakeWakeRequest(p), t)
           /\ GoodPipe(Acknowledge(p, item), t)
<1> DEFINE q == [p EXCEPT !.wakePending = FALSE]
<1>1. /\ q \in Pipes /\ q.items = p.items /\ q.latest = p.latest
      /\ q.epoch = p.epoch /\ q.active = p.active
  BY DEF GoodPipe, QueueOK, Pipes
<1>2. GoodPipe(q, t)
  <2> HIDE DEF q
  <2> QED
    BY <1>1 DEF GoodPipe, QueueOK, FollowsOn
<1> QED
  BY <1>2 DEF TakeWakeRequest, Acknowledge
-----------------------------------------------------------------------------
(* The invariant is inductive.                                             *)

(* A pipe that report_pipe_init has just set up is good.                   *)
LEMMA InitIInv == Init => IInv
<1> SUFFICES ASSUME Init PROVE IInv
  OBVIOUS
<1>1. told \in AtMostOne
  BY DEF Init, AtMostOne
<1>2. << >> \in Seq(Items)
  OBVIOUS
<1>3. pipe \in Pipes /\ pipe.items = << >> /\ ~pipe.active
  BY <1>2, ReleasedIsState DEF Init, InitialPipe, Pipes
<1> QED
  BY <1>1, <1>3, PipeAssumption DEF IInv, GoodPipe, QueueOK, FollowsOn

(* No call of a function of report_pipe.c, in any order, makes it bad.     *)
LEMMA NextIInv == IInv /\ [Next]_vars => IInv'
<1> SUFFICES ASSUME IInv, [Next]_vars PROVE IInv'
  OBVIOUS
<1> USE DEF IInv
<1>1. CASE ActivationChange
  BY <1>1, SetActiveGood DEF ActivationChange
<1>2. CASE SourcePublishes
  BY <1>2, PublishGood DEF SourcePublishes
<1>3. CASE SourceResets
  BY <1>3, SourceResetGood DEF SourceResets
<1>4. CASE ResyncRequested
  <2>1. pipe \in Pipes /\ (~pipe.active => pipe.items = << >>)
    BY DEF GoodPipe, QueueOK
  <2> QED
    BY <1>4, <2>1, RequestResyncGood DEF ResyncRequested
<1>5. CASE RecoveryRequested
  BY <1>5, RecoveryGood DEF RecoveryRequested
<1>6. CASE ConsumerPops
  BY <1>6, PopGood DEF ConsumerPops
<1>7. CASE ConsumerAcknowledges
  BY <1>7, WakeGood DEF ConsumerAcknowledges
<1>8. CASE ConsumerTakesWake
  BY <1>8, WakeGood DEF ConsumerTakesWake
<1>9. CASE UNCHANGED vars
  BY <1>9 DEF vars
<1> QED
  BY <1>1, <1>2, <1>3, <1>4, <1>5, <1>6, <1>7, <1>8, <1>9 DEF Next

(* So the pipe is good for ever, whoever calls what and when.              *)
THEOREM Invariance == Spec => []IInv
BY InitIInv, NextIInv, PTL DEF Spec

-----------------------------------------------------------------------------
(* What it implies.                                                        *)

(* The story is the queue, after the item told last if there is one.       *)
LEMMA StoryShape ==
    ASSUME IInv
    PROVE  LET n == Len(pipe.items) IN
           /\ n \in Nat
           /\ told = << >> => Story = pipe.items
           /\ told # << >> =>
                /\ Len(Story) = n + 1
                /\ Story[1] = told[1]
                /\ \A i \in 1 .. n : Story[i + 1] = pipe.items[i]
<1>1. pipe.items \in Seq(Items) /\ Len(pipe.items) \in Nat
  BY DEF IInv, GoodPipe, QueueOK, Pipes
<1>2. CASE told = << >>
  BY <1>1, <1>2, ConcatEmptySeq DEF Story
<1>3. CASE told # << >>
  <2>1. PICK item \in Items : told = <<item>>
    BY <1>3 DEF IInv, AtMostOne
  <2>2. told \in Seq(Items) /\ Len(told) = 1
    BY <2>1
  <2>3. /\ Len(Story) = Len(told) + Len(pipe.items)
        /\ \A i \in 1 .. Len(told) + Len(pipe.items) :
             Story[i] = IF i <= Len(told) THEN told[i] ELSE pipe.items[i - Len(told)]
    BY <1>1, <2>2, ConcatProperties DEF Story
  <2> QED
    BY <1>1, <1>3, <2>2, <2>3
<1> QED
  BY <1>1, <1>2, <1>3

(* The pipe keeps its type and its queue fits the ring, for every ring of  *)
(* at least three items (report_pipe.c:10-19 appends without looking).     *)
THEOREM TypeCorrect == Spec => []TypeOK
<1>1. ASSUME IInv PROVE TypeOK
  <2>1. told \in Seq(Items) /\ Len(told) <= 1
    <3>1. CASE told = << >>
      BY <3>1
    <3>2. CASE told # << >>
      <4>1. PICK item \in Items : told = <<item>>
        BY <1>1, <3>2 DEF IInv, AtMostOne
      <4> QED
        BY <4>1
    <3> QED
      BY <3>1, <3>2
  <2> QED
    BY <1>1, <2>1 DEF IInv, GoodPipe, QueueOK, TypeOK
<1> QED
  BY <1>1, Invariance, PTL

(* Whatever the interleaving of source, consumer and resets, an active     *)
(* consumer that drains the queue ends on the keyboard's latest state.     *)
THEOREM DrainedIsLatest == Spec => []EndsOnLatest
<1>1. ASSUME IInv PROVE EndsOnLatest
  <2> SUFFICES ASSUME pipe.active
               PROVE  Story # << >> /\ Story[Len(Story)] = Item(pipe.latest, pipe.epoch)
    BY DEF EndsOnLatest
  <2> DEFINE n == Len(pipe.items)
  <2>1. /\ n \in Nat
        /\ told = << >> => Story = pipe.items
        /\ told # << >> => /\ Len(Story) = n + 1 /\ Story[1] = told[1]
                           /\ \A i \in 1 .. n : Story[i + 1] = pipe.items[i]
    BY <1>1, StoryShape
  <2>2. /\ pipe.items # << >> => pipe.items[n] = Item(pipe.latest, pipe.epoch)
        /\ pipe.items = << >> => told = <<Item(pipe.latest, pipe.epoch)>>
        /\ pipe.items = << >> <=> n = 0
    <3>1. pipe.items \in Seq(Items)
      BY <1>1 DEF IInv, GoodPipe, QueueOK, Pipes
    <3>2. pipe.items = << >> <=> n = 0
      BY <3>1, EmptySeq
    <3> QED
      BY <1>1, <3>2 DEF IInv, GoodPipe, FollowsOn
  <2>3. CASE told = << >>
    BY <2>1, <2>2, <2>3
  <2>4. CASE told # << >> /\ n = 0
    <3>1. Len(Story) = 1 /\ Story[1] = told[1]
      BY <2>1, <2>4
    <3>2. told[1] = Item(pipe.latest, pipe.epoch)
      BY <2>2, <2>4
    <3>3. Story # << >>
      BY <3>1
    <3> QED
      BY <3>1, <3>2, <3>3
  <2>5. CASE told # << >> /\ n > 0
    <3>1. Len(Story) = n + 1 /\ Story[n + 1] = pipe.items[n]
      BY <2>1, <2>5
    <3>2. Story # << >>
      BY <2>1, <2>5, <3>1
    <3> QED
      BY <2>1, <2>2, <2>5, <3>1, <3>2
  <2> QED
    BY <2>1, <2>3, <2>4, <2>5
<1> QED
  BY <1>1, Invariance, PTL

(* The consumer never goes from one set of held keys to another that the   *)
(* keyboard did not go to itself, except across a release or a recovery.   *)
THEOREM SkipsAreReleased == Spec => []SkipsOnlyAcrossRelease
<1>1. ASSUME IInv PROVE SkipsOnlyAcrossRelease
  <2> DEFINE n == Len(pipe.items)
  <2>1. /\ n \in Nat
        /\ told = << >> => Story = pipe.items
        /\ told # << >> => /\ Len(Story) = n + 1 /\ Story[1] = told[1]
                           /\ \A i \in 1 .. n : Story[i + 1] = pipe.items[i]
    BY <1>1, StoryShape
  <2>2. /\ \A i \in 1 .. n - 1 : Continuous(pipe.items[i], pipe.items[i + 1])
        /\ n > 0 /\ told # << >> => Continuous(told[1], pipe.items[1])
    <3>1. n > 0 => pipe.items # << >>
      BY <2>1
    <3> QED
      BY <1>1, <3>1 DEF IInv, GoodPipe, QueueOK, FollowsOn
  <2>3. CASE told = << >>
    BY <2>1, <2>2, <2>3 DEF SkipsOnlyAcrossRelease
  <2>4. CASE told # << >>
    <3> SUFFICES ASSUME NEW i \in 1 .. n PROVE Continuous(Story[i], Story[i + 1])
      BY <2>1, <2>4 DEF SkipsOnlyAcrossRelease
    <3>1. Story[i + 1] = pipe.items[i]
      BY <2>1, <2>4
    <3>2. CASE i = 1
      BY <2>1, <2>2, <2>4, <3>1, <3>2
    <3>3. CASE i > 1
      <4>1. i - 1 \in 1 .. n - 1 /\ (i - 1) + 1 = i
        BY <2>1, <3>3
      <4>2. Story[i] = pipe.items[i - 1]
        BY <2>1, <2>4, <4>1
      <4> QED
        BY <2>2, <3>1, <4>1, <4>2
    <3> QED
      BY <2>1, <3>2, <3>3
  <2> QED
    BY <2>3, <2>4
<1> QED
  BY <1>1, Invariance, PTL
=============================================================================
