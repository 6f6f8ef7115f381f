------------------------ MODULE ReportPipeOps_proofs ------------------------
(***************************************************************************)
(* What the functions of report_pipe.c return, for any pipe they are given *)
(* that holds a queue its owner can have left in it.  The proofs about the *)
(* pipe's users cite these lemmas.                                         *)
(***************************************************************************)
EXTENDS ReportPipeOps, SequenceTheorems, TLAPS

\* A queue that fits, ends on the latest state, and is kept only while active.
SoundPipe(p) ==
    /\ p \in Pipes
    /\ Len(p.items) <= Capacity
    /\ ~p.active => p.items = << >>
    /\ p.items # << >> => p.items[Len(p.items)] = Item(p.latest, p.epoch)

\* Two pipes that differ in nothing but their queues.
SameButItems(p, q) ==
    /\ q.latest = p.latest /\ q.epoch = p.epoch
    /\ q.active = p.active /\ q.wakePending = p.wakePending

\* The queue that starts over with these states ahead of the latest one.
FreshItems(p, start) ==
    IF p.latest = Released THEN start ELSE Append(start, Item(p.latest, p.epoch))

(* No key and the first epoch are values of their types.                   *)
LEMMA ReleasedIsState == Released \in KeyboardStates /\ 0 \in Epochs
BY PipeAssumption DEF Released, KeyboardStates, Epochs

(* Clearing the queue leaves a pipe with the same other fields.            *)
LEMMA ClearItemsType ==
    ASSUME NEW p \in Pipes
    PROVE  /\ ClearItems(p) \in Pipes
           /\ ClearItems(p).items = << >>
           /\ ClearItems(p).latest = p.latest
           /\ ClearItems(p).epoch = p.epoch
           /\ ClearItems(p).active = p.active
           /\ ClearItems(p).wakePending = p.wakePending
<1>1. << >> \in Seq(Items)
  OBVIOUS
<1> QED
  BY <1>1 DEF ClearItems, Pipes

(* append_item puts the state, under the pipe's epoch, last.               *)
LEMMA AppendItemType ==
    ASSUME NEW p \in Pipes, NEW s \in KeyboardStates
    PROVE  /\ AppendItem(p, s) \in Pipes
           /\ Len(AppendItem(p, s).items) = Len(p.items) + 1
           /\ AppendItem(p, s).items[Len(p.items) + 1] = Item(s, p.epoch)
           /\ \A i \in 1 .. Len(p.items) : AppendItem(p, s).items[i] = p.items[i]
           /\ AppendItem(p, s).latest = p.latest
           /\ AppendItem(p, s).epoch = p.epoch
           /\ AppendItem(p, s).active = p.active
           /\ AppendItem(p, s).wakePending = p.wakePending
<1>1. Item(s, p.epoch) \in Items
  BY DEF Item, Items, Pipes
<1>2. Append(p.items, Item(s, p.epoch)) \in Seq(Items)
  BY <1>1 DEF Pipes
<1>3. /\ AppendItem(p, s) \in Pipes
      /\ AppendItem(p, s).items = Append(p.items, Item(s, p.epoch))
      /\ AppendItem(p, s).latest = p.latest
      /\ AppendItem(p, s).epoch = p.epoch
      /\ AppendItem(p, s).active = p.active
      /\ AppendItem(p, s).wakePending = p.wakePending
  BY <1>1, <1>2 DEF AppendItem, Pipes
<1>4. p.items \in Seq(Items)
  BY DEF Pipes
<1> QED
  BY <1>1, <1>3, <1>4

(* Appending to a sequence of one makes a pair.                            *)
LEMMA PairByAppending ==
    ASSUME NEW S, NEW first \in S, NEW second \in S
    PROVE  Append(<<first>>, second) = <<first, second>>
<1>1. /\ <<first, second>> \in Seq(S) /\ Append(<<first>>, second) \in Seq(S)
      /\ Len(<<first, second>>) = 2 /\ Len(Append(<<first>>, second)) = 2
  OBVIOUS
<1>2. \A i \in 1 .. 2 : Append(<<first>>, second)[i] = <<first, second>>[i]
  OBVIOUS
<1> QED
  BY <1>1, <1>2, SeqEqual

(* Appending the latest state to a queue that ends on a release.           *)
LEMMA LatestIsAppended ==
    ASSUME NEW p \in Pipes, p.items # << >>, Len(p.items) < Capacity,
           p.items[Len(p.items)] = Item(Released, p.epoch), p.active
    PROVE  LET q == AppendLatestIfHeld(p) IN
           /\ SoundPipe(q) /\ SameButItems(p, q) /\ q.items # << >>
           /\ q.items = FreshItems(p, p.items)
<1>1. CASE p.latest = Released
  <2>1. AppendLatestIfHeld(p) = p /\ p.items = FreshItems(p, p.items)
    BY <1>1 DEF AppendLatestIfHeld, FreshItems
  <2>2. Len(p.items) <= Capacity
    BY PipeAssumption DEF Pipes
  <2>3. SoundPipe(p) /\ SameButItems(p, p)
    BY <1>1, <2>2 DEF SoundPipe, SameButItems
  <2> QED
    BY <2>1, <2>3
<1>2. CASE p.latest # Released
  <2> DEFINE q == AppendItem(p, p.latest)
  <2>1. AppendLatestIfHeld(p) = q /\ p.latest \in KeyboardStates
    BY <1>2 DEF AppendLatestIfHeld, Pipes
  <2>2. q.items = Append(p.items, Item(p.latest, p.epoch))
    BY DEF AppendItem, Pipes
  <2>3. /\ q \in Pipes /\ SameButItems(p, q)
        /\ Len(q.items) = Len(p.items) + 1
        /\ q.items[Len(p.items) + 1] = Item(p.latest, p.epoch)
    BY <2>1, AppendItemType, Zenon DEF SameButItems
  <2>4. q.items # << >> /\ Len(q.items) <= Capacity
    BY <2>3, PipeAssumption DEF Pipes
  <2> QED
    BY <1>2, <2>1, <2>2, <2>3, <2>4 DEF SoundPipe, SameButItems, FreshItems
<1> QED
  BY <1>1, <1>2

(* A resynchronization starts over from a release of everything.           *)
LEMMA ResyncStartsOver ==
    ASSUME NEW p \in Pipes, p.active
    PROVE  LET q == RequestResync(p) IN
           /\ SoundPipe(q) /\ SameButItems(p, q) /\ q.items # << >>
           /\ q.items = FreshItems(p, <<Item(Released, p.epoch)>>)
<1> DEFINE c == ClearItems(p)
           r == AppendItem(c, Released)
<1>1. c \in Pipes /\ c.items = << >> /\ SameButItems(p, c)
  BY ClearItemsType DEF SameButItems
<1>2. /\ r \in Pipes /\ SameButItems(p, r)
      /\ r.items = <<Item(Released, p.epoch)>>
  <2> HIDE DEF c
  <2>1. r.items = Append(c.items, Item(Released, p.epoch))
    BY <1>1 DEF AppendItem, SameButItems, Pipes
  <2>2. r \in Pipes /\ SameButItems(c, r)
    BY <1>1, AppendItemType, ReleasedIsState, Zenon DEF SameButItems
  <2> QED
    BY <1>1, <2>1, <2>2 DEF SameButItems
<1>3. RequestResync(p) = AppendLatestIfHeld(r)
  BY DEF RequestResync, EnqueueResync
<1> HIDE DEF r
<1>4. r.items # << >> /\ Len(r.items) = 1 /\ r.items[1] = Item(Released, p.epoch)
  BY <1>2
<1>5. r.active /\ r.epoch = p.epoch /\ r.latest = p.latest
  BY <1>2 DEF SameButItems
<1>6. LET q == AppendLatestIfHeld(r) IN
      /\ SoundPipe(q) /\ SameButItems(r, q) /\ q.items # << >>
      /\ q.items = FreshItems(r, r.items)
  <2>1. Len(r.items) < Capacity /\ r.items[Len(r.items)] = Item(Released, r.epoch)
    BY <1>4, <1>5, PipeAssumption
  <2> QED
    BY <1>2, <1>4, <1>5, <2>1, LatestIsAppended
<1> QED
  BY <1>2, <1>3, <1>5, <1>6 DEF SameButItems, FreshItems

(* An inactive pipe ignores the request.                                   *)
LEMMA ResyncIsSound ==
    ASSUME NEW p \in Pipes, ~p.active => p.items = << >>
    PROVE  LET q == RequestResync(p) IN
           /\ SoundPipe(q) /\ SameButItems(p, q)
           /\ q.active => q.items # << >>
<1>1. CASE p.active
  BY <1>1, ResyncStartsOver
<1>2. CASE ~p.active
  BY <1>2, PipeAssumption DEF RequestResync, SoundPipe, SameButItems
<1> QED
  BY <1>1, <1>2

(* Only a change of activity touches the queue.                            *)
LEMMA SetActiveIsSound ==
    ASSUME NEW p \in Pipes, SoundPipe(p), NEW active \in BOOLEAN
    PROVE  LET q == SetActive(p, active) IN
           /\ SoundPipe(q) /\ q.active = active
           /\ q.latest = p.latest /\ q.epoch = p.epoch
           /\ q.wakePending = p.wakePending
           /\ p.active = active => q = p
           /\ active /\ ~p.active =>
                /\ q.items # << >>
                /\ q.items = FreshItems(p, <<Item(Released, p.epoch)>>)
<1>1. CASE p.active = active
  BY <1>1 DEF SetActive
<1>2. CASE p.active # active
  <2> DEFINE a == [p EXCEPT !.active = active]
             c == ClearItems(a)
  <2>1. /\ a \in Pipes /\ a.active = active /\ a.latest = p.latest
        /\ a.epoch = p.epoch /\ a.wakePending = p.wakePending
    BY DEF Pipes
  <2> HIDE DEF a
  <2>2. c \in Pipes /\ c.items = << >> /\ SameButItems(a, c)
    BY <2>1, ClearItemsType DEF SameButItems
  <2>3. SetActive(p, active) = RequestResync(c)
    BY <1>2 DEF SetActive, a
  <2> HIDE DEF c
  <2>4. /\ SoundPipe(RequestResync(c)) /\ SameButItems(c, RequestResync(c))
        /\ c.active => /\ RequestResync(c).items # << >>
                       /\ RequestResync(c).items
                            = FreshItems(c, <<Item(Released, c.epoch)>>)
    BY <2>2, ResyncIsSound, ResyncStartsOver
  <2>5. /\ c.active = active /\ c.latest = p.latest /\ c.epoch = p.epoch
        /\ c.wakePending = p.wakePending
    BY <2>1, <2>2 DEF SameButItems
  <2> QED
    BY <1>2, <2>3, <2>4, <2>5 DEF SameButItems, FreshItems
<1> QED
  BY <1>1, <1>2

(* A new epoch forgets what the last source held, the wake request too.    *)
LEMMA BeginEpochIsSound ==
    ASSUME NEW p \in Pipes, NEW epoch \in Epochs
    PROVE  LET q == BeginEpoch(p, epoch) IN
           /\ SoundPipe(q) /\ q.active = p.active /\ ~q.wakePending
           /\ q.latest = Released /\ q.epoch = epoch
           /\ q.active => q.items = <<Item(Released, epoch)>>
<1> DEFINE b == [p EXCEPT !.epoch = epoch, !.latest = Released, !.wakePending = FALSE]
           c == ClearItems(b)
<1>1. /\ b \in Pipes /\ b.active = p.active /\ b.latest = Released
      /\ b.epoch = epoch /\ ~b.wakePending
  BY ReleasedIsState DEF Pipes
<1> HIDE DEF b
<1>2. c \in Pipes /\ c.items = << >> /\ SameButItems(b, c)
  BY <1>1, ClearItemsType DEF SameButItems
<1>3. BeginEpoch(p, epoch) = RequestResync(c)
  BY DEF BeginEpoch, b
<1> HIDE DEF c
<1>4. /\ SoundPipe(RequestResync(c)) /\ SameButItems(c, RequestResync(c))
      /\ c.active => RequestResync(c).items
                       = FreshItems(c, <<Item(Released, c.epoch)>>)
  BY <1>2, ResyncIsSound, ResyncStartsOver
<1>5. /\ c.active = p.active /\ c.latest = Released /\ c.epoch = epoch
      /\ ~c.wakePending
  BY <1>1, <1>2 DEF SameButItems
<1> QED
  BY <1>3, <1>4, <1>5 DEF SameButItems, FreshItems

(* A change is queued, or the queue starts over on it.                     *)
LEMMA RecordChangeIsSound ==
    ASSUME NEW p \in Pipes, SoundPipe(p), NEW state \in KeyboardStates
    PROVE  LET q == RecordChange(p, state) IN
           /\ SoundPipe(q) /\ q.active = p.active
           /\ q.latest = state /\ q.epoch = p.epoch
           /\ p.wakePending => q.wakePending
           /\ q.active =>
                /\ q.items # << >>
                /\ \/ q.items = Append(p.items, Item(state, p.epoch))
                   \/ q.items = FreshItems(q, <<Item(Released, p.epoch)>>)
<1> DEFINE wake == p.wakePending \/ HasNewPress(p.latest, state)
           c == [p EXCEPT !.latest = state, !.wakePending = wake]
           q == RecordChange(p, state)
<1>1. /\ c \in Pipes /\ c.active = p.active /\ c.latest = state
      /\ c.epoch = p.epoch /\ c.items = p.items
      /\ p.wakePending => c.wakePending
  <2>1. wake \in BOOLEAN
    BY DEF Pipes, HasNewPress
  <2>2. p.wakePending => wake
    OBVIOUS
  <2> HIDE DEF wake
  <2> QED
    BY <2>1, <2>2 DEF Pipes
<1>2. q = IF ~c.active THEN c
          ELSE IF Len(c.items) = Capacity THEN EnqueueResync(c)
          ELSE AppendItem(c, state)
  BY <1>1 DEF RecordChange
<1> HIDE DEF c, q
<1>3. CASE ~p.active
  <2>1. q = c
    BY <1>1, <1>2, <1>3
  <2>2. c.items = << >> /\ Len(c.items) <= Capacity
    BY <1>1, <1>3, PipeAssumption DEF SoundPipe
  <2> QED
    BY <1>1, <1>3, <2>1, <2>2 DEF SoundPipe, q
<1>4. CASE p.active /\ Len(p.items) = Capacity
  <2>1. q = RequestResync(c)
    BY <1>1, <1>2, <1>4 DEF RequestResync
  <2>2. /\ SoundPipe(q) /\ SameButItems(c, q) /\ q.items # << >>
        /\ q.items = FreshItems(c, <<Item(Released, c.epoch)>>)
    BY <1>1, <1>4, <2>1, ResyncStartsOver
  <2> QED
    BY <1>1, <2>2 DEF SameButItems, FreshItems, q
<1>5. CASE p.active /\ Len(p.items) # Capacity
  <2>1. q = AppendItem(c, state)
    BY <1>1, <1>2, <1>5
  <2>2. /\ q \in Pipes /\ SameButItems(c, q)
        /\ Len(q.items) = Len(c.items) + 1
        /\ q.items[Len(c.items) + 1] = Item(state, c.epoch)
    BY <1>1, <2>1, AppendItemType, Zenon DEF SameButItems
  <2>3. q.items = Append(p.items, Item(state, p.epoch))
    BY <1>1, <2>1 DEF AppendItem, Pipes
  <2>4. q.items # << >> /\ Len(q.items) <= Capacity
    BY <1>1, <1>5, <2>2, PipeAssumption DEF SoundPipe, Pipes
  <2>5. /\ q.active = p.active /\ q.latest = state /\ q.epoch = p.epoch
        /\ p.wakePending => q.wakePending
    BY <1>1, <2>2 DEF SameButItems
  <2>6. SoundPipe(q)
    BY <1>1, <1>5, <2>2, <2>4, <2>5 DEF SoundPipe
  <2> QED
    BY <2>3, <2>4, <2>5, <2>6 DEF q
<1> QED
  BY <1>3, <1>4, <1>5

(* A publication that is not stale leaves the pipe as it was, queues the   *)
(* change, or starts over on it.                                           *)
LEMMA PublishIsSound ==
    ASSUME NEW p \in Pipes, SoundPipe(p), NEW state \in KeyboardStates,
           NEW epoch \in Epochs, epoch >= p.epoch
    PROVE  LET q == Publish(p, state, epoch) IN
           /\ SoundPipe(q) /\ q.active = p.active
           /\ q.latest = state /\ q.epoch = epoch
           /\ epoch = p.epoch /\ p.wakePending => q.wakePending
           /\ q = p \/ (q.active => q.items # << >>)
           /\ q.active => \/ q = p
                          \/ /\ epoch = p.epoch
                             /\ q.items = Append(p.items, Item(state, epoch))
                          \/ q.items = FreshItems(q, <<Item(Released, epoch)>>)
<1> p.epoch \in Int /\ epoch \in Int
  BY PipeAssumption DEF Pipes, Epochs
<1>1. CASE epoch = p.epoch
  <2>1. Publish(p, state, epoch) = PublishCurrent(p, state)
    BY <1>1 DEF Publish
  <2>2. CASE p.latest = state
    BY <1>1, <2>1, <2>2 DEF PublishCurrent
  <2>3. CASE p.latest # state
    BY <1>1, <2>1, <2>3, RecordChangeIsSound DEF PublishCurrent
  <2> QED
    BY <2>2, <2>3
<1>2. CASE epoch > p.epoch
  <2> DEFINE b == BeginEpoch(p, epoch)
             q == Publish(p, state, epoch)
  <2>1. /\ SoundPipe(b) /\ b.active = p.active /\ b.latest = Released
        /\ b.epoch = epoch
        /\ b.active => b.items = <<Item(Released, epoch)>>
    BY BeginEpochIsSound
  <2>2. q = PublishCurrent(b, state)
    BY <1>2 DEF Publish
  <2> HIDE DEF b, q
  <2>3. CASE state = Released
    <3>1. q = b
      BY <2>1, <2>2, <2>3 DEF PublishCurrent
    <3>2. q.active => /\ q.items = FreshItems(q, <<Item(Released, epoch)>>)
                      /\ q.items # << >>
      <4>1. <<Item(Released, epoch)>> # << >>
        OBVIOUS
      <4> QED
        BY <2>1, <3>1, <4>1, Zenon DEF FreshItems
    <3>3. SoundPipe(q) /\ q.active = p.active /\ q.latest = state /\ q.epoch = epoch
      BY <2>1, <2>3, <3>1
    <3> QED
      BY <1>2, <3>2, <3>3 DEF q
  <2>4. CASE state # Released
    <3>1. q = RecordChange(b, state) /\ b \in Pipes
      BY <2>1, <2>2, <2>4 DEF PublishCurrent, SoundPipe
    <3>2. /\ SoundPipe(q) /\ q.active = b.active
          /\ q.latest = state /\ q.epoch = b.epoch
          /\ q.active =>
               /\ q.items # << >>
               /\ \/ q.items = Append(b.items, Item(state, b.epoch))
                  \/ q.items = FreshItems(q, <<Item(Released, b.epoch)>>)
      BY <2>1, <3>1, RecordChangeIsSound
    <3>3. q.active => q.items = FreshItems(q, <<Item(Released, epoch)>>)
      BY <2>1, <2>4, <3>2 DEF FreshItems
    <3> QED
      BY <1>2, <2>1, <3>2, <3>3 DEF q
  <2> QED
    BY <2>3, <2>4
<1> QED
  BY <1>1, <1>2

(* A recovery presses and releases the mask ahead of the latest state.     *)
LEMMA RecoveryIsSound ==
    ASSUME NEW p \in Pipes, SoundPipe(p), NEW mask \in SUBSET Modifiers
    PROVE  LET q == RequestModifierRecovery(p, mask) IN
           /\ SoundPipe(q) /\ SameButItems(p, q)
           /\ ~p.active \/ mask = {} => q = p
           /\ p.active /\ mask # {} =>
                /\ q.items # << >>
                /\ q.items = FreshItems(p, <<Item(mask, p.epoch),
                                            Item(Released, p.epoch)>>)
<1>1. CASE ~p.active \/ mask = {}
  BY <1>1 DEF RequestModifierRecovery, SameButItems
<1>2. CASE p.active /\ mask # {}
  <2> DEFINE c == ClearItems(p)
             m == AppendItem(c, mask)
             r == AppendItem(m, Released)
             q == RequestModifierRecovery(p, mask)
  <2>1. c \in Pipes /\ c.items = << >> /\ SameButItems(p, c)
    BY ClearItemsType DEF SameButItems
  <2>2. /\ m \in Pipes /\ SameButItems(p, m)
        /\ m.items = <<Item(mask, p.epoch)>>
    <3> HIDE DEF c
    <3>1. m.items = Append(c.items, Item(mask, p.epoch))
      BY <2>1 DEF AppendItem, SameButItems, Pipes
    <3>2. mask \in KeyboardStates
      BY DEF KeyboardStates, Usages
    <3>3. m \in Pipes /\ SameButItems(c, m)
      BY <2>1, <3>2, AppendItemType, Zenon DEF SameButItems
    <3> QED
      BY <2>1, <3>1, <3>3 DEF SameButItems
  <2>3. /\ r \in Pipes /\ SameButItems(p, r)
        /\ r.items = <<Item(mask, p.epoch), Item(Released, p.epoch)>>
    <3> HIDE DEF m
    <3>1. r.items = Append(m.items, Item(Released, p.epoch))
      BY <2>2 DEF AppendItem, SameButItems, Pipes
    <3>2. r \in Pipes /\ SameButItems(m, r)
      BY <2>2, AppendItemType, ReleasedIsState, Zenon DEF SameButItems
    <3>3. Append(<<Item(mask, p.epoch)>>, Item(Released, p.epoch))
            = <<Item(mask, p.epoch), Item(Released, p.epoch)>>
      <4>1. /\ Item(mask, p.epoch) \in {Item(mask, p.epoch), Item(Released, p.epoch)}
            /\ Item(Released, p.epoch) \in {Item(mask, p.epoch), Item(Released, p.epoch)}
        OBVIOUS
      <4> QED
        BY <4>1, PairByAppending, Zenon
    <3>4. r.items = <<Item(mask, p.epoch), Item(Released, p.epoch)>>
      BY <2>2, <3>1, <3>3, Zenon
    <3> QED
      BY <2>2, <3>2, <3>4 DEF SameButItems
  <2>4. q = AppendLatestIfHeld(r)
    BY <1>2 DEF RequestModifierRecovery
  <2> HIDE DEF r, q
  <2>5. /\ r.items # << >> /\ Len(r.items) < Capacity /\ r.active
        /\ r.items[Len(r.items)] = Item(Released, r.epoch)
    BY <1>2, <2>3, PipeAssumption DEF SameButItems
  <2>6. /\ SoundPipe(q) /\ SameButItems(r, q) /\ q.items # << >>
        /\ q.items = FreshItems(r, r.items)
    BY <2>3, <2>4, <2>5, LatestIsAppended
  <2>7. q.items = FreshItems(p, <<Item(mask, p.epoch), Item(Released, p.epoch)>>)
    BY <2>3, <2>6 DEF SameButItems, FreshItems
  <2>8. SameButItems(p, q)
    BY <2>3, <2>6 DEF SameButItems
  <2> QED
    BY <1>2, <2>6, <2>7, <2>8 DEF q
<1> QED
  BY <1>1, <1>2

(* The last item popped is the latest state.                               *)
LEMMA PopIsSound ==
    ASSUME NEW p \in Pipes, SoundPipe(p), p.items # << >>
    PROVE  /\ SoundPipe(Pop(p)) /\ SameButItems(p, Pop(p))
           /\ Pop(p).items = Tail(p.items)
           /\ Head(p.items) \in Items
           /\ Pop(p).items = << >> => Head(p.items) = Item(p.latest, p.epoch)
<1> DEFINE q == Pop(p)
<1>1. p.items \in Seq(Items) /\ Len(p.items) \in Nat \ {0}
  BY DEF Pipes
<1>2. /\ Tail(p.items) \in Seq(Items) /\ Len(Tail(p.items)) = Len(p.items) - 1
      /\ \A i \in 1 .. Len(p.items) - 1 : Tail(p.items)[i] = p.items[i + 1]
      /\ Head(p.items) = p.items[1] /\ Head(p.items) \in Items
  BY <1>1
<1>3. /\ q \in Pipes /\ SameButItems(p, q) /\ q.items = Tail(p.items)
  BY <1>2 DEF Pop, Pipes, SameButItems
<1> HIDE DEF q
<1>4. Len(q.items) = Len(p.items) - 1 /\ q.items \in Seq(Items)
  BY <1>2, <1>3
<1>5. Len(q.items) <= Capacity
  BY <1>1, <1>2, <1>3, PipeAssumption DEF SoundPipe
<1>6. q.items = << >> => Head(p.items) = Item(p.latest, p.epoch)
  <2> SUFFICES ASSUME q.items = << >> PROVE Head(p.items) = Item(p.latest, p.epoch)
    OBVIOUS
  <2>1. Len(q.items) = 0
    OBVIOUS
  <2>2. Len(p.items) = 1
    BY <1>1, <1>4, <2>1
  <2> QED
    BY <1>2, <2>2 DEF SoundPipe
<1>7. q.items # << >> => q.items[Len(q.items)] = Item(p.latest, p.epoch)
  <2> SUFFICES ASSUME q.items # << >>
               PROVE  q.items[Len(q.items)] = Item(p.latest, p.epoch)
    OBVIOUS
  <2>1. Len(q.items) # 0
    BY <1>4, EmptySeq
  <2>2. Len(q.items) \in 1 .. Len(p.items) - 1 /\ Len(q.items) + 1 = Len(p.items)
    BY <1>1, <1>4, <2>1
  <2>3. q.items[Len(q.items)] = p.items[Len(p.items)]
    BY <1>2, <1>3, <2>2
  <2> QED
    BY <2>3 DEF SoundPipe
<1>8. SoundPipe(q)
  BY <1>3, <1>5, <1>7 DEF SoundPipe, SameButItems
<1> QED
  BY <1>2, <1>3, <1>6, <1>8 DEF q

(* Acknowledging or taking a wake request changes nothing else.            *)
LEMMA WakeIsSound ==
    ASSUME NEW p \in Pipes, SoundPipe(p), NEW item
    PROVE  /\ SoundPipe(TakeWakeRequest(p)) /\ ~TakeWakeRequest(p).wakePending
           /\ SoundPipe(Acknowledge(p, item))
           /\ p.items = << >> /\ item = Item(p.latest, p.epoch)
                => ~Acknowledge(p, item).wakePending
           /\ Acknowledge(p, item).wakePending => p.wakePending
           /\ \A q \in {TakeWakeRequest(p), Acknowledge(p, item)} :
                /\ q.items = p.items /\ q.latest = p.latest
                /\ q.epoch = p.epoch /\ q.active = p.active
<1>1. /\ TakeWakeRequest(p) \in Pipes /\ ~TakeWakeRequest(p).wakePending
      /\ TakeWakeRequest(p).items = p.items /\ TakeWakeRequest(p).latest = p.latest
      /\ TakeWakeRequest(p).epoch = p.epoch /\ TakeWakeRequest(p).active = p.active
  BY DEF TakeWakeRequest, Pipes
<1>2. Acknowledge(p, item)
        = IF p.items = << >> /\ item = Item(p.latest, p.epoch)
          THEN TakeWakeRequest(p) ELSE p
  BY DEF Acknowledge, TakeWakeRequest
<1>3. SoundPipe(TakeWakeRequest(p))
  BY <1>1 DEF SoundPipe
<1> QED
  BY <1>1, <1>2, <1>3

=============================================================================
