------------------------- MODULE FeatherSource_proofs -------------------------
(***************************************************************************)
(* The safety of the Feather's keyboard side for every keyboard, depth of  *)
(* the queue between the cores and number of epochs, with an interrupt     *)
(* that preempts queue_event or not.                                       *)
(***************************************************************************)
EXTENDS FeatherSource, ReportPipeOps_proofs

\* The last event of these kinds in a queue, and a queue without any.
LastOf(queue, kinds, event) ==
    \E i \in 1 .. Len(queue) :
        /\ queue[i] = event /\ event.kind \in kinds
        /\ \A j \in 1 .. Len(queue) : j > i => queue[j].kind \notin kinds

NoneOf(queue, kinds) == \A i \in 1 .. Len(queue) : queue[i].kind \notin kinds

KeyKinds == {"RESET", "STATE"}

\* The kinds that make the status READY, or keep it from being READY.
ReadyKinds == {"READY", "WAITING", "ATTACHED"}

Told(event) == IF event.kind = "RESET" THEN Released ELSE event.state

-----------------------------------------------------------------------------
Between(queue, low, high) ==
    \A i \in 1 .. Len(queue) : low <= queue[i].epoch /\ queue[i].epoch <= high

Rising(queue) ==
    \A i, j \in 1 .. Len(queue) : i < j => queue[i].epoch <= queue[j].epoch

\* What is still to be queued is of the current source.
OrderInv ==
    /\ pipe.epoch <= sourceEpoch
    /\ Between(events, pipe.epoch, sourceEpoch) /\ Rising(events)
    /\ Between(task.calls, sourceEpoch, sourceEpoch)
    /\ Between(hook.calls, sourceEpoch, sourceEpoch)

\* What last tells the keys, if anything does, tells what the keyboard holds.
KeysInv ==
    lost \subseteq {"any"} =>
        \/ \E event : LastOf(task.calls, KeyKinds, event) /\ Told(event) = HeldKeys
        \/ /\ NoneOf(task.calls, KeyKinds)
           /\ \/ \E event : LastOf(events, KeyKinds, event) /\ Told(event) = HeldKeys
              \/ NoneOf(events, KeyKinds) /\ pipe.latest = HeldKeys

\* The status that comes out in the end is one of these.
EndsUp(kinds) ==
    \/ \E event : LastOf(task.calls, ReadyKinds, event) /\ event.kind \in kinds
    \/ /\ NoneOf(task.calls, ReadyKinds)
       /\ \/ \E event : LastOf(hook.calls, ReadyKinds, event) /\ event.kind \in kinds
          \/ /\ NoneOf(hook.calls, ReadyKinds)
             /\ \/ \E event : LastOf(events, ReadyKinds, event) /\ event.kind \in kinds
                \/ NoneOf(events, ReadyKinds) /\ hostStatus \in kinds

ReadyInv ==
    lost = {} =>
        /\ keyboardMounted /\ hubEvents = << >> => EndsUp({"READY"})
        /\ ~keyboardMounted => EndsUp(StatusKinds \ {"READY"})

\* The interrupt tells no keys.
HookInv == NoneOf(hook.calls, KeyKinds)

\* What TinyUSB is at with the device, and what the callbacks left behind.
DeviceInv == /\ device # "configured" => ~hostDeviceConfigured
             /\ keyboardMounted => device # "none"

IInv == /\ TypeOK /\ SoundPipe(pipe)
        /\ OrderInv /\ KeysInv /\ ReadyInv
        /\ HookInv /\ DeviceInv

-----------------------------------------------------------------------------
(* Events, and queues of them.                                             *)

(* An event is made of its kind, state and epoch.                          *)
LEMMA EventType ==
    ASSUME NEW kind \in EventKinds, NEW state \in KeyboardStates, NEW epoch \in Epochs
    PROVE  /\ SourceEvent(kind, state, epoch) \in SourceEvents
           /\ SourceEvent(kind, state, epoch).kind = kind
           /\ SourceEvent(kind, state, epoch).state = state
           /\ SourceEvent(kind, state, epoch).epoch = epoch
           /\ StatusEvent(kind, epoch) = SourceEvent(kind, Released, epoch)
           /\ StatusEvent(kind, epoch) \in SourceEvents
           /\ StatusEvent(kind, epoch).kind = kind
           /\ StatusEvent(kind, epoch).epoch = epoch
BY ReleasedIsState DEF SourceEvent, StatusEvent, SourceEvents

(* A context with nothing, one or two events to queue.                     *)
LEMMA CallsType ==
    ASSUME NEW first \in SourceEvents, NEW second \in SourceEvents
    PROVE  /\ Idle \in Contexts /\ Idle.calls = << >>
           /\ Calls(<<first>>) \in Contexts /\ Calls(<<first>>).calls = <<first>>
           /\ Calls(<<first, second>>) \in Contexts
           /\ Calls(<<first, second>>).calls = <<first, second>>
<1>1. /\ << >> \in Seq(SourceEvents) /\ <<first>> \in Seq(SourceEvents)
      /\ <<first, second>> \in Seq(SourceEvents)
  OBVIOUS
<1> QED
  BY <1>1 DEF Idle, Calls, Contexts

(* A context that is idle has nothing to queue.                            *)
LEMMA IdleHasNoCalls == Idle.calls = << >>
BY DEF Idle, Calls

(* An event queued last is the last of its kinds.                          *)
LEMMA AppendedIsLast ==
    ASSUME NEW queue \in Seq(SourceEvents), NEW event \in SourceEvents, NEW kinds
    PROVE  /\ event.kind \in kinds => LastOf(Append(queue, event), kinds, event)
           /\ event.kind \notin kinds =>
                /\ NoneOf(queue, kinds) => NoneOf(Append(queue, event), kinds)
                /\ \A last : LastOf(queue, kinds, last)
                               => LastOf(Append(queue, event), kinds, last)
<1>1. /\ Len(Append(queue, event)) = Len(queue) + 1 /\ Len(queue) \in Nat
      /\ Append(queue, event)[Len(queue) + 1] = event
      /\ \A i \in 1 .. Len(queue) : Append(queue, event)[i] = queue[i]
  BY AppendProperties
<1> DEFINE appended == Append(queue, event)
<1> HIDE DEF appended
<1>2. event.kind \in kinds => LastOf(appended, kinds, event)
  <2> SUFFICES ASSUME event.kind \in kinds PROVE LastOf(appended, kinds, event)
    OBVIOUS
  <2>1. /\ Len(queue) + 1 \in 1 .. Len(appended)
        /\ appended[Len(queue) + 1] = event
        /\ \A j \in 1 .. Len(appended) : ~(j > Len(queue) + 1)
    BY <1>1 DEF appended
  <2> QED
    BY <2>1 DEF LastOf
<1>3. event.kind \notin kinds /\ NoneOf(queue, kinds) => NoneOf(appended, kinds)
  BY <1>1 DEF NoneOf, appended
<1>4. ASSUME event.kind \notin kinds, NEW last, LastOf(queue, kinds, last)
      PROVE  LastOf(appended, kinds, last)
  <2>1. PICK i \in 1 .. Len(queue) :
           /\ queue[i] = last /\ last.kind \in kinds
           /\ \A j \in 1 .. Len(queue) : j > i => queue[j].kind \notin kinds
    BY <1>4 DEF LastOf
  <2>2. /\ i \in 1 .. Len(appended) /\ appended[i] = last
        /\ \A j \in 1 .. Len(appended) : j > i => appended[j].kind \notin kinds
    BY <1>1, <1>4, <2>1 DEF appended
  <2> QED
    BY <2>1, <2>2 DEF LastOf
<1> QED
  BY <1>2, <1>3, <1>4 DEF appended

(* Taking the first event leaves the last one, unless it was that one.     *)
LEMMA TailKeepsLast ==
    ASSUME NEW queue \in Seq(SourceEvents), queue # << >>, NEW kinds
    PROVE  /\ NoneOf(queue, kinds)
                => NoneOf(Tail(queue), kinds) /\ Head(queue).kind \notin kinds
           /\ \A last : LastOf(queue, kinds, last) =>
                \/ LastOf(Tail(queue), kinds, last)
                \/ /\ Head(queue) = last /\ last.kind \in kinds
                   /\ NoneOf(Tail(queue), kinds)
<1>1. /\ Len(queue) \in Nat \ {0} /\ Len(Tail(queue)) = Len(queue) - 1
      /\ Head(queue) = queue[1]
      /\ \A i \in 1 .. Len(Tail(queue)) : Tail(queue)[i] = queue[i + 1]
  BY HeadTailProperties, EmptySeq
<1> DEFINE tail == Tail(queue)
<1> HIDE DEF tail
<1>2. NoneOf(queue, kinds) => NoneOf(tail, kinds) /\ Head(queue).kind \notin kinds
  BY <1>1 DEF NoneOf, tail
<1>3. ASSUME NEW last, LastOf(queue, kinds, last)
      PROVE  \/ LastOf(tail, kinds, last)
             \/ /\ Head(queue) = last /\ last.kind \in kinds
                /\ NoneOf(tail, kinds)
  <2>1. PICK i \in 1 .. Len(queue) :
           /\ queue[i] = last /\ last.kind \in kinds
           /\ \A j \in 1 .. Len(queue) : j > i => queue[j].kind \notin kinds
    BY <1>3 DEF LastOf
  <2>2. CASE i = 1
    <3>1. NoneOf(tail, kinds)
      BY <1>1, <2>1, <2>2 DEF NoneOf, tail
    <3> QED
      BY <1>1, <2>1, <2>2, <3>1
  <2>3. CASE i # 1
    <3>1. /\ i - 1 \in 1 .. Len(tail) /\ tail[i - 1] = last
          /\ \A j \in 1 .. Len(tail) : j > i - 1 => tail[j].kind \notin kinds
      BY <1>1, <2>1, <2>3 DEF tail
    <3> QED
      BY <2>1, <3>1 DEF LastOf
  <2> QED
    BY <2>2, <2>3
<1> QED
  BY <1>2, <1>3 DEF tail

(* Short queues, read off.                                                 *)
LEMMA ShortQueues ==
    ASSUME NEW first \in SourceEvents, NEW second \in SourceEvents, NEW kinds
    PROVE  /\ NoneOf(<< >>, kinds) /\ ~\E last : LastOf(<< >>, kinds, last)
           /\ first.kind \in kinds => LastOf(<<first>>, kinds, first)
           /\ first.kind \notin kinds => NoneOf(<<first>>, kinds)
           /\ second.kind \in kinds => LastOf(<<first, second>>, kinds, second)
           /\ first.kind \in kinds /\ second.kind \notin kinds
                => LastOf(<<first, second>>, kinds, first)
<1>1. NoneOf(<< >>, kinds) /\ ~\E last : LastOf(<< >>, kinds, last)
  BY DEF NoneOf, LastOf
<1>2. /\ first.kind \in kinds => LastOf(<<first>>, kinds, first)
      /\ first.kind \notin kinds => NoneOf(<<first>>, kinds)
  BY DEF NoneOf, LastOf
<1>3. /\ second.kind \in kinds => LastOf(<<first, second>>, kinds, second)
      /\ first.kind \in kinds /\ second.kind \notin kinds
           => LastOf(<<first, second>>, kinds, first)
  <2> DEFINE pair == <<first, second>>
  <2>1. Len(pair) = 2 /\ pair[1] = first /\ pair[2] = second
    OBVIOUS
  <2> HIDE DEF pair
  <2>2. second.kind \in kinds => LastOf(pair, kinds, second)
    <3> SUFFICES ASSUME second.kind \in kinds PROVE LastOf(pair, kinds, second)
      OBVIOUS
    <3>1. 2 \in 1 .. Len(pair) /\ \A j \in 1 .. Len(pair) : ~(j > 2)
      BY <2>1
    <3> QED
      BY <2>1, <3>1 DEF LastOf
  <2>3. first.kind \in kinds /\ second.kind \notin kinds => LastOf(pair, kinds, first)
    <3> SUFFICES ASSUME first.kind \in kinds, second.kind \notin kinds
                 PROVE  LastOf(pair, kinds, first)
      OBVIOUS
    <3>1. 1 \in 1 .. Len(pair) /\ \A j \in 1 .. Len(pair) : j > 1 => j = 2
      BY <2>1
    <3> QED
      BY <2>1, <3>1 DEF LastOf
  <2> QED
    BY <2>2, <2>3 DEF pair
<1> QED
  BY <1>1, <1>2, <1>3

(* Epochs stay in order when the newest is queued or the oldest taken.     *)
LEMMA QueueStaysOrdered ==
    ASSUME NEW queue \in Seq(SourceEvents), NEW low \in Int, NEW high \in Int,
           low <= high, Between(queue, low, high), Rising(queue)
    PROVE  /\ \A event \in SourceEvents : event.epoch = high =>
                /\ Between(Append(queue, event), low, high)
                /\ Rising(Append(queue, event))
           /\ queue # << >> =>
                /\ low <= Head(queue).epoch /\ Head(queue).epoch <= high
                /\ Between(Tail(queue), low, high) /\ Rising(Tail(queue))
                /\ Between(Tail(queue), Head(queue).epoch, high)
<1> USE DEF Between, Rising
<1>1. ASSUME NEW event \in SourceEvents, event.epoch = high
      PROVE  /\ Between(Append(queue, event), low, high)
             /\ Rising(Append(queue, event))
  <2>1. /\ Len(Append(queue, event)) = Len(queue) + 1 /\ Len(queue) \in Nat
        /\ Append(queue, event)[Len(queue) + 1] = event
        /\ \A i \in 1 .. Len(queue) : Append(queue, event)[i] = queue[i]
    BY AppendProperties
  <2> DEFINE appended == Append(queue, event)
  <2> HIDE DEF appended
  <2>2. \A i \in 1 .. Len(appended) : i <= Len(queue) \/ i = Len(queue) + 1
    BY <2>1 DEF appended
  <2>3. Between(appended, low, high)
    BY <1>1, <2>1, <2>2 DEF appended
  <2>4. Rising(appended)
    BY <1>1, <2>1, <2>2, <2>3 DEF appended
  <2> QED
    BY <2>3, <2>4 DEF appended
<1>2. ASSUME queue # << >>
      PROVE  /\ low <= Head(queue).epoch /\ Head(queue).epoch <= high
             /\ Between(Tail(queue), low, high) /\ Rising(Tail(queue))
             /\ Between(Tail(queue), Head(queue).epoch, high)
  <2>1. /\ Len(queue) \in Nat \ {0} /\ Len(Tail(queue)) = Len(queue) - 1
        /\ Head(queue) = queue[1]
        /\ \A i \in 1 .. Len(Tail(queue)) : Tail(queue)[i] = queue[i + 1]
    BY <1>2, HeadTailProperties, EmptySeq
  <2> DEFINE tail == Tail(queue)
  <2> HIDE DEF tail
  <2>2. \A i \in 1 .. Len(tail) : i + 1 \in 1 .. Len(queue) /\ 1 < i + 1
    BY <2>1 DEF tail
  <2>3. Between(tail, low, high) /\ Between(tail, Head(queue).epoch, high)
    BY <2>1, <2>2 DEF tail
  <2>4. Rising(tail)
    BY <2>1, <2>2 DEF tail
  <2> QED
    BY <2>1, <2>3, <2>4 DEF tail
<1> QED
  BY <1>1, <1>2

-----------------------------------------------------------------------------
(* queue_event, from either context.                                       *)

\* What an operation on the queue makes of it, and of its caller.
Queueing(context, next) ==
    \/ /\ context.calls # << >>
       /\ events' = Append(events, Head(context.calls)) /\ lost' = lost
       /\ next.calls = Tail(context.calls)
    \/ /\ events # << >> /\ events' = Tail(events)
       /\ lost' = lost \cup LossOfOldest
       /\ next.calls = context.calls
    \/ /\ context.calls # << >> /\ events' = events /\ "newest" \in lost'
       /\ next.calls = Tail(context.calls)
    \/ /\ UNCHANGED queueVars /\ next.calls = context.calls

(* It keeps types and depth.                                               *)
LEMMA QueueingType ==
    ASSUME TypeOK, NEW context \in Contexts, NEW next, QueueEvent(context, next)
    PROVE  /\ Queueing(context, next) /\ next \in Contexts
           /\ events' \in Seq(SourceEvents) /\ Len(events') <= QueueDepth
           /\ lost' \subseteq {"any", "keys", "newest"}
<1>1. /\ events \in Seq(SourceEvents) /\ Len(events) <= QueueDepth
      /\ context.calls \in Seq(SourceEvents) /\ QueueDepth \in Nat \ {0}
      /\ lost \subseteq {"any", "keys", "newest"}
  BY SourceQueueAssumption DEF TypeOK, Contexts
<1>2. ASSUME context.calls # << >>
      PROVE  /\ Head(context.calls) \in SourceEvents
             /\ Finished(context) \in Contexts
             /\ Finished(context).calls = Tail(context.calls)
  <2>1. Head(context.calls) \in SourceEvents /\ Tail(context.calls) \in Seq(SourceEvents)
    BY <1>1, <1>2
  <2> QED
    BY <2>1 DEF Finished, Calls, Contexts
<1>3. ASSUME Len(events) # QueueDepth, NEW event \in SourceEvents
      PROVE  /\ Append(events, event) \in Seq(SourceEvents)
             /\ Len(Append(events, event)) <= QueueDepth
  BY <1>1, <1>3
<1>4. ASSUME NEW operation \in {"remove", "addAgain"},
             next = [context EXCEPT !.next = operation]
      PROVE  next \in Contexts /\ next.calls = context.calls
  BY <1>4 DEF Contexts
<1>5. CASE TryAdd(context) /\ next = Finished(context)
  BY <1>1, <1>2, <1>3, <1>5 DEF TryAdd, QueueIsFull, Queueing
<1>6. CASE AddIsRefused(context) /\ next = [context EXCEPT !.next = "remove"]
  BY <1>1, <1>4, <1>6 DEF AddIsRefused, Queueing, queueVars
<1>7. CASE TryRemove(context) /\ next = [context EXCEPT !.next = "addAgain"]
  <2>1. next \in Contexts /\ next.calls = context.calls
    BY <1>4, <1>7
  <2>2. CASE events = << >>
    BY <1>1, <1>7, <2>1, <2>2 DEF TryRemove, Queueing, queueVars
  <2>3. CASE events # << >>
    <3>1. events' = Tail(events) /\ lost' = lost \cup LossOfOldest
      BY <1>7, <2>3 DEF TryRemove
    <3>2. Tail(events) \in Seq(SourceEvents) /\ Len(Tail(events)) <= QueueDepth
      BY <1>1, <2>3, HeadTailProperties
    <3>3. LossOfOldest \subseteq {"any", "keys", "newest"}
      BY DEF LossOfOldest
    <3> QED
      BY <1>1, <2>1, <2>3, <3>1, <3>2, <3>3 DEF Queueing
  <2> QED
    BY <2>2, <2>3
<1>8. CASE TryAddAgain(context) /\ next = Finished(context)
  <2>1. CASE Len(events) = QueueDepth
    BY <1>1, <1>2, <1>8, <2>1 DEF TryAddAgain, QueueIsFull, Queueing
  <2>2. CASE Len(events) # QueueDepth
    BY <1>1, <1>2, <1>3, <1>8, <2>2 DEF TryAddAgain, QueueIsFull, Queueing
  <2> QED
    BY <2>1, <2>2
<1> QED
  BY <1>5, <1>6, <1>7, <1>8 DEF QueueEvent

(* It keeps the order of epochs.                                           *)
LEMMA QueueingOrder ==
    ASSUME TypeOK, OrderInv, NEW context \in Contexts, NEW next,
           Between(context.calls, sourceEpoch, sourceEpoch),
           Queueing(context, next)
    PROVE  /\ Between(events', pipe.epoch, sourceEpoch) /\ Rising(events')
           /\ Between(next.calls, sourceEpoch, sourceEpoch)
<1>1. /\ events \in Seq(SourceEvents) /\ context.calls \in Seq(SourceEvents)
      /\ pipe.epoch \in Int /\ sourceEpoch \in Int /\ pipe.epoch <= sourceEpoch
      /\ Between(events, pipe.epoch, sourceEpoch) /\ Rising(events)
  BY PipeAssumption DEF TypeOK, OrderInv, Contexts, Pipes, Epochs
<1>2. Rising(context.calls)
  <2>1. \A i \in 1 .. Len(context.calls) :
          /\ context.calls[i].epoch \in Int
          /\ sourceEpoch <= context.calls[i].epoch
          /\ context.calls[i].epoch <= sourceEpoch
    <3> TAKE i \in 1 .. Len(context.calls)
    <3>1. context.calls[i] \in SourceEvents
      BY <1>1
    <3>2. context.calls[i].epoch \in Int
      BY <3>1, PipeAssumption DEF SourceEvents, Epochs
    <3> QED
      BY <3>2 DEF Between
  <2> QED
    BY <1>1, <2>1 DEF Rising
<1>3. ASSUME context.calls # << >>
      PROVE  /\ Head(context.calls) \in SourceEvents
             /\ Head(context.calls).epoch = sourceEpoch
             /\ Between(Tail(context.calls), sourceEpoch, sourceEpoch)
  <2>1. Head(context.calls) \in SourceEvents
    BY <1>1, <1>3
  <2>2. Head(context.calls).epoch \in Int
    BY <2>1, PipeAssumption DEF SourceEvents, Epochs
  <2>3. /\ sourceEpoch <= Head(context.calls).epoch
        /\ Head(context.calls).epoch <= sourceEpoch
        /\ Between(Tail(context.calls), sourceEpoch, sourceEpoch)
    BY <1>1, <1>2, <1>3, QueueStaysOrdered
  <2> QED
    BY <1>1, <2>1, <2>2, <2>3
<1>4. CASE /\ context.calls # << >> /\ events' = Append(events, Head(context.calls))
           /\ next.calls = Tail(context.calls)
  BY <1>1, <1>3, <1>4, QueueStaysOrdered
<1>5. CASE events # << >> /\ events' = Tail(events) /\ next.calls = context.calls
  BY <1>1, <1>5, QueueStaysOrdered
<1>6. CASE context.calls # << >> /\ events' = events /\ next.calls = Tail(context.calls)
  BY <1>1, <1>3, <1>6
<1>7. CASE events' = events /\ next.calls = context.calls
  BY <1>1, <1>7
<1> QED
  BY <1>4, <1>5, <1>6, <1>7 DEF Queueing, queueVars

(* Only an event that a later one replaces is discarded, where nothing     *)
(* but outdated events is lost.                                            *)
LEMMA OldestIsOutdated ==
    ASSUME TypeOK, events # << >>, LossOfOldest \subseteq {"any"},
           Head(events).kind \in KeyKinds
    PROVE  ~(NoneOf(Tail(events), KeyKinds) /\ NoneOf(task.calls, KeyKinds))
<1> DEFINE later == Tail(events) \o task.calls
<1>1. /\ Tail(events) \in Seq(SourceEvents) /\ task.calls \in Seq(SourceEvents)
  BY HeadTailProperties DEF TypeOK, Contexts
<1>2. PICK i \in 1 .. Len(later) : TellsKeys(later[i])
  <2>1. TellsKeys(Head(events))
    BY DEF TellsKeys, KeyKinds
  <2> HIDE DEF later
  <2>2. LossOfOldest = {"any"} \cup
          (IF TellsKeys(Head(events)) /\ ~\E i \in 1 .. Len(later) : TellsKeys(later[i])
           THEN {"keys"} ELSE {})
    BY DEF LossOfOldest, later
  <2> QED
    BY <2>1, <2>2
<1>3. /\ Len(Tail(events)) \in Nat /\ Len(task.calls) \in Nat
      /\ Len(later) = Len(Tail(events)) + Len(task.calls)
      /\ later[i] = IF i <= Len(Tail(events)) THEN Tail(events)[i]
                    ELSE task.calls[i - Len(Tail(events))]
  BY <1>1, ConcatProperties
<1>4. CASE i <= Len(Tail(events))
  <2>1. i \in 1 .. Len(Tail(events)) /\ Tail(events)[i].kind \in KeyKinds
    BY <1>2, <1>3, <1>4 DEF TellsKeys, KeyKinds
  <2> QED
    BY <2>1 DEF NoneOf
<1>5. CASE ~(i <= Len(Tail(events)))
  <2>1. /\ i - Len(Tail(events)) \in 1 .. Len(task.calls)
        /\ task.calls[i - Len(Tail(events))].kind \in KeyKinds
    BY <1>2, <1>3, <1>5 DEF TellsKeys, KeyKinds
  <2> QED
    BY <2>1 DEF NoneOf
<1> QED
  BY <1>4, <1>5

(* The last word of the keys is kept when the callback queues its events.  *)
LEMMA TaskQueueingKeys ==
    ASSUME TypeOK, KeysInv, Queueing(task, task'), UNCHANGED <<lastHostState, pipe>>
    PROVE  KeysInv'
<1> SUFFICES ASSUME lost' \subseteq {"any"} PROVE KeysInv'
  BY DEF KeysInv
<1>1. events \in Seq(SourceEvents) /\ task.calls \in Seq(SourceEvents)
  BY DEF TypeOK, Contexts
<1>2. HeldKeys' = HeldKeys
  BY DEF HeldKeys
<1>3. CASE /\ task.calls # << >>
           /\ events' = Append(events, Head(task.calls)) /\ lost' = lost
           /\ task'.calls = Tail(task.calls)
  <2>1. Head(task.calls) \in SourceEvents
    BY <1>1, <1>3
  <2>2. CASE \E event : LastOf(task.calls, KeyKinds, event) /\ Told(event) = HeldKeys
    <3>1. PICK event : LastOf(task.calls, KeyKinds, event) /\ Told(event) = HeldKeys
      BY <2>2
    <3>2. \/ LastOf(task'.calls, KeyKinds, event)
          \/ /\ Head(task.calls) = event /\ event.kind \in KeyKinds
             /\ NoneOf(task'.calls, KeyKinds)
      BY <1>1, <1>3, <3>1, TailKeepsLast
    <3>3. event.kind \in KeyKinds /\ Head(task.calls) = event
            => LastOf(events', KeyKinds, event)
      BY <1>1, <1>3, <2>1, AppendedIsLast
    <3> QED
      BY <1>2, <3>1, <3>2, <3>3 DEF KeysInv
  <2>3. CASE NoneOf(task.calls, KeyKinds)
    <3>1. NoneOf(task'.calls, KeyKinds) /\ Head(task.calls).kind \notin KeyKinds
      BY <1>1, <1>3, <2>3, TailKeepsLast
    <3>2. /\ NoneOf(events, KeyKinds) => NoneOf(events', KeyKinds)
          /\ \A last : LastOf(events, KeyKinds, last) => LastOf(events', KeyKinds, last)
      BY <1>1, <1>3, <2>1, <3>1, AppendedIsLast
    <3>3. ~\E event : LastOf(task.calls, KeyKinds, event)
      BY <2>3 DEF NoneOf, LastOf
    <3> QED
      BY <1>2, <1>3, <3>1, <3>2, <3>3 DEF KeysInv
  <2> QED
    BY <1>3, <2>2, <2>3 DEF KeysInv
<1>4. CASE /\ events # << >> /\ events' = Tail(events)
           /\ lost' = lost \cup LossOfOldest
           /\ task'.calls = task.calls
  <2>1. lost \subseteq {"any"} /\ LossOfOldest \subseteq {"any"}
    BY <1>4
  <2>2. CASE \E event : LastOf(task.calls, KeyKinds, event) /\ Told(event) = HeldKeys
    BY <1>2, <1>4, <2>2 DEF KeysInv
  <2>3. CASE /\ NoneOf(task.calls, KeyKinds)
             /\ \E event : LastOf(events, KeyKinds, event) /\ Told(event) = HeldKeys
    <3>1. PICK event : LastOf(events, KeyKinds, event) /\ Told(event) = HeldKeys
      BY <2>3
    <3>2. LastOf(events', KeyKinds, event)
      BY <1>1, <1>4, <2>1, <2>3, <3>1, TailKeepsLast, OldestIsOutdated
    <3> QED
      BY <1>2, <1>4, <2>3, <3>1, <3>2 DEF KeysInv
  <2>4. CASE /\ NoneOf(task.calls, KeyKinds)
             /\ NoneOf(events, KeyKinds) /\ pipe.latest = HeldKeys
    <3>1. NoneOf(events', KeyKinds)
      BY <1>1, <1>4, <2>4, TailKeepsLast
    <3> QED
      BY <1>2, <1>4, <2>4, <3>1 DEF KeysInv
  <2> QED
    BY <2>1, <2>2, <2>3, <2>4 DEF KeysInv
<1>5. CASE "newest" \in lost'
  BY <1>5
<1>6. CASE UNCHANGED queueVars /\ task'.calls = task.calls
  BY <1>2, <1>6 DEF KeysInv, queueVars
<1> QED
  BY <1>3, <1>4, <1>5, <1>6 DEF Queueing

(* And when the interrupt does.                                            *)
LEMMA HookQueueingKeys ==
    ASSUME TypeOK, KeysInv, HookInv, Queueing(hook, hook'),
           UNCHANGED <<task, lastHostState, pipe>>
    PROVE  KeysInv' /\ HookInv'
<1>1. /\ events \in Seq(SourceEvents) /\ hook.calls \in Seq(SourceEvents)
      /\ task.calls \in Seq(SourceEvents)
  BY DEF TypeOK, Contexts
<1>2. HeldKeys' = HeldKeys
  BY DEF HeldKeys
<1>3. ASSUME hook.calls # << >>
      PROVE  /\ Head(hook.calls) \in SourceEvents
             /\ Head(hook.calls).kind \notin KeyKinds
             /\ NoneOf(Tail(hook.calls), KeyKinds)
  <2>1. Head(hook.calls) \in SourceEvents
    BY <1>1, <1>3
  <2> QED
    BY <1>1, <1>3, <2>1, TailKeepsLast DEF HookInv
<1>4. HookInv'
  BY <1>3 DEF Queueing, HookInv
<1>5. KeysInv'
  <2> SUFFICES ASSUME lost' \subseteq {"any"} PROVE KeysInv'
    BY DEF KeysInv
  <2>1. CASE /\ hook.calls # << >>
             /\ events' = Append(events, Head(hook.calls)) /\ lost' = lost
    <3>1. /\ NoneOf(events, KeyKinds) => NoneOf(events', KeyKinds)
          /\ \A last : LastOf(events, KeyKinds, last) => LastOf(events', KeyKinds, last)
      BY <1>1, <1>3, <2>1, AppendedIsLast
    <3> QED
      BY <1>2, <2>1, <3>1 DEF KeysInv
  <2>2. CASE /\ events # << >> /\ events' = Tail(events)
             /\ lost' = lost \cup LossOfOldest
    <3>1. lost \subseteq {"any"} /\ LossOfOldest \subseteq {"any"}
      BY <2>2
    <3>2. NoneOf(events, KeyKinds) => NoneOf(events', KeyKinds)
      BY <1>1, <2>2, TailKeepsLast
    <3>3. ASSUME NEW last, LastOf(events, KeyKinds, last), NoneOf(task.calls, KeyKinds)
          PROVE  LastOf(events', KeyKinds, last)
      BY <1>1, <2>2, <3>1, <3>3, TailKeepsLast, OldestIsOutdated
    <3> QED
      BY <1>2, <3>1, <3>2, <3>3 DEF KeysInv
  <2>3. CASE "newest" \in lost'
    BY <2>3
  <2>4. CASE UNCHANGED queueVars
    BY <1>2, <2>4 DEF KeysInv, queueVars
  <2> QED
    BY <2>1, <2>2, <2>3, <2>4 DEF Queueing
<1> QED
  BY <1>4, <1>5

(* The status that comes out is kept, unless an event is lost.             *)
LEMMA QueueingReady ==
    ASSUME TypeOK, NEW kinds, EndsUp(kinds), lost' = {}, UNCHANGED hostStatus,
           \/ Queueing(task, task') /\ hook.calls = << >> /\ hook' = hook
           \/ Queueing(hook, hook') /\ task' = task
    PROVE  EndsUp(kinds)'
<1>1. /\ events \in Seq(SourceEvents) /\ hook.calls \in Seq(SourceEvents)
      /\ task.calls \in Seq(SourceEvents)
  BY DEF TypeOK, Contexts
<1>2. CASE UNCHANGED queueVars /\ task'.calls = task.calls /\ hook'.calls = hook.calls
  BY <1>2 DEF EndsUp, queueVars
<1>3. CASE /\ task.calls # << >> /\ events' = Append(events, Head(task.calls))
           /\ task'.calls = Tail(task.calls)
           /\ hook.calls = << >> /\ hook' = hook
  <2>1. /\ task.calls # << >> /\ events' = Append(events, Head(task.calls))
        /\ task'.calls = Tail(task.calls)
    BY <1>3
  <2>2. Head(task.calls) \in SourceEvents
    BY <1>1, <2>1
  <2>3. NoneOf(hook'.calls, ReadyKinds) /\ ~\E last : LastOf(hook.calls, ReadyKinds, last)
    BY <1>3 DEF NoneOf, LastOf
  <2>4. CASE \E event : LastOf(task.calls, ReadyKinds, event) /\ event.kind \in kinds
    <3>1. PICK event : LastOf(task.calls, ReadyKinds, event) /\ event.kind \in kinds
      BY <2>4
    <3>2. \/ LastOf(task'.calls, ReadyKinds, event)
          \/ /\ Head(task.calls) = event /\ event.kind \in ReadyKinds
             /\ NoneOf(task'.calls, ReadyKinds)
      <4>1. \A last : LastOf(task.calls, ReadyKinds, last) =>
              \/ LastOf(Tail(task.calls), ReadyKinds, last)
              \/ /\ Head(task.calls) = last /\ last.kind \in ReadyKinds
                 /\ NoneOf(Tail(task.calls), ReadyKinds)
        BY <1>1, <2>1, TailKeepsLast
      <4> QED
        BY <2>1, <3>1, <4>1
    <3>3. event.kind \in ReadyKinds /\ Head(task.calls) = event
            => LastOf(events', ReadyKinds, event)
      BY <1>1, <2>1, <2>2, AppendedIsLast
    <3> QED
      BY <2>3, <3>1, <3>2, <3>3 DEF EndsUp
  <2>5. CASE NoneOf(task.calls, ReadyKinds)
    <3>1. NoneOf(task'.calls, ReadyKinds) /\ Head(task.calls).kind \notin ReadyKinds
      BY <1>1, <2>1, <2>5, TailKeepsLast
    <3>2. /\ NoneOf(events, ReadyKinds) => NoneOf(events', ReadyKinds)
          /\ \A last : LastOf(events, ReadyKinds, last) => LastOf(events', ReadyKinds, last)
      BY <1>1, <2>1, <2>2, <3>1, AppendedIsLast
    <3>3. ~\E event : LastOf(task.calls, ReadyKinds, event)
      BY <2>5 DEF NoneOf, LastOf
    <3> QED
      BY <2>3, <3>1, <3>2, <3>3 DEF EndsUp
  <2> QED
    BY <2>4, <2>5 DEF EndsUp
<1>4. CASE /\ hook.calls # << >> /\ events' = Append(events, Head(hook.calls))
           /\ hook'.calls = Tail(hook.calls) /\ task' = task
  <2>1. /\ hook.calls # << >> /\ events' = Append(events, Head(hook.calls))
        /\ hook'.calls = Tail(hook.calls)
    BY <1>4
  <2>2. Head(hook.calls) \in SourceEvents
    BY <1>1, <2>1
  <2>3. CASE \E event : LastOf(task.calls, ReadyKinds, event) /\ event.kind \in kinds
    BY <1>4, <2>3 DEF EndsUp
  <2>4. CASE /\ NoneOf(task.calls, ReadyKinds)
             /\ \E event : LastOf(hook.calls, ReadyKinds, event) /\ event.kind \in kinds
    <3>1. PICK event : LastOf(hook.calls, ReadyKinds, event) /\ event.kind \in kinds
      BY <2>4
    <3>2. \/ LastOf(hook'.calls, ReadyKinds, event)
          \/ /\ Head(hook.calls) = event /\ event.kind \in ReadyKinds
             /\ NoneOf(hook'.calls, ReadyKinds)
      <4>1. \A last : LastOf(hook.calls, ReadyKinds, last) =>
              \/ LastOf(Tail(hook.calls), ReadyKinds, last)
              \/ /\ Head(hook.calls) = last /\ last.kind \in ReadyKinds
                 /\ NoneOf(Tail(hook.calls), ReadyKinds)
        BY <1>1, <2>1, TailKeepsLast
      <4> QED
        BY <2>1, <3>1, <4>1
    <3>3. event.kind \in ReadyKinds /\ Head(hook.calls) = event
            => LastOf(events', ReadyKinds, event)
      BY <1>1, <2>1, <2>2, AppendedIsLast
    <3> QED
      BY <1>4, <2>4, <3>1, <3>2, <3>3 DEF EndsUp
  <2>5. CASE NoneOf(task.calls, ReadyKinds) /\ NoneOf(hook.calls, ReadyKinds)
    <3>1. NoneOf(hook'.calls, ReadyKinds) /\ Head(hook.calls).kind \notin ReadyKinds
      BY <1>1, <2>1, <2>5, TailKeepsLast
    <3>2. /\ NoneOf(events, ReadyKinds) => NoneOf(events', ReadyKinds)
          /\ \A last : LastOf(events, ReadyKinds, last) => LastOf(events', ReadyKinds, last)
      BY <1>1, <2>1, <2>2, <3>1, AppendedIsLast
    <3>3. /\ ~\E event : LastOf(task.calls, ReadyKinds, event)
          /\ ~\E event : LastOf(hook.calls, ReadyKinds, event)
      BY <2>5 DEF NoneOf, LastOf
    <3> QED
      BY <1>4, <2>5, <3>1, <3>2, <3>3 DEF EndsUp
  <2> QED
    BY <2>3, <2>4, <2>5 DEF EndsUp
<1>5. "any" \in LossOfOldest
  BY DEF LossOfOldest
<1> QED
  BY <1>2, <1>3, <1>4, <1>5 DEF Queueing

-----------------------------------------------------------------------------
(* The invariant holds at first and is kept by every step.                 *)

(* A bridge that has just booted.                                          *)
LEMMA InitIInv == Init => IInv
<1> SUFFICES ASSUME Init PROVE IInv
  OBVIOUS
<1>1. SoundPipe(pipe) /\ pipe.epoch = 0 /\ pipe.latest = Released
  <2>1. << >> \in Seq(Items) /\ Len(<< >>) = 0
    BY EmptySeq
  <2> QED
    BY <2>1, ReleasedIsState, PipeAssumption DEF Init, InitialPipe, SoundPipe, Pipes
<1>2. TypeOK
  <2>1. /\ << >> \in Seq(SourceEvents) /\ << >> \in Seq({"attach", "remove"})
        /\ << >> \in Seq(KeyboardStates) /\ Len(<< >>) = 0
    BY EmptySeq
  <2>2. {task, hook} \subseteq Contexts
    BY <2>1 DEF Init, Idle, Calls, Contexts
  <2>3. events \in Seq(SourceEvents) /\ Len(events) <= QueueDepth
    BY <2>1, SourceQueueAssumption DEF Init
  <2>4. lastHostState \in Seq(KeyboardStates) /\ Len(lastHostState) <= 1
    BY <2>1 DEF Init
  <2>5. hubEvents \in Seq({"attach", "remove"}) /\ Len(hubEvents) <= MaxHubEvents
    BY <2>1, SourceQueueAssumption DEF Init
  <2>6. {keyboardMounted, hostDeviceConfigured, claimed, armed, attached}
          \subseteq BOOLEAN
    BY DEF Init
  <2>7. sourceEpoch \in Epochs /\ interfaces \in 0 .. MaxInterfaces
    BY ReleasedIsState, SourceQueueAssumption DEF Init
  <2>8. /\ hostStatus \in StatusKinds /\ pipe \in Pipes
        /\ stage \in {"none", "setIdle", "setProtocol", "configured"}
        /\ device \in {"none", "opening", "configuring", "mounting", "configured"}
        /\ lost \subseteq {"any", "keys", "newest"}
    BY <1>1 DEF Init, StatusKinds, SoundPipe
  <2> QED
    BY <2>2, <2>3, <2>4, <2>5, <2>6, <2>7, <2>8 DEF TypeOK
<1>3. task.calls = << >> /\ hook.calls = << >> /\ events = << >>
  BY DEF Init, Idle, Calls
<1>4. \A kinds : NoneOf(<< >>, kinds)
  BY DEF NoneOf
<1>5. OrderInv
  BY <1>1, <1>3 DEF Init, OrderInv, Between, Rising
<1>6. KeysInv /\ HookInv
  BY <1>1, <1>3, <1>4 DEF Init, KeysInv, HookInv, HeldKeys
<1>7. ReadyInv
  BY <1>3, <1>4 DEF Init, ReadyInv, EndsUp, StatusKinds
<1>8. DeviceInv
  BY DEF Init, DeviceInv
<1> QED
  BY <1>1, <1>2, <1>5, <1>6, <1>7, <1>8 DEF IInv

(* An operation of queue_event.                                            *)
LEMMA QueueStep ==
    ASSUME IInv, TaskQueues \/ HookQueues
    PROVE  IInv'
<1> USE DEF IInv
<1>1. /\ UNCHANGED <<coreOneVars, coreZeroVars, driverVars, deviceVars>>
      /\ task \in Contexts /\ hook \in Contexts
  BY DEF TaskQueues, HookQueues, TypeOK
<1>2. SoundPipe(pipe)' /\ DeviceInv' /\ HeldKeys' = HeldKeys
  BY <1>1 DEF coreOneVars, coreZeroVars, deviceVars, DeviceInv, HeldKeys
<1>3. CASE TaskQueues
  <2>1. /\ Queueing(task, task') /\ task' \in Contexts
        /\ events' \in Seq(SourceEvents) /\ Len(events') <= QueueDepth
        /\ lost' \subseteq {"any", "keys", "newest"}
    BY <1>1, <1>3, QueueingType DEF TaskQueues
  <2>2. hook' = hook /\ hook.calls = << >>
    BY <1>3, IdleHasNoCalls DEF TaskQueues
  <2>3. TypeOK'
    BY <1>1, <2>1, <2>2
       DEF TypeOK, coreOneVars, coreZeroVars, driverVars, deviceVars
  <2>4. OrderInv'
    <3>1. /\ Between(events', pipe.epoch, sourceEpoch) /\ Rising(events')
          /\ Between(task'.calls, sourceEpoch, sourceEpoch)
      BY <1>1, <2>1, QueueingOrder DEF OrderInv
    <3> QED
      BY <1>1, <2>2, <3>1 DEF OrderInv, coreOneVars, coreZeroVars
  <2>5. KeysInv' /\ HookInv'
    BY <1>1, <2>1, <2>2, TaskQueueingKeys DEF HookInv, coreOneVars, coreZeroVars
  <2>6. ReadyInv'
    <3> SUFFICES ASSUME lost' = {} PROVE ReadyInv'
      BY DEF ReadyInv
    <3>1. lost = {}
      BY <2>1 DEF Queueing, queueVars
    <3>2. \A kinds : EndsUp(kinds) => EndsUp(kinds)'
      BY <1>1, <2>1, <2>2, QueueingReady DEF coreZeroVars
    <3> QED
      BY <1>1, <3>1, <3>2 DEF ReadyInv, coreOneVars, deviceVars
  <2> QED
    BY <1>2, <2>3, <2>4, <2>5, <2>6
<1>4. CASE HookQueues
  <2>1. /\ Queueing(hook, hook') /\ hook' \in Contexts
        /\ events' \in Seq(SourceEvents) /\ Len(events') <= QueueDepth
        /\ lost' \subseteq {"any", "keys", "newest"}
    BY <1>1, <1>4, QueueingType DEF HookQueues
  <2>2. task' = task
    BY <1>4 DEF HookQueues
  <2>3. TypeOK'
    BY <1>1, <2>1, <2>2
       DEF TypeOK, coreOneVars, coreZeroVars, driverVars, deviceVars
  <2>4. OrderInv'
    <3>1. /\ Between(events', pipe.epoch, sourceEpoch) /\ Rising(events')
          /\ Between(hook'.calls, sourceEpoch, sourceEpoch)
      BY <1>1, <2>1, QueueingOrder DEF OrderInv
    <3> QED
      BY <1>1, <2>2, <3>1 DEF OrderInv, coreOneVars, coreZeroVars
  <2>5. KeysInv' /\ HookInv'
    BY <1>1, <2>1, <2>2, HookQueueingKeys DEF coreOneVars, coreZeroVars
  <2>6. ReadyInv'
    <3> SUFFICES ASSUME lost' = {} PROVE ReadyInv'
      BY DEF ReadyInv
    <3>1. lost = {}
      BY <2>1 DEF Queueing, queueVars
    <3>2. \A kinds : EndsUp(kinds) => EndsUp(kinds)'
      BY <1>1, <2>1, <2>2, QueueingReady DEF coreZeroVars
    <3> QED
      BY <1>1, <3>1, <3>2 DEF ReadyInv, coreOneVars, deviceVars
  <2> QED
    BY <1>2, <2>3, <2>4, <2>5, <2>6
<1> QED
  BY <1>3, <1>4

(* What core 0 makes of the event it takes.                                *)
LEMMA EventReachesPipe ==
    ASSUME TypeOK, SoundPipe(pipe), OrderInv, events # << >>
    PROVE  /\ Head(events) \in SourceEvents
           /\ SoundPipe(PipeAfter(Head(events)))
           /\ Head(events).kind \in KeyKinds =>
                /\ PipeAfter(Head(events)).latest = Told(Head(events))
                /\ PipeAfter(Head(events)).epoch = Head(events).epoch
           /\ Head(events).kind \notin KeyKinds => PipeAfter(Head(events)) = pipe
           /\ pipe.epoch <= Head(events).epoch /\ Head(events).epoch <= sourceEpoch
           /\ Between(Tail(events), pipe.epoch, sourceEpoch)
           /\ Between(Tail(events), Head(events).epoch, sourceEpoch)
           /\ Rising(Tail(events))
<1> DEFINE event == Head(events)
<1>1. /\ events \in Seq(SourceEvents) /\ pipe \in Pipes
      /\ pipe.epoch \in Int /\ sourceEpoch \in Int
  BY PipeAssumption DEF TypeOK, Pipes, Epochs
<1>2. event \in SourceEvents
  BY <1>1
<1>3. /\ pipe.epoch <= event.epoch /\ event.epoch <= sourceEpoch
      /\ Between(Tail(events), pipe.epoch, sourceEpoch)
      /\ Between(Tail(events), event.epoch, sourceEpoch)
      /\ Rising(Tail(events))
  BY <1>1, QueueStaysOrdered DEF OrderInv
<1> HIDE DEF event
<1>4. event.epoch \in Epochs /\ event.state \in KeyboardStates /\ event.epoch \in Int
  BY <1>2, PipeAssumption DEF SourceEvents, Epochs
<1>5. CASE event.kind = "RESET"
  <2>1. PipeAfter(event) = SourceReset(pipe, event.epoch)
    BY <1>5 DEF PipeAfter
  <2>2. PipeAfter(event) = BeginEpoch(pipe, event.epoch)
    BY <1>1, <1>3, <1>4, <2>1 DEF SourceReset
  <2>3. LET q == BeginEpoch(pipe, event.epoch) IN
        SoundPipe(q) /\ q.latest = Released /\ q.epoch = event.epoch
    BY <1>1, <1>4, BeginEpochIsSound
  <2> QED
    BY <1>2, <1>3, <1>5, <2>2, <2>3 DEF Told, KeyKinds, event
<1>6. CASE event.kind = "STATE"
  <2>1. PipeAfter(event) = Publish(pipe, event.state, event.epoch)
    BY <1>6 DEF PipeAfter
  <2>2. LET q == Publish(pipe, event.state, event.epoch) IN
        SoundPipe(q) /\ q.latest = event.state /\ q.epoch = event.epoch
    BY <1>1, <1>3, <1>4, PublishIsSound
  <2> QED
    BY <1>2, <1>3, <1>6, <2>1, <2>2 DEF Told, KeyKinds, event
<1>7. CASE event.kind \notin KeyKinds
  <2>1. PipeAfter(event) = pipe
    BY <1>7 DEF PipeAfter, KeyKinds
  <2> QED
    BY <1>2, <1>3, <1>7, <2>1 DEF event
<1> QED
  BY <1>5, <1>6, <1>7 DEF KeyKinds

(* Core 0 takes an event.                                                  *)
LEMMA TakeStep ==
    ASSUME IInv, UsbHostKeyboardTask
    PROVE  IInv'
<1> USE DEF IInv
<1>1. /\ events # << >> /\ events' = Tail(events)
      /\ pipe' = PipeAfter(Head(events)) /\ hostStatus' = StatusAfter(Head(events))
      /\ UNCHANGED <<contextVars, lost, coreOneVars, driverVars, deviceVars>>
  BY DEF UsbHostKeyboardTask
<1> USE DEF contextVars, coreOneVars, driverVars, deviceVars
<1>2. /\ Head(events) \in SourceEvents /\ SoundPipe(pipe')
      /\ Head(events).kind \in KeyKinds =>
           /\ pipe'.latest = Told(Head(events)) /\ pipe'.epoch = Head(events).epoch
      /\ Head(events).kind \notin KeyKinds => pipe' = pipe
      /\ pipe.epoch <= Head(events).epoch /\ Head(events).epoch <= sourceEpoch
      /\ Between(events', pipe.epoch, sourceEpoch)
      /\ Between(events', Head(events).epoch, sourceEpoch)
      /\ Rising(events')
  BY <1>1, EventReachesPipe
<1>3. /\ events \in Seq(SourceEvents) /\ events' \in Seq(SourceEvents)
      /\ Len(events') <= QueueDepth
  BY <1>1, HeadTailProperties, SourceQueueAssumption DEF TypeOK
<1>4. TypeOK'
  <2>1. pipe' \in Pipes
    BY <1>2 DEF SoundPipe
  <2>2. hostStatus' \in StatusKinds
    BY <1>1 DEF StatusAfter, TypeOK
  <2> QED
    BY <1>1, <1>3, <2>1, <2>2 DEF TypeOK
<1>5. OrderInv'
  BY <1>1, <1>2 DEF OrderInv
<1>6. KeysInv'
  <2> SUFFICES ASSUME lost \subseteq {"any"} PROVE KeysInv'
    BY <1>1 DEF KeysInv
  <2>1. HeldKeys' = HeldKeys
    BY <1>1 DEF HeldKeys
  <2>2. CASE \E event : LastOf(task.calls, KeyKinds, event) /\ Told(event) = HeldKeys
    BY <1>1, <2>1, <2>2 DEF KeysInv
  <2>3. CASE /\ NoneOf(task.calls, KeyKinds)
             /\ \E event : LastOf(events, KeyKinds, event) /\ Told(event) = HeldKeys
    <3>1. PICK event : LastOf(events, KeyKinds, event) /\ Told(event) = HeldKeys
      BY <2>3
    <3>2. \/ LastOf(events', KeyKinds, event)
          \/ /\ Head(events) = event /\ event.kind \in KeyKinds
             /\ NoneOf(events', KeyKinds)
      BY <1>1, <1>3, <3>1, TailKeepsLast
    <3> QED
      BY <1>1, <1>2, <2>1, <2>3, <3>1, <3>2 DEF KeysInv
  <2>4. CASE /\ NoneOf(task.calls, KeyKinds)
             /\ NoneOf(events, KeyKinds) /\ pipe.latest = HeldKeys
    <3>1. NoneOf(events', KeyKinds) /\ Head(events).kind \notin KeyKinds
      BY <1>1, <1>3, <2>4, TailKeepsLast
    <3> QED
      BY <1>1, <1>2, <2>1, <2>4, <3>1 DEF KeysInv
  <2> QED
    BY <2>2, <2>3, <2>4 DEF KeysInv
<1>7. ReadyInv'
  <2>1. ASSUME NEW kinds, EndsUp(kinds),
               kinds \in {{"READY"}, StatusKinds \ {"READY"}}
        PROVE  EndsUp(kinds)'
    <3>1. /\ (hostStatus \in kinds /\ Head(events).kind \notin ReadyKinds)
                => hostStatus' \in kinds
          /\ (Head(events).kind \in kinds /\ Head(events).kind \in ReadyKinds)
                => hostStatus' \in kinds
      <4>1. hostStatus' = StatusAfter(Head(events))
        BY <1>1
      <4>2. CASE kinds = {"READY"}
        BY <4>1, <4>2 DEF StatusAfter, StatusKinds, ReadyKinds
      <4>3. CASE kinds = StatusKinds \ {"READY"}
        BY <1>2, <4>1, <4>3 DEF StatusAfter, StatusKinds, ReadyKinds
      <4> QED
        BY <2>1, <4>2, <4>3
    <3>2. CASE \/ \E event : LastOf(task.calls, ReadyKinds, event) /\ event.kind \in kinds
               \/ /\ NoneOf(task.calls, ReadyKinds)
                  /\ \E event : LastOf(hook.calls, ReadyKinds, event) /\ event.kind \in kinds
      BY <1>1, <3>2 DEF EndsUp
    <3>3. CASE /\ NoneOf(task.calls, ReadyKinds) /\ NoneOf(hook.calls, ReadyKinds)
               /\ \E event : LastOf(events, ReadyKinds, event) /\ event.kind \in kinds
      <4>1. PICK event : LastOf(events, ReadyKinds, event) /\ event.kind \in kinds
        BY <3>3
      <4>2. \/ LastOf(events', ReadyKinds, event)
            \/ /\ Head(events) = event /\ event.kind \in ReadyKinds
               /\ NoneOf(events', ReadyKinds)
        BY <1>1, <1>3, <4>1, TailKeepsLast
      <4> QED
        BY <1>1, <3>1, <3>3, <4>1, <4>2 DEF EndsUp
    <3>4. CASE /\ NoneOf(task.calls, ReadyKinds) /\ NoneOf(hook.calls, ReadyKinds)
               /\ NoneOf(events, ReadyKinds) /\ hostStatus \in kinds
      <4>1. NoneOf(events', ReadyKinds) /\ Head(events).kind \notin ReadyKinds
        BY <1>1, <1>3, <3>4, TailKeepsLast
      <4> QED
        BY <1>1, <3>1, <3>4, <4>1 DEF EndsUp
    <3>5. \/ \E event : LastOf(task.calls, ReadyKinds, event) /\ event.kind \in kinds
          \/ /\ NoneOf(task.calls, ReadyKinds)
             /\ \E event : LastOf(hook.calls, ReadyKinds, event) /\ event.kind \in kinds
          \/ /\ NoneOf(task.calls, ReadyKinds) /\ NoneOf(hook.calls, ReadyKinds)
             /\ \E event : LastOf(events, ReadyKinds, event) /\ event.kind \in kinds
          \/ /\ NoneOf(task.calls, ReadyKinds) /\ NoneOf(hook.calls, ReadyKinds)
             /\ NoneOf(events, ReadyKinds) /\ hostStatus \in kinds
      BY <2>1 DEF EndsUp
    <3> QED
      BY <3>2, <3>3, <3>4, <3>5
  <2> QED
    BY <1>1, <2>1 DEF ReadyInv
<1>8. HookInv' /\ DeviceInv'
  BY <1>1 DEF HookInv, DeviceInv
<1> QED
  BY <1>2, <1>4, <1>5, <1>6, <1>7, <1>8

-----------------------------------------------------------------------------
(* Callbacks of the host task, and the interrupt.                          *)

\* What no callback touches, and where one of the host task may start.
FreeTask ==
    /\ task.calls = << >> /\ hook.calls = << >>
    /\ UNCHANGED <<events, lost, hook, hostStatus, pipe>>

(* A callback that does not tell the keys leaves the last word on them.    *)
LEMMA KeysAreLeft ==
    ASSUME KeysInv, HookInv, FreeTask, NoneOf(task'.calls, KeyKinds),
           UNCHANGED lastHostState
    PROVE  KeysInv' /\ HookInv'
<1>1. HeldKeys' = HeldKeys /\ HookInv'
  BY DEF HeldKeys, HookInv, FreeTask
<1>2. NoneOf(task.calls, KeyKinds) /\ ~\E event : LastOf(task.calls, KeyKinds, event)
  BY DEF NoneOf, LastOf, FreeTask
<1> QED
  BY <1>1, <1>2 DEF KeysInv, FreeTask

(* A callback that does not touch the status leaves the last word on it.   *)
LEMMA ReadyIsLeft ==
    ASSUME ReadyInv, FreeTask, NoneOf(task'.calls, ReadyKinds),
           UNCHANGED keyboardMounted, keyboardMounted => UNCHANGED hubEvents
    PROVE  ReadyInv'
<1>1. NoneOf(task.calls, ReadyKinds) /\ ~\E event : LastOf(task.calls, ReadyKinds, event)
  BY DEF NoneOf, LastOf, FreeTask
<1>2. \A kinds : EndsUp(kinds) => EndsUp(kinds)'
  BY <1>1 DEF EndsUp, FreeTask
<1> QED
  BY <1>2 DEF ReadyInv, FreeTask

(* One event of the current source to queue.                               *)
LEMMA OneCall ==
    ASSUME TypeOK, OrderInv, HookInv, FreeTask, UNCHANGED sourceEpoch,
           NEW kind \in EventKinds, NEW state \in KeyboardStates,
           task' = Calls(<<SourceEvent(kind, state, sourceEpoch)>>)
    PROVE  /\ task' \in Contexts /\ OrderInv'
           /\ SourceEvent(kind, state, sourceEpoch).kind = kind
           /\ \A kinds : /\ kind \in kinds => LastOf(task'.calls, kinds,
                                      SourceEvent(kind, state, sourceEpoch))
                         /\ kind \notin kinds => NoneOf(task'.calls, kinds)
<1> DEFINE event == SourceEvent(kind, state, sourceEpoch)
<1>1. event \in SourceEvents /\ event.kind = kind /\ event.epoch = sourceEpoch
  BY EventType DEF TypeOK
<1> HIDE DEF event
<1>2. task' \in Contexts /\ task'.calls = <<event>>
  BY <1>1, CallsType DEF event
<1>3. Between(task'.calls, sourceEpoch, sourceEpoch)
  <2>1. sourceEpoch \in Int
    BY PipeAssumption DEF TypeOK, Epochs
  <2> QED
    BY <1>1, <1>2, <2>1 DEF Between
<1>4. OrderInv'
  BY <1>3 DEF OrderInv, FreeTask
<1>5. ASSUME NEW kinds
      PROVE  /\ kind \in kinds => LastOf(task'.calls, kinds, event)
             /\ kind \notin kinds => NoneOf(task'.calls, kinds)
  <2>1. /\ event.kind \in kinds => LastOf(<<event>>, kinds, event)
        /\ event.kind \notin kinds => NoneOf(<<event>>, kinds)
    BY <1>1, ShortQueues
  <2> QED
    BY <1>1, <1>2, <2>1
<1> QED
  BY <1>1, <1>2, <1>4, <1>5 DEF event

(* reset_source: the new source holds nothing, and has a status.           *)
LEMMA SourceChanges ==
    ASSUME IInv, FreeTask, NEW status \in {"READY", "WAITING"}, ResetSource(status),
           keyboardMounted' \in BOOLEAN, keyboardMounted' <=> status = "READY"
    PROVE  /\ task' \in Contexts /\ sourceEpoch' \in Epochs /\ lastHostState' = << >>
           /\ OrderInv' /\ KeysInv' /\ ReadyInv' /\ HookInv'
<1> USE DEF IInv
<1> DEFINE reset == StatusEvent("RESET", sourceEpoch')
           event == StatusEvent(status, sourceEpoch')
<1>1. /\ sourceEpoch \in Int /\ pipe.epoch \in Int
      /\ sourceEpoch' = sourceEpoch + 1 /\ sourceEpoch' \in Epochs
      /\ lastHostState' = << >> /\ task' = Calls(<<reset, event>>)
  BY PipeAssumption DEF TypeOK, Epochs, ResetSource, Pipes
<1>2. /\ reset \in SourceEvents /\ reset.kind = "RESET" /\ reset.epoch = sourceEpoch'
      /\ event \in SourceEvents /\ event.kind = status /\ event.epoch = sourceEpoch'
  <2>1. "RESET" \in EventKinds /\ status \in EventKinds
    BY DEF EventKinds, StatusKinds
  <2>2. reset \in SourceEvents /\ reset.kind = "RESET" /\ reset.epoch = sourceEpoch'
    BY <1>1, <2>1, ReleasedIsState, EventType
  <2>3. event \in SourceEvents /\ event.kind = status /\ event.epoch = sourceEpoch'
    BY <1>1, <2>1, ReleasedIsState, EventType
  <2> QED
    BY <2>2, <2>3
<1> HIDE DEF reset, event
<1>3. task' \in Contexts /\ task'.calls = <<reset, event>>
  BY <1>1, <1>2, CallsType
<1>4. OrderInv'
  <2>1. \A i \in 1 .. Len(events) :
          events[i].epoch \in Int /\ events[i].epoch <= sourceEpoch
    <3> TAKE i \in 1 .. Len(events)
    <3>1. events[i] \in SourceEvents
      BY DEF TypeOK
    <3> QED
      BY <3>1, PipeAssumption DEF OrderInv, Between, SourceEvents, Epochs
  <2>2. Between(events, pipe.epoch, sourceEpoch') /\ pipe.epoch <= sourceEpoch'
    BY <1>1, <2>1 DEF OrderInv, Between
  <2>3. Between(<<reset, event>>, sourceEpoch', sourceEpoch')
    BY <1>1, <1>2 DEF Between
  <2>4. Between(hook.calls, sourceEpoch', sourceEpoch')
    BY DEF Between, FreeTask
  <2> QED
    BY <1>3, <2>2, <2>3, <2>4 DEF OrderInv, FreeTask
<1>5. LastOf(task'.calls, KeyKinds, reset) /\ LastOf(task'.calls, ReadyKinds, event)
  <2>1. /\ reset.kind \in KeyKinds /\ event.kind \notin KeyKinds
        /\ event.kind \in ReadyKinds
    BY <1>2 DEF KeyKinds, ReadyKinds
  <2>2. /\ reset.kind \in KeyKinds /\ event.kind \notin KeyKinds
             => LastOf(<<reset, event>>, KeyKinds, reset)
        /\ event.kind \in ReadyKinds => LastOf(<<reset, event>>, ReadyKinds, event)
    BY <1>2, ShortQueues
  <2> QED
    BY <1>3, <2>1, <2>2
<1>6. KeysInv' /\ HookInv'
  <2>1. Told(reset) = HeldKeys'
    BY <1>1, <1>2 DEF Told, HeldKeys
  <2> QED
    BY <1>5, <2>1 DEF KeysInv, HookInv, FreeTask
<1>7. ReadyInv'
  <2>1. event.kind \in StatusKinds
    BY <1>2 DEF StatusKinds
  <2> QED
    BY <1>2, <1>5, <2>1 DEF ReadyInv, EndsUp
<1> QED
  BY <1>1, <1>3, <1>4, <1>6, <1>7

(* A device comes or goes, perhaps while a callback is queueing.           *)
LEMMA HookStep ==
    ASSUME IInv, DeviceAttaches \/ DeviceIsRemoved
    PROVE  IInv'
<1> USE DEF IInv
<1>1. PICK change \in {"attach", "remove"}, kind \in {"ATTACHED", "WAITING"} :
         /\ InterruptIsFree /\ Len(hubEvents) < MaxHubEvents
         /\ attached' \in BOOLEAN /\ hubEvents' = Append(hubEvents, change)
         /\ \/ hook' = Calls(<<StatusEvent(kind, sourceEpoch)>>)
            \/ keyboardMounted /\ hook' = Calls(<< >>)
         /\ hostDeviceConfigured' = FALSE
         /\ UNCHANGED <<queueVars, task, keyboardMounted, sourceEpoch,
                        lastHostState, coreZeroVars, driverVars, device, interfaces>>
  BY DEF DeviceAttaches, DeviceIsRemoved, TuhEventHookCb
<1> USE DEF queueVars, coreZeroVars, driverVars
<1>2. hook.calls = << >>
  BY <1>1 DEF InterruptIsFree, Idle, Calls
<1>3. /\ hook' \in Contexts
      /\ \/ hook'.calls = << >> /\ keyboardMounted
         \/ \E event : /\ hook'.calls = <<event>> /\ event \in SourceEvents
                       /\ event.kind = kind /\ event.epoch = sourceEpoch
  <2>1. CASE hook' = Calls(<<StatusEvent(kind, sourceEpoch)>>)
    <3>1. kind \in EventKinds /\ sourceEpoch \in Epochs
      BY DEF EventKinds, StatusKinds, TypeOK
    <3>2. /\ StatusEvent(kind, sourceEpoch) \in SourceEvents
          /\ StatusEvent(kind, sourceEpoch).kind = kind
          /\ StatusEvent(kind, sourceEpoch).epoch = sourceEpoch
      BY <3>1, ReleasedIsState, EventType
    <3> QED
      BY <2>1, <3>2, CallsType
  <2>2. CASE keyboardMounted /\ hook' = Calls(<< >>)
    <3>1. << >> \in Seq(SourceEvents)
      BY EmptySeq
    <3> QED
      BY <2>2, <3>1 DEF Calls, Contexts
  <2> QED
    BY <1>1, <2>1, <2>2
<1>4. TypeOK'
  <2>1. hubEvents' \in Seq({"attach", "remove"}) /\ Len(hubEvents') <= MaxHubEvents
    BY <1>1, SourceQueueAssumption DEF TypeOK
  <2> QED
    BY <1>1, <1>3, <2>1 DEF TypeOK
<1>5. OrderInv'
  <2>1. sourceEpoch \in Int
    BY PipeAssumption DEF TypeOK, Epochs
  <2>2. Between(hook'.calls, sourceEpoch, sourceEpoch)
    BY <1>3, <2>1 DEF Between
  <2> QED
    BY <1>1, <2>2 DEF OrderInv
<1>6. HookInv' /\ KeysInv'
  <2>1. HeldKeys' = HeldKeys
    BY <1>1 DEF HeldKeys
  <2>2. kind \notin KeyKinds
    BY DEF KeyKinds
  <2> QED
    BY <1>1, <1>3, <2>1, <2>2 DEF HookInv, NoneOf, KeysInv
<1>7. ReadyInv'
  <2>1. hubEvents' # << >>
    BY <1>1, EmptySeq DEF TypeOK
  <2>2. ASSUME ~keyboardMounted, EndsUp(StatusKinds \ {"READY"})
        PROVE  EndsUp(StatusKinds \ {"READY"})'
    <3>1. kind \in ReadyKinds /\ kind \in StatusKinds \ {"READY"}
      BY DEF ReadyKinds, StatusKinds
    <3>2. PICK event : /\ hook'.calls = <<event>> /\ event \in SourceEvents
                       /\ event.kind = kind
      BY <1>3, <2>2
    <3>3. LastOf(hook'.calls, ReadyKinds, event)
      <4>1. event.kind \in ReadyKinds => LastOf(<<event>>, ReadyKinds, event)
        BY <3>2, ShortQueues
      <4> QED
        BY <3>1, <3>2, <4>1
    <3>4. \/ \E last : LastOf(task.calls, ReadyKinds, last)
                         /\ last.kind \in StatusKinds \ {"READY"}
          \/ NoneOf(task.calls, ReadyKinds)
      BY <2>2 DEF EndsUp
    <3> QED
      BY <1>1, <3>1, <3>2, <3>3, <3>4 DEF EndsUp
  <2> QED
    BY <1>1, <2>1, <2>2 DEF ReadyInv
<1>8. DeviceInv' /\ SoundPipe(pipe)'
  BY <1>1 DEF DeviceInv
<1> QED
  BY <1>4, <1>5, <1>6, <1>7, <1>8

(* A callback that leaves source and status alone: nothing to queue, or an *)
(* event that is only counted or lights the LED.                           *)
LEMMA QuietCallback ==
    ASSUME IInv, FreeTask, UNCHANGED <<keyboardMounted, sourceEpoch, lastHostState>>,
           keyboardMounted => UNCHANGED hubEvents,
           NEW kind \in {"HID_INTERFACE", "CONFIGURED"},
           \/ task' = task
           \/ task' = Calls(<<StatusEvent(kind, sourceEpoch)>>)
    PROVE  /\ task' \in Contexts /\ SoundPipe(pipe)'
           /\ OrderInv' /\ KeysInv' /\ ReadyInv' /\ HookInv'
<1> USE DEF IInv
<1>1. SoundPipe(pipe)'
  BY DEF FreeTask
<1>2. /\ task' \in Contexts /\ OrderInv'
      /\ NoneOf(task'.calls, KeyKinds) /\ NoneOf(task'.calls, ReadyKinds)
  <2>1. CASE task' = task
    BY <2>1 DEF TypeOK, OrderInv, NoneOf, FreeTask
  <2>2. CASE task' = Calls(<<StatusEvent(kind, sourceEpoch)>>)
    <3>1. /\ kind \in EventKinds /\ kind \notin KeyKinds /\ kind \notin ReadyKinds
      BY DEF EventKinds, StatusKinds, KeyKinds, ReadyKinds
    <3>2. task' = Calls(<<SourceEvent(kind, Released, sourceEpoch)>>)
      BY <2>2 DEF StatusEvent
    <3> QED
      BY <3>1, <3>2, ReleasedIsState, OneCall
  <2> QED
    BY <2>1, <2>2
<1> QED
  BY <1>1, <1>2, KeysAreLeft, ReadyIsLeft

(* TinyUSB's steps, and the driver's requests, below the callbacks.        *)
LEMMA EnumerationStep ==
    ASSUME IInv, \/ EnumerationStarts \/ DriverOpen \/ TuhMountCb
                 \/ DriverSetConfig /\ AwaitRequest("setIdle")
                 \/ ProcessSetConfig /\ AwaitRequest("setProtocol")
    PROVE  IInv'
<1> USE DEF IInv
<1>1. /\ FreeTask /\ UNCHANGED <<keyboardMounted, sourceEpoch, lastHostState>>
      /\ attached' = attached
      /\ \/ hubEvents' = hubEvents
         \/ /\ device = "none" /\ hubEvents # << >> /\ hubEvents' = Tail(hubEvents)
      /\ \E kind \in {"HID_INTERFACE", "CONFIGURED"} :
           task' = task \/ task' = Calls(<<StatusEvent(kind, sourceEpoch)>>)
  <2> USE IdleHasNoCalls DEF TaskIsFree, FreeTask, queueVars, contextVars,
                             coreOneVars, coreZeroVars
  <2>1. CASE EnumerationStarts
    BY <2>1 DEF EnumerationStarts
  <2>2. CASE DriverOpen
    BY <2>2 DEF DriverOpen
  <2>3. CASE TuhMountCb
    BY <2>3 DEF TuhMountCb
  <2>4. CASE DriverSetConfig /\ AwaitRequest("setIdle")
    BY <2>4 DEF DriverSetConfig, AwaitRequest
  <2>5. CASE ProcessSetConfig /\ AwaitRequest("setProtocol")
    BY <2>5 DEF ProcessSetConfig, AwaitRequest
  <2> QED
    BY <2>1, <2>2, <2>3, <2>4, <2>5
<1>2. keyboardMounted => UNCHANGED hubEvents
  BY <1>1 DEF DeviceInv
<1>3. /\ task' \in Contexts /\ SoundPipe(pipe)'
      /\ OrderInv' /\ KeysInv' /\ ReadyInv' /\ HookInv'
  BY <1>1, <1>2, QuietCallback
<1>4. /\ claimed' \in BOOLEAN /\ armed' = armed /\ hostDeviceConfigured' \in BOOLEAN
      /\ stage' \in {"none", "setIdle", "setProtocol", "configured"}
      /\ device' \in {"none", "opening", "configuring", "mounting", "configured"}
      /\ device' # "configured" => ~hostDeviceConfigured'
      /\ keyboardMounted' => device' # "none"
      /\ interfaces' \in 0 .. MaxInterfaces
  <2>1. CASE EnumerationStarts
    BY <2>1, SourceQueueAssumption
       DEF EnumerationStarts, TypeOK, DeviceInv, coreOneVars, driverVars
  <2>2. CASE DriverOpen
    <3>1. interfaces' \in 0 .. MaxInterfaces
      BY <2>2, SourceQueueAssumption DEF DriverOpen, TypeOK
    <3>2. /\ device = "opening" /\ device' = device
          /\ claimed' \in {claimed, TRUE} /\ claimed \in BOOLEAN
      BY <2>2 DEF DriverOpen, TypeOK
    <3> QED
      BY <2>2, <3>1, <3>2 DEF DriverOpen, TypeOK, DeviceInv, coreOneVars
  <2>3. CASE TuhMountCb
    BY <2>3 DEF TuhMountCb, TypeOK, driverVars
  <2>4. CASE DriverSetConfig /\ AwaitRequest("setIdle")
    BY <2>4 DEF DriverSetConfig, AwaitRequest, TypeOK, DeviceInv, coreOneVars
  <2>5. CASE ProcessSetConfig /\ AwaitRequest("setProtocol")
    BY <2>5 DEF ProcessSetConfig, AwaitRequest, TypeOK, DeviceInv, coreOneVars
  <2> QED
    BY <2>1, <2>2, <2>3, <2>4, <2>5
<1>5. hubEvents' \in Seq({"attach", "remove"}) /\ Len(hubEvents') <= MaxHubEvents
  <2>1. hubEvents \in Seq({"attach", "remove"}) /\ Len(hubEvents) <= MaxHubEvents
    BY DEF TypeOK
  <2>2. ASSUME hubEvents # << >>
        PROVE  /\ Tail(hubEvents) \in Seq({"attach", "remove"})
               /\ Len(Tail(hubEvents)) <= MaxHubEvents
    BY <2>1, <2>2, HeadTailProperties, SourceQueueAssumption
  <2> QED
    BY <1>1, <2>1, <2>2
<1>6. TypeOK' /\ DeviceInv'
  BY <1>1, <1>3, <1>4, <1>5 DEF TypeOK, DeviceInv, FreeTask
<1> QED
  BY <1>3, <1>6

(* The keyboard is configured: a new source, and READY.                    *)
LEMMA ConfiguredStep ==
    ASSUME IInv, TaskIsFree, CompleteConfiguration, device # "configured"
    PROVE  IInv'
<1> USE DEF IInv
<1>1. /\ FreeTask /\ ResetSource("READY") /\ keyboardMounted' = TRUE
      /\ stage' = "configured" /\ device' = "mounting" /\ armed' \in BOOLEAN
      /\ UNCHANGED <<hostDeviceConfigured, claimed, attached, hubEvents, interfaces>>
  BY IdleHasNoCalls
     DEF TaskIsFree, CompleteConfiguration, BootKeyboardHostMountCb, ArmReceive,
         FreeTask, queueVars, coreZeroVars
<1>2. /\ task' \in Contexts /\ sourceEpoch' \in Epochs /\ lastHostState' = << >>
      /\ OrderInv' /\ KeysInv' /\ ReadyInv' /\ HookInv'
  <2>1. /\ "READY" \in {"READY", "WAITING"} /\ keyboardMounted' \in BOOLEAN
        /\ keyboardMounted' <=> "READY" = "READY"
    BY <1>1
  <2> QED
    BY <1>1, <2>1, SourceChanges
<1>3. ~hostDeviceConfigured
  BY DEF DeviceInv
<1>4. << >> \in Seq(KeyboardStates) /\ Len(<< >>) = 0
  BY EmptySeq
<1>5. TypeOK'
  BY <1>1, <1>2, <1>4 DEF TypeOK, FreeTask
<1>6. DeviceInv' /\ SoundPipe(pipe)'
  BY <1>1, <1>3 DEF DeviceInv, FreeTask
<1> QED
  BY <1>2, <1>5, <1>6

(* A report of the keyboard, or a transfer that failed.                    *)
LEMMA ReportStep ==
    ASSUME IInv, DriverXferCb
    PROVE  IInv'
<1> USE DEF IInv
<1>1. /\ FreeTask /\ armed' \in BOOLEAN
      /\ UNCHANGED <<keyboardMounted, sourceEpoch, hostDeviceConfigured, claimed,
                     stage, attached, hubEvents, device, interfaces>>
      /\ \/ UNCHANGED <<lastHostState, task>>
         \/ \E report \in KeyboardReports :
              /\ lastHostState' = <<FilterForBootReport(report)>>
              /\ task' = Calls(<<SourceEvent("STATE", FilterForBootReport(report),
                                             sourceEpoch)>>)
  BY IdleHasNoCalls
     DEF DriverXferCb, BootKeyboardHostReportCb, DecodeBootReport, TaskIsFree,
         ArmReceive, FreeTask, queueVars, coreZeroVars, deviceVars
<1>2. CASE UNCHANGED <<lastHostState, task>>
  <2>1. "CONFIGURED" \in {"HID_INTERFACE", "CONFIGURED"}
    OBVIOUS
  <2>2. /\ task' \in Contexts /\ SoundPipe(pipe)'
        /\ OrderInv' /\ KeysInv' /\ ReadyInv' /\ HookInv'
    BY <1>1, <1>2, <2>1, QuietCallback
  <2>3. TypeOK' /\ DeviceInv'
    BY <1>1, <1>2 DEF TypeOK, DeviceInv, FreeTask
  <2> QED
    BY <2>2, <2>3
<1>3. CASE \E report \in KeyboardReports :
             /\ lastHostState' = <<FilterForBootReport(report)>>
             /\ task' = Calls(<<SourceEvent("STATE", FilterForBootReport(report),
                                            sourceEpoch)>>)
  <2>1. PICK state \in KeyboardStates :
           /\ lastHostState' = <<state>>
           /\ task' = Calls(<<SourceEvent("STATE", state, sourceEpoch)>>)
    BY <1>3, SourceQueueAssumption DEF FilterForBootReport, KeyboardStates
  <2>2. "STATE" \in EventKinds /\ "STATE" \in KeyKinds /\ "STATE" \notin ReadyKinds
    BY DEF EventKinds, KeyKinds, ReadyKinds
  <2> DEFINE event == SourceEvent("STATE", state, sourceEpoch)
  <2>3. /\ task' \in Contexts /\ OrderInv' /\ event.kind = "STATE"
        /\ LastOf(task'.calls, KeyKinds, event) /\ NoneOf(task'.calls, ReadyKinds)
    BY <1>1, <2>1, <2>2, OneCall
  <2>4. KeysInv' /\ HookInv'
    <3>1. Told(event) = HeldKeys'
      BY <2>1, <2>3 DEF Told, HeldKeys, SourceEvent
    <3> HIDE DEF event
    <3> QED
      BY <1>1, <2>3, <3>1 DEF KeysInv, HookInv, FreeTask
  <2>5. ReadyInv'
    BY <1>1, <2>3, ReadyIsLeft
  <2>6. lastHostState' \in Seq(KeyboardStates) /\ Len(lastHostState') <= 1
    BY <2>1
  <2>7. TypeOK' /\ DeviceInv' /\ SoundPipe(pipe)'
    BY <1>1, <2>3, <2>6 DEF TypeOK, DeviceInv, FreeTask
  <2> QED
    BY <2>3, <2>4, <2>5, <2>7
<1> QED
  BY <1>1, <1>2, <1>3

(* The device is gone: a new source if a keyboard was mounted, and WAITING.*)
LEMMA RemovalStep ==
    ASSUME IInv, RemovalIsHandled
    PROVE  IInv'
<1> USE DEF IInv
<1>1. /\ FreeTask /\ hubEvents # << >> /\ hubEvents' = Tail(hubEvents)
      /\ device' = "none" /\ interfaces' = 0 /\ hostDeviceConfigured' = FALSE
      /\ claimed' = FALSE /\ stage' = "none" /\ armed' = FALSE /\ attached' = attached
      /\ \/ /\ keyboardMounted /\ keyboardMounted' = FALSE /\ ResetSource("WAITING")
         \/ /\ ~keyboardMounted
            /\ task' = Calls(<<StatusEvent("WAITING", sourceEpoch)>>)
            /\ UNCHANGED <<keyboardMounted, sourceEpoch, lastHostState>>
  BY IdleHasNoCalls
     DEF RemovalIsHandled, TuhUmountCb, BootKeyboardHostUmountCb, DriverClose,
         TaskIsFree, FreeTask, queueVars, coreZeroVars
<1>2. /\ task' \in Contexts /\ sourceEpoch' \in Epochs /\ ~keyboardMounted'
      /\ keyboardMounted' \in BOOLEAN
      /\ lastHostState' \in Seq(KeyboardStates) /\ Len(lastHostState') <= 1
      /\ OrderInv' /\ KeysInv' /\ ReadyInv' /\ HookInv'
  <2>1. CASE keyboardMounted /\ keyboardMounted' = FALSE /\ ResetSource("WAITING")
    <3>1. << >> \in Seq(KeyboardStates) /\ Len(<< >>) = 0
      BY EmptySeq
    <3>2. /\ "WAITING" \in {"READY", "WAITING"} /\ keyboardMounted' \in BOOLEAN
          /\ keyboardMounted' <=> "WAITING" = "READY"
      BY <2>1
    <3>3. /\ task' \in Contexts /\ sourceEpoch' \in Epochs /\ lastHostState' = << >>
          /\ OrderInv' /\ KeysInv' /\ ReadyInv' /\ HookInv'
      BY <1>1, <2>1, <3>2, SourceChanges
    <3> QED
      BY <2>1, <3>1, <3>2, <3>3
  <2>2. CASE /\ ~keyboardMounted
             /\ task' = Calls(<<StatusEvent("WAITING", sourceEpoch)>>)
             /\ UNCHANGED <<keyboardMounted, sourceEpoch, lastHostState>>
    <3>1. /\ "WAITING" \in EventKinds /\ "WAITING" \notin KeyKinds
          /\ "WAITING" \in ReadyKinds /\ "WAITING" \in StatusKinds \ {"READY"}
      BY DEF EventKinds, KeyKinds, ReadyKinds, StatusKinds
    <3> DEFINE event == SourceEvent("WAITING", Released, sourceEpoch)
    <3>2. task' = Calls(<<event>>)
      BY <2>2 DEF StatusEvent
    <3>3. /\ task' \in Contexts /\ OrderInv' /\ event.kind = "WAITING"
          /\ NoneOf(task'.calls, KeyKinds) /\ LastOf(task'.calls, ReadyKinds, event)
      BY <1>1, <2>2, <3>1, <3>2, ReleasedIsState, OneCall
    <3> HIDE DEF event
    <3>4. KeysInv' /\ HookInv'
      BY <1>1, <2>2, <3>3, KeysAreLeft
    <3>5. ReadyInv'
      BY <2>2, <3>1, <3>3 DEF ReadyInv, EndsUp
    <3> QED
      BY <2>2, <3>3, <3>4, <3>5 DEF TypeOK
  <2> QED
    BY <1>1, <2>1, <2>2
<1>3. hubEvents' \in Seq({"attach", "remove"}) /\ Len(hubEvents') <= MaxHubEvents
  <2>1. hubEvents \in Seq({"attach", "remove"}) /\ Len(hubEvents) <= MaxHubEvents
    BY DEF TypeOK
  <2> QED
    BY <1>1, <2>1, HeadTailProperties, SourceQueueAssumption
<1>4. TypeOK'
  <2>1. interfaces' \in 0 .. MaxInterfaces
    BY <1>1, SourceQueueAssumption
  <2> QED
    BY <1>1, <1>2, <1>3, <2>1 DEF TypeOK, FreeTask
<1>5. DeviceInv' /\ SoundPipe(pipe)'
  BY <1>1, <1>2 DEF DeviceInv, FreeTask
<1> QED
  BY <1>2, <1>4, <1>5

(* Every step keeps the invariant.                                         *)
LEMMA NextIInv == IInv /\ [Next]_vars => IInv'
<1> SUFFICES ASSUME IInv, [Next]_vars PROVE IInv'
  OBVIOUS
<1>1. CASE TaskQueues \/ HookQueues
  BY <1>1, QueueStep
<1>2. CASE DeviceAttaches \/ DeviceIsRemoved
  BY <1>2, HookStep
<1>3. CASE EnumerationStarts \/ DriverOpen \/ TuhMountCb
  BY <1>3, EnumerationStep
<1>4. CASE DriverSetConfig
  <2>1. /\ TaskIsFree /\ device # "configured"
        /\ AwaitRequest("setIdle") \/ CompleteConfiguration
    BY <1>4 DEF DriverSetConfig
  <2> QED
    BY <1>4, <2>1, ConfiguredStep, EnumerationStep
<1>5. CASE ProcessSetConfig
  <2>1. /\ TaskIsFree /\ device # "configured"
        /\ AwaitRequest("setProtocol") \/ CompleteConfiguration
    BY <1>5 DEF ProcessSetConfig
  <2> QED
    BY <1>5, <2>1, ConfiguredStep, EnumerationStep
<1>6. CASE DriverXferCb
  BY <1>6, ReportStep
<1>7. CASE RemovalIsHandled
  BY <1>7, RemovalStep
<1>8. CASE UsbHostKeyboardTask
  BY <1>8, TakeStep
<1>9. CASE UNCHANGED vars
  <2> USE <1>9 DEF vars, queueVars, contextVars, coreOneVars, coreZeroVars,
                   driverVars, deviceVars
  <2>1. TypeOK'
    BY DEF IInv, TypeOK
  <2>2. SoundPipe(pipe)' /\ OrderInv' /\ HookInv' /\ DeviceInv'
    BY DEF IInv, OrderInv, HookInv, DeviceInv
  <2>3. KeysInv'
    BY DEF IInv, KeysInv, HeldKeys
  <2>4. ReadyInv'
    BY DEF IInv, ReadyInv, EndsUp
  <2> QED
    BY <2>1, <2>2, <2>3, <2>4 DEF IInv
<1> QED
  BY <1>1, <1>2, <1>3, <1>4, <1>5, <1>6, <1>7, <1>8, <1>9 DEF Next

(* What the rest of the loop on core 0 does with the pipe leaves the       *)
(* keyboard side to itself: it neither publishes nor resets.               *)
LEMMA SendingStep ==
    ASSUME IInv, SoundPipe(pipe'),
           pipe'.latest = pipe.latest, pipe'.epoch = pipe.epoch,
           UNCHANGED <<queueVars, contextVars, coreOneVars, hostStatus,
                       driverVars, deviceVars>>
    PROVE  IInv'
<1> USE DEF queueVars, contextVars, coreOneVars, driverVars, deviceVars
<1>1. TypeOK'
  BY DEF IInv, TypeOK, SoundPipe
<1>2. OrderInv' /\ HookInv' /\ DeviceInv'
  BY DEF IInv, OrderInv, HookInv, DeviceInv
<1>3. KeysInv'
  BY DEF IInv, KeysInv, HeldKeys
<1>4. ReadyInv'
  BY DEF IInv, ReadyInv, EndsUp
<1> QED
  BY <1>1, <1>2, <1>3, <1>4 DEF IInv

(* The invariant holds in every state the bridge reaches                   *)
(* (usb_host_keyboard.c:77-371, boot_keyboard_host.c:33-187).              *)
THEOREM SourceInvariance == Spec => []IInv
BY InitIInv, NextIInv, PTL DEF Spec

-----------------------------------------------------------------------------
(* What it implies.                                                        *)

(* Every variable keeps its type and the queue its depth, whichever of the *)
(* two contexts fills it (usb_host_keyboard.c:77-90).                      *)
THEOREM SourceTypeCorrect == Spec => []TypeOK
<1>1. IInv => TypeOK
  BY DEF IInv
<1> QED
  BY <1>1, SourceInvariance, PTL

(* Core 0 ends up with what the keyboard reported last, although the       *)
(* oldest events are discarded when the queue is full, as long as each of  *)
(* them is replaced by a later one (usb_host_keyboard.c:84-114, 342-371).  *)
THEOREM DiscardingIsHarmless == Spec => []OutdatedEventsDoNotMatter
<1>1. IInv => OutdatedEventsDoNotMatter
  <2> SUFFICES ASSUME IInv, Drained, lost \subseteq {"any"}
               PROVE  pipe.latest = HeldKeys
    BY DEF OutdatedEventsDoNotMatter
  <2>1. events = << >> /\ task.calls = << >>
    BY IdleHasNoCalls DEF Drained
  <2>2. \A event : ~LastOf(<< >>, KeyKinds, event)
    BY DEF LastOf
  <2> QED
    BY <2>1, <2>2 DEF IInv, KeysInv
<1> QED
  BY <1>1, SourceInvariance, PTL

(* No event that reaches core 0 is of an earlier source than the pipe has, *)
(* so the report pipe never drops one as stale (report_pipe.c:110-140,     *)
(* usb_host_keyboard.c:259-302, 342-371).                                  *)
THEOREM NoEventIsStale == Spec => []EpochsArriveInOrder
<1>1. IInv => EpochsArriveInOrder
  <2> SUFFICES ASSUME IInv PROVE EpochsArriveInOrder
    OBVIOUS
  <2> DEFINE underWay == events \o task.calls
  <2>1. /\ events \in Seq(SourceEvents) /\ task.calls \in Seq(SourceEvents)
        /\ pipe.epoch \in Int /\ sourceEpoch \in Int
    BY PipeAssumption DEF IInv, TypeOK, Contexts, Pipes, Epochs
  <2>2. /\ pipe.epoch <= sourceEpoch
        /\ Between(events, pipe.epoch, sourceEpoch) /\ Rising(events)
        /\ Between(task.calls, sourceEpoch, sourceEpoch)
    BY DEF IInv, OrderInv
  <2>3. /\ Len(events) \in Nat /\ Len(task.calls) \in Nat
        /\ Len(underWay) = Len(events) + Len(task.calls)
        /\ \A i \in 1 .. Len(underWay) :
             underWay[i] = IF i <= Len(events) THEN events[i]
                           ELSE task.calls[i - Len(events)]
    BY <2>1, ConcatProperties
  <2> HIDE DEF underWay
  <2>4. /\ \A i \in 1 .. Len(events) : events[i].epoch \in Int
        /\ \A i \in 1 .. Len(task.calls) : task.calls[i].epoch \in Int
    <3>1. /\ \A i \in 1 .. Len(events) : events[i] \in SourceEvents
          /\ \A i \in 1 .. Len(task.calls) : task.calls[i] \in SourceEvents
      BY <2>1
    <3> QED
      BY <3>1, PipeAssumption DEF SourceEvents, Epochs
  <2>5. ASSUME NEW i \in 1 .. Len(underWay)
        PROVE  \/ /\ i \in 1 .. Len(events) /\ underWay[i] = events[i]
                  /\ pipe.epoch <= underWay[i].epoch
                  /\ underWay[i].epoch <= sourceEpoch
               \/ /\ i > Len(events) /\ underWay[i].epoch = sourceEpoch
    <3>1. CASE i <= Len(events)
      BY <2>2, <2>3, <3>1 DEF Between
    <3>2. CASE i > Len(events)
      <4>1. /\ i - Len(events) \in 1 .. Len(task.calls)
            /\ underWay[i] = task.calls[i - Len(events)]
        BY <2>3, <3>2
      <4> QED
        BY <2>1, <2>2, <2>4, <3>2, <4>1 DEF Between
    <3> QED
      BY <2>3, <3>1, <3>2
  <2>6. \A i \in 1 .. Len(underWay) : underWay[i].epoch >= pipe.epoch
    BY <2>1, <2>2, <2>3, <2>4, <2>5
  <2>7. \A i, j \in 1 .. Len(underWay) :
          i < j => underWay[i].epoch <= underWay[j].epoch
    <3> SUFFICES ASSUME NEW i \in 1 .. Len(underWay), NEW j \in 1 .. Len(underWay),
                        i < j
                 PROVE  underWay[i].epoch <= underWay[j].epoch
      OBVIOUS
    <3>1. CASE j \in 1 .. Len(events) /\ underWay[j] = events[j]
      <4>1. i \in 1 .. Len(events) /\ underWay[i] = events[i]
        BY <2>3, <3>1
      <4> QED
        BY <2>2, <3>1, <4>1 DEF Rising
    <3>2. CASE underWay[j].epoch = sourceEpoch
      <4>1. underWay[i].epoch <= sourceEpoch
        BY <2>1, <2>5
      <4> QED
        BY <3>2, <4>1
    <3> QED
      BY <2>5, <3>1, <3>2
  <2> QED
    BY <2>2, <2>6, <2>7 DEF EpochsArriveInOrder, underWay
<1> QED
  BY <1>1, SourceInvariance, PTL

(* Once every event has arrived the status is READY exactly while a        *)
(* keyboard is mounted, if none was lost (usb_host_keyboard.c:185-302).    *)
THEOREM StatusIsTrue == Spec => []ReadyMeansKeyboard
<1>1. IInv => ReadyMeansKeyboard
  <2> SUFFICES ASSUME IInv, Drained, hubEvents = << >>, lost = {}
               PROVE  hostStatus = "READY" <=> keyboardMounted
    BY DEF ReadyMeansKeyboard
  <2>1. events = << >> /\ task.calls = << >> /\ hook.calls = << >>
    BY IdleHasNoCalls DEF Drained
  <2>2. \A event : ~LastOf(<< >>, ReadyKinds, event)
    BY DEF LastOf
  <2>3. \A kinds : EndsUp(kinds) => hostStatus \in kinds
    BY <2>1, <2>2 DEF EndsUp
  <2> QED
    BY <2>3 DEF IInv, ReadyInv
<1> QED
  BY <1>1, SourceInvariance, PTL

(* No enumeration runs with the pauses of core 1 given up                  *)
(* (usb_host_keyboard.c:185-192, 263-301).                                 *)
THEOREM PausesAreKept == Spec => []EnumerationIsPaced
<1>1. IInv => EnumerationIsPaced
  BY DEF IInv, DeviceInv, EnumerationIsPaced
<1> QED
  BY <1>1, SourceInvariance, PTL

=============================================================================
