----------------------------- MODULE ReportPipe -----------------------------
(***************************************************************************)
(* The report pipe on its own: a source that publishes states under an     *)
(* epoch and a consumer that activates, pops and acknowledges, calling the *)
(* functions of report_pipe.c in any order at all.  report_pipe.h states   *)
(* no protocol for its callers, so none is assumed.                        *)
(***************************************************************************)
EXTENDS ReportPipeOps

CONSTANTS
    RecoveryMasks,   \* masks given to report_pipe_request_modifier_recovery
    SourceSteps      \* the changes the source makes, as <<before, after>>

ASSUME RecoveryAssumption == RecoveryMasks \subseteq SUBSET Modifiers

ASSUME SourceAssumption == SourceSteps \subseteq KeyboardStates \X KeyboardStates

VARIABLES
    pipe,    \* the report_pipe_t
    told     \* the item popped last, a sequence of at most one item

vars == <<pipe, told>>

Init == pipe = InitialPipe /\ told = << >>

ActivationChange ==
    \E active \in BOOLEAN :
        /\ pipe' = SetActive(pipe, active)
        /\ UNCHANGED told

SourcePublishes ==
    \E state \in KeyboardStates, epoch \in Epochs :
        /\ epoch = pipe.epoch => <<pipe.latest, state>> \in SourceSteps
        /\ pipe' = Publish(pipe, state, epoch)
        /\ UNCHANGED told

SourceResets ==
    \E epoch \in Epochs :
        /\ pipe' = SourceReset(pipe, epoch)
        /\ UNCHANGED told

ResyncRequested ==
    /\ pipe' = RequestResync(pipe)
    /\ UNCHANGED told

RecoveryRequested ==
    \E modifierMask \in RecoveryMasks :
        /\ pipe' = RequestModifierRecovery(pipe, modifierMask)
        /\ UNCHANGED told

ConsumerPops ==
    /\ pipe.items # << >>
    /\ told' = <<Head(pipe.items)>>
    /\ pipe' = Pop(pipe)

ConsumerAcknowledges ==
    /\ told # << >>
    /\ pipe' = Acknowledge(pipe, told[1])
    /\ UNCHANGED told

ConsumerTakesWake ==
    /\ pipe' = TakeWakeRequest(pipe)
    /\ UNCHANGED told

Next == \/ ActivationChange
        \/ SourcePublishes
        \/ SourceResets
        \/ ResyncRequested
        \/ RecoveryRequested
        \/ ConsumerPops
        \/ ConsumerAcknowledges
        \/ ConsumerTakesWake

Spec == Init /\ [][Next]_vars

-----------------------------------------------------------------------------
(* The pipe is a well-formed report_pipe_t and its queue fits the ring,    *)
(* although append_item (report_pipe.c:10-19) never looks at the count.    *)
TypeOK ==
    /\ pipe \in Pipes
    /\ Len(pipe.items) <= Capacity
    /\ told \in Seq(Items) /\ Len(told) <= 1

\* What the consumer was told last, then what it is still to be told.
Story == told \o pipe.items

(* Whatever was dropped by an overflow, a reset or a resynchronization, an *)
(* active consumer that drains the queue ends on the keyboard's latest     *)
(* state: the last item it pops, or has popped, is that state in the       *)
(* current epoch (report_pipe_publish_at, report_pipe.c:51-84).            *)
EndsOnLatest ==
    pipe.active => /\ Story # << >>
                   /\ Story[Len(Story)] = Item(pipe.latest, pipe.epoch)

\* Two items a consumer may be given one after the other.
Continuous(before, after) ==
    \/ before.state = Released
    \/ after.state = Released
    \/ after.state \in RecoveryMasks
    \/ before.epoch = after.epoch /\ <<before.state, after.state>> \in SourceSteps

(* The consumer is never taken from one set of held keys to another that   *)
(* the keyboard did not itself go to in one step: states may be skipped,   *)
(* and epochs may change, only across a release of every key (or the       *)
(* modifier press of a recovery).  A skip without the release would look   *)
(* to the host like a chord nobody typed.                                  *)
SkipsOnlyAcrossRelease ==
    \A i \in 1 .. Len(Story) - 1 : Continuous(Story[i], Story[i + 1])
=============================================================================
