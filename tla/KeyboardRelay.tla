---------------------------- MODULE KeyboardRelay ----------------------------
(***************************************************************************)
(* What usb_keyboard.c and report_pipe.c promise together, without epochs, *)
(* sessions, wakeups or a ring: a relay shows a computer the reports of a  *)
(* keyboard, one at a time.  It may leave reports out, but only by         *)
(* starting over, and it starts over from a release of everything.         *)
(***************************************************************************)
EXTENDS Sequences, Integers

CONSTANTS
    Reports,      \* what a report can say
    NoKeys,       \* the report of a keyboard that holds nothing
    Recoveries,   \* the reports a fresh start may show before the release
    Steps         \* the pairs of reports the keyboard goes between

VARIABLES
    held,      \* the report of what the keyboard holds now
    plan,      \* the reports that are still to be shown
    wire,      \* <<the report>> that waits for the computer's poll, or << >>
    online,    \* the computer can be shown something
    seen       \* the report the computer was shown last

vars == <<held, plan, wire, online, seen>>

Init == /\ held = NoKeys /\ plan = << >> /\ wire = << >>
        /\ online = FALSE /\ seen = NoKeys

\* A start may be all, when it leaves nothing out.
FreshPlans(report) ==
    LET starts == {<<NoKeys>>} \cup {<<recovery, NoKeys>> : recovery \in Recoveries}
    IN  {Append(start, report) : start \in starts}
           \cup {start \in starts : report = NoKeys}

-----------------------------------------------------------------------------
Follows(report) ==
    /\ online /\ <<held, report>> \in Steps
    /\ held' = report /\ plan' = Append(plan, report)
    /\ UNCHANGED <<wire, online, seen>>

\* Another keyboard, too many reports, one that was refused or lost on the
\* wire, a new protocol.
StartsOver(report) ==
    /\ online
    /\ held' = report /\ plan' \in FreshPlans(report)
    /\ wire' \in {wire, << >>}
    /\ UNCHANGED <<online, seen>>

Sends ==
    /\ online /\ wire = << >> /\ plan # << >>
    /\ wire' = <<Head(plan)>> /\ plan' = Tail(plan)
    /\ UNCHANGED <<held, online, seen>>

Repeats ==
    /\ online /\ wire = << >> /\ plan = << >>
    /\ wire' = <<held>>
    /\ UNCHANGED <<held, plan, online, seen>>

Shows ==
    /\ online /\ wire # << >>
    /\ seen' = Head(wire) /\ wire' = << >>
    /\ UNCHANGED <<held, plan, online>>

\* What is on the wire stays there while the computer sleeps, or is lost.
GoesOffline ==
    /\ online
    /\ online' = FALSE /\ plan' = << >>
    /\ UNCHANGED <<held, wire, seen>>

IsNotWatched(report) ==
    /\ ~online
    /\ held' = report /\ wire' \in {wire, << >>}
    /\ UNCHANGED <<plan, online, seen>>

\* A session ends: the computer lets go of every key itself.
IsForgotten ==
    /\ online' = FALSE /\ plan' = << >> /\ wire' = << >> /\ seen' = NoKeys
    /\ UNCHANGED held

ComesOnline ==
    /\ ~online
    /\ online' = TRUE /\ plan' \in FreshPlans(held)
    /\ UNCHANGED <<held, wire, seen>>

Next == \/ \E report \in Reports :
               Follows(report) \/ StartsOver(report) \/ IsNotWatched(report)
        \/ Sends \/ Repeats \/ Shows
        \/ GoesOffline \/ IsForgotten \/ ComesOnline

Spec == Init /\ [][Next]_vars

-----------------------------------------------------------------------------
(* From one report to another only as the keyboard went, through a release *)
(* of everything, or into a recovery.                                      *)
Legal(from, to) == \/ from = to
                   \/ NoKeys \in {from, to}
                   \/ to \in Recoveries
                   \/ <<from, to>> \in Steps

(* The computer is never shown a chord that the keyboard did not go        *)
(* through: what may be left out is never left out of the middle           *)
(* (report_pipe.c:21-30 and 71-84 with usb_keyboard.c:151-188, abstractly).*)
SeenIsLegal == [][Legal(seen, seen')]_vars

(* A relay that has nothing left to show has shown what the keyboard holds *)
(* (the same code).                                                        *)
QuietRelayAgrees == online /\ plan = << >> /\ wire = << >> => seen = held
=============================================================================
