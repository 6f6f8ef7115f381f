------------------------ MODULE KeyboardRelay_proofs ------------------------
(***************************************************************************)
(* What every implementation of KeyboardRelay owes to the computer, proved *)
(* for any reports, recoveries and keyboard.                               *)
(***************************************************************************)
EXTENDS KeyboardRelay, SequenceTheorems, TLAPS

AllReports == Reports \cup Recoveries \cup {NoKeys}

\* What the computer has seen once the report on the wire is polled.
Shown == IF wire = << >> THEN seen ELSE wire[1]

TypeInv == /\ {held, seen} \subseteq AllReports
           /\ plan \in Seq(AllReports)
           /\ wire = << >> \/ \E report \in AllReports : wire = <<report>>
           /\ online \in BOOLEAN

LegalPlan(reports) ==
    \A i \in 1 .. Len(reports) - 1 : Legal(reports[i], reports[i + 1])

\* Everything still to be shown is legal where it is, and ends on held.
PlanInv == /\ wire # << >> => Legal(seen, wire[1])
           /\ plan # << >> => Legal(Shown, plan[1])
           /\ LegalPlan(plan)
           /\ ~online => plan = << >>
           /\ online => held = IF plan = << >> THEN Shown ELSE plan[Len(plan)]

Inv == TypeInv /\ PlanInv

-----------------------------------------------------------------------------
\* A fresh plan may follow whatever was shown, is legal, and ends on the report.
LEMMA FreshPlan ==
    ASSUME NEW report \in AllReports, NEW fresh \in FreshPlans(report)
    PROVE  /\ fresh \in Seq(AllReports) /\ fresh # << >>
           /\ \A from : Legal(from, fresh[1])
           /\ LegalPlan(fresh)
           /\ fresh[Len(fresh)] = report
<1>1. PICK start \in {<<NoKeys>>} \cup {<<recovery, NoKeys>> : recovery \in Recoveries} :
          \/ report = NoKeys /\ fresh = start
          \/ fresh = Append(start, report)
  BY DEF FreshPlans
<1>2. /\ start \in Seq(AllReports) /\ Len(start) \in 1 .. 2
      /\ start[Len(start)] = NoKeys /\ LegalPlan(start)
      /\ \A from : Legal(from, start[1])
  <2>1. CASE start = <<NoKeys>>
    BY <2>1 DEF AllReports, Legal, LegalPlan
  <2>2. CASE \E recovery \in Recoveries : start = <<recovery, NoKeys>>
    <3>1. PICK recovery \in Recoveries : start = <<recovery, NoKeys>>  BY <2>2
    <3>2. /\ Len(start) = 2 /\ start[1] = recovery /\ start[2] = NoKeys
          /\ start \in Seq(AllReports)
      BY <3>1 DEF AllReports
    <3>3. \A i \in 1 .. Len(start) - 1 : i = 1  BY <3>2
    <3>4. LegalPlan(start)  BY <3>2, <3>3 DEF LegalPlan, Legal
    <3> QED  BY <3>2, <3>4 DEF Legal
  <2> QED  BY <2>1, <2>2
<1>3. CASE report = NoKeys /\ fresh = start
  <2>1. fresh = start  BY <1>3
  <2>2. start # << >>  BY <1>2
  <2> QED  BY <2>1, <2>2, <1>2, <1>3
<1>4. CASE fresh = Append(start, report)
  <2>1. /\ fresh \in Seq(AllReports) /\ Len(fresh) = Len(start) + 1
        /\ \A i \in 1 .. Len(start) : fresh[i] = start[i]
        /\ fresh[Len(start) + 1] = report
    BY <1>2, <1>4, AppendProperties
  <2>2. LegalPlan(fresh)
    <3> SUFFICES ASSUME NEW i \in 1 .. Len(start)
                 PROVE  Legal(fresh[i], fresh[i + 1])
      BY <1>2, <2>1 DEF LegalPlan
    <3>1. CASE i = Len(start)
      BY <3>1, <1>2, <2>1 DEF Legal
    <3>2. CASE i # Len(start)
      BY <3>2, <1>2, <2>1 DEF LegalPlan
    <3> QED  BY <3>1, <3>2
  <2> QED  BY <1>2, <2>1, <2>2
<1> QED  BY <1>1, <1>3, <1>4

(* The invariant holds at first, with nothing planned.                     *)
LEMMA InitInv == Init => Inv
<1> SUFFICES ASSUME Init PROVE Inv  OBVIOUS
<1>1. TypeInv  BY EmptySeq DEF Init, TypeInv, AllReports
<1>2. PlanInv
  <2>1. Len(plan) = 0  BY DEF Init
  <2> QED  BY <2>1 DEF Init, PlanInv, LegalPlan, Shown
<1> QED  BY <1>1, <1>2 DEF Inv

(* A report added to the plan keeps it legal.                              *)
LEMMA FollowsInv ==
    ASSUME Inv, NEW report \in Reports, Follows(report)
    PROVE  Inv'
<1> USE DEF Inv, Follows
<1>1. report \in AllReports  BY DEF AllReports
<1>2. TypeInv'  BY <1>1 DEF TypeInv
<1>3. /\ plan' # << >> /\ Len(plan') = Len(plan) + 1
      /\ plan'[Len(plan')] = report
      /\ \A i \in 1 .. Len(plan) : plan'[i] = plan[i]
  BY <1>1 DEF TypeInv
<1>4. Legal(held, report)  BY DEF Legal
<1>5. Shown' = Shown  BY DEF Shown
<1>6. LegalPlan(plan)'
  <2> SUFFICES ASSUME NEW i \in 1 .. Len(plan)
               PROVE  Legal(plan'[i], plan'[i + 1])
    BY <1>3 DEF LegalPlan, Legal
  <2>1. CASE i = Len(plan)
    <3>1. plan # << >> /\ held = plan[i]  BY <2>1 DEF TypeInv, PlanInv
    <3> QED  BY <3>1, <2>1, <1>3, <1>4
  <2>2. CASE i # Len(plan)
    <3>1. i \in 1 .. Len(plan) - 1 /\ i + 1 \in 1 .. Len(plan)  BY <2>2 DEF TypeInv
    <3> QED  BY <3>1, <1>3 DEF PlanInv, LegalPlan
  <2> QED  BY <2>1, <2>2
<1>7. Legal(Shown, plan[1])'
  <2>1. CASE plan = << >>
    <3>1. plan'[1] = report  BY <2>1, <1>3
    <3> QED  BY <3>1, <2>1, <1>4, <1>5 DEF PlanInv, Legal
  <2>2. CASE plan # << >>
    <3>1. plan'[1] = plan[1]  BY <2>2, <1>3 DEF TypeInv
    <3> QED  BY <3>1, <2>2, <1>5 DEF PlanInv, Legal
  <2> QED  BY <2>1, <2>2
<1> QED  BY <1>2, <1>3, <1>6, <1>7 DEF PlanInv, Legal

(* So does a plan that starts over.                                        *)
LEMMA StartsOverInv ==
    ASSUME Inv, NEW report \in Reports, StartsOver(report)
    PROVE  Inv'
<1> USE DEF Inv, StartsOver
<1>1. report \in AllReports /\ plan' \in FreshPlans(report)  BY DEF AllReports
<1>2. /\ plan' \in Seq(AllReports) /\ plan' # << >>
      /\ \A from : Legal(from, plan'[1])
      /\ LegalPlan(plan') /\ plan'[Len(plan')] = report
  BY <1>1, FreshPlan
<1>3. TypeInv'  BY <1>1, <1>2 DEF TypeInv
<1>4. Legal(Shown, plan[1])' /\ LegalPlan(plan)'
  BY <1>2 DEF Legal, LegalPlan
<1> QED  BY <1>2, <1>3, <1>4 DEF PlanInv, Legal

(* Sending what is planned shows it, and leaves a legal rest.              *)
LEMMA SendsInv ==
    ASSUME Inv, Sends
    PROVE  Inv'
<1> USE DEF Inv, Sends
<1>1. /\ plan[1] \in AllReports /\ Head(plan) = plan[1]
      /\ plan' \in Seq(AllReports) /\ Len(plan') = Len(plan) - 1
      /\ \A i \in 1 .. Len(plan') : plan'[i] = plan[i + 1]
  BY DEF TypeInv
<1>2. wire' = <<plan[1]>> /\ Shown' = plan[1] /\ Shown = seen
  BY <1>1 DEF Shown
<1>3. TypeInv'  BY <1>1, <1>2 DEF TypeInv
<1>4. Legal(seen, wire[1])'  BY <1>2 DEF PlanInv, Legal
<1>5. LegalPlan(plan)'
  <2> SUFFICES ASSUME NEW i \in 1 .. Len(plan') - 1
               PROVE  Legal(plan'[i], plan'[i + 1])
    BY DEF LegalPlan, Legal
  <2>1. /\ i + 1 \in 1 .. Len(plan) - 1
        /\ plan'[i] = plan[i + 1] /\ plan'[i + 1] = plan[(i + 1) + 1]
    BY <1>1 DEF TypeInv
  <2> QED  BY <2>1 DEF PlanInv, LegalPlan
<1>6. (plan # << >> => Legal(Shown, plan[1]))'
  <2> SUFFICES ASSUME plan' # << >>
               PROVE  Legal(Shown', plan'[1])
    BY DEF Legal
  <2>1. 1 \in 1 .. Len(plan) - 1 /\ plan'[1] = plan[1 + 1]
    BY <1>1 DEF TypeInv
  <2> QED  BY <2>1, <1>2 DEF PlanInv, LegalPlan
<1>7. held' = (IF plan = << >> THEN Shown ELSE plan[Len(plan)])'
  <2>1. held = plan[Len(plan)]  BY DEF PlanInv
  <2>2. CASE plan' = << >>
    <3>1. Len(plan') = 0
      <4> HIDE DEF Sends
      <4> QED  BY <2>2, EmptySeq
    <3>2. Len(plan) = 1  BY <3>1, <1>1 DEF TypeInv
    <3> QED  BY <3>2, <2>1, <2>2, <1>2
  <2>3. CASE plan' # << >>
    <3>1. plan'[Len(plan')] = plan[Len(plan)]  BY <2>3, <1>1 DEF TypeInv
    <3> QED  BY <3>1, <2>1, <2>3
  <2> QED  BY <2>2, <2>3
<1> QED  BY <1>3, <1>4, <1>5, <1>6, <1>7 DEF PlanInv, Legal

(* The other steps keep the invariant too.                                 *)
LEMMA OtherStepsInv ==
    ASSUME Inv,
           \/ Repeats \/ Shows \/ GoesOffline \/ IsForgotten \/ ComesOnline
           \/ \E report \in Reports : IsNotWatched(report)
           \/ UNCHANGED vars
    PROVE  Inv'
<1> USE DEF Inv
<1>1. CASE Repeats
  BY <1>1 DEF Repeats, TypeInv, PlanInv, LegalPlan, Legal, Shown
<1>2. CASE Shows
  BY <1>2 DEF Shows, TypeInv, PlanInv, LegalPlan, Legal, Shown
<1>3. CASE GoesOffline
  <2>1. TypeInv'  BY <1>3, EmptySeq DEF GoesOffline, TypeInv
  <2>2. Len(plan') = 0  BY <1>3 DEF GoesOffline
  <2>3. LegalPlan(plan)'  BY <2>2 DEF LegalPlan, Legal
  <2> QED  BY <1>3, <2>1, <2>3 DEF GoesOffline, PlanInv, Legal
<1>4. CASE IsForgotten
  <2>1. TypeInv'  BY <1>4, EmptySeq DEF IsForgotten, TypeInv, AllReports
  <2>2. Len(plan') = 0  BY <1>4 DEF IsForgotten
  <2>3. LegalPlan(plan)'  BY <2>2 DEF LegalPlan, Legal
  <2> QED  BY <1>4, <2>1, <2>3 DEF IsForgotten, PlanInv
<1>5. CASE ComesOnline
  <2>1. held \in AllReports /\ plan' \in FreshPlans(held)
    BY <1>5 DEF ComesOnline, TypeInv
  <2>2. /\ plan' \in Seq(AllReports) /\ plan' # << >>
        /\ \A from : Legal(from, plan'[1])
        /\ LegalPlan(plan') /\ plan'[Len(plan')] = held
    BY <2>1, FreshPlan
  <2>3. Legal(Shown, plan[1])' /\ LegalPlan(plan)'
    BY <2>2 DEF Legal, LegalPlan
  <2> QED  BY <1>5, <2>2, <2>3 DEF ComesOnline, TypeInv, PlanInv, Legal
<1>6. CASE \E report \in Reports : IsNotWatched(report)
  BY <1>6 DEF IsNotWatched, TypeInv, PlanInv, LegalPlan, Legal, Shown, AllReports
<1>7. CASE UNCHANGED vars
  BY <1>7 DEF vars, TypeInv, PlanInv, LegalPlan, Legal, Shown
<1> QED  BY <1>1, <1>2, <1>3, <1>4, <1>5, <1>6, <1>7

-----------------------------------------------------------------------------
(* The plan is always legal and ends on what the keyboard holds: the       *)
(* invariant the other theorems rest on.                                   *)
THEOREM RelayInvariance == Spec => []Inv
<1>1. Inv /\ [Next]_vars => Inv'
  <2> SUFFICES ASSUME Inv, [Next]_vars PROVE Inv'  OBVIOUS
  <2> QED  BY FollowsInv, StartsOverInv, SendsInv, OtherStepsInv DEF Next
<1> QED  BY InitInv, <1>1, PTL DEF Spec

(* A computer never sees a chord the keyboard did not go through, whatever *)
(* is left out, lost or started over (usb_keyboard.c and report_pipe.c, as *)
(* far as they implement the relay).                                       *)
THEOREM SeenStaysLegal == Spec => SeenIsLegal
<1>1. Inv /\ [Next]_vars => [Legal(seen, seen')]_vars
  <2> SUFFICES ASSUME Inv, Next PROVE Legal(seen, seen')
    BY DEF Legal
  <2>1. CASE Shows
    BY <2>1 DEF Shows, Inv, TypeInv, PlanInv
  <2>2. CASE IsForgotten
    BY <2>2 DEF IsForgotten, Legal
  <2>3. CASE ~Shows /\ ~IsForgotten
    <3>1. seen' = seen
      BY <2>3 DEF Next, Follows, StartsOver, IsNotWatched, Sends, Repeats,
                  GoesOffline, ComesOnline
    <3> QED  BY <3>1 DEF Legal
  <2> QED  BY <2>1, <2>2, <2>3
<1> QED  BY <1>1, RelayInvariance, PTL DEF Spec, SeenIsLegal

(* With nothing left to show, the computer has seen what the keyboard      *)
(* holds (the same code).                                                  *)
THEOREM QuietRelayHasAgreed == Spec => []QuietRelayAgrees
<1>1. Inv => QuietRelayAgrees
  BY DEF Inv, PlanInv, QuietRelayAgrees, Shown
<1> QED  BY <1>1, RelayInvariance, PTL
=============================================================================
