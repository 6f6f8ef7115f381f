-------------------------- MODULE UsbKeyboard_proofs --------------------------
(***************************************************************************)
(* The safety of the USB adapter for every keyboard, ring, number of       *)
(* epochs and recovery mask, and that the adapter, the pipe and the bus    *)
(* implement KeyboardRelay.                                                *)
(***************************************************************************)
EXTENDS UsbKeyboard, ReportPipeOps_proofs

\* What each wait of the bus means for the adapter and its pipe.
BusInv ==
    /\ ~TudMounted => /\ endpoint = EmptyEndpoint /\ wakeSignals = 0
                      /\ sessionLeds = LedsOff
    /\ TudMounted => mounted
    /\ TudMounted /\ ~busSuspended => pipe.active
    /\ suspended \/ busSuspended => ~pipe.active
    /\ suspended => inFlight = << >>
    /\ wakeSignals <= 1
    /\ busSuspended /\ wakeSignals > 0 => wakeRequested

\* The last report that was sent, whether or not the host has polled for it.
LastSent == IF endpoint.status = "armed" THEN endpoint.report ELSE hostReport

\* A host that has nothing more coming has been sent the latest state ...
SentInv ==
    Watched /\ pipe.items = << >> => LastSent = BootReport(pipe.latest)

\* ... and if that answers a wake request, its completion will clear it.
WakeInv ==
    Watched /\ pipe.items = << >> /\ pipe.wakePending =>
        /\ inFlight = <<Item(pipe.latest, pipe.epoch)>>
        /\ endpoint.status # "idle"

\* Hosts that leave no activation of the pipe without a fresh queue.
Recovers == \/ RecoveryModifiers # {}
            \/ {"earlySuspend", "fastEnumeration"} \cap HostHabits = {}

\* What holds only where the host has no habit that breaks it.
HabitInv ==
    /\ "earlySuspend" \notin HostHabits => /\ busSuspended => TudMounted
                                           /\ pipe.active => mounted
    /\ "fastEnumeration" \notin HostHabits => /\ mounted \/ hostLeds = LedsOff
                                              /\ TudMounted => hostLeds = sessionLeds

IInv == /\ TypeOK /\ SoundPipe(pipe) /\ BusInv /\ HabitInv
        /\ Recovers => SentInv /\ WakeInv

-----------------------------------------------------------------------------
(* What the reports and the endpoint are made of.                          *)

(* Encoding a state gives a boot report.                                   *)
LEMMA BootReportType ==
    ASSUME NEW state
    PROVE  BootReport(state) \in BootReports
BY DEF BootReport, BootReports

(* No key gives the blank one, an empty endpoint is an endpoint.           *)
LEMMA EmptyEndpointType ==
    BlankReport \in BootReports /\ EmptyEndpoint \in EndpointStates
<1>1. BlankReport \in BootReports
  BY BootReportType DEF BlankReport
<1> QED
  BY <1>1, ReleasedIsState DEF EmptyEndpoint, EndpointStates

(* An item has a state and an epoch.                                       *)
LEMMA ItemType ==
    ASSUME NEW state, NEW epoch
    PROVE  /\ Item(state, epoch).state = state /\ Item(state, epoch).epoch = epoch
           /\ state \in KeyboardStates /\ epoch \in Epochs
                => Item(state, epoch) \in Items
BY DEF Item, Items

-----------------------------------------------------------------------------
(* The invariant holds at first and is kept by every step.                 *)

(* A bridge that has just booted.                                          *)
LEMMA InitIInv == Init => IInv
<1> SUFFICES ASSUME Init PROVE IInv
  OBVIOUS
<1>1. /\ InitialPipe \in Pipes /\ InitialPipe.items = << >>
      /\ ~InitialPipe.active /\ InitialPipe.latest = Released
  <2>1. << >> \in Seq(Items)
    BY EmptySeq
  <2> QED
    BY <2>1, ReleasedIsState DEF InitialPipe, Pipes
<1>2. pipe = InitialPipe
  <2>1. pipe = SetActive(InitialPipe, FALSE)
    BY DEF Init
  <2>2. InitialPipe.active = FALSE
    BY DEF InitialPipe
  <2> QED
    BY <2>1, <2>2 DEF SetActive
<1>3. SoundPipe(pipe)
  BY <1>1, <1>2, PipeAssumption DEF SoundPipe
<1>4. TypeOK
  <2>1. pipe \in Pipes /\ Len(pipe.items) <= Capacity
    BY <1>3 DEF SoundPipe
  <2>2. << >> \in Seq(Items) /\ Len(<< >>) <= 1
    BY EmptySeq
  <2>3. hostModifiers \subseteq Modifiers /\ {hostLeds, sessionLeds} \subseteq Leds
    BY AdapterAssumption DEF Init
  <2>4. bus \in BusStates /\ hostEpoch \in Epochs /\ wakeSignals \in 0 .. 2
    BY ReleasedIsState DEF Init, BusStates
  <2>5. endpoint \in EndpointStates /\ hostReport \in BootReports
    BY EmptyEndpointType DEF Init
  <2>6. {mounted, suspended, remoteWakeupEnabled, wakeRequested,
         wakeDelayElapsed, idleReporting, busSuspended} \subseteq BOOLEAN
    BY DEF Init
  <2>7. inFlight \in Seq(Items) /\ Len(inFlight) <= 1
    BY <2>2 DEF Init
  <2> QED
    BY <2>1, <2>3, <2>4, <2>5, <2>6, <2>7 DEF TypeOK
<1>5. BusInv /\ HabitInv
  <2>1. ~TudMounted /\ ~busSuspended /\ ~pipe.active
    BY <1>1, <1>2 DEF Init, TudMounted
  <2>2. /\ endpoint = EmptyEndpoint /\ wakeSignals = 0 /\ inFlight = << >>
        /\ sessionLeds = LedsOff /\ hostLeds = LedsOff
    BY DEF Init
  <2> QED
    BY <2>1, <2>2 DEF BusInv, HabitInv
<1>6. SentInv /\ WakeInv
  BY DEF Init, SentInv, WakeInv, Watched, TudMounted
<1> QED
  BY <1>3, <1>4, <1>5, <1>6 DEF IInv

(* The source changes the pipe, and only the pipe.                         *)
LEMMA SourceStep ==
    ASSUME IInv, SourcePublishes \/ SourceResets
    PROVE  IInv'
<1>1. /\ SoundPipe(pipe') /\ pipe'.active = pipe.active
      /\ pipe' = pipe \/ (pipe'.active => pipe'.items # << >>)
      /\ UNCHANGED <<adapterVars, busVars, hostVars>>
  <2> pipe \in Pipes /\ SoundPipe(pipe)
    BY DEF IInv, SoundPipe
  <2>1. CASE SourcePublishes
    <3>1. PICK state \in SourceStates, epoch \in EpochsFrom(pipe.epoch) :
              /\ pipe' = Publish(pipe, state, epoch)
              /\ UNCHANGED <<adapterVars, busVars, hostVars>>
      BY <2>1 DEF SourcePublishes
    <3>2. state \in KeyboardStates /\ epoch \in Epochs /\ epoch >= pipe.epoch
      BY AdapterAssumption DEF EpochsFrom
    <3> DEFINE q == Publish(pipe, state, epoch)
    <3>3. /\ SoundPipe(q) /\ q.active = pipe.active
          /\ q = pipe \/ (q.active => q.items # << >>)
      BY <3>2, PublishIsSound, ZenonT(60)
    <3> QED
      BY <3>1, <3>3
  <2>2. CASE SourceResets
    <3>1. PICK epoch \in EpochsFrom(pipe.epoch) :
              /\ pipe' = SourceReset(pipe, epoch)
              /\ UNCHANGED <<adapterVars, busVars, hostVars>>
      BY <2>2 DEF SourceResets
    <3>2. epoch \in Epochs /\ epoch >= pipe.epoch
      BY DEF EpochsFrom
    <3>3. pipe.epoch \in Int /\ epoch \in Int
      BY <3>2, PipeAssumption DEF Pipes, Epochs
    <3>4. pipe' = BeginEpoch(pipe, epoch)
      BY <3>1, <3>2, <3>3 DEF SourceReset
    <3>5. <<Item(Released, epoch)>> # << >>
      OBVIOUS
    <3> QED
      BY SMTT(20), <3>1, <3>2, <3>4, <3>5, BeginEpochIsSound
  <2> QED
    BY <2>1, <2>2
<1> USE <1>1 DEF adapterVars, busVars, hostVars
<1>2. TypeOK'
  BY DEF IInv, TypeOK, SoundPipe
<1>3. BusInv' /\ HabitInv'
  BY DEF IInv, BusInv, HabitInv, TudMounted
<1>4. (SentInv /\ WakeInv => SentInv' /\ WakeInv')
  BY DEF SentInv, WakeInv, Watched, TudMounted, LastSent
<1> QED
  BY <1>2, <1>3, <1>4 DEF IInv

(* The steps that leave the pipe alone.                                    *)
LEMMA QuietStep ==
    ASSUME IInv,
           \/ HostAddresses \/ BusResets \/ TaskWakesHost \/ WakeDelayElapses
           \/ HostSetsIdle \/ HostSetsLeds \/ HostPolls \/ UNCHANGED vars
    PROVE  IInv'
<1> USE DEF IInv
<1>1. pipe' = pipe
  BY DEF HostAddresses, BusResets, TaskWakesHost, WakeDelayElapses, HostSetsIdle,
         HostSetsLeds, HostPolls, TudHidSetIdleCb, TudHidSetReportCb, vars
<1>2. SoundPipe(pipe)'
  BY <1>1
<1>3. CASE HostAddresses
  <2> USE <1>3 DEF HostAddresses, adapterVars, hostVars
  <2>1. TypeOK'
    BY DEF TypeOK, BusStates
  <2>2. BusInv' /\ HabitInv' /\ SentInv' /\ WakeInv'
    BY DEF BusInv, HabitInv, SentInv, WakeInv, Watched, TudMounted
  <2> QED
    BY <1>2, <2>1, <2>2
<1>4. CASE BusResets
  <2> USE <1>4 DEF BusResets, SessionEnds, adapterVars
  <2>1. TypeOK'
    <3>1. hostModifiers' \subseteq Modifiers
      BY DEF TypeOK
    <3>2. bus' \in BusStates /\ endpoint' \in EndpointStates
          /\ hostReport' \in BootReports /\ hostEpoch' \in Epochs
          /\ sessionLeds' \in Leds /\ wakeSignals' \in 0 .. 2
      BY EmptyEndpointType, ReleasedIsState, AdapterAssumption DEF BusStates
    <3> QED
      BY <3>1, <3>2 DEF TypeOK
  <2>2. BusInv'
    BY DEF BusInv, TudMounted
  <2>3. HabitInv' /\ SentInv' /\ WakeInv'
    BY DEF HabitInv, SentInv, WakeInv, Watched, TudMounted
  <2> QED
    BY <1>2, <2>1, <2>2, <2>3
<1>5. CASE TaskWakesHost
  <2> USE <1>5 DEF TaskWakesHost, hostVars
  <2>1. wakeSignals = 0 /\ wakeSignals' = 1
    BY DEF BusInv, TypeOK
  <2>2. TypeOK'
    BY <2>1 DEF TypeOK
  <2>3. BusInv' /\ HabitInv'
    BY <2>1 DEF BusInv, HabitInv, TudMounted
  <2>4. SentInv /\ WakeInv => SentInv' /\ WakeInv'
    BY DEF SentInv, WakeInv, Watched, TudMounted, LastSent
  <2> QED
    BY <1>2, <2>2, <2>3, <2>4
<1>6. CASE WakeDelayElapses \/ HostSetsIdle
  <2> USE <1>6 DEF WakeDelayElapses, HostSetsIdle, TudHidSetIdleCb, busVars, hostVars
  <2>1. TypeOK'
    BY DEF TypeOK
  <2>2. BusInv' /\ HabitInv'
    BY DEF BusInv, HabitInv, TudMounted
  <2>3. SentInv /\ WakeInv => SentInv' /\ WakeInv'
    BY DEF SentInv, WakeInv, Watched, TudMounted, LastSent
  <2> QED
    BY <1>2, <2>1, <2>2, <2>3
<1>7. CASE HostSetsLeds
  <2> USE <1>7 DEF HostSetsLeds, TudHidSetReportCb, busVars
  <2>1. TypeOK'
    BY DEF TypeOK
  <2>2. BusInv' /\ HabitInv'
    BY DEF BusInv, HabitInv, TudMounted
  <2>3. SentInv /\ WakeInv => SentInv' /\ WakeInv'
    BY DEF SentInv, WakeInv, Watched, TudMounted, LastSent
  <2> QED
    BY <1>2, <2>1, <2>2, <2>3
<1>8. CASE HostPolls
  <2> USE <1>8 DEF HostPolls, adapterVars
  <2>1. /\ endpoint' \in EndpointStates /\ endpoint'.status = "done"
        /\ endpoint.report \in BootReports /\ endpoint.epoch \in Epochs
        /\ endpoint.report.modifiers \subseteq Modifiers
    BY DEF TypeOK, EndpointStates, BootReports
  <2>2. TypeOK'
    BY <2>1 DEF TypeOK
  <2>3. TudMounted
    BY DEF BusInv, EmptyEndpoint
  <2>4. BusInv' /\ HabitInv'
    BY <2>3 DEF BusInv, HabitInv, TudMounted
  <2>5. LastSent' = LastSent
    BY <2>1 DEF LastSent
  <2>6. SentInv /\ WakeInv => SentInv' /\ WakeInv'
    BY <2>1, <2>5 DEF SentInv, WakeInv, Watched, TudMounted
  <2> QED
    BY <1>2, <2>2, <2>4, <2>6
<1>9. CASE UNCHANGED vars
  <2> USE <1>9 DEF vars, adapterVars, busVars, hostVars
  <2>1. TypeOK'
    BY DEF TypeOK
  <2>2. BusInv' /\ HabitInv'
    BY DEF BusInv, HabitInv, TudMounted
  <2>3. SentInv /\ WakeInv => SentInv' /\ WakeInv'
    BY DEF SentInv, WakeInv, Watched, TudMounted, LastSent
  <2> QED
    BY <1>2, <2>1, <2>2, <2>3
<1> QED
  BY <1>3, <1>4, <1>5, <1>6, <1>7, <1>8, <1>9

(* Leaving a configuration, noticed by the task or reported by TinyUSB.    *)
LEMMA SessionStep ==
    ASSUME IInv, TaskSeesReset \/ HostLeaves
    PROVE  IInv'
<1> USE DEF IInv
<1>1. /\ SoundPipe(pipe') /\ ~pipe'.active
      /\ ~mounted' /\ ~suspended' /\ ~remoteWakeupEnabled' /\ ~wakeRequested'
      /\ ~wakeDelayElapsed' /\ ~idleReporting'
      /\ inFlight' = << >> /\ hostLeds' = LedsOff
  <2>1. ForgetSession
    BY DEF TaskSeesReset, HostLeaves, TudUmountCb
  <2> DEFINE q == SetActive(pipe, FALSE)
  <2>2. q \in Pipes /\ SoundPipe(q) /\ ~q.active
    BY SetActiveIsSound DEF SoundPipe
  <2>3. SoundPipe(TakeWakeRequest(q)) /\ TakeWakeRequest(q).active = q.active
    <3> HIDE DEF q
    <3> QED
      BY <2>2, WakeIsSound
  <2> QED
    BY <2>1, <2>2, <2>3 DEF ForgetSession
<1>2. \/ /\ UNCHANGED <<hostReport, hostEpoch, hostModifiers, sessionLeds,
                        bus, busSuspended, endpoint, wakeSignals>>
         /\ ~TudMounted
      \/ /\ hostReport' = BlankReport /\ hostEpoch' = 0 /\ sessionLeds' = LedsOff
         /\ hostModifiers' \in {{}, hostModifiers}
         /\ bus' \in {"detached", "addressed"} /\ busSuspended' = FALSE
         /\ endpoint' = EmptyEndpoint /\ wakeSignals' = 0
  BY DEF TaskSeesReset, HostLeaves, SessionEnds, busVars, hostVars
<1>3. ~TudMounted'
  BY <1>2 DEF TudMounted
<1>4. TypeOK'
  <2>1. hostModifiers' \subseteq Modifiers
    BY <1>2 DEF TypeOK
  <2>2. bus' \in BusStates /\ endpoint' \in EndpointStates
        /\ hostReport' \in BootReports /\ hostEpoch' \in Epochs
        /\ sessionLeds' \in Leds /\ wakeSignals' \in 0 .. 2
        /\ busSuspended' \in BOOLEAN
    <3>1. CASE TaskSeesReset
      BY <3>1 DEF TaskSeesReset, busVars, hostVars, TypeOK
    <3>2. CASE HostLeaves
      <4>1. bus' \in BusStates
        BY <3>2 DEF HostLeaves, BusStates
      <4>2. /\ hostReport' = BlankReport /\ hostEpoch' = 0 /\ sessionLeds' = LedsOff
            /\ busSuspended' = FALSE /\ endpoint' = EmptyEndpoint /\ wakeSignals' = 0
        BY <3>2 DEF HostLeaves, SessionEnds
      <4>3. wakeSignals' \in 0 .. 2 /\ hostEpoch' \in Epochs
        BY <4>2, ReleasedIsState
      <4> QED
        BY <4>1, <4>2, <4>3, EmptyEndpointType, AdapterAssumption
    <3> QED
      BY <3>1, <3>2
  <2>3. pipe' \in Pipes /\ Len(pipe'.items) <= Capacity
    BY <1>1 DEF SoundPipe
  <2>4. inFlight' \in Seq(Items) /\ Len(inFlight') <= 1
    BY <1>1, EmptySeq
  <2>5. hostLeds' \in Leds
    BY <1>1, AdapterAssumption
  <2>6. {mounted', suspended', remoteWakeupEnabled', wakeRequested',
         wakeDelayElapsed', idleReporting'} \subseteq BOOLEAN
    BY DEF TaskSeesReset, HostLeaves, TudUmountCb, ForgetSession
  <2> QED
    BY <2>1, <2>2, <2>3, <2>4, <2>5, <2>6 DEF TypeOK
<1>5. BusInv' /\ HabitInv'
  BY <1>1, <1>2, <1>3 DEF BusInv, HabitInv, TudMounted
<1>6. SentInv' /\ WakeInv'
  BY <1>3 DEF SentInv, WakeInv, Watched
<1> QED
  BY <1>1, <1>4, <1>5, <1>6

(* Being configured leaves the pipe active, with a fresh queue unless it   *)
(* was active before and nothing is recovered.                             *)
LEMMA MountedPipe ==
    ASSUME NEW p \in Pipes, SoundPipe(p)
    PROVE  LET q == RequestModifierRecovery(
                        SetActive(TakeWakeRequest(p), TRUE), RecoveryModifiers) IN
           /\ SoundPipe(q) /\ q.active /\ ~q.wakePending
           /\ q.latest = p.latest /\ q.epoch = p.epoch
           /\ RecoveryModifiers # {} =>
                /\ q.items # << >>
                /\ q.items = FreshItems(q, <<Item(RecoveryModifiers, q.epoch),
                                            Item(Released, q.epoch)>>)
           /\ RecoveryModifiers = {} /\ ~p.active =>
                /\ q.items # << >>
                /\ q.items = FreshItems(q, <<Item(Released, q.epoch)>>)
<1> DEFINE t == TakeWakeRequest(p)
           a == SetActive(t, TRUE)
           q == RequestModifierRecovery(a, RecoveryModifiers)
<1>1. /\ SoundPipe(t) /\ t \in Pipes /\ ~t.wakePending
      /\ t.latest = p.latest /\ t.epoch = p.epoch /\ t.active = p.active
  BY WakeIsSound DEF SoundPipe
<1> HIDE DEF t
<1>2. /\ SoundPipe(a) /\ a \in Pipes /\ a.active /\ ~a.wakePending
      /\ a.latest = p.latest /\ a.epoch = p.epoch
      /\ ~p.active => /\ a.items # << >>
                      /\ a.items = FreshItems(t, <<Item(Released, t.epoch)>>)
  BY <1>1, SetActiveIsSound DEF SoundPipe
<1> HIDE DEF a
<1>3. /\ SoundPipe(q) /\ SameButItems(a, q)
      /\ RecoveryModifiers = {} => q = a
      /\ RecoveryModifiers # {} =>
           /\ q.items # << >>
           /\ q.items = FreshItems(a, <<Item(RecoveryModifiers, a.epoch),
                                       Item(Released, a.epoch)>>)
  BY <1>2, RecoveryIsSound, AdapterAssumption
<1> HIDE DEF q
<1>4. /\ q.latest = p.latest /\ q.epoch = p.epoch /\ q.active /\ ~q.wakePending
  BY <1>2, <1>3 DEF SameButItems
<1>5. RecoveryModifiers # {} =>
        /\ q.items # << >>
        /\ q.items = FreshItems(q, <<Item(RecoveryModifiers, q.epoch),
                                    Item(Released, q.epoch)>>)
  BY <1>2, <1>3, <1>4 DEF FreshItems
<1>6. RecoveryModifiers = {} /\ ~p.active =>
        /\ q.items # << >>
        /\ q.items = FreshItems(q, <<Item(Released, q.epoch)>>)
  BY <1>1, <1>2, <1>3, <1>4 DEF FreshItems
<1> QED
  BY <1>3, <1>4, <1>5, <1>6 DEF q, a, t

(* SET_CONFIGURATION.                                                      *)
LEMMA ConfigureStep ==
    ASSUME IInv, HostConfigures
    PROVE  IInv'
<1> USE DEF IInv, HostConfigures, TudMountCb
<1> pipe \in Pipes /\ SoundPipe(pipe)
  BY DEF SoundPipe
<1>1. /\ SoundPipe(pipe') /\ pipe'.active
      /\ RecoveryModifiers # {} \/ ~pipe.active => pipe'.items # << >>
  BY MountedPipe
<1>2. TypeOK'
  <2>1. << >> \in Seq(Items) /\ Len(<< >>) <= 1
    BY EmptySeq
  <2>2. inFlight' \in Seq(Items) /\ Len(inFlight') <= 1
    BY <2>1
  <2>3. pipe' \in Pipes /\ Len(pipe'.items) <= Capacity
    BY <1>1 DEF SoundPipe
  <2> QED
    BY <2>2, <2>3 DEF TypeOK, BusStates, hostVars
<1>3. BusInv' /\ HabitInv'
  BY <1>1 DEF BusInv, HabitInv, TudMounted, hostVars
<1>4. Recovers => SentInv' /\ WakeInv'
  <2> SUFFICES ASSUME Recovers PROVE pipe'.items # << >>
    BY DEF SentInv, WakeInv
  <2>1. RecoveryModifiers # {} \/ ~pipe.active
    BY DEF Recovers, HabitInv
  <2> QED
    BY <1>1, <2>1
<1> QED
  BY <1>1, <1>2, <1>3, <1>4

(* The bus falls asleep: the pipe drops what it held.                      *)
LEMMA SuspendStep ==
    ASSUME IInv, HostSuspends
    PROVE  IInv'
<1> USE DEF IInv
<1> PICK remoteWakeupEn \in BOOLEAN : TudSuspendCb(remoteWakeupEn)
  BY DEF HostSuspends
<1>1. /\ ~busSuspended /\ busSuspended' = TRUE /\ wakeSignals' = 0
      /\ bus = "configured" \/ "earlySuspend" \in HostHabits
      /\ UNCHANGED <<bus, endpoint, hostReport, hostEpoch, hostModifiers, sessionLeds>>
  BY DEF HostSuspends, hostVars
<1>2. /\ suspended' = TRUE /\ remoteWakeupEnabled' = remoteWakeupEn
      /\ wakeRequested' = FALSE /\ wakeDelayElapsed' = FALSE /\ inFlight' = << >>
      /\ UNCHANGED <<mounted, hostLeds, idleReporting>>
      /\ pipe' = SetActive(pipe, FALSE)
  BY DEF TudSuspendCb
<1>3. SoundPipe(pipe') /\ ~pipe'.active
  BY <1>2, SetActiveIsSound DEF SoundPipe
<1>4. TypeOK'
  <2>1. inFlight' \in Seq(Items) /\ Len(inFlight') <= 1
    BY <1>2, EmptySeq
  <2>2. pipe' \in Pipes /\ Len(pipe'.items) <= Capacity
    BY <1>3 DEF SoundPipe
  <2>3. wakeSignals' \in 0 .. 2 /\ remoteWakeupEnabled' \in BOOLEAN
    BY <1>1, <1>2
  <2> QED
    BY <1>1, <1>2, <2>1, <2>2, <2>3 DEF TypeOK
<1>5. BusInv'
  <2>1. wakeSignals' <= 1 /\ ~(wakeSignals' > 0)
    BY <1>1
  <2> QED
    BY <1>1, <1>2, <1>3, <2>1 DEF BusInv, TudMounted
<1>6. HabitInv'
  BY <1>1, <1>2, <1>3 DEF HabitInv, TudMounted
<1>7. SentInv' /\ WakeInv'
  BY <1>3 DEF SentInv, WakeInv, Watched
<1> QED
  BY <1>3, <1>4, <1>5, <1>6, <1>7

(* The bus wakes up: the pipe starts over.                                 *)
LEMMA ResumeStep ==
    ASSUME IInv, HostResumes
    PROVE  IInv'
<1> USE DEF IInv
<1>1. /\ busSuspended /\ busSuspended' = FALSE
      /\ UNCHANGED <<bus, endpoint, wakeSignals,
                     hostReport, hostEpoch, hostModifiers, sessionLeds>>
  BY DEF HostResumes, hostVars
<1>2. /\ suspended' = FALSE /\ remoteWakeupEnabled' = FALSE
      /\ wakeRequested' = FALSE /\ wakeDelayElapsed' = FALSE /\ inFlight' = << >>
      /\ UNCHANGED <<mounted, hostLeds, idleReporting>>
      /\ pipe' = SetActive(pipe, TRUE)
  BY DEF HostResumes, TudResumeCb
<1>3. SoundPipe(pipe') /\ pipe'.active /\ pipe'.items # << >>
  <2>1. ~pipe.active
    BY <1>1 DEF BusInv
  <2> QED
    BY <1>2, <2>1, SetActiveIsSound DEF SoundPipe
<1>4. TypeOK'
  <2>1. inFlight' \in Seq(Items) /\ Len(inFlight') <= 1
    BY <1>2, EmptySeq
  <2>2. pipe' \in Pipes /\ Len(pipe'.items) <= Capacity
    BY <1>3 DEF SoundPipe
  <2> QED
    BY <1>1, <1>2, <2>1, <2>2 DEF TypeOK
<1>5. BusInv'
  BY <1>1, <1>2, <1>3 DEF BusInv, TudMounted
<1>6. HabitInv'
  BY <1>1, <1>2, <1>3 DEF HabitInv, BusInv, TudMounted
<1>7. SentInv' /\ WakeInv'
  BY <1>3 DEF SentInv, WakeInv
<1> QED
  BY <1>3, <1>4, <1>5, <1>6, <1>7

(* A report is armed: with the last queued item it is the latest state.    *)
LEMMA SendStep ==
    ASSUME IInv, TaskSends
    PROVE  IInv'
<1> USE DEF IInv
<1> pipe \in Pipes /\ SoundPipe(pipe)
  BY DEF SoundPipe
<1>1. /\ SoundPipe(pipe') /\ SameButItems(pipe, pipe')
      /\ PendingItem \in Items
      /\ pipe'.items = << >> => PendingItem = Item(pipe.latest, pipe.epoch)
  <2>1. CASE pipe.items = << >>
    <3>1. pipe' = pipe /\ PendingItem = Item(pipe.latest, pipe.epoch)
      BY <2>1 DEF TaskSends, Dequeued, PendingItem
    <3>2. pipe.latest \in KeyboardStates /\ pipe.epoch \in Epochs
      BY DEF Pipes
    <3> QED
      BY <3>1, <3>2, ItemType DEF SameButItems
  <2>2. CASE pipe.items # << >>
    BY <2>2, PopIsSound DEF TaskSends, Dequeued, PendingItem
  <2> QED
    BY <2>1, <2>2
<1>2. /\ TudMounted /\ mounted /\ ~suspended /\ ~busSuspended /\ pipe.active
      /\ endpoint' = [status |-> "armed", report |-> BootReport(PendingItem.state),
                      epoch |-> PendingItem.epoch]
      /\ inFlight' = <<PendingItem>>
      /\ UNCHANGED <<mounted, suspended, remoteWakeupEnabled, wakeRequested,
                     wakeDelayElapsed, hostLeds, idleReporting,
                     bus, busSuspended, wakeSignals,
                     hostReport, hostEpoch, hostModifiers, sessionLeds>>
  BY DEF TaskSends, MaySend, TudHidReady, BusInv, hostVars
<1>3. TypeOK'
  <2>1. inFlight' \in Seq(Items) /\ Len(inFlight') <= 1
    BY <1>1, <1>2
  <2>2. pipe' \in Pipes /\ Len(pipe'.items) <= Capacity
    BY <1>1 DEF SoundPipe
  <2>3. endpoint' \in EndpointStates
    BY <1>1, <1>2, BootReportType DEF EndpointStates, Items
  <2> QED
    BY <1>2, <2>1, <2>2, <2>3 DEF TypeOK
<1>4. BusInv' /\ HabitInv'
  BY <1>1, <1>2 DEF BusInv, HabitInv, TudMounted, SameButItems
<1>5. SentInv' /\ WakeInv'
  <2> SUFFICES ASSUME pipe'.items = << >>
               PROVE  /\ LastSent' = BootReport(pipe'.latest)
                      /\ inFlight' = <<Item(pipe'.latest, pipe'.epoch)>>
                      /\ endpoint'.status # "idle"
    BY DEF SentInv, WakeInv
  <2>1. PendingItem = Item(pipe.latest, pipe.epoch)
    BY <1>1
  <2>2. PendingItem.state = pipe.latest
    BY <2>1, ItemType
  <2> QED
    BY <1>1, <1>2, <2>1, <2>2 DEF LastSent, SameButItems
<1> QED
  BY <1>1, <1>3, <1>4, <1>5

(* What starts the queue over: a refused report and a new protocol.        *)
LEMMA ResyncStep ==
    ASSUME IInv, TaskIsRefused \/ HostSetsProtocol
    PROVE  IInv'
<1> USE DEF IInv
<1>1. UNCHANGED <<adapterVars, busVars, hostVars>>
  BY DEF TaskIsRefused, HostSetsProtocol, TudHidSetProtocolCb
<1>2. /\ SoundPipe(pipe') /\ pipe'.active = pipe.active
      /\ pipe'.active => pipe'.items # << >>
  <2>1. PICK p : p \in {pipe, Dequeued} /\ SoundPipe(p) /\ p.active = pipe.active
                 /\ pipe' = RequestResync(p)
    <3>1. CASE HostSetsProtocol
      BY <3>1 DEF HostSetsProtocol, TudHidSetProtocolCb
    <3>2. CASE TaskIsRefused
      <4>1. SoundPipe(Dequeued) /\ Dequeued.active = pipe.active
        BY PopIsSound DEF Dequeued, SoundPipe, SameButItems
      <4> QED
        BY <3>2, <4>1 DEF TaskIsRefused
    <3> QED
      BY <3>1, <3>2
  <2>2. p \in Pipes /\ (~p.active => p.items = << >>)
    BY <2>1 DEF SoundPipe
  <2> QED
    BY <2>1, <2>2, ResyncIsSound DEF SameButItems
<1> USE <1>1, <1>2 DEF adapterVars, busVars, hostVars
<1>3. TypeOK'
  BY DEF TypeOK, SoundPipe
<1>4. BusInv' /\ HabitInv'
  BY DEF BusInv, HabitInv, TudMounted
<1>5. SentInv' /\ WakeInv'
  BY DEF SentInv, WakeInv, Watched, TudMounted
<1> QED
  BY <1>3, <1>4, <1>5

(* The host has the report: the wake request it answers is done with.      *)
LEMMA CompleteStep ==
    ASSUME IInv, ReportCompletes
    PROVE  IInv'
<1> USE DEF IInv
<1> pipe \in Pipes /\ SoundPipe(pipe)
  BY DEF SoundPipe
<1>1. /\ endpoint.status = "done" /\ endpoint' = EmptyEndpoint /\ inFlight' = << >>
      /\ pipe' = IF inFlight = << >> THEN pipe ELSE Acknowledge(pipe, inFlight[1])
      /\ UNCHANGED <<mounted, suspended, remoteWakeupEnabled, wakeRequested,
                     wakeDelayElapsed, hostLeds, idleReporting,
                     bus, busSuspended, wakeSignals,
                     hostReport, hostEpoch, hostModifiers, sessionLeds>>
  BY DEF ReportCompletes, TudHidReportCompleteCb, hostVars
<1>2. /\ SoundPipe(pipe') /\ pipe'.active = pipe.active
      /\ pipe'.items = pipe.items /\ pipe'.latest = pipe.latest
      /\ pipe'.epoch = pipe.epoch
  BY <1>1, WakeIsSound
<1>3. TypeOK'
  <2>1. inFlight' \in Seq(Items) /\ Len(inFlight') <= 1
    BY <1>1, EmptySeq
  <2>2. pipe' \in Pipes /\ Len(pipe'.items) <= Capacity
    BY <1>2 DEF SoundPipe
  <2> QED
    BY <1>1, <2>1, <2>2, EmptyEndpointType DEF TypeOK
<1>4. BusInv' /\ HabitInv'
  BY <1>1, <1>2 DEF BusInv, HabitInv, TudMounted
<1>5. SentInv => SentInv'
  <2>1. LastSent' = LastSent
    BY <1>1 DEF LastSent, EmptyEndpoint
  <2> QED
    BY <1>1, <1>2, <2>1 DEF SentInv, Watched, TudMounted
<1>6. WakeInv => WakeInv'
  <2> SUFFICES ASSUME WakeInv, Watched, pipe.items = << >>, pipe'.wakePending
               PROVE  FALSE
    BY <1>1, <1>2 DEF WakeInv, Watched, TudMounted
  <2>1. pipe.wakePending
    BY <1>1, WakeIsSound
  <2>2. inFlight = <<Item(pipe.latest, pipe.epoch)>>
    BY <2>1 DEF WakeInv
  <2>3. pipe' = Acknowledge(pipe, Item(pipe.latest, pipe.epoch))
    <3>1. inFlight # << >> /\ inFlight[1] = Item(pipe.latest, pipe.epoch)
      BY <2>2
    <3> QED
      BY <1>1, <3>1
  <2> QED
    BY <2>3, WakeIsSound
<1> QED
  BY <1>2, <1>3, <1>4, <1>5, <1>6

(* A report the host never got: the queue starts over if anyone watches.   *)
LEMMA FailStep ==
    ASSUME IInv, ReportFails
    PROVE  IInv'
<1> USE DEF IInv
<1> pipe \in Pipes /\ SoundPipe(pipe)
  BY DEF SoundPipe
<1>1. /\ endpoint' = EmptyEndpoint /\ inFlight' = << >>
      /\ pipe' = IF mounted /\ ~suspended THEN RequestResync(pipe) ELSE pipe
      /\ UNCHANGED <<mounted, suspended, remoteWakeupEnabled, wakeRequested,
                     wakeDelayElapsed, hostLeds, idleReporting,
                     bus, busSuspended, wakeSignals,
                     hostReport, hostEpoch, hostModifiers, sessionLeds>>
  BY DEF ReportFails, TudHidReportFailedCb, hostVars
<1>2. /\ SoundPipe(pipe') /\ pipe'.active = pipe.active
      /\ mounted /\ ~suspended /\ pipe.active => pipe'.items # << >>
  BY <1>1, ResyncIsSound DEF SoundPipe, SameButItems
<1>3. TypeOK'
  <2>1. inFlight' \in Seq(Items) /\ Len(inFlight') <= 1
    BY <1>1, EmptySeq
  <2>2. pipe' \in Pipes /\ Len(pipe'.items) <= Capacity
    BY <1>2 DEF SoundPipe
  <2> QED
    BY <1>1, <2>1, <2>2, EmptyEndpointType DEF TypeOK
<1>4. BusInv' /\ HabitInv'
  BY <1>1, <1>2 DEF BusInv, HabitInv, TudMounted
<1>5. SentInv' /\ WakeInv'
  BY <1>1, <1>2 DEF BusInv, SentInv, WakeInv, Watched, TudMounted
<1> QED
  BY <1>2, <1>3, <1>4, <1>5

(* Every step keeps it.                                                    *)
LEMMA NextIInv == IInv /\ [Next]_vars => IInv'
BY SourceStep, QuietStep, SessionStep, ConfigureStep, SuspendStep, ResumeStep,
   SendStep, ResyncStep, CompleteStep, FailStep
   DEF Next, AdapterAndHost, BusDisturbance

(* Only the source changes what the pipe has as the latest state.          *)
LEMMA LatestIsLeft ==
    ASSUME IInv, AdapterAndHost
    PROVE  pipe'.latest = pipe.latest /\ pipe'.epoch = pipe.epoch
<1> pipe \in Pipes /\ SoundPipe(pipe)
  BY DEF IInv, SoundPipe
<1>1. CASE \/ HostAddresses \/ BusResets \/ TaskWakesHost \/ WakeDelayElapses
           \/ HostSetsIdle \/ HostSetsLeds \/ HostPolls
  BY <1>1 DEF HostAddresses, BusResets, TaskWakesHost, WakeDelayElapses, HostSetsIdle,
              HostSetsLeds, HostPolls, TudHidSetIdleCb, TudHidSetReportCb
<1>2. CASE TaskSeesReset \/ HostLeaves
  <2> DEFINE q == SetActive(pipe, FALSE)
  <2>1. pipe' = TakeWakeRequest(q)
    BY <1>2 DEF TaskSeesReset, HostLeaves, TudUmountCb, ForgetSession
  <2>2. q \in Pipes /\ SoundPipe(q) /\ q.latest = pipe.latest /\ q.epoch = pipe.epoch
    BY SetActiveIsSound DEF SoundPipe
  <2> HIDE DEF q
  <2> QED
    BY <2>1, <2>2, WakeIsSound
<1>3. CASE HostConfigures
  <2> DEFINE p == TakeWakeRequest(pipe)
             q == SetActive(p, TRUE)
  <2>1. pipe' = RequestModifierRecovery(q, RecoveryModifiers)
    BY <1>3 DEF HostConfigures, TudMountCb
  <2>2. p \in Pipes /\ SoundPipe(p) /\ p.latest = pipe.latest /\ p.epoch = pipe.epoch
    BY WakeIsSound DEF SoundPipe
  <2> HIDE DEF p
  <2>3. q \in Pipes /\ SoundPipe(q) /\ q.latest = p.latest /\ q.epoch = p.epoch
    BY <2>2, SetActiveIsSound DEF SoundPipe
  <2> HIDE DEF q
  <2>4. SameButItems(q, pipe')
    BY <2>1, <2>3, RecoveryIsSound, AdapterAssumption
  <2> QED
    BY <2>2, <2>3, <2>4 DEF SameButItems
<1>4. CASE HostSuspends \/ HostResumes
  <2>1. pipe' = SetActive(pipe, TRUE) \/ pipe' = SetActive(pipe, FALSE)
    BY <1>4 DEF HostSuspends, HostResumes, TudSuspendCb, TudResumeCb
  <2>2. pipe \in Pipes /\ SoundPipe(pipe)
    BY DEF SoundPipe
  <2>3. \A active \in BOOLEAN : /\ SetActive(pipe, active).latest = pipe.latest
                                /\ SetActive(pipe, active).epoch = pipe.epoch
    BY <2>2, SetActiveIsSound
  <2> QED
    BY <2>1, <2>3
<1>5. CASE TaskSends \/ TaskIsRefused \/ HostSetsProtocol \/ ReportFails
  <2>1. SoundPipe(Dequeued) /\ SameButItems(pipe, Dequeued)
    BY PopIsSound DEF Dequeued, SameButItems
  <2>2. PICK p \in {pipe, Dequeued} : pipe' = p \/ pipe' = RequestResync(p)
    BY <1>5 DEF TaskSends, TaskIsRefused, HostSetsProtocol, ReportFails,
                TudHidSetProtocolCb, TudHidReportFailedCb
  <2>3. SoundPipe(p) /\ SameButItems(pipe, p) /\ p \in Pipes
    BY <2>1, <2>2 DEF SameButItems, SoundPipe
  <2>4. SameButItems(p, RequestResync(p))
    BY <2>3, ResyncIsSound DEF SoundPipe
  <2> QED
    BY <2>2, <2>3, <2>4 DEF SameButItems
<1>6. CASE ReportCompletes
  BY <1>6, WakeIsSound DEF ReportCompletes, TudHidReportCompleteCb
<1> QED
  BY <1>1, <1>2, <1>3, <1>4, <1>5, <1>6 DEF AdapterAndHost, BusDisturbance

(* The invariant of the adapter, which the theorems below rest on.         *)
THEOREM AdapterInvariance == Spec => []IInv
BY InitIInv, NextIInv, PTL DEF Spec

-----------------------------------------------------------------------------
(* What it implies.                                                        *)

(* Every variable keeps its type and the queue fits the ring, whatever the *)
(* host does and however the recovery fills it (report_pipe.c:10-19).      *)
THEOREM AdapterTypeCorrect == Spec => []TypeOK
<1>1. IInv => TypeOK
  BY DEF IInv
<1> QED
  BY <1>1, AdapterInvariance, PTL

(* No key sticks and no press is lost: a host with nothing more to come    *)
(* shows the keyboard's state, provided that no activation of the pipe     *)
(* leaves an old queue (usb_keyboard.c:119-188 and its callbacks).         *)
THEOREM SettledHostAgrees ==
    ASSUME Recovers
    PROVE  Spec => []SettledHostSeesLatest
<1>1. ASSUME IInv PROVE SettledHostSeesLatest
  BY <1>1 DEF IInv, BusInv, SentInv, SettledHostSeesLatest, Settled, Watched,
              LastSent, GetInputReport
<1> QED
  BY <1>1, AdapterInvariance, PTL

(* What was delivered cannot end the next suspend: no wake request is left *)
(* at a settled host (usb_keyboard.c:311-322).                             *)
THEOREM SettledHostIsNotWoken ==
    ASSUME Recovers
    PROVE  Spec => []SettledHasNoWake
<1>1. ASSUME IInv PROVE SettledHasNoWake
  BY <1>1 DEF IInv, BusInv, WakeInv, SettledHasNoWake, Settled, Watched
<1> QED
  BY <1>1, AdapterInvariance, PTL

(* The task signals resume once per suspend (usb_keyboard.c:139-149).      *)
THEOREM HostIsWokenOnce == Spec => []OneWakePerSuspend
<1>1. IInv => OneWakePerSuspend
  BY DEF IInv, BusInv, OneWakePerSuspend
<1> QED
  BY <1>1, AdapterInvariance, PTL

(* Where no host suspends a device it has not configured, an adapter that  *)
(* is not mounted or sleeps keeps no history (usb_keyboard.c:226-259).     *)
THEOREM OfflineHistoryIsDropped ==
    ASSUME "earlySuspend" \notin HostHabits
    PROVE  Spec => []OfflineKeepsNoHistory
<1>1. ASSUME IInv PROVE OfflineKeepsNoHistory
  BY <1>1 DEF IInv, BusInv, HabitInv, SoundPipe, OfflineKeepsNoHistory
<1> QED
  BY <1>1, AdapterInvariance, PTL

(* Where the task sees every reset before the next configuration, no host  *)
(* reads the LEDs of an earlier session (usb_keyboard.c:132, 280-283).     *)
THEOREM LedsAreOfThisSession ==
    ASSUME "fastEnumeration" \notin HostHabits
    PROVE  Spec => []LedsOfThisSession
<1>1. ASSUME IInv PROVE LedsOfThisSession
  BY <1>1 DEF IInv, HabitInv, LedsOfThisSession
<1> QED
  BY <1>1, AdapterInvariance, PTL

(* A session that recovers starts from a recovery or a release and the     *)
(* current state, not from an old queue (usb_keyboard.c:122-124).          *)
THEOREM SessionStartsFresh ==
    ASSUME Recovers
    PROVE  Spec => MountStartsFresh
<1>1. ASSUME IInv, [Next]_vars
      PROVE  [HostConfigures =>
                \A i \in 1 .. Len(pipe'.items) :
                   pipe'.items[i].state
                     \in {Released, RecoveryModifiers, pipe'.latest}]_vars
  <2> SUFFICES ASSUME HostConfigures, NEW i \in 1 .. Len(pipe'.items)
               PROVE  pipe'.items[i].state
                        \in {Released, RecoveryModifiers, pipe'.latest}
    OBVIOUS
  <2> DEFINE start == IF RecoveryModifiers # {}
                      THEN <<Item(RecoveryModifiers, pipe'.epoch),
                             Item(Released, pipe'.epoch)>>
                      ELSE <<Item(Released, pipe'.epoch)>>
  <2>1. pipe'.items = FreshItems(pipe', start)
    <3>1. RecoveryModifiers # {} \/ ~pipe.active
      BY <1>1 DEF IInv, HabitInv, HostConfigures, Recovers
    <3>2. SoundPipe(pipe) /\ pipe \in Pipes
      BY <1>1 DEF IInv, SoundPipe
    <3> QED
      BY <3>1, <3>2, MountedPipe DEF HostConfigures, TudMountCb
  <2>2. \/ pipe'.items = start
        \/ pipe'.items = Append(start, Item(pipe'.latest, pipe'.epoch))
    BY <2>1 DEF FreshItems
  <2>3. /\ Len(start) \in 1 .. 2
        /\ \A j \in 1 .. Len(start) :
             start[j] \in {Item(Released, pipe'.epoch),
                           Item(RecoveryModifiers, pipe'.epoch)}
    OBVIOUS
  <2>4. start \in Seq({Item(Released, pipe'.epoch),
                      Item(RecoveryModifiers, pipe'.epoch)})
    <3>1. CASE RecoveryModifiers # {}
      BY <3>1
    <3>2. CASE RecoveryModifiers = {}
      BY <3>2
    <3> QED
      BY <3>1, <3>2, Zenon
  <2> HIDE DEF start
  <2>5. pipe'.items[i] \in {Item(Released, pipe'.epoch),
                            Item(RecoveryModifiers, pipe'.epoch),
                            Item(pipe'.latest, pipe'.epoch)}
    <3>1. CASE pipe'.items = start
      BY <2>3, <3>1
    <3>2. CASE pipe'.items = Append(start, Item(pipe'.latest, pipe'.epoch))
      <4>1. /\ Len(pipe'.items) = Len(start) + 1
            /\ pipe'.items[Len(start) + 1] = Item(pipe'.latest, pipe'.epoch)
            /\ \A j \in 1 .. Len(start) : pipe'.items[j] = start[j]
        BY <2>4, <3>2, AppendProperties
      <4> QED
        BY <2>3, <4>1
    <3> QED
      BY <2>2, <3>1, <3>2
  <2> QED
    BY <2>5, ItemType
<1> QED
  BY <1>1, AdapterInvariance, PTL DEF Spec, MountStartsFresh

(* A key pressed while the host sleeps is remembered until the wake: only  *)
(* a new source or the end of the session forgets it.                      *)
THEOREM SleepNeverForgetsWake == Spec => SleepKeepsWake
<1>1. ASSUME IInv, [Next]_vars
      PROVE  [suspended /\ pipe.wakePending /\ ~pipe'.wakePending =>
                \/ pipe'.epoch # pipe.epoch \/ SourceResets
                \/ ~mounted' \/ (TudMounted' /\ ~TudMounted)]_vars
  <2> SUFFICES ASSUME Next, suspended, pipe.wakePending,
                      ~(\/ pipe'.epoch # pipe.epoch \/ SourceResets
                        \/ ~mounted' \/ (TudMounted' /\ ~TudMounted))
               PROVE  pipe'.wakePending
    BY <1>1, Zenon
  <2> pipe \in Pipes /\ SoundPipe(pipe)
    BY <1>1 DEF IInv, SoundPipe
  <2>1. CASE SourcePublishes
    <3>1. PICK state \in SourceStates, epoch \in EpochsFrom(pipe.epoch) :
              pipe' = Publish(pipe, state, epoch)
      BY <2>1 DEF SourcePublishes
    <3>2. state \in KeyboardStates /\ epoch \in Epochs /\ epoch >= pipe.epoch
      BY AdapterAssumption DEF EpochsFrom
    <3>3. LET q == Publish(pipe, state, epoch) IN
          q.epoch = epoch /\ (epoch = pipe.epoch => q.wakePending)
      BY <3>2, PublishIsSound
    <3> QED
      BY <3>1, <3>3
  <2>2. CASE TaskSeesReset \/ HostLeaves
    BY <2>2 DEF TaskSeesReset, HostLeaves, TudUmountCb, ForgetSession
  <2>3. CASE HostConfigures
    BY <2>3 DEF HostConfigures, TudMounted
  <2>4. CASE HostSuspends \/ HostResumes
    <3>1. PICK active \in BOOLEAN : pipe' = SetActive(pipe, active)
      BY <2>4 DEF HostSuspends, HostResumes, TudSuspendCb, TudResumeCb
    <3>2. SetActive(pipe, active).wakePending = pipe.wakePending
      BY SetActiveIsSound
    <3> QED
      BY <3>1, <3>2
  <2>5. CASE TaskSends \/ TaskIsRefused
    BY <2>5 DEF TaskSends, TaskIsRefused, MaySend
  <2>6. CASE HostSetsProtocol \/ ReportFails
    <3>1. pipe' \in {pipe, RequestResync(pipe)}
      BY <2>6 DEF HostSetsProtocol, TudHidSetProtocolCb,
                  ReportFails, TudHidReportFailedCb
    <3>2. RequestResync(pipe).wakePending = pipe.wakePending
      BY ResyncIsSound DEF SoundPipe, SameButItems
    <3> QED
      BY <3>1, <3>2
  <2>7. CASE ReportCompletes
    BY <1>1, <2>7 DEF IInv, BusInv, ReportCompletes, TudHidReportCompleteCb
  <2>8. CASE \/ HostAddresses \/ BusResets \/ TaskWakesHost \/ WakeDelayElapses
             \/ HostSetsIdle \/ HostSetsLeds \/ HostPolls
    BY <2>8 DEF HostAddresses, BusResets, TaskWakesHost, WakeDelayElapses,
                HostSetsIdle, HostSetsLeds, HostPolls, TudHidSetIdleCb,
                TudHidSetReportCb
  <2> QED
    BY <2>1, <2>2, <2>3, <2>4, <2>5, <2>6, <2>7, <2>8
       DEF Next, AdapterAndHost, BusDisturbance
<1> QED
  BY <1>1, AdapterInvariance, PTL DEF Spec, SleepKeepsWake

-----------------------------------------------------------------------------
(* A new source is never shown before the old one was let go.              *)

\* A report may follow one of another epoch only across a release.
Eases(report, epoch, nextReport, nextEpoch) ==
    \/ nextEpoch = epoch
    \/ nextReport \in {BlankReport, BootReport(RecoveryModifiers)}
    \/ report = BlankReport

LastEpoch == IF endpoint.status = "armed" THEN endpoint.epoch ELSE hostEpoch

\* So is the report at the endpoint, and so is the next one in the queue.
ArmedEases ==
    endpoint.status = "armed" =>
        Eases(hostReport, hostEpoch, endpoint.report, endpoint.epoch)

QueueEases ==
    Watched =>
        /\ \A i \in 1 .. Len(pipe.items) : pipe.items[i].epoch = pipe.epoch
        /\ pipe.items = << >> => LastEpoch = pipe.epoch
        /\ pipe.items # << >> =>
             Eases(LastSent, LastEpoch, BootReport(pipe.items[1].state), pipe.epoch)

EpochInv == IInv /\ ArmedEases /\ QueueEases

-----------------------------------------------------------------------------
\* A queue that starts with a release or a recovery, all of it current.
FreshQueue(p) ==
    /\ p.items # << >>
    /\ \A i \in 1 .. Len(p.items) : p.items[i].epoch = p.epoch
    /\ p.items[1].state \in {Released, RecoveryModifiers}

(* That is what it starts over with.                                       *)
LEMMA FreshItemsAreFresh ==
    ASSUME NEW p \in Pipes,
           \/ p.items = FreshItems(p, <<Item(Released, p.epoch)>>)
           \/ p.items = FreshItems(p, <<Item(RecoveryModifiers, p.epoch),
                                        Item(Released, p.epoch)>>)
    PROVE  FreshQueue(p)
<1>1. /\ p.latest \in KeyboardStates /\ p.epoch \in Epochs
      /\ Released \in KeyboardStates /\ RecoveryModifiers \in KeyboardStates
  BY ReleasedIsState, AdapterAssumption DEF Pipes, KeyboardStates, Usages
<1>2. PICK start \in Seq(Items) :
         /\ p.items = FreshItems(p, start)
         /\ Len(start) \in 1 .. 2 /\ start[1].state \in {Released, RecoveryModifiers}
         /\ \A i \in 1 .. Len(start) : start[i].epoch = p.epoch
  <2>1. CASE p.items = FreshItems(p, <<Item(Released, p.epoch)>>)
    <3>1. Item(Released, p.epoch) \in Items
      BY <1>1, ItemType
    <3>2. <<Item(Released, p.epoch)>> \in Seq(Items)
      BY <3>1
    <3>3. Item(Released, p.epoch).state = Released /\ Item(Released, p.epoch).epoch = p.epoch
      BY ItemType
    <3> DEFINE start == <<Item(Released, p.epoch)>>
    <3>4. /\ Len(start) = 1 /\ start[1] = Item(Released, p.epoch)
          /\ p.items = FreshItems(p, start)
      BY <2>1
    <3>5. start \in Seq(Items)
      BY <3>2
    <3> HIDE DEF start
    <3> QED
      BY <3>3, <3>4, <3>5
  <2>2. CASE p.items = FreshItems(p, <<Item(RecoveryModifiers, p.epoch),
                                       Item(Released, p.epoch)>>)
    <3>1. Item(Released, p.epoch) \in Items /\ Item(RecoveryModifiers, p.epoch) \in Items
      BY <1>1, ItemType
    <3>2. /\ Item(Released, p.epoch).epoch = p.epoch
          /\ Item(RecoveryModifiers, p.epoch).state = RecoveryModifiers
          /\ Item(RecoveryModifiers, p.epoch).epoch = p.epoch
      BY ItemType
    <3> DEFINE start == <<Item(RecoveryModifiers, p.epoch), Item(Released, p.epoch)>>
    <3>3. /\ Len(start) = 2 /\ start[1] = Item(RecoveryModifiers, p.epoch)
          /\ start[2] = Item(Released, p.epoch)
          /\ p.items = FreshItems(p, start)
      BY <2>2
    <3>4. start \in Seq(Items)
      BY <3>1
    <3> HIDE DEF start
    <3> QED
      BY <3>2, <3>3, <3>4
  <2> QED
    BY <2>1, <2>2
<1>3. CASE p.latest = Released
  BY <1>2, <1>3 DEF FreshItems, FreshQueue
<1>4. CASE p.latest # Released
  <2>1. p.items = Append(start, Item(p.latest, p.epoch))
    BY <1>2, <1>4 DEF FreshItems
  <2>2. Item(p.latest, p.epoch) \in Items
    BY <1>1, ItemType
  <2>3. /\ p.items \in Seq(Items) /\ Len(p.items) = Len(start) + 1
        /\ p.items[Len(start) + 1] = Item(p.latest, p.epoch)
        /\ \A i \in 1 .. Len(start) : p.items[i] = start[i]
    BY <1>2, <2>1, <2>2, AppendProperties
  <2>4. /\ Len(start) \in Nat /\ 1 <= Len(start) /\ Len(p.items) = Len(start) + 1
        /\ 1 \in 1 .. Len(start)
    <3>1. Len(start) = 1 \/ Len(start) = 2
      BY <1>2
    <3> QED
      BY <2>3, <3>1
  <2>5. p.items # << >>
    BY <2>4
  <2>6. p.items[1].state \in {Released, RecoveryModifiers}
    <3>1. p.items[1] = start[1]
      BY <2>3, <2>4
    <3> QED
      BY <1>2, <3>1
  <2>7. ASSUME NEW i \in 1 .. Len(p.items) PROVE p.items[i].epoch = p.epoch
    <3>1. CASE i \in 1 .. Len(start)
      <4>1. p.items[i] = start[i]
        BY <2>3, <3>1
      <4> QED
        BY <1>2, <3>1, <4>1
    <3>2. CASE i = Len(start) + 1
      <4>1. p.items[i] = Item(p.latest, p.epoch)
        BY <2>3, <3>2
      <4>2. Item(p.latest, p.epoch).epoch = p.epoch
        BY ItemType
      <4> QED
        BY <4>1, <4>2
    <3>3. i \in 1 .. Len(start) \/ i = Len(start) + 1
      BY <2>4, <2>7
    <3> QED
      BY <3>1, <3>2, <3>3
  <2> QED
    BY <2>5, <2>6, <2>7 DEF FreshQueue
<1> QED
  BY <1>3, <1>4

(* A fresh queue may follow anything.                                      *)
LEMMA FreshQueueEases ==
    ASSUME pipe'.active => FreshQueue(pipe')
    PROVE  QueueEases'
BY DEF QueueEases, FreshQueue, Eases, Watched, BlankReport

-----------------------------------------------------------------------------
(* Every step keeps it.                                                    *)

(* A bridge that has just booted.                                          *)
LEMMA InitEpochInv == Init => EpochInv
BY InitIInv DEF Init, EpochInv, ArmedEases, QueueEases, EmptyEndpoint, Watched, TudMounted

(* The steps that start the queue over.                                    *)
LEMMA FreshStep ==
    ASSUME EpochInv, Recovers, IInv',
           \/ HostConfigures \/ HostResumes \/ TaskIsRefused
           \/ HostSetsProtocol \/ ReportFails
    PROVE  EpochInv'
<1> pipe \in Pipes /\ SoundPipe(pipe) /\ IInv
  BY DEF EpochInv, IInv, SoundPipe
<1>1. ArmedEases'
  BY DEF EpochInv, ArmedEases, HostConfigures, HostResumes, TaskIsRefused,
         HostSetsProtocol, ReportFails, EmptyEndpoint, busVars, hostVars
<1>2. CASE HostConfigures
  <2>1. RecoveryModifiers # {} \/ ~pipe.active
    BY <1>2 DEF IInv, HabitInv, HostConfigures, Recovers
  <2>2. /\ pipe' \in Pipes
        /\ \/ pipe'.items = FreshItems(pipe', <<Item(Released, pipe'.epoch)>>)
           \/ pipe'.items = FreshItems(pipe', <<Item(RecoveryModifiers, pipe'.epoch),
                                               Item(Released, pipe'.epoch)>>)
    BY <1>2, <2>1, MountedPipe DEF HostConfigures, TudMountCb, SoundPipe
  <2> QED
    BY <1>1, <2>2, FreshItemsAreFresh, FreshQueueEases DEF EpochInv
<1>3. CASE HostResumes
  <2>1. ~pipe.active
    BY <1>3 DEF IInv, BusInv, HostResumes
  <2>2. LET q == SetActive(pipe, TRUE) IN
        /\ SoundPipe(q) /\ q.latest = pipe.latest /\ q.epoch = pipe.epoch
        /\ q.items = FreshItems(pipe, <<Item(Released, pipe.epoch)>>)
    BY <2>1, SetActiveIsSound
  <2>3. /\ pipe' \in Pipes
        /\ pipe'.items = FreshItems(pipe', <<Item(Released, pipe'.epoch)>>)
    BY <1>3, <2>2 DEF HostResumes, TudResumeCb, FreshItems, SoundPipe
  <2> QED
    BY <1>1, <2>3, FreshItemsAreFresh, FreshQueueEases DEF EpochInv
<1>4. CASE TaskIsRefused \/ HostSetsProtocol \/ (ReportFails /\ mounted /\ ~suspended)
  <2>1. PICK p : SoundPipe(p) /\ pipe' = RequestResync(p)
    <3>1. SoundPipe(Dequeued)
      BY PopIsSound DEF Dequeued
    <3> QED
      BY <1>4, <3>1 DEF TaskIsRefused, HostSetsProtocol, TudHidSetProtocolCb,
                        ReportFails, TudHidReportFailedCb
  <2>2. p \in Pipes
    BY <2>1 DEF SoundPipe
  <2>3. pipe'.active => FreshQueue(pipe')
    <3>1. CASE p.active
      <4>1. /\ SoundPipe(pipe') /\ SameButItems(p, pipe')
            /\ pipe'.items = FreshItems(p, <<Item(Released, p.epoch)>>)
        BY <2>1, <2>2, <3>1, ResyncStartsOver
      <4>2. /\ pipe' \in Pipes
            /\ pipe'.items = FreshItems(pipe', <<Item(Released, pipe'.epoch)>>)
        BY <4>1 DEF SameButItems, FreshItems, SoundPipe
      <4> QED
        BY <4>2, FreshItemsAreFresh
    <3>2. CASE ~p.active
      BY <2>1, <3>2 DEF RequestResync
    <3> QED
      BY <3>1, <3>2
  <2> QED
    BY <1>1, <2>3, FreshQueueEases DEF EpochInv
<1>5. CASE ReportFails /\ ~(mounted /\ ~suspended)
  <2>1. pipe' = pipe /\ bus' = bus
    BY <1>5 DEF ReportFails, TudHidReportFailedCb
  <2>2. ~Watched'
    BY <1>5, <2>1 DEF IInv, BusInv, Watched, TudMounted
  <2> QED
    BY <1>1, <2>2 DEF EpochInv, QueueEases
<1> QED
  BY <1>2, <1>3, <1>4, <1>5

(* The source.                                                             *)
LEMMA SourceEases ==
    ASSUME EpochInv, IInv', SourcePublishes \/ SourceResets
    PROVE  EpochInv'
<1> pipe \in Pipes /\ SoundPipe(pipe) /\ pipe.items \in Seq(Items)
  BY DEF EpochInv, IInv, SoundPipe, Pipes
<1>1. UNCHANGED <<adapterVars, busVars, hostVars>>
  BY DEF SourcePublishes, SourceResets
<1>2. ArmedEases' /\ LastSent' = LastSent /\ LastEpoch' = LastEpoch
  BY <1>1 DEF EpochInv, ArmedEases, LastSent, LastEpoch, busVars, hostVars
<1>3. /\ pipe'.active = pipe.active /\ pipe' \in Pipes
      /\ pipe'.active =>
           \/ pipe' = pipe
           \/ /\ pipe'.epoch = pipe.epoch
              /\ pipe'.items = Append(pipe.items, Item(pipe'.latest, pipe.epoch))
           \/ FreshQueue(pipe')
  <2>1. CASE SourcePublishes
    <3>1. PICK state \in SourceStates, epoch \in EpochsFrom(pipe.epoch) :
              pipe' = Publish(pipe, state, epoch)
      BY <2>1 DEF SourcePublishes
    <3>2. state \in KeyboardStates /\ epoch \in Epochs /\ epoch >= pipe.epoch
      BY AdapterAssumption DEF EpochsFrom
    <3>3. LET q == Publish(pipe, state, epoch) IN
          /\ SoundPipe(q) /\ q.active = pipe.active
          /\ q.latest = state /\ q.epoch = epoch
          /\ q.active => \/ q = pipe
                         \/ /\ epoch = pipe.epoch
                            /\ q.items = Append(pipe.items, Item(state, epoch))
                         \/ q.items = FreshItems(q, <<Item(Released, epoch)>>)
      BY <3>2, PublishIsSound
    <3>4. pipe' \in Pipes
      BY <3>1, <3>3 DEF SoundPipe
    <3> QED
      BY <3>1, <3>3, <3>4, FreshItemsAreFresh
  <2>2. CASE SourceResets
    <3>1. PICK epoch \in EpochsFrom(pipe.epoch) : pipe' = SourceReset(pipe, epoch)
      BY <2>2 DEF SourceResets
    <3>2. epoch \in Epochs /\ epoch >= pipe.epoch
      BY DEF EpochsFrom
    <3>3. pipe.epoch \in Int /\ epoch \in Int
      BY <3>2, PipeAssumption DEF Pipes, Epochs
    <3>4. pipe' = BeginEpoch(pipe, epoch)
      BY <3>1, <3>2, <3>3 DEF SourceReset
    <3>5. LET q == BeginEpoch(pipe, epoch) IN
          /\ SoundPipe(q) /\ q.active = pipe.active
          /\ q.active => q.items = FreshItems(q, <<Item(Released, q.epoch)>>)
      BY <3>2, BeginEpochIsSound DEF FreshItems
    <3>6. pipe' \in Pipes
      BY <3>4, <3>5 DEF SoundPipe
    <3> QED
      BY <3>4, <3>5, <3>6, FreshItemsAreFresh
  <2> QED
    BY <2>1, <2>2
<1>4. Watched' = Watched
  BY <1>1, <1>3 DEF Watched, TudMounted, busVars
<1>5. QueueEases'
  <2>1. CASE ~Watched
    BY <1>4, <2>1 DEF QueueEases
  <2>2. CASE pipe' = pipe
    BY <1>2, <1>4, <2>2 DEF EpochInv, QueueEases
  <2>3. CASE FreshQueue(pipe')
    BY <2>3, FreshQueueEases
  <2>4. CASE /\ Watched /\ pipe'.epoch = pipe.epoch
             /\ pipe'.items = Append(pipe.items, Item(pipe'.latest, pipe.epoch))
    <3>1. Item(pipe'.latest, pipe.epoch) \in Items
      BY <1>3, ItemType DEF Pipes
    <3>2. /\ Len(pipe'.items) = Len(pipe.items) + 1
          /\ pipe'.items[Len(pipe.items) + 1] = Item(pipe'.latest, pipe.epoch)
          /\ \A i \in 1 .. Len(pipe.items) : pipe'.items[i] = pipe.items[i]
          /\ Len(pipe.items) \in Nat /\ pipe'.items \in Seq(Items)
      BY <2>4, <3>1, AppendProperties
    <3>3. \A i \in 1 .. Len(pipe'.items) : pipe'.items[i].epoch = pipe'.epoch
      BY <2>4, <3>2, ItemType DEF EpochInv, QueueEases
    <3>4. pipe'.items # << >>
      BY <3>2, EmptySeq
    <3>5. CASE pipe.items = << >>
      BY <1>2, <2>4, <3>3, <3>4, <3>5 DEF EpochInv, QueueEases, Eases
    <3>6. CASE pipe.items # << >>
      <4>1. pipe'.items[1] = pipe.items[1]
        BY <3>2, <3>6, EmptySeq
      <4> QED
        BY <1>2, <2>4, <3>3, <3>4, <3>6, <4>1 DEF EpochInv, QueueEases
    <3> QED
      BY <3>5, <3>6
  <2> QED
    BY <1>3, <2>1, <2>2, <2>3, <2>4 DEF Watched
<1> QED
  BY <1>2, <1>5 DEF EpochInv

(* The next item is armed, or the latest state once more.                  *)
LEMMA SendEases ==
    ASSUME EpochInv, Recovers, IInv', TaskSends
    PROVE  EpochInv'
<1> pipe \in Pipes /\ SoundPipe(pipe) /\ pipe.items \in Seq(Items)
  BY DEF EpochInv, IInv, SoundPipe, Pipes
<1>1. /\ Watched /\ endpoint.status = "idle" /\ endpoint'.status = "armed"
      /\ endpoint'.report = BootReport(PendingItem.state)
      /\ endpoint'.epoch = PendingItem.epoch
      /\ UNCHANGED <<bus, hostReport, hostEpoch>>
  BY DEF TaskSends, MaySend, TudHidReady, EpochInv, IInv, BusInv, Watched, hostVars
<1>2. LastEpoch = hostEpoch /\ LastSent = hostReport
  BY <1>1 DEF LastEpoch, LastSent
<1>3. LastEpoch' = PendingItem.epoch /\ LastSent' = BootReport(PendingItem.state)
  BY <1>1 DEF LastEpoch, LastSent
<1>4. CASE pipe.items = << >>
  <2>1. pipe' = pipe /\ PendingItem.epoch = pipe.epoch
    BY <1>4, ItemType DEF TaskSends, Dequeued, PendingItem
  <2>2. hostEpoch = pipe.epoch
    BY <1>1, <1>2, <1>4 DEF EpochInv, QueueEases
  <2>3. ArmedEases' /\ QueueEases'
    BY <1>1, <1>3, <1>4, <2>1, <2>2
       DEF EpochInv, QueueEases, ArmedEases, Eases
  <2> QED
    BY <2>3 DEF EpochInv
<1>5. CASE pipe.items # << >>
  <2>1. /\ pipe'.items = Tail(pipe.items) /\ pipe'.epoch = pipe.epoch
        /\ PendingItem = Head(pipe.items)
    BY <1>5, PopIsSound DEF TaskSends, Dequeued, PendingItem, SameButItems
  <2>2. /\ Len(pipe.items) \in Nat \ {0} /\ Head(pipe.items) = pipe.items[1]
        /\ Tail(pipe.items) \in Seq(Items)
        /\ Len(Tail(pipe.items)) = Len(pipe.items) - 1
        /\ \A i \in 1 .. Len(pipe.items) - 1 : Tail(pipe.items)[i] = pipe.items[i + 1]
    BY <1>5
  <2>3. \A i \in 1 .. Len(pipe.items) : pipe.items[i].epoch = pipe.epoch
    BY <1>1 DEF EpochInv, QueueEases
  <2>4. PendingItem.epoch = pipe.epoch /\ PendingItem.state = pipe.items[1].state
    BY <2>1, <2>2, <2>3
  <2>5. Eases(hostReport, hostEpoch, BootReport(pipe.items[1].state), pipe.epoch)
    BY <1>1, <1>2, <1>5 DEF EpochInv, QueueEases
  <2>6. ArmedEases'
    BY <1>1, <2>4, <2>5 DEF ArmedEases
  <2>7. \A i \in 1 .. Len(pipe'.items) : pipe'.items[i].epoch = pipe'.epoch
    <3>1. \A i \in 1 .. Len(pipe.items) - 1 : Tail(pipe.items)[i].epoch = pipe.epoch
      BY <2>2, <2>3
    <3> QED
      BY <2>1, <2>2, <3>1
  <2>8. QueueEases'
    BY <1>3, <2>1, <2>4, <2>7 DEF QueueEases, Eases
  <2> QED
    BY <2>6, <2>8 DEF EpochInv
<1> QED
  BY <1>4, <1>5

(* The host is shown the armed report, and the adapter is told.            *)
LEMMA ShowEases ==
    ASSUME EpochInv, IInv', HostPolls \/ ReportCompletes
    PROVE  EpochInv'
<1> pipe \in Pipes /\ SoundPipe(pipe)
  BY DEF EpochInv, IInv, SoundPipe
<1>1. /\ pipe'.items = pipe.items /\ pipe'.epoch = pipe.epoch
      /\ pipe'.active = pipe.active
  BY WakeIsSound
     DEF HostPolls, adapterVars, ReportCompletes, TudHidReportCompleteCb
<1>2. endpoint'.status # "armed" /\ LastSent' = LastSent /\ LastEpoch' = LastEpoch
  <2>1. CASE HostPolls
    BY <2>1 DEF HostPolls, LastSent, LastEpoch, EpochInv, IInv, TypeOK, EndpointStates
  <2>2. CASE ReportCompletes
    BY <2>2 DEF ReportCompletes, LastSent, LastEpoch, EmptyEndpoint, hostVars
  <2> QED
    BY <2>1, <2>2
<1>3. Watched' = Watched
  BY <1>1 DEF HostPolls, ReportCompletes, Watched, TudMounted
<1>4. ArmedEases' /\ QueueEases'
  BY <1>1, <1>2, <1>3 DEF EpochInv, ArmedEases, QueueEases
<1> QED
  BY <1>4 DEF EpochInv

(* Nobody is watched any more.                                             *)
LEMMA OfflineEases ==
    ASSUME EpochInv, IInv', TaskSeesReset \/ HostLeaves \/ BusResets \/ HostSuspends
    PROVE  EpochInv'
<1> pipe \in Pipes /\ SoundPipe(pipe)
  BY DEF EpochInv, IInv, SoundPipe
<1>1. ~Watched'
  <2>1. CASE TaskSeesReset
    BY <2>1 DEF TaskSeesReset, busVars, Watched, TudMounted
  <2>2. CASE HostLeaves \/ BusResets
    BY <2>2 DEF HostLeaves, BusResets, Watched, TudMounted
  <2>3. CASE HostSuspends
    <3>1. suspended'
      BY <2>3 DEF HostSuspends, TudSuspendCb
    <3> QED
      BY <3>1 DEF IInv, BusInv, Watched
  <2> QED
    BY <2>1, <2>2, <2>3
<1>2. ArmedEases'
  BY DEF EpochInv, ArmedEases, TaskSeesReset, HostLeaves, BusResets, HostSuspends,
         EmptyEndpoint, busVars, hostVars
<1> QED
  BY <1>1, <1>2 DEF EpochInv, QueueEases

(* The other steps do not concern it.                                      *)
LEMMA OthersEase ==
    ASSUME EpochInv, IInv',
           \/ HostAddresses \/ TaskWakesHost \/ WakeDelayElapses
           \/ HostSetsIdle \/ HostSetsLeds \/ UNCHANGED vars
    PROVE  EpochInv'
<1>1. UNCHANGED <<pipe, endpoint, hostReport, hostEpoch>> /\ TudMounted' = TudMounted
  BY DEF HostAddresses, TaskWakesHost, WakeDelayElapses, HostSetsIdle, HostSetsLeds,
         TudHidSetIdleCb, TudHidSetReportCb, vars, busVars, hostVars, TudMounted
<1>2. Watched' = Watched /\ LastSent' = LastSent /\ LastEpoch' = LastEpoch
  BY <1>1 DEF Watched, LastSent, LastEpoch
<1>3. ArmedEases' /\ QueueEases'
  BY <1>1, <1>2 DEF EpochInv, ArmedEases, QueueEases
<1> QED
  BY <1>3 DEF EpochInv

(* Every step.                                                             *)
LEMMA NextEpochInv ==
    ASSUME Recovers
    PROVE  EpochInv /\ [Next]_vars => EpochInv'
<1> SUFFICES ASSUME EpochInv, [Next]_vars PROVE EpochInv'
  OBVIOUS
<1>1. IInv'
  BY NextIInv DEF EpochInv
<1> QED
  BY <1>1, FreshStep, SourceEases, SendEases, ShowEases, OfflineEases, OthersEase
     DEF Next, AdapterAndHost, BusDisturbance

(* What one source held is let go at the host before it sees anything of   *)
(* the next source, through overflows, refusals, lost reports, suspends    *)
(* and resets (report_pipe.c:58-65, 86-97; usb_keyboard.c:119-188).        *)
THEOREM SourcesAreApart ==
    ASSUME Recovers
    PROVE  Spec => ReleaseBetweenSources
<1>1. EpochInv /\ [Next]_vars =>
        [HostPolls /\ hostEpoch' # hostEpoch =>
           \/ hostReport' \in {BlankReport, BootReport(RecoveryModifiers)}
           \/ hostReport = BlankReport]_vars
  BY DEF EpochInv, ArmedEases, Eases, HostPolls
<1> QED
  BY <1>1, InitEpochInv, NextEpochInv, PTL DEF Spec, ReleaseBetweenSources

-----------------------------------------------------------------------------
(* The adapter and its pipe implement KeyboardRelay.                       *)

\* The reports a queue will be sent as.
Reported(items) == [i \in DOMAIN items |-> BootReport(items[i].state)]

-----------------------------------------------------------------------------
(* Reports of queues.                                                      *)

(* The reports of a queue are a sequence of the same length.               *)
LEMMA ReportedType ==
    ASSUME NEW items \in Seq(Items)
    PROVE  /\ Reported(items) \in Seq(BootReports)
           /\ Len(Reported(items)) = Len(items)
           /\ \A i \in 1 .. Len(items) :
                Reported(items)[i] = BootReport(items[i].state)
           /\ items = << >> <=> Reported(items) = << >>
<1>1. DOMAIN items = 1 .. Len(items) /\ Len(items) \in Nat
  OBVIOUS
<1>2. Reported(items) \in [1 .. Len(items) -> BootReports]
  BY <1>1, BootReportType DEF Reported
<1>3. Reported(items) \in Seq(BootReports)
  BY <1>1, <1>2
<1>4. Len(Reported(items)) = Len(items)
  BY <1>1, <1>2
<1>5. items = << >> <=> Reported(items) = << >>
  <2>1. items = << >> <=> Len(items) = 0
    BY EmptySeq
  <2>2. Reported(items) = << >> <=> Len(Reported(items)) = 0
    BY <1>3, EmptySeq
  <2> QED
    BY <1>4, <2>1, <2>2
<1> QED
  BY <1>1, <1>3, <1>4, <1>5 DEF Reported

(* One more item is one more report.                                       *)
LEMMA ReportedAppend ==
    ASSUME NEW items \in Seq(Items), NEW state \in KeyboardStates, NEW epoch \in Epochs
    PROVE  Reported(Append(items, Item(state, epoch)))
             = Append(Reported(items), BootReport(state))
<1> DEFINE item == Item(state, epoch)
           longer == Append(items, item)
           reports == Append(Reported(items), BootReport(state))
<1>1. item \in Items /\ item.state = state
  BY ItemType
<1> HIDE DEF item
<1>2. /\ longer \in Seq(Items) /\ Len(longer) = Len(items) + 1
      /\ longer[Len(items) + 1] = item
      /\ \A i \in 1 .. Len(items) : longer[i] = items[i]
  BY <1>1, AppendProperties
<1>3. /\ reports \in Seq(BootReports) /\ Len(reports) = Len(items) + 1
      /\ reports[Len(items) + 1] = BootReport(state)
      /\ \A i \in 1 .. Len(items) : reports[i] = BootReport(items[i].state)
  <2>1. /\ Reported(items) \in Seq(BootReports) /\ Len(Reported(items)) = Len(items)
        /\ \A i \in 1 .. Len(items) : Reported(items)[i] = BootReport(items[i].state)
    BY ReportedType
  <2>2. BootReport(state) \in BootReports
    BY BootReportType
  <2> QED
    BY <2>1, <2>2, AppendProperties
<1> HIDE DEF longer, reports
<1>4. /\ Reported(longer) \in Seq(BootReports) /\ Len(Reported(longer)) = Len(longer)
      /\ \A i \in 1 .. Len(longer) : Reported(longer)[i] = BootReport(longer[i].state)
  BY <1>2, ReportedType
<1>5. ASSUME NEW i \in 1 .. Len(Reported(longer)) PROVE Reported(longer)[i] = reports[i]
  <2>1. CASE i = Len(items) + 1
    BY <1>1, <1>2, <1>3, <1>4, <2>1
  <2>2. CASE i \in 1 .. Len(items)
    BY <1>2, <1>3, <1>4, <2>2
  <2> QED
    BY <1>2, <1>4, <2>1, <2>2
<1>6. Reported(longer) = reports
  BY <1>2, <1>3, <1>4, <1>5, SeqEqual
<1> QED
  BY <1>6 DEF longer, item, reports

(* The first report sent is that of the first item; the rest follow.       *)
LEMMA ReportedTail ==
    ASSUME NEW items \in Seq(Items), items # << >>
    PROVE  /\ Head(Reported(items)) = BootReport(Head(items).state)
           /\ Reported(Tail(items)) = Tail(Reported(items))
<1>1. /\ Tail(items) \in Seq(Items) /\ Len(Tail(items)) = Len(items) - 1
      /\ \A i \in 1 .. Len(items) - 1 : Tail(items)[i] = items[i + 1]
      /\ Head(items) = items[1] /\ Len(items) \in Nat \ {0}
  OBVIOUS
<1> DEFINE reports == Reported(items)
           rest == Reported(Tail(items))
<1>2. /\ reports \in Seq(BootReports) /\ Len(reports) = Len(items) /\ reports # << >>
      /\ \A i \in 1 .. Len(items) : reports[i] = BootReport(items[i].state)
  BY ReportedType
<1>3. /\ rest \in Seq(BootReports) /\ Len(rest) = Len(items) - 1
      /\ \A i \in 1 .. Len(items) - 1 : rest[i] = BootReport(Tail(items)[i].state)
  BY <1>1, ReportedType
<1> HIDE DEF reports, rest
<1>4. /\ Tail(reports) \in Seq(BootReports) /\ Len(Tail(reports)) = Len(items) - 1
      /\ \A i \in 1 .. Len(items) - 1 : Tail(reports)[i] = reports[i + 1]
      /\ Head(reports) = reports[1]
  BY <1>2
<1>5. ASSUME NEW i \in 1 .. Len(rest) PROVE rest[i] = Tail(reports)[i]
  <2>1. i \in 1 .. Len(items) - 1 /\ i + 1 \in 1 .. Len(items)
    BY <1>1, <1>3
  <2> QED
    BY <1>1, <1>2, <1>3, <1>4, <2>1
<1>6. rest = Tail(reports)
  BY <1>3, <1>4, <1>5, SeqEqual
<1>7. Head(reports) = BootReport(Head(items).state)
  BY <1>1, <1>2, <1>4
<1> QED
  BY <1>6, <1>7 DEF reports, rest

(* A queue of one or two items.                                            *)
LEMMA ReportedPair ==
    ASSUME NEW first \in KeyboardStates, NEW second \in KeyboardStates,
           NEW epoch \in Epochs
    PROVE  /\ Reported(<<Item(first, epoch)>>) = <<BootReport(first)>>
           /\ Reported(<<Item(first, epoch), Item(second, epoch)>>)
                = <<BootReport(first), BootReport(second)>>
<1>1. /\ Item(first, epoch) \in Items /\ Item(second, epoch) \in Items
      /\ Item(first, epoch).state = first
  BY ItemType
<1>2. Reported(<<Item(first, epoch)>>) = <<BootReport(first)>>
  BY <1>1 DEF Reported
<1>3. Append(<<Item(first, epoch)>>, Item(second, epoch))
        = <<Item(first, epoch), Item(second, epoch)>>
  BY <1>1, PairByAppending
<1>4. <<Item(first, epoch)>> \in Seq(Items)
  BY <1>1
<1>5. Append(<<BootReport(first)>>, BootReport(second))
        = <<BootReport(first), BootReport(second)>>
  BY BootReportType, PairByAppending
<1> QED
  BY <1>2, <1>3, <1>4, <1>5, ReportedAppend, Zenon

(* A queue that starts over is a fresh plan of the relay.                  *)
LEMMA FreshItemsAreFreshPlan ==
    ASSUME NEW p \in Pipes,
           \/ p.items = FreshItems(p, <<Item(Released, p.epoch)>>)
           \/ /\ RecoveryModifiers # {}
              /\ p.items = FreshItems(p, <<Item(RecoveryModifiers, p.epoch),
                                          Item(Released, p.epoch)>>)
    PROVE  Reported(p.items) \in Relay!FreshPlans(BootReport(p.latest))
<1> DEFINE recovery == BootReport(RecoveryModifiers)
           starts == {<<BlankReport>>} \cup
                        {<<r, BlankReport>> : r \in {recovery} \ {BlankReport}}
<1>1. /\ p.latest \in KeyboardStates /\ p.epoch \in Epochs
      /\ Released \in KeyboardStates /\ RecoveryModifiers \in KeyboardStates
  BY ReleasedIsState, AdapterAssumption DEF Pipes, KeyboardStates, Usages
<1>2. PICK start \in Seq(Items) :
         p.items = FreshItems(p, start) /\ Reported(start) \in starts
  <2>1. CASE p.items = FreshItems(p, <<Item(Released, p.epoch)>>)
    <3>1. <<Item(Released, p.epoch)>> \in Seq(Items)
      BY <1>1, ItemType
    <3>2. Reported(<<Item(Released, p.epoch)>>) = <<BlankReport>>
      BY <1>1, ReportedPair DEF BlankReport
    <3> QED
      BY <2>1, <3>1, <3>2
  <2>2. CASE /\ RecoveryModifiers # {}
             /\ p.items = FreshItems(p, <<Item(RecoveryModifiers, p.epoch),
                                         Item(Released, p.epoch)>>)
    <3> DEFINE start == <<Item(RecoveryModifiers, p.epoch), Item(Released, p.epoch)>>
    <3>1. start \in Seq(Items)
      BY <1>1, ItemType
    <3>2. Reported(start) = <<recovery, BlankReport>>
      BY <1>1, ReportedPair DEF BlankReport
    <3>3. recovery # BlankReport
      <4>1. recovery.modifiers = RecoveryModifiers /\ BlankReport.modifiers = {}
        BY AdapterAssumption DEF BlankReport, BootReport, Released
      <4> QED
        BY <2>2, <4>1
    <3> HIDE DEF start, recovery
    <3>4. Reported(start) \in starts
      BY <3>2, <3>3
    <3> QED
      BY <2>2, <3>1, <3>4 DEF start
  <2> QED
    BY <2>1, <2>2
<1>3. CASE p.latest = Released
  <2>1. p.items = start /\ BootReport(p.latest) = BlankReport
    BY <1>2, <1>3 DEF FreshItems, BlankReport
  <2> QED
    BY <1>2, <2>1 DEF Relay!FreshPlans
<1>4. CASE p.latest # Released
  <2>1. p.items = Append(start, Item(p.latest, p.epoch))
    BY <1>2, <1>4 DEF FreshItems
  <2>2. Reported(p.items) = Append(Reported(start), BootReport(p.latest))
    BY <1>1, <2>1, ReportedAppend
  <2> QED
    BY <1>2, <2>2 DEF Relay!FreshPlans
<1> QED
  BY <1>3, <1>4

-----------------------------------------------------------------------------
(* Every step of the adapter and its host is a step of the relay, or none. *)

(* Nothing was shown or planned when the bridge booted.                    *)
LEMMA RelayInit == Init => Relay!Init
<1> SUFFICES ASSUME Init PROVE Relay!Init
  OBVIOUS
<1>1. ~TudMounted /\ endpoint.status = "idle" /\ hostReport = BlankReport
  BY DEF Init, TudMounted, EmptyEndpoint
<1>2. pipe.latest = Released
  BY DEF Init, InitialPipe, SetActive
<1> QED
  BY <1>1, <1>2 DEF Relay!Init, Watched, BlankReport

(* A published state follows, starts over, or is not watched.              *)
LEMMA SourceRelays ==
    ASSUME IInv, SourcePublishes \/ SourceResets
    PROVE  Relay!Next \/ UNCHANGED Relay!vars
<1> pipe \in Pipes /\ SoundPipe(pipe)
  BY DEF IInv, SoundPipe
<1>1. /\ pipe' \in Pipes /\ pipe'.active = pipe.active
      /\ pipe'.active =>
           \/ pipe' = pipe
           \/ /\ <<pipe.latest, pipe'.latest>> \in SourceSteps
              /\ pipe'.items = Append(pipe.items, Item(pipe'.latest, pipe'.epoch))
           \/ pipe'.items = FreshItems(pipe', <<Item(Released, pipe'.epoch)>>)
  <2>1. CASE SourcePublishes
    <3>1. PICK state \in SourceStates, epoch \in EpochsFrom(pipe.epoch) :
              /\ epoch = pipe.epoch => <<pipe.latest, state>> \in SourceSteps
              /\ pipe' = Publish(pipe, state, epoch)
      BY <2>1 DEF SourcePublishes
    <3>2. state \in KeyboardStates /\ epoch \in Epochs /\ epoch >= pipe.epoch
      BY AdapterAssumption DEF EpochsFrom
    <3>3. LET q == Publish(pipe, state, epoch) IN
          /\ SoundPipe(q) /\ q.active = pipe.active
          /\ q.latest = state /\ q.epoch = epoch
          /\ q.active => \/ q = pipe
                         \/ /\ epoch = pipe.epoch
                            /\ q.items = Append(pipe.items, Item(state, epoch))
                         \/ q.items = FreshItems(q, <<Item(Released, epoch)>>)
      BY <3>2, PublishIsSound
    <3> QED
      BY <3>1, <3>3 DEF SoundPipe
  <2>2. CASE SourceResets
    <3>1. PICK epoch \in EpochsFrom(pipe.epoch) : pipe' = SourceReset(pipe, epoch)
      BY <2>2 DEF SourceResets
    <3>2. epoch \in Epochs /\ epoch >= pipe.epoch
      BY DEF EpochsFrom
    <3>3. pipe.epoch \in Int /\ epoch \in Int
      BY <3>2, PipeAssumption DEF Pipes, Epochs
    <3>4. pipe' = BeginEpoch(pipe, epoch)
      BY <3>1, <3>2, <3>3 DEF SourceReset
    <3>5. LET q == BeginEpoch(pipe, epoch) IN
          /\ SoundPipe(q) /\ q.active = pipe.active
          /\ q.active => q.items = FreshItems(q, <<Item(Released, q.epoch)>>)
      BY <3>2, BeginEpochIsSound DEF FreshItems
    <3> QED
      BY <3>4, <3>5 DEF SoundPipe
  <2> QED
    BY <2>1, <2>2
<1>2. UNCHANGED <<endpoint, hostReport>> /\ Watched' = Watched
  BY <1>1 DEF SourcePublishes, SourceResets, busVars, hostVars, Watched, TudMounted
<1>3. BootReport(pipe'.latest) \in BootReports
  BY BootReportType
<1>4. CASE ~Watched
  <2>1. Relay!IsNotWatched(BootReport(pipe'.latest))
    BY <1>2, <1>4 DEF Relay!IsNotWatched
  <2> QED
    BY <1>3, <2>1 DEF Relay!Next
<1>5. CASE Watched /\ pipe' = pipe
  BY <1>2, <1>5 DEF Relay!vars
<1>6. CASE /\ Watched /\ <<pipe.latest, pipe'.latest>> \in SourceSteps
           /\ pipe'.items = Append(pipe.items, Item(pipe'.latest, pipe'.epoch))
  <2>1. Reported(pipe'.items) = Append(Reported(pipe.items), BootReport(pipe'.latest))
    BY <1>1, <1>6, ReportedAppend DEF Pipes
  <2>2. <<BootReport(pipe.latest), BootReport(pipe'.latest)>>
          \in {<<BootReport(step[1]), BootReport(step[2])>> : step \in SourceSteps}
    BY <1>6
  <2>3. Relay!Follows(BootReport(pipe'.latest))
    BY <1>2, <1>6, <2>1, <2>2 DEF Relay!Follows, Reported
  <2> QED
    BY <1>3, <2>3 DEF Relay!Next
<1>7. CASE Watched /\ pipe'.items = FreshItems(pipe', <<Item(Released, pipe'.epoch)>>)
  <2>1. Reported(pipe'.items) \in Relay!FreshPlans(BootReport(pipe'.latest))
    BY <1>1, <1>7, FreshItemsAreFreshPlan
  <2>2. Relay!StartsOver(BootReport(pipe'.latest))
    BY <1>2, <1>7, <2>1 DEF Relay!StartsOver, Reported
  <2> QED
    BY <1>3, <2>2 DEF Relay!Next
<1> QED
  BY <1>1, <1>2, <1>4, <1>5, <1>6, <1>7 DEF Watched

(* A session ends, or begins.                                              *)
LEMMA SessionRelays ==
    ASSUME IInv, Recovers,
           \/ TaskSeesReset \/ HostLeaves \/ BusResets
           \/ HostConfigures \/ HostSuspends \/ HostResumes
    PROVE  Relay!Next \/ UNCHANGED Relay!vars
<1> pipe \in Pipes /\ SoundPipe(pipe)
  BY DEF IInv, SoundPipe
<1>1. CASE TaskSeesReset
  <2>1. ~Watched /\ ~Watched' /\ pipe'.latest = pipe.latest
    <3>1. LET q == SetActive(pipe, FALSE) IN SoundPipe(q) /\ q.latest = pipe.latest
      BY SetActiveIsSound
    <3>2. TakeWakeRequest(SetActive(pipe, FALSE)).latest = pipe.latest
      BY <3>1, WakeIsSound DEF SoundPipe
    <3> QED
      BY <1>1, <3>2 DEF TaskSeesReset, ForgetSession, Watched, TudMounted, busVars
  <2> QED
    BY <1>1, <2>1 DEF TaskSeesReset, busVars, hostVars, Relay!vars, Watched
<1>2. CASE HostLeaves \/ BusResets
  <2>1. pipe'.latest = pipe.latest
    <3>1. LET q == SetActive(pipe, FALSE) IN SoundPipe(q) /\ q.latest = pipe.latest
      BY SetActiveIsSound
    <3>2. TakeWakeRequest(SetActive(pipe, FALSE)).latest = pipe.latest
      BY <3>1, WakeIsSound DEF SoundPipe
    <3> QED
      BY <1>2, <3>2 DEF HostLeaves, BusResets, TudUmountCb, ForgetSession
  <2>2. ~Watched' /\ endpoint'.status = "idle" /\ hostReport' = BlankReport
    BY <1>2 DEF HostLeaves, BusResets, SessionEnds, Watched, TudMounted, EmptyEndpoint
  <2>3. Relay!IsForgotten
    BY <2>1, <2>2 DEF Relay!IsForgotten
  <2> QED
    BY <2>3 DEF Relay!Next
<1>3. CASE HostConfigures
  <2>1. RecoveryModifiers # {} \/ ~pipe.active
    BY <1>3 DEF IInv, HabitInv, HostConfigures, Recovers
  <2>2. /\ pipe' \in Pipes /\ pipe'.active /\ pipe'.latest = pipe.latest
        /\ \/ pipe'.items = FreshItems(pipe', <<Item(Released, pipe'.epoch)>>)
           \/ /\ RecoveryModifiers # {}
              /\ pipe'.items = FreshItems(pipe', <<Item(RecoveryModifiers, pipe'.epoch),
                                                  Item(Released, pipe'.epoch)>>)
    BY <1>3, <2>1, MountedPipe DEF HostConfigures, TudMountCb, SoundPipe
  <2>3. Reported(pipe'.items) \in Relay!FreshPlans(BootReport(pipe'.latest))
    BY <2>2, FreshItemsAreFreshPlan
  <2>4. ~Watched /\ Watched' /\ UNCHANGED <<endpoint, hostReport>>
    BY <1>3, <2>2 DEF HostConfigures, Watched, TudMounted, hostVars
  <2>5. Relay!ComesOnline
    BY <2>2, <2>3, <2>4 DEF Relay!ComesOnline, Reported
  <2> QED
    BY <2>5 DEF Relay!Next
<1>4. CASE HostSuspends
  <2>1. /\ pipe'.latest = pipe.latest /\ ~pipe'.active
        /\ UNCHANGED <<bus, endpoint, hostReport>>
    <3>1. LET q == SetActive(pipe, FALSE) IN q.latest = pipe.latest /\ ~q.active
      BY SetActiveIsSound
    <3> QED
      BY <1>4, <3>1 DEF HostSuspends, TudSuspendCb, hostVars
  <2>2. CASE Watched
    <3>1. Relay!GoesOffline
      BY <2>1, <2>2 DEF Relay!GoesOffline, Watched
    <3> QED
      BY <3>1 DEF Relay!Next
  <2>3. CASE ~Watched
    BY <2>1, <2>3 DEF Relay!vars, Watched
  <2> QED
    BY <2>2, <2>3
<1>5. CASE HostResumes
  <2>1. ~pipe.active
    BY <1>5 DEF IInv, BusInv, HostResumes
  <2>2. /\ pipe' \in Pipes /\ pipe'.active /\ pipe'.latest = pipe.latest
        /\ pipe'.items = FreshItems(pipe', <<Item(Released, pipe'.epoch)>>)
    <3>1. LET q == SetActive(pipe, TRUE) IN
          /\ SoundPipe(q) /\ q.active /\ q.latest = pipe.latest
          /\ q.epoch = pipe.epoch
          /\ q.items = FreshItems(pipe, <<Item(Released, pipe.epoch)>>)
      BY <2>1, SetActiveIsSound
    <3> QED
      BY <1>5, <3>1 DEF HostResumes, TudResumeCb, FreshItems, SoundPipe
  <2>3. UNCHANGED <<bus, endpoint, hostReport>> /\ ~Watched
    BY <1>5, <2>1 DEF HostResumes, hostVars, Watched
  <2>4. CASE TudMounted
    <3>1. Reported(pipe'.items) \in Relay!FreshPlans(BootReport(pipe'.latest))
      BY <2>2, FreshItemsAreFreshPlan
    <3>2. Watched'
      BY <2>2, <2>3, <2>4 DEF Watched, TudMounted
    <3>3. Relay!ComesOnline
      BY <2>2, <2>3, <3>1, <3>2 DEF Relay!ComesOnline, Reported
    <3> QED
      BY <3>3 DEF Relay!Next
  <2>5. CASE ~TudMounted
    <3>1. ~Watched'
      BY <2>3, <2>5 DEF Watched, TudMounted
    <3> QED
      BY <2>2, <2>3, <3>1 DEF Relay!vars, Watched
  <2> QED
    BY <2>4, <2>5
<1> QED
  BY <1>1, <1>2, <1>3, <1>4, <1>5

(* A report is armed, shown, completed, refused or lost.                   *)
LEMMA ReportRelays ==
    ASSUME IInv,
           \/ TaskSends \/ TaskIsRefused \/ HostSetsProtocol
           \/ HostPolls \/ ReportCompletes \/ ReportFails
    PROVE  Relay!Next \/ UNCHANGED Relay!vars
<1> pipe \in Pipes /\ SoundPipe(pipe) /\ pipe.items \in Seq(Items)
  BY DEF IInv, SoundPipe, Pipes
<1>1. CASE TaskSends
  <2>1. /\ Watched /\ endpoint.status = "idle" /\ endpoint'.status = "armed"
        /\ endpoint'.report = BootReport(PendingItem.state)
        /\ UNCHANGED <<bus, hostReport>>
    BY <1>1 DEF TaskSends, MaySend, TudHidReady, IInv, BusInv, Watched, hostVars
  <2>2. CASE pipe.items = << >>
    <3>1. pipe' = pipe /\ PendingItem.state = pipe.latest
      BY <1>1, <2>2, ItemType DEF TaskSends, Dequeued, PendingItem
    <3>2. Watched' /\ Reported(pipe.items) = << >>
      BY <2>1, <2>2, <3>1, ReportedType DEF Watched, TudMounted
    <3>3. Relay!Repeats
      BY <2>1, <3>1, <3>2 DEF Relay!Repeats, Reported
    <3> QED
      BY <3>3 DEF Relay!Next
  <2>3. CASE pipe.items # << >>
    <3>1. /\ pipe'.items = Tail(pipe.items) /\ pipe'.latest = pipe.latest
          /\ pipe'.active = pipe.active /\ PendingItem = Head(pipe.items)
      BY <1>1, <2>3, PopIsSound DEF TaskSends, Dequeued, PendingItem, SameButItems
    <3>2. Watched'
      BY <2>1, <3>1 DEF Watched, TudMounted
    <3>3. /\ Head(Reported(pipe.items)) = BootReport(PendingItem.state)
          /\ Reported(pipe'.items) = Tail(Reported(pipe.items))
          /\ Reported(pipe.items) # << >>
      BY <2>3, <3>1, ReportedTail, ReportedType
    <3>4. Relay!Sends
      BY <2>1, <3>1, <3>2, <3>3 DEF Relay!Sends, Reported
    <3> QED
      BY <3>4 DEF Relay!Next
  <2> QED
    BY <2>2, <2>3
<1>2. CASE HostPolls
  <2>1. Watched /\ Watched'
    BY <1>2 DEF HostPolls, IInv, BusInv, EmptyEndpoint, Watched, TudMounted, adapterVars
  <2>2. endpoint.status = "armed" /\ endpoint'.status = "done"
        /\ hostReport' = endpoint.report /\ pipe' = pipe
    BY <1>2 DEF HostPolls, IInv, TypeOK, EndpointStates
  <2>3. Relay!Shows
    BY <2>1, <2>2 DEF Relay!Shows
  <2> QED
    BY <2>3 DEF Relay!Next
<1>3. CASE ReportCompletes
  <2>1. /\ pipe'.items = pipe.items /\ pipe'.latest = pipe.latest
        /\ pipe'.active = pipe.active
    BY <1>3, WakeIsSound DEF ReportCompletes, TudHidReportCompleteCb
  <2>2. /\ endpoint.status = "done" /\ endpoint'.status = "idle"
        /\ hostReport' = hostReport /\ Watched' = Watched
    BY <1>3, <2>1 DEF ReportCompletes, EmptyEndpoint, hostVars, Watched, TudMounted
  <2> QED
    BY <2>1, <2>2 DEF Relay!vars
<1>4. CASE TaskIsRefused \/ HostSetsProtocol \/ ReportFails
  <2>1. /\ UNCHANGED <<bus, hostReport>>
        /\ endpoint' \in {endpoint, EmptyEndpoint}
    BY <1>4 DEF TaskIsRefused, HostSetsProtocol, ReportFails, busVars, hostVars
  <2>2. BootReport(pipe.latest) \in BootReports
    BY BootReportType
  <2>3. PICK p : /\ SoundPipe(p) /\ SameButItems(pipe, p)
                 /\ \/ pipe' = RequestResync(p)
                    \/ ~Watched /\ pipe' = pipe
    <3>1. CASE TaskIsRefused
      <4>1. SoundPipe(Dequeued) /\ SameButItems(pipe, Dequeued)
        BY PopIsSound DEF Dequeued, SameButItems
      <4> QED
        BY <3>1, <4>1 DEF TaskIsRefused
    <3>2. CASE HostSetsProtocol
      BY <3>2 DEF HostSetsProtocol, TudHidSetProtocolCb, SameButItems
    <3>3. CASE ReportFails
      BY <3>3 DEF ReportFails, TudHidReportFailedCb, SameButItems, IInv, BusInv, Watched
    <3> QED
      BY <1>4, <3>1, <3>2, <3>3
  <2>4. p \in Pipes /\ (~p.active => p.items = << >>)
    BY <2>3 DEF SoundPipe
  <2>5. pipe'.latest = pipe.latest /\ pipe'.active = pipe.active
    BY <2>3, <2>4, ResyncIsSound DEF SameButItems
  <2>6. Watched' = Watched
    BY <2>1, <2>5 DEF Watched, TudMounted
  <2>7. CASE Watched
    <3>1. /\ pipe' \in Pipes /\ SameButItems(p, pipe')
          /\ pipe'.items = FreshItems(p, <<Item(Released, p.epoch)>>)
      <4>1. pipe' = RequestResync(p) /\ p.active
        BY <2>3, <2>7 DEF Watched, SameButItems
      <4> QED
        BY <2>4, <4>1, ResyncStartsOver DEF SoundPipe
    <3>2. pipe'.items = FreshItems(pipe', <<Item(Released, pipe'.epoch)>>)
      BY <3>1 DEF SameButItems, FreshItems
    <3>3. Reported(pipe'.items) \in Relay!FreshPlans(BootReport(pipe'.latest))
      BY <3>1, <3>2, FreshItemsAreFreshPlan
    <3>4. Relay!StartsOver(BootReport(pipe.latest))
      BY <2>1, <2>5, <2>6, <2>7, <3>3 DEF Relay!StartsOver, Reported, EmptyEndpoint
    <3> QED
      BY <2>2, <3>4 DEF Relay!Next
  <2>8. CASE ~Watched
    <3>1. Relay!IsNotWatched(BootReport(pipe.latest))
      BY <2>1, <2>5, <2>6, <2>8 DEF Relay!IsNotWatched, EmptyEndpoint
    <3> QED
      BY <2>2, <3>1 DEF Relay!Next
  <2> QED
    BY <2>7, <2>8
<1> QED
  BY <1>1, <1>2, <1>3, <1>4

(* The other steps do not concern the relay.                               *)
LEMMA OthersStutter ==
    ASSUME \/ HostAddresses \/ TaskWakesHost \/ WakeDelayElapses
           \/ HostSetsIdle \/ HostSetsLeds \/ UNCHANGED vars
    PROVE  UNCHANGED Relay!vars
<1>1. UNCHANGED <<pipe, endpoint, hostReport>> /\ TudMounted' = TudMounted
  BY DEF HostAddresses, TaskWakesHost, WakeDelayElapses, HostSetsIdle, HostSetsLeds,
         TudHidSetIdleCb, TudHidSetReportCb, vars, busVars, hostVars, TudMounted
<1> QED
  BY <1>1 DEF Relay!vars, Watched

(* Whatever hosts, buses, sources and endpoints do, the adapter and its    *)
(* pipe are a relay: they leave reports out only by starting over, from a  *)
(* release or a recovery, and end on what the keyboard holds               *)
(* (usb_keyboard.c and report_pipe.c, all of both).                        *)
THEOREM AdapterImplementsRelay ==
    ASSUME Recovers
    PROVE  Spec => ImplementsRelay
<1>1. IInv /\ [Next]_vars => [Relay!Next]_(Relay!vars)
  <2> SUFFICES ASSUME IInv, [Next]_vars PROVE Relay!Next \/ UNCHANGED Relay!vars
    OBVIOUS
  <2> QED
    BY SourceRelays, SessionRelays, ReportRelays, OthersStutter
       DEF Next, AdapterAndHost, BusDisturbance
<1> QED
  BY <1>1, RelayInit, AdapterInvariance, PTL DEF Spec, ImplementsRelay, Relay!Spec

-----------------------------------------------------------------------------
(* What is proved of every relay holds of this one.                        *)

\* UsbKeyboard's mapping again, for the theorems about KeyboardRelay.
RelayFacts == INSTANCE KeyboardRelay_proofs WITH
    Reports <- BootReports,
    NoKeys <- BlankReport,
    Recoveries <- {BootReport(RecoveryModifiers)} \ {BlankReport},
    Steps <- {<<BootReport(step[1]), BootReport(step[2])>> : step \in SourceSteps},
    held <- BootReport(pipe.latest),
    plan <- IF Watched
            THEN [i \in DOMAIN pipe.items |-> BootReport(pipe.items[i].state)]
            ELSE << >>,
    wire <- IF endpoint.status = "armed" THEN <<endpoint.report>> ELSE << >>,
    online <- Watched,
    seen <- hostReport

(* Both instances are the same specification.                              *)
LEMMA OneRelay ==
    /\ RelayFacts!Init <=> Relay!Init
    /\ [RelayFacts!Next]_(RelayFacts!vars) <=> [Relay!Next]_(Relay!vars)
<1>1. RelayFacts!Init <=> Relay!Init
  BY DEF RelayFacts!Init, Relay!Init
<1>2. [RelayFacts!Next]_(RelayFacts!vars) <=> [Relay!Next]_(Relay!vars)
  BY Zenon DEF
       RelayFacts!Follows, Relay!Follows,
       RelayFacts!StartsOver, Relay!StartsOver,
       RelayFacts!Sends, Relay!Sends, RelayFacts!Repeats, Relay!Repeats,
       RelayFacts!Shows, Relay!Shows,
       RelayFacts!GoesOffline, Relay!GoesOffline,
       RelayFacts!IsNotWatched, Relay!IsNotWatched,
       RelayFacts!IsForgotten, Relay!IsForgotten,
       RelayFacts!ComesOnline, Relay!ComesOnline,
       RelayFacts!FreshPlans, Relay!FreshPlans,
       RelayFacts!Next, Relay!Next, RelayFacts!vars, Relay!vars
<1> QED
  BY <1>1, <1>2

(* The host goes from one report to another only as the keyboard did, or   *)
(* across a release of everything or a recovery, whatever was dropped,     *)
(* refused, lost or slept through on the way (usb_keyboard.c:151-188).     *)
THEOREM HostFollowsSource ==
    ASSUME Recovers
    PROVE  Spec => ReportsFollowSource
<1>1. Spec => RelayFacts!Spec
  BY AdapterImplementsRelay, OneRelay, PTL
     DEF ImplementsRelay, Relay!Spec, RelayFacts!Spec
<1>2. RelayFacts!Spec => RelayFacts!SeenIsLegal
  BY RelayFacts!SeenStaysLegal
<1>3. [RelayFacts!Legal(hostReport, hostReport')]_(RelayFacts!vars) =>
        [HostPolls =>
           \/ hostReport' = hostReport
           \/ BlankReport \in {hostReport, hostReport'}
           \/ hostReport' = BootReport(RecoveryModifiers)
           \/ \E step \in SourceSteps : /\ hostReport = BootReport(step[1])
                                        /\ hostReport' = BootReport(step[2])]_vars
  BY DEF RelayFacts!Legal, RelayFacts!vars
<1> QED
  BY <1>1, <1>2, <1>3, PTL DEF ReportsFollowSource, RelayFacts!SeenIsLegal
=============================================================================
