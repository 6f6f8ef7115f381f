--------------------------- MODULE HogClient_proofs ---------------------------
(***************************************************************************)
(* The safety of the Pico's keyboard side, for every set of keyboards,     *)
(* connection handles, reports and usages, and every retry delay.          *)
(***************************************************************************)
EXTENDS HogClient, ReportPipeOps_proofs, FiniteSetTheorems

\* States in which a connection is the client's own, and those with a timeout.
LinkedStates == {"SECURING", "HIDS_SETUP", "READY", "DISCONNECTING"}
TimedStates == {"CONNECTING", "CANCELING_CONNECT", "SECURING", "HIDS_SETUP", "BACKOFF"}

LinkMaps == [Handles -> Links \cup {NoLink}]

\* The client's own connection, and what becomes of all others.
LinkInv ==
    /\ client.connectionHandle # NoHandle <=> client.state \in LinkedStates
    /\ client.state \in LinkedStates => CurrentLink # NoLink
    /\ NoLinkIsOrphaned /\ EveryWaitEnds
    /\ ~client.hciWorking => attempt = "none" /\ \A handle \in Handles : ~IsLive(handle)

\* BTstack's HIDS client serves one connection.
OneHids(now) ==
    \A handle, another \in Handles :
        now[handle].hids # "none" /\ now[another].hids # "none" => handle = another

\* Who is approved, who was called, and who is at the other end.
PeerInv ==
    /\ client.hciWorking => record = client.approvedPeer
    /\ client.state \in {"CONNECTING", "SECURING", "HIDS_SETUP"}
         => (client.targetIsApproved <=> client.approvedPeer # NoPeer)
    /\ client.state \in {"HIDS_SETUP", "READY"} =>
         /\ CurrentLink.security = "strong" /\ CurrentLink.device \in bonds
         /\ client.approvedPeer # NoPeer => CurrentLink.device = client.approvedPeer
    /\ client.state = "HIDS_SETUP" => client.targetPeer = CurrentLink.device
    /\ client.state = "READY" =>
         client.approvedPeer # NoPeer /\ CurrentLink.hids = "connected"

\* No key is bonded that was forgotten.
BondInv == bonds \cap forgotten = {}

\* What was typed belongs to a session, and sessions to epochs.
SessionInv ==
    /\ client.state \in {"SECURING", "HIDS_SETUP", "READY"} => client.sessionActive
    /\ client.sessionActive => client.sourceEpoch < LastEpoch

\* The epochs do not wrap, and every report finds a fragment.
EpochsSuffice == LastEpoch <= MaxEpoch
FragmentsSuffice == IsFiniteSet(ReportKeys) /\ Cardinality(ReportKeys) <= MaxFragments

HeldUsages == UNION {held[key] : key \in ReportKeys}

PipeInv ==
    /\ client.pipe.epoch <= client.sourceEpoch
    /\ client.pipe.latest = IF client.state = "READY"
                            THEN FilterForBootReport(client.decoder.state)
                            ELSE Released

\* The decoder has a fragment for every report that holds a key.
DecoderInv ==
    client.state = "READY" =>
        /\ client.decoder.state = HeldUsages
        /\ \A key \in ReportKeys :
              IF key \in DOMAIN client.decoder.fragments
              THEN client.decoder.fragments[key] = held[key]
              ELSE held[key] = Released

IInv == /\ TypeOK /\ SoundPipe(client.pipe)
        /\ LinkInv /\ OneHids(links) /\ PeerInv /\ BondInv /\ SessionInv
        /\ EpochsSuffice => PipeInv
        /\ FragmentsSuffice => DecoderInv

-----------------------------------------------------------------------------
(* The helpers that a handler begins with.                                 *)

\* What most of them leave alone.
SamePolicy(c, d) ==
    /\ d.hciWorking = c.hciWorking /\ d.approvedPeer = c.approvedPeer
SameTarget(c, d) ==
    /\ d.targetPeer = c.targetPeer /\ d.targetIsApproved = c.targetIsApproved
SameSession(c, d) ==
    /\ d.sessionActive = c.sessionActive /\ d.sourceEpoch = c.sourceEpoch
    /\ d.decoder = c.decoder /\ d.pipe = c.pipe

(* A decoder that was reset holds nothing.                                 *)
LEMMA ResetDecoderType ==
    /\ ResetDecoder \in Decoders /\ ResetDecoder.state = Released
    /\ DOMAIN ResetDecoder.fragments = {}
<1>1. [key \in {} |-> Released] \in [{} -> KeyboardStates] /\ {} \in SUBSET ReportKeys
  OBVIOUS
<1>2. [key \in {} |-> Released] \in UNION {[keys -> KeyboardStates] : keys \in SUBSET ReportKeys}
  BY <1>1
<1> QED
  BY <1>2, ReleasedIsState DEF ResetDecoder, Decoders

(* Stopping the timer, and going on to another state.                      *)
LEMMA Entering ==
    ASSUME NEW c \in Clients, NEW state \in ClientStates
    PROVE  /\ LET d == CancelTimer(c) IN
              /\ d \in Clients /\ ~d.timer /\ d.state = c.state
              /\ d.connectionHandle = c.connectionHandle
              /\ SamePolicy(c, d) /\ SameTarget(c, d) /\ SameSession(c, d)
           /\ LET d == Enter(c, state) IN
              /\ d \in Clients /\ d.timer = c.timer /\ d.state = state
              /\ d.connectionHandle = c.connectionHandle
              /\ SamePolicy(c, d) /\ SameTarget(c, d) /\ SameSession(c, d)
           /\ LET d == EnterTimed(c, state) IN
              /\ d \in Clients /\ d.timer /\ d.state = state
              /\ d.connectionHandle = c.connectionHandle
              /\ SamePolicy(c, d) /\ SameTarget(c, d) /\ SameSession(c, d)
BY DEF CancelTimer, Enter, EnterTimed, Clients, SamePolicy, SameTarget, SameSession

(* Forgetting the connection and the peer it was meant for.                *)
LEMMA Clearing ==
    ASSUME NEW c \in Clients
    PROVE  LET d == ClearConnection(c) IN
           /\ d \in Clients /\ d.timer = c.timer /\ d.state = c.state
           /\ d.connectionHandle = NoHandle
           /\ SamePolicy(c, d) /\ SameSession(c, d)
BY DEF ClearConnection, Clients, SamePolicy, SameSession

(* The delay before the next attempt never exceeds the longest.            *)
LEMMA BackingOff ==
    ASSUME NEW c \in Clients
    PROVE  LET d == ScheduleBackoff(c) IN
           /\ d \in Clients /\ d.timer /\ d.state = "BACKOFF"
           /\ d.connectionHandle = c.connectionHandle
           /\ SamePolicy(c, d) /\ SameTarget(c, d) /\ SameSession(c, d)
<1>1. c.retryDelay \in RetryInitial .. RetryMax
  BY DEF Clients
<1>2. (IF 2 * c.retryDelay > RetryMax THEN RetryMax ELSE 2 * c.retryDelay)
        \in RetryInitial .. RetryMax
  BY <1>1, HogClientAssumption
<1> QED
  BY <1>2 DEF ScheduleBackoff, Clients, ClientStates, SamePolicy, SameTarget, SameSession

\* What is typed fits the session: none means that no key is down.
SessionFits(c) ==
    /\ SoundPipe(c.pipe)
    /\ c.sessionActive => c.sourceEpoch < LastEpoch
    /\ EpochsSuffice => /\ c.pipe.epoch <= c.sourceEpoch
                        /\ ~c.sessionActive => c.pipe.latest = Released

(* The epoch after an epoch; it is the larger one below the largest.       *)
LEMMA EpochAdvances ==
    ASSUME NEW epoch \in Epochs
    PROVE  /\ AdvanceEpoch(epoch) \in Epochs
           /\ epoch < MaxEpoch => AdvanceEpoch(epoch) = epoch + 1
BY PipeAssumption, HogClientAssumption DEF AdvanceEpoch, Epochs

(* The end of a session releases every key, and a second end nothing more. *)
LEMMA SessionEnds ==
    ASSUME NEW c \in Clients, SessionFits(c)
    PROVE  LET d == EndSourceSession(c) IN
           /\ d \in Clients /\ ~d.sessionActive /\ SessionFits(d)
           /\ d.state = c.state /\ d.timer = c.timer
           /\ d.connectionHandle = c.connectionHandle
           /\ SamePolicy(c, d) /\ SameTarget(c, d)
<1> DEFINE d == EndSourceSession(c)
           next == AdvanceEpoch(c.sourceEpoch)
<1>1. CASE ~c.sessionActive
  BY <1>1 DEF EndSourceSession, SamePolicy, SameTarget
<1>2. CASE c.sessionActive
  <2>1. c.pipe \in Pipes /\ c.sourceEpoch \in Epochs /\ next \in Epochs
    BY EpochAdvances DEF Clients
  <2>2. EpochsSuffice => c.pipe.epoch < next
    <3>1. c.sourceEpoch < MaxEpoch => next = c.sourceEpoch + 1
      BY <2>1, EpochAdvances
    <3>2. c.pipe.epoch \in 0 .. MaxEpoch /\ c.sourceEpoch \in 0 .. MaxEpoch
      BY <2>1 DEF Epochs, Pipes
    <3> HIDE DEF next
    <3> QED
      BY <1>2, <3>1, <3>2, PipeAssumption, HogClientAssumption
      DEF SessionFits, EpochsSuffice
  <2> DEFINE p == SourceReset(c.pipe, next)
  <2>3. next < c.pipe.epoch => p = c.pipe
    BY DEF SourceReset
  <2>4. ~(next < c.pipe.epoch) =>
          SoundPipe(p) /\ p.latest = Released /\ p.epoch = next
    BY <2>1, BeginEpochIsSound DEF SourceReset
  <2>5. /\ SoundPipe(p) /\ p \in Pipes
        /\ EpochsSuffice => p.latest = Released /\ p.epoch = next
    BY <2>1, <2>2, <2>3, <2>4, PipeAssumption DEF SessionFits, SoundPipe, Epochs, Pipes
  <2>6. d = [c EXCEPT !.sessionActive = FALSE, !.linkSecure = FALSE,
                      !.decoder = ResetDecoder, !.sourceEpoch = next, !.pipe = p]
    BY <1>2 DEF EndSourceSession
  <2> HIDE DEF next, p, d
  <2>7. d \in Clients
    BY <2>1, <2>5, <2>6, ResetDecoderType DEF Clients
  <2>8. /\ d.sessionActive = FALSE /\ d.sourceEpoch = next /\ d.pipe = p
        /\ d.state = c.state /\ d.timer = c.timer
        /\ d.connectionHandle = c.connectionHandle
        /\ SamePolicy(c, d) /\ SameTarget(c, d)
    BY <2>6 DEF Clients, SamePolicy, SameTarget
  <2>9. SessionFits(d)
    BY <2>1, <2>5, <2>8, PipeAssumption DEF SessionFits, Epochs
  <2> QED
    BY <2>7, <2>8, <2>9 DEF d
<1> QED
  BY <1>1, <1>2

-----------------------------------------------------------------------------
(* What a handler leaves behind, by the state it ends in.                  *)

\* A connection of now is handle's, or being closed.
NoneOrphaned(now, handle) ==
    \A other \in Handles : now[other] # NoLink => other = handle \/ now[other].closing

\* What the other variables are at the end of a handler.
RestOK ==
    /\ record' \in Peers \cup {NoPeer, Incompatible}
    /\ bonds' \subseteq Peers /\ forgotten' \subseteq Peers /\ BondInv'
    /\ attempt' \in {"none", "pending", "canceled"} /\ scanning' \in BOOLEAN
    /\ held' \in [ReportKeys -> KeyboardStates]

(* A connection that exists is a link, and its other end a peer.           *)
LEMMA LinkType ==
    ASSUME NEW now \in LinkMaps, NEW handle \in Handles
    PROVE  /\ now[handle] \in Links \cup {NoLink}
           /\ now[handle] # NoLink => now[handle] \in Links
           /\ NoLink \notin Links
           /\ handle # NoHandle
BY HogClientAssumption DEF LinkMaps, Links, NoLink

(* Where no session can type, the pipe shows nothing, and a connection is  *)
(* the client's only while it is being closed.                             *)
LEMMA Resting ==
    ASSUME client' \in Clients, SessionFits(client'), RestOK,
           client'.state \notin {"SECURING", "HIDS_SETUP", "READY"},
           ~client'.sessionActive \/ (EpochsSuffice => client'.pipe.latest = Released),
           client'.timer <=> client'.state \in TimedStates,
           client'.state = "STARTING" <=> ~client'.hciWorking,
           client'.state = "SCANNING" => scanning',
           client'.state = "CONNECTING" =>
               (client'.targetIsApproved <=> client'.approvedPeer # NoPeer),
           client'.hciWorking => record' = client'.approvedPeer,
           links' \in LinkMaps, OneHids(links'),
           NoneOrphaned(links', client'.connectionHandle),
           client'.connectionHandle # NoHandle <=> client'.state = "DISCONNECTING",
           client'.state = "DISCONNECTING" =>
               /\ links'[client'.connectionHandle] # NoLink
               /\ links'[client'.connectionHandle].closing,
           ~client'.hciWorking =>
               attempt' = "none" /\ \A handle \in Handles : links'[handle] = NoLink
    PROVE  IInv'
<1>1. TypeOK'
  BY DEF TypeOK, RestOK, LinkMaps
<1>2. LinkInv'
  <2>1. NoLinkIsOrphaned'
    BY DEF NoLinkIsOrphaned, NoneOrphaned, IsLive
  <2>2. EveryWaitEnds'
    BY DEF EveryWaitEnds, TimedStates, CurrentLink
  <2>3. client'.connectionHandle # NoHandle <=> client'.state \in LinkedStates
    BY DEF LinkedStates
  <2>4. client'.state \in LinkedStates => CurrentLink' # NoLink
    BY DEF LinkedStates, CurrentLink
  <2> QED
    BY <2>1, <2>2, <2>3, <2>4 DEF LinkInv, IsLive
<1>3. PeerInv'
  BY DEF PeerInv
<1>4. SessionInv' /\ BondInv' /\ SoundPipe(client'.pipe)
  BY DEF SessionInv, SessionFits, RestOK
<1>5. (EpochsSuffice => PipeInv')
  BY DEF SessionFits, PipeInv
<1>6. DecoderInv'
  BY DEF DecoderInv
<1> QED
  BY <1>1, <1>2, <1>3, <1>4, <1>5, <1>6 DEF IInv

(* hog_client_disconnect: a connection of the client's is on its way down, *)
(* and without one the client backs off; no key stays down in either case. *)
LEMMA Disconnecting ==
    ASSUME NEW c \in Clients, NEW now \in LinkMaps, RequestDisconnect(c, now),
           SessionFits(c), RestOK, c.hciWorking, record' = c.approvedPeer,
           OneHids(now), NoneOrphaned(now, c.connectionHandle)
    PROVE  IInv'
<1> DEFINE stopped == CancelTimer(c)
           released == EndSourceSession(stopped)
           ended == Enter(released, "DISCONNECTING")
<1>1. /\ stopped \in Clients /\ SessionFits(stopped) /\ ~stopped.timer
      /\ stopped.connectionHandle = c.connectionHandle /\ SamePolicy(c, stopped)
  <2>1. "DISCONNECTING" \in ClientStates
    BY DEF ClientStates
  <2> QED
    BY <2>1, Entering DEF SessionFits, SameSession
<1>2. /\ released \in Clients /\ ~released.sessionActive /\ SessionFits(released)
      /\ ~released.timer /\ released.connectionHandle = c.connectionHandle
      /\ SamePolicy(c, released)
  <2> HIDE DEF stopped
  <2> QED
    BY <1>1, SessionEnds DEF SamePolicy
<1>3. /\ ended \in Clients /\ ~ended.sessionActive /\ SessionFits(ended)
      /\ ~ended.timer /\ ended.connectionHandle = c.connectionHandle
      /\ ended.state = "DISCONNECTING" /\ SamePolicy(c, ended)
  <2> HIDE DEF released
  <2>1. "DISCONNECTING" \in ClientStates
    BY DEF ClientStates
  <2>2. /\ ended \in Clients /\ ended.timer = released.timer
        /\ ended.state = "DISCONNECTING"
        /\ ended.connectionHandle = released.connectionHandle
        /\ SamePolicy(released, ended) /\ SameSession(released, ended)
    BY <1>2, <2>1, Entering
  <2> HIDE DEF ended
  <2> QED
    BY <1>2, <2>2 DEF SessionFits, SameSession, SamePolicy
<1>4. CASE c.connectionHandle = NoHandle \/ now[c.connectionHandle] = NoLink
  <2> DEFINE cleared == ClearConnection(ended)
  <2>1. client' = ScheduleBackoff(cleared) /\ links' = now
    BY <1>4 DEF RequestDisconnect
  <2>2. /\ cleared \in Clients /\ ~cleared.sessionActive /\ SessionFits(cleared)
        /\ cleared.connectionHandle = NoHandle /\ SamePolicy(c, cleared)
    <3> HIDE DEF ended
    <3> QED
      BY <1>3, Clearing DEF SessionFits, SameSession, SamePolicy
  <2>3. /\ client' \in Clients /\ client'.timer /\ client'.state = "BACKOFF"
        /\ client'.connectionHandle = NoHandle /\ SamePolicy(c, client')
        /\ SessionFits(client')
        /\ ~client'.sessionActive
    <3> HIDE DEF cleared
    <3> QED
      BY <2>1, <2>2, BackingOff DEF SessionFits, SameSession, SamePolicy
  <2>4. NoneOrphaned(links', client'.connectionHandle)
    BY <1>4, <2>1, <2>3, HogClientAssumption DEF NoneOrphaned
  <2> QED
    BY <2>1, <2>3, <2>4, Resting DEF TimedStates, SamePolicy
<1>5. CASE c.connectionHandle # NoHandle /\ now[c.connectionHandle] # NoLink
  <2>1. client' = ended /\ links' = GapDisconnect(now, c.connectionHandle)
    BY <1>5 DEF RequestDisconnect
  <2>2. c.connectionHandle \in Handles
    BY <1>5 DEF Clients
  <2>3. /\ links' \in LinkMaps /\ links'[c.connectionHandle] # NoLink
        /\ links'[c.connectionHandle].closing
        /\ links'[c.connectionHandle].hids = now[c.connectionHandle].hids
        /\ \A handle \in Handles : handle # c.connectionHandle =>
              links'[handle] = now[handle]
    BY <2>1, <2>2, <1>5, HogClientAssumption DEF GapDisconnect, LinkMaps, Links, NoLink
  <2>4. OneHids(links') /\ NoneOrphaned(links', c.connectionHandle)
    BY <2>2, <2>3 DEF OneHids, NoneOrphaned
  <2> HIDE DEF ended
  <2> QED
    BY <1>3, <1>5, <2>1, <2>3, <2>4, Resting DEF TimedStates, SamePolicy
<1> QED
  BY <1>4, <1>5

(* What every handler finds: the invariant, as the helpers need it.        *)
LEMMA Found ==
    ASSUME IInv
    PROVE  /\ client \in Clients /\ SessionFits(client) /\ links \in LinkMaps
           /\ OneHids(links) /\ NoneOrphaned(links, client.connectionHandle)
           /\ ~client.hciWorking <=> client.state = "STARTING"
           /\ client.connectionHandle # NoHandle <=> client.state \in LinkedStates
<1>1. client \in Clients /\ links \in LinkMaps
  BY DEF IInv, TypeOK, LinkMaps
<1>2. NoneOrphaned(links, client.connectionHandle)
  BY DEF IInv, LinkInv, NoLinkIsOrphaned, NoneOrphaned, IsLive
<1>3. SessionFits(client)
  BY DEF IInv, SessionInv, SessionFits, PipeInv
<1> QED
  BY <1>1, <1>2, <1>3 DEF IInv, LinkInv, EveryWaitEnds

(* The client has nothing to do with what happened.                        *)
LEMMA Staying ==
    ASSUME IInv, client' = client, record' = record, RestOK, scanning' = scanning,
           bonds \subseteq bonds',
           links' \in LinkMaps, OneHids(links'),
           NoneOrphaned(links', client.connectionHandle),
           client.state \in LinkedStates => links'[client.connectionHandle] # NoLink,
           client.state = "DISCONNECTING" => links'[client.connectionHandle].closing,
           client.state \in {"HIDS_SETUP", "READY"} =>
               /\ links'[client.connectionHandle].security = CurrentLink.security
               /\ links'[client.connectionHandle].device = CurrentLink.device,
           ~client.hciWorking =>
               attempt' = "none" /\ \A handle \in Handles : links'[handle] = NoLink,
           client.state = "READY" =>
               links'[client.connectionHandle].hids = CurrentLink.hids /\ held' = held
    PROVE  IInv'
<1>1. TypeOK'
  BY DEF TypeOK, RestOK, LinkMaps, IInv
<1>2. LinkInv'
  <2>1. NoLinkIsOrphaned'
    BY DEF NoLinkIsOrphaned, NoneOrphaned, IsLive
  <2>2. EveryWaitEnds'
    BY DEF IInv, LinkInv, EveryWaitEnds, CurrentLink
  <2>3. (client.connectionHandle # NoHandle <=> client.state \in LinkedStates)'
    BY DEF IInv, LinkInv
  <2> QED
    BY <2>1, <2>2, <2>3 DEF LinkInv, IsLive, CurrentLink
<1>3. PeerInv'
  BY DEF IInv, PeerInv, CurrentLink
<1>4. SessionInv' /\ BondInv' /\ SoundPipe(client'.pipe)
  BY DEF SessionInv, RestOK, IInv
<1>5. (EpochsSuffice => PipeInv')
  BY DEF IInv, PipeInv
<1>6. (FragmentsSuffice => DecoderInv')
  BY DEF IInv, DecoderInv, HeldUsages
<1> QED
  BY <1>1, <1>2, <1>3, <1>4, <1>5, <1>6 DEF IInv

\* A client c without a connection goes on without one.
GoesIdle(c) ==
    /\ client' \in Clients /\ SameSession(c, client') /\ SamePolicy(c, client')
    /\ client'.connectionHandle = NoHandle /\ client'.state \notin LinkedStates
    /\ client'.timer <=> client'.state \in TimedStates
    /\ client'.state = "STARTING" <=> ~client'.hciWorking
    /\ client'.state = "SCANNING" => scanning'
    /\ client'.state = "CONNECTING" =>
         (client'.targetIsApproved <=> client'.approvedPeer # NoPeer)

(* So it may, whatever the user forgets meanwhile.                         *)
LEMMA Idling ==
    ASSUME IInv, client.state \notin LinkedStates, NEW c, GoesIdle(c),
           SameSession(client, c), RestOK, links' = links,
           c.hciWorking => record' = c.approvedPeer,
           ~c.hciWorking => ~client.hciWorking /\ attempt' = "none"
    PROVE  IInv'
<1>1. SessionFits(client') /\ links \in LinkMaps /\ OneHids(links)
  BY Found DEF SessionFits, SameSession, GoesIdle
<1>2. NoneOrphaned(links', client'.connectionHandle)
  BY Found DEF NoneOrphaned, GoesIdle
<1>3. EpochsSuffice => client'.pipe.latest = Released
  BY DEF IInv, PipeInv, SameSession, GoesIdle, LinkedStates
<1>4. ~client.hciWorking => \A handle \in Handles : links'[handle] = NoLink
  BY DEF IInv, LinkInv, IsLive
<1> QED
  BY <1>1, <1>2, <1>3, <1>4, Resting DEF GoesIdle, SamePolicy, LinkedStates

(* The states that these lemmas name are states of the client.             *)
LEMMA NamedStates ==
    /\ ClientStates = TimedStates \cup LinkedStates \cup {"STARTING", "SCANNING"}
    /\ TimedStates \subseteq ClientStates /\ LinkedStates \subseteq ClientStates
    /\ "STARTING" \in ClientStates /\ "SCANNING" \in ClientStates
BY DEF ClientStates, TimedStates, LinkedStates

(* connect_to_peer: the attempt is under way, or refused.                  *)
LEMMA ConnectingToPeer ==
    ASSUME NEW c \in Clients, NEW peer \in Peers, ConnectToPeer(c, peer),
           c.hciWorking, c.approvedPeer \in {peer, NoPeer},
           attempt \in {"none", "pending", "canceled"}
    PROVE  GoesIdle(c) /\ attempt' \in {"none", "pending", "canceled"}
<1> DEFINE called == [CancelTimer(c) EXCEPT
              !.targetPeer = peer,
              !.targetIsApproved = c.approvedPeer # NoPeer /\ peer = c.approvedPeer,
              !.connectionHandle = NoHandle, !.hidsCid = FALSE, !.linkSecure = FALSE]
<1>1. /\ called \in Clients /\ SameSession(c, called) /\ SamePolicy(c, called)
      /\ called.connectionHandle = NoHandle
      /\ called.targetIsApproved <=> called.approvedPeer # NoPeer
  BY HogClientAssumption DEF CancelTimer, Clients, SameSession, SamePolicy
<1>2. \/ client' = EnterTimed(called, "CONNECTING") /\ attempt' = "pending"
      \/ client' = ScheduleBackoff(called) /\ attempt' = attempt
  BY DEF ConnectToPeer
<1> HIDE DEF called
<1>3. CASE client' = EnterTimed(called, "CONNECTING") /\ attempt' = "pending"
  <2>1. /\ client' \in Clients /\ client'.timer /\ client'.state = "CONNECTING"
        /\ client'.connectionHandle = NoHandle
        /\ SameSession(called, client') /\ SamePolicy(called, client')
        /\ SameTarget(called, client')
    BY <1>1, <1>3, Entering, NamedStates DEF TimedStates
  <2> QED
    BY <1>1, <1>3, <2>1
    DEF GoesIdle, SameSession, SamePolicy, SameTarget, TimedStates, LinkedStates
<1>4. CASE client' = ScheduleBackoff(called) /\ attempt' = attempt
  <2>1. /\ client' \in Clients /\ client'.timer /\ client'.state = "BACKOFF"
        /\ client'.connectionHandle = NoHandle
        /\ SameSession(called, client') /\ SamePolicy(called, client')
    BY <1>1, <1>4, BackingOff
  <2> QED
    BY <1>1, <1>4, <2>1
    DEF GoesIdle, SameSession, SamePolicy, TimedStates, LinkedStates
<1> QED
  BY <1>2, <1>3, <1>4

(* start_scan.                                                             *)
LEMMA ScanStarting ==
    ASSUME NEW c \in Clients, StartScan(c), c.hciWorking, c.connectionHandle = NoHandle
    PROVE  GoesIdle(c) /\ scanning' = TRUE
<1> DEFINE aimless == [CancelTimer(c) EXCEPT !.targetPeer = NoPeer,
                                             !.targetIsApproved = FALSE]
<1>1. /\ aimless \in Clients /\ SameSession(c, aimless) /\ SamePolicy(c, aimless)
      /\ aimless.connectionHandle = NoHandle /\ ~aimless.timer
  BY DEF CancelTimer, Clients, SameSession, SamePolicy
<1>2. client' = Enter(aimless, "SCANNING") /\ scanning' = TRUE
  BY DEF StartScan
<1> HIDE DEF aimless
<1>3. /\ client' \in Clients /\ ~client'.timer /\ client'.state = "SCANNING"
      /\ client'.connectionHandle = NoHandle
      /\ SameSession(aimless, client') /\ SamePolicy(aimless, client')
  BY <1>1, <1>2, Entering, NamedStates
<1> QED
  BY <1>1, <1>2, <1>3
  DEF GoesIdle, SameSession, SamePolicy, TimedStates, LinkedStates

(* retry_current_policy.                                                   *)
LEMMA Retrying ==
    ASSUME NEW c \in Clients, RetryCurrentPolicy(c), c.hciWorking,
           c.connectionHandle = NoHandle, scanning \in BOOLEAN,
           attempt \in {"none", "pending", "canceled"}
    PROVE  /\ GoesIdle(c) /\ attempt' \in {"none", "pending", "canceled"}
           /\ scanning' \in BOOLEAN
<1>1. c.approvedPeer \in Peers \cup {NoPeer}
  BY DEF Clients
<1>2. CASE c.approvedPeer # NoPeer
  BY <1>1, <1>2, ConnectingToPeer DEF RetryCurrentPolicy
<1>3. CASE c.approvedPeer = NoPeer
  BY <1>3, ScanStarting DEF RetryCurrentPolicy
<1> QED
  BY <1>2, <1>3

(* The attempt to connect is given up, now or when BTstack has done so.    *)
LEMMA Canceling ==
    ASSUME NEW c \in Clients, CancelConnect(c), c.hciWorking,
           c.connectionHandle = NoHandle,
           attempt \in {"none", "pending", "canceled"}
    PROVE  GoesIdle(c) /\ attempt' \in {"none", "pending", "canceled"}
<1> DEFINE stopped == CancelTimer(c)
           canceling == Enter(stopped, "CANCELING_CONNECT")
<1>1. "CANCELING_CONNECT" \in ClientStates
  BY DEF ClientStates
<1>2. /\ stopped \in Clients /\ stopped.connectionHandle = NoHandle
      /\ SameSession(c, stopped) /\ SamePolicy(c, stopped)
  BY Entering, <1>1
<1>3. /\ canceling \in Clients /\ canceling.connectionHandle = NoHandle
      /\ SameSession(stopped, canceling) /\ SamePolicy(stopped, canceling)
  <2> HIDE DEF stopped
  <2> QED
    BY Entering, <1>1, <1>2
<1>4. SameSession(c, canceling) /\ SamePolicy(c, canceling)
  BY <1>2, <1>3 DEF SameSession, SamePolicy
<1>5. \/ client' = ScheduleBackoff(ClearConnection(canceling)) /\ attempt' = "none"
      \/ client' = EnterTimed(canceling, "CANCELING_CONNECT") /\ attempt' = "canceled"
      \/ client' = ScheduleBackoff(canceling) /\ attempt' = attempt
  BY DEF CancelConnect
<1> HIDE DEF canceling
<1>6. CASE client' = EnterTimed(canceling, "CANCELING_CONNECT") /\ attempt' = "canceled"
  <2>1. /\ client' \in Clients /\ client'.timer /\ client'.state = "CANCELING_CONNECT"
        /\ client'.connectionHandle = NoHandle
        /\ SameSession(canceling, client') /\ SamePolicy(canceling, client')
    BY <1>1, <1>3, <1>6, Entering
  <2> QED
    BY <1>4, <1>6, <2>1
    DEF GoesIdle, SameSession, SamePolicy, TimedStates, LinkedStates
<1>7. ASSUME NEW b \in {canceling, ClearConnection(canceling)},
             client' = ScheduleBackoff(b)
      PROVE  GoesIdle(c)
  <2>1. /\ b \in Clients /\ b.connectionHandle = NoHandle
        /\ SameSession(canceling, b) /\ SamePolicy(canceling, b)
    BY <1>3, Clearing DEF SameSession, SamePolicy
  <2>2. /\ client' \in Clients /\ client'.timer /\ client'.state = "BACKOFF"
        /\ client'.connectionHandle = NoHandle
        /\ SameSession(b, client') /\ SamePolicy(b, client')
    BY <1>7, <2>1, BackingOff
  <2> QED
    BY <1>4, <2>1, <2>2
    DEF GoesIdle, SameSession, SamePolicy, TimedStates, LinkedStates
<1> QED
  BY <1>5, <1>6, <1>7

-----------------------------------------------------------------------------
(* A client without a connection, action by action.                        *)

(* The controller works: the approval is read back from flash.             *)
LEMMA HciStartsWorkingKeeps ==
    ASSUME IInv, HciStartsWorking
    PROVE  IInv'
<1> DEFINE c == [client EXCEPT !.hciWorking = TRUE, !.approvedPeer = LoadApprovedPeer]
<1>1. LoadApprovedPeer \in Peers \cup {NoPeer} /\ record' = LoadApprovedPeer
  BY DEF LoadApprovedPeer, HciStartsWorking
<1>2. client.state = "STARTING" /\ client.state \notin LinkedStates
  BY Found DEF HciStartsWorking, LinkedStates
<1>3. /\ c \in Clients /\ c.hciWorking /\ c.connectionHandle = NoHandle
      /\ SameSession(client, c) /\ c.approvedPeer = record'
  BY <1>1, <1>2, Found DEF Clients, SameSession
<1>4. RetryCurrentPolicy(c) /\ links' = links
  BY DEF HciStartsWorking
<1> HIDE DEF c
<1>5. /\ GoesIdle(c) /\ attempt' \in {"none", "pending", "canceled"}
      /\ scanning' \in BOOLEAN
  BY <1>3, <1>4, Retrying DEF IInv, TypeOK
<1>6. RestOK
  BY <1>1, <1>5 DEF IInv, TypeOK, RestOK, BondInv, HciStartsWorking, ghostVars
<1> QED
  BY <1>2, <1>3, <1>4, <1>5, <1>6, Idling

(* A keyboard in pairing mode is called.                                   *)
LEMMA AdvertisingReportKeeps ==
    ASSUME IInv, AdvertisingReport
    PROVE  IInv'
<1>1. /\ client.state = "SCANNING" /\ client.approvedPeer = NoPeer
      /\ client.state \notin LinkedStates /\ links' = links /\ scanning' = FALSE
  BY DEF AdvertisingReport, LinkedStates
<1>2. client \in Clients /\ client.hciWorking /\ SameSession(client, client)
  BY <1>1, Found DEF SameSession
<1>3. PICK candidate \in Peers : ConnectToPeer(client, candidate)
  BY DEF AdvertisingReport
<1>4. GoesIdle(client) /\ attempt' \in {"none", "pending", "canceled"}
  BY <1>1, <1>2, <1>3, ConnectingToPeer DEF IInv, TypeOK
<1>5. record' = client.approvedPeer
  BY <1>2 DEF AdvertisingReport, flashVars, IInv, PeerInv
<1>6. RestOK
  BY <1>1, <1>4
  DEF IInv, TypeOK, RestOK, BondInv, AdvertisingReport, flashVars, ghostVars
<1> QED
  BY <1>1, <1>2, <1>4, <1>5, <1>6, Idling

(* The attempt ends without a connection, expected or too late.            *)
LEMMA ConnectionFailsKeeps ==
    ASSUME IInv, ConnectionFails
    PROVE  IInv'
<1>1. /\ attempt' = "none" /\ scanning' = scanning /\ links' = links
      /\ record' = record /\ bonds' = bonds /\ held' = held
  BY DEF ConnectionFails, flashVars, ghostVars
<1>2. RestOK
  BY <1>1 DEF IInv, TypeOK, RestOK, BondInv, ConnectionFails, flashVars, ghostVars
<1>3. client.hciWorking
  BY DEF ConnectionFails, IInv, LinkInv
<1>4. CASE AwaitsConnection
  <2> DEFINE stopped == CancelTimer(client)
             cleared == ClearConnection(stopped)
  <2>1. client.state \notin LinkedStates /\ client' = ScheduleBackoff(cleared)
    BY <1>4 DEF AwaitsConnection, LinkedStates, ConnectionFails
  <2>2. /\ stopped \in Clients
        /\ SameSession(client, stopped) /\ SamePolicy(client, stopped)
    BY Found, Entering DEF ClientStates
  <2> HIDE DEF stopped
  <2>3. /\ cleared \in Clients /\ cleared.connectionHandle = NoHandle
        /\ SameSession(stopped, cleared) /\ SamePolicy(stopped, cleared)
    BY <2>2, Clearing
  <2> HIDE DEF cleared
  <2>4. /\ client' \in Clients /\ client'.timer /\ client'.state = "BACKOFF"
        /\ client'.connectionHandle = NoHandle
        /\ SameSession(cleared, client') /\ SamePolicy(cleared, client')
    BY <2>1, <2>3, BackingOff
  <2>5. GoesIdle(client)
    BY <1>3, <2>2, <2>3, <2>4
    DEF GoesIdle, SameSession, SamePolicy, LinkedStates, TimedStates
  <2> QED
    BY <1>1, <1>2, <1>3, <2>1, <2>5, Idling DEF SameSession, IInv, PeerInv
<1>5. CASE ~AwaitsConnection
  <2>1. client' = client
    BY <1>5 DEF ConnectionFails
  <2> QED
    BY <1>1, <1>2, <1>3, <2>1, Found, Staying DEF IInv, LinkInv, EveryWaitEnds, CurrentLink
<1> QED
  BY <1>4, <1>5

(* The attempt took too long, and is canceled.                             *)
LEMMA ConnectTimesOutKeeps ==
    ASSUME IInv, ConnectTimesOut
    PROVE  IInv'
<1>1. /\ client.state \notin LinkedStates /\ client.state # "STARTING"
      /\ links' = links /\ scanning' = scanning /\ record' = record
      /\ CancelConnect(Fired)
  BY DEF ConnectTimesOut, LinkedStates, flashVars
<1>2. /\ Fired \in Clients /\ Fired.connectionHandle = NoHandle
      /\ SameSession(client, Fired) /\ SamePolicy(client, Fired)
      /\ client.hciWorking /\ Fired.hciWorking
  BY <1>1, Found, Entering DEF Fired, SamePolicy, ClientStates
<1>3. GoesIdle(Fired) /\ attempt' \in {"none", "pending", "canceled"}
  BY <1>1, <1>2, Canceling DEF IInv, TypeOK
<1>4. RestOK
  BY <1>1, <1>3 DEF IInv, TypeOK, RestOK, BondInv, ConnectTimesOut, flashVars, ghostVars
<1> QED
  BY <1>1, <1>2, <1>3, <1>4, Idling DEF IInv, PeerInv, SamePolicy

(* The cancellation took too long, and is not waited for.                  *)
LEMMA CancelTimesOutKeeps ==
    ASSUME IInv, CancelTimesOut
    PROVE  IInv'
<1> DEFINE cleared == ClearConnection(Fired)
<1>1. /\ client.state \notin LinkedStates /\ client.state # "STARTING"
      /\ links' = links /\ record' = record /\ client' = ScheduleBackoff(cleared)
  BY DEF CancelTimesOut, LinkedStates, flashVars, radioVars
<1>2. /\ Fired \in Clients /\ SameSession(client, Fired) /\ SamePolicy(client, Fired)
      /\ client.hciWorking
  BY <1>1, Found, Entering DEF Fired, ClientStates
<1>3. /\ cleared \in Clients /\ cleared.connectionHandle = NoHandle
      /\ SameSession(Fired, cleared) /\ SamePolicy(Fired, cleared)
  BY <1>2, Clearing
<1> HIDE DEF cleared
<1>4. /\ client' \in Clients /\ client'.timer /\ client'.state = "BACKOFF"
      /\ client'.connectionHandle = NoHandle
      /\ SameSession(cleared, client') /\ SamePolicy(cleared, client')
  BY <1>1, <1>3, BackingOff
<1>5. GoesIdle(client)
  BY <1>2, <1>3, <1>4 DEF GoesIdle, SameSession, SamePolicy, LinkedStates, TimedStates
<1>6. RestOK
  BY DEF IInv, TypeOK, RestOK, BondInv, CancelTimesOut, flashVars, radioVars, ghostVars
<1> QED
  BY <1>1, <1>2, <1>5, <1>6, Idling DEF IInv, PeerInv, SameSession

(* The delay is over, and the policy is tried again.                       *)
LEMMA BackoffEndsKeeps ==
    ASSUME IInv, BackoffEnds
    PROVE  IInv'
<1>1. /\ client.state \notin LinkedStates /\ client.state # "STARTING"
      /\ links' = links /\ record' = record /\ RetryCurrentPolicy(Fired)
  BY DEF BackoffEnds, LinkedStates, flashVars
<1>2. /\ Fired \in Clients /\ Fired.connectionHandle = NoHandle
      /\ SameSession(client, Fired) /\ SamePolicy(client, Fired)
      /\ client.hciWorking /\ Fired.hciWorking
  BY <1>1, Found, Entering DEF Fired, SamePolicy, ClientStates
<1>3. /\ GoesIdle(Fired) /\ attempt' \in {"none", "pending", "canceled"}
      /\ scanning' \in BOOLEAN
  BY <1>1, <1>2, Retrying DEF IInv, TypeOK
<1>4. RestOK
  BY <1>1, <1>3 DEF IInv, TypeOK, RestOK, BondInv, BackoffEnds, flashVars, ghostVars
<1> QED
  BY <1>1, <1>2, <1>3, <1>4, Idling DEF IInv, PeerInv, SamePolicy

(* hog_client_forget_peer, whatever the client is at.                      *)
LEMMA ForgetPeerKeeps ==
    ASSUME IInv, ForgetPeer
    PROVE  IInv'
<1> DEFINE c == [client EXCEPT !.approvedPeer = NoPeer, !.retryDelay = RetryInitial]
<1>1. /\ c \in Clients /\ SameSession(client, c) /\ SessionFits(c)
      /\ c.hciWorking = client.hciWorking /\ c.state = client.state
      /\ c.timer = client.timer /\ c.approvedPeer = NoPeer
      /\ c.connectionHandle = client.connectionHandle
  <2>1. RetryInitial \in RetryInitial .. RetryMax
    BY HogClientAssumption
  <2>2. c \in Clients
    BY <2>1, Found DEF Clients
  <2> QED
    BY <2>2, Found DEF Clients, SameSession, SessionFits
<1>2. /\ record' = NoPeer /\ held' = held
      /\ bonds' = bonds \ PeersToForget /\ forgotten' = forgotten \cup PeersToForget
  BY DEF ForgetPeer, PeersToForget
<1>3. PeersToForget \subseteq Peers
  BY DEF IInv, TypeOK, PeersToForget, ActiveIdentity
<1>4. \/ c.state \in {"STARTING", "CANCELING_CONNECT"} /\ client' = c /\ UNCHANGED radioVars
      \/ c.state \in {"SCANNING", "BACKOFF"} /\ StartScan(c) /\ UNCHANGED <<attempt, links>>
      \/ c.state = "CONNECTING" /\ CancelConnect(c) /\ UNCHANGED <<scanning, links>>
      \/ /\ c.state \in LinkedStates
         /\ RequestDisconnect(c, links) /\ UNCHANGED <<attempt, scanning>>
  BY DEF ForgetPeer, LinkedStates
<1> HIDE DEF c
<1>5. /\ bonds' \subseteq Peers /\ forgotten' \subseteq Peers /\ BondInv'
      /\ held' \in [ReportKeys -> KeyboardStates]
      /\ record' \in Peers \cup {NoPeer, Incompatible}
      /\ attempt \in {"none", "pending", "canceled"} /\ scanning \in BOOLEAN
  BY <1>2, <1>3 DEF IInv, TypeOK, BondInv
<1>6. CASE c.state \in {"STARTING", "CANCELING_CONNECT"} /\ client' = c /\ UNCHANGED radioVars
  <2>1. GoesIdle(c)
    BY <1>1, <1>6, Found
    DEF IInv, LinkInv, EveryWaitEnds, GoesIdle, SameSession, SamePolicy,
        LinkedStates, TimedStates
  <2>2. RestOK
    BY <1>5, <1>6 DEF RestOK, radioVars
  <2> QED
    BY <1>1, <1>2, <1>6, <2>1, <2>2, Idling DEF radioVars, LinkedStates, IInv, LinkInv
<1>7. CASE c.state \in {"SCANNING", "BACKOFF"} /\ StartScan(c) /\ UNCHANGED <<attempt, links>>
  <2>1. c.hciWorking /\ c.state \notin LinkedStates /\ c.connectionHandle = NoHandle
    BY <1>1, <1>7, Found DEF LinkedStates
  <2>2. GoesIdle(c) /\ scanning' = TRUE
    BY <1>1, <1>7, <2>1, ScanStarting
  <2>3. RestOK
    BY <1>5, <1>7, <2>2 DEF RestOK
  <2> QED
    BY <1>1, <1>2, <1>7, <2>1, <2>2, <2>3, Idling
<1>8. CASE c.state = "CONNECTING" /\ CancelConnect(c) /\ UNCHANGED <<scanning, links>>
  <2>1. c.hciWorking /\ c.state \notin LinkedStates /\ c.connectionHandle = NoHandle
    BY <1>1, <1>8, Found DEF LinkedStates
  <2>2. GoesIdle(c) /\ attempt' \in {"none", "pending", "canceled"}
    BY <1>1, <1>5, <1>8, <2>1, Canceling
  <2>3. RestOK
    BY <1>5, <1>8, <2>2 DEF RestOK
  <2> QED
    BY <1>1, <1>2, <1>8, <2>1, <2>2, <2>3, Idling
<1>9. CASE c.state \in LinkedStates /\ RequestDisconnect(c, links) /\ UNCHANGED <<attempt, scanning>>
  <2>1. c.hciWorking
    BY <1>1, <1>9, Found DEF LinkedStates
  <2>2. RestOK
    BY <1>5, <1>9 DEF RestOK
  <2> QED
    BY <1>1, <1>2, <1>9, <2>1, <2>2, Found, Disconnecting
<1> QED
  BY <1>4, <1>6, <1>7, <1>8, <1>9

-----------------------------------------------------------------------------
(* A client with a connection, action by action.                           *)

(* What happens to one connection leaves every other as it was.            *)
LEMMA LinkUpdated ==
    ASSUME IInv, NEW handle \in Handles, IsLive(handle), NEW link \in Links,
           link.closing = links[handle].closing,
           link.hids # "none" => links[handle].hids # "none"
    PROVE  LET now == [links EXCEPT ![handle] = link] IN
           /\ now \in LinkMaps /\ OneHids(now)
           /\ NoneOrphaned(now, client.connectionHandle)
           /\ now[handle] = link /\ link # NoLink
           /\ \A other \in Handles : other # handle => now[other] = links[other]
<1> DEFINE now == [links EXCEPT ![handle] = link]
<1>1. links \in LinkMaps /\ links[handle] # NoLink /\ link # NoLink
  BY Found, LinkType DEF IsLive
<1>2. /\ now \in LinkMaps /\ now[handle] = link
      /\ \A other \in Handles : other # handle => now[other] = links[other]
  BY <1>1 DEF LinkMaps
<1> HIDE DEF now
<1>3. OneHids(now)
  BY <1>2, Found DEF OneHids
<1>4. NoneOrphaned(now, client.connectionHandle)
  BY <1>1, <1>2, Found DEF NoneOrphaned
<1> QED
  BY <1>1, <1>2, <1>3, <1>4 DEF now

(* The variables of BTstack and of flash keep what they are.               *)
LEMMA RestKept ==
    ASSUME IInv, UNCHANGED <<record, bonds, forgotten>>,
           attempt' \in {"none", "pending", "canceled"}, scanning' \in BOOLEAN,
           held' \in [ReportKeys -> KeyboardStates]
    PROVE  RestOK
BY DEF IInv, TypeOK, RestOK, BondInv

(* A lost encryption.                                                      *)
LEMMA EncryptionFailsKeeps ==
    ASSUME IInv, NEW handle \in Handles, EncryptionFails(handle)
    PROVE  IInv'
<1> DEFINE c == [client EXCEPT !.linkSecure = FALSE]
<1>1. IsLive(handle) /\ links[handle] \in Links
  BY Found, LinkType DEF EncryptionFails, IsLive
<1>2. PICK security \in {"none", links[handle].security} :
          RequestDisconnect(c, [links EXCEPT ![handle].security = security])
  BY DEF EncryptionFails
<1> DEFINE link == [links[handle] EXCEPT !.security = security]
           now == [links EXCEPT ![handle] = link]
<1>3. /\ link \in Links /\ link.closing = links[handle].closing
      /\ link.hids = links[handle].hids
  BY <1>1, <1>2 DEF Links
<1>4. RequestDisconnect(c, now)
  BY <1>2
<1> HIDE DEF link
<1>5. /\ now \in LinkMaps /\ OneHids(now) /\ NoneOrphaned(now, client.connectionHandle)
  BY <1>1, <1>3, LinkUpdated
<1>6. /\ c \in Clients /\ SessionFits(c) /\ c.connectionHandle = client.connectionHandle
      /\ SamePolicy(client, c)
  BY Found DEF Clients, SessionFits, SamePolicy
<1>7. client.hciWorking /\ record' = client.approvedPeer
  BY Found DEF EncryptionFails, SecurityStageActive, flashVars, IInv, PeerInv
<1>8. RestOK
  BY RestKept DEF EncryptionFails, flashVars, ghostVars, IInv, TypeOK
<1> HIDE DEF c, now
<1> QED
  BY <1>4, <1>5, <1>6, <1>7, <1>8, Disconnecting DEF SamePolicy

(* A pairing method that is not acceptable.                                *)
LEMMA RejectPairingMethodKeeps ==
    ASSUME IInv, NEW handle \in Handles, RejectPairingMethod(handle)
    PROVE  IInv'
<1>1. RequestDisconnect(client, links) /\ client.hciWorking
  BY Found DEF RejectPairingMethod, SmEventMatchesCurrent
<1>2. record' = client.approvedPeer
  BY <1>1 DEF RejectPairingMethod, flashVars, IInv, PeerInv
<1>3. RestOK
  BY RestKept DEF RejectPairingMethod, flashVars, ghostVars, IInv, TypeOK
<1> QED
  BY <1>1, <1>2, <1>3, Found, Disconnecting

(* Security that does not come in time.                                    *)
LEMMA SecurityTimesOutKeeps ==
    ASSUME IInv, SecurityTimesOut
    PROVE  IInv'
<1>1. RequestDisconnect(Fired, links) /\ client.hciWorking
  BY Found DEF SecurityTimesOut
<1>2. /\ Fired \in Clients /\ Fired.connectionHandle = client.connectionHandle
      /\ SameSession(client, Fired) /\ SamePolicy(client, Fired)
  BY Found, Entering DEF Fired, ClientStates
<1>3. RestOK
  BY RestKept DEF SecurityTimesOut, flashVars, ghostVars, IInv, TypeOK
<1>4. record' = client.approvedPeer
  BY <1>1 DEF SecurityTimesOut, flashVars, IInv, PeerInv
<1>5. SessionFits(Fired)
  BY <1>2, Found DEF SessionFits, SameSession
<1> QED
  BY <1>1, <1>2, <1>3, <1>4, <1>5, Found, Disconnecting DEF SamePolicy

(* A service setup that does not end in time.                              *)
LEMMA HidsSetupTimesOutKeeps ==
    ASSUME IInv, HidsSetupTimesOut
    PROVE  IInv'
<1> DEFINE handle == client.connectionHandle
           c == [Fired EXCEPT !.hidsCid = FALSE]
           link == [links[handle] EXCEPT !.hids = "none"]
           now == [links EXCEPT ![handle] = link]
<1>1. /\ RequestDisconnect(c, now) /\ client.hciWorking
      /\ client.state \in LinkedStates
  BY Found DEF HidsSetupTimesOut, LinkedStates
<1>2. /\ Fired \in Clients /\ Fired.connectionHandle = client.connectionHandle
      /\ SameSession(client, Fired) /\ SamePolicy(client, Fired)
  BY Found, Entering DEF Fired, ClientStates
<1>3. /\ c \in Clients /\ SessionFits(c) /\ c.connectionHandle = client.connectionHandle
      /\ SamePolicy(client, c)
  BY <1>2, Found DEF Clients, SessionFits, SamePolicy, SameSession
<1>4. handle \in Handles /\ IsLive(handle)
  BY <1>1, Found DEF Clients, IInv, LinkInv, CurrentLink, IsLive
<1>5. links[handle] \in Links
  BY <1>4, Found, LinkType DEF IsLive
<1>6. /\ link \in Links /\ link.closing = links[handle].closing
      /\ link.hids = "none"
  BY <1>5 DEF Links
<1> HIDE DEF link
<1>7. now \in LinkMaps /\ OneHids(now) /\ NoneOrphaned(now, client.connectionHandle)
  BY <1>4, <1>6, LinkUpdated
<1>8. RestOK
  BY RestKept DEF HidsSetupTimesOut, flashVars, ghostVars, IInv, TypeOK
<1>9. record' = client.approvedPeer
  BY <1>1 DEF HidsSetupTimesOut, flashVars, IInv, PeerInv
<1> HIDE DEF c, now
<1> QED
  BY <1>1, <1>3, <1>7, <1>8, <1>9, Disconnecting DEF SamePolicy

(* The client after a reset.                                               *)
LEMMA Initially ==
    /\ InitialClient \in Clients /\ SessionFits(InitialClient)
    /\ [handle \in Handles |-> NoLink] \in LinkMaps
    /\ OneHids([handle \in Handles |-> NoLink])
<1>1. InitialPipe \in Pipes /\ SoundPipe(InitialPipe)
  BY PipeAssumption, ReleasedIsState DEF InitialPipe, Pipes, SoundPipe
<1>2. 1 \in Epochs /\ RetryInitial \in RetryInitial .. RetryMax
  BY PipeAssumption, HogClientAssumption DEF Epochs
<1>3. InitialClient \in Clients
  BY <1>1, <1>2, ResetDecoderType DEF InitialClient, Clients, ClientStates
<1>4. SessionFits(InitialClient)
  <2>1. /\ InitialClient.pipe = InitialPipe /\ InitialClient.sessionActive = FALSE
        /\ InitialClient.sourceEpoch = 1
        /\ InitialPipe.epoch = 0 /\ InitialPipe.latest = Released
    BY DEF InitialClient, InitialPipe
  <2> QED
    BY <1>1, <2>1 DEF SessionFits
<1>5. /\ [handle \in Handles |-> NoLink] \in LinkMaps
      /\ OneHids([handle \in Handles |-> NoLink])
  BY DEF LinkMaps, OneHids, NoLink
<1> QED
  BY <1>3, <1>4, <1>5

(* The invariant holds at first.                                           *)
LEMMA InitIInv ==
    ASSUME Init
    PROVE  IInv
<1>1. /\ client \in Clients /\ SessionFits(client)
      /\ links \in LinkMaps /\ OneHids(links)
  BY Initially DEF Init
<1>2. /\ client.state = "STARTING" /\ client.hciWorking = FALSE /\ client.timer = FALSE
      /\ client.connectionHandle = NoHandle /\ client.sessionActive = FALSE
      /\ attempt = "none" /\ \A handle \in Handles : links[handle] = NoLink
  BY DEF Init, InitialClient
<1>3. TypeOK
  <2>1. NothingHeld \in [ReportKeys -> KeyboardStates]
    BY ReleasedIsState DEF NothingHeld
  <2> QED
    BY <1>1, <2>1 DEF Init, TypeOK, LinkMaps
<1>4. LinkInv /\ PeerInv /\ BondInv /\ SessionInv
  BY <1>2 DEF Init, LinkInv, PeerInv, BondInv, SessionInv, LinkedStates, IsLive,
              NoLinkIsOrphaned, EveryWaitEnds
<1>5. DecoderInv /\ (EpochsSuffice => PipeInv)
  BY <1>1, <1>2 DEF DecoderInv, PipeInv, SessionFits
<1>6. SoundPipe(client.pipe)
  BY <1>1 DEF SessionFits
<1> QED
  BY <1>1, <1>3, <1>4, <1>5, <1>6 DEF IInv

(* A power cycle forgets all but flash, and leaves that alone but in the   *)
(* middle of forgetting a keyboard, when bonds are only deleted.           *)
LEMMA PowerCyclesKeeps ==
    ASSUME IInv, Reboot \/ ForgetPeerIsCut
    PROVE  IInv'
<1>1. /\ client' \in Clients /\ SessionFits(client')
      /\ links' \in LinkMaps /\ OneHids(links')
  BY Initially DEF Reboot, ForgetPeerIsCut, PowerCycles
<1>2. /\ client'.state = "STARTING" /\ client'.hciWorking = FALSE
      /\ client'.timer = FALSE
      /\ client'.connectionHandle = NoHandle /\ client'.sessionActive = FALSE
      /\ attempt' = "none" /\ \A handle \in Handles : links'[handle] = NoLink
  BY DEF Reboot, ForgetPeerIsCut, PowerCycles, InitialClient
<1>3. attempt' \in {"none", "pending", "canceled"} /\ scanning' \in BOOLEAN
  BY DEF Reboot, ForgetPeerIsCut, PowerCycles
<1>4. RestOK
  <2>1. CASE Reboot
    BY <1>3, <2>1, RestKept DEF Reboot, PowerCycles, flashVars, ghostVars, IInv, TypeOK
  <2>2. CASE ForgetPeerIsCut
    BY <1>3, <2>2 DEF ForgetPeerIsCut, ghostVars, IInv, TypeOK, BondInv, RestOK
  <2> QED
    BY <2>1, <2>2
<1> QED
  BY <1>1, <1>2, <1>4, Resting DEF NoneOrphaned, TimedStates

(* The controller stops under the client, whatever it is at.               *)
LEMMA HciStopsWorkingKeeps ==
    ASSUME IInv, HciStopsWorking
    PROVE  IInv'
<1> DEFINE stopped == [CancelTimer(client) EXCEPT !.hciWorking = FALSE]
           ended == EndSourceSession(stopped)
           cleared == ClearConnection(ended)
<1>1. /\ stopped \in Clients /\ SessionFits(stopped)
      /\ stopped.timer = FALSE /\ stopped.hciWorking = FALSE
  BY Found DEF CancelTimer, Clients, SessionFits
<1> HIDE DEF stopped
<1>2. /\ ended \in Clients /\ ~ended.sessionActive /\ SessionFits(ended)
      /\ ended.timer = FALSE /\ ended.hciWorking = FALSE
  BY <1>1, SessionEnds DEF SamePolicy
<1> HIDE DEF ended
<1>3. /\ cleared \in Clients /\ ~cleared.sessionActive /\ SessionFits(cleared)
      /\ cleared.timer = FALSE /\ cleared.hciWorking = FALSE
      /\ cleared.connectionHandle = NoHandle
  BY <1>2, Clearing DEF SamePolicy, SameSession, SessionFits
<1>4. client' = Enter(cleared, "STARTING") /\ attempt' = "none" /\ scanning' = FALSE
  BY DEF HciStopsWorking, ended, stopped
<1> HIDE DEF cleared
<1>5. /\ client' \in Clients /\ ~client'.sessionActive /\ SessionFits(client')
      /\ client'.timer = FALSE /\ client'.hciWorking = FALSE
      /\ client'.connectionHandle = NoHandle /\ client'.state = "STARTING"
  BY <1>3, <1>4, Entering, NamedStates DEF SamePolicy, SameSession, SessionFits
<1>6. /\ links' \in LinkMaps /\ OneHids(links')
      /\ \A handle \in Handles : links'[handle] = NoLink
  BY Initially DEF HciStopsWorking
<1>7. RestOK
  BY <1>4, RestKept DEF HciStopsWorking, flashVars, ghostVars, IInv, TypeOK
<1> QED
  BY <1>4, <1>5, <1>6, <1>7, Resting DEF NoneOrphaned, TimedStates

(* The end of the service ends the session before the disconnection does.  *)
LEMMA HidServiceEnds ==
    ASSUME NEW c \in Clients, SessionFits(c)
    PROVE  LET d == HidServiceDisconnected(c) IN
           d \in Clients /\ SessionFits(d) /\ SamePolicy(c, d)
<1> DEFINE b == [c EXCEPT !.hidsCid = FALSE]
           ended == EndSourceSession(b)
<1>1. CASE ~c.hidsCid
  BY <1>1 DEF HidServiceDisconnected, SamePolicy
<1>2. CASE c.hidsCid
  <2>1. b \in Clients /\ SessionFits(b) /\ SamePolicy(c, b)
    BY DEF Clients, SessionFits, SamePolicy
  <2> HIDE DEF b
  <2>2. ended \in Clients /\ SessionFits(ended) /\ SamePolicy(b, ended)
    BY <2>1, SessionEnds
  <2>3. HidServiceDisconnected(c) = Enter(ended, "DISCONNECTING")
    BY <1>2 DEF HidServiceDisconnected, b
  <2> HIDE DEF ended
  <2>4. /\ Enter(ended, "DISCONNECTING") \in Clients
        /\ SameSession(ended, Enter(ended, "DISCONNECTING"))
        /\ SamePolicy(ended, Enter(ended, "DISCONNECTING"))
    BY <2>2, Entering DEF ClientStates
  <2> QED
    BY <2>1, <2>2, <2>3, <2>4 DEF SessionFits, SameSession, SamePolicy
<1> QED
  BY <1>1, <1>2

(* The client's own connection is gone, or another one.                    *)
LEMMA DisconnectionCompletesKeeps ==
    ASSUME IInv, NEW handle \in Handles, DisconnectionCompletes(handle)
    PROVE  IInv'
<1>1. /\ links' \in LinkMaps /\ OneHids(links') /\ links'[handle] = NoLink
      /\ \A other \in Handles : other # handle => links'[other] = links[other]
  <2>1. /\ links' \in LinkMaps /\ links'[handle] = NoLink
        /\ \A other \in Handles : other # handle => links'[other] = links[other]
    BY Found DEF DisconnectionCompletes, LinkMaps
  <2> QED
    BY <2>1, Found DEF OneHids, NoLink
<1>2. RestOK
  BY RestKept DEF DisconnectionCompletes, flashVars, ghostVars, IInv, TypeOK
<1>3. client.hciWorking /\ record' = client.approvedPeer
  BY DEF DisconnectionCompletes, flashVars, IInv, LinkInv, PeerInv
<1>4. CASE handle = client.connectionHandle
  <2>1. PICK c : /\ c \in {client, HidServiceDisconnected(client)}
                 /\ client' = ScheduleBackoff(ClearConnection(
                                  EndSourceSession(CancelTimer(c))))
    BY <1>4 DEF DisconnectionCompletes, Disconnection
  <2>2. c \in Clients /\ SessionFits(c) /\ SamePolicy(client, c)
    BY <2>1, Found, HidServiceEnds DEF SamePolicy
  <2> DEFINE stopped == CancelTimer(c)
             ended == EndSourceSession(stopped)
             cleared == ClearConnection(ended)
  <2>3. stopped \in Clients /\ SessionFits(stopped) /\ SamePolicy(c, stopped)
    BY <2>2, Entering DEF ClientStates, SameSession, SessionFits
  <2> HIDE DEF stopped
  <2>4. /\ ended \in Clients /\ ~ended.sessionActive /\ SessionFits(ended)
        /\ SamePolicy(stopped, ended)
    BY <2>3, SessionEnds
  <2> HIDE DEF ended
  <2>5. /\ cleared \in Clients /\ ~cleared.sessionActive /\ SessionFits(cleared)
        /\ SamePolicy(ended, cleared) /\ cleared.connectionHandle = NoHandle
    BY <2>4, Clearing DEF SameSession, SessionFits
  <2>6. client' = ScheduleBackoff(cleared)
    BY <2>1 DEF cleared, ended, stopped
  <2> HIDE DEF cleared
  <2>7. /\ client' \in Clients /\ ~client'.sessionActive /\ SessionFits(client')
        /\ SamePolicy(cleared, client') /\ client'.connectionHandle = NoHandle
        /\ client'.timer /\ client'.state = "BACKOFF"
    BY <2>5, <2>6, BackingOff DEF SameSession, SessionFits
  <2>8. client'.hciWorking /\ record' = client'.approvedPeer
    BY <1>3, <2>2, <2>3, <2>4, <2>5, <2>7 DEF SamePolicy
  <2>9. NoneOrphaned(links', client'.connectionHandle)
    BY <1>1, <1>4, Found DEF NoneOrphaned
  <2> QED
    BY <1>1, <1>2, <2>7, <2>8, <2>9, Resting DEF TimedStates
<1>5. CASE handle # client.connectionHandle
  <2>1. client' = client
    BY <1>5 DEF DisconnectionCompletes
  <2>2. NoneOrphaned(links', client.connectionHandle)
    BY <1>1, Found DEF NoneOrphaned
  <2>3. client.state \in LinkedStates =>
           client.connectionHandle \in Handles /\ links'[client.connectionHandle] = CurrentLink
    BY <1>1, <1>5, Found DEF Clients, CurrentLink
  <2> QED
    BY <1>1, <1>2, <1>3, <2>1, <2>2, <2>3, Staying
    DEF DisconnectionCompletes, flashVars, ghostVars, IInv, LinkInv, EveryWaitEnds,
        LinkedStates
<1> QED
  BY <1>4, <1>5

(* Where a session is under way.                                           *)
LEMMA Holding ==
    ASSUME client' \in Clients, SoundPipe(client'.pipe), RestOK,
           client'.state \in {"SECURING", "HIDS_SETUP", "READY"},
           client'.sessionActive, client'.sourceEpoch < LastEpoch,
           client'.timer <=> client'.state # "READY", client'.hciWorking,
           links' \in LinkMaps, OneHids(links'),
           client'.connectionHandle \in Handles,
           links'[client'.connectionHandle] # NoLink,
           NoneOrphaned(links', client'.connectionHandle),
           PeerInv', EpochsSuffice => PipeInv', FragmentsSuffice => DecoderInv'
    PROVE  IInv'
<1>1. TypeOK'
  BY DEF TypeOK, RestOK, LinkMaps
<1>2. LinkInv'
  <2>1. NoLinkIsOrphaned'
    BY DEF NoLinkIsOrphaned, NoneOrphaned, IsLive
  <2>2. EveryWaitEnds'
    BY DEF EveryWaitEnds
  <2> QED
    BY <2>1, <2>2, HogClientAssumption DEF LinkInv, IsLive, LinkedStates, CurrentLink
<1>3. SessionInv' /\ BondInv'
  BY DEF SessionInv, RestOK
<1> QED
  BY <1>1, <1>2, <1>3 DEF IInv

(* A connection is up: the one that was asked for, or another, or too late. *)
LEMMA ConnectionCompletesKeeps ==
    ASSUME IInv, ConnectionCompletes
    PROVE  IInv'
<1>1. PICK handle \in Handles, device \in Peers, isTarget \in BOOLEAN :
          /\ ~IsLive(handle)
          /\ HandleConnectionComplete(handle, isTarget,
                                      [links EXCEPT ![handle] = NewLink(device)])
  BY DEF ConnectionCompletes
<1> DEFINE now == [links EXCEPT ![handle] = NewLink(device)]
           c == [CancelTimer(client) EXCEPT !.connectionHandle = handle,
                                            !.sessionActive = TRUE]
           accepted == [CancelTimer(client) EXCEPT !.connectionHandle = handle,
                                                   !.sessionActive = TRUE,
                                                   !.decoder = ResetDecoder]
           expected == AwaitsConnection /\ client.targetPeer # NoPeer /\ isTarget
<1>2. /\ client.hciWorking /\ record' = client.approvedPeer /\ record' = record
      /\ bonds' = bonds /\ held' = held /\ scanning' = scanning
      /\ client.sourceEpoch < LastEpoch
  BY DEF ConnectionCompletes, IInv, LinkInv, PeerInv, flashVars, ghostVars
<1>3. RestOK
  BY RestKept DEF ConnectionCompletes, flashVars, ghostVars, IInv, TypeOK
<1>4. /\ now \in LinkMaps /\ now[handle] # NoLink /\ now[handle].hids = "none"
      /\ now[handle] \in Links
      /\ \A other \in Handles : other # handle => now[other] = links[other]
  BY Found, HogClientAssumption DEF LinkMaps, NewLink, Links, NoLink
<1>5. handle # client.connectionHandle
  BY <1>1, Found, HogClientAssumption DEF IInv, LinkInv, CurrentLink, IsLive
<1> HIDE DEF now
<1>6. OneHids(now)
  BY <1>4, Found DEF OneHids
<1>7. client.connectionHandle = NoHandle => NoneOrphaned(now, handle)
  BY <1>4, Found, HogClientAssumption DEF NoneOrphaned
<1>8. ASSUME NEW b \in {c, accepted}
      PROVE  /\ b \in Clients /\ SessionFits(b) /\ SamePolicy(client, b)
             /\ b.connectionHandle = handle
  BY <1>2, Found, ResetDecoderType DEF CancelTimer, Clients, SessionFits, SamePolicy
<1>9. \/ TrackAndDisconnectUnexpected(client, handle, now)
      \/ expected /\ client.state = "CANCELING_CONNECT" /\ RequestDisconnect(accepted, now)
      \/ /\ expected /\ client.state = "CONNECTING"
         /\ client' = EnterTimed(accepted, "SECURING") /\ links' = now
  BY <1>1 DEF HandleConnectionComplete, now
<1>10. ASSUME NEW b \in {c, accepted}, RequestDisconnect(b, now),
              client.connectionHandle = NoHandle
       PROVE  IInv'
  <2> HIDE DEF c, accepted
  <2> QED
    BY <1>2, <1>3, <1>4, <1>6, <1>7, <1>8, <1>10, Disconnecting DEF SamePolicy
<1>11. CASE TrackAndDisconnectUnexpected(client, handle, now)
  <2>1. CASE client.connectionHandle # NoHandle
    <3>1. client' = client /\ links' = GapDisconnect(now, handle)
      BY <1>11, <2>1 DEF TrackAndDisconnectUnexpected
    <3>2. /\ links' \in LinkMaps /\ links'[handle].closing /\ links'[handle].hids = "none"
          /\ \A other \in Handles : other # handle => links'[other] = links[other]
      BY <1>4, <3>1 DEF GapDisconnect, LinkMaps, Links
    <3>3. OneHids(links') /\ NoneOrphaned(links', client.connectionHandle)
      BY <3>2, Found DEF OneHids, NoneOrphaned
    <3>4. links'[client.connectionHandle] = CurrentLink
      BY <1>5, <2>1, <3>2, Found DEF Clients, CurrentLink
    <3> QED
      BY <1>2, <1>3, <3>1, <3>2, <3>3, <3>4, Staying
      DEF IInv, LinkInv, EveryWaitEnds
  <2>2. CASE client.connectionHandle = NoHandle
    BY <1>10, <1>11, <2>2 DEF TrackAndDisconnectUnexpected
  <2> QED
    BY <2>1, <2>2
<1>12. CASE expected /\ client.state = "CANCELING_CONNECT" /\ RequestDisconnect(accepted, now)
  BY <1>10, <1>12, Found DEF LinkedStates
<1>13. CASE /\ expected /\ client.state = "CONNECTING"
            /\ client' = EnterTimed(accepted, "SECURING") /\ links' = now
  <2>1. accepted \in Clients /\ accepted.sessionActive = TRUE /\ accepted.connectionHandle = handle
        /\ SamePolicy(client, accepted) /\ SameTarget(client, accepted)
        /\ accepted.sourceEpoch = client.sourceEpoch /\ accepted.pipe = client.pipe
        /\ accepted.decoder = ResetDecoder
    BY Found, ResetDecoderType DEF CancelTimer, Clients, SamePolicy, SameTarget
  <2> HIDE DEF accepted
  <2>2. /\ client' \in Clients /\ client'.timer /\ client'.state = "SECURING"
        /\ client'.connectionHandle = handle
        /\ SamePolicy(accepted, client') /\ SameTarget(accepted, client')
        /\ SameSession(accepted, client')
    BY <1>13, <2>1, Entering DEF ClientStates
  <2>3. /\ SoundPipe(client'.pipe) /\ client'.sessionActive = TRUE
        /\ client'.sourceEpoch < LastEpoch /\ client'.hciWorking
    BY <1>2, <2>1, <2>2 DEF SameSession, SamePolicy, IInv
  <2>4. PeerInv'
    BY <1>2, <1>13, <2>1, <2>2 DEF PeerInv, SamePolicy, SameTarget, IInv
  <2>5. EpochsSuffice => PipeInv'
    BY <1>13, <2>1, <2>2 DEF IInv, PipeInv, SameSession
  <2>6. DecoderInv'
    BY <2>2 DEF DecoderInv
  <2>7. NoneOrphaned(now, handle)
    BY <1>7, <1>13, Found DEF LinkedStates
  <2> QED
    BY <1>3, <1>4, <1>6, <1>13, <2>2, <2>3, <2>4, <2>5, <2>6, <2>7, Holding
<1> QED
  BY <1>9, <1>11, <1>12, <1>13

(* The setup of the HID service begins, or the connection ends.            *)
LEMMA SetupStarting ==
    ASSUME NEW c \in Clients, NEW now \in LinkMaps, StartHidsSetup(c, now), RestOK,
           SessionFits(c), c.hciWorking, record' = c.approvedPeer, c.sessionActive,
           EpochsSuffice => c.pipe.latest = Released,
           OneHids(now), NoneOrphaned(now, c.connectionHandle),
           c.connectionHandle \in Handles,
           now[c.connectionHandle].security = "strong",
           now[c.connectionHandle] # NoLink,
           now[c.connectionHandle].device \in bonds',
           c.targetPeer = now[c.connectionHandle].device,
           c.targetIsApproved <=> c.approvedPeer # NoPeer,
           c.approvedPeer # NoPeer => c.targetPeer = c.approvedPeer
    PROVE  IInv'
<1> DEFINE stopped == CancelTimer(c)
           setup == Enter(stopped, "HIDS_SETUP")
           started == [setup EXCEPT !.hidsCid = TRUE]
           failed == [setup EXCEPT !.hidsCid = FALSE]
<1>1. "HIDS_SETUP" \in ClientStates
  BY DEF ClientStates
<1>2. /\ stopped \in Clients /\ stopped.connectionHandle = c.connectionHandle
      /\ SameSession(c, stopped) /\ SamePolicy(c, stopped) /\ SameTarget(c, stopped)
  BY <1>1, Entering
<1> HIDE DEF stopped
<1>3. /\ setup \in Clients /\ setup.connectionHandle = c.connectionHandle
      /\ SameSession(stopped, setup) /\ SamePolicy(stopped, setup)
      /\ SameTarget(stopped, setup)
  BY <1>1, <1>2, Entering
<1> HIDE DEF setup
<1>4. /\ started \in Clients /\ started.connectionHandle = c.connectionHandle
      /\ SameSession(setup, started) /\ SamePolicy(setup, started)
      /\ SameTarget(setup, started)
      /\ failed \in Clients /\ failed.connectionHandle = c.connectionHandle
      /\ SameSession(setup, failed) /\ SamePolicy(setup, failed)
  BY <1>3 DEF Clients, SameSession, SamePolicy, SameTarget
<1>5. \/ /\ \A handle \in Handles : now[handle].hids = "none"
         /\ client' = EnterTimed(started, "HIDS_SETUP")
         /\ links' = [now EXCEPT ![c.connectionHandle].hids = "connecting"]
      \/ RequestDisconnect(failed, now)
  BY DEF StartHidsSetup, setup, stopped
<1> HIDE DEF started, failed
<1>6. CASE RequestDisconnect(failed, now)
  <2>1. SessionFits(failed) /\ failed.hciWorking /\ record' = failed.approvedPeer
    BY <1>2, <1>3, <1>4 DEF SessionFits, SameSession, SamePolicy
  <2> QED
    BY <1>4, <1>6, <2>1, Disconnecting
<1>7. CASE /\ \A handle \in Handles : now[handle].hids = "none"
           /\ client' = EnterTimed(started, "HIDS_SETUP")
           /\ links' = [now EXCEPT ![c.connectionHandle].hids = "connecting"]
  <2> DEFINE own == c.connectionHandle
  <2>1. /\ client' \in Clients /\ client'.timer /\ client'.state = "HIDS_SETUP"
        /\ client'.connectionHandle = own
        /\ SamePolicy(started, client') /\ SameTarget(started, client')
        /\ SameSession(started, client')
    <3>1. client' = EnterTimed(started, "HIDS_SETUP") /\ started \in Clients
      BY <1>4, <1>7
    <3>2. /\ client' \in Clients /\ client'.timer /\ client'.state = "HIDS_SETUP"
          /\ client'.connectionHandle = started.connectionHandle
          /\ SamePolicy(started, client') /\ SameTarget(started, client')
          /\ SameSession(started, client')
      BY <1>1, <3>1, Entering
    <3> QED
      BY <1>4, <3>2
  <2>2. SamePolicy(c, client') /\ SameTarget(c, client') /\ SameSession(c, client')
    BY <1>2, <1>3, <1>4, <2>1 DEF SamePolicy, SameTarget, SameSession
  <2>3. now[own] \in Links
    BY LinkType
  <2>4. /\ links' \in LinkMaps
        /\ links'[own] = [now[own] EXCEPT !.hids = "connecting"]
        /\ \A other \in Handles : other # own => links'[other] = now[other]
    BY <1>7, <2>3 DEF LinkMaps, Links
  <2>5. /\ links'[own].security = "strong" /\ links'[own].device = now[own].device
        /\ links'[own].closing = now[own].closing /\ links'[own] \in Links
    BY <2>3, <2>4 DEF Links
  <2>6. OneHids(links')
    BY <1>7, <2>4 DEF OneHids
  <2>7. NoneOrphaned(links', own) /\ links'[own] # NoLink
    BY <2>4, <2>5, LinkType DEF NoneOrphaned
  <2>8. PeerInv'
    BY <2>1, <2>2, <2>5 DEF PeerInv, SamePolicy, SameTarget, CurrentLink
  <2>9. /\ SoundPipe(client'.pipe) /\ client'.sessionActive
        /\ client'.sourceEpoch < LastEpoch /\ client'.hciWorking
        /\ EpochsSuffice => PipeInv'
    BY <2>1, <2>2 DEF SessionFits, SameSession, SamePolicy, PipeInv
  <2>10. DecoderInv'
    BY <2>1 DEF DecoderInv
  <2> QED
    BY <2>1, <2>4, <2>6, <2>7, <2>8, <2>9, <2>10, Holding
<1> QED
  BY <1>5, <1>6, <1>7

(* Pairing or reencryption ends, with whatever security.                   *)
LEMMA SmCompletesKeeps ==
    ASSUME IInv, NEW handle \in Handles, SmCompletes(handle)
    PROVE  IInv'
<1>1. PICK security \in {"none", "weak", "strong"}, pairing \in BOOLEAN :
          LET now  == [links EXCEPT ![handle].security = security]
              peer == IF pairing /\ security # "none" THEN {links[handle].device} ELSE {}
          IN  /\ IsLive(handle) /\ links[handle].security = "none"
              /\ pairing \/ links[handle].device \in bonds
              /\ bonds' = bonds \cup peer
              /\ forgotten' = forgotten \ peer
              /\ IF SmEventMatchesCurrent(handle) THEN SecurityComplete(handle, now)
                 ELSE client' = client /\ links' = now
              /\ UNCHANGED <<record, attempt, scanning, held>>
  BY DEF SmCompletes
<1> DEFINE link == [links[handle] EXCEPT !.security = security]
           now  == [links EXCEPT ![handle] = link]
           peer == IF pairing /\ security # "none" THEN {links[handle].device} ELSE {}
<1>2. links[handle] \in Links
  BY <1>1, Found, LinkType DEF IsLive
<1>3. /\ link \in Links /\ link.closing = links[handle].closing
      /\ link.hids = links[handle].hids /\ link.security = security
      /\ link.device = links[handle].device
  BY <1>1, <1>2 DEF Links
<1>4. peer \subseteq Peers
  BY <1>2 DEF Links
<1>5. RestOK
  <2> HIDE DEF peer
  <2>1. bonds' = bonds \cup peer /\ forgotten' = forgotten \ peer
        /\ UNCHANGED <<record, attempt, scanning, held>>
    BY <1>1 DEF peer
  <2> QED
    BY <1>4, <2>1 DEF IInv, TypeOK, RestOK, BondInv
<1>6. security # "none" => link.device \in bonds'
  BY <1>1, <1>3
<1>7. /\ bonds \subseteq bonds' /\ record' = record /\ attempt' = attempt
      /\ scanning' = scanning /\ held' = held /\ links[handle].security = "none"
      /\ IsLive(handle)
  BY <1>1
<1>8. IF SmEventMatchesCurrent(handle) THEN SecurityComplete(handle, now)
      ELSE client' = client /\ links' = now
  BY <1>1
<1>9. client.hciWorking /\ record' = client.approvedPeer
  BY <1>7 DEF IInv, LinkInv, PeerInv
<1> HIDE DEF link, now
<1>10. /\ now \in LinkMaps /\ OneHids(now) /\ now[handle] = link /\ link # NoLink
       /\ NoneOrphaned(now, client.connectionHandle)
       /\ \A other \in Handles : other # handle => now[other] = links[other]
  BY <1>3, <1>7, LinkUpdated DEF now
<1>11. CASE ~SmEventMatchesCurrent(handle)
  <2>1. client' = client /\ links' = now
    BY <1>8, <1>11
  <2>2. client.state \in LinkedStates =>
            client.connectionHandle \in Handles /\ CurrentLink # NoLink
    BY Found DEF Clients, IInv, LinkInv
  <2>3. client.state \in LinkedStates =>
            /\ now[client.connectionHandle] # NoLink
            /\ now[client.connectionHandle].closing = CurrentLink.closing
    BY <1>3, <1>10, <2>2 DEF CurrentLink
  <2>4. client.state \in {"HIDS_SETUP", "READY"} =>
            now[client.connectionHandle] = CurrentLink
    BY <1>7, <1>10, <2>2 DEF IInv, PeerInv, CurrentLink, LinkedStates
  <2> QED
    BY <1>5, <1>7, <1>9, <1>10, <2>1, <2>3, <2>4, Staying
    DEF IInv, LinkInv, EveryWaitEnds, LinkedStates
<1>12. CASE SmEventMatchesCurrent(handle)
  <2>1. SecurityComplete(handle, now) /\ client.state = "SECURING"
        /\ handle = client.connectionHandle
    BY <1>8, <1>12 DEF SmEventMatchesCurrent
  <2>2. CASE RequestDisconnect(client, now)
    BY <1>5, <1>9, <1>10, <2>2, Found, Disconnecting
  <2>3. CASE ~RequestDisconnect(client, now)
    <3> DEFINE c == [client EXCEPT !.linkSecure = TRUE, !.targetPeer = link.device]
    <3>1. PeerIsAuthentic(link) /\ StartHidsSetup(c, now)
      BY <1>10, <2>1, <2>3 DEF SecurityComplete
    <3>2. /\ c \in Clients /\ SessionFits(c) /\ SamePolicy(client, c)
          /\ c.connectionHandle = handle /\ c.targetPeer = link.device
          /\ c.targetIsApproved = client.targetIsApproved
          /\ c.sessionActive = client.sessionActive /\ c.pipe = client.pipe
      BY <1>3, <2>1, Found DEF Clients, Links, SessionFits, SamePolicy
    <3>3. link.security = "strong" /\ (client.targetIsApproved => link.device = client.approvedPeer)
      BY <3>1 DEF PeerIsAuthentic
    <3>4. /\ client.sessionActive
          /\ EpochsSuffice => client.pipe.latest = Released
          /\ client.targetIsApproved <=> client.approvedPeer # NoPeer
      BY <2>1 DEF IInv, SessionInv, PipeInv, PeerInv
    <3>5. /\ c.sessionActive /\ (EpochsSuffice => c.pipe.latest = Released)
          /\ c.hciWorking /\ record' = c.approvedPeer
          /\ c.targetIsApproved <=> c.approvedPeer # NoPeer
          /\ c.approvedPeer # NoPeer => c.targetPeer = c.approvedPeer
      BY <1>9, <2>1, <3>2, <3>3, <3>4 DEF SamePolicy, IInv, SessionInv
    <3> HIDE DEF c
    <3>6. link.device \in bonds'
      BY <1>3, <1>6, <3>3
    <3> QED
      BY <1>5, <1>10, <2>1, <3>1, <3>2, <3>3, <3>5, <3>6, SetupStarting
  <2> QED
    BY <2>2, <2>3
<1> QED
  BY <1>11, <1>12

(* The keyboard becomes ready, with nothing held on either side.           *)
LEMMA BecomingReady ==
    ASSUME NEW c \in Clients, client' = Ready(c), SoundPipe(c.pipe), RestOK,
           c.sessionActive, c.sourceEpoch < LastEpoch, c.hciWorking, ~c.timer,
           record' = c.approvedPeer, c.approvedPeer # NoPeer,
           EpochsSuffice => /\ c.pipe.epoch <= c.sourceEpoch
                            /\ c.pipe.latest = Released,
           links' \in LinkMaps, OneHids(links'), NoneOrphaned(links', c.connectionHandle),
           c.connectionHandle \in Handles,
           links'[c.connectionHandle].hids = "connected",
           links'[c.connectionHandle].security = "strong",
           links'[c.connectionHandle].device \in bonds',
           links'[c.connectionHandle].device = c.approvedPeer,
           held' = NothingHeld
    PROVE  IInv'
<1> DEFINE fresh == [c EXCEPT !.retryDelay = RetryInitial, !.decoder = ResetDecoder]
<1>1. fresh \in Clients
  <2>1. RetryInitial \in RetryInitial .. RetryMax
    BY HogClientAssumption
  <2> QED
    BY <2>1, ResetDecoderType DEF Clients
<1>2. /\ fresh.decoder = ResetDecoder /\ fresh.pipe = c.pipe
      /\ fresh.sessionActive = c.sessionActive /\ fresh.sourceEpoch = c.sourceEpoch
      /\ fresh.connectionHandle = c.connectionHandle /\ fresh.timer = c.timer
      /\ SamePolicy(c, fresh)
  BY ResetDecoderType DEF Clients, SamePolicy
<1>3. client' = Enter(fresh, "READY")
  BY DEF Ready
<1> HIDE DEF fresh
<1>4. /\ client' \in Clients /\ client'.timer = fresh.timer /\ client'.state = "READY"
      /\ client'.connectionHandle = fresh.connectionHandle
      /\ SamePolicy(fresh, client') /\ SameSession(fresh, client')
  BY <1>1, <1>3, Entering DEF ClientStates
<1>5. /\ client'.connectionHandle = c.connectionHandle /\ client'.timer = c.timer
      /\ client'.decoder = ResetDecoder /\ client'.pipe = c.pipe
      /\ client'.sessionActive = c.sessionActive /\ client'.sourceEpoch = c.sourceEpoch
      /\ client'.approvedPeer = c.approvedPeer /\ client'.hciWorking = c.hciWorking
  BY <1>2, <1>4 DEF SamePolicy, SameSession
<1>6. PeerInv'
  BY <1>4, <1>5 DEF PeerInv, CurrentLink
<1>7. EpochsSuffice => PipeInv'
  BY <1>4, <1>5, ResetDecoderType DEF PipeInv, FilterForBootReport, Released
<1>8. DecoderInv'
  <2>1. HeldUsages' = Released
    BY DEF HeldUsages, NothingHeld, Released
  <2> QED
    BY <1>5, <2>1, ResetDecoderType DEF DecoderInv, NothingHeld
<1>9. links'[c.connectionHandle] # NoLink
  BY DEF NoLink
<1> QED
  BY <1>4, <1>5, <1>6, <1>7, <1>8, <1>9, Holding

(* The keyboard's HID service is set up, or is not.                        *)
LEMMA HidServiceConnectedKeeps ==
    ASSUME IInv, NEW handle \in Handles, NEW success \in BOOLEAN,
           HidServiceConnected(handle, success)
    PROVE  IInv'
<1> DEFINE hids == IF success THEN "connected" ELSE "none"
           link == [links[handle] EXCEPT !.hids = hids]
           now == [links EXCEPT ![handle] = link]
           c == CancelTimer(client)
           failed == [c EXCEPT !.hidsCid = FALSE]
           ignored == \/ client.state # "HIDS_SETUP" \/ ~client.hidsCid
                      \/ handle # client.connectionHandle
<1>1. /\ links[handle].hids = "connecting" /\ held' = NothingHeld
      /\ bonds' = bonds /\ attempt' = attempt /\ scanning' = scanning
      /\ forgotten' = forgotten
  BY DEF HidServiceConnected
<1>2. links[handle] \in Links /\ IsLive(handle)
  BY <1>1, Found, LinkType DEF NoLink, IsLive
<1>3. /\ link \in Links /\ link.closing = links[handle].closing
      /\ link.hids = hids /\ link.security = links[handle].security
      /\ link.device = links[handle].device
  BY <1>2 DEF Links
<1>4. IF ignored THEN client' = client /\ links' = now /\ record' = record
      ELSE \/ ~success /\ RequestDisconnect(failed, now) /\ record' = record
           \/ /\ success
              /\ IF c.linkSecure THEN HidServiceIsReady(c, now)
                 ELSE RequestDisconnect(c, now) /\ record' = record
  BY DEF HidServiceConnected
<1>5. client.hciWorking /\ record = client.approvedPeer
  BY <1>2 DEF IInv, LinkInv, PeerInv
<1>6. NothingHeld \in [ReportKeys -> KeyboardStates]
  BY ReleasedIsState DEF NothingHeld
<1> HIDE DEF link, now, c, failed, ignored
<1>7. /\ now \in LinkMaps /\ OneHids(now) /\ now[handle] = link /\ link # NoLink
      /\ NoneOrphaned(now, client.connectionHandle)
      /\ \A other \in Handles : other # handle => now[other] = links[other]
  BY <1>1, <1>2, <1>3, LinkUpdated DEF now
<1>8. record' = record => RestOK
  BY <1>1, <1>6, RestKept DEF IInv, TypeOK
<1>9. /\ c \in Clients /\ SessionFits(c) /\ c.connectionHandle = client.connectionHandle
      /\ SamePolicy(client, c) /\ SameTarget(client, c) /\ SameSession(client, c)
      /\ c.timer = FALSE
  BY Found DEF c, CancelTimer, Clients, SessionFits, SamePolicy, SameTarget, SameSession
<1>10. /\ failed \in Clients /\ SessionFits(failed)
       /\ failed.connectionHandle = client.connectionHandle /\ SamePolicy(client, failed)
  BY <1>9 DEF failed, Clients, SessionFits, SamePolicy
<1>11. ASSUME NEW b \in {c, failed}, RequestDisconnect(b, now), record' = record
       PROVE  IInv'
  BY <1>5, <1>7, <1>8, <1>9, <1>10, <1>11, Disconnecting DEF SamePolicy
<1>12. CASE ignored
  <2>1. client' = client /\ links' = now /\ record' = record
    BY <1>4, <1>12
  <2>2. client.state \in LinkedStates =>
            client.connectionHandle \in Handles /\ CurrentLink # NoLink
    BY Found DEF Clients, IInv, LinkInv
  <2>3. client.state \in LinkedStates =>
            /\ now[client.connectionHandle] # NoLink
            /\ now[client.connectionHandle].closing = CurrentLink.closing
            /\ now[client.connectionHandle].security = CurrentLink.security
            /\ now[client.connectionHandle].device = CurrentLink.device
    BY <1>3, <1>7, <2>2 DEF CurrentLink
  <2>4. client.state # "READY"
    BY <1>1, <2>2, Found DEF OneHids, CurrentLink, IInv, PeerInv, LinkedStates
  <2> QED
    BY <1>1, <1>5, <1>7, <1>8, <2>1, <2>3, <2>4, Staying
    DEF IInv, LinkInv, EveryWaitEnds, LinkedStates
<1>13. CASE ~ignored /\ ~success
  BY <1>4, <1>11, <1>13
<1>14. CASE ~ignored /\ success
  <2>1. /\ client.state = "HIDS_SETUP" /\ handle = client.connectionHandle
        /\ hids = "connected"
    BY <1>14 DEF ignored
  <2>2. CASE RequestDisconnect(c, now) /\ record' = record
    BY <1>11, <2>2
  <2>3. CASE ~(RequestDisconnect(c, now) /\ record' = record)
    <3>1. HidServiceIsReady(c, now)
      BY <1>4, <1>14, <2>3
    <3>2. /\ link.security = "strong" /\ link.device \in bonds
          /\ client.targetPeer = link.device
          /\ client.approvedPeer # NoPeer => link.device = client.approvedPeer
      BY <1>3, <2>1 DEF IInv, PeerInv, CurrentLink
    <3>3. link.device \in Peers /\ link.device # NoPeer
      BY <1>3, HogClientAssumption DEF Links
    <3>4. PICK b : /\ client' = Ready(b) /\ links' = now /\ record' = link.device
                   /\ b = [c EXCEPT !.approvedPeer = link.device]
      <4>1. CASE c.approvedPeer = NoPeer
        <5>1. c.targetPeer = link.device
          BY <1>9, <3>2 DEF SameTarget
        <5>2. /\ client' = Ready([c EXCEPT !.approvedPeer = c.targetPeer])
              /\ links' = now /\ record' = c.targetPeer
          BY <2>3, <3>1, <3>3, <4>1, <5>1 DEF HidServiceIsReady
        <5> QED
          BY <5>1, <5>2
      <4>2. CASE c.approvedPeer # NoPeer
        <5>1. client' = Ready(c) /\ links' = now /\ record' = record
          BY <2>3, <3>1, <4>2 DEF HidServiceIsReady
        <5>2. c.approvedPeer = link.device
          BY <1>9, <3>2, <4>2 DEF SamePolicy
        <5>3. c = [c EXCEPT !.approvedPeer = link.device]
          BY <1>9, <5>2 DEF Clients
        <5> QED
          BY <1>5, <1>9, <5>1, <5>2, <5>3 DEF SamePolicy
      <4> QED
        BY <4>1, <4>2
    <3>5. /\ b \in Clients /\ b.approvedPeer = link.device
          /\ b.connectionHandle = handle /\ b.timer = FALSE
          /\ b.hciWorking = client.hciWorking /\ SameSession(client, b)
      BY <1>9, <2>1, <3>3, <3>4 DEF Clients, SamePolicy, SameSession
    <3>6. /\ client.sessionActive /\ client.sourceEpoch < LastEpoch
          /\ SoundPipe(client.pipe)
          /\ EpochsSuffice =>
               client.pipe.epoch <= client.sourceEpoch /\ client.pipe.latest = Released
      BY <2>1 DEF IInv, SessionInv, PipeInv
    <3>7. RestOK
      BY <1>1, <1>6, <3>3, <3>4 DEF IInv, TypeOK, RestOK, BondInv
    <3>8. /\ SoundPipe(b.pipe) /\ b.sessionActive /\ b.sourceEpoch < LastEpoch
          /\ b.hciWorking
          /\ EpochsSuffice => b.pipe.epoch <= b.sourceEpoch /\ b.pipe.latest = Released
      BY <1>5, <3>5, <3>6 DEF SameSession
    <3>9. /\ client' = Ready(b) /\ links' \in LinkMaps /\ OneHids(links')
          /\ NoneOrphaned(links', b.connectionHandle)
          /\ links'[b.connectionHandle] = link /\ record' = b.approvedPeer
      BY <1>7, <2>1, <3>4, <3>5
    <3>10. link.hids = "connected" /\ link.device \in bonds'
      BY <1>1, <1>3, <2>1, <3>2
    <3> QED
      BY <1>1, <3>2, <3>3, <3>5, <3>7, <3>8, <3>9, <3>10, BecomingReady
  <2> QED
    BY <2>2, <2>3
<1> QED
  BY <1>12, <1>13, <1>14

-----------------------------------------------------------------------------
(* What is typed.                                                          *)

(* Decoding a report gives a decoder, whatever the report.                 *)
LEMMA DecodeType ==
    ASSUME NEW decoder \in Decoders, NEW report \in HidReports
    PROVE  Decode(decoder, report) \in Decoders
<1> DEFINE old == decoder.fragments
           new == [key \in DOMAIN old \cup {report.key} |->
                       IF key = report.key THEN report.usages ELSE old[key]]
<1>1. PICK keys \in SUBSET ReportKeys : old \in [keys -> KeyboardStates]
  BY DEF Decoders
<1>2. report.key \in ReportKeys /\ report.usages \in KeyboardStates
  BY DEF HidReports
<1>3. /\ keys \cup {report.key} \in SUBSET ReportKeys
      /\ new \in [keys \cup {report.key} -> KeyboardStates]
  BY <1>1, <1>2
<1>4. new \in UNION {[some -> KeyboardStates] : some \in SUBSET ReportKeys}
  <2> HIDE DEF new
  <2> QED
    BY <1>3
<1>5. MergeFragments(new) \in KeyboardStates
  <2> HIDE DEF new
  <2> QED
    BY <1>3 DEF MergeFragments, KeyboardStates
<1>6. [fragments |-> new, state |-> MergeFragments(new)] \in Decoders
  <2> HIDE DEF new
  <2> QED
    BY <1>4, <1>5 DEF Decoders
<1> QED
  BY <1>6 DEF Decode

(* While every report key finds a fragment, the decoder's state is all that *)
(* the keyboard holds, over all its reports.                               *)
LEMMA DecodeShowsHeld ==
    ASSUME NEW decoder \in Decoders, NEW report \in HidReports,
           NEW before \in [ReportKeys -> KeyboardStates],
           FragmentsSuffice, report.kind = "keyboard",
           \A key \in ReportKeys :
              IF key \in DOMAIN decoder.fragments
              THEN decoder.fragments[key] = before[key]
              ELSE before[key] = Released
    PROVE  LET d == Decode(decoder, report)
               after == [before EXCEPT ![report.key] = report.usages]
           IN  /\ d.state = UNION {after[key] : key \in ReportKeys}
               /\ \A key \in ReportKeys :
                     IF key \in DOMAIN d.fragments
                     THEN d.fragments[key] = after[key]
                     ELSE after[key] = Released
<1> DEFINE old == decoder.fragments
           new == [key \in DOMAIN old \cup {report.key} |->
                       IF key = report.key THEN report.usages ELSE old[key]]
           after == [before EXCEPT ![report.key] = report.usages]
<1>1. report.key \in ReportKeys /\ DOMAIN old \subseteq ReportKeys
  BY DEF HidReports, Decoders
<1>2. HasFragment(decoder, report.key)
  <2>1. CASE report.key \in DOMAIN old
    BY <2>1 DEF HasFragment
  <2>2. CASE report.key \notin DOMAIN old
    <3>1. /\ IsFiniteSet(DOMAIN old)
          /\ Cardinality(DOMAIN old) <= Cardinality(ReportKeys)
          /\ Cardinality(DOMAIN old) # Cardinality(ReportKeys)
      BY <1>1, <2>2, FS_Subset DEF FragmentsSuffice
    <3>2. Cardinality(DOMAIN old) \in Nat /\ Cardinality(ReportKeys) \in Nat
      BY <3>1, FS_CardinalityType DEF FragmentsSuffice
    <3> QED
      BY <3>1, <3>2, DecoderAssumption DEF FragmentsSuffice, HasFragment
  <2> QED
    BY <2>1, <2>2
<1>3. Decode(decoder, report) = [fragments |-> new, state |-> MergeFragments(new)]
  BY <1>2 DEF Decode
<1>4. \A key \in ReportKeys :
         IF key \in DOMAIN new THEN new[key] = after[key] ELSE after[key] = Released
  BY <1>1
<1>5. DOMAIN new \subseteq ReportKeys
  BY <1>1
<1> HIDE DEF new, after
<1>6. MergeFragments(new) = UNION {after[key] : key \in ReportKeys}
  <2>1. \A usage : usage \in MergeFragments(new)
                     <=> \E key \in DOMAIN new : usage \in new[key]
    BY DEF MergeFragments
  <2>2. \A usage : usage \in UNION {after[key] : key \in ReportKeys}
                     <=> \E key \in ReportKeys : usage \in after[key]
    OBVIOUS
  <2>3. \A usage : (\E key \in DOMAIN new : usage \in new[key])
                     <=> \E key \in ReportKeys : usage \in after[key]
    BY <1>4, <1>5 DEF Released
  <2> QED
    BY <2>1, <2>2, <2>3
<1> QED
  BY <1>3, <1>4, <1>6 DEF after

(* A report of the approved keyboard.                                      *)
LEMMA HidReportKeeps ==
    ASSUME IInv, NEW handle \in Handles, NEW report \in Reports, HidReport(handle, report)
    PROVE  IInv'
<1> DEFINE decoder == Decode(client.decoder, report)
           decoded == [client EXCEPT !.decoder = decoder]
           shown == FilterForBootReport(decoder.state)
           pipe == Publish(client.pipe, shown, client.sourceEpoch)
<1>1. /\ client.state = "READY" /\ UNCHANGED <<record, bonds, attempt, scanning, links>>
      /\ UNCHANGED forgotten
      /\ held' = IF report.kind = "keyboard" THEN [held EXCEPT ![report.key] = report.usages]
                 ELSE held
  BY DEF HidReport, flashVars, radioVars
<1>2. /\ client \in Clients /\ client.decoder \in Decoders /\ client.pipe \in Pipes
      /\ client.sourceEpoch \in Epochs /\ SoundPipe(client.pipe)
      /\ report \in HidReports /\ held \in [ReportKeys -> KeyboardStates]
  BY HogClientAssumption, Found DEF Clients, SessionFits, IInv, TypeOK
<1>3. decoder \in Decoders
  BY <1>2, DecodeType
<1>4. client' = IF decoder.state = client.decoder.state THEN decoded
                ELSE [decoded EXCEPT !.pipe = pipe]
  BY <1>2 DEF HidReport, HandleKeyboardState, Clients
<1> HIDE DEF decoder
<1>5. shown \in KeyboardStates
  BY <1>3 DEF Decoders, FilterForBootReport, KeyboardStates
<1>6. /\ pipe \in Pipes /\ SoundPipe(pipe)
      /\ client.pipe.epoch <= client.sourceEpoch =>
           pipe.latest = shown /\ pipe.epoch = client.sourceEpoch
  <2> HIDE DEF shown
  <2>1. client.pipe.epoch \in Nat /\ client.sourceEpoch \in Nat
    BY <1>2, PipeAssumption DEF Pipes, Epochs
  <2>2. CASE client.sourceEpoch >= client.pipe.epoch
    <3>1. /\ SoundPipe(pipe) /\ pipe.latest = shown
          /\ pipe.epoch = client.sourceEpoch
      BY <1>2, <1>5, <2>2, PublishIsSound
    <3> HIDE DEF pipe
    <3> QED
      BY <3>1 DEF SoundPipe
  <2>3. CASE client.sourceEpoch < client.pipe.epoch
    BY <1>2, <2>1, <2>3 DEF Publish
  <2> QED
    BY <2>1, <2>2, <2>3
<1> HIDE DEF pipe
<1>7. /\ client' \in Clients /\ client'.decoder = decoder
      /\ client'.pipe = IF decoder.state = client.decoder.state THEN client.pipe ELSE pipe
      /\ client'.sourceEpoch = client.sourceEpoch
      /\ client'.sessionActive = client.sessionActive
      /\ client'.state = "READY" /\ client'.timer = client.timer
      /\ client'.connectionHandle = client.connectionHandle
      /\ SamePolicy(client, client')
  BY <1>1, <1>2, <1>3, <1>4, <1>6 DEF Clients, SamePolicy
<1>8. held' \in [ReportKeys -> KeyboardStates]
  BY <1>1, <1>2 DEF HidReports
<1>9. RestOK
  BY <1>1, <1>8, RestKept DEF IInv, TypeOK
<1>10. PeerInv'
  BY <1>1, <1>7 DEF IInv, PeerInv, SamePolicy, CurrentLink
<1>11. EpochsSuffice => PipeInv'
  <2> SUFFICES ASSUME EpochsSuffice PROVE PipeInv'
    OBVIOUS
  <2>1. /\ client.pipe.epoch <= client.sourceEpoch
        /\ client.pipe.latest = FilterForBootReport(client.decoder.state)
    BY <1>1 DEF IInv, PipeInv
  <2>2. client.sourceEpoch <= client.sourceEpoch
    BY <1>2, PipeAssumption DEF Epochs
  <2> QED
    BY <1>6, <1>7, <2>1, <2>2 DEF PipeInv
<1>12. FragmentsSuffice => DecoderInv'
  <2> SUFFICES ASSUME FragmentsSuffice PROVE DecoderInv'
    OBVIOUS
  <2>1. DecoderInv
    BY DEF IInv
  <2>2. CASE report.kind # "keyboard"
    <3>1. decoder = client.decoder /\ held' = held
      BY <1>1, <2>2 DEF decoder, Decode
    <3> QED
      BY <1>1, <1>7, <2>1, <3>1 DEF DecoderInv, HeldUsages
  <2>3. CASE report.kind = "keyboard"
    <3>1. /\ decoder.state = UNION {held'[key] : key \in ReportKeys}
          /\ \A key \in ReportKeys :
                IF key \in DOMAIN decoder.fragments
                THEN decoder.fragments[key] = held'[key]
                ELSE held'[key] = Released
      BY <1>1, <1>2, <2>1, <2>3, DecodeShowsHeld DEF DecoderInv, decoder
    <3> QED
      BY <1>7, <3>1 DEF DecoderInv, HeldUsages
  <2> QED
    BY <2>2, <2>3
<1>13. /\ client.connectionHandle \in Handles /\ CurrentLink # NoLink
       /\ client.sessionActive /\ client.sourceEpoch < LastEpoch
       /\ client.timer = FALSE /\ client.hciWorking
  BY <1>1, <1>2, Found
  DEF Clients, IInv, LinkInv, LinkedStates, SessionInv, EveryWaitEnds
<1>14. /\ SoundPipe(client'.pipe) /\ client'.hciWorking
       /\ links' \in LinkMaps /\ OneHids(links')
       /\ NoneOrphaned(links', client'.connectionHandle)
       /\ links'[client'.connectionHandle] # NoLink
  BY <1>1, <1>2, <1>6, <1>7, <1>13, Found DEF SamePolicy, CurrentLink
<1> QED
  BY <1>7, <1>9, <1>10, <1>11, <1>12, <1>13, <1>14, Holding

-----------------------------------------------------------------------------
(* Every step, and every behaviour.                                        *)

\* The actions of one connection.
LinkStep(handle) ==
    \/ DisconnectionCompletes(handle) \/ EncryptionFails(handle)
    \/ SmCompletes(handle) \/ RejectPairingMethod(handle)
    \/ \E success \in BOOLEAN : HidServiceConnected(handle, success)
    \/ \E report \in Reports : HidReport(handle, report)

(* A step is a handler of the client's, or one for a connection.           *)
LEMMA Steps ==
    Next <=> \/ HciStartsWorking \/ HciStopsWorking \/ AdvertisingReport
             \/ ConnectionFails \/ ConnectionCompletes
             \/ \E handle \in Handles : LinkStep(handle)
             \/ ConnectTimesOut \/ CancelTimesOut \/ SecurityTimesOut
             \/ HidsSetupTimesOut \/ BackoffEnds
             \/ ForgetPeer \/ ForgetPeerIsCut \/ Reboot
BY DEF Next, LinkStep, TimerFires

(* What happens to a connection keeps the invariant.                       *)
LEMMA LinkStepKeeps ==
    ASSUME IInv, NEW handle \in Handles, LinkStep(handle)
    PROVE  IInv'
<1>1. CASE \E success \in BOOLEAN : HidServiceConnected(handle, success)
  BY <1>1, HidServiceConnectedKeeps
<1>2. CASE \E report \in Reports : HidReport(handle, report)
  BY <1>2, HidReportKeeps
<1> QED
  BY <1>1, <1>2, DisconnectionCompletesKeeps, EncryptionFailsKeeps,
     SmCompletesKeeps, RejectPairingMethodKeeps
  DEF LinkStep

(* So does nothing at all.                                                 *)
LEMMA StutterKeeps ==
    ASSUME IInv, UNCHANGED vars
    PROVE  IInv'
<1>1. /\ UNCHANGED <<client, record, bonds, attempt, scanning, links, held, forgotten>>
  BY DEF vars, flashVars, radioVars, ghostVars
<1>2. RestOK
  BY <1>1, RestKept DEF IInv, TypeOK
<1> QED
  BY <1>1, <1>2, Found, Staying DEF IInv, LinkInv, EveryWaitEnds, CurrentLink, IsLive

(* No handler breaks the invariant.                                        *)
LEMMA NextIInv ==
    ASSUME IInv, [Next]_vars
    PROVE  IInv'
<1>1. CASE UNCHANGED vars
  BY <1>1, StutterKeeps
<1>2. CASE \E handle \in Handles : LinkStep(handle)
  BY <1>2, LinkStepKeeps
<1>3. CASE HciStartsWorking \/ HciStopsWorking \/ AdvertisingReport
           \/ ConnectionFails \/ ConnectionCompletes
  BY <1>3, HciStartsWorkingKeeps, HciStopsWorkingKeeps, AdvertisingReportKeeps,
     ConnectionFailsKeeps, ConnectionCompletesKeeps
<1>4. CASE \/ ConnectTimesOut \/ CancelTimesOut \/ SecurityTimesOut
           \/ HidsSetupTimesOut \/ BackoffEnds
  BY <1>4, ConnectTimesOutKeeps, CancelTimesOutKeeps, SecurityTimesOutKeeps,
     HidsSetupTimesOutKeeps, BackoffEndsKeeps
<1>5. CASE ForgetPeer \/ ForgetPeerIsCut \/ Reboot
  BY <1>5, ForgetPeerKeeps, PowerCyclesKeeps
<1> QED
  BY <1>1, <1>2, <1>3, <1>4, <1>5, Steps

(* Every state that the client, BTstack and the radio can reach together   *)
(* satisfies the invariant.                                                *)
THEOREM Invariance == Spec => []IInv
<1>1. Init => IInv
  BY InitIInv
<1>2. IInv /\ [Next]_vars => IInv'
  BY NextIInv
<1> QED
  BY <1>1, <1>2, PTL DEF Spec

(* Every variable has its type: a session's epoch is one, the retry delay  *)
(* stays within its bounds (hog_client.c:105-115, 292-302), and flash      *)
(* holds a peer, none or a foreign record.                                 *)
THEOREM TypeCorrect == Spec => []TypeOK
<1>1. IInv => TypeOK
  BY DEF IInv
<1> QED
  BY <1>1, Invariance, PTL

(* Only the approved keyboard types: whenever the client is READY its link *)
(* is authenticated, and its other end is the keyboard approved in memory  *)
(* and on flash (hog_client.c:338-356, 396-405, 556-567).                  *)
THEOREM OnlyTheApprovedTypes == Spec => []ReadyIsApproved
<1>1. IInv => ReadyIsApproved
  <2> SUFFICES ASSUME IInv, client.state = "READY"
               PROVE  ReadyIsApproved
    BY DEF ReadyIsApproved
  <2>1. client.connectionHandle # NoHandle /\ client.hciWorking
    BY Found DEF LinkedStates
  <2> QED
    BY <2>1 DEF IInv, PeerInv, ReadyIsApproved
<1> QED
  BY <1>1, Invariance, PTL

(* A forgotten keyboard types again only after a pairing that ends after   *)
(* it was forgotten (hog_client.c:856-913): a READY link is bonded, and no *)
(* bond of a forgotten keyboard is left.                                   *)
THEOREM TheForgottenStayOut == Spec => []ForgottenStaysOut
<1>1. IInv => ForgottenStaysOut
  BY DEF IInv, PeerInv, BondInv, ForgottenStaysOut
<1> QED
  BY <1>1, Invariance, PTL

(* No connection is left to itself: one that is up is the client's or is   *)
(* being closed (hog_client.c:503-543).                                    *)
THEOREM NoneIsOrphaned == Spec => []NoLinkIsOrphaned
<1>1. IInv => NoLinkIsOrphaned
  BY DEF IInv, LinkInv
<1> QED
  BY <1>1, Invariance, PTL

(* In every state that must be left the timer runs or a disconnection is   *)
(* under way, and in no other does the timer run (hog_client.c:144-150,    *)
(* 292-334, 761-807).                                                      *)
THEOREM WaitsEnd == Spec => []EveryWaitEnds
<1>1. IInv => EveryWaitEnds
  BY DEF IInv, LinkInv
<1> QED
  BY <1>1, Invariance, PTL

(* The pipe shows what the keyboard holds over all its reports while it is *)
(* READY, and nothing at any other time (hog_client.c:219-228, 423-461),   *)
(* if the sessions do not exhaust the epochs and the decoder has a         *)
(* fragment for every report of the keyboard.                              *)
THEOREM ThePipeShowsTheKeyboard ==
    ASSUME EpochsSuffice, FragmentsSuffice
    PROVE  Spec => []PipeShowsKeyboard
<1>1. IInv => PipeShowsKeyboard
  BY DEF IInv, PipeInv, DecoderInv, HeldUsages, PipeShowsKeyboard
<1> QED
  BY <1>1, Invariance, PTL

(* Whatever the decoder makes of the reports, a keyboard that is not READY *)
(* shows no key: a disconnection releases all (hog_client.c:219-228).      *)
THEOREM NoKeyOutlivesItsSession ==
    ASSUME EpochsSuffice
    PROVE  Spec => []DisconnectReleasesKeys
<1>1. IInv => DisconnectReleasesKeys
  BY DEF IInv, PipeInv, DisconnectReleasesKeys
<1> QED
  BY <1>1, Invariance, PTL

(* The approval on flash changes only when the user forgets the keyboard   *)
(* (hog_client.c:117-135, 396-401, 856-873): what is stored when one is    *)
(* ready is stored over no other, since the client's copy of the approval  *)
(* is the one on flash while the controller works.                         *)
THEOREM TheApprovalSurvives == Spec => ApprovalSurvives
<1>1. ASSUME IInv, Next, record \in Peers, record' # record
      PROVE  (ForgetPeer \/ ForgetPeerIsCut) /\ record' = NoPeer
  <2>1. CASE ForgetPeer \/ ForgetPeerIsCut
    BY <2>1 DEF ForgetPeer, ForgetPeerIsCut
  <2>2. CASE HciStartsWorking
    BY <1>1, <2>2 DEF HciStartsWorking, LoadApprovedPeer
  <2>3. ASSUME NEW handle \in Handles, NEW success \in BOOLEAN,
               HidServiceConnected(handle, success)
        PROVE  record' = record
    <3>1. IsLive(handle)
      BY <2>3 DEF HidServiceConnected, IsLive, NoLink
    <3>2. client.approvedPeer \in Peers /\ client.approvedPeer # NoPeer
      BY <1>1, <3>1, HogClientAssumption DEF IInv, LinkInv, PeerInv
    <3> QED
      BY <2>3, <3>2 DEF HidServiceConnected, HidServiceIsReady, CancelTimer, Clients
  <2>4. CASE \E handle \in Handles : LinkStep(handle)
    BY <1>1, <2>3, <2>4
    DEF LinkStep, DisconnectionCompletes, EncryptionFails, SmCompletes,
        RejectPairingMethod, HidReport, flashVars
  <2>5. CASE \/ HciStopsWorking \/ AdvertisingReport \/ ConnectionFails
             \/ ConnectionCompletes \/ Reboot
             \/ ConnectTimesOut \/ CancelTimesOut \/ SecurityTimesOut
             \/ HidsSetupTimesOut \/ BackoffEnds
    BY <1>1, <2>5
    DEF HciStopsWorking, AdvertisingReport, ConnectionFails, ConnectionCompletes,
        Reboot, ConnectTimesOut, CancelTimesOut, SecurityTimesOut,
        HidsSetupTimesOut, BackoffEnds, flashVars
  <2> QED
    BY <1>1, <2>1, <2>2, <2>4, <2>5, Steps
<1>2. IInv /\ [Next]_vars =>
          [(record \in Peers) /\ record' # record =>
              (ForgetPeer \/ ForgetPeerIsCut) /\ record' = NoPeer]_vars
  BY <1>1
<1> QED
  BY <1>2, Invariance, PTL DEF Spec, ApprovalSurvives

=============================================================================
