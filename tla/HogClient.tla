------------------------------ MODULE HogClient ------------------------------
(***************************************************************************)
(* The keyboard side of the Pico bridge: the BLE lifecycle of hog_client.c *)
(* and the callbacks of main.c that feed the report pipe.                  *)
(*                                                                         *)
(* BTstack, TinyUSB and the command line share one foreground loop, so an  *)
(* event handler is one step.  The radio is asynchronous: what the client  *)
(* asks BTstack for (a connection, its cancellation, a disconnection) is   *)
(* only begun, and completes, or not, in a later step, when the client may *)
(* have moved on.                                                          *)
(*                                                                         *)
(* Left out: the vendor's status codes, which are passed on and printed,   *)
(* and the wording of addresses: a peer is its identity, under whatever    *)
(* address it is reached.                                                  *)
(***************************************************************************)
EXTENDS HidDecoder, ReportPipeOps

CONSTANTS
    Peers,          \* the keyboards in range, by identity
    NoPeer,         \* no valid peer
    Incompatible,   \* an approved-peer record of another layout
    Handles,        \* connection handles (MAX_NR_HCI_CONNECTIONS of them)
    NoHandle,       \* HCI_CON_HANDLE_INVALID
    Reports,        \* the HID reports the keyboards send
    RetryInitial,   \* APP_BLE_RETRY_INITIAL_MS
    RetryMax,       \* APP_BLE_RETRY_MAX_MS
    LastEpoch       \* bound: no session begins in an epoch from this one on

ASSUME HogClientAssumption ==
    /\ NoPeer \notin Peers /\ Incompatible \notin Peers \cup {NoPeer}
    /\ NoHandle \notin Handles
    /\ Reports \subseteq HidReports
    /\ RetryInitial \in Nat /\ RetryMax \in Nat /\ RetryInitial <= RetryMax
    /\ LastEpoch \in Nat /\ MaxEpoch >= 1

VARIABLES
    client,      \* the statics of hog_client.c, and the pipe its callbacks feed
    record,      \* flash: the APPROVED_PEER_TLV_TAG record
    bonds,       \* flash: the peers in BTstack's device database
    attempt,     \* BTstack: the outgoing connection under way
    scanning,    \* BTstack: gap_start_scan is in force
    links,       \* BTstack: the connections
    held,        \* ghost: what the keyboard holds, report by report
    forgotten    \* ghost: peers forgotten and not paired again since

flashVars == <<record, bonds>>
radioVars == <<attempt, scanning, links>>
ghostVars == <<held, forgotten>>
vars == <<client, flashVars, radioVars, ghostVars>>

ClientStates == {"STARTING", "SCANNING", "CONNECTING", "CANCELING_CONNECT",
                 "SECURING", "HIDS_SETUP", "READY", "DISCONNECTING", "BACKOFF"}

(***************************************************************************)
(* hidsCid says that hids_cid is not 0, timer that state_timer is running. *)
(* HOG_CLIENT_UNPROVISIONED is never seen outside start_scan.              *)
(***************************************************************************)
Clients ==
    [state : ClientStates, hciWorking : BOOLEAN,
     approvedPeer : Peers \cup {NoPeer}, targetPeer : Peers \cup {NoPeer},
     targetIsApproved : BOOLEAN, sessionActive : BOOLEAN, linkSecure : BOOLEAN,
     connectionHandle : Handles \cup {NoHandle}, hidsCid : BOOLEAN,
     retryDelay : RetryInitial .. RetryMax, timer : BOOLEAN,
     sourceEpoch : Epochs, decoder : Decoders, pipe : Pipes]

InitialClient ==
    [state |-> "STARTING", hciWorking |-> FALSE,
     approvedPeer |-> NoPeer, targetPeer |-> NoPeer,
     targetIsApproved |-> FALSE, sessionActive |-> FALSE, linkSecure |-> FALSE,
     connectionHandle |-> NoHandle, hidsCid |-> FALSE,
     retryDelay |-> RetryInitial, timer |-> FALSE,
     sourceEpoch |-> 1, decoder |-> ResetDecoder, pipe |-> InitialPipe]

(***************************************************************************)
(* security: "strong" is an authenticated 128-bit secure connection with   *)
(* the key of the device database, "weak" any other encryption.            *)
(* hids: BTstack's HID-over-GATT client for this link.                     *)
(***************************************************************************)
Links == [device : Peers, security : {"none", "weak", "strong"},
          hids : {"none", "connecting", "connected"}, closing : BOOLEAN]

NoLink == [device |-> NoPeer, security |-> "none", hids |-> "none", closing |-> FALSE]

NewLink(device) == [NoLink EXCEPT !.device = device]

IsLive(handle) == links[handle] # NoLink

NothingHeld == [key \in ReportKeys |-> Released]

Init ==
    /\ client = InitialClient
    /\ record \in Peers \cup {NoPeer, Incompatible} /\ bonds = {record} \cap Peers
    /\ attempt = "none" /\ scanning = FALSE
    /\ links = [handle \in Handles |-> NoLink]
    /\ held = NothingHeld /\ forgotten = {}

-----------------------------------------------------------------------------
(* Helpers of hog_client.c, on a client c in the middle of a handler       *)

CancelTimer(c) == [c EXCEPT !.timer = FALSE]

Enter(c, state) == [c EXCEPT !.state = state]

\* A transition with its timeout running.
EnterTimed(c, state) == [c EXCEPT !.state = state, !.timer = TRUE]

AdvanceEpoch(epoch) == IF epoch = MaxEpoch THEN 1 ELSE epoch + 1

\* end_source_session, with handle_source_reset of main.c.
EndSourceSession(c) ==
    IF ~c.sessionActive THEN c
    ELSE [c EXCEPT !.sessionActive = FALSE, !.linkSecure = FALSE,
                   !.decoder = ResetDecoder,
                   !.sourceEpoch = AdvanceEpoch(c.sourceEpoch),
                   !.pipe = SourceReset(@, AdvanceEpoch(c.sourceEpoch))]

ClearConnection(c) ==
    [c EXCEPT !.connectionHandle = NoHandle, !.hidsCid = FALSE,
              !.targetPeer = NoPeer, !.targetIsApproved = FALSE,
              !.linkSecure = FALSE]

\* Gives up after the longest delay.
ScheduleBackoffSlip(c) ==
    [c EXCEPT !.state = "BACKOFF", !.timer = c.retryDelay < RetryMax,
              !.retryDelay = IF 2 * @ > RetryMax THEN RetryMax ELSE 2 * @]

\* Doubles the delay past the longest.
ScheduleBackoffUncappedSlip(c) ==
    [c EXCEPT !.state = "BACKOFF", !.timer = TRUE, !.retryDelay = 2 * @]

ScheduleBackoff(c) ==
    [c EXCEPT !.state = "BACKOFF", !.timer = TRUE,
              !.retryDelay = IF 2 * @ > RetryMax THEN RetryMax ELSE 2 * @]

(***************************************************************************)
(* From here on a helper is the end of a handler: c is the client, and now *)
(* the links, as the handler has left them so far.                         *)
(***************************************************************************)
GapDisconnect(now, handle) == [now EXCEPT ![handle].closing = TRUE]

\* gap_disconnect knows no connection that BTstack does not have.
RequestDisconnect(c, now) ==
    LET ended == Enter(EndSourceSession(CancelTimer(c)), "DISCONNECTING") IN
    IF c.connectionHandle = NoHandle \/ now[c.connectionHandle] = NoLink
    THEN /\ client' = ScheduleBackoff(ClearConnection(ended))
         /\ links' = now
    ELSE /\ client' = ended
         /\ links' = GapDisconnect(now, c.connectionHandle)

\* gap_connect may always refuse, and does while another attempt is under way.
ConnectToPeer(c, peer) ==
    LET connecting ==
          [CancelTimer(c) EXCEPT
              !.targetPeer = peer,
              !.targetIsApproved = c.approvedPeer # NoPeer /\ peer = c.approvedPeer,
              !.connectionHandle = NoHandle, !.hidsCid = FALSE, !.linkSecure = FALSE]
    IN  \/ /\ attempt = "none" /\ attempt' = "pending"
           /\ client' = EnterTimed(connecting, "CONNECTING")
        \/ /\ client' = ScheduleBackoff(connecting)
           /\ UNCHANGED attempt

StartScan(c) ==
    /\ client' = Enter([CancelTimer(c) EXCEPT !.targetPeer = NoPeer,
                                              !.targetIsApproved = FALSE], "SCANNING")
    /\ scanning' = TRUE

RetryCurrentPolicy(c) ==
    IF ~c.hciWorking
    THEN client' = Enter(c, "STARTING") /\ UNCHANGED <<attempt, scanning>>
    ELSE \/ /\ c.approvedPeer # NoPeer
            /\ ConnectToPeer(c, c.approvedPeer)
            /\ UNCHANGED scanning
         \/ /\ c.approvedPeer = NoPeer
            /\ StartScan(c)
            /\ UNCHANGED attempt

\* Lets a link it did not expect be.
TrackAndDisconnectUnexpectedSlip(c, handle, now) ==
    client' = c /\ links' = now

TrackAndDisconnectUnexpected(c, handle, now) ==
    IF c.connectionHandle # NoHandle
    THEN client' = c /\ links' = GapDisconnect(now, handle)
    ELSE RequestDisconnect([CancelTimer(c) EXCEPT !.connectionHandle = handle,
                                                  !.sessionActive = TRUE], now)

\* Waits for the cancellation without a timeout.
CancelConnectSlip(c) ==
    LET canceling == Enter(CancelTimer(c), "CANCELING_CONNECT") IN
    \/ /\ attempt' = "none"
       /\ client' = ScheduleBackoff(ClearConnection(canceling))
    \/ /\ attempt' = "canceled"
       /\ client' = canceling
    \/ /\ client' = ScheduleBackoff(canceling)
       /\ UNCHANGED attempt

\* gap_connect_cancel emits the failed completion at once, or begins to
\* cancel, or cannot.
CancelConnect(c) ==
    LET canceling == Enter(CancelTimer(c), "CANCELING_CONNECT") IN
    \/ /\ attempt' = "none"
       /\ client' = ScheduleBackoff(ClearConnection(canceling))
    \/ /\ attempt' = "canceled"
       /\ client' = EnterTimed(canceling, "CANCELING_CONNECT")
    \/ /\ client' = ScheduleBackoff(canceling)
       /\ UNCHANGED attempt

\* BTstack has one HIDS client (MAX_NR_HIDS_CLIENTS).
StartHidsSetup(c, now) ==
    LET setup == Enter(CancelTimer(c), "HIDS_SETUP") IN
    \/ /\ \A handle \in Handles : now[handle].hids = "none"
       /\ client' = EnterTimed([setup EXCEPT !.hidsCid = TRUE], "HIDS_SETUP")
       /\ links' = [now EXCEPT ![c.connectionHandle].hids = "connecting"]
    \/ RequestDisconnect([setup EXCEPT !.hidsCid = FALSE], now)

-----------------------------------------------------------------------------
(* handle_hci_event                                                        *)

\* Takes a record for one of another layout when it is not.
LoadApprovedPeerSlip == NoPeer

\* The peer of the record; a record of another layout is removed.
LoadApprovedPeer == IF record \in Peers THEN record ELSE NoPeer

HciStartsWorking ==
    /\ ~client.hciWorking
    /\ record' = LoadApprovedPeer
    /\ RetryCurrentPolicy([client EXCEPT !.hciWorking = TRUE,
                                         !.approvedPeer = LoadApprovedPeer])
    /\ UNCHANGED <<bonds, links, ghostVars>>

\* BTstack has lost its controller, and every connection with it.
HciStopsWorking ==
    /\ client.hciWorking
    /\ client' = Enter(ClearConnection(EndSourceSession(
                     [CancelTimer(client) EXCEPT !.hciWorking = FALSE])), "STARTING")
    /\ attempt' = "none" /\ scanning' = FALSE
    /\ links' = [handle \in Handles |-> NoLink]
    /\ UNCHANGED <<flashVars, ghostVars>>

\* A keyboard in pairing mode advertises the HID service.
AdvertisingReport ==
    /\ scanning
    /\ client.state = "SCANNING" /\ client.approvedPeer = NoPeer
    /\ scanning' = FALSE
    /\ \E candidate \in Peers : ConnectToPeer(client, candidate)
    /\ UNCHANGED <<flashVars, links, ghostVars>>

AwaitsConnection == client.state \in {"CONNECTING", "CANCELING_CONNECT"}

ConnectionFails ==
    /\ attempt # "none"
    /\ attempt' = "none"
    /\ client' = IF AwaitsConnection
                 THEN ScheduleBackoff(ClearConnection(CancelTimer(client)))
                 ELSE client
    /\ UNCHANGED <<flashVars, scanning, links, ghostVars>>

(***************************************************************************)
(* A connection is complete, maybe long after the client gave the attempt  *)
(* up, and maybe not with the peer it asked for (isTarget).                *)
(***************************************************************************)
HandleConnectionComplete(handle, isTarget, now) ==
    LET accepted == [CancelTimer(client) EXCEPT !.connectionHandle = handle,
                                                !.sessionActive = TRUE,
                                                !.decoder = ResetDecoder]
        expected == AwaitsConnection /\ client.targetPeer # NoPeer /\ isTarget
    IN  \/ ~expected /\ TrackAndDisconnectUnexpected(client, handle, now)
        \/ expected /\ client.state = "CANCELING_CONNECT"
              /\ RequestDisconnect(accepted, now)
        \/ expected /\ client.state = "CONNECTING"
              /\ client' = EnterTimed(accepted, "SECURING") /\ links' = now

ConnectionCompletes ==
    /\ attempt # "none" /\ client.sourceEpoch < LastEpoch
    /\ attempt' = "none"
    /\ \E handle \in Handles, device \in Peers, isTarget \in BOOLEAN :
          /\ ~IsLive(handle)
          /\ HandleConnectionComplete(handle, isTarget,
                                      [links EXCEPT ![handle] = NewLink(device)])
    /\ UNCHANGED <<flashVars, scanning, ghostVars>>

\* BTstack's HIDS client tells of the end of its service first.
HidServiceDisconnected(c) ==
    IF ~c.hidsCid THEN c
    ELSE Enter(EndSourceSession([c EXCEPT !.hidsCid = FALSE]), "DISCONNECTING")

Disconnection(handle) ==
    LET c == IF links[handle].hids = "connected" THEN HidServiceDisconnected(client)
             ELSE client
    IN  ScheduleBackoff(ClearConnection(EndSourceSession(CancelTimer(c))))

DisconnectionCompletes(handle) ==
    /\ IsLive(handle)
    /\ links' = [links EXCEPT ![handle] = NoLink]
    /\ client' = IF handle = client.connectionHandle THEN Disconnection(handle)
                 ELSE client
    /\ UNCHANGED <<flashVars, attempt, scanning, ghostVars>>

SecurityStageActive == client.state \in {"SECURING", "HIDS_SETUP", "READY"}

\* The link loses its encryption, or a key refresh fails.
EncryptionFails(handle) ==
    /\ IsLive(handle) /\ SecurityStageActive /\ handle = client.connectionHandle
    /\ \E security \in {"none", links[handle].security} :
          RequestDisconnect([client EXCEPT !.linkSecure = FALSE],
                            [links EXCEPT ![handle].security = security])
    /\ UNCHANGED <<flashVars, attempt, scanning, ghostVars>>

-----------------------------------------------------------------------------
(* handle_sm_event                                                         *)

SmEventMatchesCurrent(handle) ==
    client.state = "SECURING" /\ handle = client.connectionHandle

\* Takes any well secured peer for the approved one.
PeerIsAuthenticSlip(link) == link.security = "strong"

\* authenticated_sc_peer_for_connection, and the approved peer if one was called.
PeerIsAuthentic(link) ==
    /\ link.security = "strong"
    /\ client.targetIsApproved => link.device = client.approvedPeer

SecurityComplete(handle, now) ==
    \/ /\ ~PeerIsAuthentic(now[handle])
       /\ RequestDisconnect(client, now)
    \/ /\ PeerIsAuthentic(now[handle])
       /\ StartHidsSetup([client EXCEPT !.linkSecure = TRUE,
                                        !.targetPeer = now[handle].device], now)

\* Pairing, or the reencryption of a bonded peer, ends; security "none" is
\* its failure.  What is no longer expected is ignored.
SmCompletes(handle) ==
    \E security \in {"none", "weak", "strong"}, pairing \in BOOLEAN :
        LET now  == [links EXCEPT ![handle].security = security]
            peer == IF pairing /\ security # "none" THEN {links[handle].device} ELSE {}
        IN  /\ IsLive(handle) /\ links[handle].security = "none"
            /\ pairing \/ links[handle].device \in bonds
            /\ bonds' = bonds \cup peer
            /\ forgotten' = forgotten \ peer
            /\ IF SmEventMatchesCurrent(handle) THEN SecurityComplete(handle, now)
               ELSE client' = client /\ links' = now
            /\ UNCHANGED <<record, attempt, scanning, held>>

\* Just works, numeric comparison and passkey entry are not acceptable.
RejectPairingMethod(handle) ==
    /\ SmEventMatchesCurrent(handle)
    /\ RequestDisconnect(client, links)
    /\ UNCHANGED <<flashVars, attempt, scanning, ghostVars>>

-----------------------------------------------------------------------------
(* handle_hids_event                                                       *)

Ready(c) ==
    Enter([c EXCEPT !.retryDelay = RetryInitial, !.decoder = ResetDecoder], "READY")

\* The keyboard that was set up is approved if none was; storing it may fail.
HidServiceIsReady(c, now) ==
    \/ /\ c.approvedPeer = NoPeer /\ c.targetPeer # NoPeer
       /\ \/ /\ record' = c.targetPeer
             /\ client' = Ready([c EXCEPT !.approvedPeer = c.targetPeer])
             /\ links' = now
          \/ /\ RequestDisconnect(c, now)
             /\ UNCHANGED record
    \/ /\ c.approvedPeer # NoPeer \/ c.targetPeer = NoPeer
       /\ client' = Ready(c) /\ links' = now
       /\ UNCHANGED record

HidServiceConnected(handle, success) ==
    LET now == [links EXCEPT ![handle].hids = IF success THEN "connected" ELSE "none"]
        c   == CancelTimer(client)
    IN  /\ links[handle].hids = "connecting"
        /\ held' = NothingHeld
        /\ IF client.state # "HIDS_SETUP" \/ ~client.hidsCid
              \/ handle # client.connectionHandle
           THEN client' = client /\ links' = now /\ UNCHANGED record
           ELSE \/ /\ ~success
                   /\ RequestDisconnect([c EXCEPT !.hidsCid = FALSE], now)
                   /\ UNCHANGED record
                \/ /\ success
                   /\ IF c.linkSecure THEN HidServiceIsReady(c, now)
                      ELSE RequestDisconnect(c, now) /\ UNCHANGED record
        /\ UNCHANGED <<bonds, attempt, scanning, forgotten>>

\* handle_keyboard_state of main.c.
HandleKeyboardState(c) ==
    [c EXCEPT !.pipe = Publish(@, FilterForBootReport(c.decoder.state), c.sourceEpoch)]

HidReport(handle, report) ==
    LET decoded == [client EXCEPT !.decoder = Decode(@, report)] IN
    /\ links[handle].hids = "connected"
    /\ client.state = "READY" /\ client.hidsCid /\ client.linkSecure
    /\ handle = client.connectionHandle
    /\ client' = IF decoded.decoder.state = client.decoder.state THEN decoded
                 ELSE HandleKeyboardState(decoded)
    /\ held' = IF report.kind = "keyboard" THEN [held EXCEPT ![report.key] = report.usages]
               ELSE held
    /\ UNCHANGED <<flashVars, radioVars, forgotten>>

-----------------------------------------------------------------------------
(* handle_state_timer; a timer that has fired is off the run loop.         *)

Fired == CancelTimer(client)

ConnectTimesOut ==
    /\ client.timer /\ client.state = "CONNECTING"
    /\ CancelConnect(Fired)
    /\ UNCHANGED <<flashVars, scanning, links, ghostVars>>

CancelTimesOut ==
    /\ client.timer /\ client.state = "CANCELING_CONNECT"
    /\ client' = ScheduleBackoff(ClearConnection(Fired))
    /\ UNCHANGED <<flashVars, radioVars, ghostVars>>

SecurityTimesOut ==
    /\ client.timer /\ client.state = "SECURING"
    /\ RequestDisconnect(Fired, links)
    /\ UNCHANGED <<flashVars, attempt, scanning, ghostVars>>

HidsSetupTimesOut ==
    /\ client.timer /\ client.state = "HIDS_SETUP"
    /\ RequestDisconnect([Fired EXCEPT !.hidsCid = FALSE],
                         [links EXCEPT ![client.connectionHandle].hids = "none"])
    /\ UNCHANGED <<flashVars, attempt, scanning, ghostVars>>

BackoffEnds ==
    /\ client.timer /\ client.state = "BACKOFF"
    /\ RetryCurrentPolicy(Fired)
    /\ UNCHANGED <<flashVars, links, ghostVars>>

TimerFires == \/ ConnectTimesOut \/ CancelTimesOut
              \/ SecurityTimesOut \/ HidsSetupTimesOut \/ BackoffEnds

-----------------------------------------------------------------------------
(* hog_client_forget_peer, and a power cycle                               *)

ActiveIdentity ==
    IF client.connectionHandle = NoHandle THEN {}
    ELSE {links[client.connectionHandle].device} \cap bonds

\* Deletes the record only.
PeersToForgetSlip == {}

PeersToForget == ({client.approvedPeer} \cap Peers) \cup ActiveIdentity

ForgetPeer ==
    LET c == [client EXCEPT !.approvedPeer = NoPeer, !.retryDelay = RetryInitial] IN
    /\ record' = NoPeer
    /\ bonds' = bonds \ PeersToForget
    /\ forgotten' = forgotten \cup ({client.approvedPeer} \cap Peers) \cup ActiveIdentity
    /\ \/ /\ c.state \in {"STARTING", "CANCELING_CONNECT"}
          /\ client' = c /\ UNCHANGED radioVars
       \/ /\ c.state \in {"SCANNING", "BACKOFF"}
          /\ StartScan(c) /\ UNCHANGED <<attempt, links>>
       \/ /\ c.state = "CONNECTING"
          /\ CancelConnect(c) /\ UNCHANGED <<scanning, links>>
       \/ /\ c.state \in {"SECURING", "HIDS_SETUP", "READY", "DISCONNECTING"}
          /\ RequestDisconnect(c, links) /\ UNCHANGED <<attempt, scanning>>
    /\ UNCHANGED held

PowerCycles ==
    /\ client' = InitialClient
    /\ attempt' = "none" /\ scanning' = FALSE
    /\ links' = [handle \in Handles |-> NoLink]

Reboot == PowerCycles /\ UNCHANGED <<flashVars, ghostVars>>

\* The record, the approved peer's bond and the connected peer's are deleted
\* one after the other, and the power goes before the last that there is.  Its
\* keyboard may come back without a pairing, so it is not forgotten yet.
ForgetPeerIsCut ==
    /\ record' = NoPeer
    /\ bonds' \in {bonds, bonds \ {client.approvedPeer}}
    /\ PowerCycles
    /\ UNCHANGED ghostVars

Next == \/ HciStartsWorking \/ HciStopsWorking
        \/ AdvertisingReport
        \/ ConnectionFails \/ ConnectionCompletes
        \/ \E handle \in Handles :
              \/ DisconnectionCompletes(handle) \/ EncryptionFails(handle)
              \/ SmCompletes(handle) \/ RejectPairingMethod(handle)
              \/ \E success \in BOOLEAN : HidServiceConnected(handle, success)
              \/ \E report \in Reports : HidReport(handle, report)
        \/ TimerFires
        \/ ForgetPeer \/ ForgetPeerIsCut \/ Reboot

Spec == Init /\ [][Next]_vars

(***************************************************************************)
(* The run loop fires timers.  BTstack ends the disconnections it was      *)
(* asked for (the link's supervision timeout does, if the peer is silent)  *)
(* and the attempts it is canceling, and it does not refuse gap_connect    *)
(* for ever when no attempt is under way.                                  *)
(***************************************************************************)
Fairness ==
    /\ WF_vars(TimerFires)
    /\ WF_vars(BackoffEnds /\ client'.state # "BACKOFF")
    /\ WF_vars(attempt = "canceled" /\ ConnectionFails)
    /\ \A handle \in Handles :
          WF_vars(links[handle].closing /\ DisconnectionCompletes(handle))

FairSpec == Spec /\ Fairness

-----------------------------------------------------------------------------
(* Every variable has its type.                                            *)
TypeOK ==
    /\ client \in Clients
    /\ record \in Peers \cup {NoPeer, Incompatible} /\ bonds \subseteq Peers
    /\ attempt \in {"none", "pending", "canceled"} /\ scanning \in BOOLEAN
    /\ links \in [Handles -> Links \cup {NoLink}]
    /\ held \in [ReportKeys -> KeyboardStates] /\ forgotten \subseteq Peers

CurrentLink == links[client.connectionHandle]

(* Only the approved keyboard types: READY means that the link is up,      *)
(* authenticated and encrypted, and that the device at its other end is    *)
(* the one that is approved now and after a restart                        *)
(* (hog_client.c:338-356, 396-405, 556-567).                               *)
ReadyIsApproved ==
    client.state = "READY" =>
        /\ client.connectionHandle # NoHandle
        /\ CurrentLink.security = "strong" /\ CurrentLink.hids = "connected"
        /\ CurrentLink.device = client.approvedPeer /\ record = client.approvedPeer

(* A keyboard that was forgotten does not come back without a pairing that *)
(* ends after it was forgotten, whatever was under way at that moment: a   *)
(* connection, its cancellation, the reencryption or the setup of its      *)
(* service (hog_client.c:856-913).                                         *)
ForgottenStaysOut ==
    client.state = "READY" => CurrentLink.device \notin forgotten

(* The pipe's latest state is what the keyboard holds over all its         *)
(* reports while READY, and nothing at any other time: no key outlives its *)
(* session and no report of one fragment releases the keys of another      *)
(* (hog_client.c:219-228, 423-461).                                        *)
PipeShowsKeyboard ==
    client.pipe.latest =
        IF client.state = "READY"
        THEN FilterForBootReport(UNION {held[key] : key \in ReportKeys})
        ELSE Released

(* No connection is orphaned: one that is up is the client's own or is     *)
(* being closed, however late it was completed (hog_client.c:503-543).     *)
NoLinkIsOrphaned ==
    \A handle \in Handles :
        IsLive(handle) => handle = client.connectionHandle \/ links[handle].closing

(* The client never waits for nothing: every state that must be left has   *)
(* its timer running or a disconnection on its way, and no other has.      *)
EveryWaitEnds ==
    /\ client.timer <=> client.state \in {"CONNECTING", "CANCELING_CONNECT",
                                          "SECURING", "HIDS_SETUP", "BACKOFF"}
    /\ client.state = "DISCONNECTING" =>
          client.connectionHandle # NoHandle /\ CurrentLink.closing
    /\ client.state = "SCANNING" => scanning
    /\ client.state = "STARTING" <=> ~client.hciWorking

(* The approval on flash changes only when the user forgets the keyboard,  *)
(* and then first of all: no failed connection, foreign keyboard, reset or *)
(* restart replaces it (hog_client.c:117-135, 396-401, 856-873).           *)
ApprovalSurvives ==
    [][(record \in Peers) /\ record' # record =>
          (ForgetPeer \/ ForgetPeerIsCut) /\ record' = NoPeer]_vars

(* The client never gives up: while the controller works it is over and    *)
(* over ready, scanning, or has a connection attempt under way, through    *)
(* any run of timeouts, failures, cancellations and late completions       *)
(* (hog_client.c:292-334, 761-807).                                        *)
NeverGivesUp ==
    []<>(client.state \in {"STARTING", "SCANNING", "READY"} \/ attempt = "pending")

(* A disconnect releases every key, so none can stick.                     *)
DisconnectReleasesKeys ==
    client.state # "READY" => client.pipe.latest = Released
=============================================================================
