------------------------------ MODULE PhoneClient ------------------------------
(***************************************************************************)
(* The phone's connection to the PC: WebSocketClient and SyncEngine.       *)
(*                                                                         *)
(* Every callback of a socket and every command of the user runs under the *)
(* client's monitor and is one step.  The supervisor and the task that     *)
(* delivers a notification are coroutines, interleaved where they suspend; *)
(* connectMutex lets one of them dial at a time.  A callback carries the   *)
(* serial of its socket; what an old socket still reports is a step that   *)
(* must change nothing.  The network, the relay and the PC are external:   *)
(* whatever their protocol lets them say may come at any moment, and a     *)
(* wait for them may end at any moment.                                    *)
(*                                                                         *)
(* The saved pairing is usable, and dialed with retryingOnFailure, as      *)
(* SyncEngine always does.  A notification is left to module Delivery.     *)
(***************************************************************************)
EXTENDS Naturals, Sequences

CONSTANTS
  None,
  SupportsRelay,   \* the pairing has relay credentials
  MaxDials,        \* bound: sockets ever opened
  MaxActs          \* bound: acts of the user, and deaths of the process

VARIABLES
  \* the client's memory
  manual,        \* manuallyDisconnected
  turnedAway, consent,   \* consent: pairedByUser
  rejected,      \* pairingRejection
  asked,         \* reconnectRequest: the user is being asked
  link,          \* the connection: state, socket and pendingApproval
  dials,         \* the number of the last socket
  writes,        \* values of manual_disconnect on their way to the disk
  task, holder,  \* the coroutines, and which of them holds connectMutex
  \* the disk
  disconnected,  \* manual_disconnect
  auto,          \* auto_reconnect
  acts,
  letGo          \* history: a disconnect was saved, and nothing has undone it since

flags == <<manual, turnedAway, consent, rejected, asked>>
disk  == <<writes, disconnected, auto>>
phoneVars  == <<flags, link, dials, task, holder, disk, acts, letGo>>

Tasks == {"supervisor", "sender"}

Socket == [kind : {"lan", "relay"}, approval : BOOLEAN, awaiting : BOOLEAN,
           open : BOOLEAN, session : {"none", "started", "ready"}, authed : BOOLEAN]

Link == [state : {"disconnected", "connecting", "connected", "retrying"},
         sock : Socket \union {None}, pending : BOOLEAN]

Task == [pc : {"idle", "await", "join", "dial", "lan", "lanwait", "relay", "relaywait",
               "send", "transmit"},
         sending : BOOLEAN, tries : 0..2, automatic : BOOLEAN]

ASSUME PhoneAssumption ==
  SupportsRelay \in BOOLEAN /\ MaxDials \in Nat /\ MaxActs \in Nat /\ None \notin Tasks \union Socket

\* The stages in which connectMutex is held.
Dialing == {"join", "lan", "lanwait", "relay", "relaywait"}

Linked(l) ==
  /\ l \in Link
  /\ l.pending => l.sock # None /\ l.sock.kind = "relay"
  /\ l.sock # None => (l.sock.kind = "lan" => l.sock.session = "none")

FlagsTyped == {manual, turnedAway, consent, rejected, asked, disconnected, auto, letGo} \subseteq BOOLEAN
CountsTyped == dials \in 0..MaxDials /\ acts \in 0..MaxActs /\ writes \in Seq(BOOLEAN)
TasksTyped ==
  /\ task \in [Tasks -> Task] /\ holder \in Tasks \union {None}
  /\ \A t \in Tasks : task[t].pc \in Dialing <=> holder = t

TypeOK == FlagsTyped /\ CountsTyped /\ TasksTyped /\ Linked(link)

Resting == [pc |-> "idle", sending |-> FALSE, tries |-> 0, automatic |-> FALSE]
Unlinked == [state |-> "disconnected", sock |-> None, pending |-> FALSE]

Init ==
  /\ manual = FALSE /\ turnedAway = FALSE /\ consent = FALSE /\ rejected = FALSE /\ asked = FALSE
  /\ link = Unlinked /\ writes = <<>>
  /\ task = [t \in Tasks |-> Resting] /\ holder = None
  /\ disconnected = FALSE /\ auto \in BOOLEAN
  /\ dials = 0 /\ acts = 0 /\ letGo = FALSE

-----------------------------------------------------------------------------
(* The connection. *)

IsConnected == link.state = "connected" /\ link.sock # None

IsAwaitingPeer ==
  /\ link.sock # None /\ link.sock.kind = "relay" /\ link.sock.open
  /\ ~IsConnected

\* Mutant of IsManuallyDisconnected: the disk is not asked.
OnlyInMemory == manual

IsManuallyDisconnected == manual \/ disconnected

\* disconnect(): the socket is let go, and whatever it still reports is late.
Dropped(shown) ==
  [link EXCEPT !.sock = None, !.pending = FALSE,
               !.state = IF shown THEN "disconnected" ELSE @]

\* finishConnection()
Finished(state) == [Dropped(FALSE) EXCEPT !.state = state]

\* connect(): after a manual disconnect only for a socket that waits to be asked.
Connect(kind, approval, awaiting) ==
  \/ manual /\ ~awaiting /\ UNCHANGED <<link, dials>>
  \/ /\ ~manual \/ awaiting
     /\ dials < MaxDials /\ dials' = dials + 1
     /\ link' = [state |-> "connecting", pending |-> FALSE,
                 sock |-> [kind |-> kind, approval |-> approval, awaiting |-> awaiting,
                           open |-> FALSE, session |-> "none", authed |-> FALSE]]

\* setManualDisconnect(): in memory at once, on disk in the order of intent.
SetManual(value) == manual' = value /\ writes' = Append(writes, value)

\* startSecureSession(): the first frame is sent, or no session can be made.
StartSession ==
  \/ link' = [link EXCEPT !.sock.session = "started", !.pending = FALSE]
  \/ link' = Finished("retrying")

-----------------------------------------------------------------------------
(* The callbacks of socket s. *)

\* Mutant of Current: the serial is not compared.
AnySerial(s) == link.sock # None

\* serial == connectionSerial
Current(s) == link.sock # None /\ s = dials

Late == UNCHANGED <<flags, link, writes, letGo>>

Calmly == UNCHANGED <<dials, task, holder, disconnected, auto, acts>>

\* What a current socket of this kind, in this stage of its protocol, may report.
Reports(s, kind, session) ==
  s = dials /\ link.sock # None =>
    link.sock.kind = kind /\ link.sock.open /\ link.sock.session \in session

OnOpen(s) ==
  /\ s = dials /\ link.sock # None => ~link.sock.open
  /\ \/ ~Current(s) /\ Late
     \/ Current(s) /\ link' = [link EXCEPT !.sock.open = TRUE] /\ UNCHANGED <<flags, writes, letGo>>
  /\ Calmly

\* relay.peer_ready: held back for the user where this socket was opened to ask first.  The
\* relay announces no second peer to a socket that is in use.
PeerReady(s) ==
  /\ Reports(s, "relay", {"none"}) /\ (s = dials /\ link.sock # None => ~link.sock.authed)
  /\ \/ ~Current(s) /\ Late
     \/ /\ Current(s) /\ link.sock.approval
        /\ link' = [link EXCEPT !.pending = TRUE]
        /\ asked' = TRUE
        /\ UNCHANGED <<manual, turnedAway, consent, rejected, writes, letGo>>
     \/ Current(s) /\ ~link.sock.approval /\ StartSession /\ UNCHANGED <<flags, writes, letGo>>
  /\ Calmly

\* relay.peer_unavailable: the socket stays, to hear of the PC's return.
PeerUnavailable(s) ==
  /\ Reports(s, "relay", {"none", "started", "ready"})
  /\ \/ ~Current(s) /\ Late
     \/ /\ Current(s)
        /\ link' = [link EXCEPT !.pending = FALSE, !.sock.session = "none", !.sock.authed = FALSE,
                                !.state = IF @ = "connected" THEN "retrying" ELSE @]
        /\ UNCHANGED <<flags, writes, letGo>>
  /\ Calmly

\* onRelayFrame: the handshake completes, or a frame does not open.
Handshaken(s) ==
  /\ Reports(s, "relay", {"started"})
  /\ \/ ~Current(s) /\ Late
     \/ Current(s) /\ link' = [link EXCEPT !.sock.session = "ready"] /\ UNCHANGED <<flags, writes, letGo>>
  /\ Calmly

BadFrame(s) ==
  /\ Reports(s, "relay", {"started", "ready"})
  /\ \/ ~Current(s) /\ Late
     \/ Current(s) /\ link' = Finished("retrying") /\ UNCHANGED <<flags, writes, letGo>>
  /\ Calmly

\* The PC has read this phone's Auth: over a ready session, or an open socket of the network.
HeardByPC(s) ==
  s = dials /\ link.sock # None =>
    link.sock.open /\ (link.sock.kind = "relay" => link.sock.session = "ready")

AuthOk(s) ==
  /\ HeardByPC(s)
  /\ \/ ~Current(s) /\ Late
     \/ /\ Current(s)
        /\ turnedAway' = FALSE /\ consent' = FALSE
        /\ IF manual THEN SetManual(FALSE) ELSE UNCHANGED <<manual, writes>>
        /\ link' = [link EXCEPT !.state = "connected", !.sock.authed = (s = dials)]
        /\ letGo' = FALSE
        /\ UNCHANGED <<rejected, asked>>
  /\ Calmly

\* AUTH_FAILED: of an unknown pairing, or of one the PC does not take back unasked.
AuthFailed(s, unknown) ==
  /\ HeardByPC(s) /\ (s = dials /\ link.sock # None => ~link.sock.authed)
  /\ \/ ~Current(s) /\ Late
     \/ /\ Current(s) /\ unknown
        /\ rejected' = TRUE
        /\ link' = Finished("disconnected")
        /\ UNCHANGED <<manual, turnedAway, consent, asked, writes, letGo>>
     \/ /\ Current(s) /\ ~unknown
        /\ turnedAway' = TRUE
        /\ link' = IF link.sock.kind = "lan" THEN Finished("retrying")
                   ELSE [link EXCEPT !.state = "retrying", !.pending = FALSE,
                                     !.sock.session = "none"]
        /\ UNCHANGED <<manual, consent, rejected, asked, writes, letGo>>
  /\ Calmly

\* UNPAIR: the PC lets this phone go.
Unpair(s) ==
  /\ HeardByPC(s) /\ (s = dials /\ link.sock # None => link.sock.authed)
  /\ \/ ~Current(s) /\ Late
     \/ /\ Current(s)
        /\ SetManual(TRUE)
        /\ link' = Dropped(TRUE)
        /\ UNCHANGED <<turnedAway, consent, rejected, asked, letGo>>
  /\ Calmly

\* DESKTOP_ACTION reconnect_request: the PC asks for this phone over the session it has.
Requested(s) ==
  /\ HeardByPC(s) /\ (s = dials /\ link.sock # None => link.sock.authed)
  /\ \/ ~Current(s) /\ Late
     \/ /\ Current(s) /\ asked' = TRUE
        /\ UNCHANGED <<manual, turnedAway, consent, rejected, link, writes, letGo>>
  /\ Calmly

\* onClosing, onClosed, onFailure
SocketEnds(s) ==
  /\ \/ ~Current(s) /\ Late
     \/ Current(s) /\ link' = Finished("retrying") /\ UNCHANGED <<flags, writes, letGo>>
  /\ Calmly

\* No pong for three minutes.
HeartbeatLost ==
  /\ IsConnected
  /\ link' = Finished("disconnected")
  /\ UNCHANGED <<flags, writes, letGo>> /\ Calmly

\* A ping, an inventory or a rules answer cannot be sent: the session is discarded, and the
\* connection is left to the heartbeat.
SessionDiscarded ==
  /\ IsConnected /\ link.sock.session = "ready"
  /\ link' = [link EXCEPT !.sock.session = "none"]
  /\ UNCHANGED <<flags, writes, letGo>> /\ Calmly

Callback(s) ==
  \/ OnOpen(s) \/ PeerReady(s) \/ PeerUnavailable(s) \/ Handshaken(s) \/ BadFrame(s)
  \/ AuthOk(s) \/ Unpair(s) \/ Requested(s) \/ SocketEnds(s)
  \/ \E unknown \in BOOLEAN : AuthFailed(s, unknown)

-----------------------------------------------------------------------------
(* The user, and the life of the process. *)

Act == acts < MaxActs /\ acts' = acts + 1

ManualDisconnect ==
  /\ Act
  /\ SetManual(TRUE)
  /\ link' = Dropped(TRUE)
  /\ UNCHANGED <<turnedAway, consent, rejected, asked, dials, task, holder, disconnected, auto, letGo>>

\* acceptReconnectRequest(), for a request, the sync button or a scan: a PC that is already
\* waiting at the relay is answered at once.
Accepted ==
  /\ turnedAway' = FALSE /\ rejected' = FALSE /\ asked' = FALSE
  /\ SetManual(FALSE)
  /\ letGo' = FALSE
  /\ IF link.pending THEN StartSession ELSE UNCHANGED link

Accept ==
  /\ Act /\ Accepted
  /\ UNCHANGED <<consent, dials, task, holder, disconnected, auto>>

\* A code is scanned and confirmed: notePairedByUser().
Scan ==
  /\ Act /\ Accepted
  /\ consent' = TRUE
  /\ UNCHANGED <<dials, task, holder, disconnected, auto>>

Dismiss ==
  /\ asked /\ asked' = FALSE
  /\ UNCHANGED <<manual, turnedAway, consent, rejected, link, dials, task, holder, disk, acts, letGo>>

SetAuto(on) ==
  /\ Act /\ auto # on
  /\ auto' = on
  /\ UNCHANGED <<flags, link, dials, task, holder, writes, disconnected, letGo>>

\* One write of manual_disconnect reaches the disk.
Persist ==
  /\ writes # <<>>
  /\ disconnected' = Head(writes) /\ writes' = Tail(writes)
  /\ letGo' = (letGo \/ writes = <<TRUE>>)
  /\ UNCHANGED <<flags, link, dials, task, holder, auto, acts>>

\* The process is killed and started again; nothing is read back into the client's memory.
Restart ==
  /\ Act
  /\ manual' = FALSE /\ turnedAway' = FALSE /\ consent' = FALSE /\ rejected' = FALSE /\ asked' = FALSE
  /\ link' = Unlinked /\ writes' = <<>>
  /\ task' = [t \in Tasks |-> Resting] /\ holder' = None
  /\ UNCHANGED <<dials, disconnected, auto, letGo>>

-----------------------------------------------------------------------------
(* The coroutines: the supervisor's loop, and send(). *)

Goto(t, pc) == task' = [task EXCEPT ![t].pc = pc]

\* What send() does with a dead session while it may not dial.
HeldBack == ~IsConnected /\ (IsManuallyDisconnected \/ (turnedAway /\ SupportsRelay))

\* maintainActivePairing, once a tick.
Tick ==
  LET t == "supervisor" IN
  /\ task[t].pc = "idle"
  /\ ~rejected
  /\ IF IsManuallyDisconnected \/ (~IsConnected /\ turnedAway /\ SupportsRelay)
     THEN ~IsAwaitingPeer /\ Goto(t, "await")
     ELSE IF IsConnected THEN Goto(t, "send")
     ELSE ~IsAwaitingPeer /\ Goto(t, "dial")
  /\ UNCHANGED <<flags, link, dials, holder, disk, acts, letGo>>

\* awaitApproval: waits at the relay without dialing anyone.
Await(t) ==
  /\ task[t].pc = "await" /\ holder = None
  /\ IF IsConnected \/ IsAwaitingPeer \/ ~SupportsRelay
     THEN Goto(t, "idle") /\ UNCHANGED holder
     ELSE Goto(t, "join") /\ holder' = t
  /\ UNCHANGED <<flags, link, dials, disk, acts, letGo>>

Join(t) ==
  /\ task[t].pc = "join"
  /\ Connect("relay", ~auto, TRUE)
  /\ Goto(t, "idle") /\ holder' = None
  /\ UNCHANGED <<flags, disk, acts, letGo>>

\* connectActivePairing ends; the supervisor, or a send that is under way, goes on.
Returned(t, connected) ==
  /\ holder' = None
  /\ task' = [task EXCEPT ![t] = IF task[t].sending THEN [@ EXCEPT !.pc = "transmit", !.automatic = FALSE]
                                ELSE [Resting EXCEPT !.pc = IF connected THEN "send" ELSE "idle"]]

\* connectActivePairing: the local network only if nobody need be asked, then the relay.
Dial(t) ==
  /\ task[t].pc = "dial" /\ holder = None
  /\ \/ IsConnected /\ Returned(t, TRUE)
     \/ /\ ~IsConnected /\ holder' = t
        /\ LET automatic == auto \/ consent IN
           \E pc \in {"relay"} \union (IF automatic /\ ~IsManuallyDisconnected THEN {"lan"} ELSE {}) :
             task' = [task EXCEPT ![t].pc = pc, ![t].automatic = automatic]
  /\ UNCHANGED <<flags, link, dials, disk, acts, letGo>>

\* One endpoint of the pairing.
DialEndpoint(t) ==
  /\ task[t].pc = "lan"
  /\ \/ IsManuallyDisconnected /\ UNCHANGED <<link, dials>> /\ Returned(t, FALSE)
     \/ ~IsManuallyDisconnected /\ Connect("lan", FALSE, FALSE) /\ Goto(t, "lanwait") /\ UNCHANGED holder
  /\ UNCHANGED <<flags, disk, acts, letGo>>

\* awaitConnected() is over: settled, or four seconds.  There may be another endpoint.
EndpointWaited(t) ==
  /\ task[t].pc = "lanwait"
  /\ \/ link.state = "connected" /\ Returned(t, TRUE)
     \/ link.state # "connected" /\ (Goto(t, "lan") \/ Goto(t, "relay")) /\ UNCHANGED holder
  /\ UNCHANGED <<flags, link, dials, disk, acts, letGo>>

DialRelay(t) ==
  /\ task[t].pc = "relay"
  /\ IF SupportsRelay
     THEN Connect("relay", ~task[t].automatic, FALSE) /\ Goto(t, "relaywait") /\ UNCHANGED holder
     ELSE link' = Dropped(TRUE) /\ Returned(t, FALSE) /\ UNCHANGED dials
  /\ UNCHANGED <<flags, disk, acts, letGo>>

\* A relay socket is held open for a PC that has not answered yet.
RelayWaited(t) ==
  /\ task[t].pc = "relaywait"
  /\ link' = IF link.state = "connected" \/ IsAwaitingPeer THEN link ELSE Dropped(TRUE)
  /\ Returned(t, link.state = "connected")
  /\ UNCHANGED <<flags, dials, disk, acts, letGo>>

\* A notification arrives, and send() is called for it.
Notify ==
  /\ task["sender"].pc = "idle"
  /\ Goto("sender", "send")
  /\ UNCHANGED <<flags, link, dials, holder, disk, acts, letGo>>

\* send(): held back, or sent now, or after a connection has been made.
Send(t) ==
  /\ task[t].pc = "send"
  /\ task' = [task EXCEPT ![t] =
       IF HeldBack THEN Resting
       ELSE [Resting EXCEPT !.pc = IF IsConnected THEN "transmit" ELSE "dial", !.sending = TRUE]]
  /\ UNCHANGED <<flags, link, dials, holder, disk, acts, letGo>>

\* client.send(): a refused frame ends the connection; one retry on a fresh one.
Transmit(t) ==
  /\ task[t].pc = "transmit"
  /\ \/ IsConnected /\ UNCHANGED link /\ task' = [task EXCEPT ![t] = Resting]
     \/ /\ link' = IF IsConnected THEN Dropped(TRUE) ELSE link
        /\ task' = [task EXCEPT ![t] =
             IF task[t].tries = 1 THEN Resting ELSE [@ EXCEPT !.pc = "dial", !.tries = 1]]
  /\ UNCHANGED <<flags, dials, holder, disk, acts, letGo>>

Run(t) ==
  \/ Await(t) \/ Join(t) \/ Dial(t) \/ DialEndpoint(t) \/ EndpointWaited(t)
  \/ DialRelay(t) \/ RelayWaited(t) \/ Send(t) \/ Transmit(t)

Next ==
  \/ \E s \in 1..MaxDials : s <= dials /\ Callback(s)
  \/ HeartbeatLost \/ SessionDiscarded
  \/ ManualDisconnect \/ Accept \/ Scan \/ Dismiss \/ (\E on \in BOOLEAN : SetAuto(on))
  \/ Persist \/ Restart
  \/ Tick \/ Notify \/ \E t \in Tasks : Run(t)

Spec == Init /\ [][Next]_phoneVars

-----------------------------------------------------------------------------
(* Properties. *)

\* The phone shows itself connected only over a socket on which the PC has accepted it:
\* what an earlier socket still reports, or a wait that ends late, never makes it so.
\* (connectionSerial, WebSocketClient.kt:255-310)
ConnectedIsAuthenticated == IsConnected => link.sock.authed

\* A disconnect that was saved holds, across deaths of the process and whatever coroutine
\* was dialing, until the user, a scan or an accepted session ends it: the phone reaches for
\* no PC and at most waits at the relay.  (SyncEngine.kt:34-46,114-154)
SavedDisconnectHolds == letGo /\ link.sock # None => link.sock.awaiting

\* The code's comment: "An authenticated session ends the disconnect ...  Holding both
\* states at once is not a subtlety" (WebSocketClient.kt:440-444).
SessionEndsDisconnect == IsConnected /\ writes = <<>> => ~disconnected
=============================================================================
