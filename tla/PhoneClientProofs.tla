--------------------------- MODULE PhoneClientProofs ---------------------------
(***************************************************************************)
(* Proofs about PhoneClient, for any number of sockets and acts: the types *)
(* of its state, that the phone shows itself connected only over a socket  *)
(* on which the PC has accepted it, and that a saved disconnect holds      *)
(* across deaths of the process.                                           *)
(***************************************************************************)
EXTENDS PhoneClient, TLAPS

States == {"disconnected", "connecting", "connected", "retrying"}

\* What every step but a new socket and AuthOk makes of the connection: the socket is let
\* go or stays the one it was, and a connection that is shown was shown before.
Kept(l, m) ==
  /\ Linked(m)
  /\ m.sock # None => l.sock # None /\ m.sock.awaiting = l.sock.awaiting
  /\ m.state = "connected" => l.state = "connected" /\ (m.sock # None => m.sock.authed = l.sock.authed)

LEMMA KeptSame ==
  ASSUME NEW l, Linked(l)
  PROVE  Kept(l, l)
  BY DEF Kept

LEMMA KeptLetGo ==
  ASSUME NEW l, Linked(l), NEW st \in States \ {"connected"}
  PROVE  /\ Kept(l, [l EXCEPT !.sock = None, !.pending = FALSE, !.state = st])
         /\ [l EXCEPT !.sock = None, !.pending = FALSE, !.state = st].sock = None
         /\ [l EXCEPT !.sock = None, !.pending = FALSE, !.state = st].state = st
<1> DEFINE m == [l EXCEPT !.sock = None, !.pending = FALSE, !.state = st]
<1>1. m \in Link /\ m.sock = None /\ m.pending = FALSE /\ m.state = st
  BY DEF Linked, Link, States
<1>2. Linked(m)
  BY <1>1 DEF Linked
<1>3. QED
  BY <1>1, <1>2 DEF Kept

\* The socket changes, and is not a different one.
LEMMA KeptSocket ==
  ASSUME NEW l, Linked(l), NEW k, k \in Socket, l.sock # None, k.kind = l.sock.kind, k.awaiting = l.sock.awaiting,
         k.kind = "lan" => k.session = "none",
         NEW st \in States, st = "connected" => l.state = "connected" /\ k.authed = l.sock.authed,
         NEW p \in BOOLEAN, p => k # None /\ k.kind = "relay"
  PROVE  Kept(l, [l EXCEPT !.sock = k, !.pending = p, !.state = st])
<1> DEFINE m == [l EXCEPT !.sock = k, !.pending = p, !.state = st]
<1>1. m \in Link /\ m.sock = k /\ m.pending = p /\ m.state = st
  BY DEF Linked, Link, States
<1>2. Linked(m)
  BY <1>1 DEF Linked
<1>3. QED
  BY <1>1, <1>2 DEF Kept

\* Nothing but the socket changes.
LEMMA KeptRest ==
  ASSUME NEW l, Linked(l), NEW k, k \in Socket, l.sock # None, k # None, k.kind = l.sock.kind,
         k.awaiting = l.sock.awaiting, k.authed = l.sock.authed, k.kind = "lan" => k.session = "none"
  PROVE  Kept(l, [l EXCEPT !.sock = k])
<1> DEFINE m == [l EXCEPT !.sock = k]
<1>1. m \in Link /\ m.sock = k /\ m.pending = l.pending /\ m.state = l.state
  BY DEF Linked, Link
<1>2. Linked(m)
  BY <1>1 DEF Linked
<1>3. QED
  BY <1>1, <1>2 DEF Kept

\* Dropped and Finished
LEMMA LettingGo ==
  ASSUME Linked(link)
  PROVE  /\ \A shown \in BOOLEAN : (shown \/ link.state # "connected") => Kept(link, Dropped(shown)) /\ Dropped(shown).sock = None
         /\ \A st \in States \ {"connected"} : Kept(link, Finished(st)) /\ Finished(st).sock = None
<1> DEFINE m(st) == [link EXCEPT !.sock = None, !.pending = FALSE, !.state = st]
<1>1. link.state \in States
  BY DEF Linked, Link, States
<1>2. ASSUME NEW shown \in BOOLEAN PROVE Dropped(shown) = m(IF shown THEN "disconnected" ELSE link.state)
  BY DEF Dropped, Linked, Link
<1>3. ASSUME NEW st \in States PROVE Finished(st) = m(st)
  BY DEF Dropped, Finished, Linked, Link
<1>4. \A st \in States \ {"connected"} : Kept(link, m(st)) /\ m(st).sock = None
  BY KeptLetGo
<1> HIDE DEF m
<1>5. QED
  BY <1>1, <1>2, <1>3, <1>4 DEF States

LEMMA Starting ==
  ASSUME Linked(link), link.sock # None, link.sock.kind = "relay", StartSession
  PROVE  Kept(link, link')
<1>1. CASE link' = Finished("retrying")
  BY <1>1, LettingGo DEF States
<1>2. CASE link' = [link EXCEPT !.sock.session = "started", !.pending = FALSE]
  <2> DEFINE k == [link.sock EXCEPT !.session = "started"]
  <2>1. link \in Link /\ link.sock \in Socket /\ link.state \in States
    BY DEF Linked, Link, States
  <2>2. k \in Socket /\ k.kind = "relay" /\ k.awaiting = link.sock.awaiting /\ k.authed = link.sock.authed
    BY <2>1 DEF Socket
  <2>3. link' = [link EXCEPT !.sock = k, !.pending = FALSE, !.state = link.state]
    BY <1>2, <2>1 DEF Link
  <2> HIDE DEF k
  <2>4. QED
    BY <2>1, <2>2, <2>3, KeptSocket
<1>3. QED
  BY <1>1, <1>2 DEF StartSession

LEMMA CallbackKeeps ==
  ASSUME Linked(link), NEW s, Callback(s)
  PROVE  AuthOk(s) \/ Kept(link, link')
<1> DEFINE sock == link.sock
<1>1. link \in Link /\ (sock # None => sock \in Socket) /\ link.state \in States /\ link.pending \in BOOLEAN
  BY DEF Linked, Link, States
<1>2. CASE UNCHANGED link
  BY <1>2, KeptSame
<1>3. CASE link' = Finished("retrying") \/ link' = Finished("disconnected") \/ link' = Dropped(TRUE)
  BY <1>3, LettingGo DEF States
<1>4. CASE OnOpen(s) /\ Current(s)
  <2> DEFINE k == [sock EXCEPT !.open = TRUE]
  <2>1. link' = [link EXCEPT !.sock.open = TRUE] /\ sock # None
    BY <1>4 DEF OnOpen, Current
  <2>2. k \in Socket /\ k.kind = sock.kind /\ k.awaiting = sock.awaiting /\ k.authed = sock.authed /\ k.session = sock.session
    BY <1>1, <2>1 DEF Socket
  <2>3. link' = [link EXCEPT !.sock = k]
    BY <1>1, <2>1 DEF Link
  <2> HIDE DEF k
  <2>4. k # None
    BY <2>2, PhoneAssumption
  <2>5. k.kind = "lan" => k.session = "none"
    BY <2>1, <2>2 DEF Linked
  <2>6. sock # None
    BY <2>1
  <2>7. Kept(link, [link EXCEPT !.sock = k])
    BY <2>2, <2>4, <2>5, <2>6, KeptRest
  <2>8. QED
    BY <2>3, <2>7
<1>5. CASE PeerReady(s) /\ Current(s)
  <2>1. sock # None /\ sock.kind = "relay"
    BY <1>5 DEF PeerReady, Current, Reports
  <2>2. CASE StartSession
    BY <2>1, <2>2, Starting
  <2>3. CASE link' = [link EXCEPT !.pending = TRUE]
    <3>1. link' = [link EXCEPT !.sock = sock, !.pending = TRUE, !.state = link.state]
      BY <1>1, <2>3 DEF Link
    <3>2. QED
      BY <1>1, <2>1, <3>1, KeptSocket
  <2>4. QED
    BY <1>5, <2>2, <2>3 DEF PeerReady
<1>6. CASE PeerUnavailable(s) /\ Current(s)
  <2> DEFINE k == [sock EXCEPT !.session = "none", !.authed = FALSE]
             st == IF link.state = "connected" THEN "retrying" ELSE link.state
  <2>1. sock # None /\ sock.kind = "relay"
    BY <1>6 DEF PeerUnavailable, Current, Reports
  <2>2. link' = [link EXCEPT !.pending = FALSE, !.sock.session = "none", !.sock.authed = FALSE,
                             !.state = IF @ = "connected" THEN "retrying" ELSE @]
    BY <1>6 DEF PeerUnavailable
  <2>3. k \in Socket /\ k.kind = "relay" /\ k.awaiting = sock.awaiting
    BY <1>1, <2>1 DEF Socket
  <2>4. link' = [link EXCEPT !.sock = k, !.pending = FALSE, !.state = st]
    BY <1>1, <2>1, <2>2 DEF Link, Socket
  <2>5. st \in States /\ st # "connected"
    BY <1>1 DEF States
  <2> HIDE DEF k, st
  <2>6. QED
    BY <1>1, <2>1, <2>3, <2>4, <2>5, KeptSocket
<1>7. CASE Handshaken(s) /\ Current(s)
  <2> DEFINE k == [sock EXCEPT !.session = "ready"]
  <2>1. link' = [link EXCEPT !.sock.session = "ready"] /\ sock # None /\ sock.kind = "relay"
    BY <1>7 DEF Handshaken, Current, Reports
  <2>2. k \in Socket /\ k.kind = sock.kind /\ k.awaiting = sock.awaiting /\ k.authed = sock.authed
    BY <1>1, <2>1 DEF Socket
  <2>3. link' = [link EXCEPT !.sock = k]
    BY <1>1, <2>1 DEF Link
  <2> HIDE DEF k
  <2>4. k # None
    BY <2>2, PhoneAssumption
  <2>5. k.kind = "lan" => k.session = "none"
    BY <2>1, <2>2 DEF Linked
  <2>6. sock # None
    BY <2>1
  <2>7. Kept(link, [link EXCEPT !.sock = k])
    BY <2>2, <2>4, <2>5, <2>6, KeptRest
  <2>8. QED
    BY <2>3, <2>7
<1>8. CASE \E unknown \in BOOLEAN : AuthFailed(s, unknown) /\ Current(s)
  <2>1. CASE link' = [link EXCEPT !.state = "retrying", !.pending = FALSE, !.sock.session = "none"]
    <3> DEFINE k == [sock EXCEPT !.session = "none"]
    <3>1. sock # None
      BY <1>8 DEF Current
    <3>2. k \in Socket /\ k.kind = sock.kind /\ k.awaiting = sock.awaiting /\ k.session = "none"
      BY <1>1, <3>1 DEF Socket
    <3>3. link' = [link EXCEPT !.sock = k, !.pending = FALSE, !.state = "retrying"]
      BY <1>1, <2>1, <3>1 DEF Link
    <3> HIDE DEF k
    <3>4. QED
      BY <1>1, <3>1, <3>2, <3>3, KeptSocket DEF States
  <2>2. QED
    BY <1>3, <1>8, <2>1 DEF AuthFailed
<1>9. ASSUME UNCHANGED link \/ link' = Finished("retrying") \/ link' = Finished("disconnected") \/ link' = Dropped(TRUE)
      PROVE  Kept(link, link')
  BY <1>9, KeptSame, LettingGo DEF States
<1>10. CASE ~AuthOk(s)
  <2>1. CASE ~Current(s)
    <3>1. UNCHANGED link
      BY <1>10, <2>1 DEF Callback, OnOpen, PeerReady, PeerUnavailable, Handshaken, BadFrame, Unpair, Requested,
                         SocketEnds, AuthFailed, Late
    <3>2. QED
      BY <1>2, <3>1
  <2>2. CASE Current(s)
    <3>1. ASSUME BadFrame(s) \/ Unpair(s) \/ Requested(s) \/ SocketEnds(s) PROVE Kept(link, link')
      BY <1>9, <2>2, <3>1 DEF BadFrame, Unpair, Requested, SocketEnds
    <3>2. QED
      BY <1>4, <1>5, <1>6, <1>7, <1>8, <1>10, <2>2, <3>1 DEF Callback
  <2>3. QED
    BY <2>1, <2>2
<1>11. QED
  BY <1>10

\* The PC accepts the phone over the current socket.
LEMMA AuthOkAccepts ==
  ASSUME Linked(link), NEW s, AuthOk(s), Current(s)
  PROVE  Linked(link)' /\ link'.state = "connected" /\ link'.sock.authed
<1> DEFINE k == [link.sock EXCEPT !.authed = TRUE]
<1>1. link \in Link /\ link.sock \in Socket /\ s = dials
  BY DEF Current, Linked, Link
<1>2. link' = [link EXCEPT !.sock = k, !.state = "connected"]
  <2>1. link' = [link EXCEPT !.state = "connected", !.sock.authed = (s = dials)] /\ (s = dials) = TRUE
    BY <1>1 DEF AuthOk, Current
  <2>2. QED
    BY <1>1, <2>1 DEF Link
<1>3. k \in Socket /\ k.authed /\ k.kind = link.sock.kind /\ k.session = link.sock.session
  BY <1>1 DEF Socket
<1> HIDE DEF k
<1>4. link' \in Link /\ link'.sock = k /\ link'.state = "connected" /\ link'.pending = link.pending
  BY <1>1, <1>2, <1>3 DEF Link
<1>5. /\ link.pending => link.sock.kind = "relay"
      /\ link.sock.kind = "lan" => link.sock.session = "none"
  BY DEF Linked, Current
<1>6. k # None
  BY <1>3, PhoneAssumption
<1>7. QED
  BY <1>3, <1>4, <1>5, <1>6 DEF Linked

\* A new socket, made while no manual disconnect is remembered or to wait for the user's word.
LEMMA ConnectMakes ==
  ASSUME CountsTyped, NEW kind \in {"lan", "relay"}, NEW approval \in BOOLEAN, NEW awaiting \in BOOLEAN,
         Connect(kind, approval, awaiting)
  PROVE  /\ dials' \in 0..MaxDials
         /\ \/ link' = link
            \/ /\ ~manual \/ awaiting
               /\ Linked(link)' /\ link'.state = "connecting" /\ (link'.sock.awaiting <=> awaiting)
<1>1. CASE UNCHANGED <<link, dials>>
  BY <1>1 DEF CountsTyped
<1>2. CASE ~UNCHANGED <<link, dials>>
  <2> DEFINE k == [kind |-> kind, approval |-> approval, awaiting |-> awaiting,
                   open |-> FALSE, session |-> "none", authed |-> FALSE]
  <2>1. /\ ~manual \/ awaiting
        /\ link' = [state |-> "connecting", pending |-> FALSE, sock |-> k]
    BY <1>2 DEF Connect
  <2>2. dials' \in 0..MaxDials
    BY <1>2, PhoneAssumption DEF Connect, CountsTyped
  <2>3. k \in Socket /\ k.session = "none" /\ (k.awaiting <=> awaiting)
    BY DEF Socket
  <2> HIDE DEF k
  <2>4. link' \in Link /\ link'.pending = FALSE /\ link'.sock = k /\ link'.state = "connecting"
    BY <2>1, <2>3 DEF Link
  <2>5. QED
    BY <2>1, <2>2, <2>3, <2>4 DEF Linked
<1>3. QED
  BY <1>1, <1>2

-----------------------------------------------------------------------------
(* Types. *)

Stages == {"idle", "await", "join", "dial", "lan", "lanwait", "relay", "relaywait", "send", "transmit"}

LEMMA Rested ==
  ASSUME NEW pc \in Stages, NEW b \in BOOLEAN
  PROVE  /\ Resting \in Task /\ Resting.pc = "idle"
         /\ [Resting EXCEPT !.pc = pc] \in Task /\ [Resting EXCEPT !.pc = pc].pc = pc
         /\ [Resting EXCEPT !.pc = pc, !.sending = b] \in Task /\ [Resting EXCEPT !.pc = pc, !.sending = b].pc = pc
<1>1. Resting \in Task
  <2>1. 0 \in 0..2
    OBVIOUS
  <2>2. QED
    BY <2>1 DEF Resting, Task
<1>2. Resting.pc = "idle"
  BY DEF Resting
<1>3. \A k \in Task : [k EXCEPT !.pc = pc] \in Task /\ [k EXCEPT !.pc = pc].pc = pc
  BY DEF Task, Stages
<1>4. \A k \in Task : [k EXCEPT !.pc = pc, !.sending = b] \in Task /\ [k EXCEPT !.pc = pc, !.sending = b].pc = pc
  BY DEF Task, Stages
<1>5. QED
  BY <1>1, <1>2, <1>3, <1>4

LEMMA Retried ==
  ASSUME NEW k \in Task
  PROVE  [k EXCEPT !.pc = "dial", !.tries = 1] \in Task /\ [k EXCEPT !.pc = "dial", !.tries = 1].pc = "dial"
<1>1. 1 \in 0..2
  OBVIOUS
<1>2. QED
  BY <1>1 DEF Task

LEMMA TaskMoves ==
  ASSUME TasksTyped, NEW t \in Tasks, NEW r \in Task, task' = [task EXCEPT ![t] = r],
         r.pc \in Dialing <=> holder' = t, holder' \in Tasks \union {None},
         \A u \in Tasks \ {t} : holder' = u <=> holder = u
  PROVE  TasksTyped'
<1>1. task' \in [Tasks -> Task] /\ task'[t] = r /\ \A u \in Tasks \ {t} : task'[u] = task[u]
  BY DEF TasksTyped
<1>2. QED
  BY <1>1 DEF TasksTyped

\* A task that holds no lock before or after, or the same.
LEMMA GotoTyped ==
  ASSUME TasksTyped, NEW t \in Tasks, NEW pc, pc \in Dialing \union {"idle", "await", "dial", "send", "transmit"},
         Goto(t, pc),
         \/ holder' = holder /\ (pc \in Dialing <=> task[t].pc \in Dialing)
         \/ holder = None /\ holder' = t /\ pc \in Dialing
         \/ holder = t /\ holder' = None /\ pc \notin Dialing
  PROVE  TasksTyped'
<1> DEFINE r == [task[t] EXCEPT !.pc = pc]
<1>1. task[t] \in Task /\ holder \in Tasks \union {None} /\ (task[t].pc \in Dialing <=> holder = t)
  BY DEF TasksTyped
<1>2. r \in Task /\ r.pc = pc
  BY <1>1 DEF Task, Dialing
<1>3. task' = [task EXCEPT ![t] = r]
  BY DEF Goto
<1>4. holder' \in Tasks \union {None} /\ (pc \in Dialing <=> holder' = t) /\ (\A u \in Tasks \ {t} : holder' = u <=> holder = u)
  BY <1>1, PhoneAssumption
<1> HIDE DEF r
<1>5. QED
  BY <1>2, <1>3, <1>4, TaskMoves

LEMMA ReturnedTyped ==
  ASSUME TasksTyped, NEW t \in Tasks, NEW b \in BOOLEAN, Returned(t, b), holder \in {t, None}
  PROVE  TasksTyped'
<1> DEFINE r == IF task[t].sending THEN [task[t] EXCEPT !.pc = "transmit", !.automatic = FALSE]
                ELSE [Resting EXCEPT !.pc = IF b THEN "send" ELSE "idle"]
<1>1. r \in Task /\ r.pc \notin Dialing
  <2>1. task[t] \in Task
    BY DEF TasksTyped
  <2>2. CASE task[t].sending
    <3>1. r = [task[t] EXCEPT !.pc = "transmit", !.automatic = FALSE]
      BY <2>2
    <3>2. QED
      BY <2>1, <3>1 DEF Task, Dialing
  <2>3. CASE ~task[t].sending
    <3>1. r = [Resting EXCEPT !.pc = IF b THEN "send" ELSE "idle"]
      BY <2>3
    <3>2. QED
      BY <3>1, Rested DEF Stages, Dialing
  <2>4. QED
    BY <2>2, <2>3
<1>2. task' = [task EXCEPT ![t] = r] /\ holder' = None
  BY DEF Returned
<1> HIDE DEF r
<1>3. t # None /\ \A u \in Tasks \ {t} : (holder' = u <=> holder = u)
  BY <1>2, PhoneAssumption
<1>4. QED
  BY <1>1, <1>2, <1>3, TaskMoves

LEMMA TasksStepTyped ==
  ASSUME TypeOK, Next
  PROVE  TasksTyped'
<1>1. TasksTyped /\ {auto, consent} \subseteq BOOLEAN
  BY DEF TypeOK, FlagsTyped
<1>2. CASE UNCHANGED <<task, holder>>
  BY <1>1, <1>2 DEF TasksTyped
<1>3. CASE Restart
  BY <1>3, PhoneAssumption DEF Restart, TasksTyped, Task, Resting, Dialing
<1>4. CASE Tick
  <2>1. PICK pc \in {"await", "send", "dial"} : Goto("supervisor", pc)
    BY <1>4 DEF Tick
  <2>2. holder' = holder /\ task["supervisor"].pc = "idle" /\ "supervisor" \in Tasks /\ pc \notin Dialing
    BY <1>4 DEF Tick, Tasks, Dialing
  <2>3. QED
    BY <1>1, <2>1, <2>2, GotoTyped DEF Dialing
<1>5. CASE Notify
  <2>1. Goto("sender", "send") /\ holder' = holder /\ task["sender"].pc = "idle" /\ "sender" \in Tasks
    BY <1>5 DEF Notify, Tasks
  <2>2. QED
    BY <1>1, <2>1, GotoTyped DEF Dialing
<1>6. ASSUME NEW t \in Tasks, Run(t) PROVE TasksTyped'
  <2>1. task[t] \in Task /\ (task[t].pc \in Dialing <=> holder = t) /\ holder \in Tasks \union {None}
    BY <1>1 DEF TasksTyped
  <2>2. CASE Await(t)
    BY <1>1, <2>2, GotoTyped DEF Await, Dialing
  <2>3. CASE Join(t)
    BY <1>1, <2>1, <2>3, GotoTyped DEF Join, Dialing
  <2>4. CASE Dial(t)
    <3>1. CASE Returned(t, TRUE)
      BY <1>1, <2>4, <3>1, ReturnedTyped DEF Dial
    <3>2. CASE ~Returned(t, TRUE)
      <4>1. PICK pc \in {"relay", "lan"} : task' = [task EXCEPT ![t].pc = pc, ![t].automatic = auto \/ consent]
        BY <2>4, <3>2 DEF Dial
      <4> DEFINE r == [task[t] EXCEPT !.pc = pc, !.automatic = auto \/ consent]
      <4>2. r \in Task /\ r.pc \in Dialing
        BY <1>1, <2>1 DEF Task, Dialing
      <4>3. task' = [task EXCEPT ![t] = r] /\ holder' = t /\ holder = None
        BY <2>4, <3>2, <4>1 DEF Dial
      <4> HIDE DEF r
      <4>4. \A u \in Tasks \ {t} : (holder' = u <=> holder = u)
        BY <4>3, PhoneAssumption
      <4>5. QED
        BY <1>1, <4>2, <4>3, <4>4, TaskMoves
    <3>3. QED
      BY <3>1, <3>2
  <2>5. CASE DialEndpoint(t)
    BY <1>1, <2>1, <2>5, GotoTyped, ReturnedTyped DEF DialEndpoint, Dialing
  <2>6. CASE EndpointWaited(t)
    BY <1>1, <2>1, <2>6, GotoTyped, ReturnedTyped DEF EndpointWaited, Dialing
  <2>7. CASE DialRelay(t)
    BY <1>1, <2>1, <2>7, GotoTyped, ReturnedTyped DEF DialRelay, Dialing
  <2>8. CASE RelayWaited(t)
    <3>1. (link.state = "connected") \in BOOLEAN
      OBVIOUS
    <3>2. QED
      BY <1>1, <2>1, <2>8, <3>1, ReturnedTyped DEF RelayWaited, Dialing
  <2>9. ASSUME NEW r \in Task, r.pc \notin Dialing, task[t].pc \notin Dialing, task' = [task EXCEPT ![t] = r],
               holder' = holder
        PROVE  TasksTyped'
    BY <1>1, <2>1, <2>9, TaskMoves
  <2>10. Resting \in Task /\ Resting.pc = "idle"
    BY DEF Resting, Task
  <2>11. CASE Send(t)
    <3>1. \E pc \in {"transmit", "dial"} :
            \/ task' = [task EXCEPT ![t] = Resting]
            \/ task' = [task EXCEPT ![t] = [Resting EXCEPT !.pc = pc, !.sending = TRUE]]
      BY <2>11 DEF Send
    <3>2. \A pc \in {"transmit", "dial"} : [Resting EXCEPT !.pc = pc, !.sending = TRUE] \in Task
                                           /\ [Resting EXCEPT !.pc = pc, !.sending = TRUE].pc = pc
      <4>1. TRUE \in BOOLEAN /\ \A pc \in {"transmit", "dial"} : pc \in Stages
        BY DEF Stages
      <4>2. QED
        BY <4>1, Rested
    <3>3. task[t].pc = "send" /\ holder' = holder
      BY <2>11 DEF Send
    <3>4. QED
      BY <2>9, <2>10, <3>1, <3>2, <3>3 DEF Dialing
  <2>12. CASE Transmit(t)
    <3>1. \/ task' = [task EXCEPT ![t] = Resting]
          \/ task' = [task EXCEPT ![t] = [task[t] EXCEPT !.pc = "dial", !.tries = 1]]
      BY <2>12 DEF Transmit
    <3>2. [task[t] EXCEPT !.pc = "dial", !.tries = 1] \in Task
          /\ [task[t] EXCEPT !.pc = "dial", !.tries = 1].pc = "dial"
      BY <2>1, Retried
    <3>3. task[t].pc = "transmit" /\ holder' = holder
      BY <2>12 DEF Transmit
    <3>4. QED
      BY <2>9, <2>10, <3>1, <3>2, <3>3 DEF Dialing
  <2>13. QED
    BY <1>6, <2>2, <2>3, <2>4, <2>5, <2>6, <2>7, <2>8, <2>11, <2>12 DEF Run
<1>7. ASSUME NEW s, Callback(s) PROVE TasksTyped'
  <2>1. UNCHANGED <<task, holder>>
    BY <1>7 DEF Callback, OnOpen, PeerReady, PeerUnavailable, Handshaken, BadFrame, AuthOk, AuthFailed, Unpair,
                Requested, SocketEnds, Calmly
  <2>2. QED
    BY <1>2, <2>1
<1>8. CASE HeartbeatLost \/ SessionDiscarded \/ ManualDisconnect \/ Accept \/ Scan \/ Dismiss
           \/ (\E on \in BOOLEAN : SetAuto(on)) \/ Persist
  BY <1>2, <1>8 DEF HeartbeatLost, SessionDiscarded, ManualDisconnect, Accept, Scan, Dismiss, SetAuto, Persist, Calmly
<1>9. QED
  BY <1>3, <1>4, <1>5, <1>6, <1>7, <1>8 DEF Next

\* What a step makes of the connection.
LEMMA LinkSteps ==
  ASSUME TypeOK, Next
  PROVE  \/ Kept(link, link')
         \/ \E s \in 1..MaxDials : AuthOk(s) /\ Current(s)
         \/ Linked(link)' /\ link'.state = "connecting" /\ link'.sock.awaiting
         \/ /\ Linked(link)' /\ link'.state = "connecting"
            /\ ~manual /\ \E t \in Tasks : (DialEndpoint(t) /\ ~IsManuallyDisconnected) \/ DialRelay(t)
<1> DEFINE Goal == \/ Kept(link, link')
                   \/ \E s \in 1..MaxDials : AuthOk(s) /\ Current(s)
                   \/ Linked(link)' /\ link'.state = "connecting" /\ link'.sock.awaiting
                   \/ /\ Linked(link)' /\ link'.state = "connecting"
                      /\ ~manual /\ \E t \in Tasks : (DialEndpoint(t) /\ ~IsManuallyDisconnected) \/ DialRelay(t)
<1>1. Linked(link) /\ CountsTyped /\ TasksTyped /\ FlagsTyped
  BY DEF TypeOK
<1>2. ASSUME UNCHANGED link PROVE Goal
  BY <1>1, <1>2, KeptSame
<1>3. ASSUME NEW shown, shown = TRUE, link' = Dropped(shown) PROVE Goal
  BY <1>1, <1>3, LettingGo
<1>4. ASSUME NEW s \in 1..MaxDials, Callback(s) PROVE Goal
  <2>1. CASE AuthOk(s) /\ ~Current(s)
    BY <1>2, <2>1 DEF AuthOk, Late
  <2>2. QED
    BY <1>1, <1>4, <2>1, CallbackKeeps
<1>5. CASE HeartbeatLost
  BY <1>1, <1>5, LettingGo DEF HeartbeatLost, States
<1>6. CASE SessionDiscarded
  <2> DEFINE k == [link.sock EXCEPT !.session = "none"]
  <2>1. link.sock # None /\ link.sock \in Socket /\ link \in Link /\ link' = [link EXCEPT !.sock.session = "none"]
    BY <1>1, <1>6 DEF SessionDiscarded, IsConnected, Linked, Link
  <2>2. /\ k \in Socket /\ k.kind = link.sock.kind /\ k.awaiting = link.sock.awaiting /\ k.authed = link.sock.authed
        /\ k.session = "none"
    BY <2>1 DEF Socket
  <2>3. link' = [link EXCEPT !.sock = k]
    BY <2>1 DEF Link
  <2> HIDE DEF k
  <2>4. k # None /\ link.sock # None
    BY <2>1, <2>2, PhoneAssumption
  <2>5. Kept(link, [link EXCEPT !.sock = k])
    BY <1>1, <2>2, <2>4, KeptRest
  <2>6. QED
    BY <2>3, <2>5
<1>7. CASE ManualDisconnect
  BY <1>3, <1>7 DEF ManualDisconnect
<1>8. CASE Accept \/ Scan
  <2>1. CASE link.pending
    <3>1. link.sock # None /\ link.sock.kind = "relay"
      BY <1>1, <2>1 DEF Linked
    <3>2. StartSession
      BY <1>8, <2>1 DEF Accept, Scan, Accepted
    <3>3. QED
      BY <1>1, <3>1, <3>2, Starting
  <2>2. QED
    BY <1>2, <1>8, <2>1 DEF Accept, Scan, Accepted
<1>9. CASE Dismiss \/ (\E on \in BOOLEAN : SetAuto(on)) \/ Persist \/ Tick \/ Notify
  BY <1>2, <1>9 DEF Dismiss, SetAuto, Persist, Tick, Notify
<1>10. CASE Restart
  <2>1. link' = Unlinked
    BY <1>10 DEF Restart
  <2>2. Linked(Unlinked) /\ Unlinked.sock = None /\ Unlinked.state = "disconnected"
    BY DEF Unlinked, Linked, Link
  <2>3. Kept(link, Unlinked)
    BY <2>2 DEF Kept
  <2>4. QED
    BY <2>1, <2>3
<1>11. ASSUME NEW t \in Tasks, Run(t) PROVE Goal
  <2>1. CASE Await(t) \/ Dial(t) \/ EndpointWaited(t) \/ Send(t)
    BY <1>2, <2>1 DEF Await, Dial, EndpointWaited, Send
  <2>2. CASE Join(t)
    <3>1. Connect("relay", ~auto, TRUE) /\ (~auto) \in BOOLEAN /\ TRUE \in BOOLEAN
      BY <2>2 DEF Join
    <3>2. \/ link' = link
          \/ Linked(link)' /\ link'.state = "connecting" /\ (link'.sock.awaiting <=> TRUE)
      BY <1>1, <3>1, ConnectMakes
    <3>3. QED
      BY <1>2, <3>2
  <2>3. CASE DialEndpoint(t)
    <3>1. CASE ~IsManuallyDisconnected /\ Connect("lan", FALSE, FALSE)
      <4>1. FALSE \in BOOLEAN
        OBVIOUS
      <4>2. \/ link' = link
            \/ Linked(link)' /\ link'.state = "connecting"
        BY <1>1, <3>1, <4>1, ConnectMakes
      <4>3. ~manual
        BY <3>1 DEF IsManuallyDisconnected
      <4>4. QED
        BY <1>2, <2>3, <3>1, <4>2, <4>3
    <3>2. QED
      BY <1>2, <2>3, <3>1 DEF DialEndpoint
  <2>4. CASE DialRelay(t)
    <3>1. CASE Connect("relay", ~task[t].automatic, FALSE)
      <4>1. FALSE \in BOOLEAN /\ (~task[t].automatic) \in BOOLEAN
        OBVIOUS
      <4>2. \/ link' = link
            \/ (~manual \/ FALSE) /\ Linked(link)' /\ link'.state = "connecting"
        BY <1>1, <3>1, <4>1, ConnectMakes
      <4>3. QED
        BY <1>2, <2>4, <4>2
    <3>2. QED
      BY <1>3, <2>4, <3>1 DEF DialRelay
  <2>5. CASE RelayWaited(t)
    BY <1>2, <1>3, <2>5 DEF RelayWaited
  <2>6. CASE Transmit(t)
    BY <1>2, <1>3, <2>6 DEF Transmit
  <2>7. QED
    BY <1>11, <2>1, <2>2, <2>3, <2>4, <2>5, <2>6 DEF Run
<1>12. QED
  BY <1>4, <1>5, <1>6, <1>7, <1>8, <1>9, <1>10, <1>11 DEF Next

LEMMA InitTyped == Init => TypeOK
<1> SUFFICES ASSUME Init PROVE TypeOK
  OBVIOUS
<1>1. Linked(link)
  BY DEF Init, Unlinked, Linked, Link
<1>2. TRUE \in BOOLEAN /\ FALSE \in BOOLEAN /\ <<>> \in Seq(BOOLEAN)
  OBVIOUS
<1>3. FlagsTyped /\ CountsTyped
  <2>1. FlagsTyped
    BY <1>2 DEF Init, FlagsTyped
  <2>2. CountsTyped
    BY <1>2, PhoneAssumption DEF Init, CountsTyped
  <2>3. QED
    BY <2>1, <2>2
<1>4. TasksTyped
  BY Rested, <1>2, PhoneAssumption DEF Init, TasksTyped, Dialing, Stages
<1>5. QED
  BY <1>1, <1>3, <1>4 DEF TypeOK

LEMMA FlagsStepTyped ==
  ASSUME TypeOK, Next
  PROVE  FlagsTyped'
<1>1. FlagsTyped /\ writes \in Seq(BOOLEAN)
  BY DEF TypeOK, CountsTyped
<1>2. CASE UNCHANGED <<flags, disconnected, auto, letGo>>
  BY <1>1, <1>2 DEF FlagsTyped, flags
<1>3. ASSUME NEW s, Callback(s) PROVE FlagsTyped'
  BY <1>1, <1>3 DEF Callback, OnOpen, PeerReady, PeerUnavailable, Handshaken, BadFrame, AuthOk, AuthFailed, Unpair,
                Requested, SocketEnds, Calmly, Late, SetManual, FlagsTyped, flags
<1>4. CASE ManualDisconnect \/ Accept \/ Scan \/ Dismiss \/ (\E on \in BOOLEAN : SetAuto(on)) \/ Restart
  BY <1>1, <1>4 DEF ManualDisconnect, Accept, Scan, Accepted, Dismiss, SetAuto, Restart, SetManual, disk, FlagsTyped, flags
<1>5. CASE Persist
  <2>1. Head(writes) \in BOOLEAN
    BY <1>1, <1>5 DEF Persist
  <2>2. QED
    BY <1>1, <1>5, <2>1 DEF Persist, FlagsTyped, flags
<1>6. CASE HeartbeatLost \/ SessionDiscarded \/ Tick \/ Notify
  BY <1>2, <1>6 DEF HeartbeatLost, SessionDiscarded, Tick, Notify, Calmly, disk
<1>7. ASSUME NEW t \in Tasks, Run(t) PROVE FlagsTyped'
  BY <1>2, <1>7 DEF Run, Await, Join, Dial, DialEndpoint, EndpointWaited, DialRelay, RelayWaited, Send, Transmit, disk
<1>8. QED
  BY <1>3, <1>4, <1>5, <1>6, <1>7 DEF Next

LEMMA CountsStepTyped ==
  ASSUME TypeOK, Next
  PROVE  CountsTyped'
<1>1. CountsTyped /\ acts \in Nat /\ MaxActs \in Nat /\ (TRUE \in BOOLEAN /\ FALSE \in BOOLEAN /\ <<>> \in Seq(BOOLEAN))
  BY PhoneAssumption DEF TypeOK, CountsTyped
<1>2. CASE UNCHANGED <<dials, acts, writes>>
  BY <1>1, <1>2 DEF CountsTyped
<1>3. ASSUME NEW b \in BOOLEAN, SetManual(b) PROVE writes' \in Seq(BOOLEAN)
  BY <1>1, <1>3 DEF SetManual, CountsTyped
<1>4. ASSUME Act PROVE acts' \in 0..MaxActs
  BY <1>1, <1>4 DEF Act
<1>5. ASSUME NEW s, Callback(s) PROVE CountsTyped'
  <2>1. UNCHANGED <<dials, acts>>
    BY <1>5 DEF Callback, OnOpen, PeerReady, PeerUnavailable, Handshaken, BadFrame, AuthOk, AuthFailed, Unpair,
                Requested, SocketEnds, Calmly
  <2>2. UNCHANGED writes \/ SetManual(TRUE) \/ SetManual(FALSE)
    BY <1>5 DEF Callback, OnOpen, PeerReady, PeerUnavailable, Handshaken, BadFrame, AuthOk, AuthFailed, Unpair,
                Requested, SocketEnds, Late
  <2>3. QED
    BY <1>1, <1>3, <2>1, <2>2 DEF CountsTyped
<1>6. CASE ManualDisconnect \/ Accept \/ Scan
  <2>1. UNCHANGED dials /\ Act /\ (SetManual(TRUE) \/ SetManual(FALSE))
    BY <1>6 DEF ManualDisconnect, Accept, Scan, Accepted
  <2>2. QED
    BY <1>1, <1>3, <1>4, <2>1 DEF CountsTyped
<1>7. CASE Restart
  BY <1>1, <1>4, <1>7 DEF Restart, CountsTyped
<1>8. CASE Persist
  <2>1. Tail(writes) \in Seq(BOOLEAN)
    BY <1>1, <1>8 DEF Persist, CountsTyped
  <2>2. QED
    BY <1>1, <1>8, <2>1 DEF Persist, CountsTyped
<1>9. CASE \E on \in BOOLEAN : SetAuto(on)
  BY <1>1, <1>4, <1>9 DEF SetAuto, CountsTyped
<1>10. CASE HeartbeatLost \/ SessionDiscarded \/ Dismiss \/ Tick \/ Notify
  BY <1>2, <1>10 DEF HeartbeatLost, SessionDiscarded, Dismiss, Tick, Notify, Calmly, disk
<1>11. ASSUME NEW t \in Tasks, Run(t) PROVE CountsTyped'
  <2>1. UNCHANGED <<acts, writes>>
    BY <1>11 DEF Run, Await, Join, Dial, DialEndpoint, EndpointWaited, DialRelay, RelayWaited, Send, Transmit, disk
  <2>2. \/ UNCHANGED dials
        \/ \E kind \in {"lan", "relay"}, approval \in BOOLEAN, awaiting \in BOOLEAN : Connect(kind, approval, awaiting)
    <3>1. CASE Join(t)
      BY <1>1, <3>1 DEF Join
    <3>2. CASE DialEndpoint(t)
      BY <1>1, <3>2 DEF DialEndpoint
    <3>3. CASE DialRelay(t)
      BY <1>1, <3>3 DEF DialRelay
    <3>4. QED
      BY <1>11, <3>1, <3>2, <3>3 DEF Run, Await, Dial, EndpointWaited, RelayWaited, Send, Transmit
  <2>3. dials' \in 0..MaxDials
    BY <1>1, <2>2, ConnectMakes DEF CountsTyped
  <2>4. QED
    BY <1>1, <2>1, <2>3 DEF CountsTyped
<1>12. QED
  BY <1>5, <1>6, <1>7, <1>8, <1>9, <1>10, <1>11 DEF Next

LEMMA NextTyped == TypeOK /\ [Next]_phoneVars => TypeOK'
<1> SUFFICES ASSUME TypeOK, [Next]_phoneVars PROVE TypeOK'
  OBVIOUS
<1>1. CASE UNCHANGED phoneVars
  BY <1>1 DEF phoneVars, flags, disk, TypeOK, FlagsTyped, CountsTyped, TasksTyped
<1>2. CASE Next
  <2>1. Linked(link)'
    <3>1. ASSUME NEW s \in 1..MaxDials, AuthOk(s), Current(s) PROVE Linked(link)'
      BY <3>1, AuthOkAccepts DEF TypeOK
    <3>2. Kept(link, link') => Linked(link)'
      BY DEF Kept
    <3>3. QED
      BY <1>2, <3>1, <3>2, LinkSteps
  <2>2. QED
    BY <1>2, <2>1, FlagsStepTyped, CountsStepTyped, TasksStepTyped DEF TypeOK
<1>3. QED
  BY <1>1, <1>2

\* The connection, the coroutines and what is remembered are of their types: in particular
\* only the coroutine that holds connectMutex dials, and a peer that waits for the user's word
\* waits at a relay socket.
THEOREM TypeCorrect == Spec => []TypeOK
<1>1. QED
  BY InitTyped, NextTyped, PTL DEF Spec

-----------------------------------------------------------------------------
(* The PC has accepted the phone. *)

LEMMA StepAuthenticated == TypeOK /\ ConnectedIsAuthenticated /\ [Next]_phoneVars => ConnectedIsAuthenticated'
<1> SUFFICES ASSUME TypeOK, ConnectedIsAuthenticated, [Next]_phoneVars, IsConnected' PROVE link'.sock.authed
  BY DEF ConnectedIsAuthenticated
<1>1. link'.state = "connected" /\ link'.sock # None
  BY DEF IsConnected
<1>2. CASE Kept(link, link') \/ UNCHANGED phoneVars
  BY <1>1, <1>2 DEF Kept, ConnectedIsAuthenticated, IsConnected, phoneVars
<1>3. ASSUME NEW s \in 1..MaxDials, AuthOk(s), Current(s) PROVE link'.sock.authed
  BY <1>3, AuthOkAccepts DEF TypeOK
<1>4. QED
  BY <1>1, <1>2, <1>3, LinkSteps

\* Whatever an old socket still reports, whichever coroutine's wait ends late: while the phone
\* is shown connected, the PC has accepted it over the socket the connection has now.
THEOREM ConnectedMeansAccepted == Spec => []ConnectedIsAuthenticated
<1>1. Init => ConnectedIsAuthenticated
  BY DEF Init, Unlinked, ConnectedIsAuthenticated, IsConnected
<1>2. QED
  BY <1>1, StepAuthenticated, TypeCorrect, PTL DEF Spec

-----------------------------------------------------------------------------
(* A saved disconnect. *)

\* The last value on its way to the disk is the one in memory.
LatestMeant == writes # <<>> => (manual <=> writes[Len(writes)])

\* While a disconnect is remembered, a socket only waits to be asked.
OnlyAsked == manual /\ link.sock # None => link.sock.awaiting

\* A disconnect that holds is on disk, and nothing on its way there would undo it.
OnDisk == letGo => disconnected /\ \A n \in 1..Len(writes) : writes[n]

\* After a death of the process the disk alone holds it: nobody is connected, and no coroutine
\* has come further than what it does for a phone that waits.
Early == {"idle", "await", "join", "send"}
NobodyDials == letGo /\ ~manual => link.state # "connected" /\ \A t \in Tasks : task[t].pc \in Early

DisconnectKept == LatestMeant /\ OnlyAsked /\ OnDisk /\ NobodyDials /\ SavedDisconnectHolds

LEMMA InitKept == Init => DisconnectKept
  BY DEF Init, DisconnectKept, LatestMeant, OnlyAsked, OnDisk, NobodyDials, SavedDisconnectHolds, Unlinked

LEMMA AppendLast ==
  ASSUME NEW w \in Seq(BOOLEAN), NEW b \in BOOLEAN
  PROVE  /\ Append(w, b) # <<>> /\ (Append(w, b)[Len(Append(w, b))] = b)
         /\ \A n \in 1..Len(Append(w, b)) : (n \in 1..Len(w) /\ Append(w, b)[n] = w[n]) \/ Append(w, b)[n] = b
  OBVIOUS

LEMMA TailLast ==
  ASSUME NEW w \in Seq(BOOLEAN), w # <<>>
  PROVE  /\ Tail(w) # <<>> => Tail(w)[Len(Tail(w))] = w[Len(w)]
         /\ \A n \in 1..Len(Tail(w)) : n + 1 \in 1..Len(w) /\ Tail(w)[n] = w[n + 1]
  OBVIOUS

\* Coroutines that stop at what they do for a phone that waits.
LEMMA EarlyStays ==
  ASSUME TypeOK, Next, ~Restart, IsManuallyDisconnected, link.state # "connected",
         \A t \in Tasks : task[t].pc \in Early
  PROVE  \A t \in Tasks : task'[t].pc \in Early
<1>1. ~IsConnected /\ task \in [Tasks -> Task] /\ Resting.pc = "idle"
  BY DEF IsConnected, TypeOK, TasksTyped, Resting
<1>2. CASE UNCHANGED task
  BY <1>2
<1>3. ASSUME NEW t \in Tasks, NEW pc \in Early, Goto(t, pc) PROVE \A u \in Tasks : task'[u].pc \in Early
  <2>1. task' = [task EXCEPT ![t] = [task[t] EXCEPT !.pc = pc]] /\ [task[t] EXCEPT !.pc = pc].pc = pc
    BY <1>1, <1>3 DEF Goto, Task
  <2>2. QED
    BY <1>1, <2>1
<1>4. CASE Tick
  <2>1. Goto("supervisor", "await") /\ "supervisor" \in Tasks
    BY <1>1, <1>4 DEF Tick, Tasks
  <2>2. QED
    BY <1>3, <2>1 DEF Early
<1>5. CASE Notify
  <2>1. Goto("sender", "send") /\ "sender" \in Tasks
    BY <1>5 DEF Notify, Tasks
  <2>2. QED
    BY <1>3, <2>1 DEF Early
<1>6. ASSUME NEW t \in Tasks, Run(t) PROVE \A u \in Tasks : task'[u].pc \in Early
  <2>1. task[t].pc \in Early
    OBVIOUS
  <2>2. CASE Await(t)
    BY <1>3, <2>2 DEF Await, Early
  <2>3. CASE Join(t)
    BY <1>3, <2>3 DEF Join, Early
  <2>4. CASE Send(t)
    <3>1. task' = [task EXCEPT ![t] = Resting]
      BY <1>1, <2>4 DEF Send, HeldBack
    <3>2. QED
      BY <1>1, <3>1 DEF Early
  <2>5. QED
    BY <1>6, <2>1, <2>2, <2>3, <2>4 DEF Run, Early, Dial, DialEndpoint, EndpointWaited, DialRelay, RelayWaited, Transmit
<1>7. ASSUME NEW s, Callback(s) PROVE UNCHANGED task
  BY <1>7 DEF Callback, OnOpen, PeerReady, PeerUnavailable, Handshaken, BadFrame, AuthOk, AuthFailed, Unpair,
              Requested, SocketEnds, Calmly
<1>8. CASE HeartbeatLost \/ SessionDiscarded \/ ManualDisconnect \/ Accept \/ Scan \/ Dismiss
           \/ (\E on \in BOOLEAN : SetAuto(on)) \/ Persist
  BY <1>2, <1>8 DEF HeartbeatLost, SessionDiscarded, ManualDisconnect, Accept, Scan, Dismiss, SetAuto, Persist, Calmly
<1>9. QED
  BY <1>2, <1>4, <1>5, <1>6, <1>7, <1>8 DEF Next

\* A step that leaves the flag, its writes and the history alone.
LEMMA OtherStepsKeep ==
  ASSUME TypeOK, Next, DisconnectKept, UNCHANGED <<manual, writes, disconnected, letGo>>, ~Restart,
         ~\E s \in 1..MaxDials : AuthOk(s) /\ Current(s)
  PROVE  DisconnectKept'
<1>1. LatestMeant' /\ OnDisk'
  BY DEF DisconnectKept, LatestMeant, OnDisk
<1>2. letGo => IsManuallyDisconnected
  BY DEF DisconnectKept, OnDisk, IsManuallyDisconnected
<1>3. letGo /\ ~manual => \A t \in Tasks : ~DialRelay(t)
  BY DEF DisconnectKept, NobodyDials, Early, DialRelay
<1>4. \/ Kept(link, link')
      \/ link'.state = "connecting" /\ link'.sock.awaiting
      \/ link'.state = "connecting" /\ ~manual /\ ~letGo
  BY <1>2, <1>3, LinkSteps
<1>5. OnlyAsked' /\ SavedDisconnectHolds'
  BY <1>4 DEF DisconnectKept, OnlyAsked, SavedDisconnectHolds, Kept
<1>6. NobodyDials'
  <2> SUFFICES ASSUME letGo, ~manual PROVE link'.state # "connected" /\ \A t \in Tasks : task'[t].pc \in Early
    BY DEF NobodyDials
  <2>1. link.state # "connected" /\ \A t \in Tasks : task[t].pc \in Early
    BY DEF DisconnectKept, NobodyDials
  <2>2. QED
    BY <1>2, <1>4, <2>1, EarlyStays DEF Kept
<1>7. QED
  BY <1>1, <1>5, <1>6 DEF DisconnectKept

\* setManualDisconnect() of a value, in memory and towards the disk.
LEMMA SetManualKeeps ==
  ASSUME TypeOK, DisconnectKept, NEW b \in BOOLEAN, SetManual(b), UNCHANGED disconnected,
         letGo' => letGo /\ b
  PROVE  LatestMeant' /\ OnDisk'
<1>1. writes \in Seq(BOOLEAN) /\ writes' = Append(writes, b) /\ manual' = b
  BY DEF TypeOK, CountsTyped, SetManual
<1>2. LatestMeant'
  BY <1>1, AppendLast DEF LatestMeant
<1>3. ASSUME letGo' PROVE disconnected' /\ \A n \in 1..Len(writes') : writes'[n]
  <2>1. disconnected /\ (\A n \in 1..Len(writes) : writes[n]) /\ b
    BY <1>3 DEF DisconnectKept, OnDisk
  <2>2. ASSUME NEW n \in 1..Len(writes') PROVE writes'[n]
    <3>1. (n \in 1..Len(writes) /\ writes'[n] = writes[n]) \/ writes'[n] = b
      BY <1>1, AppendLast
    <3>2. QED
      BY <2>1, <3>1
  <2>3. QED
    BY <2>1, <2>2
<1>4. QED
  BY <1>2, <1>3 DEF OnDisk

LEMMA NextKept == TypeOK /\ DisconnectKept /\ [Next]_phoneVars => DisconnectKept'
<1> SUFFICES ASSUME TypeOK, DisconnectKept, [Next]_phoneVars PROVE DisconnectKept'
  OBVIOUS
<1>1. CASE UNCHANGED phoneVars
  BY <1>1 DEF phoneVars, flags, disk, DisconnectKept, LatestMeant, OnlyAsked, OnDisk, NobodyDials, SavedDisconnectHolds
<1>2. Linked(link) /\ writes \in Seq(BOOLEAN) /\ manual \in BOOLEAN
  BY DEF TypeOK, CountsTyped, FlagsTyped
\* The user or the PC lets the phone go.
<1>3. ASSUME SetManual(TRUE), link' = Dropped(TRUE), UNCHANGED <<disconnected, letGo>> PROVE DisconnectKept'
  <2>1. link'.sock = None
    BY <1>2, <1>3, LettingGo
  <2>2. manual'
    BY <1>3 DEF SetManual
  <2>3. LatestMeant' /\ OnDisk'
    BY <1>3, SetManualKeeps
  <2>4. QED
    BY <2>1, <2>2, <2>3 DEF DisconnectKept, OnlyAsked, NobodyDials, SavedDisconnectHolds
\* The user, or an accepted session, ends the disconnect.
<1>4. ASSUME SetManual(FALSE), ~letGo', UNCHANGED disconnected PROVE DisconnectKept'
  <2>1. ~manual'
    BY <1>4 DEF SetManual
  <2>2. LatestMeant' /\ OnDisk'
    BY <1>4, SetManualKeeps
  <2>3. QED
    BY <1>4, <2>1, <2>2 DEF DisconnectKept, OnlyAsked, NobodyDials, SavedDisconnectHolds
<1>5. ASSUME NEW s \in 1..MaxDials, AuthOk(s), Current(s) PROVE DisconnectKept'
  <2>1. ~letGo' /\ UNCHANGED disconnected
    BY <1>5 DEF AuthOk, Current, Calmly
  <2>2. CASE manual
    BY <1>4, <1>5, <2>1, <2>2 DEF AuthOk, Current
  <2>3. CASE ~manual
    <3>1. UNCHANGED <<manual, writes>>
      BY <1>5, <2>3 DEF AuthOk, Current
    <3>2. QED
      BY <2>1, <2>3, <3>1 DEF DisconnectKept, LatestMeant, OnlyAsked, OnDisk, NobodyDials, SavedDisconnectHolds
  <2>4. QED
    BY <2>2, <2>3
<1>6. CASE Accept \/ Scan
  <2>1. SetManual(FALSE) /\ ~letGo' /\ UNCHANGED disconnected
    BY <1>6 DEF Accept, Scan, Accepted
  <2>2. QED
    BY <1>4, <2>1
<1>7. CASE ManualDisconnect
  BY <1>3, <1>7 DEF ManualDisconnect
<1>8. CASE Persist
  <2>1. UNCHANGED <<manual, link, task>> /\ writes # <<>> /\ writes' = Tail(writes) /\ disconnected' = Head(writes)
        /\ (letGo' <=> (letGo \/ writes = <<TRUE>>))
    BY <1>8 DEF Persist, flags
  <2>2. LatestMeant'
    BY <1>2, <2>1, TailLast DEF DisconnectKept, LatestMeant
  <2>3. ASSUME letGo' PROVE disconnected' /\ \A n \in 1..Len(writes') : writes'[n]
    <3>1. \A n \in 1..Len(writes) : writes[n]
      <4>1. CASE letGo
        BY <4>1 DEF DisconnectKept, OnDisk
      <4>2. CASE writes = <<TRUE>>
        <5>1. Len(writes) = 1
          BY <4>2
        <5>2. writes[1] = TRUE
          BY <4>2
        <5>3. \A n \in 1..Len(writes) : n = 1
          BY <5>1
        <5>4. QED
          BY <5>2, <5>3
      <4>3. QED
        BY <2>1, <2>3, <4>1, <4>2
    <3>2. Head(writes) = writes[1] /\ 1 \in 1..Len(writes)
      BY <1>2, <2>1
    <3>3. QED
      BY <1>2, <2>1, <3>1, <3>2, TailLast
  <2>4. ASSUME letGo', ~letGo PROVE manual
    <3>1. writes = <<TRUE>>
      BY <2>1, <2>4
    <3>2. writes[Len(writes)] = TRUE
      BY <3>1
    <3>3. QED
      BY <2>1, <3>2 DEF DisconnectKept, LatestMeant
  <2>5. QED
    BY <2>1, <2>2, <2>3, <2>4 DEF DisconnectKept, OnlyAsked, OnDisk, NobodyDials, SavedDisconnectHolds
<1>9. CASE Restart
  <2>1. /\ ~manual' /\ writes' = <<>> /\ UNCHANGED <<disconnected, letGo>>
        /\ link' = Unlinked /\ task' = [t \in Tasks |-> Resting]
    BY <1>9 DEF Restart
  <2>2. link'.sock = None /\ link'.state = "disconnected" /\ \A t \in Tasks : task'[t].pc = "idle"
    BY <2>1 DEF Unlinked, Resting
  <2>3. OnDisk' /\ LatestMeant'
    BY <2>1 DEF DisconnectKept, OnDisk, LatestMeant
  <2>4. QED
    BY <2>2, <2>3, <2>1 DEF DisconnectKept, OnlyAsked, NobodyDials, SavedDisconnectHolds, Early
<1>10. ASSUME NEW s \in 1..MaxDials, s <= dials, Callback(s), ~(AuthOk(s) /\ Current(s)) PROVE DisconnectKept'
  <2>1. CASE Unpair(s) /\ Current(s)
    BY <1>3, <2>1 DEF Unpair, Calmly, Current
  <2>2. CASE ~(Unpair(s) /\ Current(s))
    <3>1. UNCHANGED <<manual, writes, disconnected, letGo>>
      BY <1>10, <2>2 DEF Callback, OnOpen, PeerReady, PeerUnavailable, Handshaken, BadFrame, AuthOk, AuthFailed, Unpair,
                    Requested, SocketEnds, Calmly, Late, flags
    <3>2. CASE \E r \in 1..MaxDials : AuthOk(r) /\ Current(r)
      BY <1>5, <3>2
    <3>3. CASE Restart
      BY <1>9, <3>3
    <3>4. Next
      BY <1>10 DEF Next
    <3>5. QED
      BY <3>1, <3>2, <3>3, <3>4, OtherStepsKeep
  <2>3. QED
    BY <2>1, <2>2
<1>11. ASSUME Next, HeartbeatLost \/ SessionDiscarded \/ Dismiss \/ (\E on \in BOOLEAN : SetAuto(on)) \/ Tick \/ Notify
              \/ \E t \in Tasks : Run(t)
       PROVE DisconnectKept'
  <2>1. UNCHANGED <<manual, writes, disconnected, letGo>>
    <3>1. CASE \E t \in Tasks : Run(t)
      BY <3>1 DEF Run, Await, Join, Dial, DialEndpoint, EndpointWaited, DialRelay, RelayWaited, Send, Transmit, flags, disk
    <3>2. QED
      BY <1>11, <3>1 DEF HeartbeatLost, SessionDiscarded, Dismiss, SetAuto, Tick, Notify, Calmly, flags, disk
  <2>2. QED
    BY <1>5, <1>9, <1>11, <2>1, OtherStepsKeep
<1>12. CASE Next
  <2>1. CASE \E s \in 1..MaxDials : s <= dials /\ Callback(s)
    BY <1>5, <1>10, <2>1
  <2>2. QED
    BY <1>6, <1>7, <1>8, <1>9, <1>11, <1>12, <2>1 DEF Next
<1>13. QED
  BY <1>1, <1>12

\* A disconnect that has reached the disk holds until the user, a scan or an accepted session
\* ends it: whatever coroutine was dialing when it was saved, and after any number of deaths of
\* the process, the phone has no socket but one that waits to be asked.
THEOREM SavedDisconnectsHold == Spec => []SavedDisconnectHolds
<1>1. DisconnectKept => SavedDisconnectHolds
  BY DEF DisconnectKept
<1>2. QED
  BY InitKept, NextKept, TypeCorrect, <1>1, PTL DEF Spec
=============================================================================
