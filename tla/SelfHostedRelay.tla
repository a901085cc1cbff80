---------------------------- MODULE SelfHostedRelay ----------------------------
(***************************************************************************)
(* The relay of the earlier design, one process that the owner hosts: its  *)
(* accounts (RelayAccounts), the session of each pair (relay.rs,           *)
(* session.rs) and the task that serves each WebSocket (ws_handler,        *)
(* main.rs).                                                               *)
(*                                                                         *)
(* A session is used under its mutex, so each method of RelayState is one  *)
(* step.  A task is a reader and a writer: what is routed to a socket is   *)
(* put into the channel of its writer, and counts as delivered then; the   *)
(* task notices that it was replaced at its next ownership check, and      *)
(* between its last read, detach() and the abort of its writer every other *)
(* task can run.  A channel whose writer has ended refuses what it is      *)
(* sent.                                                                   *)
(*                                                                         *)
(* attach() is handed the key the pair was registered with, under an       *)
(* identifier that is never reused, so its comparison with the session's   *)
(* key never fails, and the flush finds the channel it was just given      *)
(* open: both branches are left out.  Metrics are for display.             *)
(***************************************************************************)
EXTENDS RelayAccounts, Sequences, SequencesExt

CONSTANTS
  Pairs, Conns,
  MaxPending,    \* messages a session keeps for an absent desktop (100)
  PendingTTL,    \* how long it keeps one
  RateLimit,     \* messages a role may send per window
  Window,        \* the length of a window (a minute)
  MaxMessages,   \* bound: messages ever sent
  Horizon        \* bound: the clock

VARIABLES
  registered,    \* the pairs registered since the process started
  session,       \* the session of each pair, created by its first attach
  conn,          \* the task of each WebSocket, each used once
  out,           \* the channel of each task's writer
  got,           \* what the other end of each WebSocket has received
  sent,          \* the messages read so far; a message is its number
  clock

sessionVars == <<registered, session, conn, out, got, sent, clock>>
vars == <<accountVars, sessionVars>>

Roles == {"android", "desktop"}
Opposite(r) == IF r = "android" THEN "desktop" ELSE "android"

Message == 1..MaxMessages
Pending == [msg : Message, at : 0..Horizon]
Session == [tx : [Roles -> Conns \union {None}], pending : Seq(Pending),
            window : [Roles -> [at : 0..Horizon, count : 0..RateLimit]]]

\* "reading" in the select loop, "leaving" after it, "detached" before the writer's abort.
Task == [pc : {"idle", "reading", "leaving", "detached", "closed"},
         pair : Pairs \union {None}, role : Roles, writing : BOOLEAN]

ASSUME SelfHostedAssumption ==
  /\ None \notin Conns \union Pairs \union Session
  /\ {MaxPending, PendingTTL, MaxMessages, Horizon} \subseteq Nat
  /\ {RateLimit, Window} \subseteq Nat \ {0}

SessionsTyped ==
  /\ registered \subseteq Pairs
  /\ session \in [Pairs -> Session \union {None}]
  /\ \A p \in Pairs : session[p] # None =>
       Len(session[p].pending) <= MaxPending /\ p \in registered
TasksTyped ==
  /\ conn \in [Conns -> Task]
  /\ \A c \in Conns : conn[c].pc \notin {"idle", "closed"} =>
       conn[c].pair \in Pairs /\ session[conn[c].pair] # None
LinesTyped ==
  /\ out \in [Conns -> Seq(Message)] /\ got \in [Conns -> Seq(Message)]
  /\ \A c \in Conns : ~conn[c].writing => out[c] = <<>>
CountsTyped == sent \in 0..MaxMessages /\ clock \in 0..Horizon

TypeOK == AccountsTypeOK /\ SessionsTyped /\ TasksTyped /\ LinesTyped /\ CountsTyped

NewSession == [tx |-> [r \in Roles |-> None], pending |-> <<>>,
               window |-> [r \in Roles |-> [at |-> clock, count |-> 0]]]

Idle == [pc |-> "idle", pair |-> None, role |-> "android", writing |-> FALSE]

InitSessions ==
  /\ session = [p \in Pairs |-> None]
  /\ conn = [c \in Conns |-> Idle]
  /\ out = [c \in Conns |-> <<>>] /\ got = [c \in Conns |-> <<>>]
  /\ sent = 0 /\ clock = 0

Init == AccountsInit /\ InitSessions /\ registered = {}

-----------------------------------------------------------------------------
(* Attaching: register, ws_handler up to the spawn, RelayState::attach. *)

\* register: for whoever holds a session token.
Register(p) ==
  /\ Authenticated /\ p \notin registered
  /\ registered' = registered \union {p}
  /\ UNCHANGED <<accountVars, session, conn, out, got, sent, clock>>

From(pending, keep) == IF keep = {} THEN <<>> ELSE SubSeq(pending, Min(keep), Len(pending))

\* Mutant of Kept: a message expires a moment too early.
KeptBefore(pending) == From(pending, {i \in DOMAIN pending : clock - pending[i].at < PendingTTL})

\* expire_pending(): popped from the front, up to the first that is young enough.
Kept(pending) == From(pending, {i \in DOMAIN pending : clock - pending[i].at <= PendingTTL})

Flushed(pending) == [i \in 1..Len(Kept(pending)) |-> Kept(pending)[i].msg]

\* Mutant of Attach: the queue is sent, and kept.
AttachKeeping(c, p, r) ==
  LET before == IF session[p] = None THEN NewSession ELSE session[p]
  IN /\ session' = [session EXCEPT ![p] = [before EXCEPT !.tx[r] = c]]
     /\ out' = [out EXCEPT ![c] = IF r = "desktop" THEN Flushed(before.pending) ELSE <<>>]

Attach(c, p, r) ==
  LET before == IF session[p] = None THEN NewSession ELSE session[p]
      joined == [before EXCEPT !.tx[r] = c]
  IN /\ session' = [session EXCEPT ![p] =
                      IF r = "desktop" THEN [joined EXCEPT !.pending = <<>>] ELSE joined]
     /\ out' = [out EXCEPT ![c] = IF r = "desktop" THEN Flushed(before.pending) ELSE <<>>]

\* An unregistered pair or a wrong pairing key is answered with an error and changes nothing.
Accept(c, p, r) ==
  /\ conn[c].pc = "idle" /\ p \in registered
  /\ Attach(c, p, r)
  /\ conn' = [conn EXCEPT ![c] = [pc |-> "reading", pair |-> p, role |-> r, writing |-> TRUE]]
  /\ UNCHANGED <<registered, got, sent, clock>>

-----------------------------------------------------------------------------
(* Routing: a text frame read by the task of c, and RelayState::route_from. *)

Of(c) == session[conn[c].pair]

Owns(c) == Of(c).tx[conn[c].role] = c

Break(c) == conn' = [conn EXCEPT ![c].pc = "leaving"]

\* allow_message_at(): the window as it is after the reset that time calls for.
CurrentWindow(w) == IF clock - w.at >= Window THEN [at |-> clock, count |-> 0] ELSE w

\* The session after a message of role r was let through.
Charged(s, r) ==
  LET w == CurrentWindow(s.window[r]) IN [s EXCEPT !.window[r] = [w EXCEPT !.count = @ + 1]]

\* Mutant of Enqueue: the cap is compared after the message is in.
EnqueuePastCap(pending, m) ==
  LET kept == Kept(pending)
      room == IF Len(kept) > MaxPending THEN Tail(kept) ELSE kept
  IN Append(room, [msg |-> m, at |-> clock])

\* enqueue_pending(): at the cap the oldest makes room.
Enqueue(pending, m) ==
  IF MaxPending = 0 THEN <<>>
  ELSE LET kept == Kept(pending)
           room == IF Len(kept) >= MaxPending THEN Tail(kept) ELSE kept
       IN Append(room, [msg |-> m, at |-> clock])

\* A frame from a replaced task, or over the budget: the task ends.  The window is reset
\* before it is compared, also for a message that is refused.
Refuse(c) ==
  /\ conn[c].pc = "reading" /\ sent < MaxMessages
  /\ LET r == conn[c].role
         w == CurrentWindow(Of(c).window[r])
     IN \/ /\ ~Owns(c)
           /\ UNCHANGED session
        \/ /\ Owns(c) /\ w.count >= RateLimit
           /\ session' = [session EXCEPT ![conn[c].pair].window[r] = w]
  /\ sent' = sent + 1
  /\ Break(c)
  /\ UNCHANGED <<registered, out, got, clock>>

\* send_to_desktop() and send_to_android(): into the channel of the other role's writer, or,
\* when there is none or it has ended, into the queue for a desktop and nowhere for a phone.
\* An oversized message is dropped, after it was charged.
Route(c, oversized) ==
  LET p == conn[c].pair  r == conn[c].role  m == sent + 1
      to == Of(c).tx[Opposite(r)]
      charged == Charged(Of(c), r)
  IN /\ conn[c].pc = "reading" /\ sent < MaxMessages
     /\ Owns(c) /\ CurrentWindow(Of(c).window[r]).count < RateLimit
     /\ sent' = m
     /\ \/ oversized /\ session' = [session EXCEPT ![p] = charged] /\ UNCHANGED out
        \/ /\ ~oversized /\ to # None /\ conn[to].writing
           /\ out' = [out EXCEPT ![to] = Append(@, m)]
           /\ session' = [session EXCEPT ![p] = charged]
        \/ /\ ~oversized /\ (to # None => ~conn[to].writing)
           /\ session' = [session EXCEPT ![p] =
                [charged EXCEPT !.tx[Opposite(r)] = None,
                                !.pending = IF r = "android" THEN Enqueue(@, m) ELSE @]]
           /\ UNCHANGED out
     /\ UNCHANGED <<registered, conn, got, clock>>

-----------------------------------------------------------------------------
(* The writer of a task, and the end of the task. *)

\* The writer hands the head of its channel to the socket, and it arrives.
Write(c) ==
  /\ conn[c].writing /\ out[c] # <<>>
  /\ out' = [out EXCEPT ![c] = Tail(@)]
  /\ got' = [got EXCEPT ![c] = Append(@, Head(out[c]))]
  /\ UNCHANGED <<registered, session, conn, sent, clock>>

\* A write fails or takes ten seconds: the writer ends, and its channel with it.
WriteFails(c) ==
  /\ conn[c].writing /\ out[c] # <<>>
  /\ out' = [out EXCEPT ![c] = <<>>]
  /\ conn' = [conn EXCEPT ![c].writing = FALSE]
  /\ UNCHANGED <<registered, session, got, sent, clock>>

\* The reader sees the end of its writer.
SeeWriterEnd(c) ==
  /\ conn[c].pc = "reading" /\ ~conn[c].writing
  /\ Break(c)
  /\ UNCHANGED <<registered, session, out, got, sent, clock>>

\* ownership_check: another task has taken the place of this one.
CheckOwner(c) ==
  /\ conn[c].pc = "reading" /\ ~Owns(c)
  /\ Break(c)
  /\ UNCHANGED <<registered, session, out, got, sent, clock>>

\* The peer closes, a read or a ping fails, or the peer is silent for three pings.
Lose(c) ==
  /\ conn[c].pc = "reading"
  /\ Break(c)
  /\ UNCHANGED <<registered, session, out, got, sent, clock>>

\* RelayState::detach(): only the task that is attached.
Detach(c) ==
  /\ conn[c].pc = "leaving"
  /\ session' = IF Owns(c)
                THEN [session EXCEPT ![conn[c].pair].tx[conn[c].role] = None]
                ELSE session
  /\ conn' = [conn EXCEPT ![c].pc = "detached"]
  /\ UNCHANGED <<registered, out, got, sent, clock>>

\* writer.abort(): what is still in the channel is gone.
Abort(c) ==
  /\ conn[c].pc = "detached"
  /\ conn' = [conn EXCEPT ![c].pc = "closed", ![c].writing = FALSE]
  /\ out' = [out EXCEPT ![c] = <<>>]
  /\ UNCHANGED <<registered, session, got, sent, clock>>

-----------------------------------------------------------------------------

\* The process dies and starts again: the sessions, the queues and the registrations were in
\* memory, the accounts are on disk.
Restart ==
  /\ RestartAccounts
  /\ registered' = {}
  /\ session' = [p \in Pairs |-> None]
  /\ conn' = [c \in Conns |-> IF conn[c].pc = "idle" THEN Idle
                              ELSE [Idle EXCEPT !.pc = "closed"]]
  /\ out' = [c \in Conns |-> <<>>]
  /\ UNCHANGED <<got, sent, clock>>

Tick ==
  /\ clock < Horizon /\ clock' = clock + 1
  /\ UNCHANGED <<registered, session, conn, out, got, sent>>

Serve(c) ==
  \/ Refuse(c) \/ Write(c) \/ WriteFails(c) \/ Lose(c)
  \/ SeeWriterEnd(c) \/ CheckOwner(c) \/ Detach(c) \/ Abort(c)
  \/ \E oversized \in BOOLEAN : Route(c, oversized)
  \/ \E p \in Pairs, r \in Roles : Accept(c, p, r)

SessionsNext == Tick \/ \E c \in Conns : Serve(c)

Next ==
  \/ AccountsNext /\ UNCHANGED sessionVars
  \/ SessionsNext /\ UNCHANGED accountVars
  \/ \E p \in Pairs : Register(p)
  \/ Restart

Spec == Init /\ [][Next]_vars

-----------------------------------------------------------------------------
(* Properties. *)

\* What a socket receives is in the order it was sent, through a queue, a flush and a
\* replacement, and no message is received twice or received and still waiting.
\* (relay.rs:37-70,140-157)
OnceAndInOrder ==
  LET line(c) == got[c] \o out[c]
      waiting(p) == IF session[p] = None THEN {}
                    ELSE {session[p].pending[i].msg : i \in DOMAIN session[p].pending}
  IN /\ \A c \in Conns : \A i, j \in DOMAIN line(c) : i < j => line(c)[i] < line(c)[j]
     /\ \A c, d \in Conns : c # d => Range(line(c)) \intersect Range(line(d)) = {}
     /\ \A c \in Conns, p \in Pairs : Range(line(c)) \intersect waiting(p) = {}

\* A message leaves the queue only into the channel of the desktop that attaches, because it
\* is older than its lifetime, or as the oldest of a full queue.  A restart loses the queue.
\* (relay.rs:54-68, session.rs:38-61)
QueueKeeps ==
  [][\A p \in Pairs : session[p] # None /\ session'[p] # None =>
       \A i \in DOMAIN session[p].pending :
         LET m == session[p].pending[i]
         IN \/ m \in Range(session'[p].pending)
            \/ \E c \in Conns : session'[p].tx["desktop"] = c /\ m.msg \in Range(out'[c])
            \/ clock - m.at > PendingTTL
            \/ i = 1 /\ Len(session[p].pending) = MaxPending]_vars

=============================================================================
