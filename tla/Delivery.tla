------------------------------- MODULE Delivery -------------------------------
(***************************************************************************)
(* The way of a notification from the phone's shade to the PC's inbox.     *)
(*                                                                         *)
(* The phone keeps a row per message, pending until the PC acknowledges    *)
(* it, and sends every pending row again whenever its supervisor comes     *)
(* round.  On the PC a connection's task reads frames and runs each as a   *)
(* work item on a blocking thread, reading on meanwhile into a bounded     *)
(* queue; the thread looks again at whether its connection is current      *)
(* before each effect, and outlives a task that stopped waiting for it.    *)
(* At most two connections are open: the current one, and one that has     *)
(* been replaced or lost and whose end is not yet known everywhere.        *)
(*                                                                         *)
(* Left to other modules: who may connect and attach (PhoneClient,         *)
(* DesktopSession; here a dial succeeds, and replaces) and the transports. *)
(* The messages are those of one notification, which is one batch.  The    *)
(* phone sends neither batches nor dismissals, and its inventory, status   *)
(* and rules touch none of this state: their handlers are left out.        *)
(***************************************************************************)
EXTENDS Naturals, Sequences

CONSTANTS
  None,
  Ids,           \* ids of messages
  Content(_),    \* application, sender, text and time of an id
  MaxPending,    \* MAX_PENDING_MESSAGES
  MaxFrames,     \* bound: frames on their way, each direction
  MaxActs,       \* bound: callbacks of the shade, and acts of the users
  MaxFaults      \* bound: lost connections, timeouts and restarts

VARIABLES
  \* the phone
  rows,          \* the status of each message in its database
  captures,      \* how many coroutines look for a posted message, or save it
  link,          \* the connection the phone holds
  \* the connections
  alive, out, acks,
  \* the PC
  attached,      \* the connection whose sender is in the slot
  session,       \* each connection's task
  work,          \* each connection's blocking thread
  inbox,         \* the status of each stored notification
  \* bounds and history
  acts, faults,
  stored,        \* ids that have been in the inbox
  dismissed,     \* ids marked because the user dismissed the notification
  popups, deletions   \* of each content

rowVars == <<rows, dismissed>>
phone   == <<rowVars, captures, link>>
wires   == <<alive, out, acks>>
shown   == <<inbox, stored, popups, deletions>>
tasks   == <<attached, session, work>>
bounds  == <<acts, faults>>
vars    == <<phone, wires, tasks, shown, bounds>>

Conns    == {1, 2}
Contents == {Content(i) : i \in Ids}
Stages   == Ids \X {"check", "save"}

Session == [pc : {"none", "loop", "work", "answer", "closing"}, queue : Seq(Ids), ack : Ids \union {None}]
Work    == [id : Ids, pc : {"start", "exists", "write", "after", "popup", "done"},
            existed : BOOLEAN, allowed : BOOLEAN, result : Ids \union {None}]

ASSUME DeliveryAssumption ==
  /\ MaxPending \in Nat \ {0} /\ MaxFrames \in Nat \ {0}
  /\ MaxActs \in Nat /\ MaxFaults \in Nat
  /\ None \notin Ids \union Work

\* One connection's task and thread.
Fit(s, w) ==
  /\ s \in Session /\ Len(s.queue) <= MaxPending
  /\ w \in Work \union {None}
  /\ s.pc = "work" <=> w # None /\ w.allowed
  /\ s.pc = "answer" => s.ack # None

PhoneTyped ==
  /\ rows \in [Ids -> {"none", "pending", "sent"}] /\ dismissed \subseteq Ids
  /\ captures \in [Stages -> Nat] /\ link \in Conns \union {0}
WiresTyped ==
  /\ out \in [Conns -> Seq(Ids)] /\ acks \in [Conns -> Seq(Ids)] /\ alive \subseteq Conns
TasksTyped ==
  /\ session \in [Conns -> Session] /\ work \in [Conns -> Work \union {None}]
  /\ attached \in Conns \union {0}
  /\ \A c \in Conns : Fit(session[c], work[c]) /\ (attached = c => session[c].pc # "none")
ShownTyped ==
  /\ inbox \in [Ids -> {"none", "NEW", "IMPORTANT"}] /\ stored \subseteq Ids
  /\ popups \in [Contents -> Nat] /\ deletions \in [Contents -> Nat]
BoundsTyped == acts \in 0..MaxActs /\ faults \in 0..MaxFaults

TypeOK == PhoneTyped /\ WiresTyped /\ TasksTyped /\ ShownTyped /\ BoundsTyped

Unused == [pc |-> "none", queue |-> <<>>, ack |-> None]

Init ==
  /\ rows = [i \in Ids |-> "none"] /\ inbox = [i \in Ids |-> "none"]
  /\ captures = [s \in Stages |-> 0]
  /\ link = 0 /\ attached = 0 /\ alive = {}
  /\ out = [c \in Conns |-> <<>>] /\ acks = [c \in Conns |-> <<>>]
  /\ session = [c \in Conns |-> Unused] /\ work = [c \in Conns |-> None]
  /\ acts = 0 /\ faults = 0 /\ stored = {} /\ dismissed = {}
  /\ popups = [k \in Contents |-> 0] /\ deletions = [k \in Contents |-> 0]

-----------------------------------------------------------------------------
(* The phone: capturing, sending, and marking what was acknowledged. *)

PcCalm == UNCHANGED <<tasks, shown>>

\* onNotificationPosted() with something new to say, or found in the shade later.
Post(id) ==
  /\ acts < MaxActs /\ acts' = acts + 1
  /\ captures' = [captures EXCEPT ![<<id, "check">>] = @ + 1]
  /\ PcCalm /\ UNCHANGED <<rowVars, link, wires, faults>>

\* A coroutine with this message goes from one stage to the next, or ends.
Passes(id, from, to) ==
  /\ captures[<<id, from>>] > 0
  /\ captures' = [s \in Stages |-> IF s = <<id, from>> THEN captures[s] - 1
                                  ELSE IF s = <<id, to>> THEN captures[s] + 1 ELSE captures[s]]

CheckRow(id) ==
  /\ Passes(id, "check", IF rows[id] = "none" THEN "save" ELSE "end")
  /\ PcCalm /\ UNCHANGED <<rowVars, link, wires, bounds>>

\* The row is replaced, whatever became of it since it was looked for.
SaveRow(id) ==
  /\ Passes(id, "save", "end")
  /\ rows' = [rows EXCEPT ![id] = "pending"] /\ dismissed' = dismissed \ {id}
  /\ PcCalm /\ UNCHANGED <<link, wires, bounds>>

\* Mutant of Send: what the socket accepts counts as sent.
SendAndMark(id) ==
  /\ rows[id] = "pending" /\ link # 0 /\ Len(out[link]) < MaxFrames
  /\ link \in alive /\ out' = [out EXCEPT ![link] = Append(@, id)]
  /\ rows' = [rows EXCEPT ![id] = "sent"]
  /\ PcCalm /\ UNCHANGED <<dismissed, captures, link, alive, acks, bounds>>

\* send(), by the coroutine that saved the row and by each round of flushPending():
\* what the socket accepts is on its way, and the row stays pending.
Send(id) ==
  /\ rows[id] = "pending" /\ link # 0 /\ Len(out[link]) < MaxFrames
  /\ link \in alive /\ out' = [out EXCEPT ![link] = Append(@, id)]
  /\ PcCalm /\ UNCHANGED <<rowVars, captures, link, alive, acks, bounds>>

\* UPDATE ... WHERE id: of a row that is there.
Marked(ids) == [i \in Ids |-> IF i \in ids /\ rows[i] # "none" THEN "sent" ELSE rows[i]]

\* applyNotificationAck(): what waits in acks is frames, and the coroutines of the
\* session that mark their rows.
MarkSent ==
  /\ link # 0 /\ acks[link] # <<>>
  /\ rows' = Marked({Head(acks[link])})
  /\ acks' = [acks EXCEPT ![link] = Tail(@)]
  /\ PcCalm /\ UNCHANGED <<dismissed, captures, link, alive, out, bounds>>

\* onNotificationRemoved(): the coroutine that marks the batch.
Dismiss ==
  /\ acts < MaxActs /\ acts' = acts + 1
  /\ rows' = Marked(Ids)
  /\ dismissed' = dismissed \union {i \in Ids : rows[i] # "none"}
  /\ PcCalm /\ UNCHANGED <<captures, link, wires, faults>>

\* The user clears the phone's history of a message.
ClearRow(id) ==
  /\ acts < MaxActs /\ acts' = acts + 1 /\ rows[id] # "none"
  /\ rows' = [rows EXCEPT ![id] = "none"] /\ dismissed' = dismissed \ {id}
  /\ PcCalm /\ UNCHANGED <<captures, link, wires, faults>>

\* A dial gets through: the PC attaches the phone, which is told so.  What a replaced
\* connection has still to read is lost: its task will ignore it.
Free == {c \in Conns : session[c].pc = "none" /\ work[c] = None /\ c \notin alive}

Connect ==
  /\ link = 0
  /\ \E c \in Free :
       /\ \A f \in Free : c <= f
       /\ link' = c /\ attached' = c /\ alive' = alive \union {c}
       /\ session' = [d \in Conns |-> IF d = c THEN [Unused EXCEPT !.pc = "loop"]
                                              ELSE [session[d] EXCEPT !.queue = <<>>]]
  /\ out' = [c \in Conns |-> <<>>]
  /\ UNCHANGED <<rowVars, captures, acks, work, shown, bounds>>

\* disconnect(): the coroutines of the session go with it.
Hangup ==
  /\ link # 0 /\ link \notin alive
  /\ link' = 0 /\ acks' = [acks EXCEPT ![link] = <<>>]
  /\ PcCalm /\ UNCHANGED <<rowVars, captures, alive, out, bounds>>

-----------------------------------------------------------------------------
(* Faults. *)

\* A connection is lost; what had already arrived at an end can still be read there.
Lose(c) ==
  /\ faults < MaxFaults /\ faults' = faults + 1
  /\ c \in alive /\ alive' = alive \ {c}
  /\ \E m \in 0..Len(out[c]), n \in 0..Len(acks[c]) :
       /\ out' = [out EXCEPT ![c] = SubSeq(@, 1, m)]
       /\ acks' = [acks EXCEPT ![c] = SubSeq(@, 1, n)]
  /\ PcCalm /\ UNCHANGED <<phone, acts>>

PhoneDies ==
  /\ faults < MaxFaults /\ faults' = faults + 1
  /\ link' = 0 /\ alive' = alive \ {link}
  /\ acks' = [c \in Conns |-> <<>>]
  /\ captures' = [s \in Stages |-> 0]
  /\ PcCalm /\ UNCHANGED <<rowVars, out, acts>>

DesktopDies ==
  /\ faults < MaxFaults /\ faults' = faults + 1
  /\ attached' = 0 /\ alive' = {} /\ out' = [c \in Conns |-> <<>>]
  /\ session' = [c \in Conns |-> Unused] /\ work' = [c \in Conns |-> None]
  /\ UNCHANGED <<phone, acks, shown, acts>>

-----------------------------------------------------------------------------
(* The PC: the task of connection c. *)

IsCurrent(c) == attached = c

TaskCalm == UNCHANGED <<phone, attached, shown, bounds>>

Started(id) ==
  [id |-> id, pc |-> "start", existed |-> FALSE, allowed |-> TRUE, result |-> None]

\* The next frame, queued or just read, is handed to a thread.
Read(c) ==
  LET Take(id, rest) ==
        /\ work' = [work EXCEPT ![c] = Started(id)]
        /\ session' = [session EXCEPT ![c].pc = "work", ![c].queue = rest]
      queue == session[c].queue
  IN /\ session[c].pc = "loop" /\ IsCurrent(c) /\ work[c] = None
     /\ \/ queue # <<>> /\ Take(Head(queue), Tail(queue)) /\ UNCHANGED out
        \/ queue = <<>> /\ out[c] # <<>> /\ Take(Head(out[c]), <<>>) /\ out' = [out EXCEPT ![c] = Tail(@)]
     /\ TaskCalm /\ UNCHANGED <<alive, acks>>

\* The end of the stream, or the stale check of a replaced connection.
Leave(c) ==
  /\ session[c].pc = "loop"
  /\ IsCurrent(c) => c \notin alive /\ out[c] = <<>> /\ session[c].queue = <<>>
  /\ session' = [session EXCEPT ![c].pc = "closing", ![c].queue = <<>>]
  /\ TaskCalm /\ UNCHANGED <<wires, work>>

\* service_while() returned an error: the queue is cleared and the permit dropped.
\* The outer loop goes on if the connection was replaced, to find out for itself.
Abandon(c) ==
  /\ session' = [session EXCEPT ![c].queue = <<>>, ![c].pc = IF IsCurrent(c) THEN "closing" ELSE "loop"]
  /\ work' = [work EXCEPT ![c] = IF @.pc = "done" THEN None ELSE [@ EXCEPT !.allowed = FALSE]]

\* Mutant of ReadOn: a frame too many ends the session.
ReadOrDie(c) ==
  /\ session[c].pc = "work" /\ IsCurrent(c) /\ out[c] # <<>>
  /\ \/ /\ Len(session[c].queue) < MaxPending
        /\ session' = [session EXCEPT ![c].queue = Append(@, Head(out[c]))]
        /\ UNCHANGED work
     \/ Len(session[c].queue) = MaxPending /\ Abandon(c)
  /\ out' = [out EXCEPT ![c] = Tail(@)]
  /\ TaskCalm /\ UNCHANGED <<alive, acks>>

\* Reading on while the thread works, as long as the queue has room.
ReadOn(c) ==
  /\ session[c].pc = "work" /\ IsCurrent(c)
  /\ Len(session[c].queue) < MaxPending /\ out[c] # <<>>
  /\ session' = [session EXCEPT ![c].queue = Append(@, Head(out[c]))]
  /\ out' = [out EXCEPT ![c] = Tail(@)]
  /\ TaskCalm /\ UNCHANGED <<alive, acks, work>>

\* The socket changed hands or closed.
Interrupted(c) ==
  /\ session[c].pc = "work"
  /\ IsCurrent(c) => c \notin alive /\ out[c] = <<>> /\ Len(session[c].queue) < MaxPending
  /\ Abandon(c)
  /\ TaskCalm /\ UNCHANGED wires

\* The deadline of the heartbeat passes.
Silent(c) ==
  /\ faults < MaxFaults /\ faults' = faults + 1
  /\ \/ session[c].pc = "work" /\ Abandon(c)
     \/ /\ session[c].pc = "loop" /\ UNCHANGED work
        /\ session' = [session EXCEPT ![c].pc = "closing", ![c].queue = <<>>]
  /\ UNCHANGED <<phone, wires, attached, shown, acts>>

\* The thread is done, and the connection still current: its answer is for the phone.
Finish(c) ==
  /\ session[c].pc = "work" /\ work[c].pc = "done" /\ IsCurrent(c)
  /\ session' = [session EXCEPT ![c].pc = IF work[c].result = None THEN "loop" ELSE "answer",
                                ![c].ack = work[c].result]
  /\ work' = [work EXCEPT ![c] = None]
  /\ TaskCalm /\ UNCHANGED wires

\* send_notification_ack()
Acknowledge(c) ==
  /\ session[c].pc = "answer"
  /\ \/ /\ c \in alive /\ Len(acks[c]) < MaxFrames
        /\ acks' = [acks EXCEPT ![c] = Append(@, session[c].ack)]
        /\ session' = [session EXCEPT ![c].pc = "loop", ![c].ack = None]
     \/ /\ c \notin alive /\ UNCHANGED acks
        /\ session' = [session EXCEPT ![c].pc = "closing", ![c].ack = None, ![c].queue = <<>>]
  /\ TaskCalm /\ UNCHANGED <<alive, out, work>>

\* Mutant of Close: the slot is left to the next phone.
CloseOnly(c) ==
  /\ session[c].pc = "closing"
  /\ session' = [session EXCEPT ![c] = Unused]
  /\ alive' = alive \ {c} /\ out' = [out EXCEPT ![c] = <<>>]
  /\ UNCHANGED <<phone, attached, acks, work, shown, bounds>>

\* The task ends: the slot is emptied if it is its own, and the socket closed.
Close(c) ==
  /\ session[c].pc = "closing"
  /\ attached' = IF IsCurrent(c) THEN 0 ELSE attached
  /\ session' = [session EXCEPT ![c] = Unused]
  /\ alive' = alive \ {c} /\ out' = [out EXCEPT ![c] = <<>>]
  /\ UNCHANGED <<phone, acks, work, shown, bounds>>

-----------------------------------------------------------------------------
(* The PC: the thread of connection c. *)

\* current(): asked again before every effect.
MayGoOn(c) == work[c].allowed /\ IsCurrent(c)

ThreadIn(c, step) ==
  /\ work[c] # None /\ work[c].pc = step
  /\ UNCHANGED <<phone, wires, attached, session, bounds>>

Goto(c, step) == work' = [work EXCEPT ![c].pc = step]

\* The thread returns; nobody waits for it any more once its permit is gone.
Return(c, result) ==
  work' = [work EXCEPT ![c] =
    IF @.allowed THEN [@ EXCEPT !.pc = "done", !.existed = FALSE, !.result = result] ELSE None]

\* equivalent_notification(): the same message under another id.  Messages here have a text:
\* masked ones, whose text is empty, are never taken for one another.
Equivalent(id) == \E i \in Ids \ {id} : inbox[i] # "none" /\ Content(i) = Content(id)

\* A copy of what is stored is acknowledged, and nothing more.
Begin(c) ==
  /\ ThreadIn(c, "start") /\ UNCHANGED shown
  /\ IF ~MayGoOn(c) THEN Return(c, None)
     ELSE IF Equivalent(work[c].id) THEN Return(c, work[c].id) ELSE Goto(c, "exists")

\* notification_exists()
Exists(c) ==
  /\ ThreadIn(c, "exists") /\ UNCHANGED shown
  /\ IF MayGoOn(c)
     THEN work' = [work EXCEPT ![c].pc = "write", ![c].existed = inbox[work[c].id] # "none"]
     ELSE Return(c, None)

\* Mutant of Upsert: a row that is there already starts anew.
Replace(id) == [inbox EXCEPT ![id] = "NEW"]

\* ON CONFLICT: all but the status is replaced.
Upsert(id) == [inbox EXCEPT ![id] = IF @ = "none" THEN "NEW" ELSE @]

Write(c) ==
  /\ ThreadIn(c, "write") /\ UNCHANGED <<popups, deletions>>
  /\ inbox' = Upsert(work[c].id) /\ stored' = stored \union {work[c].id}
  /\ Goto(c, "after")

\* Mutant of After: the connection is not looked at again.
AfterStraight(c) ==
  /\ ThreadIn(c, "after") /\ UNCHANGED shown
  /\ IF work[c].existed THEN Return(c, work[c].id) ELSE Goto(c, "popup")

\* The interface is told, and a notification that is new goes on to the screen.
After(c) ==
  /\ ThreadIn(c, "after") /\ UNCHANGED shown
  /\ IF ~MayGoOn(c) THEN Return(c, None)
     ELSE IF work[c].existed THEN Return(c, work[c].id) ELSE Goto(c, "popup")

\* The vault may be locked, or popups switched off.
Popup(c) ==
  /\ ThreadIn(c, "popup") /\ UNCHANGED <<inbox, stored, deletions>>
  /\ \/ popups' = [popups EXCEPT ![Content(work[c].id)] = @ + 1]
     \/ UNCHANGED popups
  /\ Return(c, work[c].id)

-----------------------------------------------------------------------------
(* The user at the PC. *)

MarkImportant(id) ==
  /\ acts < MaxActs /\ acts' = acts + 1
  /\ inbox[id] = "NEW" /\ inbox' = [inbox EXCEPT ![id] = "IMPORTANT"]
  /\ UNCHANGED <<phone, wires, tasks, stored, popups, deletions, faults>>

Delete(id) ==
  /\ acts < MaxActs /\ acts' = acts + 1
  /\ inbox[id] # "none" /\ inbox' = [inbox EXCEPT ![id] = "none"]
  /\ deletions' = [deletions EXCEPT ![Content(id)] = @ + 1]
  /\ UNCHANGED <<phone, wires, tasks, stored, popups, faults>>

-----------------------------------------------------------------------------
Capturing(id) == CheckRow(id) \/ SaveRow(id)
Task(c)       == Read(c) \/ Leave(c) \/ ReadOn(c) \/ Interrupted(c) \/ Finish(c) \/ Acknowledge(c) \/ Close(c)
Thread(c)     == Begin(c) \/ Exists(c) \/ Write(c) \/ After(c) \/ Popup(c)

Next ==
  \/ MarkSent \/ Dismiss \/ Connect \/ Hangup \/ PhoneDies \/ DesktopDies
  \/ \E id \in Ids : Post(id) \/ Capturing(id) \/ Send(id) \/ ClearRow(id) \/ MarkImportant(id) \/ Delete(id)
  \/ \E c \in Conns : Task(c) \/ Thread(c) \/ Lose(c) \/ Silent(c)

Spec == Init /\ [][Next]_vars

\* Coroutines, tasks and threads that can go on do; the phone's supervisor comes
\* round, dials and flushes again and again; a socket that closed is noticed.
FairSpec ==
  /\ Spec
  /\ WF_vars(MarkSent) /\ WF_vars(Connect) /\ WF_vars(Hangup)
  /\ \A id \in Ids : WF_vars(Capturing(id)) /\ WF_vars(Send(id))
  /\ \A c \in Conns : WF_vars(Task(c)) /\ WF_vars(Thread(c))

-----------------------------------------------------------------------------
(* Properties. *)

\* A row is marked sent only if the PC has stored that message, under this id or
\* another, or the user has dismissed it on the phone: across lost acknowledgements,
\* replaced connections and restarts of either end, a message that was never
\* stored keeps being sent (applyNotificationAck, apply_work_item).
SentIsStored ==
  \A i \in Ids : rows[i] = "sent" =>
    i \in dismissed \/ \E j \in stored : Content(j) = Content(i)

\* A message pops up once, and again only after the user has deleted it: not for a
\* row sent again, not under another id, not by the thread of a connection that was
\* replaced while it worked (apply_work_item's existed and its checks of current()).
OnePopup == \A k \in Contents : popups[k] <= 1 + deletions[k]

\* What the user made of a notification stays as it is when the phone, whose
\* acknowledgement was lost or late, sends it again (upsert_notification).
StatusKept ==
  [][\A i \in Ids : inbox[i] = "IMPORTANT" /\ inbox'[i] # "IMPORTANT" => acts' # acts]_vars

\* A pending row does not stay pending, however large the burst it is sent in and
\* whatever was lost before (flushPending, the bounded queue of service_while).
Delivered == \A i \in Ids : rows[i] = "pending" ~> rows[i] # "pending"
=============================================================================
