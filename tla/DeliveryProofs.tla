---------------------------- MODULE DeliveryProofs ----------------------------
(***************************************************************************)
(* Delivery for any set of messages, any number of frames, faults and acts *)
(* of the users.  Acknowledged says that whatever is on its way back to    *)
(* the phone speaks of a message that was stored; ShownOnce says how many  *)
(* popups of a message there can have been.                                *)
(***************************************************************************)
EXTENDS Delivery, SequenceTheorems, TLAPS

USE DeliveryAssumption

-----------------------------------------------------------------------------
(* Types. *)

LEMMA InitTyped == Init => TypeOK
  BY DEF Init, TypeOK, PhoneTyped, WiresTyped, TasksTyped, ShownTyped, BoundsTyped, Fit,
         Conns, Contents, Stages, Session, Unused

LEMMA EmptyTyped == <<>> \in Seq(Ids) /\ Len(<<>>) = 0
  OBVIOUS

LEMMA SubSeqTyped ==
  ASSUME NEW s \in Seq(Ids), NEW m \in 0..Len(s)
  PROVE  SubSeq(s, 1, m) \in Seq(Ids)
  OBVIOUS

LEMMA TailShifts ==
  ASSUME NEW s \in Seq(Ids), s # <<>>, NEW n \in 1..Len(Tail(s))
  PROVE  Tail(s)[n] = s[n + 1] /\ n + 1 \in 1..Len(s)
  OBVIOUS

LEMMA AppendAdds ==
  ASSUME NEW s \in Seq(Ids), NEW id \in Ids, NEW n \in 1..Len(Append(s, id))
  PROVE  Append(s, id)[n] = id \/ (n \in 1..Len(s) /\ Append(s, id)[n] = s[n])
  OBVIOUS

LEMMA SubSeqPrefix ==
  ASSUME NEW s \in Seq(Ids), NEW m \in 0..Len(s), NEW n \in 1..Len(SubSeq(s, 1, m))
  PROVE  SubSeq(s, 1, m)[n] = s[n] /\ n \in 1..Len(s)
  OBVIOUS

\* What a task becomes.
LEMMA FitNew == Fit([pc |-> "loop", queue |-> <<>>, ack |-> None], None)
  BY EmptyTyped DEF Fit, Session

LEMMA FitEmptied ==
  ASSUME NEW s, NEW w, Fit(s, w)
  PROVE  Fit([s EXCEPT !.queue = <<>>], w) /\ [s EXCEPT !.queue = <<>>].pc = s.pc
<1> DEFINE r == [s EXCEPT !.queue = <<>>]
<1>1. r.pc = s.pc /\ r.queue = <<>> /\ r.ack = s.ack /\ r \in Session
  BY EmptyTyped DEF Fit, Session
<1>2. s.pc = "work" <=> w # None /\ w.allowed
  BY DEF Fit
<1>3. w \in Work \union {None} /\ (s.pc = "answer" => s.ack # None) /\ Len(r.queue) <= MaxPending
  BY <1>1, EmptyTyped DEF Fit
<1> HIDE DEF r
<1>4. Fit(r, w)
  BY <1>1, <1>2, <1>3 DEF Fit
<1>5. QED
  BY <1>1, <1>4 DEF r

\* A task that is told to stop waiting, and its thread.
LEMMA FitAbandoned ==
  ASSUME NEW s, NEW w, Fit(s, w), s.pc = "work", NEW p \in {"closing", "loop"}
  PROVE  Fit([s EXCEPT !.queue = <<>>, !.pc = p],
             IF w.pc = "done" THEN None ELSE [w EXCEPT !.allowed = FALSE])
<1> DEFINE v == IF w.pc = "done" THEN None ELSE [w EXCEPT !.allowed = FALSE]
<1> DEFINE r == [s EXCEPT !.queue = <<>>, !.pc = p]
<1>1. r.pc = p /\ r.queue = <<>> /\ r.ack = s.ack /\ r \in Session
  BY EmptyTyped DEF Fit, Session
<1>2. w \in Work
  BY DEF Fit
<1>3. v \in Work \union {None} /\ (v # None => ~v.allowed)
  BY <1>2 DEF Work
<1>4. p # "work" /\ p # "answer"
  OBVIOUS
<1> HIDE DEF r, v
<1>5. Fit(r, v)
  BY <1>1, <1>3, <1>4, EmptyTyped DEF Fit
<1>6. QED
  BY <1>5 DEF r, v

\* The forms in which a session is changed.
LEMMA FitMoved ==
  ASSUME NEW s \in Session, Len(s.queue) <= MaxPending, NEW q \in Seq(Ids), Len(q) <= MaxPending,
         NEW p \in {"loop", "work", "closing"}, NEW w \in Work \union {None}, p = "work" <=> w # None /\ w.allowed
  PROVE  /\ Fit([s EXCEPT !.pc = p, !.queue = q], w) /\ [s EXCEPT !.pc = p, !.queue = q].pc # "none"
         /\ Fit([s EXCEPT !.pc = p, !.ack = None, !.queue = q], w)
         /\ [s EXCEPT !.pc = p, !.ack = None, !.queue = q].pc # "none"
         /\ Fit([s EXCEPT !.pc = p, !.ack = None], w) /\ [s EXCEPT !.pc = p, !.ack = None].pc # "none"
  BY DEF Fit, Session

LEMMA FitEnded ==
  ASSUME NEW s, NEW w, Fit(s, w), s.pc # "work"
  PROVE  /\ Fit([s EXCEPT !.pc = "closing", !.queue = <<>>], w) /\ [s EXCEPT !.pc = "closing", !.queue = <<>>].pc # "none"
         /\ Fit([s EXCEPT !.pc = "closing", !.ack = None, !.queue = <<>>], w)
         /\ [s EXCEPT !.pc = "closing", !.ack = None, !.queue = <<>>].pc # "none"
<1>1. s \in Session /\ Len(s.queue) <= MaxPending /\ w \in Work \union {None} /\ (w # None => ~w.allowed)
  BY DEF Fit
<1> DEFINE r == [s EXCEPT !.pc = "closing", !.queue = <<>>]
           t == [s EXCEPT !.pc = "closing", !.ack = None, !.queue = <<>>]
<1>2. r \in Session /\ r.pc = "closing" /\ r.queue = <<>>
  BY <1>1, EmptyTyped DEF Session
<1>3. t \in Session /\ t.pc = "closing" /\ t.queue = <<>>
  BY <1>1, EmptyTyped DEF Session
<1> HIDE DEF r, t
<1>4. Fit(r, w) /\ Fit(t, w)
  BY <1>1, <1>2, <1>3, EmptyTyped DEF Fit
<1>5. QED
  BY <1>2, <1>3, <1>4 DEF r, t

LEMMA FitQueued ==
  ASSUME NEW s, NEW w, Fit(s, w), NEW q \in Seq(Ids), Len(q) <= MaxPending, s.pc # "none"
  PROVE  Fit([s EXCEPT !.queue = q], w) /\ [s EXCEPT !.queue = q].pc # "none"
  BY DEF Fit, Session

LEMMA FitFinished ==
  ASSUME NEW s, NEW w, Fit(s, w), NEW result \in Ids \union {None}
  PROVE  /\ Fit([s EXCEPT !.pc = IF result = None THEN "loop" ELSE "answer", !.ack = result], None)
         /\ [s EXCEPT !.pc = IF result = None THEN "loop" ELSE "answer", !.ack = result].pc # "none"
  BY DEF Fit, Session

\* One connection's task and thread take a step.
LEMMA OneConnection ==
  ASSUME TasksTyped, NEW c \in Conns, NEW s, NEW w, Fit(s, w),
         session' = [session EXCEPT ![c] = s], work' = [work EXCEPT ![c] = w],
         attached' = attached \/ attached' = 0, s.pc = "none" => attached' # c
  PROVE  TasksTyped'
<1>1. ASSUME NEW d \in Conns
      PROVE  Fit(session'[d], work'[d]) /\ (attached' = d => session'[d].pc # "none")
  <2>1. CASE d = c
    BY <2>1 DEF TasksTyped, Fit
  <2>2. CASE d # c
    <3>1. session'[d] = session[d] /\ work'[d] = work[d]
      BY <2>2 DEF TasksTyped
    <3>2. attached' = d => attached = d
      BY DEF Conns
    <3>3. QED
      BY <3>1, <3>2 DEF TasksTyped
  <2>3. QED
    BY <2>1, <2>2
<1>2. session' \in [Conns -> Session] /\ work' \in [Conns -> Work \union {None}]
  BY DEF TasksTyped, Fit
<1>3. QED
  BY <1>1, <1>2 DEF TasksTyped, Fit

LEMMA PassesTyped ==
  ASSUME PhoneTyped, NEW id \in Ids, NEW from \in {"check", "save"}, NEW to, Passes(id, from, to)
  PROVE  captures' \in [Stages -> Nat]
<1>1. ASSUME NEW s \in Stages
      PROVE  (IF s = <<id, from>> THEN captures[s] - 1
              ELSE IF s = <<id, to>> THEN captures[s] + 1 ELSE captures[s]) \in Nat
  BY DEF PhoneTyped, Passes
<1>2. QED
  BY <1>1 DEF Passes

LEMMA PhoneStepTyped ==
  ASSUME TypeOK,
         \/ MarkSent \/ Dismiss \/ Connect \/ Hangup
         \/ \E id \in Ids : Post(id) \/ Capturing(id) \/ Send(id) \/ ClearRow(id)
  PROVE  TypeOK'
<1> USE DEF TypeOK, PhoneTyped, WiresTyped, ShownTyped, BoundsTyped, Conns, Stages,
            rowVars, phone, wires, shown, tasks, bounds, PcCalm
<1>0. ASSUME UNCHANGED tasks PROVE TasksTyped'
  BY <1>0 DEF TasksTyped, Fit
<1>1. CASE MarkSent
  BY <1>0, <1>1 DEF MarkSent, Marked
<1>2. CASE Dismiss
  BY <1>0, <1>2 DEF Dismiss, Marked
\* The new connection has a fresh task; the tasks of the others keep their place.
<1>3. CASE Connect
  <2>1. PICK c \in Conns : /\ session[c].pc = "none" /\ work[c] = None
                           /\ link' = c /\ attached' = c /\ alive' = alive \union {c}
                           /\ session' = [d \in Conns |-> IF d = c THEN [Unused EXCEPT !.pc = "loop"]
                                                          ELSE [session[d] EXCEPT !.queue = <<>>]]
    BY <1>3 DEF Connect, Free
  <2>2. ASSUME NEW d \in Conns
        PROVE  Fit(session'[d], work[d]) /\ (d = c => session'[d].pc = "loop")
    <3>1. CASE d = c
      <4>1. session'[d] = [pc |-> "loop", queue |-> <<>>, ack |-> None] /\ work[d] = None
        BY <2>1, <3>1 DEF Unused
      <4>2. QED
        BY <4>1, FitNew
    <3>2. CASE d # c
      <4>1. session'[d] = [session[d] EXCEPT !.queue = <<>>]
        BY <2>1, <3>2
      <4>2. QED
        <5>1. Fit(session[d], work[d])
          BY DEF TasksTyped
        <5>2. QED
          <6>1. Fit([session[d] EXCEPT !.queue = <<>>], work[d])
            BY <5>1, FitEmptied
          <6>2. QED
            BY <3>2, <4>1, <6>1
    <3>3. QED
      BY <3>1, <3>2
  <2>3. TasksTyped'
    BY <1>3, <2>1, <2>2 DEF TasksTyped, Fit, Connect
  <2>4. QED
    BY <1>3, <2>1, <2>3 DEF Connect
<1>4. CASE Hangup
  BY <1>0, <1>4 DEF Hangup
<1>5. ASSUME NEW id \in Ids, Post(id) PROVE TypeOK'
  BY <1>0, <1>5 DEF Post
<1>6. ASSUME NEW id \in Ids, CheckRow(id) PROVE TypeOK'
  BY <1>0, <1>6, PassesTyped DEF CheckRow
<1>7. ASSUME NEW id \in Ids, SaveRow(id) PROVE TypeOK'
  BY <1>0, <1>7, PassesTyped DEF SaveRow
<1>8. ASSUME NEW id \in Ids, Send(id) PROVE TypeOK'
  BY <1>0, <1>8 DEF Send
<1>9. ASSUME NEW id \in Ids, ClearRow(id) PROVE TypeOK'
  BY <1>0, <1>9 DEF ClearRow
<1>10. QED
  BY <1>1, <1>2, <1>3, <1>4, <1>5, <1>6, <1>7, <1>8, <1>9 DEF Capturing

LEMMA FaultTyped ==
  ASSUME TypeOK, \/ PhoneDies \/ DesktopDies \/ \E c \in Conns : Lose(c)
  PROVE  TypeOK'
<1> USE DEF TypeOK, PhoneTyped, WiresTyped, ShownTyped, BoundsTyped, Conns, Stages,
            rowVars, phone, wires, shown, tasks, bounds, PcCalm
<1>1. CASE PhoneDies
  BY <1>1 DEF PhoneDies, TasksTyped, Fit
<1>2. CASE DesktopDies
  BY <1>2 DEF DesktopDies, Unused, Session, TasksTyped, Fit
<1>3. ASSUME NEW c \in Conns, Lose(c) PROVE TypeOK'
  <2>1. PICK m \in 0..Len(out[c]), n \in 0..Len(acks[c]) :
          /\ out' = [out EXCEPT ![c] = SubSeq(@, 1, m)]
          /\ acks' = [acks EXCEPT ![c] = SubSeq(@, 1, n)]
    BY <1>3 DEF Lose
  <2>2. SubSeq(out[c], 1, m) \in Seq(Ids) /\ SubSeq(acks[c], 1, n) \in Seq(Ids)
    BY SubSeqTyped
  <2>3. WiresTyped'
    BY <1>3, <2>1, <2>2 DEF Lose
  <2>4. TasksTyped'
    BY <1>3 DEF Lose, TasksTyped, Fit
  <2>5. QED
    BY <1>3, <2>3, <2>4 DEF Lose
<1>4. QED
  BY <1>1, <1>2, <1>3

\* A task that is told to stop waiting.
LEMMA AbandonTyped ==
  ASSUME TasksTyped, NEW c \in Conns, session[c].pc = "work", Abandon(c), UNCHANGED attached
  PROVE  TasksTyped'
<1> DEFINE s == [session[c] EXCEPT !.queue = <<>>, !.pc = IF IsCurrent(c) THEN "closing" ELSE "loop"]
           w == IF work[c].pc = "done" THEN None ELSE [work[c] EXCEPT !.allowed = FALSE]
<1>1. session' = [session EXCEPT ![c] = s] /\ work' = [work EXCEPT ![c] = w]
  BY DEF Abandon, TasksTyped
<1>2. Fit(session[c], work[c]) /\ work[c] \in Work
  BY DEF TasksTyped, Fit
<1>3. Fit(s, w)
  BY <1>2, FitAbandoned DEF Fit
<1>4. s.pc # "none"
  BY <1>2 DEF Fit, Session
<1>5. QED
  BY <1>1, <1>3, <1>4, OneConnection

LEMMA TaskStepTasks ==
  ASSUME TypeOK, NEW c \in Conns, Task(c) \/ Silent(c)
  PROVE  TasksTyped'
<1> DEFINE s == session[c]
           w == work[c]
<1>1. TasksTyped
  BY DEF TypeOK
<1>2. /\ Fit(s, w) /\ s \in Session /\ s.queue \in Seq(Ids) /\ Len(s.queue) <= MaxPending
      /\ w \in Work \union {None} /\ (s.pc = "work" <=> w # None /\ w.allowed)
  BY <1>1 DEF TasksTyped, Fit, Session
<1>3. out[c] \in Seq(Ids)
  BY DEF TypeOK, WiresTyped
<1>4. session = [session EXCEPT ![c] = s] /\ work = [work EXCEPT ![c] = w]
  BY <1>1 DEF TasksTyped
<1> HIDE DEF s, w
<1>5. CASE Read(c)
  <2>1. PICK id \in Ids, rest \in Seq(Ids) :
          /\ Len(rest) <= MaxPending
          /\ work' = [work EXCEPT ![c] = Started(id)]
          /\ session' = [session EXCEPT ![c].pc = "work", ![c].queue = rest]
    <3>1. CASE s.queue # <<>>
      <4>1. Head(s.queue) \in Ids /\ Tail(s.queue) \in Seq(Ids) /\ Len(Tail(s.queue)) <= MaxPending
        BY <1>2, <3>1
      <4>2. QED
        BY <1>5, <3>1, <4>1 DEF Read, s
    <3>2. CASE s.queue = <<>>
      <4>1. Head(out[c]) \in Ids
        BY <1>3, <1>5, <3>2 DEF Read, s
      <4>2. QED
        <5>1. work' = [work EXCEPT ![c] = Started(Head(out[c]))]
          BY <1>5, <3>2 DEF Read, s
        <5>2. session' = [session EXCEPT ![c].pc = "work", ![c].queue = <<>>]
          BY <1>5, <3>2 DEF Read, s
        <5>3. QED
          <6>1. Len(<<>>) <= MaxPending
            BY EmptyTyped
          <6>2. QED
            BY <4>1, <5>1, <5>2, <6>1, EmptyTyped, Zenon
    <3>3. QED
      BY <3>1, <3>2
  <2>2. session' = [session EXCEPT ![c] = [s EXCEPT !.pc = "work", !.queue = rest]]
    BY <2>1 DEF s
  <2>3. Started(id) \in Work /\ Started(id) # None /\ Started(id).allowed
    <3>1. Started(id) \in Work /\ Started(id).allowed
      BY DEF Started, Work
    <3>2. QED
      BY <3>1
  <2>4. /\ Fit([s EXCEPT !.pc = "work", !.queue = rest], Started(id))
        /\ [s EXCEPT !.pc = "work", !.queue = rest].pc # "none"
    BY <1>2, <2>1, <2>3, FitMoved
  <2>5. UNCHANGED attached
    BY <1>5 DEF Read, TaskCalm
  <2>6. QED
    BY <1>1, <2>1, <2>2, <2>4, <2>5, OneConnection
<1>6. ASSUME s.pc # "work", UNCHANGED <<attached, work>>,
             session' = [session EXCEPT ![c] = [s EXCEPT !.pc = "closing", !.queue = <<>>]]
      PROVE  TasksTyped'
  <2>1. /\ Fit([s EXCEPT !.pc = "closing", !.queue = <<>>], w)
        /\ [s EXCEPT !.pc = "closing", !.queue = <<>>].pc # "none"
    BY <1>2, <1>6, FitEnded
  <2>2. QED
    BY <1>1, <1>4, <1>6, <2>1, OneConnection
<1>7. CASE Leave(c)
  BY <1>6, <1>7 DEF Leave, TaskCalm, s
<1>8. CASE ReadOn(c)
  <2> DEFINE q == Append(s.queue, Head(out[c]))
  <2>1. q \in Seq(Ids) /\ Len(q) <= MaxPending
    BY <1>2, <1>3, <1>8 DEF ReadOn, s
  <2>2. Fit([s EXCEPT !.queue = q], w) /\ [s EXCEPT !.queue = q].pc # "none"
    <3>1. s.pc # "none"
      BY <1>8 DEF ReadOn, s
    <3> HIDE DEF q
    <3>2. QED
      BY <1>2, <2>1, <3>1, FitQueued
  <2>3. session' = [session EXCEPT ![c] = [s EXCEPT !.queue = q]] /\ UNCHANGED <<attached, work>>
    BY <1>8 DEF ReadOn, TaskCalm, s
  <2>4. QED
    BY <1>1, <1>4, <2>2, <2>3, OneConnection
<1>9. CASE Interrupted(c)
  BY <1>1, <1>9, AbandonTyped DEF Interrupted, TaskCalm
<1>10. CASE Silent(c)
  <2>1. CASE session[c].pc = "work" /\ Abandon(c)
    BY <1>1, <1>10, <2>1, AbandonTyped DEF Silent
  <2>2. CASE ~(session[c].pc = "work" /\ Abandon(c))
    BY <1>6, <1>10, <2>2 DEF Silent, s
  <2>3. QED
    BY <2>1, <2>2
<1>11. CASE Finish(c)
  <2> DEFINE t == [s EXCEPT !.pc = IF w.result = None THEN "loop" ELSE "answer", !.ack = w.result]
  <2>1. w.result \in Ids \union {None}
    BY <1>2, <1>11 DEF Finish, Work, s, w
  <2>2. Fit(t, None) /\ t.pc # "none"
    BY <1>2, <2>1, FitFinished
  <2>3. session' = [session EXCEPT ![c] = t] /\ work' = [work EXCEPT ![c] = None] /\ UNCHANGED attached
    BY <1>11 DEF Finish, TaskCalm, s, w
  <2> HIDE DEF t
  <2>4. QED
    BY <1>1, <2>2, <2>3, OneConnection
<1>12. CASE Acknowledge(c)
  <2>1. s.pc = "answer" /\ UNCHANGED <<attached, work>>
    BY <1>12 DEF Acknowledge, TaskCalm, s
  <2>2. /\ Fit([s EXCEPT !.pc = "loop", !.ack = None], w) /\ [s EXCEPT !.pc = "loop", !.ack = None].pc # "none"
        /\ Fit([s EXCEPT !.pc = "closing", !.ack = None, !.queue = <<>>], w)
        /\ [s EXCEPT !.pc = "closing", !.ack = None, !.queue = <<>>].pc # "none"
    <3>1. s.pc # "work" /\ ~(w # None /\ w.allowed)
      BY <1>2, <2>1
    <3>2. QED
      BY <1>2, <3>1, FitEnded, FitMoved
  <2>3. \/ session' = [session EXCEPT ![c] = [s EXCEPT !.pc = "loop", !.ack = None]]
        \/ session' = [session EXCEPT ![c] = [s EXCEPT !.pc = "closing", !.ack = None, !.queue = <<>>]]
    BY <1>12 DEF Acknowledge, s
  <2>4. QED
    BY <1>1, <1>4, <2>1, <2>2, <2>3, OneConnection
<1>13. CASE Close(c)
  <2>1. Fit(Unused, w) /\ (attached' = attached \/ attached' = 0) /\ attached' # c
    BY <1>2, <1>13, EmptyTyped DEF Close, Fit, Session, Unused, s, IsCurrent, Conns
  <2>2. session' = [session EXCEPT ![c] = Unused] /\ UNCHANGED work
    BY <1>13 DEF Close
  <2>3. QED
    BY <1>1, <1>4, <2>1, <2>2, OneConnection
<1>14. QED
  BY <1>5, <1>7, <1>8, <1>9, <1>10, <1>11, <1>12, <1>13 DEF Task

LEMMA TaskStepWires ==
  ASSUME WiresTyped, TasksTyped, NEW c \in Conns, Task(c) \/ Silent(c)
  PROVE  WiresTyped'
<1>1. CASE Acknowledge(c)
  <2>1. session[c].ack \in Ids
    BY <1>1 DEF Acknowledge, TasksTyped, Fit, Session
  <2>2. QED
    <3>1. Append(acks[c], session[c].ack) \in Seq(Ids)
      BY <2>1 DEF WiresTyped
    <3>2. acks' = [acks EXCEPT ![c] = Append(acks[c], session[c].ack)] \/ acks' = acks
      BY <1>1 DEF Acknowledge
    <3>3. UNCHANGED <<alive, out>>
      BY <1>1 DEF Acknowledge
    <3>4. QED
      BY <3>1, <3>2, <3>3 DEF WiresTyped
<1>2. CASE Close(c)
  BY <1>2, EmptyTyped DEF Close, WiresTyped
<1>3. CASE Read(c) \/ ReadOn(c)
  <2>1. UNCHANGED <<alive, acks>>
    BY <1>3 DEF Read, ReadOn
  <2>2. out' = out \/ (out' = [out EXCEPT ![c] = Tail(out[c])] /\ out[c] # <<>>)
    BY <1>3 DEF Read, ReadOn
  <2>3. out' \in [Conns -> Seq(Ids)]
    <3>1. CASE out' = out
      BY <3>1 DEF WiresTyped
    <3>2. CASE out' = [out EXCEPT ![c] = Tail(out[c])] /\ out[c] # <<>>
      <4>1. Tail(out[c]) \in Seq(Ids)
        BY <3>2 DEF WiresTyped
      <4>2. QED
        BY <3>2, <4>1 DEF WiresTyped
    <3>3. QED
      BY <2>2, <3>1, <3>2
  <2>4. QED
    BY <2>1, <2>3 DEF WiresTyped
<1>4. CASE Leave(c) \/ Interrupted(c) \/ Finish(c) \/ Silent(c)
  BY <1>4 DEF Leave, Interrupted, Finish, Silent, wires, WiresTyped
<1>5. QED
  BY <1>1, <1>2, <1>3, <1>4 DEF Task

LEMMA TaskStepTyped ==
  ASSUME TypeOK, NEW c \in Conns, Task(c) \/ Silent(c)
  PROVE  TypeOK'
<1>1. UNCHANGED <<phone, shown, acts>> /\ (faults' = faults \/ (faults' = faults + 1 /\ faults < MaxFaults))
  <2>1. CASE Silent(c)
    BY <2>1 DEF Silent
  <2>2. CASE Close(c)
    BY <2>2 DEF Close, bounds
  <2>3. CASE Task(c) /\ ~Close(c)
    <3>1. TaskCalm
      <4>1. CASE Read(c)
        BY <4>1 DEF Read
      <4>2. CASE Leave(c) \/ ReadOn(c) \/ Interrupted(c) \/ Finish(c) \/ Acknowledge(c)
        BY <4>2 DEF Leave, ReadOn, Interrupted, Finish, Acknowledge
      <4>3. QED
        BY <2>3, <4>1, <4>2 DEF Task
    <3>2. QED
      BY <3>1 DEF TaskCalm, bounds
  <2>4. QED
    BY <2>1, <2>2, <2>3
<1>2. PhoneTyped' /\ ShownTyped' /\ BoundsTyped'
  BY <1>1 DEF TypeOK, PhoneTyped, ShownTyped, BoundsTyped, phone, rowVars, shown
<1>3. QED
  BY <1>2, TaskStepTasks, TaskStepWires DEF TypeOK

\* The thread changes only itself: the task waits for it exactly as long as it is allowed.
LEMMA ThreadMoves ==
  ASSUME TasksTyped, NEW c \in Conns, UNCHANGED <<attached, session>>, work[c] # None,
         NEW w \in Work \union {None}, work' = [work EXCEPT ![c] = w],
         w # None => w.allowed = work[c].allowed, w = None => ~work[c].allowed
  PROVE  TasksTyped'
<1>1. Fit(session[c], work[c]) /\ (attached = c => session[c].pc # "none")
  BY DEF TasksTyped
<1>2. session[c].pc = "work" <=> w # None /\ w.allowed
  <2>1. CASE w = None
    BY <1>1, <2>1 DEF Fit
  <2>2. CASE w # None
    BY <1>1, <2>2 DEF Fit
  <2>3. QED
    BY <2>1, <2>2
<1>3. Fit(session[c], w)
  BY <1>1, <1>2 DEF Fit
<1>4. session' = [session EXCEPT ![c] = session[c]]
  BY DEF TasksTyped
<1>5. QED
  BY <1>1, <1>3, <1>4, OneConnection

LEMMA ThreadStepTyped ==
  ASSUME TypeOK, NEW c \in Conns, Thread(c)
  PROVE  TypeOK'
<1> DEFINE w == work[c]
<1>1. TasksTyped /\ w \in Work /\ w # None
  BY DEF TypeOK, TasksTyped, Thread, Begin, Exists, Write, After, Popup, ThreadIn
<1>2. UNCHANGED <<phone, wires, attached, session, bounds>>
  BY DEF Thread, Begin, Exists, Write, After, Popup, ThreadIn
<1>3. PhoneTyped' /\ WiresTyped' /\ BoundsTyped'
  BY <1>2 DEF TypeOK, PhoneTyped, WiresTyped, BoundsTyped, phone, rowVars, wires, bounds
<1> HIDE DEF w
<1>4. ASSUME NEW r \in Ids \union {None}, Return(c, r)
      PROVE  TasksTyped'
  <2> DEFINE v == IF w.allowed THEN [w EXCEPT !.pc = "done", !.existed = FALSE, !.result = r] ELSE None
  <2>1. work' = [work EXCEPT ![c] = v]
    BY <1>4 DEF Return, w
  <2>2. v \in Work \union {None} /\ (v # None => v.allowed = w.allowed) /\ (v = None => ~w.allowed)
    BY <1>1 DEF Work
  <2> HIDE DEF v
  <2>3. QED
    BY <1>1, <1>2, <2>1, <2>2, ThreadMoves DEF w
<1>5. ASSUME NEW p \in {"exists", "write", "after", "popup"}, NEW e \in BOOLEAN,
             work' = [work EXCEPT ![c] = [w EXCEPT !.pc = p, !.existed = e]]
      PROVE  TasksTyped'
  <2> DEFINE v == [w EXCEPT !.pc = p, !.existed = e]
  <2>1. v \in Work /\ v.allowed = w.allowed
    BY <1>1 DEF Work
  <2>2. v # None /\ work' = [work EXCEPT ![c] = v]
    BY <1>5, <2>1
  <2> HIDE DEF v
  <2>3. QED
    BY <1>1, <1>2, <2>1, <2>2, ThreadMoves DEF w
<1>6. ASSUME NEW p \in {"exists", "write", "after", "popup"}, Goto(c, p)
      PROVE  TasksTyped'
  <2>1. [w EXCEPT !.pc = p] = [w EXCEPT !.pc = p, !.existed = w.existed] /\ w.existed \in BOOLEAN
    BY <1>1 DEF Work
  <2>2. work' = [work EXCEPT ![c] = [w EXCEPT !.pc = p]]
    BY <1>6 DEF Goto, w
  <2>3. QED
    BY <1>5, <2>1, <2>2
<1>7. w.id \in Ids
  BY <1>1 DEF Work
<1>8. CASE Begin(c)
  BY <1>3, <1>4, <1>6, <1>7, <1>8 DEF Begin, TypeOK, ShownTyped, shown, w
<1>9. CASE Exists(c)
  <2>1. \/ Return(c, None)
        \/ \E e \in BOOLEAN : work' = [work EXCEPT ![c] = [w EXCEPT !.pc = "write", !.existed = e]]
    BY <1>9 DEF Exists, w
  <2>2. QED
    BY <1>3, <1>4, <1>5, <1>9, <2>1 DEF Exists, TypeOK, ShownTyped, shown
<1>10. CASE Write(c)
  <2>1. TasksTyped'
    BY <1>6, <1>10 DEF Write
  <2>2. ShownTyped'
    BY <1>7, <1>10 DEF Write, Upsert, TypeOK, ShownTyped, w
  <2>3. QED
    BY <1>3, <2>1, <2>2 DEF TypeOK
<1>11. CASE After(c)
  BY <1>3, <1>4, <1>6, <1>7, <1>11 DEF After, TypeOK, ShownTyped, shown, w
<1>12. CASE Popup(c)
  <2>1. TasksTyped'
    BY <1>4, <1>7, <1>12 DEF Popup, w
  <2>2. Content(w.id) \in Contents
    BY <1>7 DEF Contents
  <2>3. ShownTyped'
    BY <1>12, <2>2 DEF Popup, TypeOK, ShownTyped, w
  <2>4. QED
    BY <1>3, <2>1, <2>3 DEF TypeOK
<1>13. QED
  BY <1>8, <1>9, <1>10, <1>11, <1>12 DEF Thread

LEMMA UserStepTyped ==
  ASSUME TypeOK, NEW id \in Ids, MarkImportant(id) \/ Delete(id)
  PROVE  TypeOK'
<1>1. UNCHANGED <<phone, wires, tasks, faults>> /\ acts' = acts + 1 /\ acts < MaxActs
  BY DEF MarkImportant, Delete
<1>2. PhoneTyped' /\ WiresTyped' /\ BoundsTyped' /\ TasksTyped'
  BY <1>1 DEF TypeOK, PhoneTyped, WiresTyped, BoundsTyped, TasksTyped, Fit, phone, rowVars, wires, tasks
<1>3. Content(id) \in Contents
  BY DEF Contents
<1>4. ShownTyped'
  BY <1>3 DEF MarkImportant, Delete, TypeOK, ShownTyped
<1>5. QED
  BY <1>2, <1>4 DEF TypeOK

LEMMA NextTyped == TypeOK /\ [Next]_vars => TypeOK'
<1> SUFFICES ASSUME TypeOK, [Next]_vars PROVE TypeOK'
  OBVIOUS
<1>1. CASE UNCHANGED vars
  BY <1>1 DEF vars, TypeOK, PhoneTyped, WiresTyped, ShownTyped, BoundsTyped, TasksTyped, Fit,
              phone, rowVars, wires, tasks, shown, bounds
<1>2. CASE Next
  BY <1>2, PhoneStepTyped, FaultTyped, TaskStepTyped, ThreadStepTyped, UserStepTyped DEF Next
<1>3. QED
  BY <1>1, <1>2

\* The rows, the frames, the tasks and threads and what the PC shows are of their types: in
\* particular a queue never exceeds its limit, a task waits for its thread exactly as long as
\* the thread has its permit, and the slot never names a connection without a task.
THEOREM TypeCorrect == Spec => []TypeOK
<1>1. QED
  BY InitTyped, NextTyped, PTL DEF Spec

-----------------------------------------------------------------------------
(* What the phone is told is true. *)

\* Of the messages S, one says what i says.
Held(i, S) == \E j \in S : Content(j) = Content(i)

InboxStored   == \A i \in Ids : inbox[i] # "none" => i \in stored
AcksKnown     == \A c \in Conns : \A n \in 1..Len(acks[c]) : Held(acks[c][n], stored)
AnswersKnown  == \A c \in Conns : session[c].pc = "answer" => Held(session[c].ack, stored)
ResultHeld(w, S) ==
  w # None => /\ w.pc \in {"after", "popup"} => w.id \in S
              /\ w.result # None => Held(w.result, S)
ResultsKnown  == \A c \in Conns : ResultHeld(work[c], stored)

Acknowledged == InboxStored /\ AcksKnown /\ AnswersKnown /\ ResultsKnown /\ SentIsStored

LEMMA InitAcknowledged == Init => Acknowledged
  BY DEF Init, Acknowledged, InboxStored, AcksKnown, AnswersKnown, ResultsKnown, ResultHeld, SentIsStored,
         Unused, Conns

\* What was stored stays so, and what was known.
LEMMA KnownStays ==
  ASSUME stored \subseteq stored'
  PROVE  /\ \A i : Held(i, stored) => Held(i, stored')
         /\ \A w : ResultHeld(w, stored) => ResultHeld(w, stored')
<1>1. \A i : Held(i, stored) => Held(i, stored')
  BY DEF Held
<1>2. QED
  BY <1>1 DEF ResultHeld

LEMMA PhoneAcknowledged ==
  ASSUME TypeOK, Acknowledged,
         \/ MarkSent \/ Dismiss \/ Hangup \/ PhoneDies \/ \E c \in Conns : Lose(c)
         \/ \E id \in Ids : Post(id) \/ Capturing(id) \/ Send(id) \/ ClearRow(id)
  PROVE  Acknowledged'
<1>1. UNCHANGED <<session, work, inbox, stored>>
  BY DEF MarkSent, Dismiss, Hangup, PhoneDies, Lose, Post, Capturing, CheckRow, SaveRow, Send, ClearRow,
         PcCalm, tasks, shown
<1>2. /\ \A i : Held(i, stored) => Held(i, stored')
      /\ \A w : ResultHeld(w, stored) => ResultHeld(w, stored')
  BY <1>1, KnownStays
<1>3. InboxStored' /\ AnswersKnown' /\ ResultsKnown'
  BY <1>1, <1>2 DEF Acknowledged, InboxStored, AnswersKnown, ResultsKnown
<1>4. ASSUME UNCHANGED acks PROVE AcksKnown'
  BY <1>2, <1>4 DEF Acknowledged, AcksKnown
<1>5. ASSUME UNCHANGED rowVars PROVE SentIsStored'
  BY <1>1, <1>5 DEF Acknowledged, SentIsStored, rowVars
<1>6. CASE MarkSent
  <2>1. /\ link \in Conns /\ acks[link] \in Seq(Ids) /\ acks[link] # <<>>
        /\ rows' = Marked({Head(acks[link])}) /\ dismissed' = dismissed
        /\ acks' = [acks EXCEPT ![link] = Tail(@)]
    BY <1>6 DEF MarkSent, TypeOK, PhoneTyped, WiresTyped
  <2>2. Head(acks[link]) = acks[link][1] /\ 1 \in 1..Len(acks[link])
    BY <2>1
  <2>3. Held(Head(acks[link]), stored)
    BY <2>1, <2>2 DEF Acknowledged, AcksKnown
  <2>4. SentIsStored'
    BY <1>1, <2>1, <2>3 DEF Acknowledged, SentIsStored, Marked, Held
  <2>5. ASSUME NEW c \in Conns, NEW n \in 1..Len(acks'[c]) PROVE Held(acks'[c][n], stored)
    <3>1. CASE c = link
      <4>1. acks'[c] = Tail(acks[c])
        BY <2>1, <3>1 DEF TypeOK, WiresTyped
      <4>2. acks'[c][n] = acks[c][n + 1] /\ n + 1 \in 1..Len(acks[c])
        BY <2>1, <3>1, <4>1, TailShifts
      <4>3. QED
        BY <4>2 DEF Acknowledged, AcksKnown
    <3>2. CASE c # link
      BY <2>1, <3>2 DEF Acknowledged, AcksKnown, TypeOK, WiresTyped
    <3>3. QED
      BY <3>1, <3>2
  <2>6. AcksKnown'
    BY <1>2, <2>5 DEF AcksKnown
  <2>7. QED
    BY <1>3, <2>4, <2>6 DEF Acknowledged
<1>7. CASE Dismiss
  <2>1. SentIsStored'
    BY <1>1, <1>7 DEF Dismiss, Marked, Acknowledged, SentIsStored, TypeOK, PhoneTyped
  <2>2. QED
    BY <1>3, <1>4, <1>7, <2>1 DEF Acknowledged, Dismiss, wires
<1>8. CASE Hangup \/ PhoneDies
  <2>1. UNCHANGED rowVars
    BY <1>8 DEF Hangup, PhoneDies
  <2>2. ASSUME NEW c \in Conns PROVE acks'[c] = acks[c] \/ acks'[c] = <<>>
    BY <1>8 DEF Hangup, PhoneDies, TypeOK, WiresTyped
  <2>3. AcksKnown'
    BY <1>2, <2>2 DEF Acknowledged, AcksKnown
  <2>4. QED
    BY <1>3, <1>5, <2>1, <2>3 DEF Acknowledged
<1>9. ASSUME NEW d \in Conns, Lose(d) PROVE Acknowledged'
  <2>1. UNCHANGED rowVars
    BY <1>9 DEF Lose, phone
  <2>2. PICK m \in 0..Len(acks[d]) : acks' = [acks EXCEPT ![d] = SubSeq(@, 1, m)]
    BY <1>9 DEF Lose
  <2>3. ASSUME NEW c \in Conns, NEW n \in 1..Len(acks'[c]) PROVE Held(acks'[c][n], stored)
    <3>1. CASE c = d
      <4>1. acks'[c] = SubSeq(acks[c], 1, m) /\ acks[c] \in Seq(Ids) /\ m \in 0..Len(acks[c])
        BY <2>2, <3>1 DEF TypeOK, WiresTyped
      <4>2. acks'[c][n] = acks[c][n] /\ n \in 1..Len(acks[c])
        BY <4>1, SubSeqPrefix
      <4>3. QED
        BY <4>2 DEF Acknowledged, AcksKnown
    <3>2. CASE c # d
      BY <2>2, <3>2 DEF Acknowledged, AcksKnown, TypeOK, WiresTyped
    <3>3. QED
      BY <3>1, <3>2
  <2>4. AcksKnown'
    BY <1>2, <2>3 DEF AcksKnown
  <2>5. QED
    BY <1>3, <1>5, <2>1, <2>4 DEF Acknowledged
<1>10. ASSUME NEW id \in Ids, Post(id) \/ CheckRow(id) \/ Send(id) PROVE Acknowledged'
  <2>1. UNCHANGED <<rowVars, acks>>
    BY <1>10 DEF Post, CheckRow, Send, wires
  <2>2. QED
    BY <1>3, <1>4, <1>5, <2>1 DEF Acknowledged
<1>11. ASSUME NEW id \in Ids, SaveRow(id) \/ ClearRow(id) PROVE Acknowledged'
  <2>1. /\ UNCHANGED acks /\ dismissed' = dismissed \ {id}
        /\ rows' = [rows EXCEPT ![id] = "pending"] \/ rows' = [rows EXCEPT ![id] = "none"]
    BY <1>11 DEF SaveRow, ClearRow, wires
  <2>2. SentIsStored'
    BY <1>1, <2>1 DEF Acknowledged, SentIsStored, TypeOK, PhoneTyped
  <2>3. QED
    BY <1>3, <1>4, <2>1, <2>2 DEF Acknowledged
<1>12. QED
  BY <1>6, <1>7, <1>8, <1>9, <1>10, <1>11 DEF Capturing

LEMMA TaskAcknowledged ==
  ASSUME TypeOK, Acknowledged,
         Connect \/ DesktopDies \/ \E c \in Conns : Task(c) \/ Silent(c)
  PROVE  Acknowledged'
<1>1. UNCHANGED <<rows, dismissed, inbox, stored>>
  <2>1. CASE Connect \/ DesktopDies \/ \E c \in Conns : Silent(c)
    BY <2>1 DEF Connect, DesktopDies, Silent, phone, rowVars, shown
  <2>2. ASSUME NEW c \in Conns, Task(c) PROVE UNCHANGED <<phone, shown>>
    <3>1. CASE Read(c)
      BY <3>1 DEF Read, TaskCalm
    <3>2. CASE Leave(c) \/ ReadOn(c) \/ Interrupted(c) \/ Finish(c) \/ Acknowledge(c) \/ Close(c)
      BY <3>2 DEF Leave, ReadOn, Interrupted, Finish, Acknowledge, Close, TaskCalm
    <3>3. QED
      BY <2>2, <3>1, <3>2 DEF Task
  <2>3. QED
    BY <2>1, <2>2 DEF phone, rowVars, shown
<1>2. /\ \A i : Held(i, stored) => Held(i, stored')
      /\ \A w : ResultHeld(w, stored) => ResultHeld(w, stored')
  BY <1>1, KnownStays
<1>3. InboxStored' /\ SentIsStored'
  BY <1>1 DEF Acknowledged, InboxStored, SentIsStored
\* Whatever leaves the answers, the threads or the acknowledgements as they were keeps them.
<1>4. ASSUME UNCHANGED acks PROVE AcksKnown'
  BY <1>2, <1>4 DEF Acknowledged, AcksKnown
<1>5. ASSUME UNCHANGED work PROVE ResultsKnown'
  BY <1>2, <1>5 DEF Acknowledged, ResultsKnown
<1>6. ASSUME \A d \in Conns : session'[d].pc = "answer" => session[d].pc = "answer" /\ session'[d].ack = session[d].ack
      PROVE  AnswersKnown'
  BY <1>2, <1>6 DEF Acknowledged, AnswersKnown
<1>7. session \in [Conns -> Session] /\ work \in [Conns -> Work \union {None}] /\ acks \in [Conns -> Seq(Ids)]
  BY DEF TypeOK, TasksTyped, WiresTyped
<1>8. CASE Connect
  <2>1. PICK c \in Conns : session' = [d \in Conns |-> IF d = c THEN [Unused EXCEPT !.pc = "loop"]
                                                       ELSE [session[d] EXCEPT !.queue = <<>>]]
    BY <1>8 DEF Connect, Free
  <2>2. ASSUME NEW d \in Conns, session'[d].pc = "answer"
        PROVE  session[d].pc = "answer" /\ session'[d].ack = session[d].ack
    <3>1. CASE d = c
      BY <2>1, <2>2, <3>1 DEF Unused
    <3>2. CASE d # c
      <4>1. session'[d] = [session[d] EXCEPT !.queue = <<>>] /\ session[d] \in Session
        BY <1>7, <2>1, <3>2
      <4>2. QED
        BY <2>2, <4>1 DEF Session
    <3>3. QED
      BY <3>1, <3>2
  <2>3. QED
    BY <1>3, <1>4, <1>5, <1>6, <1>8, <2>2 DEF Acknowledged, Connect
<1>9. CASE DesktopDies
  <2>1. AnswersKnown' /\ ResultsKnown'
    BY <1>9 DEF DesktopDies, AnswersKnown, ResultsKnown, ResultHeld, Unused
  <2>2. QED
    BY <1>3, <1>4, <1>9, <2>1 DEF Acknowledged, DesktopDies
<1>10. ASSUME NEW c \in Conns, NEW id, work' = [work EXCEPT ![c] = Started(id)] PROVE ResultsKnown'
  BY <1>2, <1>7, <1>10 DEF Acknowledged, ResultsKnown, ResultHeld, Started
<1>11. ASSUME NEW c \in Conns, session' = [session EXCEPT ![c] = session'[c]], session'[c].pc # "answer"
       PROVE  AnswersKnown'
  <2>1. ASSUME NEW d \in Conns, session'[d].pc = "answer"
        PROVE  session[d].pc = "answer" /\ session'[d].ack = session[d].ack
    BY <1>7, <1>11, <2>1
  <2>2. QED
    BY <1>6, <2>1
<1>12. ASSUME NEW c \in Conns, session[c].pc = "work", Abandon(c), UNCHANGED acks PROVE Acknowledged'
  <2>1. session' = [session EXCEPT ![c] = session'[c]] /\ session'[c].pc # "answer"
    BY <1>7, <1>12 DEF Abandon, Session
  <2>2. work[c] \in Work
    BY <1>7, <1>12 DEF TypeOK, TasksTyped, Fit
  <2>3. ASSUME NEW d \in Conns
        PROVE  \/ work'[d] = work[d] \/ work'[d] = None
               \/ /\ work[d] \in Work /\ work'[d].pc = work[d].pc /\ work'[d].id = work[d].id
                  /\ work'[d].result = work[d].result
    BY <1>7, <1>12, <2>2 DEF Abandon, Work
  <2>4. ASSUME NEW d \in Conns PROVE ResultHeld(work'[d], stored')
    <3>1. ResultHeld(work[d], stored') /\ (work[d] \in Work => work[d] # None)
      BY <1>2 DEF Acknowledged, ResultsKnown
    <3>2. QED
      BY <2>3, <3>1 DEF ResultHeld
  <2>5. ResultsKnown'
    BY <2>4 DEF ResultsKnown, ResultHeld
  <2>6. QED
    BY <1>3, <1>4, <1>11, <1>12, <2>1, <2>5 DEF Acknowledged
<1>13. ASSUME NEW c \in Conns, Read(c) PROVE Acknowledged'
  <2>1. PICK id, rest : /\ work' = [work EXCEPT ![c] = Started(id)]
                       /\ session' = [session EXCEPT ![c].pc = "work", ![c].queue = rest]
    BY <1>13 DEF Read
  <2>2. session' = [session EXCEPT ![c] = session'[c]] /\ session'[c].pc # "answer"
    BY <1>7, <2>1 DEF Session
  <2>3. QED
    BY <1>3, <1>4, <1>10, <1>11, <1>13, <2>1, <2>2 DEF Acknowledged, Read
<1>14. ASSUME NEW c \in Conns, Leave(c) \/ ReadOn(c) \/ Close(c) PROVE Acknowledged'
  <2>1. session' = [session EXCEPT ![c] = session'[c]] /\ session'[c].pc # "answer"
    <3>1. CASE Leave(c)
      BY <1>7, <3>1 DEF Leave, Session
    <3>2. CASE ReadOn(c)
      <4>1. session[c] \in Session /\ session[c].pc = "work" /\ session' = [session EXCEPT ![c].queue = Append(@, Head(out[c]))]
        BY <1>7, <3>2 DEF ReadOn
      <4>2. QED
        BY <1>7, <4>1 DEF Session
    <3>3. CASE Close(c)
      BY <1>7, <3>3 DEF Close, Unused
    <3>4. QED
      BY <1>14, <3>1, <3>2, <3>3
  <2>2. UNCHANGED <<acks, work>>
    BY <1>14 DEF Leave, ReadOn, Close, wires
  <2>3. QED
    BY <1>3, <1>4, <1>5, <1>11, <2>1, <2>2 DEF Acknowledged
<1>15. ASSUME NEW c \in Conns, Interrupted(c) PROVE Acknowledged'
  BY <1>12, <1>15 DEF Interrupted, wires
<1>16. ASSUME NEW c \in Conns, Silent(c) PROVE Acknowledged'
  <2>1. CASE session[c].pc = "work"
    BY <1>12, <1>16, <2>1 DEF Silent, wires
  <2>2. CASE session[c].pc = "loop"
    <3>1. session' = [session EXCEPT ![c] = session'[c]] /\ session'[c].pc # "answer"
      BY <1>7, <1>16, <2>2 DEF Silent, Session
    <3>2. QED
      BY <1>3, <1>4, <1>5, <1>11, <1>16, <2>2, <3>1 DEF Acknowledged, Silent, wires
  <2>3. QED
    BY <1>16, <2>1, <2>2 DEF Silent
<1>17. ASSUME NEW c \in Conns, Finish(c) PROVE Acknowledged'
  <2>1. work[c] \in Work /\ work[c] # None
    BY <1>7, <1>17 DEF Finish, TypeOK, TasksTyped, Fit
  <2>2. work[c].result # None => Held(work[c].result, stored')
    BY <1>2, <2>1 DEF Acknowledged, ResultsKnown, ResultHeld
  <2>3. session' = [session EXCEPT ![c].pc = IF work[c].result = None THEN "loop" ELSE "answer",
                                   ![c].ack = work[c].result]
    BY <1>17 DEF Finish
  <2>4. session'[c].pc = "answer" => work[c].result # None /\ session'[c].ack = work[c].result
    BY <1>7, <2>3 DEF Session
  <2>5. AnswersKnown'
    <3>1. ASSUME NEW d \in Conns, session'[d].pc = "answer" PROVE Held(session'[d].ack, stored')
      <4>1. CASE d = c
        BY <2>2, <2>4, <3>1, <4>1
      <4>2. CASE d # c
        BY <1>2, <1>7, <2>3, <3>1, <4>2 DEF Acknowledged, AnswersKnown
      <4>3. QED
        BY <4>1, <4>2
    <3>2. QED
      BY <3>1 DEF AnswersKnown, Held
  <2>6. ResultsKnown'
    <3>1. work' = [work EXCEPT ![c] = None]
      BY <1>17 DEF Finish
    <3>2. QED
      BY <1>2, <1>7, <3>1 DEF Acknowledged, ResultsKnown, ResultHeld
  <2>7. QED
    BY <1>3, <1>4, <1>17, <2>5, <2>6 DEF Acknowledged, Finish, wires
<1>18. ASSUME NEW c \in Conns, Acknowledge(c) PROVE Acknowledged'
  <2>1. session' = [session EXCEPT ![c] = session'[c]] /\ session'[c].pc # "answer"
    BY <1>7, <1>18 DEF Acknowledge, Session
  <2>2. acks' = acks \/ acks' = [acks EXCEPT ![c] = Append(@, session[c].ack)]
    BY <1>18 DEF Acknowledge
  <2>3. session[c].ack \in Ids /\ Held(session[c].ack, stored')
    BY <1>2, <1>7, <1>18 DEF Acknowledge, Acknowledged, AnswersKnown, TypeOK, TasksTyped, Fit, Session
  <2>4. CASE acks' = [acks EXCEPT ![c] = Append(@, session[c].ack)]
    <3>1. ASSUME NEW d \in Conns, NEW n \in 1..Len(acks'[d]) PROVE Held(acks'[d][n], stored')
      <4>1. CASE d = c
        <5>1. acks'[d] = Append(acks[d], session[c].ack) /\ acks[d] \in Seq(Ids)
          BY <1>7, <2>4, <4>1
        <5>2. acks'[d][n] = session[c].ack \/ (n \in 1..Len(acks[d]) /\ acks'[d][n] = acks[d][n])
          BY <2>3, <5>1, AppendAdds
        <5>3. QED
          BY <1>2, <2>3, <5>2 DEF Acknowledged, AcksKnown
      <4>2. CASE d # c
        BY <1>2, <1>7, <2>4, <4>2 DEF Acknowledged, AcksKnown
      <4>3. QED
        BY <4>1, <4>2
    <3>2. AcksKnown'
      BY <3>1 DEF AcksKnown, Held
    <3>3. QED
      BY <1>3, <1>5, <1>11, <1>18, <2>1, <3>2 DEF Acknowledged, Acknowledge
  <2>5. CASE acks' = acks
    BY <1>3, <1>4, <1>5, <1>11, <1>18, <2>1, <2>5 DEF Acknowledged, Acknowledge
  <2>6. QED
    BY <2>2, <2>4, <2>5
<1>19. QED
  BY <1>8, <1>9, <1>13, <1>14, <1>15, <1>16, <1>17, <1>18 DEF Task

\* Only Write stores, and it does so before its answer.
LEMMA ThreadAcknowledged ==
  ASSUME TypeOK, Acknowledged, NEW c \in Conns, Thread(c)
  PROVE  Acknowledged'
<1>1. UNCHANGED <<rows, dismissed, acks, session>> /\ work[c] # None
  BY DEF Thread, Begin, Exists, Write, After, Popup, ThreadIn, phone, rowVars, wires
<1>2. stored \subseteq stored'
  BY DEF Thread, Begin, Exists, Write, After, Popup, shown
<1>3. /\ \A i : Held(i, stored) => Held(i, stored')
      /\ \A w : ResultHeld(w, stored) => ResultHeld(w, stored')
  BY <1>2, KnownStays
<1>4. AcksKnown' /\ AnswersKnown' /\ SentIsStored'
  BY <1>1, <1>3 DEF Acknowledged, AcksKnown, AnswersKnown, SentIsStored, Held
<1>5. work \in [Conns -> Work \union {None}] /\ work[c] \in Work /\ work[c].id \in Ids /\ inbox \in [Ids -> {"none", "NEW", "IMPORTANT"}]
  BY <1>1 DEF TypeOK, TasksTyped, ShownTyped, Work
<1>6. ASSUME NEW w, work' = [work EXCEPT ![c] = w], ResultHeld(w, stored') PROVE ResultsKnown'
  BY <1>3, <1>5, <1>6 DEF Acknowledged, ResultsKnown, ResultHeld
<1>7. ASSUME NEW r, r # None => Held(r, stored'), Return(c, r) PROVE ResultsKnown'
  <2> DEFINE w == IF work[c].allowed THEN [work[c] EXCEPT !.pc = "done", !.existed = FALSE, !.result = r] ELSE None
  <2>1. work' = [work EXCEPT ![c] = w]
    BY <1>7 DEF Return
  <2>2. ResultHeld(w, stored')
    BY <1>5, <1>7 DEF ResultHeld, Work
  <2>3. QED
    BY <1>6, <2>1, <2>2
<1>8. work[c].pc \in {"after", "popup"} => Held(work[c].id, stored')
  BY <1>1, <1>3, <1>5 DEF Acknowledged, ResultsKnown, ResultHeld, Held
\* A step of the thread that does not return.
<1>9. ASSUME NEW p \in {"exists", "write", "after", "popup"}, NEW e \in BOOLEAN,
             work' = [work EXCEPT ![c] = [work[c] EXCEPT !.pc = p, !.existed = e]],
             p \in {"after", "popup"} => work[c].id \in stored'
      PROVE  ResultsKnown'
  <2> DEFINE w == [work[c] EXCEPT !.pc = p, !.existed = e]
  <2>1. w.pc = p /\ w.id = work[c].id /\ w.result = work[c].result
    BY <1>5 DEF Work
  <2>2. work[c].result # None => Held(work[c].result, stored')
    BY <1>1, <1>3 DEF Acknowledged, ResultsKnown, ResultHeld
  <2>3. ResultHeld(w, stored')
    BY <1>9, <2>1, <2>2 DEF ResultHeld
  <2>4. QED
    BY <1>6, <1>9, <2>3
<1>10. ASSUME NEW p \in {"exists", "write", "after", "popup"}, Goto(c, p),
              p \in {"after", "popup"} => work[c].id \in stored'
       PROVE  ResultsKnown'
  <2>1. [work[c] EXCEPT !.pc = p] = [work[c] EXCEPT !.pc = p, !.existed = work[c].existed] /\ work[c].existed \in BOOLEAN
    BY <1>5 DEF Work
  <2>2. work' = [work EXCEPT ![c] = [work[c] EXCEPT !.pc = p]]
    BY <1>10 DEF Goto
  <2>3. QED
    BY <1>9, <1>10, <2>1, <2>2
<1>11. ASSUME UNCHANGED <<inbox, stored>> PROVE InboxStored'
  BY <1>11 DEF Acknowledged, InboxStored
<1>12. CASE Begin(c)
  <2>1. UNCHANGED <<inbox, stored>>
    BY <1>12 DEF Begin, shown
  <2>2. ResultsKnown'
    <3>1. CASE Return(c, None)
      BY <1>7, <3>1
    <3>2. CASE Return(c, work[c].id) /\ Equivalent(work[c].id)
      <4>1. Held(work[c].id, stored)
        BY <3>2 DEF Equivalent, Held, Acknowledged, InboxStored
      <4>2. QED
        BY <1>3, <1>7, <3>2, <4>1
    <3>3. CASE Goto(c, "exists")
      BY <1>10, <3>3
    <3>4. QED
      BY <1>12, <3>1, <3>2, <3>3 DEF Begin
  <2>3. QED
    BY <1>4, <1>11, <2>1, <2>2 DEF Acknowledged
<1>13. CASE Exists(c)
  <2>1. UNCHANGED <<inbox, stored>>
    BY <1>13 DEF Exists, shown
  <2>2. \/ Return(c, None)
        \/ \E e \in BOOLEAN : work' = [work EXCEPT ![c] = [work[c] EXCEPT !.pc = "write", !.existed = e]]
    BY <1>13 DEF Exists
  <2>3. ResultsKnown'
    BY <1>7, <1>9, <2>2
  <2>4. QED
    BY <1>4, <1>11, <2>1, <2>3 DEF Acknowledged
<1>14. CASE Write(c)
  <2>1. ResultsKnown'
    BY <1>10, <1>14 DEF Write
  <2>2. InboxStored'
    BY <1>5, <1>14 DEF Write, Upsert, Acknowledged, InboxStored
  <2>3. QED
    BY <1>4, <2>1, <2>2 DEF Acknowledged
<1>15. CASE After(c)
  <2>1. UNCHANGED <<inbox, stored>> /\ work[c].pc = "after"
    BY <1>15 DEF After, ThreadIn, shown
  <2>2. work[c].id \in stored'
    BY <1>1, <2>1 DEF Acknowledged, ResultsKnown, ResultHeld
  <2>3. ResultsKnown'
    BY <1>7, <1>8, <1>10, <1>15, <2>1, <2>2 DEF After
  <2>4. QED
    BY <1>4, <1>11, <2>1, <2>3 DEF Acknowledged
<1>16. CASE Popup(c)
  <2>1. UNCHANGED <<inbox, stored>> /\ work[c].pc = "popup" /\ Return(c, work[c].id)
    BY <1>16 DEF Popup, ThreadIn
  <2>2. ResultsKnown'
    BY <1>7, <1>8, <2>1
  <2>3. QED
    BY <1>4, <1>11, <2>1, <2>2 DEF Acknowledged
<1>17. QED
  BY <1>12, <1>13, <1>14, <1>15, <1>16 DEF Thread

LEMMA NextAcknowledged == TypeOK /\ Acknowledged /\ [Next]_vars => Acknowledged'
<1> SUFFICES ASSUME TypeOK, Acknowledged, [Next]_vars PROVE Acknowledged'
  OBVIOUS
<1>1. CASE UNCHANGED vars
  BY <1>1 DEF vars, Acknowledged, InboxStored, AcksKnown, AnswersKnown, ResultsKnown, ResultHeld, Held,
              SentIsStored, phone, rowVars, wires, tasks, shown
<1>2. ASSUME NEW id \in Ids, MarkImportant(id) \/ Delete(id) PROVE Acknowledged'
  <2>1. UNCHANGED <<rows, dismissed, acks, session, work, stored>>
    BY <1>2 DEF MarkImportant, Delete, phone, rowVars, wires, tasks
  <2>2. InboxStored'
    BY <1>2, <2>1 DEF MarkImportant, Delete, Acknowledged, InboxStored, TypeOK, ShownTyped
  <2>3. AcksKnown' /\ AnswersKnown' /\ ResultsKnown' /\ SentIsStored'
    BY <2>1 DEF Acknowledged, AcksKnown, AnswersKnown, ResultsKnown, ResultHeld, Held, SentIsStored
  <2>4. QED
    BY <2>2, <2>3 DEF Acknowledged
<1>3. CASE Next
  BY <1>2, <1>3, PhoneAcknowledged, TaskAcknowledged, ThreadAcknowledged DEF Next
<1>4. QED
  BY <1>1, <1>3

\* Whatever is lost, replaced, restarted or sent twice: a row of the phone is marked sent only
\* when the PC has stored that message or the user has dismissed it.  Every acknowledgement on
\* its way, every answer of a task and every result of a thread names a message that is stored.
THEOREM SentMeansStored == Spec => []SentIsStored
<1>1. Acknowledged => SentIsStored
  BY DEF Acknowledged
<1>2. QED
  BY InitAcknowledged, NextAcknowledged, TypeCorrect, <1>1, PTL DEF Spec

-----------------------------------------------------------------------------
(* What the user made of a notification. *)

LEMMA StepKeepsStatus ==
  ASSUME TypeOK, [Next]_vars
  PROVE  [\A i \in Ids : inbox[i] = "IMPORTANT" /\ inbox'[i] # "IMPORTANT" => acts' # acts]_vars
<1> SUFFICES ASSUME Next, NEW i \in Ids, inbox[i] = "IMPORTANT", inbox'[i] # "IMPORTANT" PROVE acts' # acts
  OBVIOUS
<1>1. acts \in Nat /\ inbox \in [Ids -> {"none", "NEW", "IMPORTANT"}]
  BY DeliveryAssumption DEF TypeOK, BoundsTyped, ShownTyped
<1>2. inbox' # inbox
  OBVIOUS
<1>3. \/ \E c \in Conns : Write(c)
      \/ \E id \in Ids : MarkImportant(id) \/ Delete(id)
  <2>1. ~(MarkSent \/ Dismiss \/ Connect \/ Hangup \/ PhoneDies \/ DesktopDies)
    BY <1>2 DEF MarkSent, Dismiss, Connect, Hangup, PhoneDies, DesktopDies, PcCalm, shown
  <2>2. \A id \in Ids : ~(Post(id) \/ Capturing(id) \/ Send(id) \/ ClearRow(id))
    BY <1>2 DEF Post, Capturing, CheckRow, SaveRow, Send, ClearRow, PcCalm, shown
  <2>3. ASSUME NEW c \in Conns PROVE ~Task(c)
    <3>1. ~Read(c)
      BY <1>2 DEF Read, TaskCalm, shown
    <3>2. ~(Leave(c) \/ ReadOn(c) \/ Interrupted(c) \/ Finish(c) \/ Acknowledge(c) \/ Close(c))
      BY <1>2 DEF Leave, ReadOn, Interrupted, Finish, Acknowledge, Close, TaskCalm, shown
    <3>3. QED
      BY <3>1, <3>2 DEF Task
  <2>4. \A c \in Conns : ~(Lose(c) \/ Silent(c) \/ Begin(c) \/ Exists(c) \/ After(c) \/ Popup(c))
    BY <1>2 DEF Lose, Silent, Begin, Exists, After, Popup, PcCalm, shown
  <2>5. QED
    BY <2>1, <2>2, <2>3, <2>4 DEF Next, Thread
<1>4. \A c \in Conns : ~Write(c)
  BY <1>1 DEF Write, Upsert
<1>5. QED
  BY <1>1, <1>3, <1>4 DEF MarkImportant, Delete

\* A message that the phone sends again never undoes what the user made of it at the PC.
THEOREM UserDecides == Spec => StatusKept
<1>1. QED
  BY TypeCorrect, StepKeepsStatus, PTL DEF Spec, StatusKept

-----------------------------------------------------------------------------
(* A message pops up once. *)

\* Whether a thread is about to show k.
Shows(w, k) == IF w # None /\ w.pc = "popup" /\ Content(w.id) = k THEN 1 ELSE 0

\* The times k was shown, or is about to be.
Due(k) == popups[k] + Shows(work[1], k) + Shows(work[2], k)

Row(k) == \E i \in Ids : Content(i) = k /\ inbox[i] # "none"

\* One more than the user's deletions at most, and no more than these while k is not stored.
Counted(k) == Due(k) <= 1 + deletions[k] /\ (Row(k) \/ Due(k) <= deletions[k])

\* What the thread of the current connection, having looked, may rely on: one more popup of
\* its message is allowed.  A thread that has lost its connection will show nothing.
Allows(c, k) ==
  (work[c] # None /\ work[c].allowed /\ attached = c /\ Content(work[c].id) = k) =>
    /\ work[c].pc = "exists" => (inbox[work[c].id] # "none" \/ Due(k) <= deletions[k])
    /\ work[c].pc = "write" => (work[c].existed \/ Due(k) <= deletions[k])
    /\ work[c].pc = "after" =>
         (work[c].existed \/ (Due(k) <= deletions[k] /\ (Row(k) \/ Due(k) + 1 <= deletions[k])))

ShownOnce == \A k \in Contents : Counted(k) /\ \A c \in Conns : Allows(c, k)

LEMMA CountsTyped ==
  ASSUME TypeOK, NEW k \in Contents
  PROVE  popups[k] \in Nat /\ deletions[k] \in Nat /\ Due(k) \in Nat
  BY DEF TypeOK, ShownTyped, Due, Shows

LEMMA InitShownOnce == Init => ShownOnce
<1> SUFFICES ASSUME Init, NEW k \in Contents PROVE Counted(k) /\ \A c \in Conns : Allows(c, k)
  BY DEF ShownOnce
<1>1. work[1] = None /\ work[2] = None /\ popups[k] = 0 /\ deletions[k] = 0
  BY DEF Init, Conns
<1>2. Due(k) = 0
  BY <1>1 DEF Due, Shows
<1>3. \A c \in Conns : work[c] = None
  BY DEF Init
<1>4. QED
  BY <1>1, <1>2, <1>3 DEF Counted, Allows

\* What is shown, or about to be, grows only with a thread that comes to its popup.
LEMMA ShowsNoMore ==
  ASSUME NEW v, NEW w, NEW k,
         \/ v = w \/ v = None \/ v.pc # "popup"
         \/ w # None /\ v.pc = w.pc /\ v.id = w.id
  PROVE  Shows(v, k) <= Shows(w, k)
  BY DEF Shows

LEMMA DueFalls ==
  ASSUME TypeOK, TypeOK', UNCHANGED popups, NEW k \in Contents,
         \A c \in Conns : Shows(work'[c], k) <= Shows(work[c], k)
  PROVE  Due(k)' <= Due(k)
<1>1. Shows(work'[1], k) <= Shows(work[1], k) /\ Shows(work'[2], k) <= Shows(work[2], k)
  BY DEF Conns
<1>2. Shows(work[1], k) \in Nat /\ Shows(work[2], k) \in Nat /\ Shows(work'[1], k) \in Nat /\ Shows(work'[2], k) \in Nat
  BY DEF Shows
<1>3. popups[k] \in Nat
  BY CountsTyped
<1>4. QED
  BY <1>1, <1>2, <1>3 DEF Due

\* A step that stores nothing and brings no thread to a stage where it relies on something.
LEMMA QuietStep ==
  ASSUME TypeOK, TypeOK', ShownOnce, UNCHANGED <<inbox, deletions, popups>>,
         \A c \in Conns : \/ work'[c] = work[c] \/ work'[c] = None \/ work'[c].pc \in {"start", "done"}
                          \/ work[c] # None /\ work'[c].pc = work[c].pc /\ work'[c].id = work[c].id,
         \A c \in Conns : \/ attached' = attached /\ work'[c] = work[c]
                          \/ attached' # c \/ work'[c] = None \/ ~work'[c].allowed
                          \/ work'[c].pc \in {"start", "done"}
  PROVE  ShownOnce'
<1> SUFFICES ASSUME NEW k \in Contents' PROVE Counted(k)' /\ \A c \in Conns : Allows(c, k)'
  BY DEF ShownOnce
<1>0. k \in Contents
  BY DEF Contents
<1>1. Due(k)' <= Due(k)
  <2>1. ASSUME NEW c \in Conns PROVE Shows(work'[c], k) <= Shows(work[c], k)
    <3>1. \/ work'[c] = work[c] \/ work'[c] = None \/ work'[c].pc # "popup"
          \/ work[c] # None /\ work'[c].pc = work[c].pc /\ work'[c].id = work[c].id
      OBVIOUS
    <3>2. QED
      BY <3>1, ShowsNoMore
  <2>2. QED
    BY <1>0, <2>1, DueFalls
<1>2. Due(k) \in Nat /\ Due(k)' \in Nat /\ deletions[k] \in Nat
  BY <1>0, CountsTyped DEF TypeOK, ShownTyped, Due, Shows
<1>3. Counted(k) /\ \A c \in Conns : Allows(c, k)
  BY <1>0 DEF ShownOnce
<1>4. Row(k)' <=> Row(k)
  BY DEF Row
<1>5. Counted(k)'
  BY <1>1, <1>2, <1>3, <1>4 DEF Counted
<1>6. ASSUME NEW c \in Conns PROVE Allows(c, k)'
  <2>1. CASE attached' = attached /\ work'[c] = work[c]
    BY <1>1, <1>2, <1>3, <1>4, <2>1 DEF Allows
  <2>2. CASE attached' # c \/ work'[c] = None \/ ~work'[c].allowed \/ work'[c].pc \in {"start", "done"}
    BY <2>2 DEF Allows
  <2>3. QED
    BY <2>1, <2>2
<1>7. QED
  BY <1>5, <1>6

LEMMA PhoneShownOnce ==
  ASSUME TypeOK, TypeOK', ShownOnce,
         \/ MarkSent \/ Dismiss \/ Hangup \/ PhoneDies \/ Connect \/ DesktopDies \/ \E c \in Conns : Lose(c)
         \/ \E id \in Ids : Post(id) \/ Capturing(id) \/ Send(id) \/ ClearRow(id)
  PROVE  ShownOnce'
<1>1. UNCHANGED <<inbox, deletions, popups>>
  BY DEF MarkSent, Dismiss, Hangup, PhoneDies, Connect, DesktopDies, Lose, Post, Capturing, CheckRow, SaveRow,
         Send, ClearRow, PcCalm, shown
<1>2. CASE Connect
  <2>1. UNCHANGED work
    BY <1>2 DEF Connect
  <2>2. \A c \in Conns : attached' # c \/ work'[c] = None
    BY <1>2 DEF Connect, Free
  <2>3. QED
    BY <1>1, <2>1, <2>2, QuietStep
<1>3. CASE DesktopDies
  <2>1. \A c \in Conns : work'[c] = None
    BY <1>3 DEF DesktopDies
  <2>2. QED
    BY <1>1, <2>1, QuietStep
<1>4. CASE ~Connect /\ ~DesktopDies
  <2>1. UNCHANGED <<work, attached>>
    BY <1>4 DEF MarkSent, Dismiss, Hangup, PhoneDies, Lose, Post, Capturing, CheckRow, SaveRow,
                Send, ClearRow, PcCalm, tasks
  <2>2. QED
    BY <1>1, <2>1, QuietStep
<1>5. QED
  BY <1>2, <1>3, <1>4

LEMMA TaskShownOnce ==
  ASSUME TypeOK, TypeOK', ShownOnce, NEW c \in Conns, Task(c) \/ Silent(c)
  PROVE  ShownOnce'
<1>1. UNCHANGED <<inbox, deletions, popups>>
  <2>1. CASE Read(c)
    BY <2>1 DEF Read, TaskCalm, shown
  <2>2. CASE Leave(c) \/ ReadOn(c) \/ Interrupted(c) \/ Finish(c) \/ Acknowledge(c) \/ Close(c) \/ Silent(c)
    BY <2>2 DEF Leave, ReadOn, Interrupted, Finish, Acknowledge, Close, Silent, TaskCalm, shown
  <2>3. QED
    BY <2>1, <2>2 DEF Task
<1>2. work \in [Conns -> Work \union {None}]
  BY DEF TypeOK, TasksTyped
<1>3. CASE Read(c)
  <2>1. attached' = attached
    BY <1>3 DEF Read, TaskCalm
  <2>2. PICK id : work' = [work EXCEPT ![c] = Started(id)]
    BY <1>3 DEF Read
  <2>3. \A d \in Conns : work'[d] = work[d] \/ work'[d].pc = "start"
    BY <1>2, <2>2 DEF Started
  <2>4. QED
    BY <1>1, <2>1, <2>3, QuietStep
<1>4. CASE Leave(c) \/ ReadOn(c) \/ Acknowledge(c)
  <2>1. UNCHANGED <<work, attached>>
    BY <1>4 DEF Leave, ReadOn, Acknowledge, TaskCalm
  <2>2. QED
    BY <1>1, <2>1, QuietStep
<1>5. CASE Close(c)
  <2>1. UNCHANGED work /\ (attached' = attached \/ attached' = 0)
    BY <1>5 DEF Close
  <2>2. \A d \in Conns : d # 0
    BY DEF Conns
  <2>3. QED
    BY <1>1, <2>1, <2>2, QuietStep
<1>6. CASE Finish(c)
  <2>1. attached' = attached /\ work' = [work EXCEPT ![c] = None]
    BY <1>6 DEF Finish, TaskCalm
  <2>2. \A d \in Conns : work'[d] = work[d] \/ work'[d] = None
    BY <1>2, <2>1
  <2>3. QED
    BY <1>1, <2>1, <2>2, QuietStep
<1>7. ASSUME session[c].pc = "work", Abandon(c), UNCHANGED attached PROVE ShownOnce'
  <2>1. work[c] \in Work /\ work[c] # None
    BY <1>2, <1>7 DEF TypeOK, TasksTyped, Fit
  <2>2. ASSUME NEW d \in Conns
        PROVE  \/ work'[d] = work[d] \/ work'[d] = None
               \/ work[d] # None /\ ~work'[d].allowed /\ work'[d].pc = work[d].pc /\ work'[d].id = work[d].id
    BY <1>2, <1>7, <2>1 DEF Abandon, Work
  <2>3. QED
    BY <1>1, <1>7, <2>2, QuietStep
<1>8. CASE Interrupted(c)
  BY <1>7, <1>8 DEF Interrupted, TaskCalm
<1>9. CASE Silent(c)
  <2>1. CASE session[c].pc = "work"
    BY <1>7, <1>9, <2>1 DEF Silent
  <2>2. CASE session[c].pc = "loop"
    <3>1. UNCHANGED <<work, attached>>
      BY <1>9, <2>2 DEF Silent
    <3>2. QED
      BY <1>1, <3>1, QuietStep
  <2>3. QED
    BY <1>9, <2>1, <2>2 DEF Silent
<1>10. QED
  BY <1>3, <1>4, <1>5, <1>6, <1>8, <1>9 DEF Task

LEMMA ThreadShownOnce ==
  ASSUME TypeOK, TypeOK', ShownOnce, NEW c \in Conns, Thread(c)
  PROVE  ShownOnce'
<1>1. /\ work \in [Conns -> Work \union {None}] /\ work[c] \in Work /\ work[c] # None
      /\ inbox \in [Ids -> {"none", "NEW", "IMPORTANT"}]
  BY DEF TypeOK, TasksTyped, ShownTyped, Thread, Begin, Exists, Write, After, Popup, ThreadIn
<1>2. UNCHANGED <<attached, deletions>>
  BY DEF Thread, Begin, Exists, Write, After, Popup, ThreadIn, shown
<1>3. PICK id \in Ids : id = work[c].id
  BY <1>1 DEF Work
<1>4. PICK k0 \in Contents : k0 = Content(id)
  BY DEF Contents
<1>5. ASSUME NEW k \in Contents
      PROVE  /\ Counted(k) /\ \A d \in Conns : Allows(d, k)
             /\ Due(k) \in Nat /\ Due(k)' \in Nat /\ deletions[k] \in Nat /\ deletions'[k] = deletions[k]
  BY <1>2, CountsTyped DEF ShownOnce, TypeOK, ShownTyped, Due, Shows
<1>6. Contents' = Contents
  BY DEF Contents
\* The thread returns, and nothing else happens.
<1>7. ASSUME NEW r, Return(c, r), UNCHANGED <<inbox, popups>> PROVE ShownOnce'
  <2>1. \A d \in Conns : work'[d] = work[d] \/ work'[d] = None \/ work'[d].pc = "done"
    BY <1>1, <1>7 DEF Return, Work
  <2>2. QED
    BY <1>2, <1>7, <2>1, QuietStep
\* The thread goes on; what it relies on from here is established, if it is the current one's.
<1>8. ASSUME NEW p \in {"exists", "write", "after"}, NEW e \in BOOLEAN, UNCHANGED popups,
             work' = [work EXCEPT ![c] = [work[c] EXCEPT !.pc = p, !.existed = e]],
             \A i \in Ids : inbox[i] # "none" => inbox'[i] # "none",
             (work[c].allowed /\ attached = c) =>
               /\ p = "exists" => (inbox[id] # "none" \/ Due(k0) <= deletions[k0])
               /\ p = "write" => (e \/ Due(k0) <= deletions[k0])
               /\ p = "after" => (e \/ (Due(k0) <= deletions[k0] /\ Row(k0)'))
      PROVE  ShownOnce'
  <2>1. /\ work'[c].pc = p /\ work'[c].existed = e /\ work'[c].id = id /\ work'[c].allowed = work[c].allowed
        /\ \A d \in Conns : d # c => work'[d] = work[d]
    BY <1>1, <1>3, <1>8 DEF Work
  <2>2. ASSUME NEW k \in Contents PROVE Due(k)' <= Due(k)
    <3>1. ASSUME NEW d \in Conns PROVE Shows(work'[d], k) <= Shows(work[d], k)
      <4>1. work'[d] = work[d] \/ work'[d].pc # "popup"
        BY <2>1
      <4>2. QED
        BY <4>1, ShowsNoMore
    <3>2. QED
      BY <1>8, <3>1, DueFalls
  <2>3. ASSUME NEW k \in Contents, Row(k) PROVE Row(k)'
    BY <1>8, <2>3 DEF Row
  <2>4. ASSUME NEW k \in Contents PROVE Counted(k)'
    BY <1>5, <2>2, <2>3 DEF Counted
  <2>5. ASSUME NEW k \in Contents, NEW d \in Conns, d # c PROVE Allows(d, k)'
    <3>1. work'[d] = work[d] /\ (work[d] # None => work[d].id \in Ids)
      BY <1>1, <2>1, <2>5 DEF Work
    <3>2. Allows(d, k) /\ Due(k)' <= Due(k) /\ (Row(k) => Row(k)')
      BY <1>5, <2>2, <2>3
    <3>3. /\ Due(k) <= deletions[k] => Due(k)' <= deletions'[k]
          /\ Due(k) + 1 <= deletions[k] => Due(k)' + 1 <= deletions'[k]
      BY <1>5, <3>2
    <3>4. (work[d] # None /\ inbox[work[d].id] # "none") => inbox'[work[d].id] # "none"
      BY <1>8, <3>1
    <3>5. QED
      BY <1>2, <3>1, <3>2, <3>3, <3>4 DEF Allows
  <2>6. ASSUME NEW k \in Contents PROVE Allows(c, k)'
    <3>1. CASE k # k0
      BY <1>4, <2>1, <3>1 DEF Allows
    <3>2. CASE k = k0
      BY <1>2, <1>5, <1>8, <2>1, <2>2, <3>2 DEF Allows
    <3>3. QED
      BY <3>1, <3>2
  <2>7. QED
    BY <1>6, <2>4, <2>5, <2>6 DEF ShownOnce
<1>9. CASE Begin(c)
  <2>1. UNCHANGED <<inbox, popups>>
    BY <1>9 DEF Begin, shown
  <2>2. CASE Goto(c, "exists") /\ ~Equivalent(work[c].id)
    <3>1. /\ work' = [work EXCEPT ![c] = [work[c] EXCEPT !.pc = "exists", !.existed = work[c].existed]]
          /\ work[c].existed \in BOOLEAN
      <4>1. work[c].existed \in BOOLEAN /\ [work[c] EXCEPT !.pc = "exists"] = [work[c] EXCEPT !.pc = "exists", !.existed = work[c].existed]
        BY <1>1 DEF Work
      <4>2. work' = [work EXCEPT ![c] = [work[c] EXCEPT !.pc = "exists"]]
        BY <2>2 DEF Goto
      <4>3. QED
        BY <4>1, <4>2
    <3>2. inbox[id] = "none" => ~Row(k0)
      BY <1>3, <1>4, <2>2 DEF Equivalent, Row
    <3>3. inbox[id] # "none" \/ Due(k0) <= deletions[k0]
      BY <1>5, <3>2 DEF Counted
    <3>4. QED
      BY <1>8, <2>1, <3>1, <3>3
  <2>3. CASE \E r : Return(c, r)
    BY <1>7, <2>1, <2>3
  <2>4. QED
    BY <1>9, <2>2, <2>3 DEF Begin
<1>10. CASE Exists(c)
  <2>1. UNCHANGED <<inbox, popups>> /\ work[c].pc = "exists"
    BY <1>10 DEF Exists, ThreadIn, shown
  <2>2. CASE work' = [work EXCEPT ![c].pc = "write", ![c].existed = inbox[work[c].id] # "none"]
    <3> DEFINE e == inbox[id] # "none"
    <3>1. work' = [work EXCEPT ![c] = [work[c] EXCEPT !.pc = "write", !.existed = e]] /\ e \in BOOLEAN
      BY <1>3, <2>2
    <3>2. (work[c].allowed /\ attached = c) => (e \/ Due(k0) <= deletions[k0])
      BY <1>1, <1>3, <1>4, <1>5, <2>1 DEF Allows
    <3> HIDE DEF e
    <3>3. QED
      BY <1>8, <2>1, <3>1, <3>2
  <2>3. CASE Return(c, None)
    BY <1>7, <2>1, <2>3
  <2>4. QED
    BY <1>10, <2>2, <2>3 DEF Exists
<1>11. CASE Write(c)
  <2>1. UNCHANGED popups /\ work[c].pc = "write" /\ inbox' = Upsert(id) /\ Goto(c, "after")
    BY <1>3, <1>11 DEF Write, ThreadIn
  <2>2. inbox'[id] # "none" /\ \A i \in Ids : inbox[i] # "none" => inbox'[i] # "none"
    BY <1>1, <2>1 DEF Upsert
  <2>3. Row(k0)'
    BY <1>4, <2>2 DEF Row
  <2>4. work[c].existed \in BOOLEAN
        /\ work' = [work EXCEPT ![c] = [work[c] EXCEPT !.pc = "after", !.existed = work[c].existed]]
    <3>1. work[c].existed \in BOOLEAN /\ [work[c] EXCEPT !.pc = "after"] = [work[c] EXCEPT !.pc = "after", !.existed = work[c].existed]
      BY <1>1 DEF Work
    <3>2. work' = [work EXCEPT ![c] = [work[c] EXCEPT !.pc = "after"]]
      BY <2>1 DEF Goto
    <3>3. QED
      BY <3>1, <3>2
  <2>5. (work[c].allowed /\ attached = c) => (work[c].existed \/ Due(k0) <= deletions[k0])
    BY <1>1, <1>3, <1>4, <1>5, <2>1 DEF Allows
  <2>6. QED
    BY <1>8, <2>1, <2>2, <2>3, <2>4, <2>5
<1>12. CASE After(c)
  <2>1. UNCHANGED <<inbox, popups>> /\ work[c].pc = "after"
    BY <1>12 DEF After, ThreadIn, shown
  <2>2. CASE Goto(c, "popup") /\ MayGoOn(c) /\ ~work[c].existed
    <3>1. /\ work'[c].pc = "popup" /\ work'[c].id = id /\ work'[c] # None
          /\ \A d \in Conns : d # c => work'[d] = work[d]
      <4>1. work' = [work EXCEPT ![c] = [work[c] EXCEPT !.pc = "popup"]]
        BY <2>2 DEF Goto
      <4>2. [work[c] EXCEPT !.pc = "popup"] \in Work
        BY <1>1 DEF Work
      <4>3. QED
        BY <1>1, <1>3, <4>1, <4>2, DeliveryAssumption DEF Work
    <3>2. Due(k0) <= deletions[k0] /\ (Row(k0) \/ Due(k0) + 1 <= deletions[k0]) /\ attached = c
      BY <1>1, <1>3, <1>4, <1>5, <2>1, <2>2 DEF Allows, MayGoOn, IsCurrent
    <3>3. ASSUME NEW k \in Contents PROVE Due(k)' = IF k = k0 THEN Due(k) + 1 ELSE Due(k)
      <4>1. Shows(work[c], k) = 0 /\ Shows(work'[c], k) = IF k = k0 THEN 1 ELSE 0
        BY <1>4, <2>1, <3>1 DEF Shows
      <4>2. \A d \in Conns : d # c => Shows(work'[d], k) = Shows(work[d], k)
        BY <3>1
      <4>3. Shows(work[1], k) \in Nat /\ Shows(work[2], k) \in Nat /\ popups[k] \in Nat
        BY CountsTyped DEF Shows
      <4>4. QED
        BY <2>1, <4>1, <4>2, <4>3 DEF Due, Conns
    <3>4. ASSUME NEW k \in Contents PROVE Row(k)' <=> Row(k)
      BY <2>1 DEF Row
    <3>5. ASSUME NEW k \in Contents PROVE Counted(k)'
      BY <1>5, <3>2, <3>3, <3>4 DEF Counted
    <3>6. ASSUME NEW k \in Contents, NEW d \in Conns PROVE Allows(d, k)'
      BY <1>2, <3>1, <3>2 DEF Allows
    <3>7. QED
      BY <1>6, <3>5, <3>6 DEF ShownOnce
  <2>3. CASE \E r : Return(c, r)
    BY <1>7, <2>1, <2>3
  <2>4. QED
    BY <1>12, <2>2, <2>3 DEF After
<1>13. CASE Popup(c)
  <2>1. /\ UNCHANGED inbox /\ work[c].pc = "popup" /\ Return(c, id)
        /\ popups' = popups \/ popups' = [popups EXCEPT ![k0] = @ + 1]
    BY <1>3, <1>4, <1>13 DEF Popup, ThreadIn
  <2>2. /\ work'[c] = None \/ work'[c].pc = "done"
        /\ \A d \in Conns : d # c => work'[d] = work[d]
    BY <1>1, <2>1 DEF Return, Work
  <2>3. ASSUME NEW k \in Contents PROVE Due(k)' <= Due(k)
    <3>1. Shows(work[c], k) = (IF k = k0 THEN 1 ELSE 0) /\ Shows(work'[c], k) = 0
      BY <1>1, <1>3, <1>4, <2>1, <2>2 DEF Shows
    <3>2. \A d \in Conns : d # c => Shows(work'[d], k) = Shows(work[d], k)
      BY <2>2
    <3>3. Shows(work[1], k) \in Nat /\ Shows(work[2], k) \in Nat /\ popups[k] \in Nat
      BY CountsTyped DEF Shows
    <3>4. popups'[k] <= popups[k] + (IF k = k0 THEN 1 ELSE 0) /\ popups'[k] \in Nat
      <4>1. popups \in [Contents -> Nat]
        BY DEF TypeOK, ShownTyped
      <4>2. QED
        BY <2>1, <4>1
    <3>5. QED
      BY <3>1, <3>2, <3>3, <3>4 DEF Due, Conns
  <2>4. ASSUME NEW k \in Contents PROVE Row(k)' <=> Row(k)
    BY <2>1 DEF Row
  <2>5. ASSUME NEW k \in Contents PROVE Counted(k)'
    BY <1>5, <2>3, <2>4 DEF Counted
  <2>6. ASSUME NEW k \in Contents, NEW d \in Conns PROVE Allows(d, k)'
    <3>1. CASE d = c
      BY <2>2, <3>1 DEF Allows
    <3>2. CASE d # c
      BY <1>2, <1>5, <2>1, <2>2, <2>3, <2>4, <3>2 DEF Allows
    <3>3. QED
      BY <3>1, <3>2
  <2>7. QED
    BY <1>6, <2>5, <2>6 DEF ShownOnce
<1>14. QED
  BY <1>9, <1>10, <1>11, <1>12, <1>13 DEF Thread

\* A row the user deletes may be shown once more when the phone sends it again.
LEMMA UserShownOnce ==
  ASSUME TypeOK, TypeOK', ShownOnce, NEW id \in Ids, MarkImportant(id) \/ Delete(id)
  PROVE  ShownOnce'
<1>1. UNCHANGED <<popups, work, attached>> /\ inbox \in [Ids -> {"none", "NEW", "IMPORTANT"}]
      /\ deletions \in [Contents -> Nat]
  BY DEF MarkImportant, Delete, tasks, TypeOK, ShownTyped
<1> SUFFICES ASSUME NEW k \in Contents' PROVE Counted(k)' /\ \A c \in Conns : Allows(c, k)'
  BY DEF ShownOnce
<1>2. k \in Contents
  BY DEF Contents
<1>3. Counted(k) /\ (\A c \in Conns : Allows(c, k)) /\ Due(k) \in Nat /\ deletions[k] \in Nat
  BY <1>2, CountsTyped DEF ShownOnce
<1>4. Due(k)' = Due(k)
  BY <1>1 DEF Due
<1>5. CASE MarkImportant(id)
  <2>1. deletions' = deletions /\ \A i \in Ids : inbox'[i] = "none" <=> inbox[i] = "none"
    BY <1>1, <1>5 DEF MarkImportant
  <2>2. Row(k)' <=> Row(k)
    BY <2>1 DEF Row
  <2>3. \A c \in Conns : work[c] # None => work[c].id \in Ids
    BY DEF TypeOK, TasksTyped, Work
  <2>4. QED
    BY <1>1, <1>3, <1>4, <2>1, <2>2, <2>3 DEF Counted, Allows
<1>6. CASE Delete(id) /\ k = Content(id)
  <2>1. deletions'[k] = deletions[k] + 1
    BY <1>1, <1>2, <1>6 DEF Delete
  <2>2. Due(k)' <= deletions'[k]
    BY <1>3, <1>4, <2>1 DEF Counted
  <2>3. Counted(k)'
    BY <1>3, <1>4, <2>1, <2>2 DEF Counted
  <2>4. ASSUME NEW c \in Conns PROVE Allows(c, k)'
    <3>1. Allows(c, k) /\ work'[c] = work[c] /\ attached' = attached
      BY <1>1, <1>3
    <3>2. Due(k) <= deletions[k] => Due(k)' + 1 <= deletions'[k]
      BY <1>3, <1>4, <2>1
    <3>3. QED
      BY <2>2, <3>1, <3>2 DEF Allows
  <2>5. QED
    BY <2>3, <2>4
<1>7. CASE Delete(id) /\ k # Content(id)
  <2>1. deletions'[k] = deletions[k] /\ \A i \in Ids : Content(i) = k => inbox'[i] = inbox[i]
    BY <1>1, <1>2, <1>7 DEF Delete
  <2>2. Row(k)' <=> Row(k)
    BY <2>1 DEF Row
  <2>3. \A c \in Conns : work[c] # None => work[c].id \in Ids
    BY DEF TypeOK, TasksTyped, Work
  <2>4. QED
    BY <1>1, <1>3, <1>4, <2>1, <2>2, <2>3 DEF Counted, Allows
<1>8. QED
  BY <1>5, <1>6, <1>7

LEMMA NextShownOnce == TypeOK /\ TypeOK' /\ ShownOnce /\ [Next]_vars => ShownOnce'
<1> SUFFICES ASSUME TypeOK, TypeOK', ShownOnce, [Next]_vars PROVE ShownOnce'
  OBVIOUS
<1>1. CASE UNCHANGED vars
  <2>1. UNCHANGED <<inbox, deletions, popups, work, attached>>
    BY <1>1 DEF vars, tasks, shown
  <2>2. QED
    BY <2>1, QuietStep
<1>2. CASE Next
  BY <1>2, PhoneShownOnce, TaskShownOnce, ThreadShownOnce, UserShownOnce DEF Next
<1>3. QED
  BY <1>1, <1>2

\* A message pops up at most once more than the user has deleted it, under whichever id and by
\* whichever connection's thread it arrives: the thread that shows it has seen, while it was the
\* current one, that nothing with this content was stored, and no other thread then shows it.
THEOREM OnePopupEach == Spec => []OnePopup
<1>1. TypeOK /\ ShownOnce => OnePopup
  <2> SUFFICES ASSUME TypeOK, ShownOnce, NEW k \in Contents PROVE popups[k] <= 1 + deletions[k]
    BY DEF OnePopup
  <2>1. Due(k) <= 1 + deletions[k] /\ popups[k] \in Nat /\ deletions[k] \in Nat
    BY CountsTyped DEF ShownOnce, Counted
  <2>2. popups[k] <= Due(k) /\ Due(k) \in Nat
    BY <2>1 DEF Due, Shows
  <2>3. QED
    BY <2>1, <2>2
<1>2. QED
  BY InitShownOnce, NextShownOnce, TypeCorrect, <1>1, PTL DEF Spec
=============================================================================
