-------------------------- MODULE DesktopSessionProofs --------------------------
(***************************************************************************)
(* Proofs about DesktopSession, for any number of phones, connections,     *)
(* codes and commands: the types of its state, who detaches a connection,  *)
(* who stays out uninvited, and what a disconnect by the user promises.    *)
(***************************************************************************)
EXTENDS DesktopSession, TLAPS

Pcs == {"idle"} \union Deciding \union Attached \union Ending
Working == Pcs \ {"idle", "closed"}

(* What a connection becomes. *)

Put(k, pc)             == [k EXCEPT !.pc = pc]
WithCode(k, a, h)      == [k EXCEPT !.pc = "standing", !.auto = a, !.holds = h]
WithStanding(k, p, r)  == [k EXCEPT !.pc = "decide", !.paused = p, !.resuming = r]
Notified(k)            == [k EXCEPT !.pc = "live", !.notified = TRUE]
Beginning(pc, p, code) == [Idle EXCEPT !.pc = pc, !.phone = p, !.key = code]

\* A task at work serves a phone.
Serves(k) == k \in Conn /\ (k.phone = None <=> k.pc \in {"idle", "closed"})

LEMMA ConnParts ==
  ASSUME NEW k \in Conn
  PROVE  /\ k.pc \in Pcs /\ k.phone \in Phones \union {None} /\ k.key \in Codes
         /\ (k.auto \in BOOLEAN) /\ (k.holds \in BOOLEAN) /\ (k.paused \in BOOLEAN)
         /\ (k.resuming \in BOOLEAN) /\ (k.notified \in BOOLEAN)
BY DEF Conn, Pcs

LEMMA PutTyped ==
  ASSUME NEW k, Serves(k), NEW pc \in Working, k.pc \in Working
  PROVE  /\ Serves(Put(k, pc)) /\ Put(k, pc).pc = pc /\ Put(k, pc).phone = k.phone
         /\ Put(k, pc).key = k.key /\ Put(k, pc).auto = k.auto /\ Put(k, pc).holds = k.holds
         /\ Put(k, pc).paused = k.paused /\ Put(k, pc).resuming = k.resuming
<1>1. k \in Conn /\ k.phone # None
  BY DEF Serves, Working
<1>2. \A j \in Conn : /\ Put(j, pc) \in Conn /\ Put(j, pc).pc = pc /\ Put(j, pc).phone = j.phone
                      /\ Put(j, pc).key = j.key /\ Put(j, pc).auto = j.auto /\ Put(j, pc).holds = j.holds
                      /\ Put(j, pc).paused = j.paused /\ Put(j, pc).resuming = j.resuming
  BY DEF Put, Conn, Working, Pcs
<1>3. pc \notin {"idle", "closed"}
  BY DEF Working
<1>4. QED
  BY <1>1, <1>2, <1>3 DEF Serves

LEMMA WithCodeTyped ==
  ASSUME NEW k, Serves(k), k.pc \in Working, NEW a \in BOOLEAN, NEW h \in BOOLEAN
  PROVE  /\ Serves(WithCode(k, a, h)) /\ WithCode(k, a, h).pc = "standing"
         /\ WithCode(k, a, h).phone = k.phone /\ WithCode(k, a, h).key = k.key
         /\ WithCode(k, a, h).auto = a /\ WithCode(k, a, h).holds = h
<1>1. k \in Conn /\ k.phone # None
  BY DEF Serves, Working
<1>2. \A j \in Conn : /\ WithCode(j, a, h) \in Conn /\ WithCode(j, a, h).pc = "standing"
                      /\ WithCode(j, a, h).phone = j.phone /\ WithCode(j, a, h).key = j.key
                      /\ WithCode(j, a, h).auto = a /\ WithCode(j, a, h).holds = h
  BY DEF WithCode, Conn, Deciding
<1>3. QED
  BY <1>1, <1>2 DEF Serves

LEMMA WithStandingTyped ==
  ASSUME NEW k, Serves(k), k.pc \in Working, NEW p \in BOOLEAN, NEW r \in BOOLEAN
  PROVE  /\ Serves(WithStanding(k, p, r)) /\ WithStanding(k, p, r).pc = "decide"
         /\ WithStanding(k, p, r).phone = k.phone /\ WithStanding(k, p, r).key = k.key
         /\ WithStanding(k, p, r).auto = k.auto /\ WithStanding(k, p, r).holds = k.holds
         /\ WithStanding(k, p, r).paused = p /\ WithStanding(k, p, r).resuming = r
<1>1. k \in Conn /\ k.phone # None
  BY DEF Serves, Working
<1>2. \A j \in Conn : /\ WithStanding(j, p, r) \in Conn /\ WithStanding(j, p, r).pc = "decide"
                      /\ WithStanding(j, p, r).phone = j.phone /\ WithStanding(j, p, r).key = j.key
                      /\ WithStanding(j, p, r).auto = j.auto /\ WithStanding(j, p, r).holds = j.holds
                      /\ WithStanding(j, p, r).paused = p /\ WithStanding(j, p, r).resuming = r
  BY DEF WithStanding, Conn, Deciding
<1>3. QED
  BY <1>1, <1>2 DEF Serves

LEMMA NotifiedTyped ==
  ASSUME NEW k, Serves(k), k.pc \in Working
  PROVE  /\ Serves(Notified(k)) /\ Notified(k).pc = "live"
         /\ Notified(k).phone = k.phone /\ Notified(k).key = k.key
<1>1. k \in Conn /\ k.phone # None
  BY DEF Serves, Working
<1>2. TRUE \in BOOLEAN
  OBVIOUS
<1>3. \A j \in Conn : /\ Notified(j) \in Conn /\ Notified(j).pc = "live"
                      /\ Notified(j).phone = j.phone /\ Notified(j).key = j.key
  BY <1>2 DEF Notified, Conn, Attached
<1>4. QED
  BY <1>1, <1>3 DEF Serves

LEMMA IdleTyped == Idle \in Conn /\ Idle.pc = "idle" /\ Idle.phone = None
<1>1. (FALSE \in BOOLEAN) /\ 0 \in Codes
  BY BoundsAssumption DEF Codes
<1>2. Idle \in Conn
  BY <1>1 DEF Idle, Conn
<1>3. QED
  BY <1>2 DEF Idle

LEMMA ClosedTyped == Serves(Closed) /\ Closed.pc = "closed" /\ Serves(Idle) /\ Idle.pc = "idle"
<1>1. \A j \in Conn : LET k == [j EXCEPT !.pc = "closed"]
                      IN k \in Conn /\ k.pc = "closed" /\ k.phone = j.phone
  BY DEF Conn, Ending
<1>2. Closed \in Conn /\ Closed.pc = "closed" /\ Closed.phone = None
  BY <1>1, IdleTyped DEF Closed
<1>3. QED
  BY <1>2, IdleTyped DEF Serves

LEMMA BeginningTyped ==
  ASSUME NEW pc \in {"key", "approve"}, NEW p \in Phones, NEW code \in Codes
  PROVE  /\ Serves(Beginning(pc, p, code)) /\ Beginning(pc, p, code).pc = pc
         /\ Beginning(pc, p, code).phone = p /\ Beginning(pc, p, code).key = code
<1>1. \A j \in Conn : LET k == [j EXCEPT !.pc = pc, !.phone = p, !.key = code]
                      IN k \in Conn /\ k.pc = pc /\ k.phone = p /\ k.key = code
  BY DEF Conn, Deciding
<1>2. /\ Beginning(pc, p, code) \in Conn /\ Beginning(pc, p, code).pc = pc
      /\ Beginning(pc, p, code).phone = p /\ Beginning(pc, p, code).key = code
  BY <1>1, IdleTyped DEF Beginning
<1>3. p # None
  BY NoneAssumption
<1>4. QED
  BY <1>2, <1>3 DEF Serves

-----------------------------------------------------------------------------
(* The types hold. *)

LEMMA ConnMoves ==
  ASSUME TasksTyped, NEW c \in Conns, NEW k, Serves(k), conn' = [conn EXCEPT ![c] = k], UNCHANGED user
  PROVE  TasksTyped' /\ conn'[c] = k /\ \A d \in Conns : conn'[d] = IF d = c THEN k ELSE conn[d]
<1>1. k \in Conn /\ (k.phone = None <=> k.pc \in {"idle", "closed"})
  BY DEF Serves
<1>2. conn' \in [Conns -> Conn] /\ \A d \in Conns : conn'[d] = IF d = c THEN k ELSE conn[d]
  BY <1>1 DEF TasksTyped
<1>3. QED
  BY <1>1, <1>2 DEF TasksTyped

LEMMA ConnNow ==
  ASSUME TasksTyped, NEW c \in Conns
  PROVE  /\ Serves(conn[c]) /\ conn[c] \in Conn /\ conn[c].pc \in Pcs /\ conn[c].key \in Codes
         /\ conn[c].pc \in Working => conn[c].phone \in Phones
<1>1. Serves(conn[c]) /\ conn[c] \in Conn
  BY DEF TasksTyped, Serves
<1>2. QED
  BY <1>1, ConnParts DEF Serves, Working

LEMMA GotoMoves ==
  ASSUME TasksTyped, NEW c \in Conns, NEW pc \in Working, conn[c].pc \in Working, Goto(c, pc), UNCHANGED user
  PROVE  /\ TasksTyped' /\ conn' = [conn EXCEPT ![c] = Put(conn[c], pc)] /\ Serves(Put(conn[c], pc))
         /\ Put(conn[c], pc).pc = pc
<1>1. Serves(conn[c])
  BY ConnNow
<1>2. Serves(Put(conn[c], pc)) /\ Put(conn[c], pc).pc = pc
  BY <1>1, PutTyped
<1>3. conn' = [conn EXCEPT ![c] = Put(conn[c], pc)]
  BY DEF Goto, Put
<1>4. QED
  BY <1>2, <1>3, ConnMoves

\* What each step of a connection makes of it.
LEMMA Moves ==
  ASSUME TypeOK, NEW c \in Conns
  PROVE  /\ ReadKey(c) =>
              /\ conn[c].pc = "key"
              /\ conn' = [conn EXCEPT ![c] = Put(conn[c], "code")] \/ conn' = [conn EXCEPT ![c] = Closed]
         /\ ReadCode(c) =>
              /\ conn[c].pc = "code" /\ conn' = [conn EXCEPT ![c] = WithCode(conn[c], auto, HoldsCode(c))]
         /\ ReadStanding(c) =>
              /\ conn[c].pc = "standing"
              /\ conn' = [conn EXCEPT ![c] = WithStanding(conn[c], paused, approved = conn[c].phone)]
         /\ Decide(c) =>
              /\ conn[c].pc = "decide"
              /\ \/ conn' = [conn EXCEPT ![c] = Closed]
                 \/ /\ (~NeedsAllowance(c) \/ allowed)
                    /\ conn' = [conn EXCEPT ![c] = Beginning("approve", conn[c].phone, conn[c].key)]
         /\ Announce(c) => conn[c].pc = "announce" /\ conn' = [conn EXCEPT ![c] = Notified(conn[c])]
         /\ ClearSender(c) =>
              /\ conn[c].pc = "clear"
              /\ conn' = [conn EXCEPT ![c] = IF sender = c THEN Put(conn[c], "unmark") ELSE Closed]
         /\ BeginGrace(c) => conn[c].pc = "grace" /\ conn' = [conn EXCEPT ![c] = Closed]
<1>1. ReadKey(c) =>
              /\ conn[c].pc = "key"
              /\ conn' = [conn EXCEPT ![c] = Put(conn[c], "code")] \/ conn' = [conn EXCEPT ![c] = Closed]
  BY DEF ReadKey, At, Put
<1>2. ReadCode(c) =>
              /\ conn[c].pc = "code" /\ conn' = [conn EXCEPT ![c] = WithCode(conn[c], auto, HoldsCode(c))]
  BY DEF ReadCode, At, WithCode
<1>3. ReadStanding(c) =>
              /\ conn[c].pc = "standing"
              /\ conn' = [conn EXCEPT ![c] = WithStanding(conn[c], paused, approved = conn[c].phone)]
  BY DEF ReadStanding, IsApproved, At, WithStanding
<1>4. Decide(c) =>
              /\ conn[c].pc = "decide"
              /\ \/ conn' = [conn EXCEPT ![c] = Closed]
                 \/ /\ (~NeedsAllowance(c) \/ allowed)
                    /\ conn' = [conn EXCEPT ![c] = Beginning("approve", conn[c].phone, conn[c].key)]
  BY DEF Decide, At, Beginning
<1>5. Announce(c) => conn[c].pc = "announce" /\ conn' = [conn EXCEPT ![c] = Notified(conn[c])]
  BY DEF Announce, At, Notified
<1>6. ClearSender(c) =>
              /\ conn[c].pc = "clear"
              /\ conn' = [conn EXCEPT ![c] = IF sender = c THEN Put(conn[c], "unmark") ELSE Closed]
  BY DEF ClearSender, At, Put
<1>7. BeginGrace(c) => conn[c].pc = "grace" /\ conn' = [conn EXCEPT ![c] = Closed]
  BY DEF BeginGrace, At
<1>8. QED
  BY <1>1, <1>2, <1>3, <1>4, <1>5, <1>6, <1>7

LEMMA CurrentCodeTyped ==
  ASSUME CodesTyped
  PROVE  CurrentCode \in (1..MaxCodes) \union {None}
BY DEF CodesTyped, CurrentCode

LEMMA HoldsCodeBoolean ==
  ASSUME NEW c \in Conns
  PROVE  HoldsCode(c) \in BOOLEAN
BY Zenon DEF HoldsCode, CodeLive

\* The steps of a connection that has begun.
LEMMA ServeTasks ==
  ASSUME TypeOK, NEW c \in Conns, Serve(c) \/ Lose(c)
  PROVE  TasksTyped'
<1>0. TasksTyped /\ FlagsTyped /\ CodesTyped /\ Serves(conn[c]) /\ (paused \in BOOLEAN) /\ (auto \in BOOLEAN)
  BY ConnNow DEF TypeOK, FlagsTyped
<1>1. CASE ReadKey(c)
  <2>1. UNCHANGED user /\ conn[c].pc \in Working /\ "code" \in Working
    BY <1>1, Moves DEF ReadKey, Working, Pcs, Deciding
  <2>2. Serves(Put(conn[c], "code"))
    BY <1>0, <2>1, PutTyped
  <2>3. QED
    BY <1>0, <1>1, <2>1, <2>2, Moves, ConnMoves, ClosedTyped
<1>2. CASE ReadCode(c)
  <2>1. UNCHANGED user /\ conn[c].pc \in Working
    BY <1>2, Moves DEF ReadCode, Working, Pcs, Deciding
  <2>2. Serves(WithCode(conn[c], auto, HoldsCode(c)))
    BY <1>0, <2>1, WithCodeTyped, HoldsCodeBoolean
  <2>3. QED
    BY <1>0, <1>2, <2>1, <2>2, Moves, ConnMoves
<1>3. CASE ReadStanding(c)
  <2>1. UNCHANGED user /\ conn[c].pc \in Working
    BY <1>3, Moves DEF ReadStanding, Working, Pcs, Deciding
  <2>2. (approved = conn[c].phone) \in BOOLEAN
    BY Zenon
  <2>3. Serves(WithStanding(conn[c], paused, approved = conn[c].phone))
    BY <1>0, <2>1, <2>2, WithStandingTyped
  <2>4. QED
    BY <1>0, <1>3, <2>1, <2>3, Moves, ConnMoves
<1>4. CASE Decide(c)
  <2>1. UNCHANGED user /\ conn[c].pc \in Working
    BY <1>4, Moves DEF Decide, Working, Pcs, Deciding
  <2>2. Serves(Beginning("approve", conn[c].phone, conn[c].key))
    BY <1>0, <2>1, ConnNow, BeginningTyped
  <2>3. QED
    BY <1>0, <1>4, <2>1, <2>2, Moves, ConnMoves, ClosedTyped
<1>5. CASE Announce(c)
  <2>1. UNCHANGED user /\ conn[c].pc \in Working
    BY <1>5, Moves DEF Announce, Working, Pcs, Attached
  <2>2. Serves(Notified(conn[c]))
    BY <1>0, <2>1, NotifiedTyped
  <2>3. QED
    BY <1>0, <1>5, <2>1, <2>2, Moves, ConnMoves
<1>6. CASE ClearSender(c)
  <2>1. UNCHANGED user /\ conn[c].pc \in Working /\ "unmark" \in Working
    BY <1>6, Moves DEF ClearSender, Working, Pcs, Ending
  <2>2. Serves(Put(conn[c], "unmark"))
    BY <1>0, <2>1, PutTyped
  <2>3. QED
    BY <1>0, <1>6, <2>1, <2>2, Moves, ConnMoves, ClosedTyped
<1>7. CASE BeginGrace(c)
  <2>1. UNCHANGED user
    BY <1>7 DEF BeginGrace
  <2>2. QED
    BY <1>0, <1>7, <2>1, Moves, ConnMoves, ClosedTyped
<1>8. CASE \/ Approve(c) \/ Attach(c) \/ MarkConnected(c) \/ CheckCurrent(c)
           \/ EndStale(c) \/ MarkDisconnected(c) \/ Lose(c)
  <2>1. UNCHANGED user /\ conn[c].pc \in Working
    BY <1>8 DEF Approve, Attach, MarkConnected, CheckCurrent, EndStale, MarkDisconnected, Lose, At,
                Working, Pcs, Deciding, Attached, Ending
  <2>2. \E pc \in {"attach", "mark", "check", "announce", "live", "clear", "grace"} : Goto(c, pc)
    BY <1>8 DEF Approve, Attach, MarkConnected, CheckCurrent, EndStale, MarkDisconnected, Lose
  <2>3. {"attach", "mark", "check", "announce", "live", "clear", "grace"} \subseteq Working
    BY DEF Working, Pcs, Deciding, Attached, Ending
  <2>4. QED
    BY <1>0, <2>1, <2>2, <2>3, GotoMoves
<1>9. QED
  BY <1>1, <1>2, <1>3, <1>4, <1>5, <1>6, <1>7, <1>8 DEF Serve

LEMMA UserMoves ==
  ASSUME TasksTyped, UNCHANGED conn,
         NEW pc \in {"idle", "pause", "retire", "erase", "forget", "drop", "delete"},
         NEW p \in Phones \union {None}, pc = "delete" => p # None,
         user' = [pc |-> pc, phone |-> p]
  PROVE  TasksTyped'
BY DEF TasksTyped, User

\* The steps of the main thread.
LEMMA CommandTasks ==
  ASSUME TypeOK, \/ ManualDisconnect \/ Disconnect \/ \E p \in Phones : Remove(p)
  PROVE  TasksTyped'
<1>0. TasksTyped /\ FlagsTyped /\ user \in User
  BY DEF TypeOK, TasksTyped
<1>1. user.phone \in Phones \union {None}
  BY <1>0 DEF User
<1>2. /\ \A pc : [user EXCEPT !.pc = pc] = [pc |-> pc, phone |-> user.phone]
      /\ UNCHANGED <<conn, user>> => TasksTyped'
  BY <1>0 DEF User, TasksTyped
<1>3. ASSUME NEW from, NEW to \in {"idle", "pause", "retire", "erase", "forget", "drop", "delete"}, Step(from, to),
             UNCHANGED conn, to = "delete" => user.phone # None
      PROVE  TasksTyped'
  <2>1. user' = [pc |-> to, phone |-> user.phone]
    BY <1>2, <1>3 DEF Step
  <2>2. QED
    BY <1>0, <1>1, <1>3, <2>1, UserMoves
<1>4. CASE Pause
  BY <1>3, <1>4 DEF Pause
<1>5. CASE RetireCode
  BY <1>3, <1>5 DEF RetireCode
<1>6. CASE EraseCode
  BY <1>3, <1>6 DEF EraseCode
<1>7. CASE Forget
  BY <1>3, <1>7 DEF Forget
<1>8. CASE DropSender
  <2>1. UNCHANGED conn
    BY <1>8 DEF DropSender
  <2>2. \/ user.phone = None /\ Step("drop", "idle")
        \/ user.phone # None /\ Step("drop", "delete")
    BY <1>8 DEF DropSender
  <2>3. QED
    BY <1>3, <2>1, <2>2
<1>9. CASE DeleteRow
  <2>1. UNCHANGED conn /\ user' = [pc |-> "idle", phone |-> None]
    BY <1>9 DEF DeleteRow
  <2>2. QED
    BY <1>0, <2>1, UserMoves
<1>10. CASE Disconnect
  <2>1. UNCHANGED conn /\ user' = [pc |-> "pause", phone |-> user.phone]
    BY <1>2, <1>10 DEF Disconnect
  <2>2. QED
    BY <1>0, <1>1, <2>1, UserMoves
<1>11. ASSUME NEW p \in Phones, Remove(p)
       PROVE  TasksTyped'
  <2>1. UNCHANGED conn
    BY <1>11 DEF Remove
  <2>2. UNCHANGED user \/ user' = [pc |-> "pause", phone |-> p]
    BY <1>11 DEF Remove
  <2>3. QED
    BY <1>0, <1>2, <2>1, <2>2, UserMoves
<1>12. QED
  BY <1>4, <1>5, <1>6, <1>7, <1>8, <1>9, <1>10, <1>11 DEF ManualDisconnect

LEMMA DialMoves ==
  ASSUME TypeOK, NEW c \in Conns, NEW p \in Phones, Dial(c, p)
  PROVE  /\ TasksTyped' /\ Serves(Beginning("key", p, key[p]))
         /\ conn' = [conn EXCEPT ![c] = Beginning("key", p, key[p])]
<1>1. key[p] \in Codes /\ TasksTyped
  BY DEF TypeOK, CodesTyped
<1>2. Serves(Beginning("key", p, key[p]))
  BY <1>1, BeginningTyped
<1>3. conn' = [conn EXCEPT ![c] = Beginning("key", p, key[p])] /\ UNCHANGED user
  BY DEF Dial, Beginning
<1>4. QED
  BY <1>1, <1>2, <1>3, ConnMoves

LEMMA RestartTasks ==
  ASSUME TypeOK, Restart
  PROVE  TasksTyped'
<1>1. conn' = [c \in Conns |-> IF At(c, "idle") THEN Idle ELSE Closed] /\ user' = [pc |-> "idle", phone |-> None]
  BY DEF Restart
<1>2. \A c \in Conns : Serves(conn'[c])
  BY <1>1, ClosedTyped
<1>3. conn' \in [Conns -> Conn]
  BY <1>1, ClosedTyped DEF Serves
<1>4. user' \in User /\ user'.pc = "idle"
  BY <1>1 DEF User
<1>5. QED
  BY <1>2, <1>3, <1>4 DEF TasksTyped, Serves

LEMMA TasksStep ==
  ASSUME TypeOK, [Next]_vars
  PROVE  TasksTyped'
<1>0. UNCHANGED <<conn, user>> => TasksTyped'
  BY DEF TypeOK, TasksTyped
<1>1. CASE \E c \in Conns : Serve(c) \/ Lose(c)
  BY <1>1, ServeTasks
<1>2. CASE \E c \in Conns, p \in Phones : Dial(c, p)
  BY <1>2, DialMoves
<1>3. ASSUME NEW p \in Phones, Scan(p) \/ Remove(p) \/ Pick(p)
      PROVE  TasksTyped'
  BY <1>0, <1>3, CommandTasks DEF Scan, Pick, memory
<1>4. CASE \E on \in BOOLEAN : SetAuto(on)
  BY <1>0, <1>4 DEF SetAuto, memory
<1>5. CASE EndGrace \/ PairingCodeIsLive \/ ShowCode \/ Expire
  BY <1>0, <1>5 DEF EndGrace, PairingCodeIsLive, ShowCode, SetPairing, Expire, memory
<1>6. CASE Disconnect \/ ManualDisconnect
  BY <1>6, CommandTasks
<1>7. CASE Restart
  BY <1>7, RestartTasks
<1>8. CASE UNCHANGED vars
  BY <1>0, <1>8 DEF vars, memory
<1>9. QED
  BY <1>1, <1>2, <1>3, <1>4, <1>5, <1>6, <1>7, <1>8 DEF Next

LEMMA FlagsStep ==
  ASSUME TypeOK, [Next]_vars
  PROVE  FlagsTyped'
<1>0. /\ (paused \in BOOLEAN) /\ (allowed \in BOOLEAN) /\ (announced \in BOOLEAN) /\ (auto \in BOOLEAN)
      /\ (expired \in BOOLEAN) /\ (autoEver \in BOOLEAN)
      /\ approved \in Phones \union {None} /\ active \in Phones \union {None} /\ pick \in Phones \union {None}
      /\ sender \in Conns \union {None} /\ lost \in Conns \union {None}
  BY DEF TypeOK, FlagsTyped
<1>1. (TRUE \in BOOLEAN) /\ (FALSE \in BOOLEAN)
  OBVIOUS
<1>2. SUFFICES
        /\ (paused' \in BOOLEAN) /\ (allowed' \in BOOLEAN) /\ (announced' \in BOOLEAN) /\ (auto' \in BOOLEAN)
        /\ (expired' \in BOOLEAN) /\ (autoEver' \in BOOLEAN)
        /\ approved' \in Phones \union {None} /\ active' \in Phones \union {None}
        /\ pick' \in Phones \union {None}
        /\ sender' \in Conns \union {None} /\ lost' \in Conns \union {None}
  BY DEF FlagsTyped
<1>3. ASSUME NEW c \in Conns, Serve(c) \/ Lose(c)
      PROVE  /\ (paused' \in BOOLEAN) /\ (allowed' \in BOOLEAN) /\ (announced' \in BOOLEAN)
             /\ approved' \in Phones \union {None} /\ active' \in Phones \union {None}
             /\ sender' \in Conns \union {None} /\ lost' \in Conns \union {None}
             /\ UNCHANGED <<auto, expired, autoEver, pick>>
  <2>1. conn[c].pc \in Working => conn[c].phone \in Phones
    BY ConnNow DEF TypeOK
  <2>2. CASE ReadKey(c) \/ ReadCode(c) \/ ReadStanding(c) \/ CheckCurrent(c) \/ EndStale(c) \/ Lose(c)
    BY <1>0, <2>2 DEF ReadKey, ReadCode, ReadStanding, CheckCurrent, EndStale, Lose, flags, news, memory, disk,
                      rows, outside, phones, history, run
  <2>3. CASE Decide(c)
    <3>1. paused' = (paused /\ ~Lifts(c)) /\ allowed' = (allowed /\ ~NeedsAllowance(c))
      BY <2>3 DEF Decide
    <3>2. (paused /\ ~Lifts(c)) \in BOOLEAN /\ (allowed /\ ~NeedsAllowance(c)) \in BOOLEAN
      BY Zenon
    <3>3. (paused' \in BOOLEAN) /\ (allowed' \in BOOLEAN)
      BY <3>1, <3>2
    <3>4. UNCHANGED <<approved, sender, lost, announced, auto, active, expired, pick, autoEver>>
      BY <2>3 DEF Decide, news, disk, rows, outside, phones, run
    <3>5. QED
      BY <1>0, <3>3, <3>4
  <2>4. CASE Approve(c)
    <3>1. conn[c].pc \in Working
      BY <2>4 DEF Approve, At, Working, Pcs, Deciding
    <3>2. QED
      BY <1>0, <2>1, <2>4, <3>1 DEF Approve, news, disk, rows, outside, phones, history, run
  <2>5. CASE Attach(c) \/ ClearSender(c)
    BY <1>0, <2>5 DEF Attach, ClearSender, flags, news, disk, rows, outside, phones, history, run
  <2>6. CASE MarkConnected(c)
    <3>1. conn[c].pc \in Working
      BY <2>6 DEF MarkConnected, At, Working, Pcs, Attached
    <3>2. QED
      BY <1>0, <2>1, <2>6, <3>1 DEF MarkConnected, flags, news, outside, phones, history, run
  <2>7. CASE MarkDisconnected(c)
    BY <1>0, <2>7 DEF MarkDisconnected, flags, news, outside, phones, history, run
  <2>8. CASE Announce(c)
    BY <1>0, <1>1, <2>8 DEF Announce, flags, disk, rows, outside, phones, history, run
  <2>9. CASE BeginGrace(c)
    <3>1. (announced /\ ~paused) \in BOOLEAN
      BY Zenon
    <3>2. announced' \in {announced, announced /\ ~paused} /\ lost' \in {lost, None, c}
      BY <2>9 DEF BeginGrace, news
    <3>3. UNCHANGED <<paused, allowed, approved, sender, auto, active, expired, pick, autoEver>>
      BY <2>9 DEF BeginGrace, flags, disk, rows, outside, phones, history, run
    <3>4. QED
      BY <1>0, <3>1, <3>2, <3>3
  <2>10. QED
    BY <1>3, <2>2, <2>3, <2>4, <2>5, <2>6, <2>7, <2>8, <2>9 DEF Serve
<1>4. CASE \E c \in Conns : Serve(c) \/ Lose(c)
  BY <1>0, <1>3, <1>4
<1>5. CASE \E c \in Conns, p \in Phones : Dial(c, p)
  BY <1>0, <1>5 DEF Dial, flags, news, disk, rows, outside, phones, history, run
<1>6. CASE \E p \in Phones : Scan(p) \/ Remove(p)
  BY <1>0, <1>6 DEF Scan, Remove, memory, flags, news, disk, rows, outside, phones, history, run
<1>7. CASE \E p \in Phones : Pick(p)
  BY <1>0, <1>1, <1>7 DEF Pick, news, disk, rows, phones
<1>8. ASSUME NEW on \in BOOLEAN, SetAuto(on)
      PROVE  /\ (auto' \in BOOLEAN) /\ (autoEver' \in BOOLEAN)
             /\ UNCHANGED <<paused, allowed, approved, sender, lost, announced, active, expired, pick>>
  <2>1. autoEver' = (autoEver \/ on) /\ auto' = on
    BY <1>8 DEF SetAuto
  <2>2. (autoEver \/ on) \in BOOLEAN
    BY Zenon
  <2>3. QED
    BY <1>8, <2>1, <2>2 DEF SetAuto, memory, flags, news, rows, phones
<1>9. CASE \E on \in BOOLEAN : SetAuto(on)
  BY <1>0, <1>8, <1>9
<1>10. CASE EndGrace \/ PairingCodeIsLive \/ ShowCode
  BY <1>0, <1>1, <1>10 DEF EndGrace, PairingCodeIsLive, ShowCode, SetPairing, flags, news, disk, rows, outside, phones, history, run
<1>11. CASE Expire
  BY <1>0, <1>1, <1>11 DEF Expire, memory, flags, news, disk, rows, history, run
<1>12. CASE Disconnect \/ Pause \/ RetireCode
  BY <1>0, <1>1, <1>12 DEF Disconnect, Pause, RetireCode, flags, news, disk, rows, outside, phones, history, run
<1>13. CASE EraseCode \/ Forget \/ DropSender \/ DeleteRow
  BY <1>0, <1>1, <1>13 DEF EraseCode, Forget, DropSender, DeleteRow, flags, news, disk, rows, outside, phones,
                           history, run
<1>14. CASE Restart
  BY <1>0, <1>1, <1>14 DEF Restart, disk, rows, phones
<1>15. CASE UNCHANGED vars
  BY <1>0, <1>15 DEF vars, memory, flags, news, disk, rows, outside, phones, history, run
<1>16. QED
  BY <1>4, <1>5, <1>6, <1>7, <1>9, <1>10, <1>11, <1>12, <1>13, <1>14, <1>15 DEF Next, ManualDisconnect

\* The codes: which there are, where they are kept, and who presents them.
Screen == 1..MaxCodes

LEMMA CodesStep ==
  ASSUME TypeOK, [Next]_vars
  PROVE  CodesTyped'
<1>0. /\ codeCount \in Codes /\ acts \in 0..MaxActs /\ firstCode \in 1..MaxCodes + 1
      /\ codeMem \in Screen \union {None} /\ codeDisk \in Screen \union {None} /\ cut \in Codes \union {None}
      /\ key \in [Phones -> Codes] /\ saved \in [Phones -> Codes \union {None}]
  BY DEF TypeOK, CodesTyped, Screen
<1>1. Screen \subseteq Codes /\ \A n \in Codes : n + 1 \in 1..MaxCodes + 1 /\ (n < MaxCodes => n + 1 \in Codes \cap Screen)
  BY BoundsAssumption DEF Screen, Codes
<1>2. CurrentCode \in Screen \union {None}
  BY <1>0 DEF CurrentCode
<1>3. SUFFICES
        /\ codeCount' \in Codes /\ acts' \in 0..MaxActs /\ firstCode' \in 1..MaxCodes + 1
        /\ codeMem' \in Screen \union {None} /\ codeDisk' \in Screen \union {None}
        /\ cut' \in Codes \union {None}
        /\ key' \in [Phones -> Codes] /\ saved' \in [Phones -> Codes \union {None}]
  BY DEF CodesTyped, Screen
<1>4. ASSUME NEW c \in Conns, Serve(c) \/ Lose(c)
      PROVE  /\ codeMem' \in Screen \union {None} /\ cut' \in Codes \union {None}
             /\ saved' \in [Phones -> Codes \union {None}]
             /\ UNCHANGED <<codeCount, acts, firstCode, codeDisk, key>>
  <2>1. CASE ReadStanding(c) \/ CheckCurrent(c) \/ EndStale(c) \/ Lose(c) \/ Approve(c)
    BY <1>0, <2>1 DEF ReadStanding, CheckCurrent, EndStale, Lose, Approve, disk, rows, outside, phones, history, run
  <2>2. CASE Attach(c) \/ ClearSender(c) \/ MarkDisconnected(c) \/ Announce(c) \/ BeginGrace(c)
    BY <1>0, <2>2 DEF Attach, ClearSender, MarkDisconnected, Announce, BeginGrace, disk, rows, outside, phones,
                      history, run
  <2>3. CASE ReadKey(c) \/ ReadCode(c)
    BY <1>0, <1>2, <2>3 DEF ReadKey, ReadCode, CutAfterRead, disk, rows, outside, phones, history, run
  <2>4. CASE Decide(c)
    BY <1>0, <2>4 DEF Decide, disk, rows, outside, phones, history, run
  <2>5. CASE MarkConnected(c)
    <3>1. conn[c].key \in Codes
      BY ConnNow DEF TypeOK
    <3>2. saved' \in [Phones -> Codes \union {None}]
      BY <1>0, <2>5, <3>1 DEF MarkConnected
    <3>3. QED
      BY <1>0, <2>5, <3>2 DEF MarkConnected, outside, phones, history, run
  <2>6. QED
    BY <1>4, <2>1, <2>2, <2>3, <2>4, <2>5 DEF Serve
<1>5. CASE \E c \in Conns : Serve(c) \/ Lose(c)
  BY <1>0, <1>4, <1>5
<1>6. CASE \E c \in Conns, p \in Phones : Dial(c, p)
  BY <1>0, <1>6 DEF Dial, disk, rows, outside, phones, history, run
<1>7. ASSUME NEW p \in Phones, Scan(p)
      PROVE  key' \in [Phones -> Codes] /\ UNCHANGED <<codeCount, acts, firstCode, codeMem, codeDisk, cut, saved>>
  <2>1. codeMem \in Codes
    BY <1>0, <1>1, <1>7 DEF Scan, CodeLive
  <2>2. QED
    BY <1>0, <1>7, <2>1 DEF Scan, memory, disk, rows, history, run
<1>8. CASE \E p \in Phones : Scan(p)
  BY <1>0, <1>7, <1>8
<1>9. acts < MaxActs /\ acts' = acts + 1 => acts' \in 0..MaxActs
  BY <1>0, BoundsAssumption
<1>10. CASE \E p \in Phones : Remove(p)
  BY <1>0, <1>9, <1>10 DEF Remove, Act, phones, history, run
<1>11. CASE \E p \in Phones : Pick(p)
  BY <1>0, <1>9, <1>11 DEF Pick, Act, disk, rows, phones
<1>12. CASE \E on \in BOOLEAN : SetAuto(on)
  BY <1>0, <1>9, <1>12 DEF SetAuto, Act, memory, rows, phones
<1>13. CASE EndGrace \/ PairingCodeIsLive \/ Expire
  BY <1>0, <1>2, <1>13 DEF EndGrace, PairingCodeIsLive, CutAfterReload, Expire, memory, disk, rows, outside, phones, history, run
<1>14. CASE ShowCode
  BY <1>0, <1>1, <1>2, <1>14 DEF ShowCode, SetPairing, rows, history, run
<1>15. CASE Disconnect
  BY <1>0, <1>9, <1>15 DEF Disconnect, Act, phones, history, run
<1>16. CASE Pause \/ RetireCode \/ EraseCode
  BY <1>0, <1>16 DEF Pause, RetireCode, EraseCode, disk, rows, outside, phones, history, run
<1>17. CASE Forget \/ DropSender \/ DeleteRow
  BY <1>0, <1>17 DEF Forget, DropSender, DeleteRow, disk, rows, outside, phones, history, run
<1>18. CASE Restart
  <2>1. firstCode' \in 1..MaxCodes + 1
    <3>1. CASE CodeLive(codeDisk)
      <4>1. firstCode' = codeDisk /\ codeDisk \in Screen
        BY <1>0, <1>18, <3>1 DEF Restart, CodeLive
      <4>2. QED
        BY <4>1, BoundsAssumption DEF Screen
    <3>2. CASE ~CodeLive(codeDisk)
      BY <1>0, <1>1, <1>18, <3>2 DEF Restart
    <3>3. QED
      BY <3>1, <3>2
  <2>2. QED
    BY <1>0, <1>9, <1>18, <2>1 DEF Restart, disk, rows, phones
<1>19. CASE UNCHANGED vars
  BY <1>0, <1>19 DEF vars, memory, disk, rows, outside, phones, history, run
<1>20. QED
  BY <1>5, <1>6, <1>8, <1>10, <1>11, <1>12, <1>13, <1>14, <1>15, <1>16, <1>17, <1>18, <1>19 DEF Next, ManualDisconnect

\* The state always has the types its module states.  (state.rs:60-104, attach.rs:51-69)
THEOREM TypeCorrect == Spec => []TypeOK
<1>1. Init => TypeOK
  <2>1. SUFFICES ASSUME Init PROVE TypeOK
    OBVIOUS
  <2>2. (TRUE \in BOOLEAN) /\ (FALSE \in BOOLEAN) /\ 0 \in Codes /\ 0 \in 0..MaxActs /\ 1 \in 1..MaxCodes + 1
    BY BoundsAssumption DEF Codes
  <2>3. FlagsTyped
    BY <2>1, <2>2 DEF Init, FlagsTyped
  <2>4. CodesTyped
    BY <2>1, <2>2 DEF Init, CodesTyped
  <2>5. conn \in [Conns -> Conn] /\ \A c \in Conns : Serves(conn[c])
    BY <2>1, ClosedTyped, IdleTyped DEF Init
  <2>6. TasksTyped
    BY <2>1, <2>5 DEF Init, TasksTyped, User, Serves
  <2>7. QED
    BY <2>3, <2>4, <2>6 DEF TypeOK
<1>2. TypeOK /\ [Next]_vars => TypeOK'
  BY TasksStep, FlagsStep, CodesStep DEF TypeOK
<1>3. QED
  BY <1>1, <1>2, PTL DEF Spec

-----------------------------------------------------------------------------
(* What a step of a connection leaves alone. *)

Holding == Attached \union {"clear"}

LEMMA ConnBecomes ==
  ASSUME TypeOK, NEW c \in Conns, NEW k, conn' = [conn EXCEPT ![c] = k]
  PROVE  conn'[c] = k /\ \A d \in Conns \ {c} : conn'[d] = conn[d]
BY DEF TypeOK, TasksTyped

\* The steps that only move the connection on.
LEMMA GotoSteps ==
  ASSUME TypeOK, NEW c \in Conns,
         \/ Approve(c) \/ Attach(c) \/ MarkConnected(c) \/ CheckCurrent(c)
         \/ EndStale(c) \/ MarkDisconnected(c) \/ Lose(c)
  PROVE  \E pc \in Working :
           /\ conn' = [conn EXCEPT ![c] = Put(conn[c], pc)]
           /\ conn'[c] = Put(conn[c], pc) /\ conn'[c].pc = pc
           /\ conn'[c].phone = conn[c].phone /\ conn'[c].key = conn[c].key
           /\ Approve(c) => conn[c].pc = "approve" /\ pc = "attach"
           /\ Attach(c) => conn[c].pc = "attach" /\ pc = "mark"
           /\ (MarkConnected(c) \/ CheckCurrent(c) \/ EndStale(c) \/ Lose(c)) =>
                conn[c].pc \in Attached /\ pc \in Holding
           /\ MarkDisconnected(c) => conn[c].pc = "unmark" /\ pc = "grace"
<1>1. PICK pc \in {"attach", "mark", "check", "announce", "live", "clear", "grace"} :
           /\ Goto(c, pc)
           /\ Approve(c) => conn[c].pc = "approve" /\ pc = "attach"
           /\ Attach(c) => conn[c].pc = "attach" /\ pc = "mark"
           /\ (MarkConnected(c) \/ CheckCurrent(c) \/ EndStale(c) \/ Lose(c)) =>
                conn[c].pc \in Attached /\ pc \in Holding
           /\ MarkDisconnected(c) => conn[c].pc = "unmark" /\ pc = "grace"
  <2>1. CASE Approve(c)
    <3>1. conn[c].pc = "approve" /\ Goto(c, "attach")
      BY <2>1 DEF Approve, At
    <3>2. ~Attach(c) /\ ~MarkConnected(c) /\ ~CheckCurrent(c) /\ ~EndStale(c) /\ ~Lose(c) /\ ~MarkDisconnected(c)
      BY <3>1 DEF Attach, MarkConnected, CheckCurrent, EndStale, Lose, MarkDisconnected, At
    <3>3. QED
      BY <3>1, <3>2
  <2>2. CASE Attach(c)
    <3>1. conn[c].pc = "attach" /\ Goto(c, "mark")
      BY <2>2 DEF Attach, At
    <3>2. ~Approve(c) /\ ~MarkConnected(c) /\ ~CheckCurrent(c) /\ ~EndStale(c) /\ ~Lose(c) /\ ~MarkDisconnected(c)
      BY <3>1 DEF Approve, MarkConnected, CheckCurrent, EndStale, Lose, MarkDisconnected, At
    <3>3. QED
      BY <3>1, <3>2
  <2>3. CASE MarkConnected(c) \/ CheckCurrent(c) \/ EndStale(c) \/ Lose(c)
    <3>1. conn[c].pc \in {"mark", "check", "live"}
      BY <2>3 DEF MarkConnected, CheckCurrent, EndStale, Lose, At
    <3>2. \E pc \in {"check", "announce", "live", "clear"} : Goto(c, pc)
      BY <2>3 DEF MarkConnected, CheckCurrent, EndStale, Lose
    <3>3. ~Approve(c) /\ ~Attach(c) /\ ~MarkDisconnected(c)
      BY <3>1 DEF Approve, Attach, MarkDisconnected, At
    <3>4. conn[c].pc \in Attached /\ {"check", "announce", "live", "clear"} \subseteq Holding
      BY <3>1 DEF Attached, Holding
    <3>5. QED
      BY <3>2, <3>3, <3>4
  <2>4. CASE MarkDisconnected(c)
    <3>1. conn[c].pc = "unmark" /\ Goto(c, "grace")
      BY <2>4 DEF MarkDisconnected, At
    <3>2. ~Approve(c) /\ ~Attach(c) /\ ~MarkConnected(c) /\ ~CheckCurrent(c) /\ ~EndStale(c) /\ ~Lose(c)
      BY <3>1 DEF Approve, Attach, MarkConnected, CheckCurrent, EndStale, Lose, At
    <3>3. QED
      BY <3>1, <3>2
  <2>5. QED
    BY <2>1, <2>2, <2>3, <2>4
<1>2. pc \in Working
  BY DEF Working, Pcs, Deciding, Attached, Ending
<1>3. conn[c].pc \in Working
  <2>1. conn[c].pc \in {"approve", "attach", "unmark"} \union Attached
    BY <1>1
  <2>2. QED
    BY <2>1 DEF Working, Pcs, Deciding, Attached, Ending
<1>4. /\ Put(conn[c], pc).pc = pc /\ Put(conn[c], pc).phone = conn[c].phone /\ Put(conn[c], pc).key = conn[c].key
  BY <1>2, <1>3, ConnNow, PutTyped DEF TypeOK
<1>5. conn' = [conn EXCEPT ![c] = Put(conn[c], pc)]
  BY <1>1 DEF Goto, Put
<1>6. conn'[c] = Put(conn[c], pc)
  BY <1>5, ConnBecomes
<1>7. QED
  BY <1>1, <1>2, <1>4, <1>5, <1>6

\* The steps that give the connection a new record.
LEMMA RecordSteps ==
  ASSUME TypeOK, NEW c \in Conns
  PROVE  /\ ReadKey(c) => /\ conn[c].pc = "key" /\ conn'[c].pc \in {"code", "closed"}
                          /\ conn'[c] = Put(conn[c], "code") \/ conn'[c] = Closed
         /\ ReadCode(c) => conn[c].pc = "code" /\ conn'[c] = WithCode(conn[c], auto, HoldsCode(c))
         /\ ReadStanding(c) =>
              conn[c].pc = "standing" /\ conn'[c] = WithStanding(conn[c], paused, approved = conn[c].phone)
         /\ Decide(c) => /\ conn[c].pc = "decide"
                         /\ \/ conn'[c] = Closed
                            \/ /\ (~NeedsAllowance(c) \/ allowed)
                               /\ conn'[c] = Beginning("approve", conn[c].phone, conn[c].key)
         /\ Announce(c) => conn[c].pc = "announce" /\ conn'[c] = Notified(conn[c])
         /\ ClearSender(c) => /\ conn[c].pc = "clear"
                              /\ conn'[c] = IF sender = c THEN Put(conn[c], "unmark") ELSE Closed
         /\ BeginGrace(c) => conn[c].pc = "grace" /\ conn'[c] = Closed
         /\ (Serve(c) \/ Lose(c)) => \A d \in Conns \ {c} : conn'[d] = conn[d]
<1>1. ReadKey(c) => /\ conn[c].pc = "key" /\ conn'[c].pc \in {"code", "closed"}
                    /\ conn'[c] = Put(conn[c], "code") \/ conn'[c] = Closed
  <2>1. SUFFICES ASSUME ReadKey(c) PROVE /\ conn[c].pc = "key" /\ conn'[c].pc \in {"code", "closed"}
                                         /\ conn'[c] = Put(conn[c], "code") \/ conn'[c] = Closed
    OBVIOUS
  <2>2. conn[c].pc = "key" /\ (conn'[c] = Put(conn[c], "code") \/ conn'[c] = Closed)
    BY <2>1, Moves, ConnBecomes
  <2>3. "key" \in Working /\ "code" \in Working
    BY DEF Working, Pcs, Deciding
  <2>4. Put(conn[c], "code").pc = "code"
    BY <2>2, <2>3, ConnNow, PutTyped DEF TypeOK
  <2>5. QED
    BY <2>2, <2>4, ClosedTyped
<1>2. ReadCode(c) => conn[c].pc = "code" /\ conn'[c] = WithCode(conn[c], auto, HoldsCode(c))
  BY Moves, ConnBecomes
<1>3. ReadStanding(c) =>
        conn[c].pc = "standing" /\ conn'[c] = WithStanding(conn[c], paused, approved = conn[c].phone)
  BY Moves, ConnBecomes
<1>4. Decide(c) => /\ conn[c].pc = "decide"
                   /\ \/ conn'[c] = Closed
                      \/ /\ (~NeedsAllowance(c) \/ allowed)
                         /\ conn'[c] = Beginning("approve", conn[c].phone, conn[c].key)
  BY Moves, ConnBecomes
<1>5. Announce(c) => conn[c].pc = "announce" /\ conn'[c] = Notified(conn[c])
  BY Moves, ConnBecomes
<1>6. ClearSender(c) => /\ conn[c].pc = "clear"
                        /\ conn'[c] = IF sender = c THEN Put(conn[c], "unmark") ELSE Closed
  BY Moves, ConnBecomes
<1>7. BeginGrace(c) => conn[c].pc = "grace" /\ conn'[c] = Closed
  BY Moves, ConnBecomes
<1>8. (Serve(c) \/ Lose(c)) => \A d \in Conns \ {c} : conn'[d] = conn[d]
  BY Moves, GotoSteps, ConnBecomes DEF Serve
<1>9. QED
  BY <1>1, <1>2, <1>3, <1>4, <1>5, <1>6, <1>7, <1>8

-----------------------------------------------------------------------------
(* Who detaches a connection. *)

SenderAttached == sender # None => conn[sender].pc \in Holding

\* A connection that holds on lets go in one place only.
LEMMA HoldsOn ==
  ASSUME TypeOK, NEW c \in Conns, Serve(c) \/ Lose(c)
  PROVE  /\ conn[c].pc \in Holding => conn'[c].pc \in Holding \/ (ClearSender(c) /\ conn'[c].pc \in Ending)
         /\ ClearSender(c) => /\ sender' = IF sender = c THEN None ELSE sender
                              /\ conn'[c].pc \in Ending
         /\ Attach(c) => sender' = c /\ conn'[c].pc \in Holding
         /\ ~ClearSender(c) /\ ~Attach(c) => UNCHANGED sender
<1>1. ClearSender(c) => conn'[c].pc \in Ending /\ sender' = IF sender = c THEN None ELSE sender
  <2>1. SUFFICES ASSUME ClearSender(c) PROVE conn'[c].pc \in Ending /\ sender' = IF sender = c THEN None ELSE sender
    OBVIOUS
  <2>2. "unmark" \in Working /\ "clear" \in Working /\ "unmark" \in Ending /\ "closed" \in Ending
    BY DEF Working, Pcs, Ending
  <2>3. conn[c].pc = "clear"
    BY <2>1, RecordSteps
  <2>4. Put(conn[c], "unmark").pc = "unmark"
    BY <2>2, <2>3, ConnNow, PutTyped DEF TypeOK
  <2>5. conn'[c] = Put(conn[c], "unmark") \/ conn'[c] = Closed
    BY <2>1, RecordSteps
  <2>6. sender' = IF sender = c THEN None ELSE sender
    BY <2>1 DEF ClearSender
  <2>7. QED
    BY <2>2, <2>4, <2>5, <2>6, ClosedTyped
<1>2. Attach(c) => sender' = c /\ conn'[c].pc \in Holding
  <2>1. "mark" \in Holding
    BY DEF Holding, Attached
  <2>2. QED
    BY <2>1, GotoSteps DEF Attach
<1>3. ~ClearSender(c) /\ ~Attach(c) => UNCHANGED sender
  BY DEF Serve, ReadKey, ReadCode, ReadStanding, Decide, Approve, MarkConnected, CheckCurrent, Announce,
         EndStale, Lose, MarkDisconnected, BeginGrace, memory
<1>4. ASSUME conn[c].pc \in Holding, ~ClearSender(c)
      PROVE  conn'[c].pc \in Holding
  <2>1. CASE Announce(c)
    <3>1. conn[c].pc \in Working /\ conn'[c] = Notified(conn[c])
      BY <2>1, RecordSteps DEF Working, Pcs, Attached
    <3>2. conn'[c].pc = "live"
      BY <3>1, ConnNow, NotifiedTyped DEF TypeOK
    <3>3. QED
      BY <3>2 DEF Holding, Attached
  <2>2. CASE MarkConnected(c) \/ CheckCurrent(c) \/ EndStale(c) \/ Lose(c)
    BY <2>2, GotoSteps
  <2>3. conn[c].pc \notin {"key", "code", "standing", "decide", "approve", "attach", "unmark", "grace"}
    BY <1>4 DEF Holding, Attached
  <2>4. ~ReadKey(c) /\ ~ReadCode(c) /\ ~ReadStanding(c) /\ ~Decide(c) /\ ~BeginGrace(c)
    BY <2>3, RecordSteps
  <2>5. ~Approve(c) /\ ~Attach(c) /\ ~MarkDisconnected(c)
    BY <2>3 DEF Approve, Attach, MarkDisconnected, At
  <2>6. QED
    BY <1>4, <2>1, <2>2, <2>4, <2>5 DEF Serve
<1>5. QED
  BY <1>1, <1>2, <1>3, <1>4

LEMMA SenderStep ==
  ASSUME TypeOK, SenderAttached, [Next]_vars
  PROVE  /\ SenderAttached'
         /\ sender # None /\ sender' = None => conn'[sender].pc \in Ending \/ user.pc = "drop"
<1>0. sender \in Conns \union {None} /\ None \notin Conns
  BY NoneAssumption DEF TypeOK, FlagsTyped
<1>1. CASE UNCHANGED <<conn, sender>>
  BY <1>1 DEF SenderAttached
<1>2. ASSUME NEW c \in Conns, Serve(c) \/ Lose(c)
      PROVE  /\ SenderAttached'
             /\ sender # None /\ sender' = None => conn'[sender].pc \in Ending
  <2>1. /\ conn[c].pc \in Holding => conn'[c].pc \in Holding \/ (ClearSender(c) /\ conn'[c].pc \in Ending)
        /\ ClearSender(c) => sender' = (IF sender = c THEN None ELSE sender) /\ conn'[c].pc \in Ending
        /\ Attach(c) => sender' = c /\ conn'[c].pc \in Holding
        /\ ~ClearSender(c) /\ ~Attach(c) => UNCHANGED sender
    BY <1>2, HoldsOn
  <2>2. \A d \in Conns \ {c} : conn'[d] = conn[d]
    BY <1>2, RecordSteps
  <2>3. QED
    BY <1>0, <2>1, <2>2 DEF SenderAttached
<1>3. ASSUME NEW c \in Conns, NEW p \in Phones, Dial(c, p)
      PROVE  SenderAttached' /\ UNCHANGED sender
  <2>1. conn[c].pc = "idle" /\ UNCHANGED sender
    BY <1>3 DEF Dial, At
  <2>2. "idle" \notin Holding
    BY DEF Holding, Attached
  <2>3. \A d \in Conns \ {c} : conn'[d] = conn[d]
    BY <1>3, DialMoves, ConnBecomes
  <2>4. QED
    BY <1>0, <2>1, <2>2, <2>3 DEF SenderAttached
<1>4. ASSUME Restart
      PROVE  sender' = None /\ (sender # None => conn'[sender].pc \in Ending)
  <2>1. sender' = None /\ conn' = [c \in Conns |-> IF conn[c].pc = "idle" THEN Idle ELSE Closed]
    BY <1>4 DEF Restart, At
  <2>2. "idle" \notin Holding /\ "closed" \in Ending
    BY DEF Holding, Attached, Ending
  <2>3. QED
    BY <1>0, <2>1, <2>2, ClosedTyped DEF SenderAttached
<1>5. CASE DropSender
  <2>1. sender' = None /\ user.pc = "drop"
    BY <1>5 DEF DropSender, Step
  <2>2. QED
    BY <2>1 DEF SenderAttached
<1>6. CASE \E p \in Phones : Scan(p) \/ Remove(p) \/ Pick(p)
  BY <1>1, <1>6 DEF Scan, Remove, Pick, memory
<1>7. CASE \E on \in BOOLEAN : SetAuto(on)
  BY <1>1, <1>7 DEF SetAuto, memory
<1>8. CASE EndGrace \/ PairingCodeIsLive \/ ShowCode \/ Expire \/ Disconnect
  BY <1>1, <1>8 DEF EndGrace, PairingCodeIsLive, ShowCode, SetPairing, Expire, Disconnect, memory
<1>9. CASE Pause \/ RetireCode \/ EraseCode \/ Forget \/ DeleteRow
  BY <1>1, <1>9 DEF Pause, RetireCode, EraseCode, Forget, DeleteRow
<1>10. CASE UNCHANGED vars
  BY <1>1, <1>10 DEF vars, memory
<1>11. CASE Restart
  BY <1>4, <1>11 DEF SenderAttached
<1>12. CASE \E c \in Conns : Serve(c) \/ Lose(c)
  BY <1>2, <1>12
<1>13. CASE \E c \in Conns, p \in Phones : Dial(c, p)
  BY <1>3, <1>13
<1>14. QED
  BY <1>5, <1>6, <1>7, <1>8, <1>9, <1>10, <1>11, <1>12, <1>13 DEF Next, ManualDisconnect

LEMMA SenderInvariant == Spec => [](TypeOK /\ SenderAttached)
<1>1. Init => SenderAttached
  BY DEF Init, SenderAttached
<1>2. TypeOK /\ SenderAttached /\ [Next]_vars => SenderAttached'
  BY SenderStep
<1>3. QED
  BY <1>1, <1>2, TypeCorrect, PTL DEF Spec

\* A connection stays attached until it ends itself, another replaces it or the user lets the
\* phone go: the late end of a replaced connection never detaches its successor.
\* (clear_phone_sender_if_current_with_reason, state.rs:559-588)
THEOREM OnlyItsEnd == Spec => OnlyItsEndDetaches
<1>1. TypeOK /\ SenderAttached /\ [Next]_vars =>
        [sender # None /\ sender' = None => conn'[sender].pc \in Ending \/ user.pc = "drop"]_vars
  BY SenderStep
<1>2. QED
  BY <1>1, SenderInvariant, PTL DEF Spec, OnlyItsEndDetaches

-----------------------------------------------------------------------------
(* Who stays out uninvited.  A phone is invited when the key it holds is   *)
(* that of a code valid in this run.  An invitation is never withdrawn     *)
(* before the app is started again, because only a code that can still be  *)
(* read is scanned, and none of those is older than the run.               *)

Invited(p, ky, f) == ky[p] >= f

\* A code somewhere in the app: one that was generated, and of this run while it is valid.
Fine(x, n, e, f) == x # None => x <= n /\ (~e => x >= f)

\* What a task that serves a connection knows of the phone, and with neither automatic
\* reconnection nor a pick, what every answer it has read says about the phone.
KnownBy(k, ky, f) == k.pc \in Working => ky[k.phone] = k.key \/ Invited(k.phone, ky, f)
CleanBy(k, ky, f) ==
  /\ k.pc \in {"standing", "decide"} => ~k.auto /\ (k.holds => k.key >= f)
  /\ k.pc = "decide" => (k.resuming => Invited(k.phone, ky, f))
  /\ k.pc \in {"approve", "attach"} \union Holding => Invited(k.phone, ky, f)

CodeBook ==
  /\ firstCode <= codeCount + 1
  /\ Fine(codeMem, codeCount, expired, firstCode) /\ Fine(codeDisk, codeCount, expired, firstCode)
Known     == \A c \in Conns : KnownBy(conn[c], key, firstCode)
Untouched == ~autoEver /\ pick = None
Clean     ==
  /\ ~allowed
  /\ approved # None => Invited(approved, key, firstCode)
  /\ \A c \in Conns : CleanBy(conn[c], key, firstCode)

Uninvited ==
  /\ CodeBook /\ (auto => autoEver) /\ Known
  /\ Untouched => Clean

LEMMA CodeBookStep ==
  ASSUME TypeOK, CodeBook, [Next]_vars
  PROVE  CodeBook'
<1>0. /\ codeCount \in Nat /\ firstCode \in Nat
      /\ codeMem \in Screen \union {None} /\ codeDisk \in Screen \union {None} /\ Screen \subseteq Nat
      /\ Fine(codeMem, codeCount, expired, firstCode) /\ Fine(codeDisk, codeCount, expired, firstCode)
  BY BoundsAssumption DEF TypeOK, CodesTyped, Screen, Codes, CodeBook
<1>1. /\ CurrentCode \in {codeMem, codeDisk}
      /\ Fine(CurrentCode, codeCount, expired, firstCode)
  BY <1>0 DEF CurrentCode
<1>2. Fine(None, codeCount, expired, firstCode)
  BY DEF Fine
<1>3. UNCHANGED <<codeCount, expired, firstCode>> /\ codeMem' \in {codeMem, CurrentCode, None}
        /\ codeDisk' \in {codeDisk, None} => CodeBook'
  BY <1>0, <1>1, <1>2 DEF CodeBook
<1>4. ASSUME NEW c \in Conns, Serve(c) \/ Lose(c)
      PROVE  UNCHANGED <<codeCount, expired, firstCode, codeDisk>> /\ codeMem' \in {codeMem, CurrentCode}
  BY <1>4 DEF Serve, ReadKey, ReadCode, ReadStanding, Decide, Approve, Attach, MarkConnected, CheckCurrent,
              Announce, Lose, EndStale, ClearSender, MarkDisconnected, BeginGrace,
              disk, outside, phones, history, run
<1>5. CASE \E c \in Conns : Serve(c) \/ Lose(c)
  BY <1>3, <1>4, <1>5
<1>6. CASE (\E c \in Conns, p \in Phones : Dial(c, p)) \/ (\E p \in Phones : Remove(p) \/ Pick(p))
  BY <1>3, <1>6 DEF Dial, Remove, Pick, disk, outside, phones, history, run
<1>7. CASE (\E p \in Phones : Scan(p)) \/ (\E on \in BOOLEAN : SetAuto(on))
  BY <1>3, <1>7 DEF Scan, SetAuto, memory, disk, phones, history, run
<1>8. CASE \/ EndGrace \/ PairingCodeIsLive \/ Disconnect
           \/ Pause \/ RetireCode \/ EraseCode \/ Forget \/ DropSender \/ DeleteRow
  BY <1>3, <1>8 DEF EndGrace, PairingCodeIsLive, Disconnect, Pause, RetireCode, EraseCode, Forget, DropSender, DeleteRow,
                    disk, outside, phones, history, run
<1>9. CASE ShowCode
  <2>1. CASE codeMem' = CurrentCode /\ codeDisk' = CurrentCode /\ UNCHANGED <<codeCount, expired>>
    BY <1>0, <1>1, <1>9, <2>1 DEF CodeBook, ShowCode, history, run
  <2>2. CASE codeCount' = codeCount + 1 /\ codeMem' = codeCount' /\ codeDisk' = codeCount'
    BY <1>0, <1>9, <2>2 DEF CodeBook, ShowCode, history, run, Fine
  <2>3. QED
    BY <1>9, <2>1, <2>2 DEF ShowCode, SetPairing
<1>10. CASE Expire
  <2>1. expired' /\ UNCHANGED <<codeCount, firstCode, codeMem, codeDisk>>
    BY <1>10 DEF Expire, memory, disk, history, run
  <2>2. QED
    BY <1>0, <2>1 DEF CodeBook, Fine
<1>11. CASE Restart
  <2>1. /\ codeMem' = None /\ UNCHANGED <<codeDisk, codeCount, expired>>
        /\ firstCode' = IF codeDisk # None /\ ~expired THEN codeDisk ELSE codeCount + 1
    BY <1>11 DEF Restart, CodeLive, disk, phones
  <2>2. QED
    BY <1>0, <2>1 DEF CodeBook, Fine
<1>12. CASE UNCHANGED vars
  BY <1>3, <1>12 DEF vars, memory, disk, outside, phones, history, run
<1>13. QED
  BY <1>5, <1>6, <1>7, <1>8, <1>9, <1>10, <1>11, <1>12 DEF Next, ManualDisconnect

LEMMA ServeStays ==
  ASSUME TypeOK, NEW c \in Conns, Serve(c) \/ Lose(c)
  PROVE  /\ conn[c].pc \in Working
         /\ conn'[c] = Closed \/ (conn'[c].phone = conn[c].phone /\ conn'[c].key = conn[c].key)
         /\ UNCHANGED <<user, auto, codeCount, expired, key, acts, pick, firstCode, autoEver>>
<1>1. {"key", "code", "standing", "decide", "approve", "attach", "clear", "unmark", "grace"} \union Attached
         \subseteq Working
  BY DEF Working, Pcs, Deciding, Attached, Ending
<1>2. conn[c].pc \in Working
  <2>1. "announce" \in Attached
    BY DEF Attached
  <2>2. QED
    BY <1>1, <2>1, GotoSteps, RecordSteps DEF Serve
<1>3. conn'[c] = Closed \/ (conn'[c].phone = conn[c].phone /\ conn'[c].key = conn[c].key)
  <2>0. Serves(conn[c]) /\ conn[c].phone \in Phones /\ conn[c].key \in Codes
    BY <1>2, ConnNow DEF TypeOK
  <2>1. \A pc \in Working : Put(conn[c], pc).phone = conn[c].phone /\ Put(conn[c], pc).key = conn[c].key
    BY <1>2, <2>0, PutTyped
  <2>2. CASE ReadKey(c) \/ ClearSender(c)
    BY <1>1, <2>1, <2>2, RecordSteps
  <2>3. CASE ReadCode(c)
    BY <1>2, <2>0, <2>3, RecordSteps, WithCodeTyped, HoldsCodeBoolean DEF TypeOK, FlagsTyped
  <2>4. CASE ReadStanding(c)
    <3>1. (approved = conn[c].phone) \in BOOLEAN
      BY Zenon
    <3>2. paused \in BOOLEAN
      BY DEF TypeOK, FlagsTyped
    <3>3. conn'[c] = WithStanding(conn[c], paused, approved = conn[c].phone)
      BY <2>4, RecordSteps
    <3>4. \A r \in BOOLEAN : /\ WithStanding(conn[c], paused, r).phone = conn[c].phone
                            /\ WithStanding(conn[c], paused, r).key = conn[c].key
      BY <1>2, <2>0, <3>2, WithStandingTyped
    <3>5. QED
      BY <3>1, <3>3, <3>4, Zenon
  <2>5. CASE Decide(c)
    BY <2>0, <2>5, RecordSteps, BeginningTyped
  <2>6. CASE Announce(c)
    BY <1>2, <2>0, <2>6, RecordSteps, NotifiedTyped
  <2>7. CASE BeginGrace(c)
    BY <2>7, RecordSteps
  <2>8. QED
    BY GotoSteps, <2>2, <2>3, <2>4, <2>5, <2>6, <2>7 DEF Serve
<1>4. UNCHANGED <<user, auto, codeCount, expired, key, acts, pick, firstCode, autoEver>>
  BY DEF Serve, ReadKey, ReadCode, ReadStanding, Decide, Approve, Attach, MarkConnected, CheckCurrent,
         Announce, Lose, EndStale, ClearSender, MarkDisconnected, BeginGrace,
         disk, outside, phones, history, run
<1>5. QED
  BY <1>2, <1>3, <1>4

\* The steps of the user, of the clock, of the relay supervisor and of the end of a grace
\* period leave the phones and their connections alone, and only a pick opens the PC.
Aside ==
  \/ \E p \in Phones : Remove(p) \/ Pick(p)
  \/ \E on \in BOOLEAN : SetAuto(on)
  \/ EndGrace \/ PairingCodeIsLive \/ ShowCode \/ Expire \/ Disconnect \/ ManualDisconnect

LEMMA AsideStays ==
  ASSUME TypeOK, Aside \/ UNCHANGED vars
  PROVE  /\ UNCHANGED <<conn, key, firstCode>>
         /\ (auto => autoEver) => (auto' => autoEver')
         /\ Untouched' => Untouched /\ (allowed' => allowed) /\ approved' \in {approved, None}
<1>1. CASE \E p \in Phones : Remove(p)
  BY <1>1 DEF Remove, Untouched, flags, phones, history, run
<1>2. ASSUME NEW p \in Phones, Pick(p)
      PROVE  ~Untouched' /\ UNCHANGED <<conn, key, firstCode, auto, autoEver>>
  BY <1>2, NoneAssumption DEF Pick, Untouched, disk, phones
<1>3. CASE \E p \in Phones : Pick(p)
  BY <1>2, <1>3
<1>4. ASSUME NEW on \in BOOLEAN, SetAuto(on)
      PROVE  /\ UNCHANGED <<conn, key, firstCode, allowed, approved, pick>>
             /\ auto' = on /\ autoEver' = (autoEver \/ on)
  BY <1>4 DEF SetAuto, memory, flags, phones
<1>5. CASE EndGrace \/ PairingCodeIsLive \/ ShowCode \/ Disconnect
  BY <1>5 DEF EndGrace, PairingCodeIsLive, ShowCode, SetPairing, Disconnect, Untouched, flags, disk, outside, phones, history, run
<1>6. CASE Expire
  BY <1>6 DEF Expire, Untouched, memory, flags, disk, history, run
<1>7. CASE Pause \/ RetireCode \/ EraseCode \/ Forget \/ DropSender \/ DeleteRow
  BY <1>7 DEF Pause, RetireCode, EraseCode, Forget, DropSender, DeleteRow, Untouched, flags, disk, outside, phones,
              history, run
<1>8. CASE UNCHANGED vars
  BY <1>8 DEF vars, Untouched, memory, flags, disk, outside, phones, history, run
<1>9. ASSUME NEW on \in BOOLEAN, SetAuto(on)
      PROVE  (auto' => autoEver') /\ (Untouched' => Untouched)
  BY <1>4, <1>9, Zenon DEF Untouched
<1>10. CASE \E on \in BOOLEAN : SetAuto(on)
  BY <1>4, <1>9, <1>10
<1>11. QED
  BY <1>1, <1>3, <1>10, <1>5, <1>6, <1>7, <1>8 DEF Aside, ManualDisconnect

LEMMA DialStays ==
  ASSUME TypeOK, NEW c \in Conns, NEW p \in Phones, Dial(c, p)
  PROVE  /\ conn'[c].pc = "key" /\ conn'[c].phone = p /\ conn'[c].key = key[p]
         /\ \A d \in Conns \ {c} : conn'[d] = conn[d]
         /\ UNCHANGED <<key, firstCode, auto, autoEver, pick, allowed, approved>>
<1>1. key[p] \in Codes
  BY DEF TypeOK, CodesTyped
<1>2. conn' = [conn EXCEPT ![c] = Beginning("key", p, key[p])]
  BY DialMoves
<1>3. UNCHANGED <<key, firstCode, auto, autoEver, pick, allowed, approved>>
  BY DEF Dial, flags, disk, outside, phones, history, run
<1>4. conn'[c] = Beginning("key", p, key[p]) /\ \A d \in Conns \ {c} : conn'[d] = conn[d]
  BY <1>2, ConnBecomes
<1>5. QED
  BY <1>1, <1>3, <1>4, BeginningTyped

\* A scan invites the phone, and takes no invitation back.
LEMMA ScanInvites ==
  ASSUME TypeOK, CodeBook, NEW p \in Phones, Scan(p)
  PROVE  /\ UNCHANGED <<conn, firstCode, auto, autoEver, pick, allowed, approved>>
         /\ Invited(p, key', firstCode) /\ \A q \in Phones \ {p} : key'[q] = key[q]
<1>1. UNCHANGED <<conn, firstCode, auto, autoEver, pick, allowed, approved>>
  BY DEF Scan, memory, flags, disk, history, run
<1>2. codeMem >= firstCode /\ key' = [key EXCEPT ![p] = codeMem]
  BY DEF Scan, CodeLive, CodeBook, Fine
<1>3. QED
  BY <1>1, <1>2 DEF Invited, TypeOK, CodesTyped

LEMMA RestartStays ==
  ASSUME Restart
  PROVE  /\ \A c \in Conns : conn'[c].pc \in {"idle", "closed"}
         /\ ~allowed' /\ approved' = None /\ (auto' => autoEver')
<1>1. conn' = [c \in Conns |-> IF At(c, "idle") THEN Idle ELSE Closed]
  BY DEF Restart
<1>2. \A c \in Conns : conn'[c].pc \in {"idle", "closed"}
  BY <1>1, ClosedTyped
<1>3. QED
  BY <1>2 DEF Restart, disk

LEMMA KnownStep ==
  ASSUME TypeOK, CodeBook, Known, [Next]_vars
  PROVE  Known'
<1>1. \A c \in Conns : conn[c].pc \in Working => conn[c].phone \in Phones
  BY ConnNow DEF TypeOK
<1>2. "closed" \notin Working /\ "idle" \notin Working
  BY DEF Working
<1>3. ASSUME NEW c \in Conns, Serve(c) \/ Lose(c)
      PROVE  Known'
  <2>1. KnownBy(conn[c], key, firstCode) => KnownBy(conn'[c], key, firstCode)
    BY <1>2, <1>3, ServeStays, ClosedTyped DEF KnownBy
  <2>2. \A d \in Conns \ {c} : conn'[d] = conn[d]
    BY <1>3, RecordSteps
  <2>3. UNCHANGED <<key, firstCode>>
    BY <1>3, ServeStays
  <2>4. QED
    BY <2>1, <2>2, <2>3 DEF Known
<1>4. ASSUME NEW c \in Conns, NEW p \in Phones, Dial(c, p)
      PROVE  Known'
  <2>1. KnownBy(conn'[c], key, firstCode)
    BY <1>4, DialStays DEF KnownBy
  <2>2. QED
    BY <1>4, <2>1, DialStays DEF Known
<1>5. ASSUME NEW p \in Phones, Scan(p)
      PROVE  Known'
  <2>1. ASSUME NEW c \in Conns PROVE KnownBy(conn[c], key', firstCode)
    <3>1. KnownBy(conn[c], key, firstCode)
      BY DEF Known
    <3>2. QED
      BY <1>1, <1>5, <3>1, ScanInvites DEF KnownBy, Invited
  <2>2. UNCHANGED <<conn, firstCode>>
    BY <1>5, ScanInvites
  <2>3. QED
    BY <2>1, <2>2 DEF Known
<1>6. CASE Restart
  BY <1>2, <1>6, RestartStays DEF Known, KnownBy
<1>7. CASE Aside \/ UNCHANGED vars
  BY <1>7, AsideStays DEF Known
<1>8. QED
  BY <1>3, <1>4, <1>5, <1>6, <1>7 DEF Next, Aside

\* What a connection reads and decides, with automatic reconnection off and no pick.
LEMMA ServeClean ==
  ASSUME TypeOK, Uninvited, Untouched, NEW c \in Conns, Serve(c) \/ Lose(c)
  PROVE  CleanBy(conn'[c], key, firstCode)
<1>0. /\ Clean /\ ~auto /\ ~allowed /\ CleanBy(conn[c], key, firstCode) /\ KnownBy(conn[c], key, firstCode)
      /\ Serves(conn[c]) /\ (paused \in BOOLEAN) /\ (auto \in BOOLEAN) /\ firstCode \in Nat
  BY ConnNow, BoundsAssumption DEF Uninvited, Untouched, Clean, Known, TypeOK, FlagsTyped, CodesTyped
<1>1. /\ conn[c].pc \in Working /\ conn[c].phone \in Phones /\ conn[c].key \in Codes
      /\ conn'[c] = Closed \/ (conn'[c].phone = conn[c].phone /\ conn'[c].key = conn[c].key)
  BY ServeStays, ConnNow DEF TypeOK
<1>2. {"code", "unmark", "grace", "closed"} \cap ({"standing", "decide", "approve", "attach"} \union Holding) = {}
  BY DEF Holding, Attached
<1>3. conn'[c].pc \in {"code", "unmark", "grace", "closed"} => CleanBy(conn'[c], key, firstCode)
  BY <1>2 DEF CleanBy
<1>4. conn'[c] = Closed => CleanBy(conn'[c], key, firstCode)
  BY <1>3, ClosedTyped
<1>5. {"standing", "decide"} \cap ({"approve", "attach"} \union Holding) = {}
  BY DEF Holding, Attached
<1>6. CASE ReadKey(c)
  BY <1>3, <1>6, RecordSteps
<1>7. CASE ReadCode(c)
  <2>1. conn'[c] = WithCode(conn[c], auto, HoldsCode(c))
    BY <1>7, RecordSteps
  <2>2. /\ conn'[c].pc = "standing" /\ conn'[c].key = conn[c].key
        /\ conn'[c].auto = auto /\ conn'[c].holds = HoldsCode(c)
    BY <1>0, <1>1, <2>1, WithCodeTyped, HoldsCodeBoolean
  <2>3. HoldsCode(c) => conn[c].key >= firstCode
    BY <1>0 DEF HoldsCode, CodeLive, CurrentCode, Uninvited, CodeBook, Fine
  <2>4. QED
    BY <1>0, <1>5, <2>2, <2>3 DEF CleanBy
<1>8. CASE ReadStanding(c)
  <2>1. conn'[c] = WithStanding(conn[c], paused, approved = conn[c].phone) /\ conn[c].pc = "standing"
    BY <1>8, RecordSteps
  <2>2. \A r \in BOOLEAN : LET k == WithStanding(conn[c], paused, r) IN
          /\ k.pc = "decide" /\ k.phone = conn[c].phone /\ k.key = conn[c].key
          /\ k.auto = conn[c].auto /\ k.holds = conn[c].holds /\ k.resuming = r
    BY <1>0, <1>1, WithStandingTyped
  <2>3. (approved = conn[c].phone) \in BOOLEAN
    BY Zenon
  <2>4. /\ conn'[c].pc = "decide" /\ conn'[c].phone = conn[c].phone /\ conn'[c].key = conn[c].key
        /\ conn'[c].auto = conn[c].auto /\ conn'[c].holds = conn[c].holds
        /\ conn'[c].resuming = (approved = conn[c].phone)
    BY <2>1, <2>2, <2>3, Zenon
  <2>5. approved = conn[c].phone => Invited(conn[c].phone, key, firstCode)
    BY <1>0, <1>1, NoneAssumption DEF Clean
  <2>6. QED
    BY <1>0, <1>5, <2>1, <2>4, <2>5 DEF CleanBy
<1>9. CASE Decide(c)
  <2>1. SUFFICES ASSUME conn'[c] # Closed PROVE CleanBy(conn'[c], key, firstCode)
    BY <1>4
  <2>2. /\ ~NeedsAllowance(c) /\ conn[c].pc = "decide"
        /\ conn'[c] = Beginning("approve", conn[c].phone, conn[c].key)
    BY <1>0, <1>9, <2>1, RecordSteps
  <2>3. conn[c].holds \/ conn[c].resuming
    BY <1>0, <2>2 DEF NeedsAllowance, MayAttach, CleanBy
  <2>4. Invited(conn[c].phone, key, firstCode)
    BY <1>0, <1>1, <2>2, <2>3 DEF CleanBy, KnownBy, Invited
  <2>5. conn'[c].pc = "approve" /\ conn'[c].phone = conn[c].phone
    BY <1>1, <2>2, BeginningTyped
  <2>6. QED
    BY <2>4, <2>5 DEF CleanBy
<1>10. CASE Announce(c)
  <2>1. conn[c].pc = "announce" /\ conn'[c] = Notified(conn[c])
    BY <1>10, RecordSteps
  <2>2. conn'[c].pc = "live" /\ conn'[c].phone = conn[c].phone
    BY <1>0, <1>1, <2>1, NotifiedTyped
  <2>3. QED
    BY <1>0, <2>1, <2>2 DEF CleanBy, Holding, Attached
<1>11. CASE ClearSender(c)
  <2>1. "unmark" \in Working
    BY DEF Working, Pcs, Ending
  <2>2. Put(conn[c], "unmark").pc = "unmark"
    BY <1>0, <1>1, <2>1, PutTyped
  <2>3. QED
    BY <1>3, <1>4, <1>11, <2>2, RecordSteps
<1>12. CASE BeginGrace(c)
  BY <1>4, <1>12, RecordSteps
<1>13. CASE MarkDisconnected(c)
  BY <1>3, <1>13, GotoSteps
<1>14. CASE Approve(c) \/ Attach(c) \/ MarkConnected(c) \/ CheckCurrent(c) \/ EndStale(c) \/ Lose(c)
  <2>1. /\ conn[c].pc \in {"approve", "attach"} \union Holding
        /\ conn'[c].pc \in {"approve", "attach"} \union Holding
        /\ conn'[c].phone = conn[c].phone
    <3>1. "mark" \in Attached /\ Attached \subseteq Holding
      BY DEF Holding, Attached
    <3>2. QED
      BY <1>14, <3>1, GotoSteps
  <2>2. QED
    BY <1>0, <1>5, <2>1 DEF CleanBy
<1>15. QED
  BY <1>6, <1>7, <1>8, <1>9, <1>10, <1>11, <1>12, <1>13, <1>14 DEF Serve

LEMMA CleanStep ==
  ASSUME TypeOK, Uninvited, [Next]_vars, Untouched'
  PROVE  Clean'
<1>1. \A c \in Conns : conn[c].pc \in Working => conn[c].phone \in Phones
  BY ConnNow DEF TypeOK
<1>2. {"idle", "closed", "key"} \cap ({"standing", "decide", "approve", "attach"} \union Holding) = {}
  BY DEF Holding, Attached
<1>3. ASSUME NEW c \in Conns, Serve(c) \/ Lose(c)
      PROVE  Clean'
  <2>1. Untouched /\ Clean /\ UNCHANGED <<key, firstCode>>
    BY <1>3, ServeStays DEF Untouched, Uninvited
  <2>2. CleanBy(conn'[c], key, firstCode)
    BY <1>3, <2>1, ServeClean
  <2>3. \A d \in Conns \ {c} : conn'[d] = conn[d]
    BY <1>3, RecordSteps
  <2>4. (allowed' => allowed) /\ (UNCHANGED approved \/ (Approve(c) /\ approved' = conn[c].phone))
    <3>1. CASE Decide(c)
      <4>1. allowed' = (allowed /\ ~NeedsAllowance(c)) /\ UNCHANGED approved
        BY <3>1 DEF Decide
      <4>2. QED
        BY <4>1
    <3>2. CASE Approve(c)
      BY <3>2 DEF Approve
    <3>3. CASE ~Decide(c) /\ ~Approve(c)
      BY <1>3, <3>3 DEF Serve, ReadKey, ReadCode, ReadStanding, Attach, MarkConnected, CheckCurrent,
                  Announce, Lose, EndStale, ClearSender, MarkDisconnected, BeginGrace, flags
    <3>4. QED
      BY <3>1, <3>2, <3>3
  <2>5. Approve(c) => Invited(conn[c].phone, key, firstCode)
    BY <2>1 DEF Approve, At, Clean, CleanBy
  <2>6. QED
    BY <2>1, <2>2, <2>3, <2>4, <2>5 DEF Clean
<1>4. ASSUME NEW c \in Conns, NEW p \in Phones, Dial(c, p)
      PROVE  Clean'
  <2>1. CleanBy(conn'[c], key, firstCode)
    BY <1>2, <1>4, DialStays DEF CleanBy
  <2>2. Untouched /\ Clean
    BY <1>4, DialStays DEF Untouched, Uninvited
  <2>3. QED
    BY <1>4, <2>1, <2>2, DialStays DEF Clean
<1>5. ASSUME NEW p \in Phones, Scan(p)
      PROVE  Clean'
  <2>1. /\ UNCHANGED <<conn, firstCode, allowed, approved>> /\ Untouched /\ Clean
        /\ Invited(p, key', firstCode) /\ \A q \in Phones \ {p} : key'[q] = key[q]
    BY <1>5, ScanInvites DEF Uninvited, Untouched
  <2>2. \A q \in Phones : Invited(q, key, firstCode) => Invited(q, key', firstCode)
    BY <2>1 DEF Invited
  <2>3. ASSUME NEW c \in Conns PROVE CleanBy(conn[c], key', firstCode)
    <3>1. CleanBy(conn[c], key, firstCode)
      BY <2>1 DEF Clean
    <3>2. {"decide", "approve", "attach"} \union Holding \subseteq Working
      BY DEF Working, Pcs, Deciding, Holding, Attached, Ending
    <3>3. QED
      BY <1>1, <2>2, <3>1, <3>2 DEF CleanBy
  <2>4. approved \in Phones \union {None}
    BY DEF TypeOK, FlagsTyped
  <2>5. QED
    BY <2>1, <2>2, <2>3, <2>4 DEF Clean
<1>6. CASE Restart
  <2>1. \A c \in Conns : CleanBy(conn'[c], key', firstCode')
    BY <1>2, <1>6, RestartStays DEF CleanBy
  <2>2. QED
    BY <1>6, <2>1, RestartStays DEF Clean
<1>7. CASE Aside \/ UNCHANGED vars
  BY <1>7, AsideStays DEF Clean, Uninvited
<1>8. QED
  BY <1>3, <1>4, <1>5, <1>6, <1>7 DEF Next, Aside

LEMMA UninvitedInvariant == Spec => [](TypeOK /\ SenderAttached /\ Uninvited)
<1>1. Init => Uninvited
  <2>1. SUFFICES ASSUME Init PROVE Uninvited
    OBVIOUS
  <2>2. CodeBook /\ (auto => autoEver) /\ ~allowed /\ approved = None /\ \A c \in Conns : conn[c].pc = "idle"
    BY <2>1, IdleTyped DEF Init, CodeBook, Fine
  <2>3. "idle" \notin Working /\ "idle" \notin {"standing", "decide", "approve", "attach"} \union Holding
    BY DEF Working, Holding, Attached
  <2>4. QED
    BY <2>2, <2>3 DEF Uninvited, Known, KnownBy, Clean, CleanBy
<1>2. TypeOK /\ Uninvited /\ [Next]_vars => Uninvited'
  <2>1. SUFFICES ASSUME TypeOK, Uninvited, [Next]_vars PROVE auto' => autoEver'
    BY CodeBookStep, KnownStep, CleanStep DEF Uninvited
  <2>2. CASE \E c \in Conns : Serve(c) \/ Lose(c)
    BY <2>1, <2>2, ServeStays DEF Uninvited
  <2>3. CASE \E c \in Conns, p \in Phones : Dial(c, p)
    BY <2>1, <2>3, DialStays DEF Uninvited
  <2>4. CASE \E p \in Phones : Scan(p)
    BY <2>1, <2>4, ScanInvites DEF Uninvited
  <2>5. CASE Restart
    BY <2>5, RestartStays
  <2>6. CASE Aside \/ UNCHANGED vars
    BY <2>1, <2>6, AsideStays DEF Uninvited
  <2>7. QED
    BY <2>1, <2>2, <2>3, <2>4, <2>5, <2>6 DEF Next, Aside
<1>3. QED
  BY <1>1, <1>2, SenderInvariant, PTL DEF Spec

\* With automatic reconnection off since the PC started, and no saved phone picked by name,
\* only a phone that scanned a code valid in this run is ever attached.  (attach.rs:3-20;
\* state.rs:85-88)
THEOREM StaysOut == Spec => []UninvitedStaysOut
<1>1. TypeOK /\ SenderAttached /\ Uninvited => UninvitedStaysOut
  <2>1. SUFFICES ASSUME TypeOK, SenderAttached, Uninvited, sender # None, Untouched
                 PROVE  key[conn[sender].phone] >= firstCode
    BY DEF UninvitedStaysOut, Untouched
  <2>2. sender \in Conns
    BY <2>1 DEF TypeOK, FlagsTyped
  <2>3. CleanBy(conn[sender], key, firstCode) /\ conn[sender].pc \in Holding
    BY <2>1, <2>2 DEF Uninvited, Clean, SenderAttached
  <2>4. QED
    BY <2>3 DEF CleanBy, Invited
<1>2. QED
  BY <1>1, UninvitedInvariant, PTL

-----------------------------------------------------------------------------
(* What a disconnect promises.  While it stands the PC is paused, every    *)
(* valid code in the app was generated after it, no connection that is     *)
(* being decided holds anything but such a code, and none has been         *)
(* admitted: a scan of a later code lifts the disconnect in the step that  *)
(* admits the phone.  Until the command has retired the code, no phone has *)
(* got as far as reading it; a code the supervisor reads back while it is  *)
(* retired ends the cut.                                                   *)

Beyond(x, e, n) == x # None /\ ~e => x > n

HeldOff(k, n) ==
  /\ k.pc \notin {"approve", "attach"}
  /\ k.pc \in {"standing", "decide"} => (k.holds => k.key > n)
  /\ k.pc = "decide" => k.paused

CodesBeyond ==
  /\ user.pc \notin {"retire", "erase"} =>
       ~allowed /\ Beyond(codeMem, expired, cut) /\ Beyond(codeDisk, expired, cut)
  /\ user.pc = "erase" => codeMem = None
NoneRead == user.pc \notin {"idle", "pause"} => \A c \in Conns : conn[c].pc \in Deciding => conn[c].pc = "key"
LetGo    == user.pc \in {"idle", "pause", "delete"} => sender = None

Cut ==
  cut # None =>
    /\ paused /\ cut <= codeCount
    /\ CodesBeyond /\ NoneRead /\ LetGo
    /\ \A c \in Conns : HeldOff(conn[c], cut)

LEMMA OffDecision ==
  ASSUME NEW k, k.pc \notin {"standing", "decide", "approve", "attach"}, NEW n
  PROVE  HeldOff(k, n)
BY DEF HeldOff

\* The tasks that are past the decision, or have not read the code.
LEMMA CutElsewhere ==
  ASSUME TypeOK, Cut, cut # None, NEW c \in Conns,
         \/ MarkConnected(c) \/ CheckCurrent(c) \/ Announce(c) \/ Lose(c)
         \/ EndStale(c) \/ ClearSender(c) \/ MarkDisconnected(c) \/ BeginGrace(c)
  PROVE  Cut'
<1>0. paused /\ cut <= codeCount /\ CodesBeyond /\ NoneRead /\ LetGo /\ \A d \in Conns : HeldOff(conn[d], cut)
  BY DEF Cut
<1>1. Serve(c) \/ Lose(c)
  BY DEF Serve
<1>2. \A d \in Conns \ {c} : conn'[d] = conn[d]
  BY <1>1, RecordSteps
<1>3. conn'[c].pc \notin Deciding
  <2>1. CASE MarkConnected(c) \/ CheckCurrent(c) \/ EndStale(c) \/ Lose(c)
    BY <2>1, GotoSteps DEF Holding, Attached, Deciding
  <2>2. CASE Announce(c)
    <3>1. conn[c].pc \in Working /\ conn'[c] = Notified(conn[c])
      BY <2>2, RecordSteps DEF Working, Pcs, Attached
    <3>2. conn'[c].pc = "live"
      BY <3>1, ConnNow, NotifiedTyped DEF TypeOK
    <3>3. QED
      BY <3>2 DEF Deciding
  <2>3. CASE ClearSender(c)
    BY <1>1, <2>3, HoldsOn DEF Ending, Deciding
  <2>4. CASE MarkDisconnected(c)
    BY <2>4, GotoSteps DEF Deciding
  <2>5. CASE BeginGrace(c)
    BY <2>5, RecordSteps, ClosedTyped DEF Deciding
  <2>6. QED
    BY <2>1, <2>2, <2>3, <2>4, <2>5
<1>4. /\ UNCHANGED <<paused, allowed, codeMem, codeDisk, codeCount, expired, user, cut>>
      /\ sender' \in {sender, None}
  BY DEF MarkConnected, CheckCurrent, Announce, Lose, EndStale, ClearSender, MarkDisconnected, BeginGrace,
         flags, memory, disk, outside, phones, history
<1>5. CodesBeyond' /\ LetGo'
  BY <1>0, <1>4 DEF CodesBeyond, LetGo
<1>6. NoneRead'
  BY <1>0, <1>2, <1>3, <1>4 DEF NoneRead
<1>7. \A d \in Conns : HeldOff(conn'[d], cut)
  <2>1. HeldOff(conn'[c], cut)
    BY <1>3, OffDecision DEF Deciding
  <2>2. QED
    BY <1>0, <1>2, <2>1
<1>8. QED
  BY <1>0, <1>4, <1>5, <1>6, <1>7 DEF Cut

\* The tasks that are deciding.
LEMMA CutDecides ==
  ASSUME TypeOK, Cut, cut' # None, NEW c \in Conns,
         ReadKey(c) \/ ReadCode(c) \/ ReadStanding(c) \/ Decide(c) \/ Approve(c) \/ Attach(c)
  PROVE  Cut'
<1>0. cut' = cut /\ cut # None
  BY DEF ReadKey, ReadCode, ReadStanding, Decide, Approve, Attach, CutAfterRead, history
<1>1. /\ paused /\ cut <= codeCount /\ CodesBeyond /\ NoneRead /\ LetGo
      /\ (\A d \in Conns : HeldOff(conn[d], cut)) /\ HeldOff(conn[c], cut) /\ cut \in Nat
  BY <1>0 DEF Cut, TypeOK, CodesTyped, Codes
<1>2. Serve(c)
  BY DEF Serve
<1>3. /\ Serves(conn[c]) /\ conn[c].pc \in Working /\ conn[c].phone \in Phones
      /\ (paused \in BOOLEAN) /\ (auto \in BOOLEAN)
  BY <1>2, ServeStays, ConnNow DEF TypeOK, FlagsTyped
<1>4. \A d \in Conns \ {c} : conn'[d] = conn[d]
  BY <1>2, RecordSteps
<1>5. user' = user /\ UNCHANGED <<codeCount, expired, codeDisk>>
  BY <1>2, ServeStays DEF ReadKey, ReadCode, ReadStanding, Decide, Approve, Attach, disk
<1>6. ~Approve(c) /\ ~Attach(c)
  BY <1>1 DEF Approve, Attach, At, HeldOff
<1>7. user.pc \in {"idle", "pause"}
  <2>1. CASE ReadKey(c)
    BY <1>0, <2>1 DEF ReadKey, CutAfterRead
  <2>2. CASE ReadCode(c) \/ ReadStanding(c) \/ Decide(c)
    BY <1>1, <2>2, RecordSteps DEF NoneRead, Deciding
  <2>3. QED
    BY <1>6, <2>1, <2>2
<1>8. /\ ~allowed /\ Beyond(codeMem, expired, cut) /\ Beyond(codeDisk, expired, cut)
      /\ Beyond(CurrentCode, expired, cut)
  BY <1>1, <1>7 DEF CodesBeyond, CurrentCode
<1>9. NoneRead' /\ (UNCHANGED sender => LetGo')
  BY <1>1, <1>5, <1>7 DEF NoneRead, LetGo
<1>10. ASSUME UNCHANGED <<paused, sender>>, ~allowed', codeMem' \in {codeMem, CurrentCode}, HeldOff(conn'[c], cut)
       PROVE  Cut'
  <2>1. CodesBeyond'
    BY <1>0, <1>5, <1>7, <1>8, <1>10 DEF CodesBeyond
  <2>2. \A d \in Conns : HeldOff(conn'[d], cut)
    BY <1>1, <1>4, <1>10
  <2>3. QED
    BY <1>0, <1>1, <1>5, <1>9, <1>10, <2>1, <2>2 DEF Cut
<1>11. CASE ReadKey(c)
  <2>1. HeldOff(conn'[c], cut)
    BY <1>11, RecordSteps, OffDecision
  <2>2. QED
    BY <1>8, <1>10, <1>11, <2>1 DEF ReadKey, flags
<1>12. CASE ReadCode(c)
  <2>1. conn'[c] = WithCode(conn[c], auto, HoldsCode(c))
    BY <1>12, RecordSteps
  <2>2. conn'[c].pc = "standing" /\ conn'[c].key = conn[c].key /\ conn'[c].holds = HoldsCode(c)
    BY <1>3, <2>1, WithCodeTyped, HoldsCodeBoolean
  <2>3. HoldsCode(c) => conn[c].key > cut
    BY <1>8 DEF HoldsCode, CodeLive, Beyond
  <2>4. HeldOff(conn'[c], cut)
    BY <2>2, <2>3 DEF HeldOff
  <2>5. QED
    BY <1>8, <1>10, <1>12, <2>4 DEF ReadCode, flags
<1>13. CASE ReadStanding(c)
  <2>1. conn'[c] = WithStanding(conn[c], paused, approved = conn[c].phone) /\ conn[c].pc = "standing"
    BY <1>13, RecordSteps
  <2>2. \A r \in BOOLEAN : LET k == WithStanding(conn[c], paused, r) IN
          k.pc = "decide" /\ k.key = conn[c].key /\ k.holds = conn[c].holds /\ k.paused = paused
    BY <1>3, WithStandingTyped
  <2>3. (approved = conn[c].phone) \in BOOLEAN
    BY Zenon
  <2>4. /\ conn'[c].pc = "decide" /\ conn'[c].key = conn[c].key
        /\ conn'[c].holds = conn[c].holds /\ conn'[c].paused = paused
    BY <2>1, <2>2, <2>3, Zenon
  <2>5. HeldOff(conn'[c], cut)
    BY <1>1, <2>1, <2>4 DEF HeldOff
  <2>6. QED
    BY <1>8, <1>10, <1>13, <2>5 DEF ReadStanding, IsApproved, flags
<1>14. CASE Decide(c)
  <2>1. conn[c].pc = "decide" /\ conn[c].paused /\ (conn[c].holds => conn[c].key > cut)
    BY <1>1, <1>14, RecordSteps DEF HeldOff
  <2>2. ~conn[c].holds
    BY <1>0, <1>14, <2>1 DEF Decide, Lifts
  <2>3. NeedsAllowance(c) /\ ~Lifts(c)
    BY <2>1, <2>2 DEF NeedsAllowance, MayAttach, Lifts
  <2>4. conn'[c] = Closed
    BY <1>8, <1>14, <2>3, RecordSteps
  <2>5. HeldOff(conn'[c], cut)
    BY <2>4, ClosedTyped, OffDecision
  <2>6. /\ paused' = (paused /\ ~Lifts(c)) /\ allowed' = (allowed /\ ~NeedsAllowance(c))
        /\ UNCHANGED <<sender, codeMem>>
    BY <1>14 DEF Decide
  <2>7. paused' = paused /\ ~allowed'
    BY <1>1, <1>3, <1>8, <2>3, <2>6
  <2>8. QED
    BY <1>10, <2>5, <2>6, <2>7
<1>15. QED
  BY <1>6, <1>11, <1>12, <1>13, <1>14

\* The commands of the user.
LEMMA CutCommands ==
  ASSUME TypeOK, Cut, cut' # None, ManualDisconnect \/ Disconnect \/ \E p \in Phones : Remove(p)
  PROVE  Cut'
<1>0. user \in User /\ codeCount \in Nat
  BY DEF TypeOK, TasksTyped, CodesTyped, Codes
<1>1. cut' = cut => /\ paused /\ cut <= codeCount /\ CodesBeyond /\ NoneRead /\ LetGo
                    /\ \A d \in Conns : HeldOff(conn[d], cut)
  BY DEF Cut
<1>2. \A from, to : Step(from, to) => user.pc = from /\ user'.pc = to
  BY <1>0 DEF Step, User
<1>3. CASE Pause
  <2>1. /\ user'.pc = "retire" /\ paused' /\ cut' = codeCount /\ Quiet
        /\ UNCHANGED <<conn, codeCount>>
    BY <1>2, <1>3 DEF Pause, disk, outside, phones
  <2>2. \A d \in Conns : HeldOff(conn[d], codeCount) /\ conn[d].pc \notin Deciding
    BY <2>1, OffDecision DEF Quiet, Deciding
  <2>3. QED
    BY <1>0, <2>1, <2>2 DEF Cut, CodesBeyond, NoneRead, LetGo
<1>4. CASE RetireCode
  <2>1. /\ user.pc = "retire" /\ user'.pc = "erase" /\ codeMem' = None
        /\ UNCHANGED <<paused, conn, codeCount, cut>>
    BY <1>2, <1>4 DEF RetireCode, flags, outside, phones, history
  <2>2. QED
    BY <1>1, <2>1 DEF Cut, CodesBeyond, NoneRead, LetGo
<1>5. CASE EraseCode
  <2>1. /\ user.pc = "erase" /\ user'.pc = "forget" /\ codeDisk' = None /\ ~allowed'
        /\ UNCHANGED <<paused, codeMem, conn, codeCount, cut>>
    BY <1>2, <1>5 DEF EraseCode, outside, phones, history
  <2>2. QED
    BY <1>1, <2>1 DEF Cut, CodesBeyond, NoneRead, LetGo, Beyond
<1>6. CASE Forget
  <2>1. /\ user.pc = "forget" /\ user'.pc = "drop"
        /\ UNCHANGED <<paused, allowed, codeMem, codeDisk, expired, conn, codeCount, cut>>
    BY <1>2, <1>6 DEF Forget, disk, outside, phones, history
  <2>2. QED
    BY <1>1, <2>1 DEF Cut, CodesBeyond, NoneRead, LetGo
<1>7. CASE DropSender
  <2>1. /\ user.pc = "drop" /\ user'.pc \in {"idle", "delete"} /\ sender' = None
        /\ UNCHANGED <<paused, allowed, codeMem, codeDisk, expired, conn, codeCount, cut>>
    BY <1>2, <1>7 DEF DropSender, flags, disk, outside, phones, history
  <2>2. QED
    BY <1>1, <2>1 DEF Cut, CodesBeyond, NoneRead, LetGo
<1>8. CASE DeleteRow
  <2>1. /\ user.pc = "delete" /\ user'.pc = "idle"
        /\ UNCHANGED <<paused, allowed, sender, codeMem, codeDisk, expired, conn, codeCount, cut>>
    BY <1>8 DEF DeleteRow, flags, outside, phones, history
  <2>2. QED
    BY <1>1, <2>1 DEF Cut, CodesBeyond, NoneRead, LetGo
<1>9. CASE Disconnect \/ \E p \in Phones : Remove(p)
  <2>1. /\ user.pc = "idle" /\ user'.pc \in {"idle", "pause"}
        /\ UNCHANGED <<paused, allowed, sender, codeMem, codeDisk, expired, conn, codeCount, cut>>
    <3>1. CASE Disconnect
      BY <1>0, <3>1 DEF Disconnect, Act, User, flags, phones, history
    <3>2. CASE \E p \in Phones : Remove(p)
      BY <3>2 DEF Remove, Act, flags, phones, history
    <3>3. QED
      BY <1>9, <3>1, <3>2
  <2>2. QED
    BY <1>1, <2>1 DEF Cut, CodesBeyond, NoneRead, LetGo
<1>10. QED
  BY <1>3, <1>4, <1>5, <1>6, <1>7, <1>8, <1>9 DEF ManualDisconnect

LEMMA CutStep ==
  ASSUME TypeOK, Cut, [Next]_vars
  PROVE  Cut'
<1>1. SUFFICES ASSUME cut' # None PROVE Cut'
  BY DEF Cut
<1>2. ASSUME UNCHANGED <<paused, allowed, sender, codeMem, codeDisk, codeCount, expired, conn, user, cut>>
      PROVE  Cut'
  BY <1>1, <1>2 DEF Cut, CodesBeyond, NoneRead, LetGo
<1>3. ASSUME NEW c \in Conns, Serve(c) \/ Lose(c)
      PROVE  Cut'
  <2>1. CASE ReadKey(c) \/ ReadCode(c) \/ ReadStanding(c) \/ Decide(c) \/ Approve(c) \/ Attach(c)
    BY <1>1, <2>1, CutDecides
  <2>2. CASE \/ MarkConnected(c) \/ CheckCurrent(c) \/ Announce(c) \/ Lose(c)
             \/ EndStale(c) \/ ClearSender(c) \/ MarkDisconnected(c) \/ BeginGrace(c)
    <3>1. cut # None
      BY <1>1, <2>2 DEF MarkConnected, CheckCurrent, Announce, Lose, EndStale, ClearSender, MarkDisconnected,
                        BeginGrace, history
    <3>2. QED
      BY <2>2, <3>1, CutElsewhere
  <2>3. QED
    BY <1>3, <2>1, <2>2 DEF Serve
<1>4. ASSUME NEW c \in Conns, NEW p \in Phones, Dial(c, p)
      PROVE  Cut'
  <2>1. /\ conn'[c].pc = "key" /\ \A d \in Conns \ {c} : conn'[d] = conn[d]
        /\ UNCHANGED <<paused, allowed, sender, codeMem, codeDisk, codeCount, expired, user, cut>>
    BY <1>4, DialStays DEF Dial, flags, disk, outside, phones, history
  <2>2. HeldOff(conn'[c], cut)
    BY <2>1, OffDecision
  <2>3. /\ paused /\ cut <= codeCount /\ CodesBeyond /\ NoneRead /\ LetGo
        /\ \A d \in Conns : HeldOff(conn[d], cut)
    BY <1>1, <2>1 DEF Cut
  <2>4. CodesBeyond' /\ LetGo' /\ NoneRead'
    BY <2>1, <2>3 DEF CodesBeyond, LetGo, NoneRead
  <2>5. \A d \in Conns : HeldOff(conn'[d], cut)
    BY <2>1, <2>2, <2>3
  <2>6. QED
    BY <2>1, <2>3, <2>4, <2>5 DEF Cut
<1>5. CASE \E p \in Phones : Scan(p)
  BY <1>2, <1>5 DEF Scan, memory, flags, disk, history
<1>6. CASE \E p \in Phones : Pick(p)
  BY <1>1, <1>6 DEF Pick
<1>7. CASE \E on \in BOOLEAN : SetAuto(on)
  BY <1>2, <1>7 DEF SetAuto, memory, flags, phones
<1>8. CASE EndGrace
  BY <1>2, <1>8 DEF EndGrace, flags, disk, outside, phones, history
<1>9. CASE ShowCode
  <2>1. /\ user.pc = "idle" /\ UNCHANGED <<paused, allowed, sender, conn, user, cut>>
        /\ \/ codeMem' = CurrentCode /\ codeDisk' = CurrentCode /\ UNCHANGED <<codeCount, expired>>
           \/ codeCount' = codeCount + 1 /\ codeMem' = codeCount' /\ codeDisk' = codeCount'
    BY <1>9 DEF ShowCode, SetPairing, flags, history
  <2>2. /\ paused /\ cut <= codeCount /\ CodesBeyond /\ NoneRead /\ LetGo
        /\ (\A d \in Conns : HeldOff(conn[d], cut)) /\ cut \in Nat /\ codeCount \in Nat
    BY <1>1, <2>1 DEF Cut, TypeOK, CodesTyped, Codes
  <2>3. ~allowed /\ Beyond(CurrentCode, expired, cut)
    BY <2>1, <2>2 DEF CodesBeyond, CurrentCode
  <2>4. cut <= codeCount' /\ Beyond(codeMem', expired', cut) /\ Beyond(codeDisk', expired', cut)
    BY <2>1, <2>2, <2>3 DEF Beyond
  <2>5. CodesBeyond' /\ LetGo' /\ NoneRead'
    BY <2>1, <2>2, <2>3, <2>4 DEF CodesBeyond, LetGo, NoneRead
  <2>6. QED
    BY <2>1, <2>2, <2>4, <2>5 DEF Cut
<1>10. CASE Expire
  <2>1. /\ expired'
        /\ UNCHANGED <<paused, allowed, sender, codeMem, codeDisk, codeCount, conn, user, cut>>
    BY <1>10 DEF Expire, memory, flags, disk, history
  <2>2. QED
    BY <1>1, <2>1 DEF Cut, CodesBeyond, NoneRead, LetGo, Beyond
<1>11. CASE ManualDisconnect \/ Disconnect \/ \E p \in Phones : Remove(p)
  BY <1>1, <1>11, CutCommands
<1>12. CASE Restart
  BY <1>1, <1>12 DEF Restart
<1>13. CASE UNCHANGED vars
  BY <1>2, <1>13 DEF vars, memory, flags, disk, outside, phones, history
<1>14. CASE PairingCodeIsLive
  <2>1. /\ UNCHANGED <<paused, allowed, sender, conn, user, codeDisk, codeCount, expired>>
        /\ codeMem' = CurrentCode /\ cut' = CutAfterReload
    BY <1>14 DEF PairingCodeIsLive, flags, disk, outside, phones
  <2>2. cut' = cut /\ (user.pc = "erase" => codeMem' = codeMem)
    BY <1>1, <2>1 DEF CutAfterReload
  <2>3. /\ paused /\ cut <= codeCount /\ CodesBeyond /\ NoneRead /\ LetGo
        /\ \A d \in Conns : HeldOff(conn[d], cut)
    BY <1>1, <2>2 DEF Cut
  <2>4. CodesBeyond'
    <3>1. user.pc \notin {"retire", "erase"} => ~allowed /\ Beyond(CurrentCode, expired, cut)
      BY <2>3 DEF CodesBeyond, CurrentCode
    <3>2. QED
      BY <2>1, <2>2, <2>3, <3>1 DEF CodesBeyond
  <2>5. LetGo' /\ NoneRead'
    BY <2>1, <2>3 DEF LetGo, NoneRead
  <2>6. QED
    BY <2>1, <2>2, <2>3, <2>4, <2>5 DEF Cut
<1>15. QED
  BY <1>3, <1>4, <1>5, <1>6, <1>7, <1>8, <1>9, <1>10, <1>11, <1>12, <1>13, <1>14 DEF Next

\* A disconnect made while no phone was authenticating, and whose code is not read back between
\* its erasure in memory and the one on disk, holds until the user asks again: what is attached
\* later scanned a code generated after it.  (mark_manual_disconnect, state.rs:521-553;
\* clear_pairing_session, state.rs:460-468; may_attach, attach.rs:51-69)
THEOREM DisconnectStands == Spec => []DisconnectHolds
<1>1. Init => Cut
  BY DEF Init, Cut
<1>2. TypeOK /\ Cut /\ [Next]_vars => Cut'
  BY CutStep
<1>3. Cut => DisconnectHolds
  BY DEF Cut, LetGo, DisconnectHolds
<1>4. QED
  BY <1>1, <1>2, <1>3, TypeCorrect, PTL DEF Spec

=============================================================================
