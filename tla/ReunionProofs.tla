---------------------------- MODULE ReunionProofs ----------------------------
(***************************************************************************)
(* Reunion for any number of acts, losses and refusals.  A phone that was  *)
(* turned away is left alone: that is safe only because a socket that is   *)
(* open has not been told of its end, because the PC is told of a          *)
(* generation once, and because a disconnect, or a pairing it does not     *)
(* know, that it announced to the phone cannot be followed, on the same    *)
(* sockets, by another session.                                            *)
(***************************************************************************)
EXTENDS Reunion, SequenceTheorems, TLAPS

USE ReunionAssumption

-----------------------------------------------------------------------------
(* What lies in the inboxes. *)

Messages == {"ready", "unavailable", "closed", "hello", "welcome", "refusal", "unpair", "unknown"}

Holds(box, what) == \E i \in 1..Len(box) : box[i] = what

Once(box, what) == \A i, j \in 1..Len(box) : box[i] = what /\ box[j] = what => i = j

Mail == inbox \in [Ends -> Seq(Messages)]

\* An open socket has not been told of its end.
StillOpen == \A x \in Ends : row[x] = "open" => ~Holds(inbox[x], "closed")

\* An open socket of the PC hears of its generation once; from then on it is one of it.
HeardOnce ==
  row["pc"] = "open" =>
    /\ Once(inbox["pc"], "ready")
    /\ ~gen \/ pc \notin {"dialed", "waiting"} => ~Holds(inbox["pc"], "ready")
    /\ pc \notin {"dialed", "waiting"} => gen

\* The end of the pairing is on its way to the phone.
Goodbye(box) == Holds(box, "unpair") \/ Holds(box, "unknown")

\* What a PC does that has announced it, while both sockets are there.
Unpaired ==
  row["phone"] = "open" /\ Goodbye(inbox["phone"]) =>
    /\ row["pc"] # "none" /\ gen
    /\ row["pc"] = "open" => pc \in {"cut", "failing", "waiting"} /\ ~Holds(inbox["pc"], "ready")

\* A phone that was turned away, and a PC that stays where it is.
Quiet ==
  calm =>
    /\ gen /\ \A x \in Ends : row[x] = "open"
    /\ ~flag.rejoin
    /\ pc \in {"failing", "waiting"} /\ (pc = "failing" => flag.refused)
    /\ ~Holds(inbox["pc"], "ready") /\ ~Goodbye(inbox["phone"])

IInv == TypeOK /\ Mail /\ StillOpen /\ HeardOnce /\ Unpaired /\ Quiet

-----------------------------------------------------------------------------
(* Boxes. *)

\* A box that has had a message appended, or its first one taken.
LEMMA Appended ==
  ASSUME NEW box \in Seq(Messages), NEW what \in Messages
  PROVE  /\ Append(box, what) \in Seq(Messages)
         /\ \A m : Holds(Append(box, what), m) <=> Holds(box, m) \/ m = what
         /\ \A m : Once(box, m) /\ (m = what => ~Holds(box, m)) => Once(Append(box, what), m)
<1>1. Append(box, what) \in Seq(Messages)
  OBVIOUS
<1>2. Len(Append(box, what)) = Len(box) + 1 /\ Len(box) \in Nat
  OBVIOUS
<1>3. \A i \in 1..Len(box) + 1 : Append(box, what)[i] = IF i = Len(box) + 1 THEN what ELSE box[i]
  OBVIOUS
<1>4. \A m : Holds(Append(box, what), m) <=> Holds(box, m) \/ m = what
  <2>1. Len(box) + 1 \in 1..Len(box) + 1 /\ \A i \in 1..Len(box) : i \in 1..Len(box) + 1 /\ i # Len(box) + 1
    BY <1>2
  <2>2. \A i \in 1..Len(box) + 1 : i # Len(box) + 1 => i \in 1..Len(box)
    BY <1>2
  <2> QED BY <1>2, <1>3, <2>1, <2>2 DEF Holds
<1>5. ASSUME NEW m, Once(box, m), m = what => ~Holds(box, m)
      PROVE  Once(Append(box, what), m)
  <2>2. \A i \in 1..Len(box) + 1 : i # Len(box) + 1 => i \in 1..Len(box)
    BY <1>2
  <2> QED BY <1>2, <1>3, <1>5, <2>2 DEF Holds, Once
<1> QED BY <1>1, <1>4, <1>5

LEMMA Taken ==
  ASSUME NEW box \in Seq(Messages), box # <<>>
  PROVE  /\ Tail(box) \in Seq(Messages) /\ Head(box) \in Messages
         /\ \A m : Holds(Tail(box), m) => Holds(box, m)
         /\ Holds(box, Head(box))
         /\ \A m : Once(box, m) => Once(Tail(box), m)
         /\ Once(box, Head(box)) => ~Holds(Tail(box), Head(box))
<1>1. Tail(box) \in Seq(Messages) /\ Head(box) \in Messages
  OBVIOUS
<1>2. Len(box) \in Nat /\ Len(box) > 0 /\ Len(Tail(box)) = Len(box) - 1 /\ Head(box) = box[1]
  OBVIOUS
<1>3. \A i \in 1..Len(box) - 1 : Tail(box)[i] = box[i + 1]
  OBVIOUS
<1>4. \A i \in 1..Len(box) - 1 : i + 1 \in 1..Len(box) /\ i + 1 # 1
  BY <1>2
<1>5. 1 \in 1..Len(box)
  BY <1>2
<1>6. \A m : Holds(Tail(box), m) => Holds(box, m)
  BY <1>2, <1>3, <1>4 DEF Holds
<1>7. Holds(box, Head(box))
  BY <1>2, <1>5 DEF Holds
<1>8. ASSUME NEW m, Once(box, m), NEW i \in 1..Len(Tail(box)), NEW j \in 1..Len(Tail(box)),
             Tail(box)[i] = m, Tail(box)[j] = m
      PROVE  i = j
  <2>1. i + 1 = j + 1
    BY <1>2, <1>3, <1>4, <1>8 DEF Once
  <2> QED BY <2>1
<1>9. \A m : Once(box, m) => Once(Tail(box), m)
  BY <1>8 DEF Once
<1>10. Once(box, Head(box)) => ~Holds(Tail(box), Head(box))
  BY <1>2, <1>3, <1>4, <1>5 DEF Once, Holds
<1> QED BY <1>1, <1>6, <1>7, <1>9, <1>10

LEMMA Fresh ==
  /\ <<>> \in Seq(Messages) /\ \A m : ~Holds(<<>>, m) /\ Once(<<>>, m)
  /\ \A what \in Messages : /\ <<what>> \in Seq(Messages)
                            /\ \A m : Once(<<what>>, m) /\ (Holds(<<what>>, m) <=> m = what)
<1>1. <<>> \in Seq(Messages) /\ \A m : ~Holds(<<>>, m) /\ Once(<<>>, m)
  BY DEF Holds, Once
<1>2. ASSUME NEW what \in Messages
      PROVE  /\ <<what>> \in Seq(Messages)
             /\ \A m : Once(<<what>>, m) /\ (Holds(<<what>>, m) <=> m = what)
  <2>1. Len(<<what>>) = 1 /\ <<what>>[1] = what /\ \A i \in 1..1 : i = 1
    OBVIOUS
  <2>2. <<what>> \in Seq(Messages)
    OBVIOUS
  <2> QED BY <2>1, <2>2 DEF Holds, Once
<1> QED BY <1>1, <1>2

-----------------------------------------------------------------------------
(* What the relay does to its row and the inboxes. *)

LEMMA Ending ==
  ASSUME Mail
  PROVE  /\ Retired(inbox) \in [Ends -> Seq(Messages)]
         /\ \A x \in Ends : row[x] # "open" => Retired(inbox)[x] = inbox[x]
<1>1. <<"unavailable", "closed">> \in Seq(Messages)
  BY DEF Messages
<1>2. \A x \in Ends : inbox[x] \in Seq(Messages)
  BY DEF Mail
<1>3. \A s, t \in Seq(Messages) : s \o t \in Seq(Messages)
  OBVIOUS
<1> QED BY <1>1, <1>2, <1>3 DEF Retired

LEMMA Joined ==
  ASSUME TypeOK, Mail, NEW x \in Ends, Join(x)
  PROVE  LET y == Peer(x) IN
         /\ row' \in [Ends -> {"none", "open", "gone"}] /\ gen' \in BOOLEAN /\ Mail'
         /\ gen' => \A z \in Ends : row'[z] # "none"
         /\ row'[x] = "open"
         /\ \/ row'[y] = "none" /\ ~gen' /\ inbox'[x] = <<"unavailable">>
            \/ /\ row[x] = "none" /\ ~gen /\ gen' /\ row'[y] = row[y]
               /\ inbox'[x] = <<"ready">>
               /\ row[y] = "open" => inbox'[y] = Append(inbox[y], "ready")
<1>1. Peer(x) \in Ends /\ Peer(x) # x /\ Ends = {x, Peer(x)}
  BY DEF Ends, Peer
<1>2. row \in [Ends -> {"none", "open", "gone"}] /\ inbox \in [Ends -> Seq(Messages)]
  BY DEF TypeOK, Mail
<1>3. <<"ready">> \in Seq(Messages) /\ <<"unavailable">> \in Seq(Messages)
  BY Fresh DEF Messages
<1>4. CASE row[x] # "none" \/ gen
  BY <1>1, <1>2, <1>3, <1>4, Ending DEF Join, Mail
<1>5. CASE ~(row[x] # "none" \/ gen)
  <2>1. Append(inbox[Peer(x)], "ready") \in Seq(Messages)
    BY <1>1, <1>2, Appended DEF Messages
  <2>2. CASE row[Peer(x)] = "none"
    BY <1>1, <1>2, <1>3, <1>5, <2>2 DEF Join, Mail
  <2>3. CASE row[Peer(x)] # "none"
    BY <1>1, <1>2, <1>3, <1>5, <2>1, <2>3 DEF Join, Mail, Tell
  <2> QED BY <2>2, <2>3
<1> QED BY <1>4, <1>5

LEMMA Sent ==
  ASSUME TypeOK, Mail, NEW x \in Ends, NEW frame \in Messages, Send(x, frame)
  PROVE  LET y == Peer(x) IN
         /\ row' \in [Ends -> {"none", "open", "gone"}] /\ gen' \in BOOLEAN /\ Mail'
         /\ \/ row[x] = "open" /\ ~gen /\ ~gen' /\ \A z \in Ends : row'[z] = "none"
            \/ row' = row /\ gen' = gen /\ inbox' = inbox
            \/ /\ row' = row /\ gen' = gen /\ row[x] = "open" /\ row[y] = "open" /\ gen
               /\ inbox'[x] = inbox[x] /\ inbox'[y] = Append(inbox[y], frame)
<1>1. Peer(x) \in Ends /\ Peer(x) # x /\ Ends = {x, Peer(x)}
  BY DEF Ends, Peer
<1>2. row \in [Ends -> {"none", "open", "gone"}] /\ inbox \in [Ends -> Seq(Messages)] /\ gen \in BOOLEAN
  BY DEF TypeOK, Mail
<1>3. Append(inbox[Peer(x)], frame) \in Seq(Messages)
  BY <1>1, <1>2, Appended
<1>4. CASE row[x] = "open" /\ ~gen
  BY <1>1, <1>2, <1>4, Ending DEF Send, Mail
<1>5. CASE ~(row[x] = "open" /\ ~gen)
  BY <1>1, <1>2, <1>3, <1>5 DEF Send, Mail, Tell
<1> QED BY <1>4, <1>5

LEMMA Left ==
  ASSUME TypeOK, Mail, NEW x \in Ends, Leave(x)
  PROVE  LET y == Peer(x) IN
         /\ row' \in [Ends -> {"none", "open", "gone"}] /\ gen' = gen /\ Mail'
         /\ row'[x] # "open" /\ row'[y] = row[y] /\ (row[x] # "none" => row'[x] # "none")
         /\ inbox'[y] = inbox[y]
  BY Fresh DEF TypeOK, Mail, Leave, Ends, Peer

-----------------------------------------------------------------------------
(* Each step keeps the invariant. *)

LEMMA Shapes ==
  ASSUME TypeOK, Mail
  PROVE  /\ row \in [Ends -> {"none", "open", "gone"}]
         /\ inbox["pc"] \in Seq(Messages) /\ inbox["phone"] \in Seq(Messages)
         /\ Peer("pc") = "phone" /\ Peer("phone") = "pc"
         /\ "pc" \in Ends /\ "phone" \in Ends /\ \A x \in Ends : x = "pc" \/ x = "phone"
  BY DEF TypeOK, Mail, Ends, Peer

LEMMA Counts == \A m \in Nat : \A k \in 0..m : k < m => k + 1 \in 0..m
  OBVIOUS

\* What every step leaves well typed: all but the relay's part.
LEMMA Fields ==
  ASSUME TypeOK, Next
  PROVE  /\ flag' \in Flags /\ rule' \in Rule /\ phone' \in Phone
         /\ acts' \in 0..MaxActs /\ losses' \in 0..MaxLosses /\ refusals' \in 0..MaxRefusals
         /\ {hoped', unheard', calm'} \subseteq BOOLEAN /\ (unheard' => hoped')
         /\ pc' \in {"test", "parking", "asleep", "dialing", "dialed", "waiting", "session", "deciding",
             "refusing", "bridged", "failing", "cut", "backoff"}
         /\ ph' \in {"away", "waiting", "asking", "started", "linked"}
<1>11. acts \in 0..MaxActs /\ losses \in 0..MaxLosses /\ refusals \in 0..MaxRefusals
  BY DEF TypeOK
<1>12. rule \in Rule /\ phone \in Phone
  BY DEF TypeOK
<1>13. phone.sent \in Nat /\ rule.code \in Nat /\ rule.code + 1 \in Nat
  <2>1. phone.sent \in Nat /\ rule.code \in Nat
    BY <1>12 DEF Rule, Phone
  <2> QED BY <2>1
<1> USE DEF relay, bounds, wishes, Supervised, Desk, Bystanders, Next, Supervisor, PhoneSteps,
      Test, Park, Wake, Recheck, DialRelay, Honour, DialFails, Retry, Rejoin, Wait, Handshake, HandshakeTimesOut,
      Interrupted, Expires, Decide, Refuse, BridgeEnds, SessionFails, AlwaysLeaves,
      HoldsCode, KnowsKey, Dials, Starting, Accepted,
      PhoneJoins, PhoneReady, PhoneHears, PhoneRedials, Notice, Lose, Accept, Scan, PhoneDisconnects, PhoneSetsAuto,
      Pick, ShowCode, CodeExpires, SetAuto, Disconnect, Restart, OtherRefused, Act, Requested
<1>1. flag' \in Flags
  BY DEF TypeOK, Flags
<1>2. rule' \in Rule
  <2>1. rule \in Rule /\ phone.sent \in Nat /\ rule.code + 1 \in Nat
    BY <1>12, <1>13
  <2>2. CASE UNCHANGED rule
    BY <2>1, <2>2
  <2>3. CASE \E forPairing, fresh \in BOOLEAN : ShowCode(forPairing, fresh)
    BY <2>1, <2>3 DEF Rule
  <2>4. CASE Decide
    BY <2>1, <2>4 DEF Rule
  <2>5. CASE Handshake \/ HandshakeTimesOut \/ Interrupted \/ Expires \/ BridgeEnds
    BY <2>1, <2>5 DEF Rule
  <2>6. CASE Pick \/ CodeExpires \/ (\E on \in BOOLEAN : SetAuto(on)) \/ Disconnect \/ Restart
    BY <2>1, <2>6 DEF Rule
  <2> QED BY <2>2, <2>3, <2>4, <2>5, <2>6
<1>3. phone' \in Phone
  <2>1. phone \in Phone /\ rule.code \in Nat
    BY <1>12, <1>13
  <2>2. CASE UNCHANGED phone
    BY <2>1, <2>2
  <2>3. CASE PhoneSteps
    BY <2>1, <2>3 DEF Phone
  <2>4. CASE PhoneRedials
    BY <2>1, <2>4 DEF Phone
  <2>5. CASE Accept \/ Scan
    BY <2>1, <2>5 DEF Phone
  <2>6. CASE PhoneDisconnects \/ PhoneSetsAuto
    BY <2>1, <2>6 DEF Phone
  <2> QED BY <2>2, <2>3, <2>4, <2>5, <2>6
<1>0. MaxActs \in Nat /\ MaxLosses \in Nat /\ MaxRefusals \in Nat
  BY DEF ReunionAssumption
<1>4. acts' \in 0..MaxActs
  <2>1. acts' = acts \/ (acts < MaxActs /\ acts' = acts + 1)
    OBVIOUS
  <2> QED BY <1>0, <2>1, <1>11, Counts
<1>5. losses' \in 0..MaxLosses
  <2>1. losses' = losses \/ (losses < MaxLosses /\ losses' = losses + 1)
    OBVIOUS
  <2> QED BY <1>0, <2>1, <1>11, Counts
<1>6. refusals' \in 0..MaxRefusals
  <2>1. refusals' = refusals \/ (refusals < MaxRefusals /\ refusals' = refusals + 1)
    OBVIOUS
  <2> QED BY <1>0, <2>1, <1>11, Counts
<1>7. {hoped', unheard', calm'} \subseteq BOOLEAN 
  BY DEF TypeOK
<1>8. unheard' => hoped'
  BY DEF TypeOK
<1>9. ph' \in {"away", "waiting", "asking", "started", "linked"}
  BY DEF TypeOK
<1>10. pc' \in {"test", "parking", "asleep", "dialing", "dialed", "waiting", "session", "deciding",
             "refusing", "bridged", "failing", "cut", "backoff"}
  BY DEF TypeOK
<1> QED BY <1>1, <1>2, <1>3, <1>4, <1>5, <1>6, <1>7, <1>8, <1>9, <1>10

LEMMA InitInv == Init => IInv
<1> SUFFICES ASSUME Init PROVE IInv
  OBVIOUS
<1>0. MaxActs \in Nat /\ MaxLosses \in Nat /\ MaxRefusals \in Nat
  BY DEF ReunionAssumption
<1>1. TypeOK
  <2>1. flag \in Flags /\ rule \in Rule /\ phone \in Phone
    BY DEF Init, Flags, Rule, Phone
  <2>2. row \in [Ends -> {"none", "open", "gone"}] /\ row["pc"] = "none" /\ gen \in BOOLEAN /\ ~gen
    BY DEF Init, Ends
  <2>3. {hoped, unheard, calm} \subseteq BOOLEAN /\ (unheard => hoped)
    BY DEF Init
  <2>4. acts \in 0..MaxActs /\ losses \in 0..MaxLosses /\ refusals \in 0..MaxRefusals
    BY <1>0 DEF Init
  <2>5. pc = "test" /\ ph = "away"
    BY DEF Init
  <2> QED BY <2>1, <2>2, <2>3, <2>4, <2>5 DEF TypeOK
<1>2. Mail /\ StillOpen /\ HeardOnce /\ Unpaired /\ Quiet
  BY Fresh DEF Init, Mail, StillOpen, HeardOnce, Unpaired, Quiet, Ends
<1> QED BY <1>1, <1>2 DEF IInv

\* Steps that leave the relay alone.
LEMMA Aside ==
  ASSUME IInv,
         \/ Test \/ Park \/ Wake \/ Recheck \/ Honour \/ DialFails \/ Retry
         \/ PhoneSetsAuto \/ Pick \/ (\E forPairing, fresh \in BOOLEAN : ShowCode(forPairing, fresh)) \/ CodeExpires
         \/ (\E on \in BOOLEAN : SetAuto(on)) \/ OtherRefused
  PROVE  IInv'
<1> USE DEF relay, bounds, wishes, Supervised
<1>2. UNCHANGED <<row, gen, inbox>>
  BY DEF Test, Park, Wake, Recheck, Honour, DialFails, Retry, PhoneSetsAuto, Pick, ShowCode, CodeExpires,
         SetAuto, OtherRefused
<1>1. TypeOK'
  <2>1. Next
    BY DEF Next, Supervisor
  <2>2. (gen => \A x \in Ends : row[x] # "none")'
    BY <1>2 DEF IInv, TypeOK
  <2>3. (pc \in {"test", "parking", "asleep", "dialing", "backoff"} => row["pc"] # "open")'
    BY <1>2 DEF IInv, TypeOK, Test, Park, Wake, Recheck, Honour, DialFails, Retry, PhoneSetsAuto, Pick, ShowCode,
       CodeExpires, SetAuto, OtherRefused
  <2>4. row' \in [Ends -> {"none", "open", "gone"}] /\ gen' \in BOOLEAN
    BY <1>2 DEF IInv, TypeOK
  <2> QED BY <2>1, <2>2, <2>3, <2>4, Fields DEF IInv, TypeOK
<1>3. Mail' /\ StillOpen'
  BY <1>2 DEF IInv, Mail, StillOpen
<1>4. HeardOnce' /\ Unpaired'
  BY <1>2 DEF IInv, TypeOK, HeardOnce, Unpaired, Ends, Test, Park, Wake, Recheck, Honour, DialFails, Retry,
     PhoneSetsAuto, Pick, ShowCode, CodeExpires, SetAuto, OtherRefused
<1>5. Quiet'
  BY <1>2 DEF IInv, TypeOK, Flags, Quiet, Test, Park, Wake, Recheck, Honour, DialFails, Retry, Act,
     PhoneSetsAuto, Pick, ShowCode, CodeExpires, SetAuto, OtherRefused
<1> QED BY <1>1, <1>3, <1>4, <1>5 DEF IInv

\* The relay's part of the types, when a step may have changed it.
LEMMA Whole ==
  ASSUME TypeOK, Next,
         row' \in [Ends -> {"none", "open", "gone"}], gen' \in BOOLEAN,
         gen' => row'["pc"] # "none" /\ row'["phone"] # "none",
         pc' \in {"test", "parking", "asleep", "dialing", "backoff"} => row'["pc"] # "open"
  PROVE  TypeOK'
<1>1. (gen => \A x \in Ends : row[x] # "none")'
  BY DEF Ends
<1> QED BY <1>1, Fields DEF TypeOK

LEMMA DialKeeps == IInv /\ DialRelay => IInv'
<1> SUFFICES ASSUME IInv, DialRelay PROVE IInv'
  OBVIOUS
<1> USE DEF relay, bounds, wishes, Supervised, IInv
<1>1. Join("pc") /\ Next
  BY DEF DialRelay, Next, Supervisor
<1>2. /\ row' \in [Ends -> {"none", "open", "gone"}] /\ gen' \in BOOLEAN /\ Mail'
      /\ gen' => \A z \in Ends : row'[z] # "none"
      /\ row'["pc"] = "open"
      /\ \/ row'["phone"] = "none" /\ ~gen' /\ inbox'["pc"] = <<"unavailable">>
         \/ /\ row["pc"] = "none" /\ ~gen /\ gen' /\ row'["phone"] = row["phone"]
            /\ inbox'["pc"] = <<"ready">>
            /\ row["phone"] = "open" => inbox'["phone"] = Append(inbox["phone"], "ready")
  BY <1>1, Joined, Shapes
<1>3. TypeOK'
  BY <1>1, <1>2, Shapes, Whole DEF DialRelay
<1>4. "ready" \in Messages /\ "unavailable" \in Messages
  BY DEF Messages
<1>5. /\ ~Holds(inbox'["pc"], "closed") /\ Once(inbox'["pc"], "ready")
      /\ ~gen' => ~Holds(inbox'["pc"], "ready")
  <2>1. CASE inbox'["pc"] = <<"unavailable">> /\ ~gen'
    BY <1>4, <2>1, Fresh
  <2>2. CASE inbox'["pc"] = <<"ready">> /\ gen'
    BY <1>4, <2>2, Fresh
  <2> QED BY <1>2, <2>1, <2>2
<1>6. row'["phone"] = "open" =>
        /\ row["phone"] = "open" /\ ~gen /\ gen'
        /\ \A m : Holds(inbox'["phone"], m) => Holds(inbox["phone"], m) \/ m = "ready"
  <2>1. \A m : Holds(Append(inbox["phone"], "ready"), m) <=> Holds(inbox["phone"], m) \/ m = "ready"
    BY <1>4, Appended, Shapes
  <2>2. row'["phone"] = "open" => row["phone"] = "open" /\ ~gen /\ gen' /\ inbox'["phone"] = Append(inbox["phone"], "ready")
    BY <1>2
  <2> QED BY <2>1, <2>2
<1>7. StillOpen'
  BY <1>5, <1>6, Shapes DEF StillOpen
<1>8. HeardOnce'
  BY <1>5, <1>2 DEF HeardOnce, DialRelay
<1>9. Unpaired'
  BY <1>6, Shapes DEF Unpaired, Goodbye
<1>10. Quiet'
  BY DEF Quiet, DialRelay
<1> QED BY <1>2, <1>3, <1>7, <1>8, <1>9, <1>10

\* The phone dials, for its supervisor or for send().
LEMMA PhoneDials ==
  ASSUME IInv, Dials, Next, pc' = pc, flag' = flag, calm' => calm
  PROVE  IInv'
<1> USE DEF IInv
<1>1. Join("phone") /\ row["phone"] # "open"
  BY DEF Dials
<1>2. /\ row' \in [Ends -> {"none", "open", "gone"}] /\ gen' \in BOOLEAN /\ Mail'
      /\ gen' => \A z \in Ends : row'[z] # "none"
      /\ row'["phone"] = "open"
      /\ \/ row'["pc"] = "none" /\ ~gen' /\ inbox'["phone"] = <<"unavailable">>
         \/ /\ row["phone"] = "none" /\ ~gen /\ gen' /\ row'["pc"] = row["pc"]
            /\ inbox'["phone"] = <<"ready">>
            /\ row["pc"] = "open" => inbox'["pc"] = Append(inbox["pc"], "ready")
  BY <1>1, Joined, Shapes
<1>3. TypeOK'
  BY <1>1, <1>2, Shapes, Whole DEF TypeOK
<1>4. "ready" \in Messages /\ "unavailable" \in Messages
  BY DEF Messages
<1>5. ~Holds(inbox'["phone"], "closed") /\ ~Goodbye(inbox'["phone"])
  <2>1. CASE inbox'["phone"] = <<"unavailable">>
    BY <1>4, <2>1, Fresh DEF Goodbye
  <2>2. CASE inbox'["phone"] = <<"ready">>
    BY <1>4, <2>2, Fresh DEF Goodbye
  <2> QED BY <1>2, <2>1, <2>2
<1>6. row'["pc"] = "open" =>
        /\ row["pc"] = "open" /\ ~gen /\ gen'
        /\ \A m : Holds(inbox'["pc"], m) => Holds(inbox["pc"], m) \/ m = "ready"
        /\ ~Holds(inbox["pc"], "ready") /\ Once(inbox["pc"], "ready") => Once(inbox'["pc"], "ready")
  <2>1. /\ \A m : Holds(Append(inbox["pc"], "ready"), m) <=> Holds(inbox["pc"], m) \/ m = "ready"
        /\ ~Holds(inbox["pc"], "ready") /\ Once(inbox["pc"], "ready")
             => Once(Append(inbox["pc"], "ready"), "ready")
    BY <1>4, Appended, Shapes
  <2>2. row'["pc"] = "open" => row["pc"] = "open" /\ ~gen /\ gen' /\ inbox'["pc"] = Append(inbox["pc"], "ready")
    BY <1>2
  <2> QED BY <2>1, <2>2
<1>7. StillOpen'
  BY <1>5, <1>6, Shapes DEF StillOpen
<1>8. HeardOnce'
  BY <1>6 DEF HeardOnce
<1>9. Unpaired'
  BY <1>5 DEF Unpaired
<1>10. Quiet'
  BY <1>1, Shapes DEF Quiet
<1> QED BY <1>2, <1>3, <1>7, <1>8, <1>9, <1>10

\* An end that lets its socket go.
LEMMA PcLeaves ==
  ASSUME IInv, Leave("pc")
  PROVE  /\ row' \in [Ends -> {"none", "open", "gone"}] /\ gen' \in BOOLEAN
         /\ gen' => row'["pc"] # "none" /\ row'["phone"] # "none"
         /\ row'["pc"] # "open"
         /\ Mail' /\ StillOpen' /\ HeardOnce' /\ Unpaired'
<1> USE DEF IInv
<1>1. /\ row' \in [Ends -> {"none", "open", "gone"}] /\ gen' = gen /\ Mail'
      /\ row'["pc"] # "open" /\ row'["phone"] = row["phone"] /\ (row["pc"] # "none" => row'["pc"] # "none")
      /\ inbox'["phone"] = inbox["phone"]
  BY Left, Shapes
<1>2. gen' \in BOOLEAN /\ (gen' => row'["pc"] # "none" /\ row'["phone"] # "none")
  BY <1>1, Shapes DEF TypeOK
<1>3. StillOpen'
  BY <1>1, Shapes DEF StillOpen
<1>4. HeardOnce'
  BY <1>1 DEF HeardOnce
<1>5. Unpaired'
  BY <1>1 DEF Unpaired
<1> QED BY <1>1, <1>2, <1>3, <1>4, <1>5

LEMMA PhoneLeaves ==
  ASSUME IInv, Leave("phone"), pc' = pc
  PROVE  /\ row' \in [Ends -> {"none", "open", "gone"}] /\ gen' \in BOOLEAN
         /\ gen' => row'["pc"] # "none" /\ row'["phone"] # "none"
         /\ row'["pc"] = row["pc"]
         /\ Mail' /\ StillOpen' /\ HeardOnce' /\ Unpaired'
<1> USE DEF IInv
<1>1. /\ row' \in [Ends -> {"none", "open", "gone"}] /\ gen' = gen /\ Mail'
      /\ row'["phone"] # "open" /\ row'["pc"] = row["pc"] /\ (row["phone"] # "none" => row'["phone"] # "none")
      /\ inbox'["pc"] = inbox["pc"]
  BY Left, Shapes
<1>2. gen' \in BOOLEAN /\ (gen' => row'["pc"] # "none" /\ row'["phone"] # "none")
  BY <1>1, Shapes DEF TypeOK
<1>3. StillOpen'
  BY <1>1, Shapes DEF StillOpen
<1>4. HeardOnce'
  BY <1>1 DEF HeardOnce
<1>5. Unpaired'
  BY <1>1 DEF Unpaired
<1> QED BY <1>1, <1>2, <1>3, <1>4, <1>5

\* An end that takes what is first in its inbox.
LEMMA Takes ==
  ASSUME IInv, NEW x \in Ends, inbox[x] # <<>>, inbox' = Took(x), row' = row
  PROVE  /\ Mail' /\ StillOpen'
         /\ \A y \in Ends : y # x => inbox'[y] = inbox[y]
         /\ \A m : Holds(inbox'[x], m) => Holds(inbox[x], m)
         /\ \A m : Once(inbox[x], m) => Once(inbox'[x], m)
         /\ \A m : Hears(x, m) => Holds(inbox[x], m) /\ (Once(inbox[x], m) => ~Holds(inbox'[x], m))
<1> USE DEF IInv
<1>1. inbox[x] \in Seq(Messages) /\ inbox'[x] = Tail(inbox[x]) /\ \A y \in Ends : y # x => inbox'[y] = inbox[y]
  BY DEF Mail, Took
<1>2. inbox' = [y \in Ends |-> IF y = x THEN Tail(inbox[x]) ELSE inbox[y]]
  BY DEF Mail, Took
<1>3. Mail'
  BY <1>1, <1>2, Taken DEF Mail
<1>4. /\ \A m : Holds(inbox'[x], m) => Holds(inbox[x], m)
      /\ \A m : Once(inbox[x], m) => Once(inbox'[x], m)
      /\ Holds(inbox[x], Head(inbox[x])) /\ (Once(inbox[x], Head(inbox[x])) => ~Holds(inbox'[x], Head(inbox[x])))
  BY <1>1, Taken
<1>5. StillOpen'
  BY <1>1, <1>4 DEF StillOpen
<1> QED BY <1>1, <1>3, <1>4, <1>5 DEF Hears

LEMMA PhoneTakes ==
  ASSUME IInv, inbox["phone"] # <<>>, inbox' = Took("phone"), row' = row, gen' = gen, pc' = pc, flag' = flag,
         calm' = calm
  PROVE  Mail' /\ StillOpen' /\ HeardOnce' /\ Unpaired' /\ Quiet'
<1> USE DEF IInv
<1>1. /\ Mail' /\ StillOpen' /\ inbox'["pc"] = inbox["pc"]
      /\ \A m : Holds(inbox'["phone"], m) => Holds(inbox["phone"], m)
  BY Takes, Shapes
<1>2. HeardOnce'
  BY <1>1 DEF HeardOnce
<1>3. Unpaired'
  BY <1>1 DEF Unpaired, Goodbye
<1>4. Quiet'
  BY <1>1, Shapes DEF Quiet, Goodbye
<1> QED BY <1>1, <1>2, <1>3, <1>4

\* A session that fails: the PC leaves, or after a refusal stays and takes the rest.
LEMMA Fails ==
  ASSUME IInv, NEW rejected \in BOOLEAN, SessionFails(rejected), calm' => calm,
         pc \in {"session", "bridged", "failing", "cut"}
  PROVE  /\ row' \in [Ends -> {"none", "open", "gone"}] /\ gen' \in BOOLEAN
         /\ gen' => row'["pc"] # "none" /\ row'["phone"] # "none"
         /\ pc' # "waiting" => row'["pc"] # "open"
         /\ Mail' /\ StillOpen' /\ HeardOnce' /\ Unpaired' /\ Quiet'
<1> USE DEF IInv
<1>1. CASE ~flag.refused
  <2>1. Leave("pc")
    BY <1>1 DEF SessionFails, AlwaysLeaves
  <2>2. ~calm'
    BY <1>1 DEF Quiet
  <2>3. Quiet'
    BY <2>2 DEF Quiet
  <2> QED BY <2>1, <2>3, PcLeaves
<1>2. CASE flag.refused
  <2>1. /\ flag' = [flag EXCEPT !.refused = FALSE] /\ pc' = "waiting" /\ row' = row /\ gen' = gen
        /\ inbox' = IF inbox["pc"] # <<>> /\ ~Hears("pc", "closed") THEN Took("pc") ELSE inbox
    BY <1>2 DEF SessionFails
  <2>2. /\ Mail' /\ StillOpen' /\ inbox'["phone"] = inbox["phone"]
        /\ \A m : Holds(inbox'["pc"], m) => Holds(inbox["pc"], m)
        /\ \A m : Once(inbox["pc"], m) => Once(inbox'["pc"], m)
    <3>1. CASE inbox' = Took("pc") /\ inbox["pc"] # <<>>
      BY <2>1, <3>1, Takes, Shapes
    <3>2. CASE inbox' = inbox
      BY <2>1, <3>2 DEF Mail, StillOpen
    <3> QED BY <2>1, <3>1, <3>2
  <2>3. row' \in [Ends -> {"none", "open", "gone"}] /\ gen' \in BOOLEAN
    BY <2>1 DEF TypeOK
  <2>4. gen' => row'["pc"] # "none" /\ row'["phone"] # "none"
    BY <2>1, Shapes DEF TypeOK
  <2>5. HeardOnce'
    BY <2>1, <2>2 DEF HeardOnce
  <2>6. Unpaired'
    BY <2>1, <2>2 DEF Unpaired
  <2>7. Quiet'
    <3>1. flag'.rejoin = flag.rejoin
      BY <2>1 DEF TypeOK, Flags
    <3> QED BY <2>1, <2>2, <3>1, Shapes DEF Quiet
  <2> QED BY <2>1, <2>2, <2>3, <2>4, <2>5, <2>6, <2>7
<1> QED BY <1>1, <1>2

\* A frame that an end sends.
LEMMA PcSends ==
  ASSUME IInv, NEW frame \in {"welcome", "refusal", "unpair", "unknown"}, Send("pc", frame)
  PROVE  /\ row' \in [Ends -> {"none", "open", "gone"}] /\ gen' \in BOOLEAN
         /\ gen' => row'["pc"] # "none" /\ row'["phone"] # "none"
         /\ row["pc"] # "open" => row'["pc"] # "open"
         /\ Mail' /\ StillOpen'
         /\ \/ row["pc"] = "open" /\ ~gen /\ row'["pc"] = "none" /\ row'["phone"] = "none" /\ ~gen'
            \/ /\ row' = row /\ gen' = gen /\ inbox'["pc"] = inbox["pc"]
               /\ \A m : Holds(inbox'["phone"], m) =>
                           Holds(inbox["phone"], m) \/ (m = frame /\ row["pc"] = "open" /\ gen)
<1> USE DEF IInv
<1>0. frame \in Messages
  BY DEF Messages
<1>1. /\ row' \in [Ends -> {"none", "open", "gone"}] /\ gen' \in BOOLEAN /\ Mail'
      /\ \/ row["pc"] = "open" /\ ~gen /\ ~gen' /\ \A z \in Ends : row'[z] = "none"
         \/ row' = row /\ gen' = gen /\ inbox' = inbox
         \/ /\ row' = row /\ gen' = gen /\ row["pc"] = "open" /\ row["phone"] = "open" /\ gen
            /\ inbox'["pc"] = inbox["pc"] /\ inbox'["phone"] = Append(inbox["phone"], frame)
  BY <1>0, Sent, Shapes
<1>2. \A m : Holds(Append(inbox["phone"], frame), m) <=> Holds(inbox["phone"], m) \/ m = frame
  BY <1>0, Appended, Shapes
<1>3. CASE \A z \in Ends : row'[z] = "none"
  <2>1. row'["pc"] = "none" /\ row'["phone"] = "none"
    BY <1>3, Shapes
  <2>2. StillOpen'
    BY <1>3 DEF StillOpen
  <2>3. row' = row => ~gen
    BY <2>1, Shapes DEF TypeOK
  <2>4. CASE row["pc"] = "open" /\ ~gen /\ ~gen'
    BY <1>1, <2>1, <2>2, <2>4
  <2>5. CASE row' = row /\ gen' = gen /\ inbox' = inbox
    BY <1>1, <2>1, <2>2, <2>3, <2>5
  <2> QED BY <1>1, <2>1, <2>4, <2>5
<1>4. CASE row' = row /\ gen' = gen
  <2>1. gen' => row'["pc"] # "none" /\ row'["phone"] # "none"
    BY <1>4, Shapes DEF TypeOK
  <2>2. CASE inbox' = inbox
    BY <1>1, <1>4, <2>1, <2>2 DEF StillOpen
  <2>3. CASE /\ row["pc"] = "open" /\ row["phone"] = "open" /\ gen
             /\ inbox'["pc"] = inbox["pc"] /\ inbox'["phone"] = Append(inbox["phone"], frame)
    <3>1. StillOpen'
      BY <1>2, <1>4, <2>3, Shapes DEF StillOpen
    <3> QED BY <1>1, <1>2, <1>4, <2>1, <2>3, <3>1
  <2>4. CASE \A z \in Ends : row'[z] = "none"
    BY <1>3, <2>4
  <2> QED BY <1>1, <2>2, <2>3, <2>4
<1> QED BY <1>1, <1>3, <1>4

\* A PC that says goodbye has heard of its generation, and no other follows on that socket.
LEMMA Farewell ==
  ASSUME IInv, pc \in {"deciding", "bridged"}, pc' \in {"cut", "failing"},
         NEW frame \in {"unpair", "unknown"}, Send("pc", frame)
  PROVE  Unpaired'
<1> USE DEF IInv
<1> SUFFICES ASSUME row'["phone"] = "open", Goodbye(inbox'["phone"])
             PROVE  /\ row'["pc"] # "none" /\ gen'
                    /\ row'["pc"] = "open" =>
                         pc' \in {"cut", "failing", "waiting"} /\ ~Holds(inbox'["pc"], "ready")
  BY DEF Unpaired
<1>1. row' = row /\ gen' = gen /\ inbox'["pc"] = inbox["pc"]
      /\ (Goodbye(inbox["phone"]) \/ (row["pc"] = "open" /\ gen))
  BY PcSends DEF Goodbye
<1>2. row["pc"] = "open" => ~Holds(inbox["pc"], "ready")
  BY DEF HeardOnce
<1>3. Goodbye(inbox["phone"]) => row["pc"] # "none" /\ gen
  BY <1>1 DEF Unpaired
<1> QED BY <1>1, <1>2, <1>3

LEMMA PhoneSends ==
  ASSUME IInv, Send("phone", "hello"), pc' = pc
  PROVE  /\ row' \in [Ends -> {"none", "open", "gone"}] /\ gen' \in BOOLEAN
         /\ gen' => row'["pc"] # "none" /\ row'["phone"] # "none"
         /\ row["pc"] # "open" => row'["pc"] # "open"
         /\ Mail' /\ StillOpen' /\ HeardOnce' /\ Unpaired'
<1> USE DEF IInv
<1>0. "hello" \in Messages
  BY DEF Messages
<1>1. /\ row' \in [Ends -> {"none", "open", "gone"}] /\ gen' \in BOOLEAN /\ Mail'
      /\ \/ ~gen' /\ \A z \in Ends : row'[z] = "none"
         \/ row' = row /\ gen' = gen /\ inbox' = inbox
         \/ /\ row' = row /\ gen' = gen
            /\ inbox'["phone"] = inbox["phone"] /\ inbox'["pc"] = Append(inbox["pc"], "hello")
  BY <1>0, Sent, Shapes
<1>2. /\ \A m : Holds(Append(inbox["pc"], "hello"), m) <=> Holds(inbox["pc"], m) \/ m = "hello"
      /\ Once(inbox["pc"], "ready") => Once(Append(inbox["pc"], "hello"), "ready")
  BY <1>0, Appended, Shapes
<1>3. CASE ~gen' /\ \A z \in Ends : row'[z] = "none"
  <2>1. row'["pc"] = "none" /\ row'["phone"] = "none"
    BY <1>3, Shapes
  <2> QED BY <1>1, <1>3, <2>1 DEF StillOpen, HeardOnce, Unpaired
<1>4. CASE row' = row /\ gen' = gen
  <2>1. gen' => row'["pc"] # "none" /\ row'["phone"] # "none"
    BY <1>4, Shapes DEF TypeOK
  <2>2. CASE inbox' = inbox
    BY <1>1, <1>4, <2>1, <2>2 DEF StillOpen, HeardOnce, Unpaired
  <2>3. CASE inbox'["phone"] = inbox["phone"] /\ inbox'["pc"] = Append(inbox["pc"], "hello")
    <3>1. StillOpen'
      BY <1>2, <1>4, <2>3, Shapes DEF StillOpen
    <3>2. HeardOnce'
      BY <1>2, <1>4, <2>3 DEF HeardOnce
    <3>3. Unpaired'
      BY <1>2, <1>4, <2>3 DEF Unpaired
    <3> QED BY <1>1, <1>4, <2>1, <3>1, <3>2, <3>3
  <2>4. CASE ~gen' /\ \A z \in Ends : row'[z] = "none"
    BY <1>3, <2>4
  <2> QED BY <1>1, <2>2, <2>3, <2>4
<1> QED BY <1>1, <1>3, <1>4

\* The supervisor's steps at the relay.
LEMMA PcKeeps ==
  ASSUME IInv, Rejoin \/ Wait \/ Handshake \/ HandshakeTimesOut \/ Interrupted \/ Expires \/ BridgeEnds
  PROVE  IInv'
<1> USE DEF relay, bounds, wishes, Supervised, Bystanders, IInv
<1>1. Next
  BY DEF Next, Supervisor
<1>2. CASE Rejoin
  <2>1. Leave("pc") /\ ~calm'
    BY <1>2 DEF Rejoin, Quiet
  <2>2. TypeOK'
    BY <1>1, <2>1, PcLeaves, Whole
  <2>3. Quiet'
    BY <2>1 DEF Quiet
  <2> QED BY <2>1, <2>2, <2>3, PcLeaves
<1>3. CASE Wait
  <2>1. CASE Leave("pc")
    <3>1. TypeOK'
      BY <1>1, <2>1, PcLeaves, Whole
    <3>2. ~calm'
      <4>1. CASE Hears("pc", "closed")
        <5>1. Holds(inbox["pc"], "closed")
          <6>1. inbox["pc"] # <<>> /\ Head(inbox["pc"]) = "closed"
            BY <4>1 DEF Hears
          <6> QED BY <6>1, Taken, Shapes
        <5> QED BY <1>3, <5>1, Shapes DEF Wait, StillOpen, Quiet
      <4>2. CASE ~Hears("pc", "closed")
        <5>1. row' = row /\ row'["pc"] # "open"
          BY <1>3, <2>1, <4>2, PcLeaves DEF Wait
        <5> QED BY <1>3, <5>1, Shapes DEF Wait, Quiet
      <4> QED BY <4>1, <4>2
    <3>3. Quiet'
      BY <3>2 DEF Quiet
    <3> QED BY <2>1, <3>1, <3>3, PcLeaves
  <2>2. CASE inbox' = Took("pc") /\ row' = row /\ gen' = gen
    <3>1. inbox["pc"] # <<>> /\ pc = "waiting" /\ flag' = flag /\ calm' = calm
      BY <1>3 DEF Wait
    <3>2. \/ Hears("pc", "ready") /\ pc' = "session"
          \/ ~Hears("pc", "ready") /\ pc' = "waiting"
          \/ Leave("pc")
      <4>1. CASE Hears("pc", "ready")
        <5>1. pc' = "session"
          BY <1>3, <4>1 DEF Wait, Hears
        <5> QED BY <4>1, <5>1
      <4>2. CASE ~Hears("pc", "ready")
        BY <1>3, <3>1, <4>2 DEF Wait
      <4> QED BY <4>1, <4>2
    <3>3. /\ Mail' /\ StillOpen' /\ inbox'["phone"] = inbox["phone"]
          /\ \A m : Holds(inbox'["pc"], m) => Holds(inbox["pc"], m)
          /\ \A m : Once(inbox["pc"], m) => Once(inbox'["pc"], m)
          /\ \A m : Hears("pc", m) => Holds(inbox["pc"], m) /\ (Once(inbox["pc"], m) => ~Holds(inbox'["pc"], m))
      BY <2>2, <3>1, Takes, Shapes
    <3>4. CASE ~Leave("pc")
      <4>1. TypeOK'
        <5>1. row' \in [Ends -> {"none", "open", "gone"}] /\ gen' \in BOOLEAN
          BY <2>2 DEF TypeOK
        <5>2. gen' => row'["pc"] # "none" /\ row'["phone"] # "none"
          BY <2>2, Shapes DEF TypeOK
        <5> QED BY <1>1, <3>2, <3>4, <5>1, <5>2, Whole
      <4>2. HeardOnce'
        BY <2>2, <3>1, <3>2, <3>3, <3>4 DEF HeardOnce
      <4>3. Unpaired'
        BY <2>2, <3>1, <3>2, <3>3, <3>4 DEF Unpaired
      <4>4. Quiet'
        BY <2>2, <3>1, <3>2, <3>3, <3>4 DEF Quiet
      <4> QED BY <3>3, <4>1, <4>2, <4>3, <4>4
    <3> QED BY <2>1, <3>4
  <2> QED BY <1>3, <2>1, <2>2 DEF Wait
<1>4. ASSUME NEW rejected \in BOOLEAN, SessionFails(rejected), calm' => calm,
             pc \in {"session", "bridged", "failing", "cut"}
      PROVE  IInv'
  <2>1. TypeOK'
    BY <1>1, <1>4, Fails, Whole
  <2> QED BY <1>4, <2>1, Fails
<1>5. CASE Handshake
  <2>1. CASE SessionFails(TRUE)
    BY <1>4, <1>5, <2>1 DEF Handshake
  <2>2. CASE inbox' = Took("pc") /\ row' = row /\ gen' = gen /\ pc' = "deciding"
    <3>1. inbox["pc"] # <<>> /\ pc = "session" /\ calm' = calm
      BY <1>5 DEF Handshake, Hears
    <3>2. /\ Mail' /\ StillOpen' /\ inbox'["phone"] = inbox["phone"]
          /\ \A m : Holds(inbox'["pc"], m) => Holds(inbox["pc"], m)
          /\ \A m : Once(inbox["pc"], m) => Once(inbox'["pc"], m)
      BY <2>2, <3>1, Takes, Shapes
    <3>3. row' \in [Ends -> {"none", "open", "gone"}] /\ gen' \in BOOLEAN
      BY <2>2 DEF TypeOK
    <3>4. gen' => row'["pc"] # "none" /\ row'["phone"] # "none"
      BY <2>2, Shapes DEF TypeOK
    <3>5. TypeOK'
      BY <1>1, <2>2, <3>3, <3>4, Whole
    <3>6. HeardOnce' /\ Unpaired'
      BY <2>2, <3>1, <3>2 DEF HeardOnce, Unpaired
    <3>7. Quiet'
      BY <3>1 DEF Quiet
    <3> QED BY <3>2, <3>5, <3>6, <3>7
  <2> QED BY <1>5, <2>1, <2>2 DEF Handshake
<1>6. CASE HandshakeTimesOut
  BY <1>4, <1>6 DEF HandshakeTimesOut
<1>7. CASE Interrupted
  BY <1>4, <1>7 DEF Interrupted
<1>8. CASE Expires
  <2>1. calm' = FALSE /\ SessionFails(FALSE) /\ pc = "bridged"
    BY <1>8 DEF Expires
  <2> QED BY <1>4, <2>1
<1>9. CASE BridgeEnds
  BY <1>4, <1>9 DEF BridgeEnds
<1> QED BY <1>2, <1>3, <1>5, <1>6, <1>7, <1>8, <1>9

LEMMA DecideKeeps == IInv /\ Decide => IInv'
<1> SUFFICES ASSUME IInv, Decide PROVE IInv'
  OBVIOUS
<1> USE DEF relay, bounds, wishes, IInv
<1>1. Next
  BY DEF Next, Supervisor
<1>2. pc = "deciding" /\ calm' = calm /\ ~calm
  BY DEF Decide, Quiet
<1>3. Quiet'
  BY <1>2 DEF Quiet
<1>4. CASE Send("pc", "welcome") /\ pc' = "bridged"
  <2>1. TypeOK'
    BY <1>1, <1>4, PcSends, Whole
  <2>2. HeardOnce'
    BY <1>2, <1>4, PcSends DEF HeardOnce
  <2>3. Unpaired'
    BY <1>2, <1>4, PcSends DEF Unpaired, Goodbye
  <2> QED BY <1>3, <1>4, <2>1, <2>2, <2>3, PcSends
<1>5. CASE pc' = "refusing" /\ UNCHANGED <<row, gen, inbox>>
  <2>1. TypeOK'
    <3>1. row' \in [Ends -> {"none", "open", "gone"}] /\ gen' \in BOOLEAN
      BY <1>5 DEF TypeOK
    <3>2. gen' => row'["pc"] # "none" /\ row'["phone"] # "none"
      BY <1>5, Shapes DEF TypeOK
    <3> QED BY <1>1, <1>5, <3>1, <3>2, Whole
  <2>2. Mail' /\ StillOpen'
    BY <1>5 DEF Mail, StillOpen
  <2>3. HeardOnce' /\ Unpaired'
    BY <1>2, <1>5 DEF HeardOnce, Unpaired
  <2> QED BY <1>3, <2>1, <2>2, <2>3
<1>6. CASE Send("pc", "unknown") /\ pc' = "failing"
  <2>1. TypeOK'
    BY <1>1, <1>6, PcSends, Whole
  <2>2. HeardOnce'
    BY <1>2, <1>6, PcSends DEF HeardOnce
  <2>3. Unpaired'
    BY <1>2, <1>6, PcSends, Farewell DEF HeardOnce
  <2> QED BY <1>3, <1>6, <2>1, <2>2, <2>3, PcSends
<1> QED BY <1>4, <1>5, <1>6 DEF Decide

LEMMA RefuseKeeps == IInv /\ Refuse => IInv'
<1> SUFFICES ASSUME IInv, Refuse PROVE IInv'
  OBVIOUS
<1> USE DEF relay, bounds, wishes, IInv
<1>1. Next
  BY DEF Next, Supervisor
<1>2. pc = "refusing" /\ pc' = "failing" /\ Send("pc", "refusal")
      /\ calm' = (gen /\ ~flag.rejoin /\ \A x \in Ends : row[x] = "open")
  BY DEF Refuse
<1>3. TypeOK'
  BY <1>1, <1>2, PcSends, Whole
<1>4. HeardOnce'
  BY <1>2, PcSends DEF HeardOnce
<1>5. Unpaired'
  BY <1>2, PcSends DEF Unpaired, Goodbye
<1>6. Quiet'
  <2> SUFFICES ASSUME calm' PROVE Quiet'
    BY DEF Quiet
  <2>1. gen /\ ~flag.rejoin /\ row["pc"] = "open" /\ row["phone"] = "open"
    BY <1>2, Shapes
  <2>2. /\ row' = row /\ gen' = gen /\ inbox'["pc"] = inbox["pc"]
        /\ Goodbye(inbox'["phone"]) => Goodbye(inbox["phone"])
    <3>1. ~(row["pc"] = "open" /\ ~gen)
      BY <2>1
    <3> QED BY <1>2, <3>1, PcSends DEF Goodbye
  <2>3. ~Holds(inbox["pc"], "ready") /\ ~Goodbye(inbox["phone"])
    BY <1>2, <2>1 DEF HeardOnce, Unpaired
  <2>4. flag'.refused /\ flag'.rejoin = flag.rejoin
    BY DEF Refuse, TypeOK, Flags
  <2> QED BY <1>2, <2>1, <2>2, <2>3, <2>4, Shapes DEF Quiet
<1> QED BY <1>2, <1>3, <1>4, <1>5, <1>6, PcSends

LEMMA PhoneKeeps ==
  ASSUME IInv, PhoneSteps \/ PhoneRedials
  PROVE  IInv'
<1> USE DEF relay, bounds, wishes, Desk, IInv
<1>1. Next
  BY DEF Next
<1>2. CASE PhoneJoins
  BY <1>1, <1>2, PhoneDials DEF PhoneJoins
<1>3. ASSUME Leave("phone"), pc' = pc, flag' = flag, ~calm'
      PROVE  IInv'
  <2>1. TypeOK'
    <3>1. pc' \in {"test", "parking", "asleep", "dialing", "backoff"} => row'["pc"] # "open"
      BY <1>3, PhoneLeaves DEF TypeOK
    <3> QED BY <1>1, <1>3, <3>1, PhoneLeaves, Whole
  <2>2. Quiet'
    BY <1>3 DEF Quiet
  <2> QED BY <1>3, <2>1, <2>2, PhoneLeaves
<1>4. ASSUME inbox["phone"] # <<>>, inbox' = Took("phone"), row' = row, gen' = gen, pc' = pc, flag' = flag,
             calm' = calm
      PROVE  IInv'
  <2>1. TypeOK'
    <3>1. row' \in [Ends -> {"none", "open", "gone"}] /\ gen' \in BOOLEAN
      BY <1>4 DEF TypeOK
    <3>2. gen' => row'["pc"] # "none" /\ row'["phone"] # "none"
      BY <1>4, Shapes DEF TypeOK
    <3>3. pc' \in {"test", "parking", "asleep", "dialing", "backoff"} => row'["pc"] # "open"
      BY <1>4 DEF TypeOK
    <3> QED BY <1>1, <3>1, <3>2, <3>3, Whole
  <2> QED BY <1>4, <2>1, PhoneTakes
<1>5. CASE PhoneReady
  <2>1. /\ inbox["phone"] # <<>> /\ row' = row /\ gen' = gen /\ pc' = pc /\ flag' = flag /\ calm' = calm
    BY <1>5 DEF PhoneReady, Hears
  <2>2. CASE inbox' = Took("phone")
    BY <1>4, <2>1, <2>2
  <2>3. CASE inbox' = Tell(Took("phone"), "pc", "hello") /\ inbox' # Took("phone")
    <3>0. "hello" \in Messages
      BY DEF Messages
    <3>1. inbox' = [Took("phone") EXCEPT !["pc"] = Append(@, "hello")]
      BY <2>3 DEF Tell
    <3>2. inbox'["phone"] = Tail(inbox["phone"]) /\ inbox'["pc"] = Append(inbox["pc"], "hello")
          /\ inbox' = [x \in Ends |-> IF x = "pc" THEN Append(inbox["pc"], "hello") ELSE Tail(inbox["phone"])]
      BY <3>1 DEF Took, Mail, Ends
    <3>3. /\ Append(inbox["pc"], "hello") \in Seq(Messages)
          /\ \A m : Holds(inbox'["pc"], m) <=> Holds(inbox["pc"], m) \/ m = "hello"
          /\ Once(inbox["pc"], "ready") => Once(inbox'["pc"], "ready")
      BY <3>0, <3>2, Appended, Shapes
    <3>4. Tail(inbox["phone"]) \in Seq(Messages) /\ \A m : Holds(inbox'["phone"], m) => Holds(inbox["phone"], m)
      BY <2>1, <3>2, Taken, Shapes
    <3>5. Mail'
      BY <3>2, <3>3, <3>4 DEF Mail
    <3>6. StillOpen'
      BY <2>1, <3>3, <3>4, Shapes DEF StillOpen
    <3>7. HeardOnce'
      BY <2>1, <3>3 DEF HeardOnce
    <3>8. Unpaired'
      BY <2>1, <3>3, <3>4 DEF Unpaired, Goodbye
    <3>9. Quiet'
      BY <2>1, <3>3, <3>4, Shapes DEF Quiet, Goodbye
    <3>10. TypeOK'
      <4>1. row' \in [Ends -> {"none", "open", "gone"}] /\ gen' \in BOOLEAN
        BY <2>1 DEF TypeOK
      <4>2. gen' => row'["pc"] # "none" /\ row'["phone"] # "none"
        BY <2>1, Shapes DEF TypeOK
      <4>3. pc' \in {"test", "parking", "asleep", "dialing", "backoff"} => row'["pc"] # "open"
        BY <2>1 DEF TypeOK
      <4> QED BY <1>1, <4>1, <4>2, <4>3, Whole
    <3> QED BY <3>5, <3>6, <3>7, <3>8, <3>9, <3>10
  <2> QED BY <1>5, <2>2, <2>3 DEF PhoneReady
<1>6. ASSUME NEW what, NEW holding, PhoneHears(what, "waiting", holding) \/ PhoneHears(what, "linked", holding)
      PROVE  IInv'
  BY <1>4, <1>6 DEF PhoneHears, Hears
<1>7. ASSUME NEW what \in {"closed", "unpair", "unknown"}, NEW holding, PhoneHears(what, "away", holding)
      PROVE  IInv'
  <2>1. inbox["phone"] # <<>> /\ Head(inbox["phone"]) = what
    BY <1>7 DEF PhoneHears, Hears
  <2>2. Holds(inbox["phone"], what)
    BY <2>1, Taken, Shapes
  <2>3. ~calm
    BY <2>2, Shapes DEF Quiet, StillOpen, Goodbye
  <2> QED BY <1>3, <1>7, <2>3 DEF PhoneHears
<1>8. CASE PhoneRedials
  <2>1. pc' = pc /\ flag' = flag /\ calm' = FALSE
    BY <1>8 DEF PhoneRedials
  <2>2. Leave("phone") \/ Dials
    BY <1>8 DEF PhoneRedials
  <2> QED BY <1>1, <1>3, <2>1, <2>2, PhoneDials
<1> QED BY <1>2, <1>5, <1>6, <1>7, <1>8 DEF PhoneSteps

LEMMA NetworkKeeps ==
  ASSUME IInv, NEW x \in Ends, Notice(x) \/ Lose(x)
  PROVE  IInv'
<1> USE DEF relay, bounds, wishes, IInv
<1>1. Next
  BY DEF Next
<1>2. CASE Notice(x)
  <2>1. /\ row' = [y \in Ends |-> "none"] /\ gen' = FALSE /\ inbox' = Retired(inbox) /\ row[x] = "gone"
        /\ pc' = pc /\ calm' = calm
    BY <1>2 DEF Notice
  <2>2. row'["pc"] = "none" /\ row'["phone"] = "none" /\ \A y \in Ends : row'[y] = "none"
    BY <2>1, Shapes
  <2>3. row' \in [Ends -> {"none", "open", "gone"}] /\ gen' \in BOOLEAN
    BY <2>1
  <2>4. TypeOK'
    BY <1>1, <2>1, <2>2, <2>3, Whole
  <2>5. Mail'
    BY <2>1, Ending DEF Mail
  <2>6. StillOpen' /\ HeardOnce' /\ Unpaired'
    BY <2>2 DEF StillOpen, HeardOnce, Unpaired
  <2>7. Quiet'
    BY <2>1 DEF Quiet
  <2> QED BY <2>4, <2>5, <2>6, <2>7
<1>3. CASE Lose(x)
  <2>0. "closed" \in Messages
    BY DEF Messages
  <2>1. /\ row' = [row EXCEPT ![x] = "gone"] /\ inbox' = [inbox EXCEPT ![x] = Append(@, "closed")]
        /\ pc' = pc /\ calm' = FALSE /\ gen' = gen /\ row[x] = "open"
    BY <1>3 DEF Lose
  <2>2. row' \in [Ends -> {"none", "open", "gone"}] /\ gen' \in BOOLEAN /\ row'[x] = "gone"
        /\ \A y \in Ends : y # x => row'[y] = row[y] /\ inbox'[y] = inbox[y]
    BY <2>1 DEF TypeOK, Mail
  <2>3. gen' => row'["pc"] # "none" /\ row'["phone"] # "none"
    BY <2>1, <2>2, Shapes DEF TypeOK
  <2>4. TypeOK'
    <3>1. pc' \in {"test", "parking", "asleep", "dialing", "backoff"} => row'["pc"] # "open"
      BY <2>1, <2>2, Shapes DEF TypeOK
    <3> QED BY <1>1, <2>2, <2>3, <3>1, Whole
  <2>5. Mail'
    <3>1. inbox[x] \in Seq(Messages)
      BY DEF Mail
    <3>2. Append(inbox[x], "closed") \in Seq(Messages)
      BY <2>0, <3>1, Appended
    <3> QED BY <2>1, <3>2 DEF Mail
  <2>6. StillOpen'
    BY <2>2 DEF StillOpen
  <2>7. HeardOnce'
    BY <2>1, <2>2, Shapes DEF HeardOnce
  <2>8. Unpaired'
    BY <2>1, <2>2, Shapes DEF Unpaired
  <2>9. Quiet'
    BY <2>1 DEF Quiet
  <2> QED BY <2>4, <2>5, <2>6, <2>7, <2>8, <2>9
<1> QED BY <1>2, <1>3

LEMMA UsersKeep ==
  ASSUME IInv, Accept \/ Scan \/ PhoneDisconnects \/ Disconnect \/ Restart
  PROVE  IInv'
<1> USE DEF relay, bounds, wishes, Act, IInv
<1>1. Next
  BY DEF Next
<1>2. calm' = FALSE
  BY DEF Accept, Scan, PhoneDisconnects, Disconnect, Restart
<1>3. Quiet'
  BY <1>2 DEF Quiet
<1>4. ASSUME UNCHANGED <<row, gen, inbox, pc>>
      PROVE  IInv'
  <2>1. row' \in [Ends -> {"none", "open", "gone"}] /\ gen' \in BOOLEAN
    BY <1>4 DEF TypeOK
  <2>2. gen' => row'["pc"] # "none" /\ row'["phone"] # "none"
    BY <1>4, Shapes DEF TypeOK
  <2>3. pc' \in {"test", "parking", "asleep", "dialing", "backoff"} => row'["pc"] # "open"
    BY <1>4 DEF TypeOK
  <2>4. TypeOK'
    BY <1>1, <2>1, <2>2, <2>3, Whole
  <2>5. Mail' /\ StillOpen' /\ HeardOnce' /\ Unpaired'
    BY <1>4 DEF Mail, StillOpen, HeardOnce, Unpaired
  <2> QED BY <1>3, <2>4, <2>5
<1>5. CASE Accept \/ Scan
  <2>1. pc' = pc
    BY <1>5 DEF Accept, Scan
  <2>2. CASE Send("phone", "hello")
    <3>1. pc' \in {"test", "parking", "asleep", "dialing", "backoff"} => row'["pc"] # "open"
      BY <2>1, <2>2, PhoneSends DEF TypeOK
    <3>2. TypeOK'
      BY <1>1, <2>1, <2>2, <3>1, PhoneSends, Whole
    <3> QED BY <1>3, <2>1, <2>2, <3>2, PhoneSends
  <2> QED BY <1>4, <1>5, <2>1, <2>2 DEF Accept, Scan, Accepted
<1>6. CASE PhoneDisconnects
  <2>1. Leave("phone") /\ pc' = pc
    BY <1>6 DEF PhoneDisconnects
  <2>2. pc' \in {"test", "parking", "asleep", "dialing", "backoff"} => row'["pc"] # "open"
    BY <2>1, PhoneLeaves DEF TypeOK
  <2>3. TypeOK'
    BY <1>1, <2>1, <2>2, PhoneLeaves, Whole
  <2> QED BY <1>3, <2>1, <2>3, PhoneLeaves
<1>7. CASE Disconnect
  <2>1. CASE pc = "bridged" /\ pc' = "cut" /\ Send("pc", "unpair")
    <3>1. TypeOK'
      BY <1>1, <2>1, PcSends, Whole
    <3>2. HeardOnce'
      BY <2>1, PcSends DEF HeardOnce
    <3>3. Unpaired'
      BY <2>1, PcSends, Farewell DEF HeardOnce
    <3> QED BY <1>3, <2>1, <3>1, <3>2, <3>3, PcSends
  <2> QED BY <1>4, <1>7, <2>1 DEF Disconnect
<1>8. CASE Restart
  <2>1. Leave("pc")
    BY <1>8 DEF Restart
  <2>2. TypeOK'
    BY <1>1, <2>1, PcLeaves, Whole
  <2> QED BY <1>3, <2>1, <2>2, PcLeaves
<1> QED BY <1>5, <1>6, <1>7, <1>8

LEMMA NextInv == IInv /\ [Next]_vars => IInv'
<1> SUFFICES ASSUME IInv, [Next]_vars PROVE IInv'
  OBVIOUS
<1>1. CASE UNCHANGED vars
  <2>1. TypeOK'
    BY <1>1 DEF vars, IInv, TypeOK
  <2>2. Mail' /\ StillOpen' /\ HeardOnce' /\ Unpaired' /\ Quiet'
    BY <1>1 DEF vars, IInv, Mail, StillOpen, HeardOnce, Unpaired, Quiet
  <2> QED BY <2>1, <2>2 DEF IInv
<1>2. CASE Supervisor
  BY <1>2, Aside, DialKeeps, PcKeeps, DecideKeeps, RefuseKeeps DEF Supervisor
<1>3. CASE PhoneSteps \/ PhoneRedials
  BY <1>3, PhoneKeeps
<1>4. CASE \E x \in Ends : Notice(x) \/ Lose(x)
  BY <1>4, NetworkKeeps
<1>5. CASE Accept \/ Scan \/ PhoneDisconnects \/ Disconnect \/ Restart
  BY <1>5, UsersKeep
<1>6. CASE \/ PhoneSetsAuto \/ Pick \/ (\E forPairing, fresh \in BOOLEAN : ShowCode(forPairing, fresh)) \/ CodeExpires
           \/ (\E on \in BOOLEAN : SetAuto(on)) \/ OtherRefused
  BY <1>6, Aside
<1> QED BY <1>1, <1>2, <1>3, <1>4, <1>5, <1>6 DEF Next

-----------------------------------------------------------------------------
(* Theorems. *)

THEOREM InvHolds == Spec => []IInv
<1>1. Init => IInv
  BY InitInv
<1>2. IInv /\ [Next]_vars => IInv'
  BY NextInv
<1> QED BY <1>1, <1>2, PTL DEF Spec

\* The variables keep their types, a generation is of two sockets on the row, and a PC that
\* tests, sleeps, dials or backs off holds no open socket.  (relay_client.rs:67-187)
THEOREM TypeCorrect == Spec => []TypeOK
<1>1. IInv => TypeOK
  BY DEF IInv
<1> QED BY <1>1, InvHolds, PTL

\* A phone that was turned away keeps its socket and its generation until a user acts or the
\* network fails, however the refusal, the end of the bridge, a refusal of another phone and
\* what is still on its way to either end are ordered.  (relay_client.rs:214-234)
THEOREM TurnedAwayIsLeftAlone == Spec => []LeftAlone
<1>1. IInv => LeftAlone
  BY DEF IInv, Quiet, LeftAlone, Ends
<1> QED BY <1>1, InvHolds, PTL

=============================================================================
