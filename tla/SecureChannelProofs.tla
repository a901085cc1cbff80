------------------------ MODULE SecureChannelProofs ------------------------
(***************************************************************************)
(* SecureChannel for any number of sessions, phones and records.  The      *)
(* invariant has four parts: how far a session and its partner have come   *)
(* (Paired), whom the desktop talks to (Identified), what a frame on the   *)
(* wire says of the session that wrote it (Written), and what the          *)
(* assembler holds of the record its partner sealed (Assembled).           *)
(***************************************************************************)
EXTENDS SecureChannel, SequenceTheorems, TLAPS

USE ConstantsAssumption DEF Devices, Phases, keys, counters, assembler, history, enrollment

-----------------------------------------------------------------------------
(* Types. *)

LEMMA InitType == Init => TypeOK
<1> SUFFICES ASSUME Init PROVE TypeOK
  OBVIOUS
<1>1. /\ partial \in [Ids -> Seq(Chunks)]
      /\ sealed \in [Ids -> Seq(Records)]
      /\ opened \in [Ids -> Seq(Seq(Chunks))]
  BY DEF Init
<1>2. /\ owner \in [Ids -> Devices \cup {None}] /\ phase \in [Ids -> Phases]
      /\ peer \in [Ids -> Devices \cup {None}] /\ expected \in [Ids -> Devices \cup {None}]
      /\ partner \in [Ids -> Ids \cup {None}]
  BY DEF Init
<1>3. /\ step \in [Ids -> 0 .. 3] /\ total \in [Ids -> Nat]
      /\ sent \in [Ids -> 0 .. MaxMessages] /\ received \in [Ids -> 0 .. MaxMessages]
  BY DEF Init
<1>4. wire \subseteq Frames /\ pinned \in Devices \cup {None} /\ holders \subseteq Phones
      /\ armed \in BOOLEAN /\ code \in BOOLEAN
  BY DEF Init
<1>5. QED
  BY <1>1, <1>2, <1>3, <1>4 DEF TypeOK

\* What the fields of a frame are, whatever its kind.
LEMMA FrameFields ==
  ASSUME NEW f \in Frames
  PROVE  /\ f.from \in Ids
         /\ f.kind \in {"hello", "reply", "proof", "confirm", "data"}
         /\ f.kind # "hello" => f.to \in Ids
         /\ f.kind = "proof" => f.psk \in BOOLEAN
         /\ f.kind \in {"confirm", "data"} => f.n \in Nat
         /\ f.kind = "data" => /\ f.record \in Nat /\ f.total \in Nat /\ f.offset \in Nat
                               /\ f.chunk \in Chunks
  BY DEF Frames

LEMMA SealedFrames ==
  ASSUME TypeOK, NEW s \in Ids, NEW r \in Records, partner[s] \in Ids
  PROVE  Sealed(s, r) \subseteq Frames
<1> SUFFICES ASSUME NEW i \in DOMAIN r
             PROVE  [kind |-> "data", from |-> s, to |-> partner[s], n |-> sent[s] + i - 1,
                     record |-> Len(sealed[s]), total |-> Len(r), offset |-> i - 1,
                     chunk |-> r[i]] \in Frames
  BY DEF Sealed
<1>1. r \in Seq(Chunks) /\ Len(r) \in Nat /\ i \in 1 .. Len(r)
  OBVIOUS
<1>2. r[i] \in Chunks
  BY <1>1
<1>3. sent[s] \in Nat /\ Len(sealed[s]) \in Nat
  BY DEF TypeOK
<1>4. sent[s] + i - 1 \in Nat /\ i - 1 \in Nat
  BY <1>1, <1>3
<1>5. QED
  BY <1>1, <1>2, <1>3, <1>4 DEF Frames

LEMMA CloseType ==
  ASSUME TypeOK, NEW S, Close(S)
  PROVE  /\ phase' \in [Ids -> Phases]
         /\ peer' \in [Ids -> Devices \cup {None}]
         /\ partial' \in [Ids -> Seq(Chunks)]
         /\ total' \in [Ids -> Nat]
  BY DEF TypeOK, Close

-----------------------------------------------------------------------------
(* The first part of the invariant: sessions, their partners and the frames *)
(* of the handshake.                                                        *)

Paired ==
    \A s \in Ids :
        /\ owner[s] = None <=> phase[s] = "New"
        /\ owner[s] = None => step[s] = 0
        /\ owner[s] \in Phones =>
              /\ step[s] \in {1, 3} /\ expected[s] = PC
              /\ phase[s] \in {"Handshake", "AwaitingDesktopConfirmation", "Ready", "Closed"}
        /\ owner[s] = PC =>
              /\ step[s] \in {0, 2, 3}
              /\ phase[s] # "AwaitingDesktopConfirmation"
        /\ phase[s] = "Handshake" => step[s] # 3
        /\ phase[s] \notin {"New", "Handshake", "Closed"} => step[s] = 3
        /\ step[s] \in {0, 1} => partner[s] = None
        /\ step[s] \in {2, 3} => /\ partner[s] \in Ids
                                 /\ owner[s] = PC => owner[partner[s]] \in Phones
                                 /\ owner[s] \in Phones => owner[partner[s]] = PC
        /\ step[s] = 3 => /\ partner[partner[s]] = s
                          /\ step[partner[s]] \in {2, 3}

Shaken ==
    \A f \in wire :
        /\ f.kind = "hello" => owner[f.from] \in Phones
        /\ f.kind = "reply" => /\ owner[f.from] = PC /\ step[f.from] \in {2, 3}
                               /\ partner[f.from] = f.to
        /\ f.kind = "proof" => /\ owner[f.from] \in Phones /\ step[f.from] = 3
                               /\ partner[f.from] = f.to

Pairs == TypeOK /\ Paired /\ Shaken

LEMMA InitPaired == Init => Paired /\ Shaken
  BY DEF Init, Paired, Shaken

\* A frame on the wire names sessions, and carries what its kind says.
LEMMA WireFields ==
  ASSUME TypeOK, NEW f \in wire
  PROVE  /\ f \in Frames /\ f.from \in Ids
         /\ f.kind # "hello" => f.to \in Ids
  BY FrameFields DEF TypeOK

LEMMA ConfirmationFrame ==
  ASSUME TypeOK, NEW s \in Ids, partner[s] \in Ids
  PROVE  Confirmation(s) \in Frames
<1>1. sent[s] \in Nat
  BY DEF TypeOK
<1>2. QED
  BY <1>1 DEF Confirmation, Frames

\* A session that is past its handshake has a partner.
LEMMA PartnerKnown ==
  ASSUME TypeOK, Paired, NEW s \in Ids, phase[s] \notin {"New", "Handshake", "Closed"}
  PROVE  /\ step[s] = 3 /\ partner[s] \in Ids
         /\ partner[partner[s]] = s /\ step[partner[s]] \in {2, 3}
  BY DEF Paired

LEMMA NextType == Pairs /\ [Next]_vars => TypeOK'
<1> SUFFICES ASSUME TypeOK, Paired, Shaken, [Next]_vars PROVE TypeOK'
  BY DEF Pairs
<1> USE DEF TypeOK
<1>1. ASSUME NEW s \in Ids, NEW p \in Phones, StartPhone(p, s) PROVE TypeOK'
  <2>1. [kind |-> "hello", from |-> s] \in Frames
    BY DEF Frames
  <2>2. QED
    BY <1>1, <2>1 DEF StartPhone
<1>2. ASSUME NEW s \in Ids, StartDesktop(s) PROVE TypeOK'
  BY <1>2 DEF StartDesktop
<1>3. ASSUME NEW s \in Ids, End(s) PROVE TypeOK'
  BY <1>3, CloseType DEF End
<1>4. ASSUME NEW s \in Ids, Approve(s) PROVE TypeOK'
  BY <1>4 DEF Approve
<1>5. ASSUME NEW s \in Ids, Confirm(s) PROVE TypeOK'
  <2>1. Confirmation(s) \in Frames
    BY <1>5, PartnerKnown, ConfirmationFrame DEF Confirm
  <2>2. QED
    BY <1>5, <2>1 DEF Confirm
<1>6. ASSUME NEW s \in Ids, NEW r \in Records, Seal(s, r) PROVE TypeOK'
  <2>1. Sealed(s, r) \subseteq Frames
    BY <1>6, PartnerKnown, SealedFrames DEF Seal
  <2>2. /\ r \in Seq(Chunks) /\ Len(r) \in Nat
        /\ sent[s] + Len(r) \in 0 .. MaxMessages
    BY <1>6 DEF Seal, WithinBudget
  <2>3. sealed' \in [Ids -> Seq(Records)]
    BY <1>6 DEF Seal
  <2>4. QED
    BY <1>6, <2>1, <2>2, <2>3 DEF Seal
<1>7. ASSUME NEW s \in Ids, NEW r \in Records, SealRefused(s, r) PROVE TypeOK'
  <2>1. sent' \in [Ids -> 0 .. MaxMessages]
    BY <1>7 DEF SealRefused
  <2>2. QED
    BY <1>7, <2>1, CloseType DEF SealRefused
<1>8. ASSUME NEW s \in Ids, NEW f \in wire, Reply(s, f) PROVE TypeOK'
  <2>1. f.from \in Ids
    BY WireFields
  <2>2. [kind |-> "reply", from |-> s, to |-> f.from] \in Frames
    BY <2>1 DEF Frames
  <2>3. QED
    <3>1. /\ wire' \subseteq Frames /\ partner' \in [Ids -> Ids \cup {None}]
          /\ step' \in [Ids -> 0 .. 3]
      BY <1>8, <2>1, <2>2 DEF Reply
    <3>2. UNCHANGED <<keys, phase, peer, counters, assembler, history, enrollment>>
      BY <1>8 DEF Reply
    <3>3. QED
      BY <3>1, <3>2
<1>9. ASSUME NEW s \in Ids, NEW f \in wire, Prove(s, f) PROVE TypeOK'
  <2>1. f.from \in Ids
    BY WireFields
  <2>2. (owner[s] \in holders) \in BOOLEAN
    OBVIOUS
  <2>3. [kind |-> "proof", from |-> s, to |-> f.from, psk |-> owner[s] \in holders] \in Frames
    BY <2>1, <2>2 DEF Frames
  <2>4. owner[f.from] \in Devices \cup {None}
    BY <2>1
  <2>5. QED
    <3>1. /\ wire' \subseteq Frames /\ partner' \in [Ids -> Ids \cup {None}]
          /\ peer' \in [Ids -> Devices \cup {None}]
          /\ step' \in [Ids -> 0 .. 3] /\ phase' \in [Ids -> Phases]
      <4>1. /\ wire' = wire \cup {[kind |-> "proof", from |-> s, to |-> f.from,
                                    psk |-> owner[s] \in holders]}
            /\ partner' = [partner EXCEPT ![s] = f.from]
            /\ peer' = [peer EXCEPT ![s] = owner[f.from]]
            /\ step' = [step EXCEPT ![s] = 3]
            /\ phase' = [phase EXCEPT ![s] = "AwaitingDesktopConfirmation"]
        BY <1>9 DEF Prove
      <4>2. wire' \subseteq Frames
        BY <2>3, <4>1
      <4>3. QED
        BY <2>1, <2>4, <4>1, <4>2
    <3>2. UNCHANGED <<keys, counters, assembler, history, enrollment>>
      BY <1>9 DEF Prove
    <3>3. QED
      BY <3>1, <3>2
<1>10. ASSUME NEW s \in Ids, NEW f \in wire, Verify(s, f) PROVE TypeOK'
  <2>1. f.from \in Ids
    BY WireFields
  <2>2. QED
    <3>1. /\ peer' \in [Ids -> Devices \cup {None}]
          /\ step' \in [Ids -> 0 .. 3] /\ phase' \in [Ids -> Phases]
      <4>1. /\ peer' = [peer EXCEPT ![s] = owner[f.from]]
            /\ step' = [step EXCEPT ![s] = 3]
            /\ phase' = [phase EXCEPT ![s] = IF expected[s] = None THEN "AwaitingApproval"
                                             ELSE "SendDesktopConfirmation"]
        BY <1>10 DEF Verify
      <4>2. owner[f.from] \in Devices \cup {None}
        BY <2>1
      <4>3. QED
        BY <4>1, <4>2
    <3>2. UNCHANGED <<keys, partner, counters, assembler, history, wire, enrollment>>
      BY <1>10 DEF Verify
    <3>3. QED
      BY <3>1, <3>2
<1>11. ASSUME NEW s \in Ids, NEW f \in wire, ConfirmBack(s, f) PROVE TypeOK'
  <2>1. Confirmation(s) \in Frames
    BY <1>11, PartnerKnown, ConfirmationFrame DEF ConfirmBack
  <2>2. received[s] < MaxMessages /\ sent[s] < MaxMessages
    BY <1>11 DEF ConfirmBack, ReadsConfirmation, Decrypts
  <2>3. QED
    BY <1>11, <2>1, <2>2 DEF ConfirmBack
<1>12. ASSUME NEW s \in Ids, NEW f \in wire, Complete(s, f) PROVE TypeOK'
  BY <1>12 DEF Complete, ReadsConfirmation, Decrypts
<1>13. ASSUME NEW s \in Ids, NEW f \in wire, Open(s, f) PROVE TypeOK'
  <2>1. received[s] < MaxMessages /\ f.kind = "data"
    BY <1>13 DEF Open, Opens, Decrypts, Continues
  <2>2. f.chunk \in Chunks /\ f.total \in Nat
    BY <2>1, WireFields, FrameFields
  <2>3. Append(partial[s], f.chunk) \in Seq(Chunks)
    BY <2>2
  <2>4. received' \in [Ids -> 0 .. MaxMessages]
    BY <1>13, <2>1 DEF Open
  <2>5. /\ opened' \in [Ids -> Seq(Seq(Chunks))]
        /\ partial' \in [Ids -> Seq(Chunks)]
        /\ total' \in [Ids -> Nat]
    <3>1. CASE Len(Append(partial[s], f.chunk)) = f.total
      <4>1. Append(opened[s], Append(partial[s], f.chunk)) \in Seq(Seq(Chunks))
        BY <2>3
      <4>2. /\ opened' = [opened EXCEPT ![s] = Append(opened[s], Append(partial[s], f.chunk))]
            /\ partial' = [partial EXCEPT ![s] = <<>>]
            /\ total' = [total EXCEPT ![s] = 0]
        BY <1>13, <3>1 DEF Open
      <4>3. QED
        BY <4>1, <4>2
    <3>2. CASE Len(Append(partial[s], f.chunk)) # f.total
      <4>1. /\ partial' = [partial EXCEPT ![s] = Append(partial[s], f.chunk)]
            /\ total' = [total EXCEPT ![s] = f.total]
            /\ opened' = opened
        BY <1>13, <3>2 DEF Open
      <4>2. QED
        BY <2>2, <2>3, <4>1
    <3>3. QED
      BY <3>1, <3>2
  <2>6. QED
    BY <1>13, <2>4, <2>5 DEF Open
<1>14. ASSUME NEW s \in Ids, NEW f \in wire, Reject(s, f) PROVE TypeOK'
  BY <1>14, CloseType DEF Reject
<1>15. CASE ShowCode
  BY <1>15 DEF ShowCode
<1>16. CASE CodeExpires
  BY <1>16 DEF CodeExpires
<1>17. CASE Restart
  BY <1>17, CloseType DEF Restart
<1>18. ASSUME NEW p \in Phones, Scan(p) PROVE TypeOK'
  BY <1>18 DEF Scan
<1>19. CASE UNCHANGED vars
  BY <1>19 DEF vars
<1>20. QED
  BY <1>1, <1>2, <1>3, <1>4, <1>5, <1>6, <1>7, <1>8, <1>9, <1>10, <1>11, <1>12, <1>13,
     <1>14, <1>15, <1>16, <1>17, <1>18, <1>19 DEF Next, Deliver

\* The rest of a session's life moves no session back and tells nothing new
\* about the handshake.
LEMMA Quiet ==
  ASSUME Pairs, UNCHANGED <<owner, step, partner>>,
         \A s \in Ids : owner[s] \in Phones => expected'[s] = expected[s],
         \A f \in wire' \ wire : f.kind \in {"confirm", "data"},
         \A s \in Ids :
            \/ phase'[s] = phase[s]
            \/ phase'[s] = "Closed" /\ owner[s] # None
            \/ phase'[s] = "Ready" /\ step[s] = 3 /\ owner[s] # None
            \/ /\ phase'[s] \in {"SendDesktopConfirmation", "AwaitingPhoneConfirmation"}
               /\ step[s] = 3 /\ owner[s] = PC
  PROVE  Paired' /\ Shaken'
<1>1. Paired'
  BY DEF Pairs, Paired
<1>2. Shaken'
  BY DEF Pairs, Shaken
<1>3. QED
  BY <1>1, <1>2

\* The owner of a session that is not new is a phone or the desktop.
LEMMA Owned ==
  ASSUME TypeOK, Paired, NEW s \in Ids
  PROVE  /\ owner[s] # None => owner[s] \in Phones \/ owner[s] = PC
         /\ phase[s] # "New" => owner[s] # None
         /\ Live(s) => owner[s] # None
  BY DEF TypeOK, Paired, Live

LEMMA NextPaired == Pairs /\ [Next]_vars => Paired' /\ Shaken'
<1> SUFFICES ASSUME Pairs, [Next]_vars PROVE Paired' /\ Shaken'
  OBVIOUS
<1> TypeOK /\ Paired /\ Shaken
  BY DEF Pairs
<1>1. ASSUME NEW s \in Ids, NEW p \in Phones, StartPhone(p, s) PROVE Paired' /\ Shaken'
  <2>1. /\ owner[s] = None /\ step[s] = 0 /\ partner[s] = None
        /\ \A t \in Ids : step[t] \in {2, 3} => partner[t] # s
    <3>1. owner[s] = None
      BY <1>1 DEF StartPhone
    <3>2. \A t \in Ids : owner[t] \in Phones \/ owner[t] = PC \/ owner[t] = None
      BY DEF TypeOK
    <3>3. QED
      BY <3>1, <3>2 DEF Paired
  <2>2. /\ owner'[s] = p /\ step'[s] = 1 /\ expected'[s] = PC /\ phase'[s] = "Handshake"
        /\ partner' = partner
        /\ \A t \in Ids \ {s} :
              /\ owner'[t] = owner[t] /\ step'[t] = step[t] /\ expected'[t] = expected[t]
              /\ phase'[t] = phase[t] \/ (phase'[t] = "Closed" /\ owner[t] = p)
    <3>1. /\ owner' = [owner EXCEPT ![s] = p] /\ step' = [step EXCEPT ![s] = 1]
          /\ expected' = [expected EXCEPT ![s] = PC] /\ partner' = partner
      BY <1>1 DEF StartPhone
    <3>2. /\ phase'[s] = "Handshake"
          /\ \A t \in Ids \ {s} : phase'[t] = phase[t] \/ (phase'[t] = "Closed" /\ owner[t] = p)
      BY <1>1 DEF StartPhone
    <3>3. QED
      BY <3>1, <3>2 DEF TypeOK
  <2>3. Paired'
    <3>1. \A t \in Ids \ {s} : owner[t] = p => phase[t] # "New" /\ p # PC /\ p # None
      BY DEF Paired
    <3>2. p \in Phones /\ p # PC /\ p # None
      OBVIOUS
    <3>3. QED
      BY <2>1, <2>2, <3>1, <3>2 DEF Paired
  <2>4. Shaken'
    <3>1. wire' = wire \cup {[kind |-> "hello", from |-> s]}
      BY <1>1 DEF StartPhone
    <3>2. \A f \in wire : f.kind \in {"reply", "proof"} => f.from # s
      BY <2>1 DEF Shaken
    <3>3. \A f \in wire : f.from \in Ids /\ (f.kind = "hello" /\ f.from # s => owner'[f.from] \in Phones)
      BY <2>2, WireFields DEF Shaken
    <3>4. QED
      BY <2>2, <3>1, <3>2, <3>3 DEF Shaken
  <2>5. QED
    BY <2>3, <2>4
<1>2. ASSUME NEW s \in Ids, StartDesktop(s) PROVE Paired' /\ Shaken'
  <2>1. /\ owner[s] = None /\ step[s] = 0 /\ partner[s] = None
        /\ \A t \in Ids : step[t] \in {2, 3} => partner[t] # s
    <3>1. owner[s] = None
      BY <1>2 DEF StartDesktop
    <3>2. \A t \in Ids : owner[t] \in Phones \/ owner[t] = PC \/ owner[t] = None
      BY DEF TypeOK
    <3>3. QED
      BY <3>1, <3>2 DEF Paired
  <2>2. Paired'
    <3>1. /\ owner'[s] = PC /\ phase'[s] = "Handshake"
          /\ \A t \in Ids \ {s} : owner'[t] = owner[t] /\ phase'[t] = phase[t]
                                 /\ expected'[t] = expected[t]
          /\ UNCHANGED <<step, partner>>
      BY <1>2 DEF StartDesktop, TypeOK
    <3>2. QED
      BY <2>1, <3>1 DEF Paired
  <2>3. Shaken'
    <3>1. /\ \A t \in Ids \ {s} : owner'[t] = owner[t]
          /\ UNCHANGED <<step, partner, wire>>
      BY <1>2 DEF StartDesktop, TypeOK
    <3>2. \A f \in wire : f.from \in Ids
      BY WireFields
    <3>3. \A f \in wire : f.kind \in {"hello", "reply", "proof"} => f.from # s
      BY <2>1 DEF Shaken
    <3>4. QED
      BY <3>1, <3>2, <3>3 DEF Shaken
  <2>4. QED
    BY <2>2, <2>3
<1>3. ASSUME NEW s \in Ids, End(s) PROVE Paired' /\ Shaken'
  BY <1>3, Quiet, Owned DEF End, Close
<1>4. ASSUME NEW s \in Ids, Approve(s) PROVE Paired' /\ Shaken'
  <2>1. step[s] = 3 /\ owner[s] = PC
    BY <1>4, Owned DEF Approve, Paired
  <2>2. QED
    BY <1>4, <2>1, Quiet DEF Approve, TypeOK
<1>5. ASSUME NEW s \in Ids, Confirm(s) PROVE Paired' /\ Shaken'
  <2>1. step[s] = 3 /\ owner[s] = PC
    BY <1>5, Owned DEF Confirm, Paired
  <2>2. QED
    BY <1>5, <2>1, Quiet DEF Confirm, Confirmation, TypeOK
<1>6. ASSUME NEW s \in Ids, NEW r \in Records, Seal(s, r) PROVE Paired' /\ Shaken'
  BY <1>6, Quiet DEF Seal, Sealed
<1>7. ASSUME NEW s \in Ids, NEW r \in Records, SealRefused(s, r) PROVE Paired' /\ Shaken'
  BY <1>7, Quiet, Owned DEF SealRefused, Close
<1>8. ASSUME NEW s \in Ids, NEW f \in wire, Reply(s, f) PROVE Paired' /\ Shaken'
  <2>1. /\ owner[s] = PC /\ step[s] = 0 /\ phase[s] = "Handshake"
        /\ f.from \in Ids /\ owner[f.from] \in Phones
        /\ \A t \in Ids : step[t] = 3 => partner[t] # s
    BY <1>8, WireFields DEF Reply, ReadsHandshake, Paired, Shaken
  <2>2. Paired'
    <3>1. /\ UNCHANGED <<owner, expected, phase>>
          /\ step'[s] = 2 /\ partner'[s] = f.from
          /\ \A t \in Ids \ {s} : step'[t] = step[t] /\ partner'[t] = partner[t]
      BY <1>8, <2>1 DEF Reply, TypeOK
    <3>2. QED
      BY <2>1, <3>1 DEF Paired
  <2>3. Shaken'
    <3>1. /\ owner' = owner
          /\ step'[s] = 2 /\ partner'[s] = f.from
          /\ \A t \in Ids \ {s} : step'[t] = step[t] /\ partner'[t] = partner[t]
          /\ wire' = wire \cup {[kind |-> "reply", from |-> s, to |-> f.from]}
      BY <1>8, <2>1 DEF Reply, TypeOK
    <3>2. QED
      BY <2>1, <3>1, WireFields DEF Shaken
  <2>4. QED
    BY <2>2, <2>3
<1>9. ASSUME NEW s \in Ids, NEW f \in wire, Prove(s, f) PROVE Paired' /\ Shaken'
  <2>1. /\ owner[s] \in Phones /\ step[s] = 1 /\ phase[s] = "Handshake"
        /\ f.from \in Ids /\ owner[f.from] = PC
        /\ partner[f.from] = s /\ step[f.from] \in {2, 3}
    BY <1>9, WireFields, Owned DEF Prove, ReadsHandshake, Paired, Shaken
  <2>2. \A t \in Ids : step[t] = 3 => partner[t] # s
    BY <2>1 DEF Paired
  <2>3. /\ owner' = owner /\ expected' = expected
        /\ step'[s] = 3 /\ partner'[s] = f.from /\ phase'[s] = "AwaitingDesktopConfirmation"
        /\ \A t \in Ids \ {s} : /\ step'[t] = step[t] /\ partner'[t] = partner[t]
                               /\ phase'[t] = phase[t]
        /\ wire' = wire \cup {[kind |-> "proof", from |-> s, to |-> f.from,
                                 psk |-> owner[s] \in holders]}
    BY <1>9, <2>1 DEF Prove, TypeOK
  <2>4. Paired'
    BY <2>1, <2>2, <2>3 DEF Paired
  <2>5. Shaken'
    BY <2>1, <2>3, WireFields DEF Shaken
  <2>6. QED
    BY <2>4, <2>5
<1>10. ASSUME NEW s \in Ids, NEW f \in wire, Verify(s, f) PROVE Paired' /\ Shaken'
  <2>1. /\ owner[s] = PC /\ step[s] = 2 /\ phase[s] = "Handshake"
        /\ f.from \in Ids /\ f.from = partner[s]
        /\ partner[f.from] = s /\ step[f.from] = 3
    BY <1>10, WireFields, Owned DEF Verify, ReadsHandshake, Paired, Shaken
  <2>2. Paired'
    <3>1. /\ owner' = owner /\ expected' = expected /\ partner' = partner
          /\ step'[s] = 3
          /\ phase'[s] \in {"AwaitingApproval", "SendDesktopConfirmation"}
          /\ \A t \in Ids \ {s} : step'[t] = step[t] /\ phase'[t] = phase[t]
      BY <1>10, <2>1 DEF Verify, TypeOK
    <3>2. QED
      BY <2>1, <3>1 DEF Paired
  <2>3. Shaken'
    BY <1>10, <2>1, WireFields DEF Verify, TypeOK, Shaken
  <2>4. QED
    BY <2>2, <2>3
<1>11. ASSUME NEW s \in Ids, NEW f \in wire, ConfirmBack(s, f) PROVE Paired' /\ Shaken'
  <2>1. step[s] = 3 /\ owner[s] # None
    BY <1>11, Owned, PartnerKnown DEF ConfirmBack
  <2>2. QED
    BY <1>11, <2>1, Quiet DEF ConfirmBack, Confirmation, TypeOK
<1>12. ASSUME NEW s \in Ids, NEW f \in wire, Complete(s, f) PROVE Paired' /\ Shaken'
  BY <1>12, Quiet, Owned, PartnerKnown DEF Complete, TypeOK
<1>13. ASSUME NEW s \in Ids, NEW f \in wire, Open(s, f) PROVE Paired' /\ Shaken'
  BY <1>13, Quiet DEF Open
<1>14. ASSUME NEW s \in Ids, NEW f \in wire, Reject(s, f) PROVE Paired' /\ Shaken'
  BY <1>14, Quiet, Owned DEF Reject, Listening, Close
<1>15. CASE ShowCode
  BY <1>15, Quiet DEF ShowCode
<1>16. CASE CodeExpires
  BY <1>16, Quiet DEF CodeExpires
<1>17. CASE Restart
  BY <1>17, Quiet DEF Restart, Close
<1>18. ASSUME NEW p \in Phones, Scan(p) PROVE Paired' /\ Shaken'
  BY <1>18, Quiet DEF Scan
<1>19. CASE UNCHANGED vars
  BY <1>19, Quiet DEF vars
<1>20. QED
  BY <1>1, <1>2, <1>3, <1>4, <1>5, <1>6, <1>7, <1>8, <1>9, <1>10, <1>11, <1>12, <1>13,
     <1>14, <1>15, <1>16, <1>17, <1>18, <1>19 DEF Next, Deliver

\* Every session, the wire and the desktop's store keep their types, and no
\* session ever exceeds the budget of frames it may write or read.
THEOREM TypeCorrect == Spec => []TypeOK
<1>1. Init => Pairs
  BY InitType, InitPaired DEF Pairs
<1>2. Pairs /\ [Next]_vars => Pairs'
  BY NextType, NextPaired DEF Pairs
<1>3. Pairs => TypeOK
  BY DEF Pairs
<1>4. QED
  BY <1>1, <1>2, <1>3, PTL DEF Spec

-----------------------------------------------------------------------------
(* The second part: whom the desktop talks to. *)

Identified ==
    /\ pinned \in Phones \cup {None}
    /\ \A s \in Ids :
          /\ phase[s] \notin {"New", "Handshake", "Closed"} => peer[s] = owner[partner[s]]
          /\ owner[s] = PC /\ Live(s) /\ expected[s] # None => expected[s] = pinned
          /\ owner[s] = PC /\ phase[s] \in {"SendDesktopConfirmation",
                                           "AwaitingPhoneConfirmation", "Ready"}
                => expected[s] = peer[s]
    /\ \A s, t \in Ids : owner[s] = PC /\ Live(s) /\ owner[t] = PC /\ Live(t) => s = t

\* A session that goes on with the peer it has learned, or closes, changes
\* nothing of this.
LEMMA SamePeer ==
  ASSUME Pairs, Identified, UNCHANGED <<owner, partner, expected, pinned>>,
         \A s \in Ids :
            \/ phase'[s] = phase[s] /\ peer'[s] = peer[s]
            \/ phase'[s] = "Closed"
            \/ /\ phase[s] \in {"SendDesktopConfirmation", "AwaitingDesktopConfirmation",
                               "AwaitingPhoneConfirmation", "Ready"}
               /\ owner[s] = PC => phase[s] # "AwaitingDesktopConfirmation"
               /\ phase'[s] \in {"AwaitingPhoneConfirmation", "Ready"}
               /\ peer'[s] = peer[s]
  PROVE  Identified'
  BY DEF Identified, Live

LEMMA NextIdentified == Pairs /\ Identified /\ [Next]_vars => Identified'
<1> SUFFICES ASSUME Pairs, Identified, [Next]_vars PROVE Identified'
  OBVIOUS
<1> TypeOK /\ Paired /\ Shaken
  BY DEF Pairs
<1>1. ASSUME NEW s \in Ids, NEW p \in Phones, StartPhone(p, s) PROVE Identified'
  <2>1. /\ owner' = [owner EXCEPT ![s] = p] /\ expected' = [expected EXCEPT ![s] = PC]
        /\ UNCHANGED <<partner, pinned>>
        /\ phase'[s] = "Handshake"
        /\ \A t \in Ids \ {s} : \/ phase'[t] = phase[t] /\ peer'[t] = peer[t]
                               \/ phase'[t] = "Closed"
    BY <1>1 DEF StartPhone
  <2>2. \A t \in Ids : step[t] \in {2, 3} => partner[t] # s
    <3>1. owner[s] = None
      BY <1>1 DEF StartPhone
    <3>2. \A t \in Ids : owner[t] \in Phones \/ owner[t] = PC \/ owner[t] = None
      BY DEF TypeOK
    <3>3. QED
      BY <3>1, <3>2 DEF Paired
  <2>3. \A t \in Ids : phase[t] \notin {"New", "Handshake", "Closed"}
                         => owner'[partner[t]] = owner[partner[t]]
    BY <2>1, <2>2, PartnerKnown DEF TypeOK
  <2>4. /\ owner'[s] = p /\ p # PC
        /\ \A t \in Ids \ {s} : owner'[t] = owner[t] /\ expected'[t] = expected[t]
    BY <2>1 DEF TypeOK
  <2>5. \A t \in Ids : owner'[t] = PC /\ Live(t)' =>
            /\ t # s /\ owner[t] = PC /\ Live(t) /\ phase'[t] = phase[t] /\ peer'[t] = peer[t]
    BY <2>1, <2>4 DEF Live
  <2>6. \A t \in Ids : phase'[t] \notin {"New", "Handshake", "Closed"} =>
            phase'[t] = phase[t] /\ peer'[t] = peer[t]
    BY <2>1
  <2>7. pinned' = pinned /\ partner' = partner
    BY <2>1
  <2>8. \A t \in Ids : phase'[t] \notin {"New", "Handshake", "Closed"} =>
            peer'[t] = owner'[partner'[t]]
    BY <2>3, <2>6, <2>7 DEF Identified
  <2>9. QED
    BY <2>4, <2>5, <2>7, <2>8 DEF Identified, Live
<1>2. ASSUME NEW s \in Ids, StartDesktop(s) PROVE Identified'
  <2>1. /\ owner' = [owner EXCEPT ![s] = PC]
        /\ expected' = [expected EXCEPT ![s] = IF armed THEN None ELSE pinned]
        /\ phase' = [phase EXCEPT ![s] = "Handshake"]
        /\ UNCHANGED <<partner, peer, pinned>>
        /\ \A t \in Ids : owner[t] = PC => ~Live(t)
    BY <1>2 DEF StartDesktop, Live
  <2>2. \A t \in Ids : step[t] \in {2, 3} => partner[t] # s
    <3>1. owner[s] = None
      BY <1>2 DEF StartDesktop
    <3>2. \A t \in Ids : owner[t] \in Phones \/ owner[t] = PC \/ owner[t] = None
      BY DEF TypeOK
    <3>3. QED
      BY <3>1, <3>2 DEF Paired
  <2>3. \A t \in Ids : phase[t] \notin {"New", "Handshake", "Closed"}
                         => owner'[partner[t]] = owner[partner[t]]
    BY <2>1, <2>2, PartnerKnown DEF TypeOK
  <2>4. /\ owner'[s] = PC /\ phase'[s] = "Handshake"
        /\ expected'[s] = IF armed THEN None ELSE pinned
        /\ \A t \in Ids \ {s} : owner'[t] = owner[t] /\ expected'[t] = expected[t]
                               /\ phase'[t] = phase[t]
        /\ UNCHANGED <<partner, peer, pinned>>
    BY <2>1 DEF TypeOK
  <2>5. \A t \in Ids : owner'[t] = PC /\ Live(t)' => t = s
    BY <2>1, <2>4 DEF Live
  <2>6. \A t \in Ids : phase'[t] \notin {"New", "Handshake", "Closed"} =>
            peer'[t] = owner'[partner'[t]]
    BY <2>3, <2>4 DEF Identified
  <2>7. QED
    BY <2>4, <2>5, <2>6 DEF Identified, Live
<1>3. ASSUME NEW s \in Ids, End(s) PROVE Identified'
  BY <1>3, SamePeer DEF End, Close
<1>4. ASSUME NEW s \in Ids, Approve(s) PROVE Identified'
  <2>1. /\ owner[s] = PC /\ Live(s)
        /\ peer[s] \in Phones
    BY <1>4, Owned, PartnerKnown DEF Approve, Paired, Identified, Live
  <2>2. \A t \in Ids \ {s} : owner[t] = PC => ~Live(t)
    BY <2>1 DEF Identified
  <2>3. /\ pinned' = peer[s] /\ expected' = [expected EXCEPT ![s] = peer[s]]
        /\ phase' = [phase EXCEPT ![s] = "SendDesktopConfirmation"]
        /\ UNCHANGED <<owner, partner, peer>>
    BY <1>4 DEF Approve
  <2>4. phase[s] = "AwaitingApproval"
    BY <1>4 DEF Approve
  <2>5. QED
    BY <2>1, <2>2, <2>3, <2>4 DEF Identified, Live, TypeOK
<1>5. ASSUME NEW s \in Ids, Confirm(s) PROVE Identified'
  BY <1>5, SamePeer DEF Confirm, TypeOK
<1>6. ASSUME NEW s \in Ids, NEW r \in Records, Seal(s, r) PROVE Identified'
  BY <1>6, SamePeer DEF Seal
<1>7. ASSUME NEW s \in Ids, NEW r \in Records, SealRefused(s, r) PROVE Identified'
  BY <1>7, SamePeer DEF SealRefused, Close
<1>8. ASSUME NEW s \in Ids, NEW f \in wire, Reply(s, f) PROVE Identified'
  <2>1. phase[s] = "Handshake"
    BY <1>8 DEF Reply, ReadsHandshake
  <2>2. UNCHANGED <<owner, expected, phase, peer, pinned>>
        /\ partner' = [partner EXCEPT ![s] = f.from]
    BY <1>8 DEF Reply
  <2>3. QED
    BY <2>1, <2>2 DEF Identified, Live, TypeOK
<1>9. ASSUME NEW s \in Ids, NEW f \in wire, Prove(s, f) PROVE Identified'
  <2>1. phase[s] = "Handshake" /\ owner[s] # PC
    BY <1>9 DEF Prove, ReadsHandshake
  <2>2. UNCHANGED <<owner, expected, pinned>>
        /\ partner' = [partner EXCEPT ![s] = f.from]
        /\ peer' = [peer EXCEPT ![s] = owner[f.from]]
        /\ phase' = [phase EXCEPT ![s] = "AwaitingDesktopConfirmation"]
    BY <1>9 DEF Prove
  <2>3. QED
    BY <2>1, <2>2 DEF Identified, Live, TypeOK
<1>10. ASSUME NEW s \in Ids, NEW f \in wire, Verify(s, f) PROVE Identified'
  <2>1. /\ phase[s] = "Handshake" /\ owner[s] = PC
        /\ f.from = partner[s] /\ expected[s] \in {None, owner[f.from]}
    BY <1>10 DEF Verify, ReadsHandshake
  <2>2. UNCHANGED <<owner, expected, partner, pinned>>
        /\ peer' = [peer EXCEPT ![s] = owner[f.from]]
        /\ phase' = [phase EXCEPT ![s] = IF expected[s] = None THEN "AwaitingApproval"
                                         ELSE "SendDesktopConfirmation"]
    BY <1>10 DEF Verify
  <2>3. QED
    BY <2>1, <2>2 DEF Identified, Live, TypeOK
<1>11. ASSUME NEW s \in Ids, NEW f \in wire, ConfirmBack(s, f) PROVE Identified'
  <2>1. owner[s] # PC
    BY <1>11 DEF ConfirmBack, Paired
  <2>2. QED
    BY <1>11, <2>1, SamePeer DEF ConfirmBack, TypeOK
<1>12. ASSUME NEW s \in Ids, NEW f \in wire, Complete(s, f) PROVE Identified'
  BY <1>12, SamePeer DEF Complete, TypeOK
<1>13. ASSUME NEW s \in Ids, NEW f \in wire, Open(s, f) PROVE Identified'
  BY <1>13, SamePeer DEF Open
<1>14. ASSUME NEW s \in Ids, NEW f \in wire, Reject(s, f) PROVE Identified'
  BY <1>14, SamePeer DEF Reject, Close
<1>15. CASE ShowCode
  BY <1>15, SamePeer DEF ShowCode
<1>16. CASE CodeExpires
  BY <1>16, SamePeer DEF CodeExpires
<1>17. CASE Restart
  BY <1>17, SamePeer DEF Restart, Close
<1>18. ASSUME NEW p \in Phones, Scan(p) PROVE Identified'
  BY <1>18, SamePeer DEF Scan
<1>19. CASE UNCHANGED vars
  BY <1>19, SamePeer DEF vars
<1>20. QED
  BY <1>1, <1>2, <1>3, <1>4, <1>5, <1>6, <1>7, <1>8, <1>9, <1>10, <1>11, <1>12, <1>13,
     <1>14, <1>15, <1>16, <1>17, <1>18, <1>19 DEF Next, Deliver

-----------------------------------------------------------------------------
(* The third part: what a frame on the wire says of the session that wrote  *)
(* it, and how far the two counters have come.                              *)

Protected(f) == f.kind \in {"confirm", "data"}

\* The record a data frame belongs to.
RecordOf(f) == sealed[f.from][f.record + 1]

Confirmed == {"AwaitingPhoneConfirmation", "Ready", "Closed"}

Framed ==
    \A f \in wire :
        /\ Protected(f) => /\ step[f.from] = 3 /\ partner[f.from] = f.to
                           /\ f.n < sent[f.from]
        /\ f.kind = "confirm" => f.n = 0 /\ phase[f.from] \in Confirmed
        /\ f.kind = "data" => /\ f.n > 0
                              /\ f.record < Len(sealed[f.from])
                              /\ f.total = Len(RecordOf(f))
                              /\ f.offset < f.total
                              /\ f.chunk = RecordOf(f)[f.offset + 1]

Counted ==
    \A s \in Ids :
        /\ phase[s] \notin Confirmed => sent[s] = 0
        /\ phase[s] \in {"AwaitingPhoneConfirmation", "Ready"} => sent[s] > 0
        /\ phase[s] = "Ready" => received[s] > 0 /\ phase[partner[s]] \in Confirmed
        /\ phase[s] \notin {"Ready", "Closed"} => received[s] = 0 /\ sealed[s] = <<>>

Written == Framed /\ Counted /\ NonceOnce

LEMMA Counters ==
  ASSUME TypeOK, NEW s \in Ids
  PROVE  /\ sent[s] \in Nat /\ received[s] \in Nat
         /\ sealed[s] \in Seq(Records) /\ Len(sealed[s]) \in Nat
<1>1. sent[s] \in 0 .. MaxMessages /\ received[s] \in 0 .. MaxMessages
  BY DEF TypeOK
<1>2. sealed[s] \in Seq(Records)
  BY DEF TypeOK
<1>3. QED
  BY <1>1, <1>2

LEMMA InitWritten == Init => Written
<1> SUFFICES ASSUME Init PROVE Written
  OBVIOUS
<1>1. wire = {} /\ \A s \in Ids : phase[s] = "New" /\ sent[s] = 0 /\ received[s] = 0
                                 /\ sealed[s] = <<>>
  BY DEF Init
<1>2. QED
  BY <1>1 DEF Written, Framed, Counted, NonceOnce, Confirmed

\* No protected frame is written, and no session turns ready or confirms.
LEMMA NothingWritten ==
  ASSUME Pairs, TypeOK', Written, UNCHANGED sealed,
         \A f \in wire' : f \in wire \/ f.kind \in {"hello", "reply", "proof"},
         \A s \in Ids : step[s] = 3 => step'[s] = 3 /\ partner'[s] = partner[s],
         \A s \in Ids :
            /\ sent'[s] >= sent[s]
            /\ sent'[s] = sent[s] \/ phase'[s] = "Closed"
            /\ received'[s] = received[s] \/ (phase[s] = "Ready" /\ received'[s] > 0)
            /\ \/ phase'[s] = phase[s]
               \/ phase'[s] = "Closed"
               \/ phase[s] \notin Confirmed /\ phase'[s] \notin Confirmed
  PROVE  Written'
<1> TypeOK /\ Paired /\ Framed /\ Counted /\ NonceOnce
  BY DEF Pairs, Written
<1>1. \A s \in Ids : sent[s] \in Nat /\ sent'[s] \in Nat /\ sent'[s] >= sent[s]
  BY DEF TypeOK
<1>2. ASSUME NEW f \in wire', Protected(f)
      PROVE  f \in wire /\ f.from \in Ids /\ f.n \in Nat
  BY <1>2, WireFields, FrameFields DEF Protected
<1>3. ASSUME NEW f \in wire', Protected(f)
      PROVE  /\ step'[f.from] = 3 /\ partner'[f.from] = f.to
             /\ f.n < sent'[f.from]
             /\ phase[f.from] \in Confirmed => phase'[f.from] \in Confirmed
  <2>1. /\ f \in wire /\ f.from \in Ids /\ f.n \in Nat
        /\ step[f.from] = 3 /\ partner[f.from] = f.to /\ f.n < sent[f.from]
    BY <1>2, <1>3 DEF Framed
  <2>2. f.n < sent'[f.from]
    BY <2>1, <1>1
  <2>3. QED
    BY <2>1, <2>2 DEF Confirmed
<1>4. Framed'
  BY <1>2, <1>3 DEF Framed, RecordOf, Protected
<1>5. Counted'
  BY PartnerKnown DEF Counted, Confirmed
<1>6. NonceOnce'
  BY <1>2 DEF NonceOnce, Protected
<1>7. QED
  BY <1>4, <1>5, <1>6 DEF Written

\* A session moves on before its confirmation.
LEMMA BeforeConfirmation ==
  ASSUME Pairs, TypeOK', Written, NEW s \in Ids,
         UNCHANGED <<sealed, sent, received>>,
         \A f \in wire' : f \in wire \/ f.kind \in {"hello", "reply", "proof"},
         \A t \in Ids : step[t] = 3 => step'[t] = 3 /\ partner'[t] = partner[t],
         phase[s] \notin Confirmed, phase'[s] \notin Confirmed,
         \A t \in Ids \ {s} : phase'[t] = phase[t] \/ phase'[t] = "Closed"
  PROVE  Written'
<1>1. \A t \in Ids : sent'[t] >= sent[t] /\ sent'[t] = sent[t] /\ received'[t] = received[t]
  BY Counters DEF Pairs
<1>2. ASSUME NEW t \in Ids
      PROVE  \/ phase'[t] = phase[t]
             \/ phase'[t] = "Closed"
             \/ phase[t] \notin Confirmed /\ phase'[t] \notin Confirmed
  <2>1. CASE t = s
    BY <2>1
  <2>2. CASE t # s
    BY <2>2
  <2>3. QED
    BY <2>1, <2>2
<1>3. UNCHANGED sealed
  OBVIOUS
<1>4. QED
  BY <1>1, <1>2, <1>3, NothingWritten

\* A confirmation is the first frame its session protects.
LEMMA ConfirmationWritten ==
  ASSUME Pairs, TypeOK', Written, NEW s \in Ids,
         phase[s] \in {"SendDesktopConfirmation", "AwaitingDesktopConfirmation"},
         wire' = wire \cup {Confirmation(s)},
         sent' = [sent EXCEPT ![s] = @ + 1],
         UNCHANGED <<step, partner, sealed>>,
         \A t \in Ids \ {s} : phase'[t] = phase[t] /\ received'[t] = received[t],
         \/ phase'[s] = "AwaitingPhoneConfirmation" /\ received'[s] = received[s]
         \/ /\ phase'[s] = "Ready" /\ received'[s] = received[s] + 1
            /\ phase[partner[s]] \in Confirmed
  PROVE  Written'
<1> TypeOK /\ Paired /\ Framed /\ Counted /\ NonceOnce
  BY DEF Pairs, Written
<1> DEFINE c == Confirmation(s)
<1>1. /\ sent[s] = 0 /\ sent'[s] = 1 /\ received[s] = 0 /\ sealed[s] = <<>>
      /\ \A t \in Ids \ {s} : sent'[t] = sent[t]
      /\ step[s] = 3 /\ partner[s] \in Ids
  <2>1. sent[s] = 0 /\ received[s] = 0 /\ sealed[s] = <<>>
    BY DEF Counted, Confirmed
  <2>2. sent'[s] = 1 /\ \A t \in Ids \ {s} : sent'[t] = sent[t]
    BY <2>1 DEF TypeOK
  <2>3. QED
    BY <2>1, <2>2, PartnerKnown
<1>2. c.kind = "confirm" /\ c.from = s /\ c.to = partner[s] /\ c.n = 0
  BY <1>1 DEF Confirmation
<1>3. \A f \in wire : Protected(f) => f.from \in Ids \ {s} /\ f.n \in Nat
  <2>1. ASSUME NEW f \in wire, Protected(f) PROVE f.from \in Ids \ {s} /\ f.n \in Nat
    <3>1. f.from \in Ids /\ f.n \in Nat /\ f.n < sent[f.from]
      BY <2>1, WireFields, FrameFields DEF Framed, Protected
    <3>2. QED
      BY <3>1, <1>1
  <2>2. QED
    BY <2>1
<1>4. Framed'
  <2>1. ASSUME NEW f \in wire PROVE
        /\ Protected(f) => /\ step'[f.from] = 3 /\ partner'[f.from] = f.to
                           /\ f.n < sent'[f.from]
        /\ f.kind = "confirm" => f.n = 0 /\ phase'[f.from] \in Confirmed
        /\ f.kind = "data" => /\ f.n > 0
                              /\ f.record < Len(sealed'[f.from])
                              /\ f.total = Len(RecordOf(f)')
                              /\ f.offset < f.total
                              /\ f.chunk = RecordOf(f)'[f.offset + 1]
    BY <1>1, <1>3 DEF Framed, Protected, RecordOf
  <2>2. /\ step'[c.from] = 3 /\ partner'[c.from] = c.to /\ c.n < sent'[c.from]
        /\ phase'[c.from] \in Confirmed /\ c.n = 0 /\ c.kind # "data"
    BY <1>1, <1>2 DEF Confirmed
  <2>3. QED
    BY <2>1, <2>2 DEF Framed, Protected, RecordOf
<1>5. Counted'
  BY <1>1, PartnerKnown DEF Counted, Confirmed
<1>6. NonceOnce'
  BY <1>2, <1>3 DEF NonceOnce, Protected
<1>7. QED
  BY <1>4, <1>5, <1>6 DEF Written

\* The frames of a record take the nonces that follow the last one used.
LEMMA SealWritten ==
  ASSUME Pairs, TypeOK', Written, NEW s \in Ids, NEW r \in Records, Seal(s, r)
  PROVE  Written'
<1> TypeOK /\ Paired /\ Framed /\ Counted /\ NonceOnce
  BY DEF Pairs, Written
<1>1. /\ phase[s] = "Ready"
      /\ wire' = wire \cup Sealed(s, r)
      /\ sent' = [sent EXCEPT ![s] = sent[s] + Len(r)]
      /\ sealed' = [sealed EXCEPT ![s] = Append(sealed[s], r)]
      /\ UNCHANGED <<owner, phase, step, partner, received>>
  BY DEF Seal
<1>2. /\ sent[s] \in Nat /\ sent[s] > 0 /\ Len(r) \in Nat /\ Len(r) > 0
      /\ sent'[s] = sent[s] + Len(r)
      /\ \A t \in Ids \ {s} : sent'[t] = sent[t]
      /\ step[s] = 3 /\ partner[s] \in Ids
  <2>1. sent[s] \in Nat /\ sent[s] > 0
    BY <1>1, Counters DEF Counted
  <2>2. Len(r) \in Nat /\ Len(r) > 0
    OBVIOUS
  <2>3. sent'[s] = sent[s] + Len(r) /\ \A t \in Ids \ {s} : sent'[t] = sent[t]
    BY <1>1 DEF TypeOK
  <2>4. QED
    BY <1>1, <2>1, <2>2, <2>3, PartnerKnown
<1>3. /\ Len(sealed[s]) \in Nat /\ Len(sealed'[s]) = Len(sealed[s]) + 1
      /\ sealed'[s][Len(sealed[s]) + 1] = r
      /\ \A k \in 1 .. Len(sealed[s]) : sealed'[s][k] = sealed[s][k]
      /\ \A t \in Ids \ {s} : sealed'[t] = sealed[t]
  BY <1>1 DEF TypeOK
<1>4. ASSUME NEW f \in Sealed(s, r)
      PROVE  /\ f.kind = "data" /\ f.from = s /\ f.to = partner[s]
             /\ f.record = Len(sealed[s]) /\ f.total = Len(r)
             /\ f.offset \in 0 .. Len(r) - 1
             /\ f.n = sent[s] + f.offset
             /\ f.chunk = r[f.offset + 1]
  <2>1. PICK i \in DOMAIN r :
          f = [kind |-> "data", from |-> s, to |-> partner[s], n |-> sent[s] + i - 1,
               record |-> Len(sealed[s]), total |-> Len(r), offset |-> i - 1, chunk |-> r[i]]
    BY DEF Sealed
  <2>2. i \in 1 .. Len(r)
    BY <2>1
  <2>3. QED
    BY <1>2, <2>1, <2>2
<1>5. ASSUME NEW f \in wire, Protected(f)
      PROVE  f.from \in Ids /\ f.n \in Nat /\ f.n < sent[f.from] /\ f.n < sent'[f.from]
  <2>1. f.from \in Ids /\ f.n \in Nat
    BY <1>5, WireFields, FrameFields DEF Protected
  <2>2. f.n < sent[f.from] /\ sent[f.from] \in Nat
    BY <1>5, <2>1, Counters DEF Framed
  <2>3. QED
    BY <1>2, <2>1, <2>2
<1>6. Framed'
  <2>1. ASSUME NEW f \in wire PROVE
        /\ Protected(f) => /\ step'[f.from] = 3 /\ partner'[f.from] = f.to
                           /\ f.n < sent'[f.from]
        /\ f.kind = "confirm" => f.n = 0 /\ phase'[f.from] \in Confirmed
        /\ f.kind = "data" => /\ f.n > 0
                              /\ f.record < Len(sealed'[f.from])
                              /\ f.total = Len(RecordOf(f)')
                              /\ f.offset < f.total
                              /\ f.chunk = RecordOf(f)'[f.offset + 1]
    <3>1. CASE f.kind = "data"
      <4>1. /\ f.from \in Ids /\ f.record \in Nat /\ f.record < Len(sealed[f.from])
            /\ Len(sealed[f.from]) \in Nat
        BY <3>1, WireFields, FrameFields, Counters DEF Framed
      <4>2. f.record < Len(sealed'[f.from]) /\ RecordOf(f)' = RecordOf(f)
        <5>1. CASE f.from = s
          BY <1>3, <4>1, <5>1 DEF RecordOf
        <5>2. CASE f.from # s
          BY <1>3, <4>1, <5>2 DEF RecordOf
        <5>3. QED
          BY <5>1, <5>2
      <4>3. QED
        BY <1>1, <1>5, <3>1, <4>2 DEF Framed, Protected
    <3>2. CASE f.kind # "data"
      BY <1>1, <1>5, <3>2 DEF Framed, Protected
    <3>3. QED
      BY <3>1, <3>2
  <2>2. ASSUME NEW f \in Sealed(s, r) PROVE
        /\ step'[f.from] = 3 /\ partner'[f.from] = f.to /\ f.n < sent'[f.from]
        /\ f.kind = "data" /\ f.n > 0
        /\ f.record < Len(sealed'[f.from])
        /\ f.total = Len(RecordOf(f)')
        /\ f.offset < f.total
        /\ f.chunk = RecordOf(f)'[f.offset + 1]
    <3>1. step'[f.from] = 3 /\ partner'[f.from] = f.to
      BY <1>1, <1>2, <1>4
    <3>2. f.n < sent'[f.from] /\ f.n > 0
      BY <1>2, <1>4
    <3>3. f.record < Len(sealed'[f.from]) /\ RecordOf(f)' = r
      BY <1>3, <1>4 DEF RecordOf
    <3>4. f.offset < f.total
      BY <1>2, <1>4
    <3>5. QED
      BY <1>4, <3>1, <3>2, <3>3, <3>4
  <2>3. QED
    BY <1>1, <2>1, <2>2 DEF Framed
<1>7. Counted'
  BY <1>1, <1>2 DEF Counted, Confirmed
<1>8. NonceOnce'
  <2>1. ASSUME NEW f \in Sealed(s, r), NEW g \in Sealed(s, r), f.n = g.n PROVE f = g
    <3>1. PICK i \in DOMAIN r :
            f = [kind |-> "data", from |-> s, to |-> partner[s], n |-> sent[s] + i - 1,
                 record |-> Len(sealed[s]), total |-> Len(r), offset |-> i - 1, chunk |-> r[i]]
      BY DEF Sealed
    <3>2. PICK j \in DOMAIN r :
            g = [kind |-> "data", from |-> s, to |-> partner[s], n |-> sent[s] + j - 1,
                 record |-> Len(sealed[s]), total |-> Len(r), offset |-> j - 1, chunk |-> r[j]]
      BY DEF Sealed
    <3>3. i \in 1 .. Len(r) /\ j \in 1 .. Len(r)
      BY <3>1, <3>2
    <3>4. i = j
      BY <1>2, <2>1, <3>1, <3>2, <3>3
    <3>5. QED
      BY <3>1, <3>2, <3>4
  <2>2. ASSUME NEW f \in Sealed(s, r), NEW g \in wire, Protected(g), g.from = s
        PROVE  f.n # g.n
    BY <1>2, <1>4, <1>5, <2>2
  <2>3. QED
    BY <1>1, <1>4, <2>1, <2>2 DEF NonceOnce, Protected
<1>9. QED
  BY <1>6, <1>7, <1>8 DEF Written

LEMMA NextWritten == Pairs /\ Written /\ TypeOK' /\ [Next]_vars => Written'
<1> SUFFICES ASSUME Pairs, Written, TypeOK', [Next]_vars PROVE Written'
  OBVIOUS
<1> TypeOK /\ Paired /\ Framed /\ Counted /\ NonceOnce
  BY DEF Pairs, Written
<1>0. \A s \in Ids : sent[s] \in Nat /\ received[s] \in Nat
  BY Counters
<1>1. ASSUME NEW s \in Ids, NEW p \in Phones, StartPhone(p, s) PROVE Written'
  <2>1. step[s] = 0 /\ phase[s] = "New"
    BY <1>1 DEF StartPhone, Paired
  <2>2. step' = [step EXCEPT ![s] = 1] /\ UNCHANGED <<sealed, partner, sent, received>>
    BY <1>1 DEF StartPhone
  <2>3. /\ \A t \in Ids \ {s} : phase'[t] = phase[t] \/ phase'[t] = "Closed"
        /\ phase'[s] = "Handshake"
    BY <1>1 DEF StartPhone
  <2>4. \A f \in wire' : f \in wire \/ f.kind \in {"hello", "reply", "proof"}
    BY <1>1 DEF StartPhone
  <2>5. \A t \in Ids : step[t] = 3 => step'[t] = 3 /\ partner'[t] = partner[t]
    BY <2>1, <2>2 DEF TypeOK
  <2>6. phase[s] \notin Confirmed /\ phase'[s] \notin Confirmed
    BY <2>1, <2>3 DEF Confirmed
  <2>7. QED
    BY <2>2, <2>3, <2>4, <2>5, <2>6, BeforeConfirmation
<1>2. ASSUME NEW s \in Ids, StartDesktop(s) PROVE Written'
  <2>1. phase[s] = "New" /\ phase' = [phase EXCEPT ![s] = "Handshake"]
        /\ UNCHANGED <<step, partner, sealed, sent, received, wire>>
    BY <1>2 DEF StartDesktop, Paired
  <2>2. phase'[s] = "Handshake" /\ \A t \in Ids \ {s} : phase'[t] = phase[t]
    BY <2>1 DEF TypeOK
  <2>3. phase[s] \notin Confirmed /\ phase'[s] \notin Confirmed
    BY <2>1, <2>2 DEF Confirmed
  <2>4. QED
    BY <2>1, <2>2, <2>3, BeforeConfirmation
<1>3. ASSUME NEW s \in Ids, End(s) PROVE Written'
  BY <1>0, <1>3, NothingWritten DEF End, Close
<1>4. ASSUME NEW s \in Ids, Approve(s) PROVE Written'
  <2>1. phase[s] = "AwaitingApproval" /\ phase' = [phase EXCEPT ![s] = "SendDesktopConfirmation"]
        /\ UNCHANGED <<step, partner, sealed, sent, received, wire>>
    BY <1>4 DEF Approve
  <2>2. phase'[s] = "SendDesktopConfirmation" /\ \A t \in Ids \ {s} : phase'[t] = phase[t]
    BY <2>1 DEF TypeOK
  <2>3. phase[s] \notin Confirmed /\ phase'[s] \notin Confirmed
    BY <2>1, <2>2 DEF Confirmed
  <2>4. QED
    BY <2>1, <2>2, <2>3, BeforeConfirmation
<1>5. ASSUME NEW s \in Ids, Confirm(s) PROVE Written'
  BY <1>5, ConfirmationWritten DEF Confirm, TypeOK
<1>6. ASSUME NEW s \in Ids, NEW r \in Records, Seal(s, r) PROVE Written'
  BY <1>6, SealWritten
<1>7. ASSUME NEW s \in Ids, NEW r \in Records, SealRefused(s, r) PROVE Written'
  <2>1. /\ sent' = [sent EXCEPT ![s] = MaxMessages]
        /\ \A t \in Ids \ {s} : phase'[t] = phase[t]
        /\ phase'[s] = "Closed"
        /\ UNCHANGED <<step, partner, sealed, received, wire>>
    BY <1>7 DEF SealRefused, Close
  <2>2. sent[s] \in 0 .. MaxMessages /\ MaxMessages \in Nat
    BY DEF TypeOK
  <2>3. \A t \in Ids : /\ sent'[t] >= sent[t]
                       /\ sent'[t] = sent[t] \/ phase'[t] = "Closed"
    <3>1. sent'[s] = MaxMessages /\ \A t \in Ids \ {s} : sent'[t] = sent[t]
      BY <2>1 DEF TypeOK
    <3>2. sent'[s] >= sent[s]
      BY <2>2, <3>1
    <3>3. QED
      BY <1>0, <2>1, <3>1, <3>2
  <2>4. \A t \in Ids : phase'[t] = phase[t] \/ phase'[t] = "Closed"
    <3>1. SUFFICES ASSUME NEW t \in Ids PROVE phase'[t] = phase[t] \/ phase'[t] = "Closed"
      OBVIOUS
    <3>2. CASE t = s
      BY <2>1, <3>2
    <3>3. CASE t # s
      BY <2>1, <3>3
    <3>4. QED
      BY <3>2, <3>3
  <2>5. \A t \in Ids : received'[t] = received[t] /\ step'[t] = step[t] /\ partner'[t] = partner[t]
    BY <2>1
  <2>6. wire' = wire /\ UNCHANGED sealed
    BY <2>1
  <2>7. QED
    BY <2>3, <2>4, <2>5, <2>6, NothingWritten
<1>8. ASSUME NEW s \in Ids, NEW f \in wire, Reply(s, f) PROVE Written'
  <2>1. /\ step[s] = 0 /\ step' = [step EXCEPT ![s] = 2]
        /\ partner' = [partner EXCEPT ![s] = f.from]
        /\ UNCHANGED <<phase, sealed, sent, received>>
        /\ wire' = wire \cup {[kind |-> "reply", from |-> s, to |-> f.from]}
    BY <1>8 DEF Reply, ReadsHandshake, Paired
  <2>2. \A t \in Ids : step[t] = 3 => step'[t] = 3 /\ partner'[t] = partner[t]
    BY <2>1 DEF TypeOK
  <2>3. \A g \in wire' : g \in wire \/ g.kind \in {"hello", "reply", "proof"}
    BY <2>1
  <2>4. QED
    BY <1>0, <2>1, <2>2, <2>3, NothingWritten
<1>9. ASSUME NEW s \in Ids, NEW f \in wire, Prove(s, f) PROVE Written'
  <2>1. /\ step[s] = 1 /\ step' = [step EXCEPT ![s] = 3] /\ phase[s] = "Handshake"
        /\ partner' = [partner EXCEPT ![s] = f.from]
        /\ phase' = [phase EXCEPT ![s] = "AwaitingDesktopConfirmation"]
        /\ UNCHANGED <<sealed, sent, received>>
        /\ wire' = wire \cup {[kind |-> "proof", from |-> s, to |-> f.from,
                                 psk |-> owner[s] \in holders]}
    BY <1>9, Owned DEF Prove, ReadsHandshake, Paired
  <2>2. \A t \in Ids : step[t] = 3 => step'[t] = 3 /\ partner'[t] = partner[t]
    BY <2>1 DEF TypeOK
  <2>3. \A g \in wire' : g \in wire \/ g.kind \in {"hello", "reply", "proof"}
    BY <2>1
  <2>4. /\ phase'[s] = "AwaitingDesktopConfirmation"
        /\ \A t \in Ids \ {s} : phase'[t] = phase[t]
    BY <2>1 DEF TypeOK
  <2>5. phase[s] \notin Confirmed /\ phase'[s] \notin Confirmed
    BY <2>1, <2>4 DEF Confirmed
  <2>6. QED
    BY <2>1, <2>2, <2>3, <2>4, <2>5, BeforeConfirmation
<1>10. ASSUME NEW s \in Ids, NEW f \in wire, Verify(s, f) PROVE Written'
  <2>1. /\ step' = [step EXCEPT ![s] = 3] /\ phase[s] = "Handshake"
        /\ phase'[s] \in {"AwaitingApproval", "SendDesktopConfirmation"}
        /\ \A t \in Ids \ {s} : phase'[t] = phase[t]
        /\ UNCHANGED <<partner, sealed, sent, received, wire>>
    BY <1>10 DEF Verify, ReadsHandshake, TypeOK
  <2>2. phase[s] \notin Confirmed /\ phase'[s] \notin Confirmed
    BY <2>1 DEF Confirmed
  <2>3. \A t \in Ids : step[t] = 3 => step'[t] = 3 /\ partner'[t] = partner[t]
    BY <2>1 DEF TypeOK
  <2>4. QED
    BY <2>1, <2>2, <2>3, BeforeConfirmation
<1>11. ASSUME NEW s \in Ids, NEW f \in wire, ConfirmBack(s, f) PROVE Written'
  <2>1. f.from = partner[s] /\ f.kind = "confirm"
    BY <1>11 DEF ConfirmBack, ReadsConfirmation, Decrypts
  <2>2. phase[partner[s]] \in Confirmed
    BY <2>1 DEF Framed
  <2>3. QED
    BY <1>11, <2>2, ConfirmationWritten DEF ConfirmBack, TypeOK
<1>12. ASSUME NEW s \in Ids, NEW f \in wire, Complete(s, f) PROVE Written'
  <2>1. /\ f.from = partner[s] /\ f.kind = "confirm"
        /\ phase[s] = "AwaitingPhoneConfirmation"
        /\ received' = [received EXCEPT ![s] = received[s] + 1]
        /\ phase' = [phase EXCEPT ![s] = "Ready"]
        /\ UNCHANGED <<step, partner, sent, sealed, wire>>
    BY <1>12 DEF Complete, ReadsConfirmation, Decrypts
  <2>2. phase[partner[s]] \in Confirmed
    BY <2>1 DEF Framed
  <2>3. received'[s] > 0 /\ \A t \in Ids \ {s} : received'[t] = received[t]
    BY <1>0, <2>1 DEF TypeOK
  <2>4. phase'[s] = "Ready" /\ \A t \in Ids \ {s} : phase'[t] = phase[t]
    BY <2>1 DEF TypeOK
  <2>5. Counted'
    BY <2>1, <2>2, <2>3, <2>4, PartnerKnown DEF Counted, Confirmed
  <2>6. Framed' /\ NonceOnce'
    BY <2>1, <2>4, WireFields DEF Framed, NonceOnce, RecordOf, Protected, Confirmed
  <2>7. QED
    BY <2>5, <2>6 DEF Written
<1>13. ASSUME NEW s \in Ids, NEW f \in wire, Open(s, f) PROVE Written'
  <2>1. /\ phase[s] = "Ready" /\ received' = [received EXCEPT ![s] = received[s] + 1]
        /\ UNCHANGED <<phase, step, partner, sent, sealed, wire>>
    BY <1>13 DEF Open, Opens
  <2>2. /\ received'[s] > 0 /\ \A t \in Ids \ {s} : received'[t] = received[t]
    BY <1>0, <2>1 DEF TypeOK
  <2>3. QED
    BY <1>0, <2>1, <2>2, NothingWritten
<1>14. ASSUME NEW s \in Ids, NEW f \in wire, Reject(s, f) PROVE Written'
  BY <1>0, <1>14, NothingWritten DEF Reject, Close
<1>15. CASE ShowCode
  BY <1>0, <1>15, NothingWritten DEF ShowCode
<1>16. CASE CodeExpires
  BY <1>0, <1>16, NothingWritten DEF CodeExpires
<1>17. CASE Restart
  BY <1>0, <1>17, NothingWritten DEF Restart, Close
<1>18. ASSUME NEW p \in Phones, Scan(p) PROVE Written'
  BY <1>0, <1>18, NothingWritten DEF Scan
<1>19. CASE UNCHANGED vars
  BY <1>0, <1>19, NothingWritten DEF vars
<1>20. QED
  BY <1>1, <1>2, <1>3, <1>4, <1>5, <1>6, <1>7, <1>8, <1>9, <1>10, <1>11, <1>12, <1>13,
     <1>14, <1>15, <1>16, <1>17, <1>18, <1>19 DEF Next, Deliver

-----------------------------------------------------------------------------
(* What the first three parts establish. *)

Sound == Pairs /\ Identified /\ Written

LEMMA InitSound == Init => Sound
<1>1. Init => Identified
  BY DEF Init, Identified, Live
<1>2. QED
  BY <1>1, InitType, InitPaired, InitWritten DEF Sound, Pairs

LEMMA NextSound == Sound /\ [Next]_vars => Sound'
  BY NextType, NextPaired, NextIdentified, NextWritten DEF Sound, Pairs

\* A session is ready only towards one that took part in the same handshake,
\* both name each other by their static keys, and the desktop is ready only
\* when the phone is or was.
THEOREM SessionsAgree == Spec => []Agreement
<1>1. Sound => Agreement
  <2> SUFFICES ASSUME Sound PROVE Agreement
    OBVIOUS
  <2> TypeOK /\ Paired /\ Identified /\ Counted
    BY DEF Sound, Pairs, Written
  <2> SUFFICES ASSUME NEW s \in Ids, phase[s] = "Ready"
               PROVE  /\ partner[s] \in Ids /\ partner[partner[s]] = s
                      /\ peer[s] = owner[partner[s]] /\ owner[partner[s]] # owner[s]
                      /\ phase[partner[s]] \in {"Ready", "Closed"}
                           \cup (IF owner[s] = PC THEN {} ELSE {"AwaitingPhoneConfirmation"})
    BY DEF Agreement
  <2>1. /\ partner[s] \in Ids /\ partner[partner[s]] = s /\ step[s] = 3
        /\ peer[s] = owner[partner[s]]
    BY PartnerKnown DEF Identified
  <2>2. phase[partner[s]] \in Confirmed
    BY DEF Counted
  <2>3. CASE owner[s] = PC
    <3>1. owner[partner[s]] \in Phones
      BY <2>1, <2>3 DEF Paired
    <3>2. phase[partner[s]] # "AwaitingPhoneConfirmation"
      BY <2>1, <3>1 DEF Paired
    <3>3. QED
      BY <2>1, <2>2, <2>3, <3>1, <3>2 DEF Confirmed
  <2>4. CASE owner[s] \in Phones
    <3>1. owner[partner[s]] = PC
      BY <2>1, <2>4 DEF Paired
    <3>2. QED
      BY <2>1, <2>2, <2>4, <3>1 DEF Confirmed
  <2>5. QED
    BY <2>3, <2>4, Owned
<1>2. QED
  BY <1>1, InitSound, NextSound, PTL DEF Spec

\* A desktop session past approval always talks to the phone the database
\* names, whatever codes are shown and whichever phones hold the key.
THEOREM SessionsTalkToPinned == Spec => []TalksToPinned
<1>1. Sound => TalksToPinned
  <2> SUFFICES ASSUME Sound, NEW s \in Ids, owner[s] = PC,
                      phase[s] \in {"SendDesktopConfirmation", "AwaitingPhoneConfirmation", "Ready"}
               PROVE  peer[s] # None /\ pinned = peer[s]
    BY DEF TalksToPinned
  <2> TypeOK /\ Paired /\ Identified
    BY DEF Sound, Pairs
  <2>1. step[s] = 3 /\ peer[s] = owner[partner[s]] /\ expected[s] = peer[s] /\ Live(s)
    BY PartnerKnown DEF Identified, Live
  <2>2. owner[partner[s]] \in Phones
    BY <2>1 DEF Paired
  <2>3. QED
    BY <2>1, <2>2 DEF Identified
<1>2. QED
  BY <1>1, InitSound, NextSound, PTL DEF Spec

\* No nonce of a transport key is ever used for two frames.
THEOREM NoncesUsedOnce == Spec => []NonceOnce
<1>1. Sound => NonceOnce
  BY DEF Sound, Written
<1>2. QED
  BY <1>1, InitSound, NextSound, PTL DEF Spec

\* The desktop confirms a phone only while the database already holds it.
THEOREM ConfirmationsSaved == Spec => ConfirmsOnlySaved
<1>1. Sound /\ [Next]_vars =>
        \A f \in wire' \ wire : f.kind = "confirm" /\ owner[f.from] = PC => pinned = owner[f.to]
  <2> SUFFICES ASSUME Sound, [Next]_vars, NEW f \in wire' \ wire,
                      f.kind = "confirm", owner[f.from] = PC
               PROVE  pinned = owner[f.to]
    OBVIOUS
  <2> TypeOK /\ Paired /\ Identified
    BY DEF Sound, Pairs
  <2>1. ASSUME NEW s \in Ids, Confirm(s) PROVE pinned = owner[f.to]
    <3>1. f = Confirmation(s) /\ phase[s] = "SendDesktopConfirmation"
      BY <2>1 DEF Confirm
    <3>2. f.from = s /\ f.to = partner[s]
      BY <3>1 DEF Confirmation
    <3>3. /\ step[s] = 3 /\ peer[s] = owner[partner[s]] /\ expected[s] = peer[s]
          /\ Live(s) /\ owner[s] = PC
      BY <3>1, <3>2, PartnerKnown DEF Identified, Live
    <3>4. owner[partner[s]] \in Phones
      BY <3>3 DEF Paired
    <3>5. QED
      BY <3>2, <3>3, <3>4 DEF Identified
  <2>2. ASSUME NEW s \in Ids, NEW g \in wire, ConfirmBack(s, g) PROVE FALSE
    <3>1. f = Confirmation(s) /\ phase[s] = "AwaitingDesktopConfirmation"
      BY <2>2 DEF ConfirmBack
    <3>2. f.from = s
      BY <3>1 DEF Confirmation
    <3>3. QED
      BY <3>1, <3>2 DEF Paired
  <2>3. ASSUME NEW s \in Ids, NEW p \in Phones, StartPhone(p, s) PROVE FALSE
    BY <2>3 DEF StartPhone
  <2>4. ASSUME NEW s \in Ids, NEW r \in Records, Seal(s, r) PROVE FALSE
    BY <2>4 DEF Seal, Sealed
  <2>5. ASSUME NEW s \in Ids, NEW g \in wire, Reply(s, g) \/ Prove(s, g) PROVE FALSE
    BY <2>5 DEF Reply, Prove
  <2>6. wire' # wire
    OBVIOUS
  <2>7. QED
    <3>1. ~(UNCHANGED vars \/ ShowCode \/ CodeExpires \/ Restart)
      BY <2>6 DEF vars, ShowCode, CodeExpires, Restart
    <3>2. ~(\E p \in Phones : Scan(p))
      BY <2>6 DEF Scan
    <3>3. ASSUME NEW s \in Ids, StartDesktop(s) \/ End(s) \/ Approve(s) PROVE FALSE
      BY <2>6, <3>3 DEF StartDesktop, End, Approve
    <3>4. ASSUME NEW s \in Ids, NEW r \in Records, SealRefused(s, r) PROVE FALSE
      BY <2>6, <3>4 DEF SealRefused
    <3>5. ASSUME NEW s \in Ids, NEW g \in wire,
                 Verify(s, g) \/ Complete(s, g) \/ Open(s, g) \/ Reject(s, g)
          PROVE  FALSE
      BY <2>6, <3>5 DEF Verify, Complete, Open, Reject
    <3>6. QED
      BY <2>1, <2>2, <2>3, <2>4, <2>5, <3>1, <3>2, <3>3, <3>4, <3>5 DEF Next, Deliver
<1>2. QED
  BY <1>1, InitSound, NextSound, PTL DEF Spec, ConfirmsOnlySaved

-----------------------------------------------------------------------------
(* The fourth part: what the assembler holds is the beginning of the record *)
(* that comes next.                                                         *)

Coming(s) == sealed[partner[s]][Len(opened[s]) + 1]

Assembled ==
    \A s \in Ids : partial[s] # <<>> =>
        /\ step[s] = 3
        /\ Len(opened[s]) < Len(sealed[partner[s]])
        /\ \A i \in DOMAIN partial[s] : partial[s][i] = Coming(s)[i]

\* Nothing is assembled; an assembler may be emptied and records be sealed.
LEMMA AssemblerKept ==
  ASSUME Pairs, Assembled, UNCHANGED opened,
         \A s \in Ids : partial'[s] = partial[s] \/ partial'[s] = <<>>,
         \A s \in Ids : step[s] = 3 => step'[s] = 3 /\ partner'[s] = partner[s],
         \A s \in Ids : \/ sealed'[s] = sealed[s]
                        \/ \E r \in Records : sealed'[s] = Append(sealed[s], r)
  PROVE  Assembled'
<1> TypeOK /\ Paired
  BY DEF Pairs
<1> SUFFICES ASSUME NEW s \in Ids, partial'[s] # <<>>
             PROVE  /\ step'[s] = 3
                    /\ Len(opened'[s]) < Len(sealed'[partner'[s]])
                    /\ \A i \in DOMAIN partial'[s] : partial'[s][i] = Coming(s)'[i]
  BY DEF Assembled
<1>1. /\ partial'[s] = partial[s] /\ step[s] = 3 /\ step'[s] = 3 /\ partner'[s] = partner[s]
      /\ Len(opened[s]) < Len(sealed[partner[s]])
      /\ \A i \in DOMAIN partial[s] : partial[s][i] = Coming(s)[i]
  BY DEF Assembled
<1>2. partner[s] \in Ids
  BY <1>1 DEF Paired
<1> DEFINE q == sealed[partner[s]]  n == Len(opened[s])
<1>3. q \in Seq(Records) /\ n \in Nat /\ n < Len(q)
  BY <1>1, <1>2 DEF TypeOK
<1>4. Len(q) <= Len(q') /\ q'[n + 1] = q[n + 1]
  <2>1. CASE q' = q
    BY <1>3, <2>1
  <2>2. CASE \E r \in Records : q' = Append(q, r)
    BY <1>3, <2>2
  <2>3. sealed'[partner[s]] = q'
    BY <1>1
  <2>4. \/ sealed'[partner[s]] = q
        \/ \E r \in Records : sealed'[partner[s]] = Append(q, r)
    BY <1>2
  <2>5. QED
    BY <2>1, <2>2, <2>3, <2>4
<1>5. Len(q') \in Nat
  BY <1>1, <1>2, <1>3
<1>6. QED
  BY <1>1, <1>3, <1>4 DEF Coming

\* A frame that opens is the next chunk of the record that comes next.
LEMMA NextChunk ==
  ASSUME Pairs, Written, Assembled, NEW s \in Ids, NEW f \in wire, Opens(s, f)
  PROVE  /\ step[s] = 3 /\ partner[s] \in Ids
         /\ Len(opened[s]) < Len(sealed[partner[s]]) /\ Coming(s) \in Records
         /\ f.total = Len(Coming(s)) /\ Len(partial[s]) < f.total
         /\ Len(Append(partial[s], f.chunk)) = Len(partial[s]) + 1
         /\ \A i \in 1 .. Len(partial[s]) + 1 :
               Append(partial[s], f.chunk)[i] = Coming(s)[i]
<1> TypeOK /\ Paired /\ Framed
  BY DEF Pairs, Written
<1>1. /\ phase[s] = "Ready" /\ f.kind = "data" /\ f.from = partner[s]
      /\ f.record = Len(opened[s]) /\ f.offset = Len(partial[s])
  BY DEF Opens, Decrypts, Continues
<1>2. step[s] = 3 /\ partner[s] \in Ids
  BY <1>1, PartnerKnown
<1>3. /\ Len(opened[s]) < Len(sealed[partner[s]])
      /\ f.total = Len(Coming(s)) /\ Len(partial[s]) < f.total
      /\ f.chunk = Coming(s)[Len(partial[s]) + 1]
  BY <1>1 DEF Framed, RecordOf, Coming
<1>4. /\ sealed[partner[s]] \in Seq(Records) /\ Len(opened[s]) \in Nat
      /\ partial[s] \in Seq(Chunks) /\ f.chunk \in Chunks
  <2>1. sealed[partner[s]] \in Seq(Records) /\ opened[s] \in Seq(Seq(Chunks))
    BY <1>2 DEF TypeOK
  <2>2. partial[s] \in Seq(Chunks)
    BY DEF TypeOK
  <2>3. f.chunk \in Chunks
    BY <1>1, WireFields, FrameFields
  <2>4. QED
    BY <2>1, <2>2, <2>3
<1>5. Coming(s) \in Records
  BY <1>3, <1>4 DEF Coming
<1>6. \A i \in 1 .. Len(partial[s]) : partial[s][i] = Coming(s)[i]
  BY <1>4 DEF Assembled
<1>7. Len(Append(partial[s], f.chunk)) = Len(partial[s]) + 1
  BY <1>4
<1>8. ASSUME NEW i \in 1 .. Len(partial[s]) + 1
      PROVE  Append(partial[s], f.chunk)[i] = Coming(s)[i]
  <2>1. CASE i = Len(partial[s]) + 1
    BY <1>3, <1>4, <2>1
  <2>2. CASE i # Len(partial[s]) + 1
    BY <1>4, <1>6, <2>2
  <2>3. QED
    BY <2>1, <2>2
<1>9. QED
  BY <1>2, <1>3, <1>5, <1>7, <1>8

LEMMA InitAssembled == Init => Assembled
  BY DEF Init, Assembled

LEMMA NextAssembled ==
  Pairs /\ Written /\ Assembled /\ TypeOK' /\ [Next]_vars => Assembled'
<1> SUFFICES ASSUME Pairs, Written, Assembled, TypeOK', [Next]_vars PROVE Assembled'
  OBVIOUS
<1> TypeOK /\ Paired
  BY DEF Pairs
<1>1. ASSUME NEW s \in Ids, NEW p \in Phones, StartPhone(p, s) PROVE Assembled'
  <2>1. step[s] = 0 /\ step' = [step EXCEPT ![s] = 1] /\ UNCHANGED <<partner, sealed, opened>>
    BY <1>1 DEF StartPhone, Paired
  <2>2. \A t \in Ids : partial'[t] = partial[t] \/ partial'[t] = <<>>
    BY <1>1 DEF StartPhone
  <2>3. \A t \in Ids : step[t] = 3 => step'[t] = 3 /\ partner'[t] = partner[t]
    BY <2>1 DEF TypeOK
  <2>4. QED
    BY <2>1, <2>2, <2>3, AssemblerKept
<1>2. ASSUME NEW s \in Ids, StartDesktop(s) PROVE Assembled'
  BY <1>2, AssemblerKept DEF StartDesktop
<1>3. ASSUME NEW s \in Ids, End(s) PROVE Assembled'
  BY <1>3, AssemblerKept DEF End, Close
<1>4. ASSUME NEW s \in Ids, Approve(s) \/ Confirm(s) PROVE Assembled'
  BY <1>4, AssemblerKept DEF Approve, Confirm
<1>5. ASSUME NEW s \in Ids, NEW r \in Records, Seal(s, r) PROVE Assembled'
  <2>1. /\ sealed' = [sealed EXCEPT ![s] = Append(sealed[s], r)]
        /\ UNCHANGED <<step, partner, partial, opened>>
    BY <1>5 DEF Seal
  <2>2. ASSUME NEW t \in Ids
        PROVE  sealed'[t] = sealed[t] \/ \E q \in Records : sealed'[t] = Append(sealed[t], q)
    BY <2>1 DEF TypeOK
  <2>3. QED
    BY <2>1, <2>2, AssemblerKept
<1>6. ASSUME NEW s \in Ids, NEW r \in Records, SealRefused(s, r) PROVE Assembled'
  BY <1>6, AssemblerKept DEF SealRefused, Close
<1>7. ASSUME NEW s \in Ids, NEW f \in wire, Reply(s, f) PROVE Assembled'
  <2>1. step[s] = 0 /\ step' = [step EXCEPT ![s] = 2]
        /\ partner' = [partner EXCEPT ![s] = f.from] /\ UNCHANGED <<partial, sealed, opened>>
    BY <1>7 DEF Reply, ReadsHandshake
  <2>2. \A t \in Ids : step[t] = 3 => step'[t] = 3 /\ partner'[t] = partner[t]
    BY <2>1 DEF TypeOK
  <2>3. QED
    BY <2>1, <2>2, AssemblerKept
<1>8. ASSUME NEW s \in Ids, NEW f \in wire, Prove(s, f) PROVE Assembled'
  <2>1. step[s] = 1 /\ step' = [step EXCEPT ![s] = 3]
        /\ partner' = [partner EXCEPT ![s] = f.from] /\ UNCHANGED <<partial, sealed, opened>>
    BY <1>8 DEF Prove, ReadsHandshake
  <2>2. \A t \in Ids : step[t] = 3 => step'[t] = 3 /\ partner'[t] = partner[t]
    BY <2>1 DEF TypeOK
  <2>3. QED
    BY <2>1, <2>2, AssemblerKept
<1>9. ASSUME NEW s \in Ids, NEW f \in wire, Verify(s, f) PROVE Assembled'
  <2>1. step' = [step EXCEPT ![s] = 3] /\ UNCHANGED <<partner, partial, sealed, opened>>
    BY <1>9 DEF Verify
  <2>2. \A t \in Ids : step[t] = 3 => step'[t] = 3 /\ partner'[t] = partner[t]
    BY <2>1 DEF TypeOK
  <2>3. QED
    BY <2>1, <2>2, AssemblerKept
<1>10. ASSUME NEW s \in Ids, NEW f \in wire, ConfirmBack(s, f) \/ Complete(s, f) PROVE Assembled'
  BY <1>10, AssemblerKept DEF ConfirmBack, Complete
<1>11. ASSUME NEW s \in Ids, NEW f \in wire, Open(s, f) PROVE Assembled'
  <2> DEFINE chunks == Append(partial[s], f.chunk)
  <2>1. /\ step[s] = 3 /\ partner[s] \in Ids
        /\ Len(opened[s]) < Len(sealed[partner[s]])
        /\ chunks \in Seq(Chunks) /\ Len(chunks) = Len(partial[s]) + 1
        /\ \A i \in 1 .. Len(partial[s]) + 1 : chunks[i] = Coming(s)[i]
    <3>1. partial[s] \in Seq(Chunks) /\ f.chunk \in Chunks
      BY <1>11, WireFields, FrameFields DEF Open, Opens, Continues, TypeOK
    <3>2. QED
      BY <1>11, <3>1, NextChunk DEF Open
  <2>2. UNCHANGED <<step, partner, sealed>>
    BY <1>11 DEF Open
  <2> DEFINE whole == Len(chunks) = f.total
  <2>3. /\ whole => /\ opened' = [opened EXCEPT ![s] = Append(@, chunks)]
                    /\ partial' = [partial EXCEPT ![s] = <<>>]
        /\ ~whole => partial' = [partial EXCEPT ![s] = chunks] /\ opened' = opened
    BY <1>11 DEF Open
  <2>4. \A t \in Ids \ {s} : partial'[t] = partial[t] /\ opened'[t] = opened[t]
    BY <2>3 DEF TypeOK
  <2>5. \/ partial'[s] = <<>>
        \/ partial'[s] = chunks /\ opened'[s] = opened[s]
    BY <2>3 DEF TypeOK
  <2>6. ASSUME NEW t \in Ids, partial'[t] # <<>>
        PROVE  /\ step'[t] = 3
               /\ Len(opened'[t]) < Len(sealed'[partner'[t]])
               /\ \A i \in DOMAIN partial'[t] : partial'[t][i] = Coming(t)'[i]
    <3>1. CASE t = s
      <4>1. partial'[s] = chunks /\ opened'[s] = opened[s]
        BY <2>5, <2>6, <3>1
      <4>2. Coming(s)' = Coming(s)
        BY <2>2, <4>1 DEF Coming
      <4>3. DOMAIN chunks = 1 .. Len(partial[s]) + 1
        BY <2>1
      <4>4. QED
        BY <2>1, <2>2, <3>1, <4>1, <4>2, <4>3
    <3>2. CASE t # s
      BY <2>2, <2>4, <2>6, <3>2 DEF Assembled, Coming
    <3>3. QED
      BY <3>1, <3>2
  <2>7. QED
    BY <2>6 DEF Assembled
<1>12. ASSUME NEW s \in Ids, NEW f \in wire, Reject(s, f) PROVE Assembled'
  BY <1>12, AssemblerKept DEF Reject, Close
<1>13. CASE ShowCode \/ CodeExpires
  BY <1>13, AssemblerKept DEF ShowCode, CodeExpires
<1>14. CASE Restart
  BY <1>14, AssemblerKept DEF Restart, Close
<1>15. ASSUME NEW p \in Phones, Scan(p) PROVE Assembled'
  BY <1>15, AssemblerKept DEF Scan
<1>16. CASE UNCHANGED vars
  BY <1>16, AssemblerKept DEF vars
<1>17. QED
  BY <1>1, <1>2, <1>3, <1>4, <1>5, <1>6, <1>7, <1>8, <1>9, <1>10, <1>11, <1>12, <1>13,
     <1>14, <1>15, <1>16 DEF Next, Deliver

-----------------------------------------------------------------------------
(* The sessions implement SecureLink. *)

\* An end that binds is not bound, nor is anybody bound to its partner but itself.
LEMMA Binds ==
  ASSUME Pairs, NEW s \in Ids, NEW t \in Ids,
         step[s] # 3, step[t] \in {2, 3}, partner[t] = s, owner[t] # owner[s],
         Bound' = [Bound EXCEPT ![s] = t], UNCHANGED history
  PROVE  Link!Next
<1> TypeOK /\ Paired
  BY DEF Pairs
<1>1. s # t /\ Bound[s] = None /\ Bound[t] \in {None, s}
  BY DEF Bound
<1>2. ASSUME NEW u \in Ids, Bound[u] = t PROVE FALSE
  <2>1. step[u] = 3 /\ partner[u] = t
    BY <1>2 DEF Bound
  <2>2. partner[t] = u
    BY <2>1 DEF Paired
  <2>3. QED
    BY <2>1, <2>2
<1>3. Link!Bind(s, t)
  BY <1>1, <1>2 DEF Link!Bind
<1>4. QED
  BY <1>1, <1>3 DEF Link!Next

\* What changes none of the three is a stutter of the link.
LEMMA Unbound ==
  ASSUME TypeOK, UNCHANGED history,
         \A s \in Ids : \/ step'[s] = step[s] /\ partner'[s] = partner[s]
                        \/ step[s] # 3 /\ step'[s] # 3
  PROVE  UNCHANGED Link!vars
<1>1. Bound' = Bound
  BY DEF Bound
<1>2. QED
  BY <1>1 DEF Link!vars

LEMMA NextLink ==
  Pairs /\ Written /\ Assembled /\ [Next]_vars => [Link!Next]_(Link!vars)
<1> SUFFICES ASSUME Pairs, Written, Assembled, [Next]_vars
             PROVE  Link!Next \/ UNCHANGED Link!vars
  OBVIOUS
<1> TypeOK /\ Paired /\ Shaken
  BY DEF Pairs
<1>1. ASSUME NEW s \in Ids, NEW p \in Phones, StartPhone(p, s) PROVE UNCHANGED Link!vars
  <2>1. step[s] = 0 /\ step' = [step EXCEPT ![s] = 1] /\ UNCHANGED <<partner, history>>
    BY <1>1 DEF StartPhone, Paired
  <2>2. \A t \in Ids : \/ step'[t] = step[t] /\ partner'[t] = partner[t]
                       \/ step[t] # 3 /\ step'[t] # 3
    BY <2>1 DEF TypeOK
  <2>3. QED
    BY <2>1, <2>2, Unbound
<1>2. ASSUME NEW s \in Ids, StartDesktop(s) \/ End(s) \/ Approve(s) \/ Confirm(s)
      PROVE  UNCHANGED Link!vars
  BY <1>2, Unbound DEF StartDesktop, End, Approve, Confirm
<1>3. ASSUME NEW s \in Ids, NEW r \in Records, Seal(s, r) PROVE Link!Next
  <2>1. /\ phase[s] = "Ready" /\ sealed' = [sealed EXCEPT ![s] = Append(@, r)]
        /\ UNCHANGED <<step, partner, opened>>
    BY <1>3 DEF Seal
  <2>2. step[s] = 3 /\ partner[s] \in Ids
    BY <2>1, PartnerKnown
  <2>3. Bound[s] # None /\ UNCHANGED Bound
    BY <2>1, <2>2 DEF Bound
  <2>4. Link!Seal(s, r)
    BY <2>1, <2>3 DEF Link!Seal
  <2>5. QED
    BY <2>4 DEF Link!Next
<1>4. ASSUME NEW s \in Ids, NEW r \in Records, SealRefused(s, r) PROVE UNCHANGED Link!vars
  BY <1>4, Unbound DEF SealRefused
<1>5. ASSUME NEW s \in Ids, NEW f \in wire, Reply(s, f) PROVE UNCHANGED Link!vars
  <2>1. step[s] = 0 /\ step' = [step EXCEPT ![s] = 2]
        /\ partner' = [partner EXCEPT ![s] = f.from] /\ UNCHANGED history
    BY <1>5 DEF Reply, ReadsHandshake
  <2>2. \A t \in Ids : \/ step'[t] = step[t] /\ partner'[t] = partner[t]
                       \/ step[t] # 3 /\ step'[t] # 3
    BY <2>1 DEF TypeOK
  <2>3. QED
    BY <2>1, <2>2, Unbound
<1>6. ASSUME NEW s \in Ids, NEW f \in wire, Prove(s, f) PROVE Link!Next
  <2>1. /\ step[s] = 1 /\ step' = [step EXCEPT ![s] = 3] /\ owner[s] # PC
        /\ partner' = [partner EXCEPT ![s] = f.from] /\ UNCHANGED history
        /\ f.kind = "reply" /\ f.to = s
    BY <1>6 DEF Prove, ReadsHandshake
  <2>2. /\ f.from \in Ids /\ owner[f.from] = PC /\ step[f.from] \in {2, 3}
        /\ partner[f.from] = s
    BY <2>1, WireFields DEF Shaken
  <2>3. Bound' = [Bound EXCEPT ![s] = f.from]
    BY <2>1 DEF Bound, TypeOK
  <2>4. step[s] # 3 /\ owner[f.from] # owner[s] /\ UNCHANGED history
    BY <2>1, <2>2
  <2>5. QED
    BY <2>2, <2>3, <2>4, Binds
<1>7. ASSUME NEW s \in Ids, NEW f \in wire, Verify(s, f) PROVE Link!Next
  <2>1. /\ step[s] = 2 /\ step' = [step EXCEPT ![s] = 3] /\ owner[s] = PC
        /\ partner[s] = f.from /\ UNCHANGED <<partner, history>>
        /\ f.kind = "proof" /\ f.to = s
    BY <1>7 DEF Verify, ReadsHandshake
  <2>2. /\ f.from \in Ids /\ owner[f.from] \in Phones /\ step[f.from] = 3
        /\ partner[f.from] = s
    BY <2>1, WireFields DEF Shaken
  <2>3. Bound' = [Bound EXCEPT ![s] = f.from]
    BY <2>1 DEF Bound, TypeOK
  <2>4. step[s] # 3 /\ owner[f.from] # owner[s] /\ UNCHANGED history
    BY <2>1, <2>2
  <2>5. QED
    BY <2>2, <2>3, <2>4, Binds
<1>8. ASSUME NEW s \in Ids, NEW f \in wire, ConfirmBack(s, f) \/ Complete(s, f)
      PROVE  UNCHANGED Link!vars
  BY <1>8, Unbound DEF ConfirmBack, Complete
<1>9. ASSUME NEW s \in Ids, NEW f \in wire, Open(s, f) PROVE Link!Next \/ UNCHANGED Link!vars
  <2> DEFINE chunks == Append(partial[s], f.chunk)
  <2>1. UNCHANGED <<step, partner, sealed>> /\ UNCHANGED Bound
    BY <1>9 DEF Open, Bound
  <2>2. CASE Len(chunks) # f.total
    <3>1. UNCHANGED opened
      BY <1>9, <2>2 DEF Open
    <3>2. QED
      BY <2>1, <3>1, Unbound
  <2>3. CASE Len(chunks) = f.total
    <3>1. /\ step[s] = 3 /\ partner[s] \in Ids
          /\ Len(opened[s]) < Len(sealed[partner[s]]) /\ Coming(s) \in Records
          /\ f.total = Len(Coming(s)) /\ Len(chunks) = Len(partial[s]) + 1
          /\ \A i \in 1 .. Len(partial[s]) + 1 : chunks[i] = Coming(s)[i]
      BY <1>9, NextChunk DEF Open
    <3>2. chunks \in Seq(Chunks) /\ Coming(s) \in Seq(Chunks)
      <4>1. partial[s] \in Seq(Chunks) /\ f.chunk \in Chunks
        BY <1>9, WireFields, FrameFields DEF Open, Opens, Continues, TypeOK
      <4>2. QED
        BY <3>1, <4>1
    <3>3. chunks = Coming(s)
      BY <2>3, <3>1, <3>2, SeqEqual
    <3>4. opened' = [opened EXCEPT ![s] = Append(@, chunks)]
      BY <1>9, <2>3 DEF Open
    <3>5. Bound[s] = partner[s] /\ Bound[s] # None
      BY <3>1 DEF Bound
    <3>6. opened' = [opened EXCEPT ![s] = Append(@, sealed[Bound[s]][Len(@) + 1])]
      BY <3>3, <3>4, <3>5 DEF Coming
    <3>7. Link!Open(s)
      BY <2>1, <3>1, <3>5, <3>6 DEF Link!Open
    <3>8. QED
      BY <3>7 DEF Link!Next
  <2>4. QED
    BY <2>2, <2>3
<1>10. ASSUME NEW s \in Ids, NEW f \in wire, Reject(s, f) PROVE UNCHANGED Link!vars
  BY <1>10, Unbound DEF Reject
<1>11. CASE ShowCode \/ CodeExpires \/ Restart
  BY <1>11, Unbound DEF ShowCode, CodeExpires, Restart
<1>12. ASSUME NEW p \in Phones, Scan(p) PROVE UNCHANGED Link!vars
  BY <1>12, Unbound DEF Scan
<1>13. CASE UNCHANGED vars
  BY <1>13, Unbound DEF vars
<1>14. QED
  BY <1>1, <1>2, <1>3, <1>4, <1>5, <1>6, <1>7, <1>8, <1>9, <1>10, <1>11, <1>12, <1>13
     DEF Next, Deliver

\* Whatever the relay does with the frames, an end takes from the one end it is
\* bound to the records that one sealed: each whole, once and in order.
THEOREM Refinement == Spec => ImplementsLink
<1>1. Init => Link!Init
  BY DEF Init, Link!Init, Bound
<1>2. Init => Assembled
  BY InitAssembled
<1>3. Sound /\ Assembled /\ [Next]_vars => Assembled' /\ [Link!Next]_(Link!vars)
  BY NextSound, NextAssembled, NextLink DEF Sound, Pairs
<1>4. QED
  BY <1>1, <1>2, <1>3, InitSound, NextSound, PTL DEF Spec, ImplementsLink, Link!Spec
=============================================================================
