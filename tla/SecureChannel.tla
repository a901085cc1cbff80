--------------------------- MODULE SecureChannel ---------------------------
(***************************************************************************)
(* The authenticated sessions of one relay pair: shared/secure-channel,    *)
(* driven on the desktop by run_session (relay_client.rs) and on the phone *)
(* by PhoneSecureSession, over a relay that neither of them trusts.        *)
(*                                                                         *)
(* A session is made for one connection and never reused; its identifier   *)
(* stands for its ephemeral key.  The wire holds every frame a session has *)
(* written.  The relay may hand any of them to any session, at any time    *)
(* and any number of times: loss, delay, repetition, reordering, a frame   *)
(* of an earlier connection and a frame sent back to where it came from.   *)
(* A frame verifies exactly where the Noise transcript says it does.       *)
(*                                                                         *)
(* What is abstracted: keys and ciphertexts (a frame names the sessions    *)
(* whose transcript protects it and its nonce), the two budgets (one,      *)
(* counted in frames), time (a session may be found expired at any moment) *)
(* and the size of a chunk.                                                *)
(***************************************************************************)
EXTENDS Naturals, Sequences

CONSTANTS
    Ids,          \* the sessions either side may create
    Phones,       \* phone identities: the static keys of the phones
    PC,           \* the identity of this desktop
    None,
    Records,      \* application records, each a sequence of chunks
    Chunks,
    MaxMessages   \* frames one session may write, or read

ASSUME ConstantsAssumption ==
    /\ None \notin Ids \cup Phones \cup {PC}
    /\ PC \notin Phones
    /\ Records \subseteq Seq(Chunks) \ {<<>>}
    /\ MaxMessages \in Nat \ {0}

VARIABLES
    \* of each session
    owner,        \* whose session it is; None until it is created
    phase,
    step,         \* handshake messages written and read so far
    partner,      \* the session whose ephemeral key it has mixed in
    peer,         \* the static key it has learned
    expected,     \* the static key it requires; None when enrolling
    sent,         \* the nonce of the next frame it writes
    received,     \* the nonce of the next frame it reads
    partial,      \* the assembler: the chunks of the record being read
    total,        \* and the number of chunks announced for it
    sealed,       \* the records it has sealed (outgoing_record is the length)
    opened,       \* the records it has delivered (the assembler's record)
    \* of the carrier
    wire,
    \* of the desktop and of the phones
    pinned,       \* the phone identity saved for this pair
    armed,        \* the next session may enroll a phone
    code,         \* a pairing code is live
    holders       \* the phones that hold the pair's pre-shared key

keys == <<owner, expected>>
counters == <<sent, received>>
assembler == <<partial, total>>
history == <<sealed, opened>>
enrollment == <<pinned, armed, code, holders>>
vars == <<keys, phase, step, partner, peer, counters, assembler, history, wire, enrollment>>

Devices == Phones \cup {PC}
Phases == {"New", "Handshake", "AwaitingApproval", "SendDesktopConfirmation",
           "AwaitingDesktopConfirmation", "AwaitingPhoneConfirmation",
           "Ready", "Closed"}

\* Message 1 is protected by nothing; messages 2 and 3 by the transcript of
\* the two sessions they name; message 3 also by the pre-shared key.
Frames ==
         [kind : {"hello"}, from : Ids]
    \cup [kind : {"reply"}, from : Ids, to : Ids]
    \cup [kind : {"proof"}, from : Ids, to : Ids, psk : BOOLEAN]
    \cup [kind : {"confirm"}, from : Ids, to : Ids, n : Nat]
    \cup [kind : {"data"}, from : Ids, to : Ids, n : Nat,
          record : Nat, total : Nat, offset : Nat, chunk : Chunks]

TypeOK ==
    /\ owner \in [Ids -> Devices \cup {None}]
    /\ phase \in [Ids -> Phases]
    /\ step \in [Ids -> 0 .. 3]
    /\ partner \in [Ids -> Ids \cup {None}]
    /\ peer \in [Ids -> Devices \cup {None}]
    /\ expected \in [Ids -> Devices \cup {None}]
    /\ sent \in [Ids -> 0 .. MaxMessages]
    /\ received \in [Ids -> 0 .. MaxMessages]
    /\ partial \in [Ids -> Seq(Chunks)]
    /\ total \in [Ids -> Nat]
    /\ sealed \in [Ids -> Seq(Records)]
    /\ opened \in [Ids -> Seq(Seq(Chunks))]
    /\ wire \subseteq Frames
    /\ pinned \in Devices \cup {None}
    /\ armed \in BOOLEAN
    /\ code \in BOOLEAN
    /\ holders \subseteq Phones

Init ==
    /\ owner = [s \in Ids |-> None]
    /\ phase = [s \in Ids |-> "New"]
    /\ step = [s \in Ids |-> 0]
    /\ partner = [s \in Ids |-> None]
    /\ peer = [s \in Ids |-> None]
    /\ expected = [s \in Ids |-> None]
    /\ sent = [s \in Ids |-> 0]
    /\ received = [s \in Ids |-> 0]
    /\ partial = [s \in Ids |-> <<>>]
    /\ total = [s \in Ids |-> 0]
    /\ sealed = [s \in Ids |-> <<>>]
    /\ opened = [s \in Ids |-> <<>>]
    /\ wire = {}
    /\ pinned = None
    /\ armed = FALSE
    /\ code = FALSE
    /\ holders = {}

-----------------------------------------------------------------------------
(* Opening and closing. *)

Live(s) == phase[s] \notin {"New", "Closed"}

\* The sessions in S are closed: keys and partial plaintext are wiped, and
\* nothing brings them back.  What they had agreed on stays as history.
Close(S) ==
    /\ phase' = [s \in Ids |-> IF s \in S THEN "Closed" ELSE phase[s]]
    /\ peer' = [s \in Ids |-> IF s \in S THEN None ELSE peer[s]]
    /\ partial' = [s \in Ids |-> IF s \in S THEN <<>> ELSE partial[s]]
    /\ total' = [s \in Ids |-> IF s \in S THEN 0 ELSE total[s]]

\* A phone that hears the desktop is present drops the session it had and
\* starts a new one, with message 1.
StartPhone(p, s) ==
    /\ owner[s] = None
    /\ owner' = [owner EXCEPT ![s] = p]
    /\ expected' = [expected EXCEPT ![s] = PC]
    /\ phase' = [t \in Ids |-> IF t = s THEN "Handshake"
                              ELSE IF owner[t] = p THEN "Closed" ELSE phase[t]]
    /\ peer' = [t \in Ids |-> IF owner[t] = p THEN None ELSE peer[t]]
    /\ partial' = [t \in Ids |-> IF owner[t] = p THEN <<>> ELSE partial[t]]
    /\ total' = [t \in Ids |-> IF owner[t] = p THEN 0 ELSE total[t]]
    /\ step' = [step EXCEPT ![s] = 1]
    /\ wire' = wire \cup {[kind |-> "hello", from |-> s]}
    /\ UNCHANGED <<partner, counters, history, enrollment>>

\* The desktop runs one session at a time.  It enrolls when no phone is pinned
\* or enrollment is armed, and otherwise requires the phone it has pinned.
StartDesktop(s) ==
    /\ owner[s] = None
    /\ \A t \in Ids : owner[t] = PC => phase[t] = "Closed"
    /\ owner' = [owner EXCEPT ![s] = PC]
    /\ expected' = [expected EXCEPT ![s] = IF armed THEN None ELSE pinned]
    /\ phase' = [phase EXCEPT ![s] = "Handshake"]
    /\ UNCHANGED <<step, partner, peer, counters, assembler, history, wire, enrollment>>

\* A session ends: it has outlived its budget of time, its socket is lost, its
\* peer has left, the pin could not be saved, or its owner is stopped.
End(s) ==
    /\ Live(s)
    /\ Close({s})
    /\ UNCHANGED <<keys, step, partner, counters, history, wire, enrollment>>

-----------------------------------------------------------------------------
(* The handshake. *)

\* Mutant of ReadsHandshake: the desktop takes any phone that holds the
\* pre-shared key, pinned or not.
ReadsHandshakeUnpinned(s, f) ==
    /\ phase[s] = "Handshake"
    /\ \/ owner[s] = PC /\ step[s] = 0 /\ f.kind = "hello"
       \/ owner[s] # PC /\ step[s] = 1 /\ f.kind = "reply" /\ f.to = s
       \/ owner[s] = PC /\ step[s] = 2 /\ f.kind = "proof" /\ f.to = s /\ f.psk

\* The frame is the handshake message s waits for, and the static key it
\* carries is the one s requires.
ReadsHandshake(s, f) ==
    /\ phase[s] = "Handshake"
    /\ \/ owner[s] = PC /\ step[s] = 0 /\ f.kind = "hello"
       \/ /\ owner[s] # PC /\ step[s] = 1
          /\ f.kind = "reply" /\ f.to = s
          /\ expected[s] = owner[f.from]
       \/ /\ owner[s] = PC /\ step[s] = 2
          /\ f.kind = "proof" /\ f.to = s /\ f.from = partner[s]
          /\ f.psk
          /\ expected[s] \in {None, owner[f.from]}

\* Message 1 is read and message 2 written.
Reply(s, f) ==
    /\ f.kind = "hello" /\ ReadsHandshake(s, f)
    /\ partner' = [partner EXCEPT ![s] = f.from]
    /\ step' = [step EXCEPT ![s] = 2]
    /\ wire' = wire \cup {[kind |-> "reply", from |-> s, to |-> f.from]}
    /\ UNCHANGED <<keys, phase, peer, counters, assembler, history, enrollment>>

\* Message 2 is read, the desktop's key compared, and message 3 written.
Prove(s, f) ==
    /\ f.kind = "reply" /\ ReadsHandshake(s, f)
    /\ partner' = [partner EXCEPT ![s] = f.from]
    /\ peer' = [peer EXCEPT ![s] = owner[f.from]]
    /\ step' = [step EXCEPT ![s] = 3]
    /\ phase' = [phase EXCEPT ![s] = "AwaitingDesktopConfirmation"]
    /\ wire' = wire \cup {[kind |-> "proof", from |-> s, to |-> f.from,
                            psk |-> owner[s] \in holders]}
    /\ UNCHANGED <<keys, counters, assembler, history, enrollment>>

\* Message 3 is read and the phone's key compared, when one is required.
Verify(s, f) ==
    /\ f.kind = "proof" /\ ReadsHandshake(s, f)
    /\ peer' = [peer EXCEPT ![s] = owner[f.from]]
    /\ step' = [step EXCEPT ![s] = 3]
    /\ phase' = [phase EXCEPT ![s] = IF expected[s] = None THEN "AwaitingApproval"
                                     ELSE "SendDesktopConfirmation"]
    /\ UNCHANGED <<keys, partner, counters, assembler, history, wire, enrollment>>

\* The identity is saved, enrollment disarmed, and the session approved for
\* this very handshake.
Approve(s) ==
    /\ phase[s] = "AwaitingApproval"
    /\ pinned' = peer[s]
    /\ armed' = FALSE
    /\ expected' = [expected EXCEPT ![s] = peer[s]]
    /\ phase' = [phase EXCEPT ![s] = "SendDesktopConfirmation"]
    /\ UNCHANGED <<owner, step, partner, peer, counters, assembler, history, wire, code, holders>>

-----------------------------------------------------------------------------
(* The mutual confirmation. *)

\* Mutant of Decrypts: any frame with the right nonce opens.
DecryptsAnyKey(s, f) ==
    /\ f.kind \in {"confirm", "data"}
    /\ f.n = received[s]
    /\ received[s] < MaxMessages

\* A frame that opens under the keys of s: written by its partner for it, and
\* the next one of the sequence.
Decrypts(s, f) ==
    /\ f.kind \in {"confirm", "data"}
    /\ f.from = partner[s] /\ f.to = s
    /\ f.n = received[s]
    /\ received[s] < MaxMessages

Confirmation(s) ==
    [kind |-> "confirm", from |-> s, to |-> partner[s], n |-> sent[s]]

ReadsConfirmation(s, f) ==
    /\ phase[s] \in {"AwaitingDesktopConfirmation", "AwaitingPhoneConfirmation"}
    /\ Decrypts(s, f)
    /\ f.kind = "confirm"

Confirm(s) ==
    /\ phase[s] = "SendDesktopConfirmation"
    /\ sent[s] < MaxMessages
    /\ wire' = wire \cup {Confirmation(s)}
    /\ sent' = [sent EXCEPT ![s] = @ + 1]
    /\ phase' = [phase EXCEPT ![s] = "AwaitingPhoneConfirmation"]
    /\ UNCHANGED <<keys, step, partner, peer, received, assembler, history, enrollment>>

\* The phone reads the desktop's confirmation, answers with its own and is ready.
ConfirmBack(s, f) ==
    /\ phase[s] = "AwaitingDesktopConfirmation" /\ ReadsConfirmation(s, f)
    /\ sent[s] < MaxMessages
    /\ wire' = wire \cup {Confirmation(s)}
    /\ sent' = [sent EXCEPT ![s] = @ + 1]
    /\ received' = [received EXCEPT ![s] = @ + 1]
    /\ phase' = [phase EXCEPT ![s] = "Ready"]
    /\ UNCHANGED <<keys, step, partner, peer, assembler, history, enrollment>>

Complete(s, f) ==
    /\ phase[s] = "AwaitingPhoneConfirmation" /\ ReadsConfirmation(s, f)
    /\ received' = [received EXCEPT ![s] = @ + 1]
    /\ phase' = [phase EXCEPT ![s] = "Ready"]
    /\ UNCHANGED <<keys, step, partner, peer, sent, assembler, history, wire, enrollment>>

-----------------------------------------------------------------------------
(* Records. *)

\* One frame for each chunk, numbered by the record and by the chunk's place.
Sealed(s, r) ==
    { [kind |-> "data", from |-> s, to |-> partner[s], n |-> sent[s] + i - 1,
       record |-> Len(sealed[s]), total |-> Len(r), offset |-> i - 1, chunk |-> r[i]]
      : i \in DOMAIN r }

\* Mutant of WithinBudget: only the first frame of the record is counted.
WithinBudgetFirst(s, r) == sent[s] < MaxMessages

WithinBudget(s, r) == sent[s] + Len(r) <= MaxMessages

\* Mutant of Seal: one nonce for all the frames of a record.
SealOneNonce(s, r) ==
    /\ phase[s] = "Ready"
    /\ WithinBudget(s, r)
    /\ wire' = wire \cup Sealed(s, r)
    /\ sent' = [sent EXCEPT ![s] = @ + 1]
    /\ sealed' = [sealed EXCEPT ![s] = Append(@, r)]
    /\ UNCHANGED <<keys, phase, step, partner, peer, received, assembler, opened, enrollment>>

Seal(s, r) ==
    /\ phase[s] = "Ready"
    /\ WithinBudget(s, r)
    /\ wire' = wire \cup Sealed(s, r)
    /\ sent' = [sent EXCEPT ![s] = @ + Len(r)]
    /\ sealed' = [sealed EXCEPT ![s] = Append(@, r)]
    /\ UNCHANGED <<keys, phase, step, partner, peer, received, assembler, opened, enrollment>>

\* The budget runs out at some chunk: none of the record's frames is returned.
SealRefused(s, r) ==
    /\ phase[s] = "Ready"
    /\ ~WithinBudget(s, r)
    /\ sent' = [sent EXCEPT ![s] = MaxMessages]
    /\ Close({s})
    /\ UNCHANGED <<keys, step, partner, received, history, wire, enrollment>>

\* The frame continues the record being read, or begins the next one.
Continues(s, f) ==
    /\ f.kind = "data"
    /\ f.record = Len(opened[s])
    /\ f.offset = Len(partial[s])
    /\ f.offset > 0 => f.total = total[s]
    /\ f.total > f.offset

Opens(s, f) ==
    /\ phase[s] = "Ready"
    /\ Decrypts(s, f)
    /\ Continues(s, f)

\* Mutant of Open: what has arrived of a record is delivered at once.
OpenPrefix(s, f) ==
    /\ Opens(s, f)
    /\ received' = [received EXCEPT ![s] = @ + 1]
    /\ opened' = [opened EXCEPT ![s] = Append(@, Append(partial[s], f.chunk))]
    /\ UNCHANGED <<keys, phase, step, partner, peer, sent, assembler, sealed, wire, enrollment>>

Open(s, f) ==
    /\ Opens(s, f)
    /\ received' = [received EXCEPT ![s] = @ + 1]
    /\ LET chunks == Append(partial[s], f.chunk) IN
         IF Len(chunks) = f.total
         THEN /\ opened' = [opened EXCEPT ![s] = Append(@, chunks)]
              /\ partial' = [partial EXCEPT ![s] = <<>>]
              /\ total' = [total EXCEPT ![s] = 0]
         ELSE /\ partial' = [partial EXCEPT ![s] = chunks]
              /\ total' = [total EXCEPT ![s] = f.total]
              /\ UNCHANGED opened
    /\ UNCHANGED <<keys, phase, step, partner, peer, sent, sealed, wire, enrollment>>

-----------------------------------------------------------------------------
(* Frames that do not verify, the pairing screen, and a restart. *)

Listening(s) ==
    phase[s] \in {"Handshake", "AwaitingDesktopConfirmation",
                  "AwaitingPhoneConfirmation", "Ready"}

Accepts(s, f) == ReadsHandshake(s, f) \/ ReadsConfirmation(s, f) \/ Opens(s, f)

\* Any other frame ends the session for good.  A handshake the desktop rejects
\* while a code is live arms enrollment for the next attempt.
Reject(s, f) ==
    /\ Listening(s)
    /\ ~Accepts(s, f)
    /\ Close({s})
    /\ armed' = (armed \/ (owner[s] = PC /\ phase[s] = "Handshake" /\ code))
    /\ UNCHANGED <<keys, step, partner, counters, history, wire, pinned, code, holders>>

\* The user asks for a pairing code.  Only a fresh one, asked for in order to
\* pair, arms enrollment.
ShowCode ==
    /\ code' = TRUE
    /\ armed' \in {armed, TRUE}
    /\ UNCHANGED <<keys, phase, step, partner, peer, counters, assembler, history, wire,
                   pinned, holders>>

CodeExpires ==
    /\ code
    /\ code' = FALSE
    /\ UNCHANGED <<keys, phase, step, partner, peer, counters, assembler, history, wire,
                   pinned, armed, holders>>

\* A phone scans the code on screen, and with it the pair's pre-shared key.
Scan(p) ==
    /\ code
    /\ holders' = holders \cup {p}
    /\ UNCHANGED <<keys, phase, step, partner, peer, counters, assembler, history, wire,
                   pinned, armed, code>>

\* The desktop program is stopped: only what the database holds stays.
Restart ==
    /\ Close({s \in Ids : owner[s] = PC})
    /\ armed' = FALSE
    /\ code' = FALSE
    /\ UNCHANGED <<keys, step, partner, counters, history, wire, pinned, holders>>

Deliver(s, f) ==
    \/ Reply(s, f) \/ Prove(s, f) \/ Verify(s, f)
    \/ ConfirmBack(s, f) \/ Complete(s, f)
    \/ Open(s, f) \/ Reject(s, f)

Next ==
    \/ \E s \in Ids :
        \/ \E p \in Phones : StartPhone(p, s)
        \/ StartDesktop(s) \/ End(s) \/ Approve(s) \/ Confirm(s)
        \/ \E r \in Records : Seal(s, r) \/ SealRefused(s, r)
        \/ \E f \in wire : Deliver(s, f)
    \/ ShowCode \/ CodeExpires \/ Restart
    \/ \E p \in Phones : Scan(p)

Spec == Init /\ [][Next]_vars

-----------------------------------------------------------------------------
(* Properties. *)

\* Both ends of a ready session agree on who they are, and the other end has
\* really gone through the handshake: the desktop is ready only towards the
\* one session of the phone it learned, and that session is or was ready
\* towards it; the phone only towards a session of the PC that has confirmed.
Agreement ==
    \A s \in Ids : phase[s] = "Ready" =>
        LET t == partner[s] IN
        /\ t \in Ids /\ partner[t] = s
        /\ peer[s] = owner[t] /\ owner[t] # owner[s]
        /\ phase[t] \in {"Ready", "Closed"}
              \cup (IF owner[s] = PC THEN {} ELSE {"AwaitingPhoneConfirmation"})

\* While a desktop session that got past approval lives, the saved identity is
\* the one it talks to: no two phones can both hold this PC.
TalksToPinned ==
    \A s \in Ids :
        owner[s] = PC /\ phase[s] \in {"SendDesktopConfirmation", "AwaitingPhoneConfirmation", "Ready"}
            => peer[s] # None /\ pinned = peer[s]

\* "Persist the pin before confirming, so a crash cannot leave a phone that
\* believes it is enrolled while this PC would re-open enrollment"
\* (relay_client.rs:348): when a confirmation leaves the desktop, the identity
\* it confirms is the one the database holds.
ConfirmsOnlySaved ==
    [][ \A f \in wire' \ wire :
          f.kind = "confirm" /\ owner[f.from] = PC => pinned = owner[f.to] ]_vars

\* A nonce is used once: two frames one session protected for another at the
\* same place of the sequence are the same frame.
NonceOnce ==
    \A f, g \in wire :
        /\ f.kind \in {"confirm", "data"} /\ g.kind \in {"confirm", "data"}
        /\ f.from = g.from /\ f.n = g.n
        => f = g

\* The sessions keep the promise of SecureLink.  An end is bound when it holds
\* the transport keys, with the last handshake message.
Bound == [s \in Ids |-> IF step[s] = 3 THEN partner[s] ELSE None]
Link == INSTANCE SecureLink WITH bound <- Bound
ImplementsLink == Link!Spec

=============================================================================
