-------------------------------- MODULE Reunion --------------------------------
(***************************************************************************)
(* How a PC and a phone on different networks find each other again: the   *)
(* PC's relay client (relay_client.rs) with the flags of AppState that the *)
(* user's commands leave for it, composed with what the relay promises     *)
(* (module RelayWorker) and with a phone as module PhoneClient describes   *)
(* it, dialing through the relay alone.                                    *)
(*                                                                         *)
(* The supervisor runs on its own: between its test of the flags, its      *)
(* sleep, its dial and its wait, the user and the local server write them. *)
(* The relay is the sequencer: what it announces and forwards reaches an   *)
(* endpoint in order, and a socket that was let go is noticed late.  The   *)
(* interleavings inside the attach rule, a disconnect and the handshake    *)
(* are left to DesktopSession and SecureChannel.  A relay pair is          *)
(* configured; backoffs and timeouts pass, and have no length, but a       *)
(* message is faster than the thirty seconds of a handshake.               *)
(*                                                                         *)
(* Pairing keys are numbers: 0 is the one the phone was paired with in the *)
(* past, a code shown on screen carries the next one.                      *)
(***************************************************************************)
EXTENDS Naturals, Sequences

CONSTANTS
  MaxActs,     \* bound: acts of the two users, and restarts
  MaxLosses,   \* bound: sockets the network loses
  MaxRefusals  \* bound: refusals of other phones, on the local network

ASSUME ReunionAssumption == {MaxActs, MaxLosses, MaxRefusals} \subseteq Nat

VARIABLES
  pc,        \* where the supervisor is
  flag,      \* relay_requested, relay_rejoin, the two of a refusal, relay_wake's permit
  rule,      \* what the attach rule and enrollment read
  row, gen,  \* the relay: what its row names, and whether the two were announced
  inbox,     \* what is on its way to each end
  ph, phone, \* the phone: where it is, and what it holds
  acts, losses, refusals,
  hoped,     \* history: the user has picked the phone, and has not got it yet
  unheard,   \* history: and the PC has not joined the relay since
  calm       \* history: turned away, and neither user nor the network did anything since

vars == <<pc, flag, rule, row, gen, inbox, ph, phone, acts, losses, refusals, hoped, unheard, calm>>
wishes == <<hoped, unheard>>
bounds == <<acts, losses, refusals>>
relay == <<row, gen, inbox>>

Ends == {"pc", "phone"}
Peer(x) == IF x = "pc" THEN "phone" ELSE "pc"

Flags == [requested : BOOLEAN, rejoin : BOOLEAN, refused : BOOLEAN, parked : BOOLEAN,
          permit : BOOLEAN]
Rule  == [auto : BOOLEAN, paused : BOOLEAN, approved : BOOLEAN, allowed : BOOLEAN,
          armed : BOOLEAN, pinned : BOOLEAN,
          code : Nat, live : BOOLEAN,      \* the last code, and whether it is on screen
          saved : Nat]                     \* the key saved for the phone
Phone == [auto : BOOLEAN, manual : BOOLEAN, turned : BOOLEAN, consent : BOOLEAN,
          rejected : BOOLEAN,              \* pairingRejection: told to scan again
          asks : BOOLEAN,
          key : Nat, presents : Nat, sent : Nat]  \* its pairing, its socket's, its last Auth's

TypeOK ==
  /\ pc \in {"test", "parking", "asleep", "dialing", "dialed", "waiting", "session", "deciding",
             "refusing", "bridged", "failing", "cut", "backoff"}
  /\ flag \in Flags /\ rule \in Rule /\ phone \in Phone
  /\ row \in [Ends -> {"none", "open", "gone"}] /\ gen \in BOOLEAN
  /\ gen => \A x \in Ends : row[x] # "none"
  /\ ph \in {"away", "waiting", "asking", "started", "linked"}
  /\ acts \in 0..MaxActs /\ losses \in 0..MaxLosses /\ refusals \in 0..MaxRefusals
  /\ {hoped, unheard, calm} \subseteq BOOLEAN /\ (unheard => hoped)
  /\ pc \in {"test", "parking", "asleep", "dialing", "backoff"} => row["pc"] # "open"

Init ==
  /\ pc = "test" /\ ph = "away"
  /\ flag = [requested |-> FALSE, rejoin |-> FALSE, refused |-> FALSE, parked |-> FALSE,
             permit |-> FALSE]
  /\ \E auto, pinned \in BOOLEAN :
       rule = [auto |-> auto, pinned |-> pinned, paused |-> FALSE, approved |-> FALSE,
               allowed |-> FALSE, armed |-> FALSE, code |-> 0, live |-> FALSE, saved |-> 0]
  /\ \E auto \in BOOLEAN :
       phone = [auto |-> auto, manual |-> FALSE, turned |-> FALSE, consent |-> FALSE,
                rejected |-> FALSE, asks |-> FALSE, key |-> 0, presents |-> 0, sent |-> 0]
  /\ row = [x \in Ends |-> "none"] /\ gen = FALSE /\ inbox = [x \in Ends |-> <<>>]
  /\ acts = 0 /\ losses = 0 /\ refusals = 0 /\ hoped = FALSE /\ unheard = FALSE /\ calm = FALSE

-----------------------------------------------------------------------------
(* The relay.  RelayWorker has its rows, attachments and failures in full. *)

Tell(box, x, what) == IF row[x] = "open" THEN [box EXCEPT ![x] = Append(@, what)] ELSE box

Retired(box) == [x \in Ends |->
  IF row[x] = "open" THEN box[x] \o <<"unavailable", "closed">> ELSE box[x]]

\* A frame is forwarded within a generation; outside one it retires the pair.
Send(x, frame) ==
  IF row[x] = "open" /\ ~gen
  THEN /\ row' = [y \in Ends |-> "none"] /\ gen' = FALSE
       /\ inbox' = Retired(inbox)
  ELSE /\ inbox' = IF row[x] = "open" THEN Tell(inbox, Peer(x), frame) ELSE inbox
       /\ UNCHANGED <<row, gen>>

\* A socket of this role on the row, or an announced generation, retires the pair first.
\* Then the peer that is there is announced, to both.
Join(x) ==
  LET y == Peer(x)
      announced == row[y] # "none" IN
  IF row[x] # "none" \/ gen
  THEN /\ row' = [row EXCEPT ![x] = "open", ![y] = "none"] /\ gen' = FALSE
       /\ inbox' = [Retired(inbox) EXCEPT ![x] = <<"unavailable">>]
  ELSE /\ row' = [row EXCEPT ![x] = "open"] /\ gen' = announced
       /\ inbox' = IF announced THEN [Tell(inbox, y, "ready") EXCEPT ![x] = <<"ready">>]
                   ELSE [inbox EXCEPT ![x] = <<"unavailable">>]

\* An end lets its socket go.
Leave(x) ==
  /\ row' = [row EXCEPT ![x] = IF @ = "open" THEN "gone" ELSE @]
  /\ inbox' = [inbox EXCEPT ![x] = <<>>]
  /\ UNCHANGED gen

\* The relay's close event for it retires the pair.
Notice(x) ==
  /\ row[x] = "gone"
  /\ row' = [y \in Ends |-> "none"] /\ gen' = FALSE
  /\ inbox' = Retired(inbox)
  /\ UNCHANGED <<pc, flag, rule, ph, phone, bounds, wishes, calm>>

Lose(x) ==
  /\ losses < MaxLosses /\ losses' = losses + 1
  /\ row[x] = "open"
  /\ row' = [row EXCEPT ![x] = "gone"]
  /\ inbox' = [inbox EXCEPT ![x] = Append(@, "closed")]
  /\ calm' = FALSE
  /\ UNCHANGED <<pc, flag, rule, gen, ph, phone, acts, refusals, wishes>>

Hears(x, what) == inbox[x] # <<>> /\ Head(inbox[x]) = what
Took(x) == [inbox EXCEPT ![x] = Tail(@)]

-----------------------------------------------------------------------------
(* The PC's supervisor. *)

Supervised == UNCHANGED <<rule, ph, phone, bounds, wishes, calm>>

\* The test at the head of start()'s loop.
Test ==
  /\ pc = "test"
  /\ pc' = IF flag.requested \/ ((rule.auto \/ rule.live) /\ ~flag.parked)
           THEN "dialing" ELSE "parking"
  /\ UNCHANGED <<flag, relay>> /\ Supervised

\* await_relay_request(): a permit, or thirty seconds.
Park  == pc = "parking" /\ pc' = "asleep" /\ UNCHANGED <<flag, relay>> /\ Supervised
Wake  == pc = "asleep" /\ flag.permit /\ pc' = "test" /\ flag' = [flag EXCEPT !.permit = FALSE]
         /\ UNCHANGED relay /\ Supervised
Recheck == pc = "asleep" /\ pc' = "test" /\ UNCHANGED <<flag, relay>> /\ Supervised

\* The relay has the join before attempt() takes the request as honoured.
DialRelay ==
  /\ pc = "dialing" /\ row["pc"] # "open"
  /\ Join("pc")
  /\ pc' = "dialed"
  /\ UNCHANGED flag /\ Supervised

Honour ==
  /\ pc = "dialed" /\ pc' = "waiting"
  /\ flag' = [flag EXCEPT !.requested = FALSE, !.rejoin = FALSE]
  /\ unheard' = FALSE
  /\ UNCHANGED <<relay, rule, ph, phone, bounds, hoped, calm>>

DialFails ==
  /\ pc = "dialing" /\ losses < MaxLosses /\ losses' = losses + 1
  /\ pc' = "backoff"
  /\ UNCHANGED <<flag, relay, rule, ph, phone, acts, refusals, wishes, calm>>

Retry == pc = "backoff" /\ pc' = "test" /\ UNCHANGED <<flag, relay>> /\ Supervised

\* Asked to leave and join again.
Rejoin ==
  /\ pc = "waiting" /\ flag.rejoin
  /\ flag' = [flag EXCEPT !.rejoin = FALSE]
  /\ Leave("pc") /\ pc' = "backoff"
  /\ Supervised

\* What a waiting PC reads; a straggler of a retired session is dropped.
Wait ==
  /\ pc = "waiting" /\ inbox["pc"] # <<>>
  /\ CASE Hears("pc", "ready")  -> pc' = "session" /\ inbox' = Took("pc") /\ UNCHANGED <<row, gen>>
       [] Hears("pc", "closed") -> pc' = "backoff" /\ Leave("pc")
       [] OTHER                 -> pc' = pc /\ inbox' = Took("pc") /\ UNCHANGED <<row, gen>>
  /\ UNCHANGED flag /\ Supervised

\* Mutant of SessionFails: the refusal is not looked at.
AlwaysLeaves(rejected) ==
  /\ rule' = [rule EXCEPT !.armed = @ \/ (rejected /\ rule.live)]
  /\ Leave("pc") /\ pc' = "backoff"
  /\ UNCHANGED flag

\* Mutant of SessionFails: the PC waits on its socket for the phone to come again.
StaysAnyway(rejected) ==
  /\ rule' = [rule EXCEPT !.armed = @ \/ (rejected /\ rule.live)]
  /\ flag' = [flag EXCEPT !.refused = FALSE] /\ pc' = "waiting"
  /\ inbox' = IF inbox["pc"] # <<>> /\ ~Hears("pc", "closed") THEN Took("pc") ELSE inbox
  /\ UNCHANGED <<row, gen>>

\* A session never ends well.  After a refusal this PC stays on its socket; otherwise it
\* leaves, and a phone rejected while a code is on screen may enroll next time.
SessionFails(rejected) ==
  IF flag.refused
  THEN /\ flag' = [flag EXCEPT !.refused = FALSE] /\ pc' = "waiting"
       /\ inbox' = IF inbox["pc"] # <<>> /\ ~Hears("pc", "closed") THEN Took("pc") ELSE inbox
       /\ UNCHANGED <<rule, row, gen>>
  ELSE AlwaysLeaves(rejected)

Bystanders == UNCHANGED <<ph, phone, bounds, wishes, calm>>

\* run_session: a known phone, or one that may enroll, gets through the handshake.
Handshake ==
  /\ pc = "session" /\ Hears("pc", "hello")
  /\ IF rule.pinned \/ rule.armed
     THEN /\ rule' = IF rule.armed THEN [rule EXCEPT !.pinned = TRUE, !.armed = FALSE] ELSE rule
          /\ inbox' = Took("pc") /\ pc' = "deciding"
          /\ UNCHANGED <<flag, row, gen>>
     ELSE SessionFails(TRUE)
  /\ Bystanders

\* No first frame for thirty seconds: the phone's user has not answered.
HandshakeTimesOut ==
  /\ pc = "session" /\ inbox["pc"] = <<>> /\ inbox["phone"] = <<>>
  /\ SessionFails(FALSE) /\ Bystanders

\* The phone left, or the socket closed, in a session.
Interrupted ==
  /\ pc \in {"session", "bridged"}
  /\ Hears("pc", "unavailable") \/ Hears("pc", "closed")
  /\ SessionFails(FALSE) /\ Bystanders

\* The secure session is over its budget or its time, on a socket that is well.
Expires ==
  /\ pc = "bridged" /\ losses < MaxLosses /\ losses' = losses + 1
  /\ SessionFails(FALSE)
  /\ calm' = FALSE
  /\ UNCHANGED <<ph, phone, acts, refusals, wishes>>

\* The phone presents the code on screen.
HoldsCode == rule.live /\ phone.sent = rule.code

\* expected_pairing_key_for_envelope: the key of the code on screen, or the one saved.
KnowsKey == HoldsCode \/ phone.sent = rule.saved

\* The local server: a key it does not know ends the pairing; then its rule (module
\* DesktopSession), and what it does about it.
Decide ==
  LET standing == HoldsCode \/ (~rule.paused /\ (rule.auto \/ rule.approved)) IN
  /\ pc = "deciding"
  /\ \/ /\ ~KnowsKey
        /\ Send("pc", "unknown") /\ pc' = "failing" /\ UNCHANGED <<rule, flag, wishes>>
     \/ /\ KnowsKey /\ (standing \/ rule.allowed)
        /\ rule' = [rule EXCEPT !.approved = TRUE, !.allowed = @ /\ standing,
                                !.paused = @ /\ ~HoldsCode, !.saved = phone.sent]
        /\ flag' = [flag EXCEPT !.parked = FALSE]
        /\ Send("pc", "welcome")
        /\ pc' = "bridged" /\ hoped' = FALSE /\ unheard' = FALSE
     \/ /\ KnowsKey /\ ~(standing \/ rule.allowed)
        /\ pc' = "refusing" /\ UNCHANGED <<rule, flag, relay, wishes>>
  /\ UNCHANGED <<ph, phone, bounds, calm>>

Refuse ==
  /\ pc = "refusing" /\ pc' = "failing"
  /\ flag' = [flag EXCEPT !.refused = TRUE, !.parked = TRUE]
  /\ Send("pc", "refusal")
  /\ calm' = (gen /\ ~flag.rejoin /\ \A x \in Ends : row[x] = "open")
  /\ UNCHANGED <<rule, ph, phone, bounds, wishes>>

\* The local server has closed its end of the bridge.
BridgeEnds ==
  /\ pc \in {"failing", "cut"}
  /\ SessionFails(FALSE) /\ Bystanders

Supervisor ==
  \/ Test \/ Park \/ Wake \/ Recheck \/ DialRelay \/ Honour \/ DialFails \/ Retry \/ Rejoin \/ Wait
  \/ Handshake \/ HandshakeTimesOut \/ Interrupted \/ Expires
  \/ Decide \/ Refuse \/ BridgeEnds

-----------------------------------------------------------------------------
(* The phone: PhoneClient, with the relay as its only way. *)

Desk == UNCHANGED <<pc, flag, rule, bounds, wishes>>

\* connect(), with the pairing of that moment: asking first unless nobody need be asked.
Dials ==
  /\ row["phone"] # "open"
  /\ Join("phone")
  /\ ph' = "waiting"
  /\ phone' = [phone EXCEPT !.presents = phone.key, !.asks =
       ~(phone.auto \/ (phone.consent /\ ~phone.manual /\ ~phone.turned))]

\* The supervisor: a pairing the PC does not know is not tried again.
PhoneJoins ==
  /\ ph = "away" /\ ~phone.rejected
  /\ Dials
  /\ Desk /\ UNCHANGED calm

\* The first frame of a session, in which the socket's key will be presented.
Starting == [phone EXCEPT !.sent = phone.presents]

PhoneReady ==
  /\ ph # "away" /\ Hears("phone", "ready")
  /\ IF phone.asks
     THEN ph' = "asking" /\ inbox' = Took("phone") /\ UNCHANGED <<row, gen, phone>>
     ELSE /\ ph' = "started" /\ phone' = Starting /\ UNCHANGED <<row, gen>>
          /\ inbox' = IF gen /\ row["phone"] = "open"
                      THEN Tell(Took("phone"), "pc", "hello") ELSE Took("phone")
  /\ Desk /\ UNCHANGED calm

PhoneHears(what, here, holding) ==
  /\ ph # "away" /\ Hears("phone", what)
  /\ ph' = here /\ phone' = holding
  /\ IF here = "away" THEN Leave("phone") ELSE inbox' = Took("phone") /\ UNCHANGED <<row, gen>>
  /\ Desk /\ UNCHANGED calm

PhoneSteps ==
  \/ PhoneJoins \/ PhoneReady
  \/ PhoneHears("unavailable", "waiting", phone)
  \/ PhoneHears("closed", "away", phone)
  \/ PhoneHears("welcome", "linked",
       [phone EXCEPT !.turned = FALSE, !.manual = FALSE, !.consent = FALSE])
  \/ PhoneHears("refusal", "waiting", [phone EXCEPT !.turned = TRUE])
  \/ PhoneHears("unknown", "away", [phone EXCEPT !.rejected = TRUE])
  \/ PhoneHears("unpair", "away", [phone EXCEPT !.manual = TRUE])

\* A notification arrives, and send() makes a new connection for it, with a pairing that was
\* rejected too.
PhoneRedials ==
  /\ losses < MaxLosses /\ losses' = losses + 1
  /\ ~phone.manual /\ ~phone.turned
  /\ \/ ph \in {"waiting", "asking", "started"} /\ ph' = "away" /\ Leave("phone") /\ UNCHANGED phone
     \/ ph = "away" /\ phone.rejected /\ Dials
  /\ calm' = FALSE
  /\ UNCHANGED <<pc, flag, rule, acts, refusals, wishes>>

-----------------------------------------------------------------------------
(* The two users. *)

Act == acts < MaxActs /\ acts' = acts + 1 /\ calm' = FALSE /\ UNCHANGED <<losses, refusals>>

\* acceptReconnectRequest(): a PC that waits is answered at once.
Accepted(holding) ==
  IF ph = "asking"
  THEN ph' = "started" /\ phone' = [holding EXCEPT !.sent = phone.presents] /\ Send("phone", "hello")
  ELSE phone' = holding /\ UNCHANGED <<ph, relay>>

Accept ==
  /\ Act /\ ph # "linked"
  /\ Accepted([phone EXCEPT !.turned = FALSE, !.manual = FALSE, !.rejected = FALSE])
  /\ UNCHANGED <<pc, flag, rule, wishes>>

\* The code on screen is scanned.  A socket that waits goes on with the key it was opened with.
Scan ==
  /\ Act /\ rule.live /\ ph # "linked"
  /\ Accepted([phone EXCEPT !.turned = FALSE, !.manual = FALSE, !.rejected = FALSE,
                            !.consent = TRUE, !.key = rule.code])
  /\ UNCHANGED <<pc, flag, rule, wishes>>

PhoneDisconnects ==
  /\ Act /\ ~phone.manual
  /\ phone' = [phone EXCEPT !.manual = TRUE]
  /\ ph' = "away" /\ Leave("phone")
  /\ UNCHANGED <<pc, flag, rule, wishes>>

PhoneSetsAuto ==
  /\ Act /\ phone' = [phone EXCEPT !.auto = ~@]
  /\ UNCHANGED <<pc, flag, rule, relay, ph, wishes>>

Asleep == pc = "asleep"

\* request_relay_connection()
Requested(f) == [f EXCEPT !.requested = TRUE, !.parked = FALSE, !.permit = TRUE]

\* Mutant of Pick: a PC that is already at the relay is not asked to join again.
PickWithoutRejoin ==
  /\ Act /\ pc \notin {"bridged", "cut"}
  /\ rule' = [rule EXCEPT !.paused = FALSE, !.allowed = TRUE]
  /\ flag' = [Requested(flag) EXCEPT !.refused = FALSE]
  /\ hoped' = TRUE /\ unheard' = TRUE
  /\ UNCHANGED <<pc, relay, ph, phone>>

\* request_device_reconnect(): a phone that has a socket is only told.
Pick ==
  /\ Act /\ pc \notin {"bridged", "cut"}
  /\ rule' = [rule EXCEPT !.paused = FALSE, !.allowed = TRUE]
  /\ flag' = [Requested(flag) EXCEPT !.refused = FALSE, !.rejoin = TRUE]
  /\ hoped' = TRUE /\ unheard' = TRUE
  /\ UNCHANGED <<pc, relay, ph, phone>>

\* generate_pairing_qr(): for pairing, or as a preview beside the inbox.  A code on screen is
\* shown again while it lasts; neither lifts a disconnect.
ShowCode(forPairing, fresh) ==
  /\ Act
  /\ fresh \/ rule.live
  /\ rule' = [rule EXCEPT !.live = TRUE, !.code = IF fresh THEN @ + 1 ELSE @,
                          !.armed = @ \/ (forPairing /\ fresh)]
  /\ flag' = Requested(flag)
  /\ UNCHANGED <<pc, relay, ph, phone, wishes>>

CodeExpires ==
  /\ rule.live /\ rule' = [rule EXCEPT !.live = FALSE]
  /\ UNCHANGED <<pc, flag, relay, ph, phone, bounds, wishes, calm>>

SetAuto(on) ==
  /\ Act /\ rule.auto # on
  /\ rule' = [rule EXCEPT !.auto = on]
  /\ flag' = IF on THEN [Requested(flag) EXCEPT !.rejoin = TRUE] ELSE flag
  /\ UNCHANGED <<pc, relay, ph, phone, wishes>>

Disconnect ==
  /\ Act
  /\ rule' = [rule EXCEPT !.paused = TRUE, !.live = FALSE, !.allowed = FALSE, !.approved = FALSE]
  /\ flag' = [flag EXCEPT !.requested = FALSE]
  /\ hoped' = FALSE /\ unheard' = FALSE
  /\ IF pc = "bridged" THEN pc' = "cut" /\ Send("pc", "unpair") ELSE UNCHANGED <<pc, relay>>
  /\ UNCHANGED <<ph, phone>>

\* The saved code and the settings survive.
Restart ==
  /\ Act
  /\ pc' = "test" /\ Leave("pc")
  /\ flag' = [f \in DOMAIN flag |-> FALSE]
  /\ rule' = [rule EXCEPT !.paused = FALSE, !.approved = FALSE, !.allowed = FALSE, !.armed = FALSE]
  /\ hoped' = FALSE /\ unheard' = FALSE
  /\ UNCHANGED <<ph, phone>>

\* Another saved phone is turned away, on the local network.
OtherRefused ==
  /\ refusals < MaxRefusals /\ refusals' = refusals + 1
  /\ ~rule.allowed /\ (rule.paused \/ ~rule.auto)
  /\ flag' = [flag EXCEPT !.refused = TRUE, !.parked = TRUE]
  /\ UNCHANGED <<pc, rule, relay, ph, phone, acts, losses, wishes, calm>>

Next ==
  \/ Supervisor \/ PhoneSteps \/ PhoneRedials
  \/ \E x \in Ends : Notice(x) \/ Lose(x)
  \/ Accept \/ Scan \/ PhoneDisconnects \/ PhoneSetsAuto
  \/ Pick \/ (\E forPairing, fresh \in BOOLEAN : ShowCode(forPairing, fresh)) \/ CodeExpires
  \/ (\E on \in BOOLEAN : SetAuto(on)) \/ Disconnect \/ Restart \/ OtherRefused

Spec == Init /\ [][Next]_vars

\* The supervisor's task and the phone's are always scheduled, and the relay hears of a
\* socket that has gone; the users owe nothing.
FairSpec ==
  /\ Spec
  /\ WF_vars(Supervisor) /\ WF_vars(PhoneSteps)
  /\ \A x \in Ends : WF_vars(Notice(x))

-----------------------------------------------------------------------------
(* Properties. *)

\* A phone that was turned away waits undisturbed: until a user acts or the network fails,
\* nothing the PC does closes its socket.  (relay_client.rs:214-234)
LeftAlone == calm => row["phone"] = "open" /\ gen

\* The named reasons why the two have not met: the phone's own user is asked, the phone has
\* been told that the PC does not know its pairing, or it is a phone whose identity this PC
\* has not pinned, and no code is on screen.
Excused == ph = "asking" \/ phone.rejected \/ ~(rule.pinned \/ rule.armed \/ rule.live)

\* Whenever the user picks the phone - while the supervisor tests, sleeps, dials, waits after
\* a refusal or is about to note one - the PC joins the relay afresh, or has the phone.
\* (pairing_cmd.rs:379-386, relay_client.rs:184-187)
PickIsHeard == unheard ~> ~unheard

\* With automatic reconnection on, PC and phone meet again whatever sockets and sessions
\* failed, with no act of a user.  Only a phone that was turned away, by a PC then paused or
\* not automatic, waits until it is picked; and a refusal of another phone, whose flag is
\* taken for this one's, may keep the PC waiting too.  (relay_client.rs:67-121, 250-257)
AutomaticMeets ==
  rule.auto /\ ~rule.paused ~>
    (pc = "bridged" \/ ~rule.auto \/ rule.paused \/ phone.turned \/ refusals > 0 \/ Excused)

\* The command's answer to a pick: "Waiting for your phone to accept. It can be on any
\* network" (pairing_cmd.rs:386): the two meet, unless the phone's user is being asked.
PickIsHonoured == hoped ~> (~hoped \/ Excused)

=============================================================================
