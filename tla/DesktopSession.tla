---------------------------- MODULE DesktopSession ----------------------------
(***************************************************************************)
(* Which phone is attached to the PC: AppState (state.rs), the rule        *)
(* may_attach (core/attach.rs), the authentication and the end of a        *)
(* connection in handle_websocket (ws_server.rs), and the commands of the  *)
(* user that decide about it (pairing_cmd.rs, relay_cmd.rs).               *)
(*                                                                         *)
(* Every connection is served by a task of its own, and the commands run   *)
(* on the main thread, so a step here is one access to the shared state:   *)
(* an atomic, a mutex or the database.  Accesses with only local work      *)
(* between them, and no other shared write among them, are one step.       *)
(*                                                                         *)
(* The pairing keys are numbers: 0 is the key a phone was paired with in   *)
(* the past, a code shown on screen carries the next one.  The flags that  *)
(* only the relay client reads (relay_requested, relay_rejoin,             *)
(* known_phone_refused, awaiting_request_after_refusal) and the            *)
(* diagnostics for display are left out.                                   *)
(***************************************************************************)
EXTENDS Naturals, FiniteSets

CONSTANTS
  Phones,     \* phones paired with this PC in the past
  Conns,      \* connections accepted by the server, each used once
  None,
  MaxCodes,   \* bound: pairing codes ever generated
  MaxActs     \* bound: how often the user disconnects, removes or picks a phone, changes
              \* the preference or restarts the app

ASSUME NoneAssumption == None \notin Conns /\ None \notin Phones /\ None \notin Nat
ASSUME BoundsAssumption == MaxCodes \in Nat /\ MaxActs \in Nat

VARIABLES
  \* the PC's memory
  paused, allowed, approved,   \* paused, known_phone_allowed, approved_phone
  sender,                      \* phone_sender: the connection attached, if any
  codeMem,                     \* pairing: the code on screen
  lost, announced,             \* connection_lost_at as the connection lost, connection_announced
  conn,                        \* the tasks serving the connections
  user,                        \* the main thread: the command it is executing
  \* the PC's disk
  codeDisk, auto,              \* settings: the persisted code, the reconnection preference
  saved, active,               \* paired_devices: the key of each phone, the row with is_active
  \* outside
  codeCount, expired,          \* codes generated, and whether the last has run out
  key,                         \* the pairing key each phone presents
  acts,                        \* how often the user has acted
  \* history, read by properties only
  cut,                         \* the code count at the last disconnect that still stands, was
                               \* quiet, and whose code was not read back
  pick,                        \* the phone picked last by name, in this run
  firstCode, autoEver          \* the first code valid in this run; auto was on in it

flags   == <<paused, allowed, approved>>
news    == <<lost, announced>>
memory  == <<flags, sender, codeMem, news, conn, user>>
rows    == <<saved, active>>
disk    == <<codeDisk, auto, rows>>
phones  == <<codeCount, expired, key>>
outside == <<phones, acts>>
run     == <<pick, firstCode, autoEver>>
history == <<cut, run>>
vars    == <<memory, disk, outside, history>>

Codes == 0..MaxCodes

\* Where a connection is: from the Auth message ("key") to the answer, attached ("live"),
\* and through the end of the task.  "mark", "check" and "announce" are attached already.
Deciding  == {"key", "code", "standing", "decide", "approve", "attach"}
Attached  == {"mark", "check", "announce", "live"}
Ending    == {"clear", "unmark", "grace", "closed"}

Conn == [pc : {"idle"} \union Deciding \union Attached \union Ending,
         phone : Phones \union {None}, key : Codes,
         auto : BOOLEAN, holds : BOOLEAN,        \* what the task has read
         paused : BOOLEAN, resuming : BOOLEAN,
         notified : BOOLEAN]                     \* notified_connected

\* Where the main thread is inside disconnect_phone or delete_paired_device.
User == [pc : {"idle", "pause", "retire", "erase", "forget", "drop", "delete"},
         phone : Phones \union {None}]           \* the phone being removed, if any

FlagsTyped ==
  /\ {paused, allowed, announced, auto, expired, autoEver} \subseteq BOOLEAN
  /\ {approved, active, pick} \subseteq Phones \union {None}
  /\ {sender, lost} \subseteq Conns \union {None}
CodesTyped ==
  /\ codeCount \in Codes /\ acts \in 0..MaxActs /\ firstCode \in 1..MaxCodes + 1
  /\ {codeMem, codeDisk} \subseteq (1..MaxCodes) \union {None} /\ cut \in Codes \union {None}
  /\ key \in [Phones -> Codes] /\ saved \in [Phones -> Codes \union {None}]
TasksTyped ==
  /\ conn \in [Conns -> Conn] /\ user \in User
  /\ user.pc = "delete" => user.phone # None
  /\ \A c \in Conns : conn[c].phone = None <=> conn[c].pc \in {"idle", "closed"}

TypeOK == FlagsTyped /\ CodesTyped /\ TasksTyped

Idle == [pc |-> "idle", phone |-> None, key |-> 0, auto |-> FALSE, holds |-> FALSE,
         paused |-> FALSE, resuming |-> FALSE, notified |-> FALSE]

Init ==
  /\ paused = FALSE /\ allowed = FALSE /\ approved = None /\ sender = None
  /\ codeMem = None /\ lost = None /\ announced = FALSE
  /\ conn = [c \in Conns |-> Idle]
  /\ user = [pc |-> "idle", phone |-> None]
  /\ codeDisk = None /\ auto \in BOOLEAN
  /\ saved = [p \in Phones |-> 0] /\ active = None
  /\ codeCount = 0 /\ expired = FALSE /\ key = [p \in Phones |-> 0] /\ acts = 0
  /\ cut = None /\ pick = None
  /\ firstCode = 1 /\ autoEver = auto

\* A closed connection is of no further interest.
Closed == [Idle EXCEPT !.pc = "closed"]

At(c, pc)   == conn[c].pc = pc
Goto(c, pc) == conn' = [conn EXCEPT ![c].pc = pc]

-----------------------------------------------------------------------------
(* The pairing code: current_pairing, set_pairing, the QR command. *)

\* current_pairing(): memory, or after a restart the persisted code if it is still valid.
CurrentCode == IF codeMem = None /\ ~expired THEN codeDisk ELSE codeMem

CodeLive(code) == code # None /\ ~expired

\* The code is kept in memory and, best effort, on disk.
SetPairing(code) == codeMem' = code /\ codeDisk' = code

\* generate_pairing_qr: the code on screen is kept while it lasts; one with less than
\* thirty seconds left, like none at all, makes room for a new one.
ShowCode ==
  /\ user.pc = "idle"
  /\ \/ /\ CodeLive(CurrentCode)
        /\ SetPairing(CurrentCode)
        /\ UNCHANGED <<codeCount, expired>>
     \/ /\ codeCount < MaxCodes
        /\ codeCount' = codeCount + 1 /\ expired' = FALSE
        /\ SetPairing(codeCount')
  /\ UNCHANGED <<flags, sender, news, conn, user, auto, rows, key, acts, history>>

\* What is left of the cut when the code is read: one read back into memory before the disk
\* is erased was not retired.
CutAfterReload == IF user.pc = "erase" /\ CurrentCode # codeMem THEN None ELSE cut

\* pairing_code_is_live(), asked by the relay supervisor's task before it dials and after a
\* failed session, whatever the main thread is doing; the commands that show the code ask it
\* on the main thread.
PairingCodeIsLive ==
  /\ codeMem' = CurrentCode
  /\ cut' = CutAfterReload
  /\ UNCHANGED <<flags, sender, news, conn, user, disk, outside, run>>

\* Five minutes pass.
Expire ==
  /\ codeCount > 0 /\ ~expired
  /\ expired' = TRUE
  /\ UNCHANGED <<memory, disk, codeCount, key, acts, history>>

\* A phone scans the code on screen.
Scan(p) ==
  /\ CodeLive(codeMem)
  /\ key' = [key EXCEPT ![p] = codeMem]
  /\ UNCHANGED <<memory, disk, codeCount, expired, acts, history>>

-----------------------------------------------------------------------------
(* The rule: core/attach.rs. *)

MayAttach(wasPaused, autoFirst, holds, resuming, allowance) ==
  IF wasPaused THEN holds \/ allowance
  ELSE autoFirst \/ holds \/ resuming \/ allowance

\* The allowance is consulted last, so it is spent only where nothing else admits.
NeedsAllowance(c) == ~MayAttach(conn[c].paused, conn[c].auto, conn[c].holds, conn[c].resuming, FALSE)

-----------------------------------------------------------------------------
(* handle_websocket: from the Auth message to an attached connection. *)

\* A phone connects and sends Auth with the key it holds.
Dial(c, p) ==
  /\ At(c, "idle")
  /\ conn' = [conn EXCEPT ![c] = [Idle EXCEPT !.pc = "key", !.phone = p, !.key = key[p]]]
  /\ UNCHANGED <<flags, sender, codeMem, news, user, disk, outside, history>>

\* A disconnect that a phone is authenticating across is not a quiet one.
CutAfterRead == IF user.pc = "idle" THEN cut ELSE None

HoldsCode(c) == CodeLive(CurrentCode) /\ CurrentCode = conn[c].key

\* expected_pairing_key_for_envelope: the key must be that of the live code or the one
\* saved for the phone, or the answer is AUTH_FAILED.
ReadKey(c) ==
  /\ At(c, "key")
  /\ codeMem' = CurrentCode
  /\ conn' = [conn EXCEPT ![c] =
       IF HoldsCode(c) \/ saved[conn[c].phone] = conn[c].key THEN [@ EXCEPT !.pc = "code"]
       ELSE Closed]
  /\ cut' = CutAfterRead
  /\ UNCHANGED <<flags, sender, news, user, disk, outside, run>>

\* auto_connect and holds_the_code_on_screen
ReadCode(c) ==
  /\ At(c, "code")
  /\ codeMem' = CurrentCode
  /\ conn' = [conn EXCEPT ![c].pc = "standing", ![c].auto = auto, ![c].holds = HoldsCode(c)]
  /\ UNCHANGED <<flags, sender, news, user, disk, outside, history>>

\* Mutant of ReadStanding: the standing of one phone is good for any.
ReadAnyStanding(c) ==
  /\ At(c, "standing")
  /\ conn' = [conn EXCEPT ![c].pc = "decide", ![c].paused = paused,
                          ![c].resuming = (approved # None)]
  /\ UNCHANGED <<flags, sender, codeMem, news, user, disk, outside, history>>

\* is_approved_for_this_run: one slot, so another phone's standing is not this one's.
IsApproved(p) == approved = p

\* is_paused and is_approved_for_this_run
ReadStanding(c) ==
  /\ At(c, "standing")
  /\ conn' = [conn EXCEPT ![c].pc = "decide", ![c].paused = paused,
                          ![c].resuming = IsApproved(conn[c].phone)]
  /\ UNCHANGED <<flags, sender, codeMem, news, user, disk, outside, history>>

\* A scan of the code ends the disconnect; then the rule, then AUTH_FAILED not_accepting
\* or on to AUTH_OK.
Lifts(c) == conn[c].holds /\ conn[c].paused

Decide(c) ==
  LET ask   == NeedsAllowance(c)
      admit == ~ask \/ allowed IN
  /\ At(c, "decide")
  /\ paused' = (paused /\ ~Lifts(c))
  /\ allowed' = (allowed /\ ~ask)
  /\ conn' = [conn EXCEPT ![c] = IF admit
                 THEN [Idle EXCEPT !.pc = "approve", !.phone = conn[c].phone, !.key = conn[c].key]
                 ELSE Closed]
  /\ cut' = IF Lifts(c) /\ cut # None /\ conn[c].key > cut THEN None ELSE cut
  /\ UNCHANGED <<approved, sender, codeMem, news, user, disk, outside, run>>

\* approve_phone_for_this_run
Approve(c) ==
  /\ At(c, "approve")
  /\ approved' = conn[c].phone
  /\ Goto(c, "attach")
  /\ UNCHANGED <<paused, allowed, sender, codeMem, news, user, disk, outside, history>>

\* set_phone_sender: the connection replaces whichever was attached.
Attach(c) ==
  /\ At(c, "attach")
  /\ sender' = c
  /\ Goto(c, "mark")
  /\ UNCHANGED <<flags, codeMem, news, user, disk, outside, history>>

\* store::mark_pairing_connected: the phone's row, alone, is active; the rows of other
\* phones with its name and endpoint ("relay" for all that come that way) are deleted.
MarkConnected(c) ==
  /\ At(c, "mark")
  /\ active' = conn[c].phone
  /\ \E same \in SUBSET (Phones \ {conn[c].phone}) :
       saved' = [p \in Phones |-> IF p = conn[c].phone THEN conn[c].key
                                 ELSE IF p \in same THEN None ELSE saved[p]]
  /\ Goto(c, "check")
  /\ UNCHANGED <<flags, sender, codeMem, news, user, codeDisk, auto, outside, history>>

\* AUTH_OK is sent; a connection replaced meanwhile announces nothing.
CheckCurrent(c) ==
  /\ At(c, "check")
  /\ Goto(c, IF sender = c THEN "announce" ELSE "live")
  /\ UNCHANGED <<flags, sender, codeMem, news, user, disk, outside, history>>

\* announce_connected; the popup, if no "connected" is standing
Announce(c) ==
  /\ At(c, "announce")
  /\ lost' = None
  /\ announced' = TRUE
  /\ conn' = [conn EXCEPT ![c].pc = "live", ![c].notified = TRUE]
  /\ UNCHANGED <<flags, sender, codeMem, user, disk, outside, history>>

-----------------------------------------------------------------------------
(* The end of handle_websocket. *)

\* The socket closes or fails, the phone falls silent, or a step of the handler returns an
\* error: at any await once the connection is attached.
Lose(c) ==
  /\ conn[c].pc \in {"mark", "check", "live"}
  /\ Goto(c, "clear")
  /\ UNCHANGED <<flags, sender, codeMem, news, user, disk, outside, history>>

\* Mutant of EndStale: only a disconnect is noticed, not a replacement.
EndDetachedOnly(c) ==
  /\ At(c, "live")
  /\ sender = None
  /\ Goto(c, "clear")
  /\ UNCHANGED <<flags, sender, codeMem, news, user, disk, outside, history>>

\* stale_check: an attached connection that is no longer the current one ends itself.
EndStale(c) ==
  /\ At(c, "live")
  /\ sender # c
  /\ Goto(c, "clear")
  /\ UNCHANGED <<flags, sender, codeMem, news, user, disk, outside, history>>

\* Mutant of ClearSender: whoever ends detaches.
ClearAnySender(c) ==
  /\ At(c, "clear")
  /\ sender' = None
  /\ conn' = [conn EXCEPT ![c] = IF sender = c THEN [@ EXCEPT !.pc = "unmark"] ELSE Closed]
  /\ UNCHANGED <<flags, codeMem, news, user, disk, outside, history>>

\* clear_phone_sender_if_current_with_reason
ClearSender(c) ==
  /\ At(c, "clear")
  /\ sender' = IF sender = c THEN None ELSE sender
  /\ conn' = [conn EXCEPT ![c] = IF sender = c THEN [@ EXCEPT !.pc = "unmark"] ELSE Closed]
  /\ UNCHANGED <<flags, codeMem, news, user, disk, outside, history>>

\* store::mark_pairings_disconnected
MarkDisconnected(c) ==
  /\ At(c, "unmark")
  /\ active' = None
  /\ Goto(c, "grace")
  /\ UNCHANGED <<flags, sender, codeMem, news, user, codeDisk, auto, saved, outside, history>>

\* begin_reconnect_grace, its timer started, for a connection that had been announced; on
\* a paused PC announce_disconnected.
BeginGrace(c) ==
  /\ At(c, "grace")
  /\ IF conn[c].notified
     THEN /\ lost' = IF paused THEN None ELSE c
          /\ announced' = (announced /\ ~paused)
     ELSE UNCHANGED news
  /\ conn' = [conn EXCEPT ![c] = Closed]
  /\ UNCHANGED <<flags, sender, codeMem, user, disk, outside, history>>

\* end_reconnect_grace, ninety seconds later; the timer of a loss that no longer stands
\* does nothing.
EndGrace ==
  /\ lost # None
  /\ lost' = None
  /\ announced' = FALSE
  /\ UNCHANGED <<flags, sender, codeMem, conn, user, disk, outside, history>>

-----------------------------------------------------------------------------
(* The commands of the user, on the main thread. *)

Act == user.pc = "idle" /\ acts < MaxActs /\ acts' = acts + 1

\* disconnect_phone: UNPAIR is queued for the phone, store::mark_pairings_disconnected,
\* and on to mark_manual_disconnect.
Disconnect ==
  /\ Act
  /\ user' = [user EXCEPT !.pc = "pause"]
  /\ active' = None
  /\ UNCHANGED <<flags, sender, codeMem, news, conn, codeDisk, auto, saved, phones, history>>

\* delete_paired_device: an active phone is disconnected first.
Remove(p) ==
  /\ Act
  /\ saved[p] # None
  /\ IF active = p THEN user' = [pc |-> "pause", phone |-> p] /\ UNCHANGED saved
     ELSE saved' = [saved EXCEPT ![p] = None] /\ UNCHANGED user
  /\ UNCHANGED <<flags, sender, codeMem, news, conn, codeDisk, auto, active, phones, history>>

Step(from, to) == user.pc = from /\ user' = [user EXCEPT !.pc = to]

\* mark_manual_disconnect, store by store.
Quiet == \A c \in Conns : conn[c].pc \notin Deciding

Pause ==
  /\ Step("pause", "retire")
  /\ paused' = TRUE
  /\ cut' = IF Quiet THEN codeCount ELSE None
  /\ UNCHANGED <<allowed, approved, sender, codeMem, news, conn, disk, outside, run>>

\* clear_pairing_session: in memory, then on disk
RetireCode ==
  /\ Step("retire", "erase")
  /\ codeMem' = None
  /\ UNCHANGED <<flags, sender, news, conn, disk, outside, history>>

\* Mutant of EraseCode: the code is retired in memory only.
EraseNothing ==
  /\ Step("erase", "forget")
  /\ allowed' = FALSE
  /\ UNCHANGED <<codeDisk, paused, approved, sender, codeMem, news, conn, auto, rows, outside, history>>

EraseCode ==
  /\ Step("erase", "forget")
  /\ codeDisk' = None
  /\ allowed' = FALSE
  /\ UNCHANGED <<paused, approved, sender, codeMem, news, conn, auto, rows, outside, history>>

\* forget_approved_phone, and no loss to wait out nor connection to answer for
Forget ==
  /\ Step("forget", "drop")
  /\ approved' = None
  /\ lost' = None /\ announced' = FALSE
  /\ UNCHANGED <<paused, allowed, sender, codeMem, conn, disk, outside, history>>

\* clear_phone_sender; the command of Remove then deletes the row.
DropSender ==
  /\ Step("drop", IF user.phone = None THEN "idle" ELSE "delete")
  /\ sender' = None
  /\ UNCHANGED <<flags, codeMem, news, conn, disk, outside, history>>

DeleteRow ==
  /\ user.pc = "delete"
  /\ user' = [pc |-> "idle", phone |-> None]
  /\ saved' = [saved EXCEPT ![user.phone] = None]
  /\ UNCHANGED <<flags, sender, codeMem, news, conn, codeDisk, auto, active, outside, history>>

\* request_device_reconnect with no phone attached to ask and a relay pair configured
Pick(p) ==
  /\ Act
  /\ saved[p] # None
  /\ sender = None
  /\ paused' = FALSE /\ allowed' = TRUE
  /\ pick' = p /\ cut' = None
  /\ UNCHANGED <<approved, sender, codeMem, news, conn, user, disk, phones, firstCode, autoEver>>

\* Mutant of SetAuto: switching automatic reconnection on resumes a paused PC.
SetAutoResuming(on) ==
  /\ Act
  /\ auto # on
  /\ auto' = on /\ paused' = (paused /\ ~on)
  /\ autoEver' = (autoEver \/ on)
  /\ UNCHANGED <<allowed, approved, sender, codeMem, news, conn, user, codeDisk, rows, phones, cut, pick, firstCode>>

\* relay_set_auto_connect
SetAuto(on) ==
  /\ Act
  /\ auto # on
  /\ auto' = on
  /\ autoEver' = (autoEver \/ on)
  /\ UNCHANGED <<memory, codeDisk, rows, phones, cut, pick, firstCode>>

\* The app is closed and started again: AppState::new, and every socket is gone.
Restart ==
  /\ acts < MaxActs /\ acts' = acts + 1
  /\ \E c \in Conns : conn[c].pc \notin {"idle", "closed"}
  /\ paused' = FALSE /\ allowed' = FALSE /\ approved' = None /\ sender' = None
  /\ codeMem' = None /\ lost' = None /\ announced' = FALSE
  /\ conn' = [c \in Conns |-> IF At(c, "idle") THEN Idle ELSE Closed]
  /\ user' = [pc |-> "idle", phone |-> None]
  /\ cut' = None /\ pick' = None
  /\ firstCode' = IF CodeLive(codeDisk) THEN codeDisk ELSE codeCount + 1
  /\ autoEver' = auto
  /\ UNCHANGED <<disk, phones>>

-----------------------------------------------------------------------------

Serve(c) ==
  \/ ReadKey(c) \/ ReadCode(c) \/ ReadStanding(c) \/ Decide(c) \/ Approve(c) \/ Attach(c)
  \/ MarkConnected(c) \/ CheckCurrent(c) \/ Announce(c)
  \/ EndStale(c) \/ ClearSender(c) \/ MarkDisconnected(c) \/ BeginGrace(c)

ManualDisconnect ==
  Pause \/ RetireCode \/ EraseCode \/ Forget \/ DropSender \/ DeleteRow

Next ==
  \/ \E c \in Conns : Serve(c) \/ Lose(c)
  \/ \E c \in Conns, p \in Phones : Dial(c, p)
  \/ \E p \in Phones : Scan(p) \/ Remove(p) \/ Pick(p)
  \/ \E on \in BOOLEAN : SetAuto(on)
  \/ EndGrace \/ PairingCodeIsLive \/ ShowCode \/ Expire \/ Disconnect \/ ManualDisconnect \/ Restart

Spec == Init /\ [][Next]_vars

\* The runtime runs every ready task, the main thread finishes its command and the timer ends;
\* phones and users are free to do nothing.
FairSpec ==
  /\ Spec
  /\ WF_vars(ManualDisconnect) /\ WF_vars(EndGrace)
  /\ \A c \in Conns : WF_vars(Serve(c))

-----------------------------------------------------------------------------
(* What the PC promises. *)

\* The connection attached stays attached until it ends itself, another one replaces it or
\* the user lets the phone go: the late end of a replaced connection never detaches its
\* successor.  (state.rs:559-588, ws_server.rs:460-468)
OnlyItsEndDetaches ==
  [][sender # None /\ sender' = None => conn'[sender].pc \in Ending \/ user.pc = "drop"]_vars

\* A disconnect made while no phone was authenticating holds until the user asks again:
\* whatever is attached later scanned a code generated after it.  Excepted is the disconnect
\* whose code the relay supervisor reads back between its erasure in memory and the one
\* on disk: it stays valid there, and may let the phone in again.  (mark_manual_disconnect,
\* state.rs:521-553; clear_pairing_session, state.rs:460-468; may_attach, attach.rs:51-69)
DisconnectHolds ==
  (cut # None /\ user.pc = "idle") => (sender = None \/ conn[sender].key > cut)

\* With automatic reconnection off since the PC started, and no saved phone picked by
\* name, only a phone that scanned a code valid in this run gets attached, however often
\* it comes back.  (attach.rs:3-20; state.rs:85-88)
UninvitedStaysOut ==
  (sender # None /\ ~autoEver /\ pick = None) => key[conn[sender].phone] >= firstCode

\* A connection that has been replaced, or whose phone the user let go, always ends.
\* (stale_check, ws_server.rs:143-152)
ReplacedEnds ==
  \A c \in Conns : (At(c, "live") /\ sender # c) ~> At(c, "closed")

=============================================================================
