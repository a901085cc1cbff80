----------------------------- MODULE RelayWorker -----------------------------
(***************************************************************************)
(* The account object of the Cloudflare relay: relay-worker/src/account.ts *)
(* (class AccountRelay).  One durable object serves one account.  It keeps *)
(* a row per provisioned pair of devices in SQL, accepts at most one       *)
(* socket per role and pair, tells the two when both are there, and then   *)
(* forwards opaque frames from one to the other.                           *)
(*                                                                         *)
(* Every handler reads and writes without suspending once its capability   *)
(* hash is computed (the awaits before it read nothing, the one after it   *)
(* only stores an alarm already computed), so a handler is one action.     *)
(*                                                                         *)
(* Abstracted: an HTTP request that fails authentication changes nothing   *)
(* and is no action; a socket id and the generation drawn by the same join *)
(* are one fresh value; text, empty and oversized messages are all         *)
(* "malformed"; the byte budget of a session is its message budget.        *)
(* A send on a socket whose transport is lost throws, as the catch clauses *)
(* of the code expect.                                                     *)
(***************************************************************************)
EXTENDS Integers, FiniteSets, FiniteSetsExt

CONSTANTS
  Pairs,            \* pair ids, each provisioned at most once (randomHex(16))
  Sockets,          \* socket ids, each accepted at most once (randomHex(16))
  None,             \* SQL NULL, JavaScript null
  MaxPairs,         \* rows an account may hold (10)
  MaxProvisions,    \* provisions per window (20)
  ProvisionWindow,  \* length of that window (one hour)
  MaxSockets,       \* sockets an account may hold, closing ones included (20)
  PairTTL,          \* PAIR_TTL_MS
  SessionTTL,       \* SESSION_MS
  Burst,            \* credits of a full token bucket (60000)
  FrameCost,        \* credits a frame costs (600)
  MaxMessages,      \* MAX_SESSION_MESSAGES
  Horizon           \* bound: clients act only before this time

ASSUME NoneAssumption  == None \notin Sockets
ASSUME LimitAssumption ==
  /\ {MaxPairs, MaxProvisions, ProvisionWindow, MaxSockets, PairTTL, SessionTTL,
      Burst, FrameCost, MaxMessages, Horizon} \subseteq Nat
  /\ PairTTL > 0 /\ SessionTTL > 0 /\ FrameCost > 0
  /\ MaxProvisions > 0 /\ ProvisionWindow > 0

VARIABLES
  clock,    \* Date.now()
  row,      \* the SQL table "pairs"
  budget,   \* the SQL row "provision" of table "budgets"
  ws,       \* the sockets the runtime holds, with their attachments
  alarm     \* the durable object's alarm; NoAlarm when none is set

vars == <<clock, row, budget, ws, alarm>>

Roles == {"desktop", "phone"}
Opposite(r) == IF r = "desktop" THEN "phone" ELSE "desktop"

NoAlarm == 0
LastTick == Horizon + 2   \* bound: time enough after Horizon for the last alarms

Earlier(a, b) == IF a <= b THEN a ELSE b
Later(a, b)   == IF a >= b THEN a ELSE b

\* "gone" is a deleted row.
Row == [status  : {"unused", "live", "gone"},
        created : Nat,
        expires : Nat,
        sock    : [Roles -> Sockets \union {None}],
        gen     : Sockets \union {None},
        credits : [Roles -> 0..Burst],
        at      : [Roles -> Nat]]

\* "dropped": the transport is lost and the runtime has not noticed; readyState is
\* still OPEN.  "told" is the generation of the last relay control sent to the
\* endpoint: None is relay.peer_unavailable, anything else relay.peer_ready.
Socket == [st       : {"new", "open", "dropped", "closing", "gone"},
           pair     : Pairs \union {None},
           role     : Roles,
           peer     : Sockets \union {None},
           gen      : Sockets \union {None},
           deadline : Nat,
           msgs     : Nat,
           told     : Sockets \union {None}]

TypeOK ==
  /\ clock \in Nat
  /\ row \in [Pairs -> Row]
  /\ budget \in [start : Nat, count : Nat]
  /\ ws \in [Sockets -> Socket]
  /\ alarm \in Nat

NoSockets == [r \in Roles |-> None]

Init ==
  /\ clock = 0
  /\ row = [p \in Pairs |->
       [status |-> "unused", created |-> 0, expires |-> 0, sock |-> NoSockets, gen |-> None,
        credits |-> [r \in Roles |-> Burst], at |-> [r \in Roles |-> 0]]]
  /\ budget = [start |-> 0, count |-> 0]
  /\ ws = [s \in Sockets |->
       [st |-> "new", pair |-> None, role |-> "desktop", peer |-> None, gen |-> None,
        deadline |-> 0, msgs |-> 0, told |-> None]]
  /\ alarm = NoAlarm

-----------------------------------------------------------------------------
(* What the handlers are built from.  "rows" and "socks" are values of row and ws. *)

Live(rows, p) == rows[p].status = "live"

\* ctx.getWebSockets(): every accepted socket the runtime still holds
Held(socks)  == {s \in Sockets : socks[s].st \in {"open", "dropped", "closing"}}
IsOpen(socks, s) == socks[s].st \in {"open", "dropped"}

\* the socket is the one its row names for its role
Current(rows, socks, s) ==
  /\ socks[s].pair \in Pairs
  /\ Live(rows, socks[s].pair)
  /\ rows[socks[s].pair].sock[socks[s].role] = s

\* The hash, the role expiry and the capability generation of a row never change after
\* it is inserted, so they match for every socket the row has admitted.
Valid(rows, socks, s) ==
  /\ Current(rows, socks, s)
  /\ rows[socks[s].pair].expires > clock
  /\ socks[s].deadline > clock

\* Mutant of Fence: the generation survives the retirement.
FenceKeepingGeneration(rows, P) ==
  [p \in Pairs |-> IF p \in P THEN [rows[p] EXCEPT !.sock = NoSockets] ELSE rows[p]]

Fence(rows, P) ==
  [p \in Pairs |-> IF p \in P THEN [rows[p] EXCEPT !.sock = NoSockets, !.gen = None] ELSE rows[p]]

\* close() on every socket of S: a throwing send leaves a dropped one as it is.
Close(socks, S) ==
  [s \in Sockets |-> IF s \in S /\ socks[s].st = "open"
                     THEN [socks[s] EXCEPT !.st = "closing", !.told = None]
                     ELSE socks[s]]

OfPairs(socks, P) == {s \in Sockets : socks[s].pair \in P}

Delete(rows, P) ==
  [p \in Pairs |-> IF p \in P THEN [rows[p] EXCEPT !.status = "gone"] ELSE rows[p]]

Expired(rows) == {p \in Pairs : Live(rows, p) /\ rows[p].expires <= clock}

\* schedule(): the earliest deadline of a row or an open socket, and never the past.
Deadlines(rows, socks) ==
  {rows[p].expires : p \in {q \in Pairs : Live(rows, q)}}
    \union {socks[s].deadline : s \in {t \in Sockets : IsOpen(socks, t)}}

Schedule(rows, socks) ==
  IF Deadlines(rows, socks) = {} THEN NoAlarm
  ELSE Later(clock + 1, Min(Deadlines(rows, socks)))

-----------------------------------------------------------------------------
(* manage(): the HTTP interface of the account.  POST provisions a pair. *)

\* Mutant of WindowOver: an account without pairs starts a new window.
WindowOverWhenEmpty == clock >= budget.start + ProvisionWindow \/ \A p \in Pairs : ~Live(row, p)

WindowOver  == budget.count = 0 \/ clock >= budget.start + ProvisionWindow
PairLimit   == Cardinality({p \in Pairs : Live(row, p) /\ row[p].expires > clock}) >= MaxPairs
BudgetSpent == ~WindowOver /\ budget.count >= MaxProvisions

\* The insert commits together with the purge of expired pairs and the budget.
Provision(p) ==
  LET purged == Delete(Fence(row, Expired(row)), Expired(row)) IN
  /\ clock < Horizon
  /\ row[p].status = "unused"
  /\ ~PairLimit /\ ~BudgetSpent
  /\ row' = [purged EXCEPT ![p].status = "live", ![p].created = clock,
                           ![p].expires = clock + PairTTL]
  /\ budget' = IF WindowOver THEN [start |-> clock, count |-> 1]
               ELSE [budget EXCEPT !.count = @ + 1]
  /\ ws' = Close(ws, OfPairs(ws, Expired(row)))
  /\ alarm' = Schedule(row', ws')
  /\ UNCHANGED clock

\* 409 or 429: the transaction rolls back, the sockets it closed stay closed.
ProvisionRefused ==
  /\ clock < Horizon
  /\ PairLimit \/ BudgetSpent
  /\ ws' = Close(ws, OfPairs(ws, Expired(row)))
  /\ UNCHANGED <<clock, row, budget, alarm>>

\* Mutant of Revoke: the row goes, its sockets stay.
RevokeLeavingSockets(p) ==
  /\ clock < Horizon
  /\ Live(row, p)
  /\ row' = Delete(row, {p})
  /\ alarm' = Schedule(row', ws)
  /\ UNCHANGED <<clock, budget, ws>>

\* DELETE
Revoke(p) ==
  /\ clock < Horizon
  /\ Live(row, p)
  /\ row' = Delete(Fence(row, {p}), {p})
  /\ ws' = Close(ws, OfPairs(ws, {p}))
  /\ alarm' = Schedule(row', ws')
  /\ UNCHANGED <<clock, budget>>

-----------------------------------------------------------------------------
(* fetch(): an authenticated device of role r opens socket s on pair p. *)

\* Mutant of Stale: a socket of the same role is simply replaced.
StaleOnlyIfPeerGone(p, r) ==
  LET other == row[p].sock[Opposite(r)] IN
  other # None /\ ~(IsOpen(ws, other) /\ Valid(row, ws, other))

\* The row does not offer this role a clean place: a socket of the same role, a
\* session already under way, or a peer that is no longer a valid open socket.
Stale(p, r) ==
  LET other == row[p].sock[Opposite(r)] IN
  \/ row[p].sock[r] # None
  \/ row[p].gen # None
  \/ other # None /\ ~(IsOpen(ws, other) /\ Valid(row, ws, other))

Joinable(s, p) ==
  /\ clock < Horizon
  /\ ws[s].st = "new"
  /\ Live(row, p) /\ row[p].expires > clock

RowAtJoin(p, r) == IF Stale(p, r) THEN Fence(row, {p}) ELSE row
WsAtJoin(p, r)  == IF Stale(p, r) THEN Close(ws, OfPairs(ws, {p})) ELSE ws
PeerAtJoin(p, r) == RowAtJoin(p, r)[p].sock[Opposite(r)]

Crowded(socks) == Cardinality(Held(socks)) >= MaxSockets

\* The generation is drawn only when the peer is there.
GenerationFor(s, peer) == IF peer = None THEN None ELSE s

\* Mutant of Enter: a new session starts with a full bucket.
EnterWithFullBucket(rows, s, p, r, peer) ==
  [rows EXCEPT ![p].sock[r] = s, ![p].gen = GenerationFor(s, peer), ![p].credits[r] = Burst]

Enter(rows, s, p, r, peer) ==
  [rows EXCEPT ![p].sock[r] = s, ![p].gen = GenerationFor(s, peer)]

\* Mutant of Admit: only the joining device hears that its peer is ready.
AdmitUnannounced(socks, s, p, r, peer) ==
  [t \in Sockets |->
    IF t = s THEN
      [st |-> "open", pair |-> p, role |-> r, peer |-> peer, gen |-> GenerationFor(s, peer),
       deadline |-> Earlier(row[p].expires, clock + SessionTTL), msgs |-> 0,
       told |-> GenerationFor(s, peer)]
    ELSE IF t = peer THEN [socks[t] EXCEPT !.peer = s, !.gen = s]
    ELSE socks[t]]

\* The new attachment, the peer's, and the control both are sent.
Admit(socks, s, p, r, peer) ==
  [t \in Sockets |->
    IF t = s THEN
      [st |-> "open", pair |-> p, role |-> r, peer |-> peer, gen |-> GenerationFor(s, peer),
       deadline |-> Earlier(row[p].expires, clock + SessionTTL), msgs |-> 0,
       told |-> GenerationFor(s, peer)]
    ELSE IF t = peer THEN [socks[t] EXCEPT !.peer = s, !.gen = s, !.told = s]
    ELSE socks[t]]

Join(s, p, r) ==
  LET peer == PeerAtJoin(p, r) IN
  /\ Joinable(s, p)
  /\ ~Crowded(WsAtJoin(p, r))
  /\ peer # None => ws[peer].st = "open"
  /\ row' = Enter(RowAtJoin(p, r), s, p, r, peer)
  /\ ws' = Admit(WsAtJoin(p, r), s, p, r, peer)
  /\ alarm' = Schedule(row', ws')
  /\ UNCHANGED <<clock, budget>>

\* 429, after the stale sockets are retired
JoinRefused(s, p, r) ==
  /\ Joinable(s, p)
  /\ Crowded(WsAtJoin(p, r))
  /\ row' = RowAtJoin(p, r)
  /\ ws' = WsAtJoin(p, r)
  /\ UNCHANGED <<clock, budget, alarm>>

\* The send to the peer or a storage call throws once the socket is accepted: both go.
JoinFails(s, p, r) ==
  LET peer   == PeerAtJoin(p, r)
      joined == Admit(WsAtJoin(p, r), s, p, r, peer) IN
  /\ Joinable(s, p)
  /\ ~Crowded(WsAtJoin(p, r))
  /\ row' = Fence(Enter(RowAtJoin(p, r), s, p, r, peer), {p})
  /\ ws' = Close(joined, OfPairs(joined, {p}))
  /\ UNCHANGED <<clock, budget, alarm>>

-----------------------------------------------------------------------------
(* webSocketMessage(), webSocketClose(), alarm() and the runtime. *)

\* Credits come back with time, up to a full bucket; the code's Math.max on the time
\* guards against a clock that steps back, which this one does not.
Credits(p, r) == Earlier(Burst, row[p].credits[r] + clock - row[p].at[r])

\* Sender and receiver are mutually paired in the generation the row names.
MutuallyPaired(s) ==
  LET p    == ws[s].pair
      peer == row[p].sock[Opposite(ws[s].role)] IN
  /\ row[p].gen # None /\ ws[s].gen = row[p].gen
  /\ peer # None /\ ws[s].peer = peer
  /\ IsOpen(ws, peer) /\ ws[peer].role = Opposite(ws[s].role)
  /\ ws[peer].peer = s /\ ws[peer].gen = row[p].gen
  /\ Valid(row, ws, peer)

\* Mutant of WithinBudget: only the session's message count limits it.
WithinSessionOnly(s) == ws[s].msgs < MaxMessages

WithinBudget(s) ==
  /\ Credits(ws[s].pair, ws[s].role) >= FrameCost
  /\ ws[s].msgs < MaxMessages

Forwardable(s) == Valid(row, ws, s) /\ MutuallyPaired(s) /\ WithinBudget(s)

PeerOf(s) == row[ws[s].pair].sock[Opposite(ws[s].role)]

Charge(s) ==
  [row EXCEPT ![ws[s].pair].credits[ws[s].role] = Credits(ws[s].pair, ws[s].role) - FrameCost,
              ![ws[s].pair].at[ws[s].role] = clock]

\* The charge and the counter are stored before the frame is sent on.
Forward(s) ==
  /\ clock < Horizon
  /\ IsOpen(ws, s) /\ Forwardable(s)
  /\ ws[PeerOf(s)].st = "open"
  /\ row' = Charge(s)
  /\ ws' = [ws EXCEPT ![s].msgs = @ + 1]
  /\ UNCHANGED <<clock, budget, alarm>>

\* Anything else ends the session of the pair; from a socket that is no longer its
\* row's, only that socket.
Reject(s, malformed) ==
  /\ clock < Horizon
  /\ IsOpen(ws, s)
  /\ malformed \/ ~Forwardable(s)
  /\ IF Current(row, ws, s)
     THEN /\ row' = Fence(row, {ws[s].pair})
          /\ ws' = Close(ws, OfPairs(ws, {ws[s].pair}))
     ELSE /\ ws' = Close(ws, {s})
          /\ UNCHANGED row
  /\ UNCHANGED <<clock, budget, alarm>>

\* The handler throws: in a storage call, or in the send to a dropped peer once the frame
\* is charged.  It closes every socket of the account and leaves the rows as they are.
HandlerFails(s, charged) ==
  /\ clock < Horizon
  /\ IsOpen(ws, s)
  /\ charged => Forwardable(s)
  /\ row' = IF charged THEN Charge(s) ELSE row
  /\ ws' = Close(IF charged THEN [ws EXCEPT ![s].msgs = @ + 1] ELSE ws, Sockets)
  /\ UNCHANGED <<clock, budget, alarm>>

\* webSocketClose and webSocketError: the runtime reports the end of a socket.
CloseEvent(s) ==
  LET ended == IF Current(row, ws, s) THEN {ws[s].pair} ELSE {}
      left  == [ws EXCEPT ![s].st = "gone"] IN
  /\ s \in Held(ws)
  /\ row' = Fence(row, ended)
  /\ ws' = Close(left, OfPairs(left, ended))
  /\ UNCHANGED <<clock, budget, alarm>>

\* Mutant of Alarm: it does not schedule the next one.
AlarmUnscheduled ==
  LET over == Expired(row) \union {p \in Pairs : \E s \in Held(ws) :
                ws[s].pair = p /\ Current(row, ws, s) /\ ~Valid(row, ws, s)} IN
  /\ alarm # NoAlarm /\ clock >= alarm
  /\ row' = Delete(Fence(row, over), Expired(row))
  /\ ws' = Close(ws, OfPairs(ws, over))
  /\ alarm' = NoAlarm
  /\ UNCHANGED <<clock, budget>>

\* The alarm fires once; what it leaves is scheduled again.
Alarm ==
  LET lapsed == {p \in Pairs : \E s \in Held(ws) :
                   ws[s].pair = p /\ Current(row, ws, s) /\ ~Valid(row, ws, s)}
      over   == lapsed \union Expired(row) IN
  /\ alarm # NoAlarm /\ clock >= alarm
  /\ row' = Delete(Fence(row, over), Expired(row))
  /\ ws' = Close(ws, OfPairs(ws, over))
  /\ alarm' = Schedule(row', ws')
  /\ UNCHANGED <<clock, budget>>

\* The network takes the transport of an open socket away.
Drop(s) ==
  /\ clock < Horizon
  /\ ws[s].st = "open"
  /\ ws' = [ws EXCEPT ![s].st = "dropped"]
  /\ UNCHANGED <<clock, row, budget, alarm>>

\* A reset of the object: the sockets end without an event, the SQL and the alarm stay.
Restart ==
  /\ clock < Horizon
  /\ Held(ws) # {}
  /\ ws' = [s \in Sockets |-> IF s \in Held(ws) THEN [ws[s] EXCEPT !.st = "gone"] ELSE ws[s]]
  /\ UNCHANGED <<clock, row, budget, alarm>>

Tick ==
  /\ clock < LastTick
  /\ clock' = clock + 1
  /\ UNCHANGED <<row, budget, ws, alarm>>

Next ==
  \/ \E p \in Pairs : Provision(p)
  \/ ProvisionRefused
  \/ \E p \in Pairs : Revoke(p)
  \/ \E s \in Sockets, p \in Pairs, r \in Roles : Join(s, p, r)
  \/ \E s \in Sockets, p \in Pairs, r \in Roles : JoinRefused(s, p, r)
  \/ \E s \in Sockets, p \in Pairs, r \in Roles : JoinFails(s, p, r)
  \/ \E s \in Sockets : Forward(s)
  \/ \E s \in Sockets, malformed \in BOOLEAN : Reject(s, malformed)
  \/ \E s \in Sockets, charged \in BOOLEAN : HandlerFails(s, charged)
  \/ \E s \in Sockets : CloseEvent(s)
  \/ \E s \in Sockets : Drop(s)
  \/ Alarm
  \/ Restart
  \/ Tick

Spec == Init /\ [][Next]_vars

\* The runtime delivers a due alarm and time passes; nothing is asked of the devices.
FairSpec == Spec /\ WF_vars(Tick) /\ WF_vars(Alarm)

-----------------------------------------------------------------------------
(* What the relay promises. *)

\* Every socket with a working transport is the one its live row names for its role: a
\* replaced, revoked, expired or half-retired endpoint is never left connected, whatever
\* the order of joins, closes, failures and alarms.  (retire, account.ts:129-133)
OpenIsCurrent == \A s \in Sockets : ws[s].st = "open" => Current(row, ws, s)

\* A row has a generation exactly when both of its sockets are set, and then their two
\* attachments, stored apart from the row, name each other and that generation.
\* (account.ts:180-196, 129-133)
GenerationPaired ==
  \A p \in Pairs :
    LET d == row[p].sock["desktop"]  f == row[p].sock["phone"]  g == row[p].gen IN
    /\ g # None <=> (d # None /\ f # None)
    /\ g # None => /\ ws[d].peer = f /\ ws[f].peer = d
                   /\ ws[d].gen = g  /\ ws[f].gen = g

\* A frame is forwarded only between two endpoints that were both told of the generation
\* it belongs to, and have not been told since that it ended.  (account.ts:193-198, 213-241)
ForwardAnnounced ==
  [][\A s \in Sockets :
       ws'[s].msgs > ws[s].msgs =>
         ws[s].told # None /\ ws[PeerOf(s)].told = ws[s].told]_vars

\* Once a socket has been paired with a peer, nobody else ever takes that peer's place on
\* it: the end-to-end handshake of the two devices stays bound to one partner.
\* (the stale branch of fetch, account.ts:169-174)
PeerForLife ==
  [][\A s \in Sockets : ws[s].peer # None => ws'[s].peer = ws[s].peer]_vars

\* The frames forwarded for a role of a pair: the n-th of a socket is the pair of the two.
FramesOf(p, r) ==
  {f \in Sockets \X (1..MaxMessages) :
     ws[f[1]].pair = p /\ ws[f[1]].role = r /\ f[2] <= ws[f[1]].msgs}

\* Over all its sessions, a role of a pair never has more frames forwarded than a full
\* bucket and the time since provisioning pay for: reconnecting or replacing the socket
\* refills nothing.  (account.ts:226-233)
RateBound ==
  \A p \in Pairs, r \in Roles :
    FrameCost * Cardinality(FramesOf(p, r)) <= Burst + clock - row[p].created

\* The pairs provisioned since the window began.
ProvisionsIn(window) ==
  {p \in Pairs : row[p].status # "unused" /\ row[p].created >= window.start}

\* No more than MaxProvisions pairs are ever provisioned in one window, those since
\* revoked or expired included.  (account.ts:86-95)
ProvisionBudget == Cardinality(ProvisionsIn(budget)) <= MaxProvisions

\* Without any request arriving, an expired pair is deleted and a session that has
\* outlived its deadline is closed.  (alarm, account.ts:255-266)
DeadlinesEnforced ==
  /\ \A p \in Pairs : (Live(row, p) /\ row[p].expires <= clock) ~> ~Live(row, p)
  /\ \A s \in Sockets : (ws[s].st = "open" /\ ws[s].deadline <= clock) ~> ws[s].st # "open"

=============================================================================
