-------------------------- MODULE RelayWorkerProofs --------------------------
(***************************************************************************)
(* What holds of RelayWorker for every account, whatever its size and its  *)
(* limits.  Every handler is a composition of a few updates of the rows    *)
(* and the sockets; Consistent is kept by each of them, so the proof that  *)
(* a step keeps the invariant only puts the lemmas together.               *)
(***************************************************************************)
EXTENDS RelayWorker, TLAPS, FiniteSetTheorems, NaturalsInduction, WellFoundedInduction

\* A socket named by a row belongs to that place of it.
Owned(rows, socks) ==
  \A p \in Pairs, r \in Roles :
    LET s == rows[p].sock[r] IN
    s # None => socks[s].pair = p /\ socks[s].role = r /\ socks[s].st # "new"

\* Each role's socket of a paired row names the other's and the generation, and as long as
\* it is open its device knows that generation; a socket alone has no peer.
Linked(rows, socks) ==
  \A p \in Pairs, r \in Roles :
    LET s == rows[p].sock[r]  o == rows[p].sock[Opposite(r)]  g == rows[p].gen IN
    /\ g # None => /\ s # None /\ o # None
                   /\ socks[s].peer = o /\ socks[s].gen = g
                   /\ IsOpen(socks, s) => socks[s].told = g
    /\ s # None /\ g = None => o = None /\ socks[s].peer = None

\* A socket not yet accepted has no peer.
Blank(socks) == \A s \in Sockets : socks[s].st = "new" => socks[s].peer = None

Reachable(rows, socks) == \A s \in Sockets : socks[s].st = "open" => Current(rows, socks, s)

Consistent(rows, socks) ==
  /\ rows \in [Pairs -> Row]
  /\ socks \in [Sockets -> Socket]
  /\ Owned(rows, socks)
  /\ Linked(rows, socks)
  /\ Blank(socks)
  /\ Reachable(rows, socks)

Inv == TypeOK /\ Consistent(row, ws)

-----------------------------------------------------------------------------
(* The updates, one by one. *)

\* The two roles are each other's opposite.
LEMMA OppositeRole ==
  \A r \in Roles : Opposite(r) \in Roles /\ Opposite(r) # r /\ Opposite(Opposite(r)) = r
BY DEF Roles, Opposite

\* Fencing clears the places and the generation of the pairs of P and nothing else.
LEMMA FenceFacts ==
  ASSUME NEW rows \in [Pairs -> Row], NEW P
  PROVE  /\ Fence(rows, P) \in [Pairs -> Row]
         /\ \A p \in Pairs : p \notin P => Fence(rows, P)[p] = rows[p]
         /\ \A p \in Pairs : p \in P =>
              /\ Fence(rows, P)[p].gen = None
              /\ Fence(rows, P)[p].status = rows[p].status
              /\ \A r \in Roles : Fence(rows, P)[p].sock[r] = None
BY DEF Fence, Row, NoSockets

\* Closing moves an open socket of S to closing and takes the generation it was told back;
\* a socket that is still open afterwards was untouched.
LEMMA CloseFacts ==
  ASSUME NEW socks \in [Sockets -> Socket], NEW S
  PROVE  /\ Close(socks, S) \in [Sockets -> Socket]
         /\ \A s \in Sockets :
              /\ Close(socks, S)[s].pair = socks[s].pair
              /\ Close(socks, S)[s].role = socks[s].role
              /\ Close(socks, S)[s].peer = socks[s].peer
              /\ Close(socks, S)[s].gen  = socks[s].gen
              /\ Close(socks, S)[s].msgs = socks[s].msgs
              /\ Close(socks, S)[s].st = "new" <=> socks[s].st = "new"
              /\ Close(socks, S)[s].st = "open" => socks[s].st = "open" /\ s \notin S
              /\ IsOpen(Close(socks, S), s) => Close(socks, S)[s] = socks[s]
BY DEF Close, Socket, IsOpen

\* Same places, same attachments, and no socket comes to life.
SameLinks(socks, new) ==
  \A s \in Sockets :
    /\ new[s].pair = socks[s].pair /\ new[s].role = socks[s].role
    /\ new[s].peer = socks[s].peer /\ new[s].gen = socks[s].gen
    /\ new[s].st = "new" <=> socks[s].st = "new"
    /\ new[s].st = "open" => socks[s].st = "open"
    /\ IsOpen(new, s) => IsOpen(socks, s) /\ new[s].told = socks[s].told

\* A change of the sockets that keeps their links and opens none keeps the two consistent.
LEMMA SocketsKeep ==
  ASSUME NEW rows, NEW socks, Consistent(rows, socks),
         NEW new \in [Sockets -> Socket], SameLinks(socks, new)
  PROVE  Consistent(rows, new)
<1>0. /\ rows \in [Pairs -> Row] /\ socks \in [Sockets -> Socket]
      /\ Owned(rows, socks) /\ Linked(rows, socks) /\ Blank(socks) /\ Reachable(rows, socks)
  BY DEF Consistent
<1>1. \A p \in Pairs, r \in Roles : rows[p].sock[r] # None => rows[p].sock[r] \in Sockets
  BY <1>0 DEF Row
<1>3. Owned(rows, new)
  BY <1>0, <1>1 DEF Owned, SameLinks
<1>4. Linked(rows, new)
  BY <1>0, <1>1, OppositeRole DEF Linked, SameLinks
<1>5. Reachable(rows, new) /\ Blank(new)
  BY <1>0 DEF Reachable, Blank, Current, SameLinks
<1>6. QED
  BY <1>0, <1>3, <1>4, <1>5 DEF Consistent

\* Closing sockets, whichever they are.
LEMMA CloseKeeps ==
  ASSUME NEW rows, NEW socks, Consistent(rows, socks), NEW S
  PROVE  Consistent(rows, Close(socks, S))
<1>1. socks \in [Sockets -> Socket]
  BY DEF Consistent
<1>2. Close(socks, S) \in [Sockets -> Socket]
  BY <1>1, CloseFacts
<1>3. SameLinks(socks, Close(socks, S))
  BY <1>1, CloseFacts DEF SameLinks, IsOpen
<1>4. QED
  BY <1>2, <1>3, SocketsKeep

\* Changing anything of the rows but the places, the generation and what is live under them.
LEMMA RowsKeep ==
  ASSUME NEW rows, NEW socks, Consistent(rows, socks), NEW new \in [Pairs -> Row],
         \A p \in Pairs :
           /\ new[p].gen = rows[p].gen
           /\ \A r \in Roles : new[p].sock[r] = rows[p].sock[r]
           /\ Live(rows, p) => \/ Live(new, p)
                               \/ \A r \in Roles : rows[p].sock[r] = None
  PROVE  Consistent(new, socks)
<1>0. /\ rows \in [Pairs -> Row] /\ socks \in [Sockets -> Socket]
      /\ Owned(rows, socks) /\ Linked(rows, socks) /\ Blank(socks) /\ Reachable(rows, socks)
  BY DEF Consistent
<1>1. \A s \in Sockets : socks[s].role \in Roles
  BY <1>0 DEF Socket
<1>2. Owned(new, socks)
  BY <1>0 DEF Owned
<1>3. Linked(new, socks)
  BY <1>0, OppositeRole DEF Linked
<1>4. Reachable(new, socks)
  BY <1>0, <1>1, NoneAssumption DEF Reachable, Current
<1>5. QED
  BY <1>0, <1>2, <1>3, <1>4 DEF Consistent

\* Retiring pairs: the rows are fenced and their sockets closed.
LEMMA RetireKeeps ==
  ASSUME NEW rows, NEW socks, Consistent(rows, socks), NEW P \in SUBSET Pairs
  PROVE  Consistent(Fence(rows, P), Close(socks, OfPairs(socks, P)))
<1> DEFINE R == Fence(rows, P)
           C == Close(socks, OfPairs(socks, P))
<1>1. Consistent(rows, C)
  BY CloseKeeps
<1>2. /\ rows \in [Pairs -> Row] /\ C \in [Sockets -> Socket]
      /\ Owned(rows, C) /\ Linked(rows, C) /\ Blank(C) /\ Reachable(rows, C)
  BY <1>1 DEF Consistent
<1>3. /\ R \in [Pairs -> Row]
      /\ \A p \in Pairs : p \notin P => R[p] = rows[p]
      /\ \A p \in Pairs : p \in P => R[p].gen = None /\ \A r \in Roles : R[p].sock[r] = None
  BY <1>2, FenceFacts
<1>4. \A s \in Sockets : C[s].st = "open" => C[s].pair \notin P
  <2>1. socks \in [Sockets -> Socket]
    BY DEF Consistent
  <2>2. QED
    BY <2>1, CloseFacts DEF OfPairs
<1> HIDE DEF R, C
<1>5. Owned(R, C)
  BY <1>2, <1>3 DEF Owned
<1>6. Linked(R, C)
  BY <1>2, <1>3, OppositeRole DEF Linked
<1>7. Reachable(R, C)
  BY <1>2, <1>3, <1>4 DEF Reachable, Current, Live
<1>8. QED
  BY <1>2, <1>3, <1>5, <1>6, <1>7 DEF Consistent, R, C

\* Deleting rows that hold no socket any more.
LEMMA DeleteKeeps ==
  ASSUME NEW rows, NEW socks, NEW P \in SUBSET Pairs, NEW E \in SUBSET P, Consistent(rows, socks)
  PROVE  Consistent(Delete(Fence(rows, P), E), Close(socks, OfPairs(socks, P)))
<1> DEFINE R == Fence(rows, P)
           C == Close(socks, OfPairs(socks, P))
           D == Delete(R, E)
<1>1. Consistent(R, C)
  BY RetireKeeps
<1>2. rows \in [Pairs -> Row] /\ R \in [Pairs -> Row]
  BY <1>1 DEF Consistent
<1>3. \A p \in P : \A r \in Roles : R[p].sock[r] = None
  BY <1>2, FenceFacts
<1> HIDE DEF R, C
<1>4. D \in [Pairs -> Row]
  BY <1>2 DEF Delete, Row
<1>5. \A p \in Pairs :
        /\ D[p].gen = R[p].gen
        /\ \A r \in Roles : D[p].sock[r] = R[p].sock[r]
        /\ p \notin E => D[p] = R[p]
  BY <1>2 DEF Delete, Row
<1> HIDE DEF D
<1>6. Consistent(D, C)
  BY <1>1, <1>3, <1>4, <1>5, RowsKeep DEF Live
<1>7. QED
  BY <1>6 DEF R, C, D

\* A socket entering a place that the row offers clean, with the peer it finds there.
LEMMA EntryKeeps ==
  ASSUME TypeOK,
         NEW rows, NEW socks, Consistent(rows, socks),
         NEW s \in Sockets, NEW p \in Pairs, NEW r \in Roles,
         Live(rows, p), socks[s].st = "new",
         rows[p].sock[r] = None, rows[p].gen = None
  PROVE  LET peer == rows[p].sock[Opposite(r)] IN
         Consistent(Enter(rows, s, p, r, peer), Admit(socks, s, p, r, peer))
<1> DEFINE o    == Opposite(r)
           peer == rows[p].sock[o]
           R    == Enter(rows, s, p, r, peer)
           A    == Admit(socks, s, p, r, peer)
           g    == GenerationFor(s, peer)
<1>0. /\ rows \in [Pairs -> Row] /\ socks \in [Sockets -> Socket]
      /\ Owned(rows, socks) /\ Linked(rows, socks) /\ Blank(socks) /\ Reachable(rows, socks)
  BY DEF Consistent
<1>1. /\ o \in Roles /\ o # r /\ Opposite(o) = r
      /\ Roles = {r, o}
  BY DEF Roles, Opposite
<1>2. peer \in Sockets \union {None} /\ g \in Sockets \union {None}
  BY <1>0, <1>1 DEF Row, GenerationFor
<1>3. peer # s
  BY <1>0, <1>1, NoneAssumption DEF Owned
<1>4. R \in [Pairs -> Row]
  <2> DEFINE in == [rows[p].sock EXCEPT ![r] = s]
  <2>1. in \in [Roles -> Sockets \union {None}]
    BY <1>0 DEF Row
  <2>2. R = [rows EXCEPT ![p] = [rows[p] EXCEPT !.sock = in, !.gen = g]]
    BY <1>0 DEF Enter
  <2> HIDE DEF in, g
  <2>3. [rows[p] EXCEPT !.sock = in, !.gen = g] \in Row
    BY <1>0, <1>2, <2>1 DEF Row
  <2>4. QED
    BY <1>0, <2>2, <2>3
<1>5. Earlier(row[p].expires, clock + SessionTTL) \in Nat
  BY LimitAssumption DEF TypeOK, Row, Earlier
<1>6. A \in [Sockets -> Socket]
  <2> DEFINE d == Earlier(row[p].expires, clock + SessionTTL)
  <2>1. [st |-> "open", pair |-> p, role |-> r, peer |-> peer, gen |-> g,
         deadline |-> d, msgs |-> 0, told |-> g] \in Socket
    BY <1>2, <1>5 DEF Socket
  <2>2. \A k \in Socket : [k EXCEPT !.peer = s, !.gen = s, !.told = s] \in Socket
    BY DEF Socket
  <2>3. \A t \in Sockets : A[t] \in Socket
    BY <1>0, <2>1, <2>2 DEF Admit
  <2>4. QED
    BY <2>3 DEF Admit
<1>7. /\ R[p].gen = g /\ R[p].sock[r] = s /\ R[p].sock[o] = peer /\ R[p].status = rows[p].status
      /\ \A q \in Pairs : q # p => R[q] = rows[q]
  BY <1>0, <1>1 DEF Enter, Row
<1>8. /\ A[s].st = "open" /\ A[s].pair = p /\ A[s].role = r /\ A[s].peer = peer
      /\ A[s].gen = g /\ A[s].told = g
  BY DEF Admit
<1>9. /\ \A t \in Sockets : t # s /\ t # peer => A[t] = socks[t]
      /\ peer # None => /\ A[peer].peer = s /\ A[peer].gen = s /\ A[peer].told = s
                        /\ A[peer].st = socks[peer].st
                        /\ A[peer].pair = socks[peer].pair /\ A[peer].role = socks[peer].role
  BY <1>0, <1>2, <1>3 DEF Admit, Socket
<1>10. peer # None => g = s
  BY DEF GenerationFor
<1>11. peer = None => g = None
  BY DEF GenerationFor
<1>12. ASSUME NEW q \in Pairs, NEW x \in Roles, rows[q].sock[x] # None
       PROVE  /\ rows[q].sock[x] \in Sockets /\ rows[q].sock[x] # s
              /\ rows[q].sock[x] = peer => q = p
  BY <1>0, <1>1, <1>12 DEF Row, Owned
<1>p. peer = rows[p].sock[o]
  OBVIOUS
<1> HIDE DEF R, A, g, peer
<1>13. Owned(R, A)
  <2> SUFFICES ASSUME NEW q \in Pairs, NEW x \in Roles, R[q].sock[x] # None
               PROVE  LET t == R[q].sock[x] IN A[t].pair = q /\ A[t].role = x /\ A[t].st # "new"
    BY DEF Owned
  <2>1. CASE q = p /\ x = r
    BY <2>1, <1>7, <1>8
  <2>2. CASE q = p /\ x = o
    <3>1. socks[peer].pair = p /\ socks[peer].role = o /\ socks[peer].st # "new"
      BY <2>2, <1>0, <1>1, <1>7, <1>p DEF Owned
    <3>2. QED
      BY <3>1, <2>2, <1>7, <1>9
  <2>3. CASE q # p
    <3> DEFINE t == rows[q].sock[x]
    <3>1. R[q].sock[x] = t
      BY <2>3, <1>7
    <3>2. t \in Sockets /\ t # s /\ t # peer
      BY <2>3, <3>1, <1>12
    <3>3. A[t] = socks[t]
      BY <3>2, <1>9
    <3>4. QED
      BY <3>1, <3>3, <1>0 DEF Owned
  <2>4. QED
    BY <2>1, <2>2, <2>3, <1>1
<1>14. Linked(R, A)
  <2> SUFFICES ASSUME NEW q \in Pairs, NEW x \in Roles
               PROVE  LET t == R[q].sock[x]  u == R[q].sock[Opposite(x)]  h == R[q].gen IN
                      /\ h # None => /\ t # None /\ u # None
                                     /\ A[t].peer = u /\ A[t].gen = h
                                     /\ IsOpen(A, t) => A[t].told = h
                      /\ t # None /\ h = None => u = None /\ A[t].peer = None
    BY DEF Linked
  <2>1. CASE q = p /\ x = r
    BY <2>1, <1>7, <1>8, <1>10, <1>11, <1>2, NoneAssumption
  <2>2. CASE q = p /\ x = o
    BY <2>2, <1>1, <1>7, <1>9, <1>10, <1>11, NoneAssumption
  <2>3. CASE q # p
    <3> DEFINE t == rows[q].sock[x]
    <3>1. R[q] = rows[q]
      BY <2>3, <1>7
    <3>2. t # None => t \in Sockets /\ t # s /\ t # peer
      BY <2>3, <1>12
    <3>3. t # None => A[t] = socks[t]
      BY <3>2, <1>9
    <3>4. QED
      BY <3>1, <3>3, <1>0 DEF Linked, IsOpen
  <2>4. QED
    BY <2>1, <2>2, <2>3, <1>1
<1>15. Reachable(R, A)
  <2> SUFFICES ASSUME NEW t \in Sockets, A[t].st = "open"
               PROVE  Current(R, A, t)
    BY DEF Reachable
  <2>1. CASE t = s
    BY <2>1, <1>7, <1>8 DEF Current, Live
  <2>2. CASE t # s
    <3>1. A[t].st = socks[t].st /\ A[t].pair = socks[t].pair /\ A[t].role = socks[t].role
      BY <2>2, <1>9, <1>2, NoneAssumption
    <3>2. Current(rows, socks, t)
      BY <3>1, <1>0 DEF Reachable
    <3>3. ~(socks[t].pair = p /\ socks[t].role = r)
      BY <3>2, <1>0, NoneAssumption DEF Current
    <3>4. socks[t].role \in Roles
      BY <1>0 DEF Socket
    <3>5. QED
      BY <3>1, <3>2, <3>3, <3>4, <1>1, <1>7, <1>p DEF Current, Live
  <2>3. QED
    BY <2>1, <2>2
<1>16. Blank(A)
  <2>1. peer # None => socks[peer].st # "new"
    BY <1>0, <1>1, <1>p DEF Owned
  <2>2. SUFFICES ASSUME NEW t \in Sockets, A[t].st = "new" PROVE A[t].peer = None
    BY DEF Blank
  <2>3. t # s
    BY <1>8, <2>2
  <2>4. t # peer
    BY <1>2, <1>9, <2>1, <2>2, NoneAssumption
  <2>5. QED
    BY <1>0, <1>9, <2>2, <2>3, <2>4 DEF Blank
<1>17. QED
  BY <1>4, <1>6, <1>13, <1>14, <1>15, <1>16 DEF Consistent, R, A, peer

\* What a stale place becomes clean by: retiring the pair, or nothing if it is clean.
LEMMA JoinClean ==
  ASSUME Inv, NEW p \in Pairs, NEW r \in Roles, Live(row, p)
  PROVE  /\ Consistent(RowAtJoin(p, r), WsAtJoin(p, r))
         /\ Live(RowAtJoin(p, r), p)
         /\ RowAtJoin(p, r)[p].sock[r] = None /\ RowAtJoin(p, r)[p].gen = None
         /\ \A s \in Sockets : WsAtJoin(p, r)[s].st = "new" <=> ws[s].st = "new"
<1>0. Consistent(row, ws) /\ row \in [Pairs -> Row] /\ ws \in [Sockets -> Socket]
  BY DEF Inv, TypeOK
<1>1. CASE Stale(p, r)
  <2>1. RowAtJoin(p, r) = Fence(row, {p}) /\ WsAtJoin(p, r) = Close(ws, OfPairs(ws, {p}))
    BY <1>1 DEF RowAtJoin, WsAtJoin
  <2>2. Consistent(Fence(row, {p}), Close(ws, OfPairs(ws, {p})))
    BY <1>0, RetireKeeps
  <2>3. QED
    BY <1>0, <2>1, <2>2, FenceFacts, CloseFacts DEF Live
<1>2. CASE ~Stale(p, r)
  BY <1>0, <1>2 DEF RowAtJoin, WsAtJoin, Stale
<1>3. QED
  BY <1>1, <1>2

\* Charging a frame to its sender touches a bucket and a counter, none of the links.
LEMMA ChargeKeeps ==
  ASSUME Inv, NEW s \in Sockets, Forwardable(s)
  PROVE  Consistent(Charge(s), [ws EXCEPT ![s].msgs = @ + 1])
<1> DEFINE p == ws[s].pair
           r == ws[s].role
           c == Credits(p, r) - FrameCost
           new == [ws EXCEPT ![s].msgs = @ + 1]
<1>0. Consistent(row, ws) /\ row \in [Pairs -> Row] /\ ws \in [Sockets -> Socket] /\ clock \in Nat
  BY DEF Inv, TypeOK
<1>1. p \in Pairs /\ r \in Roles
  BY <1>0 DEF Forwardable, Valid, Current, Socket
<1>2. c \in 0..Burst
  <2>1. row[p].credits[r] \in Int /\ row[p].at[r] \in Int
    BY <1>0, <1>1 DEF Row
  <2>2. Credits(p, r) >= FrameCost
    BY DEF Forwardable, WithinBudget
  <2>3. Burst \in Nat /\ FrameCost \in Nat
    BY LimitAssumption
  <2>4. Credits(p, r) \in Int /\ Credits(p, r) <= Burst
    BY <1>0, <2>1, <2>3 DEF Credits, Earlier
  <2>5. QED
    BY <2>2, <2>3, <2>4
<1>3. new \in [Sockets -> Socket] /\ SameLinks(ws, new)
  BY <1>0 DEF Socket, SameLinks, IsOpen
<1>4. Consistent(row, new)
  BY <1>0, <1>3, SocketsKeep
<1> DEFINE cs == [row[p].credits EXCEPT ![r] = c]
           as == [row[p].at EXCEPT ![r] = clock]
<1>5. Charge(s) = [row EXCEPT ![p] = [row[p] EXCEPT !.credits = cs, !.at = as]]
  BY <1>0 DEF Charge
<1>6. cs \in [Roles -> 0..Burst] /\ as \in [Roles -> Nat]
  BY <1>0, <1>1, <1>2 DEF Row
<1> HIDE DEF cs, as, c, new
<1>7. [row[p] EXCEPT !.credits = cs, !.at = as] \in Row
  BY <1>0, <1>1, <1>6 DEF Row
<1>8. /\ Charge(s) \in [Pairs -> Row]
      /\ \A q \in Pairs : /\ Charge(s)[q].gen = row[q].gen
                           /\ Charge(s)[q].sock = row[q].sock
                           /\ Charge(s)[q].status = row[q].status
  BY <1>0, <1>1, <1>5, <1>7 DEF Row
<1>9. Consistent(Charge(s), new)
  BY <1>4, <1>8, RowsKeep DEF Live
<1>10. QED
  BY <1>9 DEF new

\* A set of natural numbers that is not empty has a least element.
LEMMA ScheduleType ==
  ASSUME clock \in Nat, NEW rows \in [Pairs -> Row], NEW socks \in [Sockets -> Socket]
  PROVE  Schedule(rows, socks) \in Nat
<1> DEFINE D == Deadlines(rows, socks)
<1>1. D \subseteq Nat
  BY DEF Deadlines, Row, Socket
<1> HIDE DEF D
<1>2. CASE D = {}
  BY <1>2 DEF Schedule, NoAlarm, D
<1>3. CASE D # {}
  <2>1. \E d \in D : \A e \in D : ~(<<e, d>> \in OpToRel(<, Nat))
    BY <1>1, <1>3, NatLessThanWellFounded, WFMin
  <2>2. \E d \in D : \A e \in D : d <= e
    <3>1. ASSUME NEW d \in Nat, NEW e \in Nat
          PROVE  <<e, d>> \in OpToRel(<, Nat) <=> e < d
      BY Zenon DEF OpToRel
    <3>2. PICK d \in D : \A e \in D : ~(<<e, d>> \in OpToRel(<, Nat))
      BY <2>1
    <3>3. \A e \in D : ~(e < d)
      BY <1>1, <3>1, <3>2
    <3>4. QED
      BY <1>1, <3>3
  <2>3. Min(D) \in D
    BY <2>2 DEF Min
  <2>4. QED
    BY <1>1, <1>3, <2>3 DEF Schedule, Later, D
<1>4. QED
  BY <1>2, <1>3

-----------------------------------------------------------------------------
(* The invariant. *)

\* The invariant holds of an account without pairs and sockets.
LEMMA InitInv == Init => Inv
<1> SUFFICES ASSUME Init PROVE Inv
  OBVIOUS
<1>1. Burst \in Nat
  BY LimitAssumption
<1>2. TypeOK
  BY <1>1 DEF Init, TypeOK, Row, Socket, NoSockets, NoAlarm, Roles
<1>3. /\ \A p \in Pairs : row[p].gen = None /\ \A r \in Roles : row[p].sock[r] = None
      /\ \A s \in Sockets : ws[s].st = "new"
  BY DEF Init, NoSockets
<1>n. \A s \in Sockets : ws[s].peer = None
  BY DEF Init
<1>4. Owned(row, ws) /\ Linked(row, ws) /\ Blank(ws) /\ Reachable(row, ws)
  BY <1>3, <1>n, OppositeRole DEF Owned, Blank, Linked, Reachable
<1>5. QED
  BY <1>2, <1>4 DEF Inv, Consistent, TypeOK

\* Every handler, event and tick keeps the invariant: one step per action of Next.
LEMMA NextInv == Inv /\ [Next]_vars => Inv'
<1> SUFFICES ASSUME Inv, [Next]_vars PROVE Inv'
  OBVIOUS
<1>0. /\ TypeOK /\ Consistent(row, ws)
      /\ row \in [Pairs -> Row] /\ ws \in [Sockets -> Socket] /\ clock \in Nat /\ alarm \in Nat
      /\ Expired(row) \in SUBSET Pairs
  BY DEF Inv, TypeOK, Expired
\* The scalars follow from the types of the rows and the sockets.
<1>s. ASSUME Consistent(row', ws'), clock' \in Nat, budget' \in [start : Nat, count : Nat],
             alarm' \in Nat
      PROVE  Inv'
  BY <1>s DEF Inv, TypeOK, Consistent
<1>a. ASSUME Consistent(row', ws') PROVE Schedule(row', ws') \in Nat
  BY <1>a, <1>0, ScheduleType DEF Consistent
<1>b. budget \in [start : Nat, count : Nat]
  BY <1>0 DEF TypeOK
<1>1. ASSUME NEW p \in Pairs, Provision(p) PROVE Inv'
  <2> DEFINE purged == Delete(Fence(row, Expired(row)), Expired(row))
  <2>1. Consistent(purged, ws')
    BY <1>0, <1>1, DeleteKeeps DEF Provision
  <2>2. purged \in [Pairs -> Row]
    BY <2>1 DEF Consistent
  <2> HIDE DEF purged
  <2>3. row' = [purged EXCEPT ![p].status = "live", ![p].created = clock,
                              ![p].expires = clock + PairTTL]
    BY <1>1 DEF Provision, purged
  <2>4. clock + PairTTL \in Nat
    BY <1>0, LimitAssumption
  <2>5. row' \in [Pairs -> Row]
    <3> DEFINE fresh == [purged[p] EXCEPT !.status = "live", !.created = clock,
                                          !.expires = clock + PairTTL]
    <3>1. fresh \in Row
      BY <1>0, <2>2, <2>4 DEF Row
    <3>2. row' = [purged EXCEPT ![p] = fresh]
      BY <2>2, <2>3
    <3>3. QED
      BY <2>2, <3>1, <3>2
  <2>6. \A q \in Pairs : /\ row'[q].gen = purged[q].gen /\ row'[q].sock = purged[q].sock
                         /\ Live(purged, q) => Live(row', q)
    BY <2>2, <2>3 DEF Row, Live
  <2>7. Consistent(row', ws')
    BY <2>1, <2>5, <2>6, RowsKeep
  <2>8. budget' \in [start : Nat, count : Nat]
    BY <1>0, <1>1, <1>b DEF Provision
  <2>9. QED
    BY <1>0, <1>1, <1>s, <1>a, <2>7, <2>8 DEF Provision
<1>2. ASSUME ProvisionRefused PROVE Inv'
  BY <1>0, <1>2, <1>b, <1>s, CloseKeeps DEF ProvisionRefused
<1>3. ASSUME NEW p \in Pairs, Revoke(p) PROVE Inv'
  <2>1. Consistent(row', ws')
    BY <1>0, <1>3, DeleteKeeps DEF Revoke
  <2>2. QED
    BY <1>0, <1>3, <1>b, <1>s, <1>a, <2>1 DEF Revoke
<1>4. ASSUME NEW s \in Sockets, NEW p \in Pairs, NEW r \in Roles, Joinable(s, p)
      PROVE  LET peer == PeerAtJoin(p, r) IN
             Consistent(Enter(RowAtJoin(p, r), s, p, r, peer),
                        Admit(WsAtJoin(p, r), s, p, r, peer))
  BY <1>0, <1>4, JoinClean, EntryKeeps DEF Joinable, PeerAtJoin
<1>5. ASSUME NEW s \in Sockets, NEW p \in Pairs, NEW r \in Roles, Join(s, p, r) PROVE Inv'
  <2>1. Consistent(row', ws')
    BY <1>4, <1>5 DEF Join
  <2>2. QED
    BY <1>0, <1>5, <1>b, <1>s, <1>a, <2>1 DEF Join
<1>6. ASSUME NEW s \in Sockets, NEW p \in Pairs, NEW r \in Roles, JoinRefused(s, p, r) PROVE Inv'
  <2>1. Consistent(row', ws')
    BY <1>6, JoinClean DEF JoinRefused, Joinable
  <2>2. QED
    BY <1>0, <1>6, <1>b, <1>s, <2>1 DEF JoinRefused
<1>7. ASSUME NEW s \in Sockets, NEW p \in Pairs, NEW r \in Roles, JoinFails(s, p, r) PROVE Inv'
  <2>1. Consistent(row', ws')
    BY <1>4, <1>7, RetireKeeps DEF JoinFails
  <2>2. QED
    BY <1>0, <1>7, <1>b, <1>s, <2>1 DEF JoinFails
<1>8. ASSUME NEW s \in Sockets, Forward(s) PROVE Inv'
  <2>1. Consistent(row', ws')
    BY <1>8, ChargeKeeps DEF Forward
  <2>2. QED
    BY <1>0, <1>8, <1>b, <1>s, <2>1 DEF Forward
<1>9. ASSUME NEW s \in Sockets, NEW malformed \in BOOLEAN, Reject(s, malformed) PROVE Inv'
  <2>1. CASE Current(row, ws, s)
    <3>1. {ws[s].pair} \in SUBSET Pairs
      BY <2>1 DEF Current
    <3>2. Consistent(row', ws')
      BY <1>0, <1>9, <2>1, <3>1, RetireKeeps DEF Reject
    <3>3. QED
      BY <1>0, <1>9, <1>b, <1>s, <3>2 DEF Reject
  <2>2. CASE ~Current(row, ws, s)
    <3>1. Consistent(row', ws')
      BY <1>0, <1>9, <2>2, CloseKeeps DEF Reject
    <3>2. QED
      BY <1>0, <1>9, <1>b, <1>s, <3>1 DEF Reject
  <2>3. QED
    BY <2>1, <2>2
<1>10. ASSUME NEW s \in Sockets, NEW charged \in BOOLEAN, HandlerFails(s, charged) PROVE Inv'
  <2>1. CASE charged
    BY <1>0, <1>10, <1>b, <1>s, <2>1, ChargeKeeps, CloseKeeps DEF HandlerFails
  <2>2. CASE ~charged
    BY <1>0, <1>10, <1>b, <1>s, <2>2, CloseKeeps DEF HandlerFails
  <2>3. QED
    BY <2>1, <2>2
<1>11. ASSUME NEW s \in Sockets, CloseEvent(s) PROVE Inv'
  <2> DEFINE left  == [ws EXCEPT ![s].st = "gone"]
             ended == IF Current(row, ws, s) THEN {ws[s].pair} ELSE {}
  <2>1. left \in [Sockets -> Socket] /\ SameLinks(ws, left)
    BY <1>0, <1>11 DEF Socket, SameLinks, IsOpen, CloseEvent, Held
  <2>2. Consistent(row, left)
    BY <1>0, <2>1, SocketsKeep
  <2>3. ended \in SUBSET Pairs
    BY DEF Current
  <2>4. Consistent(row', ws')
    BY <1>11, <2>2, <2>3, RetireKeeps DEF CloseEvent
  <2>5. QED
    BY <1>0, <1>11, <1>b, <1>s, <2>4 DEF CloseEvent
<1>12. ASSUME NEW s \in Sockets, Drop(s) PROVE Inv'
  <2>1. ws' \in [Sockets -> Socket] /\ SameLinks(ws, ws')
    BY <1>0, <1>12 DEF Socket, SameLinks, IsOpen, Drop
  <2>2. QED
    BY <1>0, <1>12, <1>b, <1>s, <2>1, SocketsKeep DEF Drop
<1>13. ASSUME Alarm PROVE Inv'
  <2> DEFINE lapsed == {p \in Pairs : \E s \in Held(ws) :
                         ws[s].pair = p /\ Current(row, ws, s) /\ ~Valid(row, ws, s)}
             over   == lapsed \union Expired(row)
  <2>1. over \in SUBSET Pairs /\ Expired(row) \in SUBSET over
    BY DEF Expired
  <2>2. Consistent(Delete(Fence(row, over), Expired(row)), Close(ws, OfPairs(ws, over)))
    BY <1>0, <2>1, DeleteKeeps
  <2>3. Consistent(row', ws')
    BY <1>13, <2>2 DEF Alarm
  <2>4. QED
    BY <1>0, <1>13, <1>b, <1>s, <1>a, <2>3 DEF Alarm
<1>14. ASSUME Restart PROVE Inv'
  <2>1. ws' \in [Sockets -> Socket] /\ SameLinks(ws, ws')
    BY <1>0, <1>14 DEF Socket, SameLinks, IsOpen, Restart, Held
  <2>2. QED
    BY <1>0, <1>14, <1>b, <1>s, <2>1, SocketsKeep DEF Restart
<1>15. ASSUME Tick PROVE Inv'
  BY <1>0, <1>15, <1>b, <1>s DEF Tick
<1>16. CASE UNCHANGED vars
  BY <1>0, <1>16, <1>b, <1>s DEF vars
<1>17. QED
  BY <1>1, <1>2, <1>3, <1>5, <1>6, <1>7, <1>8, <1>9, <1>10, <1>11, <1>12, <1>13, <1>14, <1>15, <1>16
     DEF Next

\* The inductive invariant from which the properties below follow.
THEOREM InvHolds == Spec => []Inv
<1>1. QED
  BY InitInv, NextInv, PTL DEF Spec

-----------------------------------------------------------------------------
(* The properties of RelayWorker. *)

\* The type invariant: in particular a bucket never goes below empty nor above full, and an
\* alarm is always a time.
THEOREM TypeCorrect == Spec => []TypeOK
<1>1. Inv => TypeOK
  BY DEF Inv
<1>2. QED
  BY <1>1, InvHolds, PTL

\* Replacement, revocation, expiry and failures leave no open socket behind.
THEOREM OpenSocketsAreCurrent == Spec => []OpenIsCurrent
<1>1. Inv => OpenIsCurrent
  BY DEF Inv, Consistent, Reachable, OpenIsCurrent
<1>2. QED
  BY <1>1, InvHolds, PTL

\* A row and the two attachments stored apart from it agree on who is paired with whom.
THEOREM RowsAndAttachmentsAgree == Spec => []GenerationPaired
<1>1. Inv => GenerationPaired
  <2> SUFFICES ASSUME Inv, NEW p \in Pairs
               PROVE  LET d == row[p].sock["desktop"]  f == row[p].sock["phone"]
                          g == row[p].gen IN
                      /\ g # None <=> (d # None /\ f # None)
                      /\ g # None => /\ ws[d].peer = f /\ ws[f].peer = d
                                     /\ ws[d].gen = g  /\ ws[f].gen = g
    BY DEF GenerationPaired
  <2>1. /\ "desktop" \in Roles /\ "phone" \in Roles
        /\ Opposite("desktop") = "phone" /\ Opposite("phone") = "desktop"
    BY DEF Roles, Opposite
  <2>2. Linked(row, ws)
    BY DEF Inv, Consistent
  <2>3. QED
    BY <2>1, <2>2 DEF Linked
<1>2. QED
  BY <1>1, InvHolds, PTL

\* A socket once paired keeps its partner.
THEOREM PartnersAreForLife == Spec => PeerForLife
<1> DEFINE Kept == \A s \in Sockets : ws[s].peer # None => ws'[s].peer = ws[s].peer
<1>1. ASSUME Inv, [Next]_vars PROVE [Kept]_vars
  <2>0. ws \in [Sockets -> Socket] /\ Consistent(row, ws)
    BY <1>1 DEF Inv, TypeOK
  <2>1. ASSUME NEW s \in Sockets, NEW p \in Pairs, NEW r \in Roles, Joinable(s, p),
               NEW t \in Sockets, ws[t].peer # None
        PROVE  Admit(WsAtJoin(p, r), s, p, r, PeerAtJoin(p, r))[t].peer = ws[t].peer
    <3> DEFINE W == WsAtJoin(p, r)
               peer == PeerAtJoin(p, r)
    <3>1. /\ Consistent(RowAtJoin(p, r), W) /\ Live(RowAtJoin(p, r), p)
          /\ RowAtJoin(p, r)[p].gen = None
      BY <1>1, <2>1, JoinClean DEF Joinable
    <3>2. W[t].peer = ws[t].peer
      BY <2>0, CloseFacts DEF WsAtJoin
    <3>3. t # s
      BY <2>0, <2>1 DEF Consistent, Blank, Joinable
    <3>4. t # peer
      <4>1. Opposite(r) \in Roles /\ Linked(RowAtJoin(p, r), W)
        BY <3>1, OppositeRole DEF Consistent
      <4>2. peer # None => W[peer].peer = None
        BY <3>1, <4>1 DEF Linked, PeerAtJoin
      <4>3. QED
        BY <2>1, <3>2, <4>2, NoneAssumption
    <3>5. QED
      BY <3>2, <3>3, <3>4 DEF Admit
  <2>2. ASSUME NEW s \in Sockets, NEW p \in Pairs, NEW r \in Roles,
               Join(s, p, r) \/ JoinRefused(s, p, r) \/ JoinFails(s, p, r)
        PROVE  Kept
    <3>1. CASE Join(s, p, r)
      BY <2>1, <3>1 DEF Join
    <3>2. CASE JoinRefused(s, p, r)
      BY <2>0, <3>2, CloseFacts DEF JoinRefused, WsAtJoin
    <3>3. CASE JoinFails(s, p, r)
      <4> DEFINE peer   == PeerAtJoin(p, r)
                 joined == Admit(WsAtJoin(p, r), s, p, r, peer)
      <4>1. Consistent(Enter(RowAtJoin(p, r), s, p, r, peer), joined)
        BY <1>1, <3>3, JoinClean, EntryKeeps DEF JoinFails, Joinable, PeerAtJoin, Inv
      <4>2. joined \in [Sockets -> Socket]
        BY <4>1 DEF Consistent
      <4>3. \A t \in Sockets : ws'[t].peer = joined[t].peer
        BY <3>3, <4>2, CloseFacts DEF JoinFails
      <4>4. QED
        BY <2>1, <3>3, <4>3 DEF JoinFails
    <3>4. QED
      BY <2>2, <3>1, <3>2, <3>3
  <2>3. ASSUME NEW s \in Sockets,
               \/ Forward(s) \/ (\E b \in BOOLEAN : Reject(s, b) \/ HandlerFails(s, b))
               \/ CloseEvent(s) \/ Drop(s)
        PROVE  Kept
    <3>1. CASE Forward(s)
      BY <2>0, <3>1 DEF Forward, Socket
    <3>2. ASSUME NEW b \in BOOLEAN, Reject(s, b) PROVE Kept
      BY <2>0, <3>2, CloseFacts DEF Reject
    <3>3. ASSUME NEW b \in BOOLEAN, HandlerFails(s, b) PROVE Kept
      <4> DEFINE counted == IF b THEN [ws EXCEPT ![s].msgs = @ + 1] ELSE ws
      <4>1. counted \in [Sockets -> Socket] /\ \A t \in Sockets : counted[t].peer = ws[t].peer
        BY <2>0 DEF Socket
      <4>2. ws' = Close(counted, Sockets)
        BY <3>3 DEF HandlerFails
      <4> HIDE DEF counted
      <4>3. QED
        BY <4>1, <4>2, CloseFacts
    <3>4. CASE CloseEvent(s)
      <4> DEFINE left == [ws EXCEPT ![s].st = "gone"]
      <4>1. left \in [Sockets -> Socket] /\ \A t \in Sockets : left[t].peer = ws[t].peer
        BY <2>0 DEF Socket
      <4>2. PICK S : ws' = Close(left, S)
        BY <3>4 DEF CloseEvent
      <4> HIDE DEF left
      <4>3. QED
        BY <4>1, <4>2, CloseFacts
    <3>5. CASE Drop(s)
      BY <2>0, <3>5 DEF Drop, Socket
    <3>6. QED
      BY <2>3, <3>1, <3>2, <3>3, <3>4, <3>5
  <2>4. ASSUME NEW p \in Pairs, Provision(p) \/ Revoke(p) PROVE Kept
    BY <2>0, <2>4, CloseFacts DEF Provision, Revoke
  <2>5. CASE ProvisionRefused \/ Alarm
    BY <2>0, <2>5, CloseFacts DEF ProvisionRefused, Alarm
  <2>6. CASE Restart
    BY <2>0, <2>6 DEF Restart, Socket
  <2>7. CASE Tick
    BY <2>7 DEF Tick
  <2>8. CASE UNCHANGED vars
    BY <2>8
  <2>9. QED
    BY <1>1, <2>2, <2>3, <2>4, <2>5, <2>6, <2>7, <2>8 DEF Next
<1>2. QED
  BY <1>1, InvHolds, PTL DEF Spec, PeerForLife

-----------------------------------------------------------------------------
(* What is counted: the frames of a role and the provisions of a window.   *)

\* The buckets, the times of provisioning and which pairs were ever provisioned are the same.
SameBook(rows, new) ==
  \A p \in Pairs :
    /\ new[p].created = rows[p].created /\ new[p].credits = rows[p].credits /\ new[p].at = rows[p].at
    /\ new[p].status = "unused" <=> rows[p].status = "unused"

\* No socket has forwarded more, or for another role.
SameCount(socks, new) ==
  \A s \in Sockets :
    \/ new[s].msgs = 0
    \/ new[s].msgs = socks[s].msgs /\ new[s].pair = socks[s].pair /\ new[s].role = socks[s].role

Counted(s) == [ws EXCEPT ![s].msgs = @ + 1]

LEMMA RowsSameBook ==
  ASSUME NEW rows \in [Pairs -> Row]
  PROVE  /\ SameBook(rows, rows)
         /\ \A P : SameBook(rows, Fence(rows, P))
         /\ \A P, E : (\A p \in Pairs : p \in E => Live(rows, p)) => SameBook(rows, Delete(Fence(rows, P), E))
         /\ \A s, peer : \A p \in Pairs, r \in Roles : SameBook(rows, Enter(rows, s, p, r, peer))
<1>1. SameBook(rows, rows)
  BY DEF SameBook
<1>2. ASSUME NEW P PROVE SameBook(rows, Fence(rows, P))
  BY DEF SameBook, Fence, Row
<1>3. ASSUME NEW P, NEW E, \A p \in Pairs : p \in E => Live(rows, p)
      PROVE  SameBook(rows, Delete(Fence(rows, P), E))
  <2> DEFINE F == Fence(rows, P)
  <2>1. F \in [Pairs -> Row] /\ SameBook(rows, F)
    BY <1>2, FenceFacts
  <2>2. \A p \in Pairs : F[p].status = rows[p].status
    BY DEF Fence, Row
  <2> HIDE DEF F
  <2>3. \A p \in Pairs : p \in E => F[p].status # "unused"
    BY <1>3, <2>2 DEF Live
  <2>4. SameBook(rows, Delete(F, E))
    BY <2>1, <2>3 DEF SameBook, Delete, Row
  <2>5. QED
    BY <2>4 DEF F
<1>4. ASSUME NEW s, NEW peer, NEW p \in Pairs, NEW r \in Roles
      PROVE  SameBook(rows, Enter(rows, s, p, r, peer))
  <2> DEFINE in == [rows[p].sock EXCEPT ![r] = s]
             g  == GenerationFor(s, peer)
  <2>1. Enter(rows, s, p, r, peer) = [rows EXCEPT ![p] = [rows[p] EXCEPT !.sock = in, !.gen = g]]
    BY DEF Enter
  <2> HIDE DEF in, g
  <2>2. QED
    BY <2>1 DEF SameBook, Row
<1>5. QED
  BY <1>1, <1>2, <1>3, <1>4

LEMMA BookChain ==
  ASSUME NEW a, NEW b, NEW c, SameBook(a, b), SameBook(b, c)
  PROVE  SameBook(a, c)
BY DEF SameBook

LEMMA CountChain ==
  ASSUME NEW a, NEW b, NEW c, SameCount(a, b), SameCount(b, c)
  PROVE  SameCount(a, c)
BY DEF SameCount

LEMMA CloseSameCount ==
  ASSUME NEW socks \in [Sockets -> Socket], NEW S
  PROVE  SameCount(socks, socks) /\ SameCount(socks, Close(socks, S))
BY CloseFacts DEF SameCount

LEMMA AdmitSameCount ==
  ASSUME NEW socks \in [Sockets -> Socket], NEW s, NEW p, NEW r, NEW peer
  PROVE  SameCount(socks, Admit(socks, s, p, r, peer))
<1> SUFFICES ASSUME NEW t \in Sockets
             PROVE  LET A == Admit(socks, s, p, r, peer)[t] IN
                    A.msgs = 0 \/ (A.msgs = socks[t].msgs /\ A.pair = socks[t].pair /\ A.role = socks[t].role)
  BY DEF SameCount
<1>1. \A k \in Socket : LET j == [k EXCEPT !.peer = s, !.gen = s, !.told = s] IN
        j.msgs = k.msgs /\ j.pair = k.pair /\ j.role = k.role
  BY DEF Socket
<1>2. QED
  BY <1>1 DEF Admit

\* What a step does to the counts: nothing, one provision, or one frame forwarded.
Uncounted == SameBook(row, row') /\ SameCount(ws, ws') /\ UNCHANGED budget /\ clock' \in Nat /\ clock' >= clock

Pays(s) ==
  /\ IsOpen(ws, s) /\ Forwardable(s)
  /\ row' = Charge(s) /\ SameCount(Counted(s), ws')
  /\ UNCHANGED <<clock, budget>>

LEMMA Kinds ==
  ASSUME Inv, [Next]_vars
  PROVE  Uncounted \/ (\E p \in Pairs : Provision(p)) \/ (\E s \in Sockets : Pays(s))
<1>0. /\ row \in [Pairs -> Row] /\ ws \in [Sockets -> Socket] /\ clock \in Nat
  BY DEF Inv, TypeOK
<1>1. UNCHANGED clock => clock' \in Nat /\ clock' >= clock
  BY <1>0
<1>2. SameBook(row, row) /\ SameCount(ws, ws)
  BY <1>0, RowsSameBook, CloseSameCount
<1>3. ASSUME NEW s \in Sockets, NEW p \in Pairs, NEW r \in Roles,
             Join(s, p, r) \/ JoinRefused(s, p, r) \/ JoinFails(s, p, r)
      PROVE  Uncounted
  <2> DEFINE peer == PeerAtJoin(p, r)
             R == RowAtJoin(p, r)
             W == WsAtJoin(p, r)
             E == Enter(R, s, p, r, peer)
             A == Admit(W, s, p, r, peer)
  <2>1. R \in [Pairs -> Row] /\ W \in [Sockets -> Socket] /\ SameBook(row, R) /\ SameCount(ws, W)
    BY <1>0, <1>2, FenceFacts, CloseFacts, RowsSameBook, CloseSameCount DEF RowAtJoin, WsAtJoin
  <2>2. CASE JoinRefused(s, p, r)
    BY <1>1, <2>1, <2>2 DEF JoinRefused, Uncounted
  <2>3. Joinable(s, p) => Consistent(E, A)
    BY JoinClean, EntryKeeps DEF Joinable, PeerAtJoin, Inv
  <2> HIDE DEF R, W, peer
  <2>4. SameBook(row, E)
    BY <2>1, RowsSameBook, BookChain
  <2>5. SameCount(ws, A)
    BY <2>1, AdmitSameCount, CountChain
  <2>6. CASE Join(s, p, r)
    BY <1>1, <2>4, <2>5, <2>6 DEF Join, Uncounted, R, W, peer
  <2>7. CASE JoinFails(s, p, r)
    <3>1. Joinable(s, p) /\ row' = Fence(E, {p}) /\ ws' = Close(A, OfPairs(A, {p})) /\ UNCHANGED <<clock, budget>>
      BY <2>7 DEF JoinFails, R, W, peer
    <3>2. E \in [Pairs -> Row] /\ A \in [Sockets -> Socket]
      BY <2>3, <3>1 DEF Consistent
    <3> HIDE DEF E, A
    <3>3. SameBook(row, row')
      BY <2>4, <3>1, <3>2, RowsSameBook, BookChain
    <3>4. SameCount(ws, ws')
      BY <2>5, <3>1, <3>2, CloseSameCount, CountChain
    <3>5. QED
      BY <1>1, <3>1, <3>3, <3>4 DEF Uncounted
  <2>8. QED
    BY <1>3, <2>2, <2>6, <2>7
<1>4. ASSUME NEW s \in Sockets, Forward(s) PROVE Pays(s)
  <2>1. Counted(s) \in [Sockets -> Socket]
    BY <1>0 DEF Counted, Socket
  <2>2. QED
    BY <1>4, <2>1, CloseSameCount DEF Forward, Pays, Counted
<1>5. ASSUME NEW s \in Sockets, NEW charged \in BOOLEAN, HandlerFails(s, charged) PROVE Uncounted \/ Pays(s)
  <2>1. Counted(s) \in [Sockets -> Socket]
    BY <1>0 DEF Counted, Socket
  <2>2. CASE charged
    BY <1>5, <2>1, <2>2, CloseSameCount DEF HandlerFails, Pays, Counted
  <2>3. CASE ~charged
    BY <1>0, <1>1, <1>2, <1>5, <2>3, CloseSameCount DEF HandlerFails, Uncounted
  <2>4. QED
    BY <2>2, <2>3
<1>6. ASSUME NEW s \in Sockets, CloseEvent(s) PROVE Uncounted
  <2> DEFINE left == [ws EXCEPT ![s].st = "gone"]
  <2>1. left \in [Sockets -> Socket] /\ SameCount(ws, left)
    BY <1>0 DEF Socket, SameCount
  <2>2. (\E P : row' = Fence(row, P)) /\ (\E S : ws' = Close(left, S)) /\ UNCHANGED <<clock, budget>>
    BY <1>6 DEF CloseEvent
  <2> HIDE DEF left
  <2>3. SameBook(row, row')
    BY <1>0, <2>2, RowsSameBook
  <2>4. SameCount(ws, ws')
    BY <2>1, <2>2, CloseSameCount, CountChain
  <2>5. QED
    BY <1>1, <2>2, <2>3, <2>4 DEF Uncounted
<1>7. ASSUME NEW s \in Sockets, NEW malformed \in BOOLEAN, Reject(s, malformed) PROVE Uncounted
  <2>1. row' = row \/ \E P : row' = Fence(row, P)
    BY <1>7 DEF Reject
  <2>2. (\E S : ws' = Close(ws, S)) /\ UNCHANGED <<clock, budget>>
    BY <1>7 DEF Reject
  <2>3. SameBook(row, row')
    BY <1>0, <1>2, <2>1, RowsSameBook
  <2>4. SameCount(ws, ws')
    BY <1>0, <2>2, CloseSameCount
  <2>5. QED
    BY <1>1, <2>2, <2>3, <2>4 DEF Uncounted
<1>8. ASSUME (\E p \in Pairs : Revoke(p)) \/ Alarm PROVE Uncounted
  <2>1. /\ \E P, E : row' = Delete(Fence(row, P), E) /\ \A p \in Pairs : p \in E => Live(row, p)
        /\ (\E S : ws' = Close(ws, S)) /\ UNCHANGED <<clock, budget>>
    <3>1. \A p \in Pairs : p \in Expired(row) => Live(row, p)
      BY DEF Expired
    <3>2. ASSUME NEW q \in Pairs, Revoke(q)
          PROVE  \E P, E : row' = Delete(Fence(row, P), E) /\ \A p \in Pairs : p \in E => Live(row, p)
      <4>1. row' = Delete(Fence(row, {q}), {q}) /\ \A p \in Pairs : p \in {q} => Live(row, p)
        BY <3>2 DEF Revoke
      <4>2. QED
        BY <4>1, Zenon
    <3>3. Alarm => \E P : row' = Delete(Fence(row, P), Expired(row))
      BY Zenon DEF Alarm
    <3>4. (\E S : ws' = Close(ws, S)) /\ UNCHANGED <<clock, budget>>
      BY <1>8 DEF Revoke, Alarm
    <3>5. QED
      BY <1>8, <3>1, <3>2, <3>3, <3>4, Zenon
  <2>2. SameBook(row, row')
    BY <1>0, <2>1, RowsSameBook
  <2>3. SameCount(ws, ws')
    BY <1>0, <2>1, CloseSameCount
  <2>4. QED
    BY <1>1, <2>1, <2>2, <2>3 DEF Uncounted
<1>9. CASE ProvisionRefused
  BY <1>0, <1>1, <1>2, <1>9, CloseSameCount DEF ProvisionRefused, Uncounted
<1>10. ASSUME (\E s \in Sockets : Drop(s)) \/ Restart PROVE Uncounted
  <2>1. SameCount(ws, ws')
    BY <1>0, <1>10 DEF Drop, Restart, SameCount, Socket
  <2>2. UNCHANGED <<clock, row, budget>>
    BY <1>10 DEF Drop, Restart
  <2>3. QED
    BY <1>1, <1>2, <2>1, <2>2 DEF Uncounted
<1>11. CASE Tick
  BY <1>0, <1>2, <1>11 DEF Tick, Uncounted
<1>12. CASE UNCHANGED vars
  BY <1>1, <1>2, <1>12 DEF vars, Uncounted
<1>13. QED
  BY <1>3, <1>4, <1>5, <1>6, <1>7, <1>8, <1>9, <1>10, <1>11, <1>12 DEF Next

-----------------------------------------------------------------------------
(* The rate and the budget.  What a role has had forwarded and what is     *)
(* left in its bucket never exceed a full bucket and the time up to its    *)
(* last refill; before the first frame the bucket is simply full.          *)

Funded(rw, n, r, now) ==
  \/ n = 0 /\ rw.credits[r] = Burst
  \/ /\ rw.status # "unused" /\ rw.created <= rw.at[r] /\ rw.at[r] <= now
     /\ FrameCost * n + rw.credits[r] <= Burst + rw.at[r] - rw.created

Rated ==
  \A p \in Pairs, r \in Roles :
    IsFiniteSet(FramesOf(p, r)) /\ Funded(row[p], Cardinality(FramesOf(p, r)), r, clock)

\* Every provision of the window is counted, and none is younger than the window.
Windowed ==
  /\ IsFiniteSet(ProvisionsIn(budget))
  /\ Cardinality(ProvisionsIn(budget)) <= budget.count /\ budget.count <= MaxProvisions
  /\ budget.count = 0 => \A p \in Pairs : row[p].status = "unused"
  /\ \A p \in Pairs : row[p].status # "unused" => row[p].created < budget.start + ProvisionWindow

Dated == \A p \in Pairs : row[p].created <= clock

Books == Dated /\ Rated /\ Windowed

LEMMA RowParts ==
  ASSUME NEW rw \in Row, NEW r \in Roles
  PROVE  rw.created \in Nat /\ rw.credits[r] \in Nat /\ rw.credits[r] <= Burst /\ rw.at[r] \in Nat /\ Burst \in Nat
BY LimitAssumption DEF Row

LEMMA Fewer ==
  ASSUME NEW m \in Nat, NEW n \in Nat, m <= n
  PROVE  FrameCost * m <= FrameCost * n /\ FrameCost * m \in Nat /\ FrameCost * n \in Nat
<1>1. FrameCost \in Nat
  BY LimitAssumption
<1>2. PICK d \in Nat : n = m + d
  <2>1. n - m \in Nat /\ n = m + (n - m)
    OBVIOUS
  <2>2. QED
    BY <2>1
<1>3. FrameCost * n = FrameCost * m + FrameCost * d
  BY <1>1, <1>2
<1>4. FrameCost * d \in Nat /\ FrameCost * m \in Nat
  BY <1>1
<1>5. QED
  BY <1>1, <1>3, <1>4

\* Funding outlives the passing of time and the loss of frames.
LEMMA FundedStays ==
  ASSUME NEW rw \in Row, NEW r \in Roles, NEW m \in Nat, NEW n \in Nat, m <= n,
         NEW now \in Nat, NEW later \in Nat, now <= later, Funded(rw, n, r, now)
  PROVE  Funded(rw, m, r, later)
<1>1. rw.created \in Nat /\ rw.credits[r] \in Nat /\ rw.at[r] \in Nat /\ Burst \in Nat
  BY RowParts
<1>2. FrameCost * m <= FrameCost * n /\ FrameCost * m \in Nat /\ FrameCost * n \in Nat
  BY Fewer
<1>3. CASE n = 0 /\ rw.credits[r] = Burst
  BY <1>3 DEF Funded
<1>4. CASE ~(n = 0 /\ rw.credits[r] = Burst)
  <2> DEFINE x == FrameCost * m
             y == FrameCost * n
  <2>1. /\ rw.status # "unused" /\ rw.created <= rw.at[r] /\ rw.at[r] <= now
        /\ y + rw.credits[r] <= Burst + rw.at[r] - rw.created
    BY <1>4 DEF Funded
  <2>2. x \in Nat /\ y \in Nat /\ x <= y
    BY <1>2
  <2> HIDE DEF x, y
  <2>3. rw.at[r] <= later /\ x + rw.credits[r] <= Burst + rw.at[r] - rw.created
    BY <1>1, <2>1, <2>2
  <2>4. QED
    BY <2>1, <2>3 DEF Funded, x
<1>5. QED
  BY <1>3, <1>4

\* The frames counted after a step that counts none are counted before it.
LEMMA FramesShrink ==
  ASSUME NEW p \in Pairs, NEW r \in Roles, SameCount(ws, ws')
  PROVE  FramesOf(p, r)' \subseteq FramesOf(p, r)
<1> SUFFICES ASSUME NEW s \in Sockets, NEW n \in 1..MaxMessages,
                    ws'[s].pair = p, ws'[s].role = r, n <= ws'[s].msgs
             PROVE  ws[s].pair = p /\ ws[s].role = r /\ n <= ws[s].msgs
  BY DEF FramesOf
<1>1. ws'[s].msgs # 0
  BY LimitAssumption
<1>2. QED
  BY <1>1 DEF SameCount

LEMMA ProvisionsStay ==
  ASSUME SameBook(row, row'), UNCHANGED budget
  PROVE  ProvisionsIn(budget)' = ProvisionsIn(budget)
BY DEF SameBook, ProvisionsIn

LEMMA UncountedBooks ==
  ASSUME Inv, Inv', Books, Uncounted
  PROVE  Books'
<1>0. /\ row \in [Pairs -> Row] /\ row' \in [Pairs -> Row] /\ clock \in Nat /\ clock' \in Nat /\ clock <= clock'
      /\ SameBook(row, row') /\ SameCount(ws, ws') /\ UNCHANGED budget
  BY DEF Inv, TypeOK, Uncounted
<1>1. Dated'
  <2>1. ASSUME NEW p \in Pairs PROVE row'[p].created <= clock'
    <3>1. row[p].created \in Nat
      BY <1>0 DEF Row
    <3>2. row[p].created <= clock /\ row'[p].created = row[p].created
      BY <1>0 DEF Books, Dated, SameBook
    <3>3. QED
      BY <1>0, <3>1, <3>2
  <2>2. QED
    BY <2>1 DEF Dated
<1>2. ASSUME NEW p \in Pairs, NEW r \in Roles
      PROVE  IsFiniteSet(FramesOf(p, r)') /\ Funded(row'[p], Cardinality(FramesOf(p, r)'), r, clock')
  <2>1. IsFiniteSet(FramesOf(p, r)) /\ Funded(row[p], Cardinality(FramesOf(p, r)), r, clock)
    BY DEF Books, Rated
  <2>2. FramesOf(p, r)' \in SUBSET FramesOf(p, r)
    BY <1>0, FramesShrink
  <2>3. /\ IsFiniteSet(FramesOf(p, r)') /\ Cardinality(FramesOf(p, r)') <= Cardinality(FramesOf(p, r))
        /\ Cardinality(FramesOf(p, r)') \in Nat /\ Cardinality(FramesOf(p, r)) \in Nat
    BY <2>1, <2>2, FS_Subset, FS_CardinalityType
  <2>4. row[p] \in Row
    BY <1>0
  <2>5. Funded(row[p], Cardinality(FramesOf(p, r)'), r, clock')
    BY <1>0, <2>1, <2>3, <2>4, FundedStays
  <2>6. /\ row'[p].created = row[p].created /\ row'[p].credits = row[p].credits /\ row'[p].at = row[p].at
        /\ row[p].status # "unused" => row'[p].status # "unused"
    BY <1>0 DEF SameBook
  <2>7. QED
    BY <2>3, <2>5, <2>6 DEF Funded
<1>3. Rated'
  BY <1>2 DEF Rated
<1>4. Windowed'
  <2>1. ProvisionsIn(budget)' = ProvisionsIn(budget)
    BY <1>0, ProvisionsStay
  <2>2. Windowed
    BY DEF Books
  <2>3. QED
    BY <1>0, <2>1, <2>2 DEF Windowed, SameBook
<1>5. QED
  BY <1>1, <1>3, <1>4 DEF Books

\* A frame costs what the refilled bucket has.
LEMMA ChargeFunded ==
  ASSUME NEW rw \in Row, NEW r \in Roles, NEW n \in Nat, NEW now \in Nat, NEW left,
         rw.status # "unused", rw.created <= now, Funded(rw, n, r, now),
         left = Earlier(Burst, rw.credits[r] + now - rw.at[r]) - FrameCost
  PROVE  FrameCost * (n + 1) + left <= Burst + now - rw.created
<1>1. /\ rw.created \in Nat /\ rw.credits[r] \in Nat /\ rw.at[r] \in Nat /\ Burst \in Nat /\ FrameCost \in Nat
      /\ rw.credits[r] <= Burst
  BY RowParts, LimitAssumption
<1> DEFINE x == FrameCost * n
<1>2. x \in Nat /\ FrameCost * (n + 1) = x + FrameCost /\ (n = 0 => x = 0)
  BY <1>1
<1> HIDE DEF x
<1>3. left <= Burst - FrameCost /\ left <= rw.credits[r] + now - rw.at[r] - FrameCost /\ left \in Int
  BY <1>1 DEF Earlier
<1>4. CASE n = 0 /\ rw.credits[r] = Burst
  BY <1>1, <1>2, <1>3, <1>4
<1>5. CASE x + rw.credits[r] <= Burst + rw.at[r] - rw.created
  BY <1>1, <1>2, <1>3, <1>5
<1>6. QED
  BY <1>4, <1>5 DEF Funded, x

LEMMA PaidBooks ==
  ASSUME Inv, Inv', Books, NEW s \in Sockets, Pays(s)
  PROVE  Books'
<1> DEFINE q == ws[s].pair
           o == ws[s].role
           c == Credits(q, o) - FrameCost
<1>0. /\ row \in [Pairs -> Row] /\ row' \in [Pairs -> Row] /\ ws \in [Sockets -> Socket] /\ clock \in Nat
      /\ row' = Charge(s) /\ SameCount(Counted(s), ws') /\ UNCHANGED <<clock, budget>>
  BY DEF Inv, TypeOK, Pays
<1>1. /\ q \in Pairs /\ o \in Roles /\ row[q].status = "live"
      /\ ws[s].msgs \in Nat /\ ws[s].msgs < MaxMessages
  BY <1>0 DEF Pays, Forwardable, Valid, Current, Live, WithinBudget, Socket
<1> HIDE DEF q, o, c
<1>2. /\ \A p \in Pairs : row'[p].created = row[p].created /\ row'[p].status = row[p].status
      /\ \A p \in Pairs, r \in Roles :
           IF p = q /\ r = o THEN row'[p].credits[r] = c /\ row'[p].at[r] = clock
           ELSE row'[p].credits[r] = row[p].credits[r] /\ row'[p].at[r] = row[p].at[r]
  <2> DEFINE cs == [row[q].credits EXCEPT ![o] = c]
             as == [row[q].at EXCEPT ![o] = clock]
  <2>1. row' = [row EXCEPT ![q] = [row[q] EXCEPT !.credits = cs, !.at = as]]
    BY <1>0, <1>1 DEF Charge, q, o, c
  <2>2. /\ \A r \in Roles : cs[r] = IF r = o THEN c ELSE row[q].credits[r]
        /\ \A r \in Roles : as[r] = IF r = o THEN clock ELSE row[q].at[r]
    BY <1>0, <1>1 DEF Row
  <2> HIDE DEF cs, as
  <2>3. \A k \in Row : LET j == [k EXCEPT !.credits = cs, !.at = as] IN
          j.created = k.created /\ j.status = k.status /\ j.credits = cs /\ j.at = as
    BY DEF Row
  <2>4. \A p \in Pairs : row'[p] = IF p = q THEN [row[q] EXCEPT !.credits = cs, !.at = as] ELSE row[p]
    BY <1>0, <1>1, <2>1
  <2>5. /\ row'[q].created = row[q].created /\ row'[q].status = row[q].status
        /\ row'[q].credits = cs /\ row'[q].at = as
    <3>1. row[q] \in Row /\ row'[q] = [row[q] EXCEPT !.credits = cs, !.at = as]
      BY <1>0, <1>1, <2>4
    <3>2. QED
      BY <2>3, <3>1, Zenon
  <2>6. \A p \in Pairs : p # q => row'[p] = row[p]
    BY <2>4
  <2>7. QED
    BY <2>2, <2>5, <2>6
<1>3. \A t \in Sockets :
        LET k == Counted(s)[t] IN k.pair = ws[t].pair /\ k.role = ws[t].role
                                  /\ k.msgs = IF t = s THEN ws[s].msgs + 1 ELSE ws[t].msgs
  BY <1>0 DEF Counted, Socket, SameCount
<1>4. ASSUME NEW p \in Pairs, NEW r \in Roles
      PROVE  FramesOf(p, r)' \subseteq IF p = q /\ r = o THEN FramesOf(p, r) \union {<<s, ws[s].msgs + 1>>}
                                       ELSE FramesOf(p, r)
  <2>1. SUFFICES ASSUME NEW t \in Sockets, NEW n \in 1..MaxMessages,
                        ws'[t].pair = p, ws'[t].role = r, n <= ws'[t].msgs
                 PROVE  <<t, n>> \in IF p = q /\ r = o THEN FramesOf(p, r) \union {<<s, ws[s].msgs + 1>>}
                                     ELSE FramesOf(p, r)
    <3>1. ASSUME NEW f \in FramesOf(p, r)'
          PROVE  f = <<f[1], f[2]>> /\ f[1] \in Sockets /\ f[2] \in 1..MaxMessages
                 /\ ws'[f[1]].pair = p /\ ws'[f[1]].role = r /\ f[2] <= ws'[f[1]].msgs
      BY DEF FramesOf
    <3>2. QED
      BY <2>1, <3>1
  <2>2. n \in Nat /\ n # 0
    BY LimitAssumption
  <2>3. ws'[t].msgs # 0
    BY <2>1, <2>2
  <2>4. ws[t].pair = p /\ ws[t].role = r /\ n <= IF t = s THEN ws[s].msgs + 1 ELSE ws[t].msgs
    BY <1>0, <1>3, <2>1, <2>3 DEF SameCount
  <2>5. n <= ws[t].msgs => <<t, n>> \in FramesOf(p, r)
    BY <2>4 DEF FramesOf
  <2>6. CASE t = s /\ n = ws[s].msgs + 1
    BY <2>4, <2>6 DEF q, o
  <2>7. CASE ~(t = s /\ n = ws[s].msgs + 1)
    <3>1. n <= ws[t].msgs
      BY <1>1, <2>2, <2>4, <2>7
    <3>2. QED
      BY <2>5, <3>1
  <2>8. QED
    BY <2>6, <2>7
<1>5. ASSUME NEW p \in Pairs, NEW r \in Roles
      PROVE  IsFiniteSet(FramesOf(p, r)') /\ Funded(row'[p], Cardinality(FramesOf(p, r)'), r, clock')
  <2> DEFINE F == FramesOf(p, r)
             G == FramesOf(p, r)'
             n == Cardinality(F)
             m == Cardinality(G)
  <2>1. IsFiniteSet(F) /\ n \in Nat /\ Funded(row[p], n, r, clock)
    BY FS_CardinalityType DEF Books, Rated
  <2>2. row[p] \in Row /\ row'[p] \in Row
    BY <1>0
  <2>3. CASE p = q /\ r = o
    <3> DEFINE H == F \union {<<s, ws[s].msgs + 1>>}
    <3>1. IsFiniteSet(H) /\ Cardinality(H) <= n + 1 /\ Cardinality(H) \in Nat
      <4>1. IsFiniteSet(H) /\ (Cardinality(H) = n \/ Cardinality(H) = n + 1)
        BY <2>1, FS_AddElement, Zenon
      <4>2. QED
        BY <2>1, <4>1
    <3>2. G \in SUBSET H
      BY <1>4, <2>3
    <3>3. IsFiniteSet(G) /\ m \in Nat /\ m <= n + 1
      BY <2>1, <3>1, <3>2, FS_Subset, FS_CardinalityType
    <3> HIDE DEF F, G, n, m, H
    <3>4. row[p].created <= clock /\ row[p].created \in Nat /\ Burst \in Nat /\ FrameCost \in Nat
      BY <2>2, RowParts, LimitAssumption DEF Books, Dated
    <3>5. c = Earlier(Burst, row[p].credits[r] + clock - row[p].at[r]) - FrameCost
      BY <2>3 DEF c, Credits
    <3>6. row[p].status # "unused"
      BY <1>1, <2>3
    <3>7. FrameCost * (n + 1) + c <= Burst + clock - row[p].created
      BY <1>0, <2>1, <2>2, <3>4, <3>5, <3>6, ChargeFunded
    <3>8. FrameCost * m <= FrameCost * (n + 1) /\ FrameCost * m \in Nat /\ FrameCost * (n + 1) \in Nat
      BY <2>1, <3>3, Fewer
    <3>9. c \in Int
      <4>1. row[p].credits[r] \in Nat /\ row[p].at[r] \in Nat
        BY <2>2, RowParts
      <4>2. QED
        BY <1>0, <3>4, <3>5, <4>1 DEF Earlier
    <3>10. FrameCost * m + c <= Burst + clock - row[p].created
      <4> DEFINE x == FrameCost * m
                 y == FrameCost * (n + 1)
      <4>1. x \in Nat /\ y \in Nat /\ x <= y /\ y + c <= Burst + clock - row[p].created
        BY <3>7, <3>8
      <4> HIDE DEF x, y
      <4>2. x + c <= Burst + clock - row[p].created
        BY <1>0, <3>4, <3>9, <4>1
      <4>3. QED
        BY <4>2 DEF x
    <3>11. /\ row'[p].credits[r] = c /\ row'[p].at[r] = clock /\ row'[p].created = row[p].created
           /\ row'[p].status = row[p].status
      BY <1>2, <2>3
    <3>12. Funded(row'[p], m, r, clock')
      BY <1>0, <3>4, <3>6, <3>10, <3>11 DEF Funded
    <3>13. QED
      BY <3>3, <3>12 DEF G, m
  <2>4. CASE ~(p = q /\ r = o)
    <3>1. G \in SUBSET F
      BY <1>4, <2>4
    <3>2. IsFiniteSet(G) /\ m \in Nat /\ m <= n
      BY <2>1, <3>1, FS_Subset, FS_CardinalityType
    <3> HIDE DEF F, G, n, m
    <3>3. Funded(row[p], m, r, clock)
      BY <1>0, <2>1, <2>2, <3>2, FundedStays
    <3>4. /\ row'[p].credits[r] = row[p].credits[r] /\ row'[p].at[r] = row[p].at[r]
          /\ row'[p].created = row[p].created /\ row'[p].status = row[p].status
      BY <1>2, <2>4
    <3>5. Funded(row'[p], m, r, clock')
      BY <1>0, <3>3, <3>4 DEF Funded
    <3>6. QED
      BY <3>2, <3>5 DEF G, m
  <2>5. QED
    BY <2>3, <2>4
<1>6. Dated' /\ Rated'
  BY <1>0, <1>2, <1>5 DEF Books, Dated, Rated
<1>7. Windowed'
  <2>1. ProvisionsIn(budget)' = ProvisionsIn(budget)
    BY <1>0, <1>2 DEF ProvisionsIn
  <2>2. QED
    BY <1>0, <1>2, <2>1 DEF Books, Windowed
<1>8. QED
  BY <1>6, <1>7 DEF Books

\* A provision dates one row and counts one pair.
LEMMA ProvisionDates ==
  ASSUME Inv, NEW p \in Pairs, Provision(p)
  PROVE  /\ SameCount(ws, ws') /\ UNCHANGED clock
         /\ row[p].status = "unused" /\ row'[p].status = "live" /\ row'[p].created = clock
         /\ \A q \in Pairs : row'[q].credits = row[q].credits /\ row'[q].at = row[q].at
         /\ \A q \in Pairs \ {p} : /\ row'[q].created = row[q].created
                                   /\ row'[q].status = "unused" <=> row[q].status = "unused"
<1> DEFINE purged == Delete(Fence(row, Expired(row)), Expired(row))
<1>0. row \in [Pairs -> Row] /\ ws \in [Sockets -> Socket]
  BY DEF Inv, TypeOK
<1>1. SameCount(ws, ws') /\ UNCHANGED clock /\ row[p].status = "unused"
  BY <1>0, CloseSameCount DEF Provision
<1>2. SameBook(row, purged)
  BY <1>0, RowsSameBook DEF Expired
<1>3. purged \in [Pairs -> Row]
  <2>1. Fence(row, Expired(row)) \in [Pairs -> Row]
    BY <1>0, FenceFacts
  <2>2. QED
    BY <2>1 DEF Delete, Row
<1> DEFINE fresh(k) == [k EXCEPT !.status = "live", !.created = clock, !.expires = clock + PairTTL]
<1>4. row' = [purged EXCEPT ![p] = fresh(purged[p])]
  BY <1>3 DEF Provision
<1>5. \A k \in Row : fresh(k).status = "live" /\ fresh(k).created = clock /\ fresh(k).credits = k.credits
                     /\ fresh(k).at = k.at
  BY DEF Row
<1> HIDE DEF purged, fresh
<1>6. row'[p] = fresh(purged[p]) /\ \A q \in Pairs \ {p} : row'[q] = purged[q]
  BY <1>3, <1>4
<1>7. QED
  BY <1>1, <1>2, <1>3, <1>5, <1>6 DEF SameBook

LEMMA ProvisionBooks ==
  ASSUME Inv, Inv', Books, NEW p \in Pairs, Provision(p)
  PROVE  Books'
<1>0. /\ row \in [Pairs -> Row] /\ row' \in [Pairs -> Row] /\ clock \in Nat /\ budget \in [start : Nat, count : Nat]
  BY DEF Inv, TypeOK
<1>d. /\ SameCount(ws, ws') /\ UNCHANGED clock
      /\ row[p].status = "unused" /\ row'[p].status = "live" /\ row'[p].created = clock
      /\ \A q \in Pairs : row'[q].credits = row[q].credits /\ row'[q].at = row[q].at
      /\ \A q \in Pairs \ {p} : /\ row'[q].created = row[q].created
                                /\ row'[q].status = "unused" <=> row[q].status = "unused"
  BY ProvisionDates
<1>1. Dated'
  BY <1>0, <1>d DEF Books, Dated
<1>2. ASSUME NEW q \in Pairs, NEW r \in Roles
      PROVE  IsFiniteSet(FramesOf(q, r)') /\ Funded(row'[q], Cardinality(FramesOf(q, r)'), r, clock')
  <2> DEFINE F == FramesOf(q, r)
             G == FramesOf(q, r)'
             n == Cardinality(F)
             m == Cardinality(G)
  <2>1. IsFiniteSet(F) /\ n \in Nat /\ Funded(row[q], n, r, clock)
    BY FS_CardinalityType DEF Books, Rated
  <2>2. G \in SUBSET F
    BY <1>d, FramesShrink
  <2>3. IsFiniteSet(G) /\ m \in Nat /\ m <= n
    BY <2>1, <2>2, FS_Subset, FS_CardinalityType
  <2> HIDE DEF F, G, n, m
  <2>4. row[q] \in Row
    BY <1>0
  <2>5. Funded(row[q], m, r, clock)
    BY <1>0, <2>1, <2>3, <2>4, FundedStays
  <2>6. Funded(row'[q], m, r, clock')
    <3>1. CASE q = p
      BY <1>d, <2>5, <3>1 DEF Funded
    <3>2. CASE q # p
      BY <1>d, <2>5, <3>2 DEF Funded
    <3>3. QED
      BY <3>1, <3>2
  <2>7. QED
    BY <2>3, <2>6 DEF G, m
<1>3. Windowed'
  <2>0. /\ IsFiniteSet(ProvisionsIn(budget)) /\ Cardinality(ProvisionsIn(budget)) <= budget.count
        /\ Cardinality(ProvisionsIn(budget)) \in Nat /\ budget.count <= MaxProvisions
        /\ budget.count = 0 => \A q \in Pairs : row[q].status = "unused"
        /\ \A q \in Pairs : row[q].status # "unused" => row[q].created < budget.start + ProvisionWindow
    BY FS_CardinalityType DEF Books, Windowed
  <2>1. /\ budget.start \in Nat /\ budget.count \in Nat /\ \A q \in Pairs : row[q].created \in Nat
        /\ MaxProvisions \in Nat /\ MaxProvisions > 0 /\ ProvisionWindow \in Nat /\ ProvisionWindow > 0
    BY <1>0, LimitAssumption DEF Row
  <2>2. CASE WindowOver
    <3>1. budget' = [start |-> clock, count |-> 1]
      BY <2>2 DEF Provision
    <3>2. \A q \in Pairs : row[q].status # "unused" => row[q].created < clock
      BY <1>0, <2>0, <2>1, <2>2 DEF WindowOver
    <3>3. ProvisionsIn(budget)' \subseteq {p}
      BY <1>0, <1>d, <2>1, <3>1, <3>2 DEF ProvisionsIn
    <3>4. IsFiniteSet({p}) /\ Cardinality({p}) = 1
      BY FS_Singleton
    <3>5. IsFiniteSet(ProvisionsIn(budget)') /\ Cardinality(ProvisionsIn(budget)') <= 1
      BY <3>3, <3>4, FS_Subset
    <3>6. \A q \in Pairs : row'[q].status # "unused" => row'[q].created < clock + ProvisionWindow
      BY <1>0, <1>d, <2>1, <3>2
    <3>7. QED
      BY <2>1, <3>1, <3>5, <3>6 DEF Windowed
  <2>3. CASE ~WindowOver
    <3>1. budget.count < MaxProvisions /\ clock < budget.start + ProvisionWindow
      BY <1>0, <2>1, <2>3 DEF Provision, BudgetSpent, WindowOver
    <3>2. budget' = [budget EXCEPT !.count = @ + 1]
      BY <2>3 DEF Provision
    <3>3. budget'.start = budget.start /\ budget'.count = budget.count + 1
      BY <1>0, <3>2
    <3> DEFINE H == ProvisionsIn(budget) \union {p}
    <3>4. ProvisionsIn(budget)' \subseteq H
      BY <1>d, <3>3 DEF ProvisionsIn
    <3>5. IsFiniteSet(H) /\ (Cardinality(H) = Cardinality(ProvisionsIn(budget))
                             \/ Cardinality(H) = Cardinality(ProvisionsIn(budget)) + 1)
      BY <2>0, FS_AddElement, Zenon
    <3>6. IsFiniteSet(ProvisionsIn(budget)') /\ Cardinality(ProvisionsIn(budget)') <= Cardinality(H)
          /\ Cardinality(ProvisionsIn(budget)') \in Nat
      BY <3>4, <3>5, FS_Subset, FS_CardinalityType
    <3>7. \A q \in Pairs : row'[q].status # "unused" => row'[q].created < budget.start + ProvisionWindow
      BY <1>d, <2>0, <3>1
    <3> HIDE DEF H
    <3>8. Cardinality(ProvisionsIn(budget)') <= budget.count + 1
      BY <2>0, <2>1, <3>5, <3>6
    <3>9. budget.count + 1 <= MaxProvisions /\ budget.count + 1 # 0
      BY <2>1, <3>1
    <3>10. QED
      BY <3>3, <3>6, <3>7, <3>8, <3>9 DEF Windowed
  <2>4. QED
    BY <2>2, <2>3
<1>4. QED
  BY <1>1, <1>2, <1>3 DEF Books, Rated

LEMMA BooksHold == Spec => [](Inv /\ Books)
<1>1. Init => Books
  <2>1. SUFFICES ASSUME Init PROVE Books
    OBVIOUS
  <2>2. /\ clock = 0 /\ budget.start = 0 /\ budget.count = 0
        /\ \A s \in Sockets : ws[s].msgs = 0
        /\ \A p \in Pairs : row[p].status = "unused" /\ row[p].created = 0
        /\ \A p \in Pairs, r \in Roles : row[p].credits[r] = Burst
    BY <2>1 DEF Init
  <2>3. ASSUME NEW p \in Pairs, NEW r \in Roles PROVE FramesOf(p, r) = {}
    <3>1. \A n \in 1..MaxMessages : ~(n <= 0)
      BY LimitAssumption
    <3>2. QED
      BY <2>2, <3>1 DEF FramesOf
  <2>4. ProvisionsIn(budget) = {}
    BY <2>2 DEF ProvisionsIn
  <2>5. IsFiniteSet({}) /\ Cardinality({}) = 0
    BY FS_EmptySet
  <2>6. Rated
    BY <2>2, <2>3, <2>5 DEF Rated, Funded
  <2>7. Windowed
    BY <2>2, <2>4, <2>5, LimitAssumption DEF Windowed
  <2>8. QED
    BY <2>2, <2>6, <2>7 DEF Books, Dated
<1>2. Inv /\ Inv' /\ Books /\ [Next]_vars => Books'
  BY Kinds, UncountedBooks, PaidBooks, ProvisionBooks
<1>3. QED
  BY <1>1, <1>2, InvHolds, PTL DEF Spec

\* Over all its sessions a role of a pair has no more frames forwarded than a full bucket and
\* the time since provisioning pay for: a new socket refills nothing.  (account.ts:226-233)
THEOREM RateIsBounded == Spec => []RateBound
<1>1. Inv /\ Books => RateBound
  <2>1. SUFFICES ASSUME Inv, Books, NEW p \in Pairs, NEW r \in Roles
                 PROVE  FrameCost * Cardinality(FramesOf(p, r)) <= Burst + clock - row[p].created
    BY DEF RateBound
  <2> DEFINE n == Cardinality(FramesOf(p, r))
             x == FrameCost * n
  <2>2. n \in Nat /\ Funded(row[p], n, r, clock) /\ row[p].created <= clock
    BY <2>1, FS_CardinalityType DEF Books, Rated, Dated
  <2>3. row[p] \in Row /\ clock \in Nat
    BY <2>1 DEF Inv, TypeOK
  <2>4. /\ row[p].created \in Nat /\ row[p].credits[r] \in Nat /\ row[p].at[r] \in Nat /\ Burst \in Nat
        /\ FrameCost \in Nat
    BY <2>3, RowParts, LimitAssumption
  <2> HIDE DEF n
  <2>5. x \in Nat /\ (n = 0 => x = 0)
    BY <2>2, <2>4
  <2>6. n = 0 \/ (row[p].at[r] <= clock /\ x + row[p].credits[r] <= Burst + row[p].at[r] - row[p].created)
    BY <2>2 DEF Funded
  <2> HIDE DEF x
  <2>7. x <= Burst + clock - row[p].created
    BY <2>2, <2>3, <2>4, <2>5, <2>6
  <2>8. QED
    BY <2>7 DEF x, n
<1>2. QED
  BY <1>1, BooksHold, PTL

\* No more than MaxProvisions pairs are provisioned in one window, revoked and expired ones
\* included: revoking a pair gives nothing back.  (account.ts:86-95)
THEOREM BudgetIsKept == Spec => []ProvisionBudget
<1>1. Inv /\ Books => ProvisionBudget
  <2>1. SUFFICES ASSUME Inv, Books PROVE ProvisionBudget
    OBVIOUS
  <2>2. /\ Cardinality(ProvisionsIn(budget)) \in Nat /\ budget.count \in Nat /\ MaxProvisions \in Nat
        /\ Cardinality(ProvisionsIn(budget)) <= budget.count /\ budget.count <= MaxProvisions
    BY <2>1, FS_CardinalityType, LimitAssumption DEF Books, Windowed, Inv, TypeOK
  <2>3. QED
    BY <2>2 DEF ProvisionBudget
<1>2. QED
  BY <1>1, BooksHold, PTL

\* A frame is forwarded only between two endpoints that were told of its generation and not,
\* since, of its end.  (account.ts:193-198, 213-241)
THEOREM ForwardsAreAnnounced == Spec => ForwardAnnounced
<1> DEFINE Told == \A s \in Sockets : ws'[s].msgs > ws[s].msgs =>
                     ws[s].told # None /\ ws[PeerOf(s)].told = ws[s].told
<1>1. ASSUME Inv, Inv', [Next]_vars
      PROVE  Told
  <2>0. ws \in [Sockets -> Socket] /\ ws' \in [Sockets -> Socket] /\ Linked(row, ws)
    BY <1>1 DEF Inv, TypeOK, Consistent
  <2>1. \A s \in Sockets : ws[s].msgs \in Nat /\ ws'[s].msgs \in Nat
    BY <2>0 DEF Socket
  <2>2. CASE Uncounted
    BY <2>1, <2>2 DEF Uncounted, SameCount
  <2>3. ASSUME NEW p \in Pairs, Provision(p) PROVE Told
    BY <1>1, <2>1, <2>3, ProvisionDates DEF SameCount
  <2>4. ASSUME NEW s \in Sockets, Pays(s) PROVE Told
    <3>1. \A t \in Sockets \ {s} : Counted(s)[t] = ws[t]
      BY <2>0 DEF Counted
    <3>2. \A t \in Sockets \ {s} : ~(ws'[t].msgs > ws[t].msgs)
      BY <2>1, <2>4, <3>1 DEF Pays, SameCount
    <3>3. /\ IsOpen(ws, s) /\ Valid(row, ws, s) /\ MutuallyPaired(s)
      BY <2>4 DEF Pays, Forwardable
    <3>4. /\ ws[s].pair \in Pairs /\ ws[s].role \in Roles
          /\ row[ws[s].pair].sock[ws[s].role] = s /\ row[ws[s].pair].gen # None
          /\ IsOpen(ws, PeerOf(s)) /\ PeerOf(s) = row[ws[s].pair].sock[Opposite(ws[s].role)]
      BY <2>0, <3>3 DEF Valid, Current, MutuallyPaired, PeerOf, Socket
    <3>5. ws[s].told = row[ws[s].pair].gen
      BY <2>0, <3>3, <3>4 DEF Linked
    <3>6. ws[PeerOf(s)].told = row[ws[s].pair].gen
      BY <2>0, <3>4, OppositeRole DEF Linked
    <3>7. QED
      BY <3>2, <3>4, <3>5, <3>6
  <2>5. QED
    BY <1>1, <2>2, <2>3, <2>4, Kinds
<1>2. Inv /\ Inv' /\ [Next]_vars => [Told]_vars
  BY <1>1
<1>3. QED
  BY <1>2, InvHolds, PTL DEF Spec, ForwardAnnounced

=============================================================================
