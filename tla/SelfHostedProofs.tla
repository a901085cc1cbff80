---------------------------- MODULE SelfHostedProofs ----------------------------
(***************************************************************************)
(* Proofs about SelfHostedRelay, for any number of requests, accounts,     *)
(* pairs, sockets and messages: the types of its state, that tokens        *)
(* outlive crashes, that what is routed arrives once and in order, and     *)
(* that the queue of a pair loses nothing it has no reason to lose.        *)
(***************************************************************************)
EXTENDS SelfHostedRelay, SequenceTheorems, WellFoundedInduction, TLAPS

(* The accounts: what a handler becomes. *)

LEMMA ProperThen ==
  ASSUME NEW h, Proper(h), NEW pc, pc \in (Stages \ {"mail"}) \union {"done"}, h.pc \in Stages,
         pc \in {"rename", "publish", "compare", "answer"} => h.account # None
  PROVE  Proper([h EXCEPT !.pc = pc]) /\ [h EXCEPT !.pc = pc].pc = pc /\ [h EXCEPT !.pc = pc].account = h.account
         /\ [h EXCEPT !.pc = pc].email = h.email
<1> DEFINE g == [h EXCEPT !.pc = pc]
<1>1. h \in Handler /\ h.email \in Emails
  BY DEF Proper
<1>2. g \in Handler /\ g.pc = pc /\ g.email = h.email /\ g.account = h.account
  BY <1>1 DEF Handler, Stages
<1>3. QED
  BY <1>1, <1>2 DEF Proper

\* A handler that goes on with account a, and one that begins.
Given(h, pc, a) == [h EXCEPT !.pc = pc, !.account = a]
Begun(pc, e, w) == [Fresh EXCEPT !.pc = pc, !.email = e, !.password = w]

LEMMA ProperWith ==
  ASSUME NEW h, Proper(h), NEW pc \in Stages \ {"mail"}, h.pc \in Stages, NEW a \in Account
  PROVE  Proper(Given(h, pc, a)) /\ Given(h, pc, a).pc = pc /\ Given(h, pc, a).account = a
         /\ Given(h, pc, a).email = h.email
<1> DEFINE g == Given(h, pc, a)
<1>1. h \in Handler /\ h.email \in Emails
  BY DEF Proper
<1>2. g \in Handler /\ g.pc = pc /\ g.email = h.email /\ g.account = a
  BY <1>1 DEF Handler, Stages, Given
<1>3. a # None
  BY AccountsAssumption
<1>4. QED
  BY <1>1, <1>2, <1>3 DEF Proper

LEMMA FreshProper == Fresh \in Handler /\ Fresh.pc = "idle" /\ Proper(Fresh)
<1>1. Fresh \in Handler /\ Fresh.pc = "idle"
  BY DEF Fresh, Handler
<1>2. QED
  BY <1>1 DEF Proper, Stages

LEMMA ProperBegin ==
  ASSUME NEW pc \in {"create", "login", "upsert", "mail"}, NEW e \in Emails, NEW w \in Passwords \union {None},
         pc = "mail" => w \in Passwords
  PROVE  Proper(Begun(pc, e, w)) /\ Begun(pc, e, w).pc = pc
<1> DEFINE g == Begun(pc, e, w)
<1>1. \A h \in Handler : LET k == [h EXCEPT !.pc = pc, !.email = e, !.password = w]
                         IN k \in Handler /\ k.pc = pc /\ k.email = e /\ k.password = w
  BY DEF Handler, Stages
<1>2. g \in Handler /\ g.pc = pc /\ g.email = e /\ g.password = w
  BY <1>1, FreshProper DEF Begun
<1>3. QED
  BY <1>2 DEF Proper

\* One handler moves on, and takes or leaves the mutex as its new place says.
LEMMA HandlersMove ==
  ASSUME HandlersTyped, NEW q \in Requests, NEW h, Proper(h), request' = [request EXCEPT ![q] = h],
         h.pc \in {"rename", "publish"} => lock \in {None, q} /\ lock' = q,
         h.pc \notin {"rename", "publish"} => lock' = (IF lock = q THEN None ELSE lock)
  PROVE  HandlersTyped'
<1>1. request \in [Requests -> Handler] /\ lock \in Requests \union {None} /\ None \notin Requests
  BY AccountsAssumption DEF HandlersTyped
<1>2. h \in Handler
  BY DEF Proper
<1>3. request' \in [Requests -> Handler] /\ lock' \in Requests \union {None}
  BY <1>1, <1>2
<1>4. ASSUME NEW r \in Requests
      PROVE  Proper(request'[r]) /\ (lock' = r <=> request'[r].pc \in {"rename", "publish"})
  <2>1. CASE r = q
    BY <1>1, <2>1
  <2>2. CASE r # q
    <3>1. request'[r] = request[r]
      BY <1>1, <2>2
    <3>2. Proper(request[r]) /\ (lock = r <=> request[r].pc \in {"rename", "publish"})
      BY DEF HandlersTyped
    <3>3. lock' = r <=> lock = r
      BY <1>1, <2>2
    <3>4. QED
      BY <3>1, <3>2, <3>3
  <2>3. QED
    BY <2>1, <2>2
<1>5. QED
  BY <1>3, <1>4 DEF HandlersTyped

\* The handler of a request, as Waits finds it.
LEMMA WaitsProper ==
  ASSUME HandlersTyped, NEW q \in Requests, NEW pc, Waits(q, pc)
  PROVE  /\ Proper(request[q]) /\ request[q].pc = pc /\ (pc = "mail" => request[q].password \in Passwords)
         /\ (lock = q <=> pc \in {"rename", "publish"})
         /\ (pc \in Stages => request[q].email \in Emails)
         /\ request[q].password \in Passwords \union {None}
         /\ request[q].account \in Account \union {None}
         /\ (pc \in {"rename", "publish", "compare", "answer"} => request[q].account \in Account)
         /\ lock \in Requests \union {None} /\ lock # None /\ lock # q => lock \in Requests
BY DEF HandlersTyped, Waits, Proper, Handler

LEMMA MoveThen ==
  ASSUME HandlersTyped, NEW q \in Requests, request[q].pc \in Stages, NEW pc, Then(q, pc),
         pc \in (Stages \ {"mail"}) \union {"done"},
         pc \in {"rename", "publish", "compare", "answer"} => request[q].account # None,
         pc \in {"rename", "publish"} => lock \in {None, q} /\ lock' = q,
         pc \notin {"rename", "publish"} => lock' = (IF lock = q THEN None ELSE lock)
  PROVE  HandlersTyped'
<1> DEFINE h == [request[q] EXCEPT !.pc = pc]
<1>1. Proper(request[q]) /\ request' = [request EXCEPT ![q] = h]
  BY DEF HandlersTyped, Then
<1>2. Proper(h) /\ h.pc = pc
  BY <1>1, ProperThen
<1> HIDE DEF h
<1>3. QED
  BY <1>1, <1>2, HandlersMove

LEMMA MoveWith ==
  ASSUME HandlersTyped, NEW q \in Requests, request[q].pc \in Stages, NEW pc \in Stages \ {"mail"}, NEW a \in Account,
         With(q, pc, a),
         pc \in {"rename", "publish"} => lock \in {None, q} /\ lock' = q,
         pc \notin {"rename", "publish"} => lock' = (IF lock = q THEN None ELSE lock)
  PROVE  HandlersTyped'
<1> DEFINE h == Given(request[q], pc, a)
<1>1. Proper(request[q]) /\ request' = [request EXCEPT ![q] = h]
  BY DEF HandlersTyped, With, Given
<1>2. Proper(h) /\ h.pc = pc
  BY <1>1, ProperWith
<1> HIDE DEF h
<1>3. QED
  BY <1>1, <1>2, HandlersMove

LEMMA MoveBegin ==
  ASSUME HandlersTyped, NEW q \in Requests, NEW pc \in {"create", "login", "upsert", "mail"},
         NEW e \in Emails, NEW w \in Passwords \union {None},
         pc = "mail" => w \in Passwords, Begin(q, pc, e, w), UNCHANGED lock
  PROVE  HandlersTyped'
<1> DEFINE h == Begun(pc, e, w)
<1>1. request' = [request EXCEPT ![q] = h] /\ lock # q
  BY DEF HandlersTyped, Begin, Waits, Begun
<1>2. Proper(h) /\ h.pc = pc
  BY ProperBegin
<1> HIDE DEF h
<1>3. QED
  BY <1>1, <1>2, HandlersMove

-----------------------------------------------------------------------------
(* The types of the accounts. *)

\* Each step of a handler that waits keeps the types of the handlers.
LEMMA StoreActs ==
  ASSUME AccountsTypeOK, NEW q \in Requests,
         Create(q) \/ Upsert(q) \/ Save(q) \/ Publish(q) \/ Login(q) \/ Compare(q)
  PROVE  AccountsTypeOK'
<1>1. StoreTyped /\ HandlersTyped /\ None \notin Requests
  BY AccountsAssumption DEF AccountsTypeOK
<1> USE <1>1
<1>2. CASE Create(q)
  <2>1. StoreTyped'
    BY <1>2 DEF StoreTyped, Create
  <2>2. Waits(q, "create") /\ lock = None
    BY <1>2 DEF Create
  <2>3. /\ request[q].pc = "create" /\ request[q].password \in Passwords \union {None}
    BY <2>2, WaitsProper
  <2>4. CASE users[request[q].email] # None
    <3>1. Then(q, IF request[q].otp THEN "login" ELSE "done") /\ UNCHANGED lock
      BY <1>2, <2>4 DEF Create
    <3>2. Then(q, "login") \/ Then(q, "done")
      BY <3>1
    <3>3. HandlersTyped'
      BY <2>2, <2>3, <3>1, <3>2, MoveThen DEF Stages
    <3>4. QED
      BY <2>1, <3>3 DEF AccountsTypeOK
  <2>5. CASE users[request[q].email] = None
    <3> DEFINE a == [id |-> q, password |-> request[q].password]
    <3>1. With(q, "rename", a) /\ lock' = q
      BY <1>2, <2>5 DEF Create
    <3>2. a \in Account
      BY <2>3 DEF Account
    <3> HIDE DEF a
    <3>3. HandlersTyped'
      BY <2>2, <2>3, <3>1, <3>2, MoveWith DEF Stages
    <3>4. QED
      BY <2>1, <3>3 DEF AccountsTypeOK
  <2>6. QED
    BY <2>1, <2>4, <2>5 DEF AccountsTypeOK
<1>3. CASE Upsert(q)
  <2>1. StoreTyped'
    BY <1>3 DEF StoreTyped, Upsert
  <2>2. Waits(q, "upsert") /\ lock = None
    BY <1>3 DEF Upsert
  <2>3. request[q].pc = "upsert" /\ request[q].email \in Emails
    BY <2>2, WaitsProper DEF Stages
  <2>4. CASE users[request[q].email] # None
    <3>1. With(q, "answer", users[request[q].email]) /\ UNCHANGED lock
      BY <1>3, <2>4 DEF Upsert
    <3>2. users[request[q].email] \in Account
      BY <2>3, <2>4 DEF StoreTyped
    <3>3. HandlersTyped'
      BY <2>2, <2>3, <3>1, <3>2, MoveWith DEF Stages
    <3>4. QED
      BY <2>1, <3>3 DEF AccountsTypeOK
  <2>5. CASE users[request[q].email] = None
    <3> DEFINE a == [id |-> q, password |-> None]
    <3>1. With(q, "rename", a) /\ lock' = q
      BY <1>3, <2>5 DEF Upsert
    <3>2. a \in Account
      BY DEF Account
    <3> HIDE DEF a
    <3>3. HandlersTyped'
      BY <2>2, <2>3, <3>1, <3>2, MoveWith DEF Stages
    <3>4. QED
      BY <2>1, <3>3 DEF AccountsTypeOK
  <2>6. QED
    BY <2>4, <2>5
<1>4. CASE Save(q)
  <2>1. Waits(q, "rename")
    BY <1>4 DEF Save
  <2>2. request[q].pc = "rename" /\ request[q].email \in Emails /\ request[q].account \in Account /\ lock = q
    BY <2>1, WaitsProper DEF Stages
  <2>3. StoreTyped'
    BY <1>4, <2>2 DEF StoreTyped, Save
  <2>4. CASE Then(q, "publish") /\ UNCHANGED lock
    BY <2>2, <2>3, <2>4, MoveThen, AccountsAssumption DEF Stages, AccountsTypeOK
  <2>5. CASE Then(q, "done") /\ lock' = None
    BY <2>2, <2>3, <2>5, MoveThen DEF Stages, AccountsTypeOK
  <2>6. QED
    BY <1>4, <2>4, <2>5 DEF Save
<1>5. CASE Publish(q)
  <2>1. Waits(q, "publish")
    BY <1>5 DEF Publish
  <2>2. request[q].pc = "publish" /\ request[q].email \in Emails /\ request[q].account \in Account /\ lock = q
    BY <2>1, WaitsProper DEF Stages
  <2>3. StoreTyped'
    BY <1>5, <2>2 DEF StoreTyped, Publish
  <2>4. Then(q, "answer") /\ lock' = None
    BY <1>5 DEF Publish
  <2>5. QED
    BY <2>2, <2>3, <2>4, MoveThen, AccountsAssumption DEF Stages, AccountsTypeOK
<1>6. CASE Login(q)
  <2>1. StoreTyped'
    BY <1>6 DEF StoreTyped, Login, store
  <2>2. Waits(q, "login") /\ lock = None /\ UNCHANGED lock
    BY <1>6 DEF Login, store
  <2>3. request[q].pc = "login" /\ request[q].email \in Emails
    BY <2>2, WaitsProper DEF Stages
  <2>4. CASE Then(q, "done")
    BY <2>1, <2>2, <2>3, <2>4, MoveThen DEF Stages, AccountsTypeOK
  <2>5. CASE users[request[q].email] # None /\ With(q, "compare", users[request[q].email])
    <3>1. users[request[q].email] \in Account
      BY <2>3, <2>5 DEF StoreTyped
    <3>2. HandlersTyped'
      BY <2>2, <2>3, <2>5, <3>1, MoveWith DEF Stages
    <3>3. QED
      BY <2>1, <3>2 DEF AccountsTypeOK
  <2>6. QED
    BY <1>6, <2>4, <2>5 DEF Login
<1>7. CASE Compare(q)
  <2>1. StoreTyped'
    BY <1>7 DEF StoreTyped, Compare, store
  <2>2. Waits(q, "compare") /\ UNCHANGED lock
    BY <1>7 DEF Compare, store
  <2>3. request[q].pc = "compare" /\ lock # q /\ request[q].account # None
    BY <2>2, WaitsProper, AccountsAssumption
  <2>4. Then(q, "done") \/ Then(q, "answer")
    BY <1>7 DEF Compare
  <2>5. HandlersTyped'
    BY <2>2, <2>3, <2>4, MoveThen DEF Stages
  <2>6. QED
    BY <2>1, <2>5 DEF AccountsTypeOK
<1>8. QED
  BY <1>2, <1>3, <1>4, <1>5, <1>6, <1>7

\* So does each handler that begins, and what happens to the codes and the tokens.
LEMMA HandlerActs ==
  ASSUME AccountsTypeOK, NEW q \in Requests,
         \/ KeepCode(q) \/ Answer(q) \/ Abandon(q)
         \/ \E e \in Emails :
              \/ AuthGoogle(q, e)
              \/ \E w \in Passwords :
                   \/ AuthRegister(q, e, w) \/ AuthLogin(q, e, w) \/ AuthOtpStart(q, e, w)
                   \/ \E code \in Requests : AuthOtpVerify(q, e, w, code)
  PROVE  AccountsTypeOK'
<1>1. StoreTyped /\ HandlersTyped /\ None \notin Requests
  BY AccountsAssumption DEF AccountsTypeOK
<1> USE <1>1
<1>2. CASE KeepCode(q)
  <2>1. Waits(q, "mail") /\ Then(q, "done") /\ UNCHANGED lock
    BY <1>2 DEF KeepCode, store
  <2>2. /\ request[q].pc = "mail" /\ lock # q
        /\ request[q].email \in Emails /\ request[q].password \in Passwords
    BY <2>1, WaitsProper DEF Stages
  <2>3. [password |-> request[q].password, code |-> q, expired |-> FALSE] \in Otp
    BY <2>2 DEF Otp
  <2>4. StoreTyped'
    BY <1>2, <2>2, <2>3 DEF StoreTyped, KeepCode, store
  <2>5. HandlersTyped'
    BY <2>1, <2>2, MoveThen DEF Stages
  <2>6. QED
    BY <2>4, <2>5 DEF AccountsTypeOK
<1>3. CASE Answer(q)
  <2>1. Waits(q, "answer") /\ Then(q, "done") /\ UNCHANGED lock
    BY <1>3 DEF Answer, store
  <2>2. request[q].pc = "answer" /\ lock # q /\ request[q].account \in Account
    BY <2>1, WaitsProper
  <2>3. request[q].account.id \in Requests
    BY <2>2 DEF Account
  <2>4. StoreTyped'
    BY <1>3, <2>3 DEF StoreTyped, Answer, store
  <2>5. HandlersTyped'
    BY <2>1, <2>2, MoveThen DEF Stages
  <2>6. QED
    BY <2>4, <2>5 DEF AccountsTypeOK
<1>4. CASE Abandon(q)
  <2>1. Waits(q, "mail") /\ Then(q, "done") /\ UNCHANGED lock /\ StoreTyped'
    BY <1>4 DEF Abandon, store, StoreTyped
  <2>2. request[q].pc = "mail" /\ lock # q
    BY <2>1, WaitsProper
  <2>3. HandlersTyped'
    BY <2>1, <2>2, MoveThen DEF Stages
  <2>4. QED
    BY <2>1, <2>3 DEF AccountsTypeOK
<1>5. ASSUME NEW e \in Emails, AuthGoogle(q, e)
      PROVE  AccountsTypeOK'
  <2>1. Begin(q, "upsert", e, None) /\ UNCHANGED lock /\ StoreTyped'
    BY <1>5 DEF AuthGoogle, store, StoreTyped
  <2>2. QED
    BY <2>1, MoveBegin DEF AccountsTypeOK
<1>6. ASSUME NEW e \in Emails, NEW w \in Passwords,
             AuthRegister(q, e, w) \/ AuthLogin(q, e, w) \/ AuthOtpStart(q, e, w)
      PROVE  AccountsTypeOK'
  <2>1. UNCHANGED lock /\ StoreTyped'
    BY <1>6 DEF AuthRegister, AuthLogin, AuthOtpStart, store, StoreTyped
  <2>2. Begin(q, "create", e, w) \/ Begin(q, "login", e, w) \/ Begin(q, "mail", e, w)
    BY <1>6 DEF AuthRegister, AuthLogin, AuthOtpStart
  <2>3. HandlersTyped'
    BY <2>1, <2>2, MoveBegin
  <2>4. QED
    BY <2>1, <2>3 DEF AccountsTypeOK
<1>7. ASSUME NEW e \in Emails, NEW w \in Passwords, NEW code \in Requests, AuthOtpVerify(q, e, w, code)
      PROVE  AccountsTypeOK'
  <2> DEFINE h == [Fresh EXCEPT !.pc = "create", !.email = e, !.password = w, !.otp = TRUE]
             d == [Fresh EXCEPT !.pc = "done"]
  <2>1. /\ request[q].pc = "idle" /\ lock # q /\ UNCHANGED lock
        /\ request' = [request EXCEPT ![q] = h] \/ request' = [request EXCEPT ![q] = d]
    BY <1>7 DEF AuthOtpVerify, Waits, HandlersTyped, store
  <2>2. Proper(h) /\ h.pc = "create"
    <3>1. \A k \in Handler : LET g == [k EXCEPT !.pc = "create", !.email = e, !.password = w, !.otp = TRUE]
                             IN g \in Handler /\ g.pc = "create" /\ g.email = e
      BY DEF Handler, Stages
    <3>2. h \in Handler /\ h.pc = "create" /\ h.email = e
      BY <3>1, FreshProper
    <3>3. QED
      BY <3>2 DEF Proper
  <2>3. Proper(d) /\ d.pc = "done"
    <3>1. \A k \in Handler : LET g == [k EXCEPT !.pc = "done"] IN g \in Handler /\ g.pc = "done"
      BY DEF Handler
    <3>2. d \in Handler /\ d.pc = "done"
      BY <3>1, FreshProper
    <3>3. QED
      BY <3>2 DEF Proper, Stages
  <2>4. StoreTyped'
    BY <1>7 DEF StoreTyped, AuthOtpVerify, store
  <2> HIDE DEF h, d
  <2>5. HandlersTyped'
    BY <2>1, <2>2, <2>3, HandlersMove
  <2>6. QED
    BY <2>4, <2>5 DEF AccountsTypeOK
<1>8. QED
  BY <1>2, <1>3, <1>4, <1>5, <1>6, <1>7

LEMMA AccountsStep ==
  ASSUME AccountsTypeOK, AccountsNext
  PROVE  AccountsTypeOK'
<1>1. ASSUME NEW e \in Emails, OtpExpires(e)
      PROVE  AccountsTypeOK'
  <2>1. otps[e] \in Otp
    BY <1>1 DEF AccountsTypeOK, StoreTyped, OtpExpires
  <2>2. [otps[e] EXCEPT !.expired = TRUE] \in Otp
    BY <2>1 DEF Otp
  <2>3. StoreTyped'
    BY <1>1, <2>2 DEF AccountsTypeOK, StoreTyped, OtpExpires, store
  <2>4. HandlersTyped'
    BY <1>1 DEF AccountsTypeOK, HandlersTyped, OtpExpires, store
  <2>5. QED
    BY <2>3, <2>4 DEF AccountsTypeOK
<1>2. CASE TokenExpires
  <2>1. StoreTyped'
    BY <1>2 DEF AccountsTypeOK, StoreTyped, TokenExpires, store
  <2>2. HandlersTyped'
    BY <1>2 DEF AccountsTypeOK, HandlersTyped, TokenExpires, store
  <2>3. QED
    BY <2>1, <2>2 DEF AccountsTypeOK
<1>3. QED
  BY <1>1, <1>2, StoreActs, HandlerActs DEF AccountsNext

LEMMA AccountsRestart ==
  ASSUME AccountsTypeOK, RestartAccounts
  PROVE  AccountsTypeOK'
<1> DEFINE d == [Fresh EXCEPT !.pc = "done"]
<1>1. Proper(d) /\ d.pc = "done" /\ d \in Handler
  <2>1. \A k \in Handler : LET g == [k EXCEPT !.pc = "done"] IN g \in Handler /\ g.pc = "done"
    BY DEF Handler
  <2>2. d \in Handler /\ d.pc = "done"
    BY <2>1, FreshProper
  <2>3. QED
    BY <2>2 DEF Proper, Stages
<1>2. StoreTyped'
  BY DEF AccountsTypeOK, StoreTyped, RestartAccounts
<1>3. lock' = None /\ None \notin Requests
      /\ request' = [q \in Requests |-> IF request[q].pc = "idle" THEN Fresh ELSE d]
  BY AccountsAssumption DEF RestartAccounts, Waits
<1> HIDE DEF d
<1>4. HandlersTyped'
  BY <1>1, <1>3, FreshProper DEF HandlersTyped
<1>5. QED
  BY <1>2, <1>4 DEF AccountsTypeOK

LEMMA AccountsStart ==
  ASSUME AccountsInit
  PROVE  AccountsTypeOK
<1>1. StoreTyped
  BY DEF AccountsInit, StoreTyped
<1>2. HandlersTyped
  BY AccountsAssumption, FreshProper DEF AccountsInit, HandlersTyped
<1>3. QED
  BY <1>1, <1>2 DEF AccountsTypeOK

-----------------------------------------------------------------------------
(* The queue of a pair. *)

\* A set of natural numbers that is not empty has a least element.
LEMMA LeastIn ==
  ASSUME NEW D, D \subseteq Nat, D # {}
  PROVE  Min(D) \in D /\ \A d \in D : Min(D) <= d
<1>1. \E d \in D : \A e \in D : ~(<<e, d>> \in OpToRel(<, Nat))
  BY NatLessThanWellFounded, WFMin
<1>2. \E d \in D : \A e \in D : d <= e
  <2>1. ASSUME NEW d \in Nat, NEW e \in Nat
        PROVE  <<e, d>> \in OpToRel(<, Nat) <=> e < d
    BY Zenon DEF OpToRel
  <2>2. PICK d \in D : \A e \in D : ~(<<e, d>> \in OpToRel(<, Nat))
    BY <1>1
  <2>3. \A e \in D : ~(e < d)
    BY <2>1, <2>2
  <2>4. QED
    BY <2>3
<1>3. QED
  BY <1>2 DEF Min

\* r is what is left of q when its first n elements are dropped.
Rest(r, q, n) ==
  /\ n \in 0..Len(q) /\ Len(r) = Len(q) - n
  /\ \A i \in 1..Len(q) - n : r[i] = q[i + n]

LEMMA RestOfSubSeq ==
  ASSUME NEW S, NEW q \in Seq(S), NEW k \in 1..Len(q)
  PROVE  SubSeq(q, k, Len(q)) \in Seq(S) /\ Rest(SubSeq(q, k, Len(q)), q, k - 1)
<1>1. SubSeq(q, k, Len(q)) \in Seq(S)
  OBVIOUS
<1>2. Len(SubSeq(q, k, Len(q))) = Len(q) - (k - 1) /\ k - 1 \in 0..Len(q)
  OBVIOUS
<1>3. \A i \in 1..Len(q) - (k - 1) : SubSeq(q, k, Len(q))[i] = q[i + (k - 1)]
  OBVIOUS
<1>4. QED
  BY <1>1, <1>2, <1>3 DEF Rest

\* What expire_pending drops is a head of the queue, each message of it too old.
LEMMA KeptIsRest ==
  ASSUME NEW q \in Seq(Pending)
  PROVE  /\ Kept(q) \in Seq(Pending)
         /\ \E n \in 0..Len(q) : Rest(Kept(q), q, n) /\ \A i \in 1..n : ~(clock - q[i].at <= PendingTTL)
<1> DEFINE D == {i \in DOMAIN q : clock - q[i].at <= PendingTTL}
<1>1. DOMAIN q = 1..Len(q) /\ Len(q) \in Nat
  OBVIOUS
<1>2. D \subseteq 1..Len(q) /\ \A i \in 1..Len(q) : i \notin D => ~(clock - q[i].at <= PendingTTL)
  BY <1>1
<1>3. Kept(q) = From(q, D)
  BY DEF Kept
<1> HIDE DEF D
<1>4. CASE D = {}
  <2>1. Kept(q) = <<>>
    BY <1>3, <1>4 DEF From
  <2>2. <<>> \in Seq(Pending) /\ Len(<<>>) = 0
    OBVIOUS
  <2>3. Rest(<<>>, q, Len(q))
    BY <1>1, <2>2 DEF Rest
  <2>4. \A i \in 1..Len(q) : ~(clock - q[i].at <= PendingTTL)
    BY <1>2, <1>4
  <2>5. QED
    BY <1>1, <2>1, <2>2, <2>3, <2>4
<1>5. CASE D # {}
  <2>1. Min(D) \in D /\ \A d \in D : Min(D) <= d
    <3>1. D \subseteq Nat
      BY <1>1, <1>2
    <3>2. QED
      BY <1>5, <3>1, LeastIn
  <2>2. PICK k \in 1..Len(q) : k = Min(D)
    BY <1>2, <2>1
  <2>3. Kept(q) = SubSeq(q, k, Len(q))
    BY <1>3, <1>5, <2>2 DEF From
  <2>4. Kept(q) \in Seq(Pending) /\ Rest(Kept(q), q, k - 1)
    BY <2>3, RestOfSubSeq
  <2>5. \A i \in 1..k - 1 : ~(clock - q[i].at <= PendingTTL)
    BY <1>1, <1>2, <2>1, <2>2
  <2>6. k - 1 \in 0..Len(q)
    BY <1>1
  <2>7. QED
    BY <2>4, <2>5, <2>6
<1>6. QED
  BY <1>4, <1>5

LEMMA FlushedTyped ==
  ASSUME NEW q \in Seq(Pending)
  PROVE  /\ Flushed(q) \in Seq(Message) /\ Len(Flushed(q)) = Len(Kept(q))
         /\ \A i \in 1..Len(Kept(q)) : Flushed(q)[i] = Kept(q)[i].msg
<1>1. Kept(q) \in Seq(Pending)
  BY KeptIsRest
<1> DEFINE r == Kept(q)
<1>2. Flushed(q) = [i \in 1..Len(r) |-> r[i].msg]
  BY DEF Flushed
<1> HIDE DEF r
<1>3. r \in Seq(Pending)
  BY <1>1 DEF r
<1>4. Len(r) \in Nat /\ \A i \in 1..Len(r) : r[i] \in Pending
  BY <1>3
<1>5. \A i \in 1..Len(r) : r[i].msg \in Message
  BY <1>4 DEF Pending
<1>6. Flushed(q) \in [1..Len(r) -> Message]
  BY <1>2, <1>5
<1>7. Flushed(q) \in Seq(Message) /\ Len(Flushed(q)) = Len(r)
  BY <1>4, <1>6
<1>8. QED
  BY <1>2, <1>7 DEF r

\* A message is put behind what is left of the queue, which loses its oldest at the cap.
LEMMA EnqueueAppends ==
  ASSUME SelfHostedAssumption, NEW q \in Seq(Pending), Len(q) <= MaxPending, NEW m \in Message, clock \in 0..Horizon
  PROVE  /\ Enqueue(q, m) \in Seq(Pending) /\ Len(Enqueue(q, m)) <= MaxPending
         /\ \/ MaxPending = 0 /\ Enqueue(q, m) = <<>>
            \/ \E n \in 0..Len(q) :
                 /\ Len(Enqueue(q, m)) = Len(q) - n + 1
                 /\ \A i \in 1..Len(q) - n : Enqueue(q, m)[i] = q[i + n]
                 /\ Enqueue(q, m)[Len(q) - n + 1] = [msg |-> m, at |-> clock]
                 /\ \A i \in 1..n : \/ ~(clock - q[i].at <= PendingTTL)
                                    \/ i = 1 /\ Len(q) = MaxPending
<1> DEFINE e == [msg |-> m, at |-> clock]
           kept == Kept(q)
           room == IF Len(kept) >= MaxPending THEN Tail(kept) ELSE kept
<1>1. MaxPending \in Nat
  BY DEF SelfHostedAssumption
<1>2. CASE MaxPending = 0
  <2>1. Enqueue(q, m) = <<>>
    BY <1>2 DEF Enqueue
  <2>2. <<>> \in Seq(Pending) /\ Len(<<>>) = 0
    OBVIOUS
  <2>3. QED
    BY <1>2, <2>1, <2>2
<1>3. CASE MaxPending # 0
  <2>1. Enqueue(q, m) = Append(room, e)
    BY <1>3 DEF Enqueue
  <2>2. e \in Pending
    BY DEF Pending
  <2>3. kept \in Seq(Pending)
    BY KeptIsRest
  <2>4. PICK n \in 0..Len(q) : Rest(kept, q, n) /\ \A i \in 1..n : ~(clock - q[i].at <= PendingTTL)
    BY KeptIsRest
  <2> HIDE DEF kept, e
  <2>5. /\ Len(kept) = Len(q) - n /\ Len(q) \in Nat
        /\ \A i \in 1..Len(q) - n : kept[i] = q[i + n]
    BY <2>4 DEF Rest
  <2>6. CASE Len(kept) >= MaxPending
    <3>1. n = 0 /\ Len(q) = MaxPending /\ Len(kept) = MaxPending /\ kept # <<>>
      BY <1>1, <1>3, <2>3, <2>5, <2>6
    <3>2. /\ Tail(kept) \in Seq(Pending) /\ Len(Tail(kept)) = Len(q) - 1
          /\ \A i \in 1..Len(q) - 1 : Tail(kept)[i] = kept[i + 1]
      BY <2>3, <2>5, <3>1
    <3>3. \A i \in 1..Len(q) - 1 : kept[i + 1] = q[i + 1]
      BY <2>5, <3>1
    <3> DEFINE a == Append(Tail(kept), e)
    <3>4. /\ a \in Seq(Pending) /\ Len(a) = Len(q) - 1 + 1 /\ a[Len(q) - 1 + 1] = e
          /\ \A i \in 1..Len(q) - 1 : a[i] = Tail(kept)[i]
      BY <2>2, <2>5, <3>2
    <3>5. Enqueue(q, m) = a
      BY <2>1, <2>6
    <3> HIDE DEF a
    <3>6. /\ Enqueue(q, m) \in Seq(Pending) /\ Len(Enqueue(q, m)) <= MaxPending
          /\ Len(Enqueue(q, m)) = Len(q) - 1 + 1
          /\ \A i \in 1..Len(q) - 1 : Enqueue(q, m)[i] = q[i + 1]
          /\ Enqueue(q, m)[Len(q) - 1 + 1] = [msg |-> m, at |-> clock]
      BY <1>1, <2>5, <3>1, <3>2, <3>3, <3>4, <3>5 DEF e
    <3>7. 1 \in 0..Len(q) /\ \A i \in 1..1 : i = 1 /\ Len(q) = MaxPending
      BY <1>1, <1>3, <3>1
    <3>8. QED
      BY <3>6, <3>7
  <2>7. CASE ~(Len(kept) >= MaxPending)
    <3> DEFINE a == Append(kept, e)
    <3>1. /\ a \in Seq(Pending) /\ Len(a) = Len(q) - n + 1 /\ a[Len(q) - n + 1] = e
          /\ \A i \in 1..Len(q) - n : a[i] = kept[i]
      BY <2>2, <2>3, <2>5
    <3>2. Enqueue(q, m) = a
      BY <2>1, <2>7
    <3> HIDE DEF a
    <3>3. /\ Enqueue(q, m) \in Seq(Pending) /\ Len(Enqueue(q, m)) <= MaxPending
          /\ Len(Enqueue(q, m)) = Len(q) - n + 1
          /\ \A i \in 1..Len(q) - n : Enqueue(q, m)[i] = q[i + n]
          /\ Enqueue(q, m)[Len(q) - n + 1] = [msg |-> m, at |-> clock]
      BY <1>1, <2>5, <2>7, <3>1, <3>2 DEF e
    <3>4. QED
      BY <2>4, <3>3
  <2>8. QED
    BY <2>6, <2>7
<1>4. QED
  BY <1>2, <1>3

-----------------------------------------------------------------------------
(* The types of the sessions. *)

WindowSet == [at : 0..Horizon, count : 0..RateLimit]

\* A session with another channel, another queue or another window.
Joins(s, r, k)   == [s EXCEPT !.tx[r] = k]
Queues(s, q)     == [s EXCEPT !.pending = q]
Windows(s, r, w) == [s EXCEPT !.window[r] = w]

LEMMA SessionParts ==
  ASSUME NEW s \in Session
  PROVE  /\ s.tx \in [Roles -> Conns \union {None}] /\ s.pending \in Seq(Pending)
         /\ s.window \in [Roles -> WindowSet]
BY DEF Session, WindowSet

LEMMA JoinsTyped ==
  ASSUME NEW s \in Session, NEW r \in Roles, NEW k \in Conns \union {None}
  PROVE  /\ Joins(s, r, k) \in Session /\ Joins(s, r, k).pending = s.pending
         /\ Joins(s, r, k).tx[r] = k
<1> DEFINE u == [s.tx EXCEPT ![r] = k]
<1>1. u \in [Roles -> Conns \union {None}] /\ u[r] = k
  BY SessionParts
<1>2. \A t \in [Roles -> Conns \union {None}] :
        /\ [s EXCEPT !.tx = t] \in Session
        /\ [s EXCEPT !.tx = t].pending = s.pending /\ [s EXCEPT !.tx = t].tx = t
  BY DEF Session
<1>3. Joins(s, r, k) = [s EXCEPT !.tx = u]
  BY DEF Joins
<1> HIDE DEF u
<1>4. QED
  BY <1>1, <1>2, <1>3

LEMMA QueuesTyped ==
  ASSUME NEW s \in Session, NEW q \in Seq(Pending)
  PROVE  Queues(s, q) \in Session /\ Queues(s, q).pending = q /\ Queues(s, q).tx = s.tx
BY DEF Session, Queues

LEMMA WindowsTyped ==
  ASSUME NEW s \in Session, NEW r \in Roles, NEW w \in WindowSet
  PROVE  /\ Windows(s, r, w) \in Session
         /\ Windows(s, r, w).pending = s.pending /\ Windows(s, r, w).tx = s.tx
<1> DEFINE u == [s.window EXCEPT ![r] = w]
<1>1. u \in [Roles -> WindowSet]
  BY SessionParts
<1>2. \A t \in [Roles -> WindowSet] :
        /\ [s EXCEPT !.window = t] \in Session
        /\ [s EXCEPT !.window = t].pending = s.pending /\ [s EXCEPT !.window = t].tx = s.tx
  BY DEF Session, WindowSet
<1>3. Windows(s, r, w) = [s EXCEPT !.window = u]
  BY DEF Windows
<1> HIDE DEF u
<1>4. QED
  BY <1>1, <1>2, <1>3

LEMMA WindowTyped ==
  ASSUME SelfHostedAssumption, clock \in 0..Horizon, NEW w \in WindowSet
  PROVE  /\ CurrentWindow(w) \in WindowSet
         /\ CurrentWindow(w).count < RateLimit =>
              [CurrentWindow(w) EXCEPT !.count = @ + 1] \in WindowSet
<1>1. Horizon \in Nat /\ RateLimit \in Nat
  BY DEF SelfHostedAssumption
<1>2. CurrentWindow(w) \in WindowSet
  BY <1>1 DEF CurrentWindow, WindowSet
<1>3. \A v \in WindowSet : v.count < RateLimit => [v EXCEPT !.count = @ + 1] \in WindowSet
  BY <1>1 DEF WindowSet
<1>4. QED
  BY <1>2, <1>3

LEMMA NewSessionTyped ==
  ASSUME SelfHostedAssumption, clock \in 0..Horizon
  PROVE  NewSession \in Session /\ NewSession.pending = <<>>
<1>1. 0 \in 0..RateLimit
  BY DEF SelfHostedAssumption
<1>2. [r \in Roles |-> None] \in [Roles -> Conns \union {None}] /\ <<>> \in Seq(Pending)
  OBVIOUS
<1>3. [r \in Roles |-> [at |-> clock, count |-> 0]] \in [Roles -> WindowSet]
  BY <1>1 DEF WindowSet
<1>4. QED
  BY <1>2, <1>3 DEF NewSession, Session, WindowSet

LEMMA ChargedTyped ==
  ASSUME SelfHostedAssumption, clock \in 0..Horizon, NEW s \in Session, NEW r \in Roles,
         CurrentWindow(s.window[r]).count < RateLimit
  PROVE  Charged(s, r) \in Session /\ Charged(s, r).pending = s.pending /\ Charged(s, r).tx = s.tx
<1> DEFINE w == [CurrentWindow(s.window[r]) EXCEPT !.count = @ + 1]
<1>1. s.window[r] \in WindowSet
  BY SessionParts
<1>2. w \in WindowSet
  BY <1>1, WindowTyped
<1>3. Charged(s, r) = [s EXCEPT !.window[r] = w]
  BY DEF Charged
<1> HIDE DEF w
<1>4. Charged(s, r) = Windows(s, r, w)
  BY <1>3 DEF Windows
<1>5. QED
  BY <1>2, <1>4, WindowsTyped

\* What one step does to one session, and to all the sessions.
LEMMA SessionMoves ==
  ASSUME SessionsTyped, NEW p \in Pairs, p \in registered, NEW s \in Session, Len(s.pending) <= MaxPending,
         session' = [session EXCEPT ![p] = s], UNCHANGED registered
  PROVE  SessionsTyped' /\ \A q \in Pairs : session[q] # None => session'[q] # None
<1>1. s # None
  BY SelfHostedAssumption DEF SelfHostedAssumption
<1>2. \A q \in Pairs : session'[q] = IF q = p THEN s ELSE session[q]
  BY DEF SessionsTyped
<1>3. session' \in [Pairs -> Session \union {None}]
  BY DEF SessionsTyped
<1>4. QED
  BY <1>1, <1>2, <1>3 DEF SessionsTyped

LEMMA TaskMoves ==
  ASSUME TasksTyped, NEW c \in Conns, NEW k \in Task, conn' = [conn EXCEPT ![c] = k],
         k.pc \notin {"idle", "closed"} => k.pair \in Pairs /\ session'[k.pair] # None,
         \A q \in Pairs : session[q] # None => session'[q] # None
  PROVE  TasksTyped'
<1>1. \A d \in Conns : conn'[d] = IF d = c THEN k ELSE conn[d]
  BY DEF TasksTyped
<1>2. conn' \in [Conns -> Task]
  BY DEF TasksTyped
<1>3. QED
  BY <1>1, <1>2 DEF TasksTyped

LEMMA TasksKept ==
  ASSUME TasksTyped, UNCHANGED conn, \A q \in Pairs : session[q] # None => session'[q] # None
  PROVE  TasksTyped'
BY DEF TasksTyped

\* The session of a task at work.
LEMMA AtWork ==
  ASSUME SessionsTyped, TasksTyped, NEW c \in Conns, conn[c].pc \notin {"idle", "closed"}
  PROVE  /\ conn[c] \in Task /\ conn[c].pair \in Pairs /\ conn[c].role \in Roles
         /\ Of(c) \in Session /\ Of(c) = session[conn[c].pair] /\ Of(c) # None
         /\ Len(Of(c).pending) <= MaxPending /\ conn[c].pair \in registered
<1>1. conn[c] \in Task /\ conn[c].pair \in Pairs /\ session[conn[c].pair] # None
  BY DEF TasksTyped
<1>2. conn[c].role \in Roles
  BY <1>1 DEF Task
<1>3. QED
  BY <1>1, <1>2 DEF SessionsTyped, Of

-----------------------------------------------------------------------------
(* What each step does to the sessions and the channels. *)

Before(p) == IF session[p] = None THEN NewSession ELSE session[p]

Typed == SessionsTyped /\ TasksTyped /\ LinesTyped /\ CountsTyped

LEMMA BeforeTyped ==
  ASSUME Typed, NEW p \in Pairs
  PROVE  /\ Before(p) \in Session /\ Len(Before(p).pending) <= MaxPending
         /\ session[p] = None => Before(p).pending = <<>>
<1>1. NewSession \in Session /\ NewSession.pending = <<>>
  BY NewSessionTyped, SelfHostedAssumption DEF Typed, CountsTyped
<1>2. Len(<<>>) <= MaxPending
  BY SelfHostedAssumption DEF SelfHostedAssumption
<1>3. QED
  BY <1>1, <1>2 DEF Before, Typed, SessionsTyped

\* A desktop takes the queue into its channel; a phone begins with an empty channel.
LEMMA AttachDoes ==
  ASSUME Typed, NEW c \in Conns, NEW p \in Pairs, NEW r \in Roles, Attach(c, p, r)
  PROVE  \E s \in Session :
           /\ session' = [session EXCEPT ![p] = s] /\ s.tx[r] = c
           /\ \/ /\ r = "desktop" /\ s.pending = <<>>
                 /\ out' = [out EXCEPT ![c] = Flushed(Before(p).pending)]
              \/ /\ r = "android" /\ s.pending = Before(p).pending
                 /\ out' = [out EXCEPT ![c] = <<>>]
<1> DEFINE b == Before(p)
           j == Joins(b, r, c)
<1>1. b \in Session
  BY BeforeTyped
<1>2. j \in Session /\ j.pending = b.pending /\ j.tx[r] = c
  BY <1>1, JoinsTyped
<1>3. Queues(j, <<>>) \in Session /\ Queues(j, <<>>).pending = <<>> /\ Queues(j, <<>>).tx = j.tx
  <2>1. <<>> \in Seq(Pending)
    OBVIOUS
  <2>2. QED
    BY <1>2, <2>1, QueuesTyped
<1>4. /\ session' = [session EXCEPT ![p] = IF r = "desktop" THEN Queues(j, <<>>) ELSE j]
      /\ out' = [out EXCEPT ![c] = IF r = "desktop" THEN Flushed(b.pending) ELSE <<>>]
  BY DEF Attach, Before, Joins, Queues
<1>5. r \in {"android", "desktop"}
  BY DEF Roles
<1> HIDE DEF j
<1>6. CASE r = "desktop"
  BY <1>2, <1>3, <1>4, <1>6
<1>7. CASE r = "android"
  BY <1>2, <1>4, <1>7
<1>8. QED
  BY <1>5, <1>6, <1>7

LEMMA OppositeRole == \A r \in Roles : Opposite(r) \in Roles
BY DEF Opposite, Roles

\* A routed message goes into one channel, or behind the queue, or nowhere.
LEMMA RouteDoes ==
  ASSUME Typed, NEW c \in Conns, NEW o \in BOOLEAN, Route(c, o)
  PROVE  /\ conn[c].pc = "reading" /\ sent' = sent + 1 /\ sent' \in Message
         /\ \E s \in Session :
              /\ session' = [session EXCEPT ![conn[c].pair] = s]
              /\ \/ s.pending = Of(c).pending /\ UNCHANGED out
                 \/ /\ s.pending = Of(c).pending
                    /\ \E to \in Conns : conn[to].writing /\ out' = [out EXCEPT ![to] = Append(@, sent')]
                 \/ s.pending = Enqueue(Of(c).pending, sent') /\ UNCHANGED out
<1> DEFINE p == conn[c].pair
           r == conn[c].role
           m == sent + 1
           s == Of(c)
           to == s.tx[Opposite(r)]
           h == Charged(s, r)
<1>1. conn[c].pc = "reading" /\ sent < MaxMessages /\ sent' = m /\ CurrentWindow(s.window[r]).count < RateLimit
  BY DEF Route
<1>2. /\ p \in Pairs /\ r \in Roles /\ s \in Session /\ Len(s.pending) <= MaxPending
  BY <1>1, AtWork DEF Typed
<1>3. m \in Message /\ clock \in 0..Horizon
  BY <1>1, SelfHostedAssumption DEF Message, Typed, CountsTyped, SelfHostedAssumption
<1>4. h \in Session /\ h.pending = s.pending /\ h.tx = s.tx
  BY <1>1, <1>2, <1>3, ChargedTyped, SelfHostedAssumption
<1>5. s.pending \in Seq(Pending) /\ to \in Conns \union {None}
  BY <1>2, SessionParts, OppositeRole
<1>6. Enqueue(s.pending, m) \in Seq(Pending)
  BY <1>2, <1>3, <1>5, EnqueueAppends, SelfHostedAssumption
<1>7. CASE session' = [session EXCEPT ![p] = h] /\ UNCHANGED out
  BY <1>1, <1>3, <1>4, <1>7
<1>8. CASE to # None /\ conn[to].writing /\ out' = [out EXCEPT ![to] = Append(@, m)] /\ session' = [session EXCEPT ![p] = h]
  <2> HIDE DEF h, m, p, to, s
  <2>1. to \in Conns
    BY <1>5, <1>8
  <2>2. h \in Session /\ h.pending = s.pending /\ sent' = m
    BY <1>1, <1>4
  <2>3. QED
    BY <1>1, <1>3, <1>8, <2>1, <2>2 DEF s, m, p
<1>9. CASE /\ session' = [session EXCEPT ![p] =
                [h EXCEPT !.tx[Opposite(r)] = None, !.pending = IF r = "android" THEN Enqueue(@, m) ELSE @]]
           /\ UNCHANGED out
  <2> DEFINE q == IF r = "android" THEN Enqueue(s.pending, m) ELSE s.pending
             j == Joins(h, Opposite(r), None)
  <2>1. j \in Session /\ j.pending = s.pending
    BY <1>2, <1>4, JoinsTyped, OppositeRole
  <2>2. q \in Seq(Pending)
    BY <1>5, <1>6
  <2>3. Queues(j, q) \in Session /\ Queues(j, q).pending = q
    BY <2>1, <2>2, QueuesTyped
  <2>4. session' = [session EXCEPT ![p] = Queues(j, q)]
    BY <1>4, <1>9, <2>1 DEF Queues, Joins
  <2> HIDE DEF j
  <2>5. q = s.pending \/ q = Enqueue(s.pending, sent')
    BY <1>1
  <2>6. QED
    BY <1>1, <1>3, <1>9, <2>3, <2>4, <2>5
<1>10. QED
  BY <1>7, <1>8, <1>9 DEF Route

\* The steps that neither route nor attach leave every queue as it is.
SameQueues ==
  \A p \in Pairs : /\ session[p] # None <=> session'[p] # None
                   /\ session[p] # None => session'[p].pending = session[p].pending

LEMMA OneSameQueue ==
  ASSUME Typed, NEW p \in Pairs, session[p] # None, NEW s \in Session, s.pending = session[p].pending,
         session' = [session EXCEPT ![p] = s]
  PROVE  SameQueues
<1>1. s # None
  BY SelfHostedAssumption DEF SelfHostedAssumption
<1>2. \A q \in Pairs : session'[q] = IF q = p THEN s ELSE session[q]
  BY DEF Typed, SessionsTyped
<1>3. QED
  BY <1>1, <1>2 DEF SameQueues

LEMMA RefuseDoes ==
  ASSUME Typed, NEW c \in Conns, Refuse(c)
  PROVE  SessionsTyped' /\ SameQueues
<1> DEFINE p == conn[c].pair
           r == conn[c].role
           w == CurrentWindow(Of(c).window[r])
<1>1. conn[c].pc = "reading" /\ (UNCHANGED session \/ session' = [session EXCEPT ![p].window[r] = w])
  BY DEF Refuse
<1>2. /\ p \in Pairs /\ r \in Roles /\ Of(c) \in Session /\ Len(Of(c).pending) <= MaxPending
      /\ Of(c) = session[p] /\ Of(c) # None /\ p \in registered
  BY <1>1, AtWork DEF Typed
<1>3. w \in WindowSet
  BY <1>2, SessionParts, WindowTyped, SelfHostedAssumption DEF Typed, CountsTyped
<1>4. UNCHANGED registered
  BY DEF Refuse
<1> HIDE DEF p, r, w
<1>5. CASE UNCHANGED session
  BY <1>4, <1>5 DEF Typed, SessionsTyped, SameQueues
<1>6. CASE session' = [session EXCEPT ![p].window[r] = w]
  <2> DEFINE s == Windows(Of(c), r, w)
  <2>1. s \in Session /\ s.pending = Of(c).pending
    BY <1>2, <1>3, WindowsTyped
  <2>2. session' = [session EXCEPT ![p] = s]
    BY <1>2, <1>6 DEF Windows
  <2> HIDE DEF s
  <2>3. SessionsTyped'
    BY <1>2, <1>4, <2>1, <2>2, SessionMoves DEF Typed
  <2>4. SameQueues
    BY <1>2, <2>1, <2>2, OneSameQueue
  <2>5. QED
    BY <2>3, <2>4
<1>7. QED
  BY <1>1, <1>5, <1>6

LEMMA DetachDoes ==
  ASSUME Typed, NEW c \in Conns, Detach(c)
  PROVE  SessionsTyped' /\ SameQueues
<1> DEFINE p == conn[c].pair
           r == conn[c].role
<1>1. conn[c].pc = "leaving" /\ (UNCHANGED session \/ session' = [session EXCEPT ![p].tx[r] = None])
  BY DEF Detach
<1>2. /\ p \in Pairs /\ r \in Roles /\ Of(c) \in Session /\ Len(Of(c).pending) <= MaxPending
      /\ Of(c) = session[p] /\ Of(c) # None /\ p \in registered
  BY <1>1, AtWork DEF Typed
<1>3. UNCHANGED registered
  BY DEF Detach
<1> HIDE DEF p, r
<1>4. CASE UNCHANGED session
  BY <1>3, <1>4 DEF Typed, SessionsTyped, SameQueues
<1>5. CASE session' = [session EXCEPT ![p].tx[r] = None]
  <2> DEFINE s == Joins(Of(c), r, None)
  <2>1. s \in Session /\ s.pending = Of(c).pending
    BY <1>2, JoinsTyped
  <2>2. session' = [session EXCEPT ![p] = s]
    BY <1>2, <1>5 DEF Joins
  <2> HIDE DEF s
  <2>3. SessionsTyped'
    BY <1>2, <1>3, <2>1, <2>2, SessionMoves DEF Typed
  <2>4. SameQueues
    BY <1>2, <2>1, <2>2, OneSameQueue
  <2>5. QED
    BY <2>3, <2>4
<1>6. QED
  BY <1>1, <1>4, <1>5

-----------------------------------------------------------------------------
(* The types hold. *)

\* A task at a new place.
LEMMA TaskAt ==
  ASSUME NEW k \in Task
  PROVE  /\ \A pc \in {"leaving", "detached", "closed"} : [k EXCEPT !.pc = pc] \in Task /\ [k EXCEPT !.pc = pc].pc = pc
              /\ [k EXCEPT !.pc = pc].pair = k.pair /\ [k EXCEPT !.pc = pc].writing = k.writing
         /\ [k EXCEPT !.writing = FALSE] \in Task /\ [k EXCEPT !.writing = FALSE].pc = k.pc
         /\ [k EXCEPT !.writing = FALSE].pair = k.pair /\ [k EXCEPT !.writing = FALSE].writing = FALSE
<1>1. FALSE \in BOOLEAN
  OBVIOUS
<1>2. QED
  BY <1>1 DEF Task

\* The end of the loop of a task.
LEMMA BreakTyped ==
  ASSUME Typed, NEW c \in Conns, conn[c].pc = "reading", Break(c), UNCHANGED <<out, got>>,
         \A p \in Pairs : session[p] # None => session'[p] # None
  PROVE  TasksTyped' /\ LinesTyped'
<1> DEFINE k == [conn[c] EXCEPT !.pc = "leaving"]
<1>1. conn[c] \in Task /\ conn[c].pair \in Pairs /\ session[conn[c].pair] # None
  BY DEF Typed, TasksTyped
<1>2. k \in Task /\ k.pc = "leaving" /\ k.pair = conn[c].pair /\ k.writing = conn[c].writing
  BY <1>1, TaskAt
<1>3. conn' = [conn EXCEPT ![c] = k]
  BY DEF Break
<1> HIDE DEF k
<1>4. TasksTyped'
  BY <1>1, <1>2, <1>3, TaskMoves DEF Typed
<1>5. \A d \in Conns : conn'[d].writing = conn[d].writing
  BY <1>2, <1>3 DEF Typed, TasksTyped
<1>6. LinesTyped'
  BY <1>5 DEF Typed, LinesTyped
<1>7. QED
  BY <1>4, <1>6

LEMMA ServeTyped ==
  ASSUME Typed, NEW c \in Conns, Serve(c)
  PROVE  Typed'
<1> USE DEF Typed
<1>0. out[c] \in Seq(Message) /\ got[c] \in Seq(Message) /\ <<>> \in Seq(Message) /\ conn[c] \in Task
  BY DEF LinesTyped, TasksTyped
<1>1. CASE Refuse(c)
  <2>1. SessionsTyped' /\ SameQueues
    BY <1>1, RefuseDoes
  <2>2. conn[c].pc = "reading" /\ Break(c) /\ UNCHANGED <<out, got, clock>> /\ sent' = sent + 1 /\ sent < MaxMessages
    BY <1>1 DEF Refuse
  <2>3. TasksTyped' /\ LinesTyped'
    BY <2>1, <2>2, BreakTyped DEF SameQueues
  <2>4. CountsTyped'
    BY <2>2, SelfHostedAssumption DEF CountsTyped, SelfHostedAssumption
  <2>5. QED
    BY <2>1, <2>3, <2>4
<1>2. CASE SeeWriterEnd(c) \/ CheckOwner(c) \/ Lose(c)
  <2>1. /\ conn[c].pc = "reading" /\ Break(c) /\ UNCHANGED <<registered, session, out, got, sent, clock>>
    BY <1>2 DEF SeeWriterEnd, CheckOwner, Lose
  <2>2. TasksTyped' /\ LinesTyped'
    BY <2>1, BreakTyped
  <2>3. QED
    BY <2>1, <2>2 DEF SessionsTyped, CountsTyped
<1>3. CASE Detach(c)
  <2> DEFINE k == [conn[c] EXCEPT !.pc = "detached"]
  <2>1. SessionsTyped' /\ SameQueues
    BY <1>3, DetachDoes
  <2>2. conn[c].pc = "leaving" /\ conn' = [conn EXCEPT ![c] = k] /\ UNCHANGED <<out, got, sent, clock>>
    BY <1>3 DEF Detach
  <2>3. k \in Task /\ k.pc = "detached" /\ k.pair = conn[c].pair /\ k.writing = conn[c].writing
    BY <1>0, TaskAt
  <2> HIDE DEF k
  <2>4. TasksTyped'
    BY <2>1, <2>2, <2>3, AtWork, TaskMoves DEF SameQueues, TasksTyped
  <2>5. \A d \in Conns : conn'[d].writing = conn[d].writing
    BY <2>2, <2>3 DEF TasksTyped
  <2>6. LinesTyped' /\ CountsTyped'
    BY <2>2, <2>5 DEF LinesTyped, CountsTyped
  <2>7. QED
    BY <2>1, <2>4, <2>6
<1>4. CASE Abort(c)
  <2> DEFINE j == [conn[c] EXCEPT !.pc = "closed"]
             k == [j EXCEPT !.writing = FALSE]
  <2>1. /\ conn' = [conn EXCEPT ![c] = k] /\ out' = [out EXCEPT ![c] = <<>>]
        /\ UNCHANGED <<registered, session, got, sent, clock>>
    BY <1>4 DEF Abort
  <2>2. j \in Task /\ j.pc = "closed"
    BY <1>0, TaskAt
  <2> HIDE DEF j
  <2>3. k \in Task /\ k.pc = "closed" /\ k.writing = FALSE
    BY <2>2, TaskAt
  <2> HIDE DEF k
  <2>4. TasksTyped'
    BY <2>1, <2>3, TaskMoves
  <2>5. LinesTyped'
    BY <1>0, <2>1, <2>3 DEF LinesTyped, TasksTyped
  <2>6. QED
    BY <2>1, <2>4, <2>5 DEF SessionsTyped, CountsTyped
<1>5. CASE WriteFails(c)
  <2> DEFINE k == [conn[c] EXCEPT !.writing = FALSE]
  <2>1. /\ conn' = [conn EXCEPT ![c] = k] /\ out' = [out EXCEPT ![c] = <<>>]
        /\ UNCHANGED <<registered, session, got, sent, clock>>
    BY <1>5 DEF WriteFails
  <2>2. k \in Task /\ k.pc = conn[c].pc /\ k.pair = conn[c].pair /\ k.writing = FALSE
    BY <1>0, TaskAt
  <2> HIDE DEF k
  <2>3. TasksTyped'
    BY <2>1, <2>2, TaskMoves DEF TasksTyped
  <2>4. LinesTyped'
    BY <1>0, <2>1, <2>2 DEF LinesTyped, TasksTyped
  <2>5. QED
    BY <2>1, <2>3, <2>4 DEF SessionsTyped, CountsTyped
<1>6. CASE Write(c)
  <2>1. /\ conn[c].writing /\ out[c] # <<>> /\ UNCHANGED <<registered, session, conn, sent, clock>>
        /\ out' = [out EXCEPT ![c] = Tail(out[c])] /\ got' = [got EXCEPT ![c] = Append(got[c], Head(out[c]))]
    BY <1>6 DEF Write
  <2>2. Tail(out[c]) \in Seq(Message) /\ Head(out[c]) \in Message
    BY <1>0, <2>1
  <2>3. Append(got[c], Head(out[c])) \in Seq(Message)
    BY <1>0, <2>2
  <2>4. LinesTyped'
    BY <2>1, <2>2, <2>3 DEF LinesTyped
  <2>5. QED
    BY <2>1, <2>4 DEF SessionsTyped, TasksTyped, CountsTyped
<1>7. ASSUME NEW o \in BOOLEAN, Route(c, o)
      PROVE  Typed'
  <2>1. /\ conn[c].pc = "reading" /\ sent' = sent + 1 /\ sent' \in Message
        /\ UNCHANGED <<registered, conn, got, clock>>
    BY <1>7, RouteDoes DEF Route
  <2>2. PICK s \in Session :
              /\ session' = [session EXCEPT ![conn[c].pair] = s]
              /\ \/ s.pending = Of(c).pending /\ UNCHANGED out
                 \/ /\ s.pending = Of(c).pending
                    /\ \E to \in Conns : conn[to].writing /\ out' = [out EXCEPT ![to] = Append(@, sent')]
                 \/ s.pending = Enqueue(Of(c).pending, sent') /\ UNCHANGED out
    BY <1>7, RouteDoes
  <2>3. /\ conn[c].pair \in Pairs /\ conn[c].pair \in registered
        /\ Of(c) \in Session /\ Len(Of(c).pending) <= MaxPending
    BY <2>1, AtWork
  <2>4. Len(Enqueue(Of(c).pending, sent')) <= MaxPending
    BY <2>1, <2>3, SessionParts, EnqueueAppends, SelfHostedAssumption DEF CountsTyped
  <2>5. Len(s.pending) <= MaxPending
    BY <2>2, <2>3, <2>4
  <2>6. SessionsTyped' /\ \A q \in Pairs : session[q] # None => session'[q] # None
    BY <2>1, <2>2, <2>3, <2>5, SessionMoves
  <2>7. TasksTyped'
    BY <2>1, <2>6, TasksKept
  <2>8. LinesTyped'
    <3>1. CASE UNCHANGED out
      BY <2>1, <3>1 DEF LinesTyped
    <3>2. ASSUME NEW to \in Conns, conn[to].writing, out' = [out EXCEPT ![to] = Append(@, sent')]
          PROVE  LinesTyped'
      <4>1. Append(out[to], sent') \in Seq(Message)
        BY <2>1 DEF LinesTyped
      <4>2. QED
        BY <2>1, <3>2, <4>1 DEF LinesTyped
    <3>3. QED
      BY <2>2, <3>1, <3>2
  <2>9. CountsTyped'
    BY <2>1, SelfHostedAssumption DEF CountsTyped, Message, SelfHostedAssumption
  <2>10. QED
    BY <2>6, <2>7, <2>8, <2>9
<1>8. ASSUME NEW p \in Pairs, NEW r \in Roles, Accept(c, p, r)
      PROVE  Typed'
  <2> DEFINE k == [pc |-> "reading", pair |-> p, role |-> r, writing |-> TRUE]
  <2>1. /\ conn[c].pc = "idle" /\ p \in registered /\ Attach(c, p, r)
        /\ conn' = [conn EXCEPT ![c] = k] /\ UNCHANGED <<registered, got, sent, clock>>
    BY <1>8 DEF Accept
  <2>2. k \in Task /\ k.pc = "reading" /\ k.pair = p /\ k.writing
    <3>1. TRUE \in BOOLEAN
      OBVIOUS
    <3>2. QED
      BY <3>1 DEF Task
  <2> HIDE DEF k
  <2>3. PICK s \in Session :
           /\ session' = [session EXCEPT ![p] = s] /\ s.tx[r] = c
           /\ \/ /\ r = "desktop" /\ s.pending = <<>>
                 /\ out' = [out EXCEPT ![c] = Flushed(Before(p).pending)]
              \/ /\ r = "android" /\ s.pending = Before(p).pending
                 /\ out' = [out EXCEPT ![c] = <<>>]
    BY <2>1, AttachDoes
  <2>4. Before(p).pending \in Seq(Pending) /\ Len(Before(p).pending) <= MaxPending
    BY BeforeTyped, SessionParts
  <2>5. Len(s.pending) <= MaxPending /\ Len(<<>>) = 0
    BY <2>3, <2>4, SelfHostedAssumption DEF SelfHostedAssumption
  <2>6. SessionsTyped' /\ \A q \in Pairs : session[q] # None => session'[q] # None
    BY <2>1, <2>3, <2>5, SessionMoves
  <2>7. session'[p] # None
    BY <2>3, SelfHostedAssumption DEF SelfHostedAssumption, SessionsTyped
  <2>8. TasksTyped'
    BY <2>1, <2>2, <2>6, <2>7, TaskMoves
  <2>9. Flushed(Before(p).pending) \in Seq(Message)
    BY <2>4, FlushedTyped
  <2>10. LinesTyped'
    BY <1>0, <2>1, <2>2, <2>3, <2>9 DEF LinesTyped, TasksTyped
  <2>11. QED
    BY <2>1, <2>6, <2>8, <2>10 DEF CountsTyped
<1>9. QED
  BY <1>1, <1>2, <1>3, <1>4, <1>5, <1>6, <1>7, <1>8 DEF Serve

LEMMA RestartTyped ==
  ASSUME Typed, Restart
  PROVE  Typed'
<1> DEFINE d == [Idle EXCEPT !.pc = "closed"]
<1>1. Idle \in Task /\ Idle.pc = "idle"
  <2>1. FALSE \in BOOLEAN
    OBVIOUS
  <2>2. QED
    BY <2>1 DEF Idle, Task, Roles
<1>2. d \in Task /\ d.pc = "closed"
  BY <1>1, TaskAt
<1> HIDE DEF d
<1>3. /\ registered' = {} /\ session' = [p \in Pairs |-> None]
      /\ conn' = [c \in Conns |-> IF conn[c].pc = "idle" THEN Idle ELSE d]
      /\ out' = [c \in Conns |-> <<>>] /\ UNCHANGED <<got, sent, clock>>
  BY DEF Restart, d
<1>4. <<>> \in Seq(Message)
  OBVIOUS
<1>5. SessionsTyped'
  BY <1>3 DEF SessionsTyped
<1>6. TasksTyped'
  BY <1>1, <1>2, <1>3 DEF TasksTyped
<1>7. LinesTyped' /\ CountsTyped'
  BY <1>3, <1>4 DEF Typed, LinesTyped, CountsTyped
<1>8. QED
  BY <1>5, <1>6, <1>7 DEF Typed

LEMMA TypesStart == Init => TypeOK
<1> SUFFICES ASSUME Init PROVE TypeOK
  OBVIOUS
<1>1. AccountsTypeOK
  BY AccountsStart DEF Init
<1>2. Idle \in Task /\ Idle.pc = "idle"
  <2>1. FALSE \in BOOLEAN
    OBVIOUS
  <2>2. QED
    BY <2>1 DEF Idle, Task, Roles
<1>3. <<>> \in Seq(Message)
  OBVIOUS
<1>4. SessionsTyped
  BY DEF Init, InitSessions, SessionsTyped
<1>5. TasksTyped
  BY <1>2 DEF Init, InitSessions, TasksTyped
<1>6. LinesTyped
  BY <1>3 DEF Init, InitSessions, LinesTyped
<1>7. CountsTyped
  BY SelfHostedAssumption DEF Init, InitSessions, CountsTyped, SelfHostedAssumption
<1>8. QED
  BY <1>1, <1>4, <1>5, <1>6, <1>7 DEF TypeOK

LEMMA TypesStep == TypeOK /\ [Next]_vars => TypeOK'
<1> SUFFICES ASSUME TypeOK, [Next]_vars PROVE TypeOK'
  OBVIOUS
<1>1. AccountsTypeOK /\ Typed
  BY DEF TypeOK, Typed
<1>2. (AccountsTypeOK /\ Typed)' => TypeOK'
  BY DEF TypeOK, Typed
<1>4. UNCHANGED accountVars => AccountsTypeOK'
  BY <1>1 DEF accountVars, store, AccountsTypeOK, StoreTyped, HandlersTyped
<1>5. UNCHANGED sessionVars => Typed'
  BY <1>1 DEF sessionVars, Typed, SessionsTyped, TasksTyped, LinesTyped, CountsTyped
<1>6. CASE AccountsNext /\ UNCHANGED sessionVars
  BY <1>1, <1>2, <1>5, <1>6, AccountsStep
<1>7. CASE SessionsNext /\ UNCHANGED accountVars
  <2>1. CASE Tick
    <3>1. CountsTyped'
      BY <1>1, <2>1, SelfHostedAssumption DEF Typed, CountsTyped, Tick, SelfHostedAssumption
    <3>2. Typed'
      BY <1>1, <2>1, <3>1 DEF Tick, Typed, SessionsTyped, TasksTyped, LinesTyped
    <3>3. QED
      BY <1>2, <1>4, <1>7, <3>2
  <2>2. QED
    BY <1>1, <1>2, <1>4, <1>7, <2>1, ServeTyped DEF SessionsNext
<1>8. ASSUME NEW p \in Pairs, Register(p)
      PROVE  TypeOK'
  <2>1. Typed'
    BY <1>1, <1>8 DEF Register, Typed, SessionsTyped, TasksTyped, LinesTyped, CountsTyped
  <2>2. QED
    BY <1>2, <1>4, <1>8, <2>1 DEF Register
<1>9. CASE Restart
  BY <1>1, <1>2, <1>9, RestartTyped, AccountsRestart DEF Restart
<1>10. CASE UNCHANGED vars
  BY <1>2, <1>4, <1>5, <1>10 DEF vars
<1>11. QED
  BY <1>6, <1>7, <1>8, <1>9, <1>10 DEF Next

\* The accounts, their handlers and codes, the sessions with their queues within the cap and
\* their windows within the budget, the sockets and their channels are of their types; a task
\* at work has a session, and a writer that has ended leaves nothing in its channel.
\* (session.rs:6-37, relay.rs:12-70, account_store.rs:20-50)
THEOREM TypeCorrect == Spec => []TypeOK
BY TypesStart, TypesStep, PTL DEF Spec

-----------------------------------------------------------------------------
(* Tokens outlive crashes. *)

Has(f, a)     == \E e \in Emails : f[e] = a
OnDisk(a)     == Has(file, a)
Saving(h)     == users = file /\ users[h.email] = None
Publishing(h) == users[h.email] = None /\ file = [users EXCEPT ![h.email] = h.account]

\* A handler is sound: what it compares or answers with is on disk, and the one that holds
\* the mutex finds memory and file as its place says.
Sound(h) ==
  /\ h.pc \in {"compare", "answer"} => OnDisk(h.account)
  /\ h.pc = "rename" => Saving(h)
  /\ h.pc = "publish" => Publishing(h)

Durable ==
  /\ \A q \in Requests : Sound(request[q])
  /\ lock = None => users = file
  /\ \A id \in tokens : \E a \in Account : OnDisk(a) /\ a.id = id

LEMMA DurableShows ==
  ASSUME AccountsTypeOK, Durable
  PROVE  TokensOutliveCrashes
<1>1. \A id \in tokens : \E e \in Emails : file[e] # None /\ file[e].id = id
  BY AccountsAssumption DEF Durable, OnDisk, Has
<1>2. ASSUME NEW e \in Emails, users[e] # None
      PROVE  file[e] = users[e]
  <2>1. CASE lock = None
    BY <2>1 DEF Durable
  <2>2. CASE lock # None
    <3>1. PICK q \in Requests : lock = q
      BY <2>2 DEF AccountsTypeOK, HandlersTyped
    <3>2. Sound(request[q]) /\ request[q].pc \in {"rename", "publish"}
      BY <3>1 DEF Durable, AccountsTypeOK, HandlersTyped
    <3>3. QED
      BY <1>2, <3>2 DEF Sound, Saving, Publishing, AccountsTypeOK, StoreTyped
  <2>3. QED
    BY <2>1, <2>2
<1>3. QED
  BY <1>1, <1>2 DEF TokensOutliveCrashes, Durable

\* A step that leaves memory and file alone is sound when the handler it moves is.
LEMMA DurableMove ==
  ASSUME AccountsTypeOK, Durable, NEW q \in Requests, NEW h, request' = [request EXCEPT ![q] = h],
         UNCHANGED <<users, file>>, Sound(h), lock' = None => users = file,
         \A id \in tokens' : id \in tokens \/ \E a \in Account : OnDisk(a) /\ a.id = id
  PROVE  Durable'
<1>1. \A a : OnDisk(a)' <=> OnDisk(a)
  BY DEF OnDisk, Has
<1>2. ASSUME NEW r \in Requests
      PROVE  Sound(request[r])'
  <2>1. \A g : (g = request'[r] /\ Sound(g)) => Sound(request[r])'
    BY DEF Sound, OnDisk, Has, Saving, Publishing
  <2>2. request'[r] = h \/ request'[r] = request[r]
    BY DEF AccountsTypeOK, HandlersTyped
  <2>3. QED
    BY <2>1, <2>2 DEF Durable
<1>3. \A id \in tokens' : \E a \in Account : OnDisk(a)' /\ a.id = id
  BY <1>1 DEF Durable
<1>4. QED
  BY <1>2, <1>3 DEF Durable

\* A handler at a place where nothing is asked of it.
LEMMA SoundElsewhere ==
  ASSUME NEW h, h.pc \notin {"compare", "answer", "rename", "publish"}
  PROVE  Sound(h)
BY DEF Sound

LEMMA DurableThen ==
  ASSUME AccountsTypeOK, Durable, NEW q \in Requests, NEW pc \in {"done", "login"}, Then(q, pc),
         UNCHANGED <<users, file>>, lock' = None => users = file,
         \A id \in tokens' : id \in tokens \/ \E a \in Account : OnDisk(a) /\ a.id = id
  PROVE  Durable'
<1> DEFINE h == [request[q] EXCEPT !.pc = pc]
<1>1. request' = [request EXCEPT ![q] = h]
  BY DEF Then
<1>2. h.pc = pc
  BY DEF AccountsTypeOK, HandlersTyped, Handler
<1> HIDE DEF h
<1>3. Sound(h)
  BY <1>2, SoundElsewhere
<1>4. QED
  BY <1>1, <1>3, DurableMove

LEMMA DurableWith ==
  ASSUME AccountsTypeOK, Durable, NEW q \in Requests, NEW pc \in Stages \ {"mail"}, NEW a \in Account,
         request[q].pc \in Stages, With(q, pc, a),
         UNCHANGED <<users, file, tokens>>, lock' = None => users = file,
         pc \in {"compare", "answer"} => OnDisk(a),
         pc = "rename" => users = file /\ users[request[q].email] = None, pc # "publish"
  PROVE  Durable'
<1> DEFINE h == Given(request[q], pc, a)
<1>1. request' = [request EXCEPT ![q] = h]
  BY DEF With, Given
<1>2. h.pc = pc /\ h.account = a /\ h.email = request[q].email
  BY ProperWith DEF AccountsTypeOK, HandlersTyped
<1> HIDE DEF h
<1>3. Sound(h)
  BY <1>2 DEF Sound, Saving
<1>4. QED
  BY <1>1, <1>3, DurableMove

LEMMA DurableBegin ==
  ASSUME AccountsTypeOK, Durable, NEW q \in Requests, NEW pc \in {"create", "login", "upsert", "mail"},
         NEW e \in Emails, NEW w \in Passwords \union {None}, pc = "mail" => w \in Passwords,
         Begin(q, pc, e, w), UNCHANGED <<users, file, lock, tokens>>
  PROVE  Durable'
<1> DEFINE h == Begun(pc, e, w)
<1>1. request' = [request EXCEPT ![q] = h]
  BY DEF Begin, Begun
<1>2. h.pc = pc
  BY ProperBegin
<1> HIDE DEF h
<1>3. Sound(h)
  BY <1>2, SoundElsewhere
<1>4. QED
  BY <1>1, <1>3, DurableMove DEF Durable

LEMMA DurableStore ==
  ASSUME AccountsTypeOK, Durable, NEW q \in Requests,
         Create(q) \/ Upsert(q) \/ Save(q) \/ Publish(q) \/ Login(q) \/ Compare(q)
  PROVE  Durable'
<1>0. StoreTyped /\ HandlersTyped /\ None \notin Requests /\ None \notin Account
  BY AccountsAssumption DEF AccountsTypeOK
<1>1. CASE Create(q)
  <2>1. Waits(q, "create") /\ lock = None /\ UNCHANGED <<users, file, tokens>> /\ users = file
    BY <1>1 DEF Create, Durable
  <2>2. request[q].pc = "create" /\ request[q].password \in Passwords \union {None}
    BY <1>0, <2>1, WaitsProper
  <2>3. CASE users[request[q].email] # None
    <3>1. Then(q, "login") \/ Then(q, "done")
      BY <1>1, <2>3 DEF Create
    <3>2. QED
      BY <2>1, <3>1, DurableThen
  <2>4. CASE users[request[q].email] = None
    <3> DEFINE a == [id |-> q, password |-> request[q].password]
    <3>1. With(q, "rename", a)
      BY <1>1, <2>4 DEF Create
    <3>2. a \in Account
      BY <2>2 DEF Account
    <3> HIDE DEF a
    <3>3. QED
      BY <2>1, <2>2, <2>4, <3>1, <3>2, DurableWith DEF Stages
  <2>5. QED
    BY <2>3, <2>4
<1>2. CASE Upsert(q)
  <2>1. Waits(q, "upsert") /\ lock = None /\ UNCHANGED <<users, file, tokens>> /\ users = file
    BY <1>2 DEF Upsert, Durable
  <2>2. request[q].pc = "upsert" /\ request[q].email \in Emails
    BY <1>0, <2>1, WaitsProper DEF Stages
  <2>3. CASE users[request[q].email] # None
    <3>1. With(q, "answer", users[request[q].email])
      BY <1>2, <2>3 DEF Upsert
    <3>2. users[request[q].email] \in Account /\ OnDisk(users[request[q].email])
      BY <1>0, <2>1, <2>2, <2>3 DEF StoreTyped, OnDisk, Has
    <3>3. QED
      BY <2>1, <2>2, <3>1, <3>2, DurableWith DEF Stages
  <2>4. CASE users[request[q].email] = None
    <3> DEFINE a == [id |-> q, password |-> None]
    <3>1. With(q, "rename", a)
      BY <1>2, <2>4 DEF Upsert
    <3>2. a \in Account
      BY DEF Account
    <3> HIDE DEF a
    <3>3. QED
      BY <2>1, <2>2, <2>4, <3>1, <3>2, DurableWith DEF Stages
  <2>5. QED
    BY <2>3, <2>4
<1>3. CASE Save(q)
  <2> DEFINE e == request[q].email
             a == request[q].account
             h == [request[q] EXCEPT !.pc = "publish"]
  <2>1. Waits(q, "rename")
    BY <1>3 DEF Save
  <2>2. request[q].pc = "rename" /\ e \in Emails /\ a \in Account /\ lock = q /\ Proper(request[q])
    BY <1>0, <2>1, WaitsProper DEF Stages
  <2>3. users = file /\ users[e] = None
    BY <2>2 DEF Durable, Sound, Saving
  <2>4. CASE Then(q, "done") /\ lock' = None /\ UNCHANGED file
    BY <1>3, <2>3, <2>4, DurableThen DEF Save
  <2>5. CASE file' = [users EXCEPT ![e] = a] /\ Then(q, "publish") /\ UNCHANGED lock
    <3>1. request' = [request EXCEPT ![q] = h] /\ UNCHANGED <<users, tokens>>
      BY <1>3, <2>5 DEF Save, Then
    <3>2. h.pc = "publish" /\ h.email = e /\ h.account = a
      BY <1>0, <2>2, ProperThen DEF Stages
    <3> HIDE DEF h, e, a
    <3>3. \A b \in Account : OnDisk(b) => OnDisk(b)'
      <4>1. ASSUME NEW b \in Account, NEW d \in Emails, file[d] = b
            PROVE  file'[d] = b
        BY <1>0, <2>3, <2>5, <4>1 DEF StoreTyped
      <4>2. QED
        BY <4>1 DEF OnDisk, Has
    <3>4. users'[h.email] = None /\ file' = [users' EXCEPT ![h.email] = h.account]
      BY <2>3, <2>5, <3>1, <3>2
    <3>5. ASSUME NEW r \in Requests
          PROVE  Sound(request[r])'
      <4>1. CASE r = q
        <5>1. request'[r] = h
          BY <1>0, <3>1, <4>1 DEF HandlersTyped
        <5>2. QED
          BY <3>2, <3>4, <5>1 DEF Sound, Publishing
      <4>2. CASE r # q
        <5>1. request'[r] = request[r]
          BY <1>0, <3>1, <4>2 DEF HandlersTyped
        <5>2. request[r].pc \notin {"rename", "publish"}
          BY <1>0, <2>2, <4>2 DEF HandlersTyped
        <5>3. request[r].pc \in {"compare", "answer"} => request[r].account \in Account /\ OnDisk(request[r].account)
          BY <1>0 DEF HandlersTyped, Proper, Handler, Durable, Sound
        <5>4. request[r].pc \in {"compare", "answer"} => Has(file', request'[r].account)
          BY <3>3, <5>1, <5>3 DEF OnDisk, Has
        <5>5. QED
          BY <5>1, <5>2, <5>4 DEF Sound, OnDisk
      <4>3. QED
        BY <4>1, <4>2
    <3>6. \A id \in tokens' : \E b \in Account : OnDisk(b)' /\ b.id = id
      BY <3>1, <3>3 DEF Durable
    <3>7. QED
      BY <1>0, <2>2, <2>5, <3>5, <3>6 DEF Durable
  <2>6. QED
    BY <1>3, <2>4, <2>5 DEF Save
<1>4. CASE Publish(q)
  <2> DEFINE e == request[q].email
             a == request[q].account
             h == [request[q] EXCEPT !.pc = "answer"]
  <2>1. Waits(q, "publish")
    BY <1>4 DEF Publish
  <2>2. request[q].pc = "publish" /\ e \in Emails /\ a \in Account /\ lock = q /\ Proper(request[q])
    BY <1>0, <2>1, WaitsProper DEF Stages
  <2>3. file = [users EXCEPT ![e] = a]
    BY <2>2 DEF Durable, Sound, Publishing
  <2>4. users' = file /\ request' = [request EXCEPT ![q] = h] /\ lock' = None /\ UNCHANGED <<file, tokens>>
    BY <1>4, <2>3 DEF Publish, Then
  <2>5. h.pc = "answer" /\ h.account = a
    BY <1>0, <2>2, ProperThen DEF Stages
  <2> HIDE DEF h, e, a
  <2>6. file[e] = a
    BY <1>0, <2>2, <2>3 DEF StoreTyped
  <2>7. \A b : OnDisk(b) <=> OnDisk(b)'
    BY <2>4 DEF OnDisk, Has
  <2>8. OnDisk(a)
    BY <2>2, <2>6 DEF OnDisk, Has
  <2>9. ASSUME NEW r \in Requests
        PROVE  Sound(request[r])'
    <3>1. CASE r = q
      <4>1. request'[r] = h
        BY <1>0, <2>4, <3>1 DEF HandlersTyped
      <4>2. Has(file', request'[r].account)
        BY <2>4, <2>5, <2>8, <4>1 DEF OnDisk, Has
      <4>3. QED
        BY <2>5, <4>1, <4>2 DEF Sound, OnDisk
    <3>2. CASE r # q
      <4>1. request'[r] = request[r]
        BY <1>0, <2>4, <3>2 DEF HandlersTyped
      <4>2. request[r].pc \notin {"rename", "publish"}
        BY <1>0, <2>2, <3>2 DEF HandlersTyped
      <4>3. request[r].pc \in {"compare", "answer"} => Has(file', request'[r].account)
        BY <2>4, <4>1 DEF OnDisk, Has, Durable, Sound
      <4>4. QED
        BY <4>1, <4>2, <4>3 DEF Sound, OnDisk
    <3>3. QED
      BY <3>1, <3>2
  <2>10. \A id \in tokens' : \E b \in Account : OnDisk(b)' /\ b.id = id
    BY <2>4, <2>7 DEF Durable
  <2>11. QED
    BY <2>4, <2>9, <2>10 DEF Durable
<1>5. CASE Login(q)
  <2>1. Waits(q, "login") /\ lock = None /\ UNCHANGED <<users, file, lock, tokens>> /\ users = file
    BY <1>5 DEF Login, Durable, store
  <2>2. request[q].pc = "login" /\ request[q].email \in Emails
    BY <1>0, <2>1, WaitsProper DEF Stages
  <2>3. CASE Then(q, "done")
    BY <2>1, <2>3, DurableThen
  <2>4. CASE users[request[q].email] # None /\ With(q, "compare", users[request[q].email])
    <3>1. users[request[q].email] \in Account /\ OnDisk(users[request[q].email])
      BY <1>0, <2>1, <2>2, <2>4 DEF StoreTyped, OnDisk, Has
    <3>2. QED
      BY <2>1, <2>2, <2>4, <3>1, DurableWith DEF Stages
  <2>5. QED
    BY <1>5, <2>3, <2>4 DEF Login
<1>6. CASE Compare(q)
  <2> DEFINE h == [request[q] EXCEPT !.pc = "answer"]
  <2>1. Waits(q, "compare") /\ UNCHANGED <<users, file, lock, tokens>>
    BY <1>6 DEF Compare, store
  <2>2. request[q].pc = "compare" /\ Proper(request[q]) /\ request[q].account \in Account
    BY <1>0, <2>1, WaitsProper
  <2>3. lock' = None => users = file
    BY <2>1 DEF Durable
  <2>4. CASE Then(q, "done")
    BY <2>1, <2>3, <2>4, DurableThen
  <2>5. CASE Then(q, "answer")
    <3>1. request' = [request EXCEPT ![q] = h]
      BY <2>5 DEF Then
    <3>2. h.pc = "answer" /\ h.account = request[q].account
      BY <1>0, <2>2, ProperThen DEF Stages
    <3> HIDE DEF h
    <3>3. Sound(h)
      BY <2>2, <3>2 DEF Durable, Sound
    <3>4. QED
      BY <2>1, <2>3, <3>1, <3>3, DurableMove
  <2>6. QED
    BY <1>6, <2>4, <2>5 DEF Compare
<1>7. QED
  BY <1>1, <1>2, <1>3, <1>4, <1>5, <1>6

LEMMA DurableHandlers ==
  ASSUME AccountsTypeOK, Durable, NEW q \in Requests,
         \/ KeepCode(q) \/ Answer(q) \/ Abandon(q)
         \/ \E e \in Emails :
              \/ AuthGoogle(q, e)
              \/ \E w \in Passwords :
                   \/ AuthRegister(q, e, w) \/ AuthLogin(q, e, w) \/ AuthOtpStart(q, e, w)
                   \/ \E code \in Requests : AuthOtpVerify(q, e, w, code)
  PROVE  Durable'
<1>0. HandlersTyped
  BY DEF AccountsTypeOK
<1>1. lock = None => users = file
  BY DEF Durable
<1>2. CASE KeepCode(q) \/ Abandon(q)
  <2>1. Then(q, "done") /\ UNCHANGED <<users, file, lock, tokens>>
    BY <1>2 DEF KeepCode, Abandon, store
  <2>2. QED
    BY <1>1, <2>1, DurableThen
<1>3. CASE Answer(q)
  <2>1. Waits(q, "answer") /\ Then(q, "done") /\ UNCHANGED <<users, file, lock>>
        /\ tokens' = tokens \union {request[q].account.id}
    BY <1>3 DEF Answer, store
  <2>2. request[q].pc = "answer" /\ request[q].account \in Account
    BY <1>0, <2>1, WaitsProper
  <2>3. OnDisk(request[q].account)
    BY <2>2 DEF Durable, Sound
  <2>4. QED
    BY <1>1, <2>1, <2>2, <2>3, DurableThen
<1>4. ASSUME NEW e \in Emails, AuthGoogle(q, e)
      PROVE  Durable'
  <2>1. Begin(q, "upsert", e, None) /\ UNCHANGED <<users, file, lock, tokens>>
    BY <1>4 DEF AuthGoogle, store
  <2>2. QED
    BY <2>1, DurableBegin
<1>5. ASSUME NEW e \in Emails, NEW w \in Passwords,
             AuthRegister(q, e, w) \/ AuthLogin(q, e, w) \/ AuthOtpStart(q, e, w)
      PROVE  Durable'
  <2>1. UNCHANGED <<users, file, lock, tokens>>
    BY <1>5 DEF AuthRegister, AuthLogin, AuthOtpStart, store
  <2>2. Begin(q, "create", e, w) \/ Begin(q, "login", e, w) \/ Begin(q, "mail", e, w)
    BY <1>5 DEF AuthRegister, AuthLogin, AuthOtpStart
  <2>3. QED
    BY <2>1, <2>2, DurableBegin
<1>6. ASSUME NEW e \in Emails, NEW w \in Passwords, NEW code \in Requests, AuthOtpVerify(q, e, w, code)
      PROVE  Durable'
  <2> DEFINE h == [Fresh EXCEPT !.pc = "create", !.email = e, !.password = w, !.otp = TRUE]
             d == [Fresh EXCEPT !.pc = "done"]
  <2>1. /\ UNCHANGED <<users, file, lock, tokens>>
        /\ request' = [request EXCEPT ![q] = h] \/ request' = [request EXCEPT ![q] = d]
    BY <1>6 DEF AuthOtpVerify, store
  <2>2. h.pc = "create" /\ d.pc = "done"
    <3>1. \A k \in Handler : /\ [k EXCEPT !.pc = "done"].pc = "done"
                             /\ [k EXCEPT !.pc = "create", !.email = e, !.password = w, !.otp = TRUE].pc = "create"
      BY DEF Handler
    <3>2. QED
      BY <3>1, FreshProper
  <2> HIDE DEF h, d
  <2>3. Sound(h) /\ Sound(d)
    BY <2>2, SoundElsewhere
  <2>4. QED
    BY <1>1, <2>1, <2>3, DurableMove
<1>7. QED
  BY <1>2, <1>3, <1>4, <1>5, <1>6

\* When memory, file and handlers stay and no token is added.
LEMMA DurableKept ==
  ASSUME Durable, UNCHANGED <<users, file, lock, request>>, tokens' \subseteq tokens
  PROVE  Durable'
<1>1. \A q \in Requests : Sound(request[q])'
  BY DEF Durable, Sound, OnDisk, Has, Saving, Publishing
<1>2. \A a : OnDisk(a)' <=> OnDisk(a)
  BY DEF OnDisk, Has
<1>3. \A id \in tokens' : \E a \in Account : OnDisk(a)' /\ a.id = id
  BY <1>2 DEF Durable
<1>4. lock' = None => users' = file'
  BY DEF Durable
<1>5. QED
  BY <1>1, <1>3, <1>4 DEF Durable

LEMMA DurableRestart ==
  ASSUME Durable, RestartAccounts
  PROVE  Durable'
<1> DEFINE d == [Fresh EXCEPT !.pc = "done"]
<1>1. request' = [q \in Requests |-> IF request[q].pc = "idle" THEN Fresh ELSE d]
      /\ users' = file /\ UNCHANGED <<file, tokens>>
  BY DEF RestartAccounts, Waits
<1>2. Fresh.pc = "idle" /\ d.pc = "done"
  <2>1. \A k \in Handler : [k EXCEPT !.pc = "done"].pc = "done"
    BY DEF Handler
  <2>2. QED
    BY <2>1, FreshProper
<1> HIDE DEF d
<1>3. \A q \in Requests : request'[q].pc \in {"idle", "done"}
  BY <1>1, <1>2
<1>4. \A q \in Requests : Sound(request[q])'
  BY <1>3 DEF Sound
<1>5. \A a : OnDisk(a)' <=> OnDisk(a)
  BY <1>1 DEF OnDisk, Has
<1>6. \A id \in tokens' : \E a \in Account : OnDisk(a)' /\ a.id = id
  BY <1>1, <1>5 DEF Durable
<1>7. QED
  BY <1>1, <1>4, <1>6 DEF Durable

LEMMA DurableStart == Init => Durable
<1> SUFFICES ASSUME Init PROVE Durable
  OBVIOUS
<1>1. \A q \in Requests : request[q].pc = "idle"
  BY FreshProper DEF Init, AccountsInit
<1>2. QED
  BY <1>1 DEF Durable, Sound, Init, AccountsInit

LEMMA DurableStep == TypeOK /\ Durable /\ [Next]_vars => Durable'
<1> SUFFICES ASSUME TypeOK, Durable, [Next]_vars PROVE Durable'
  OBVIOUS
<1>0. AccountsTypeOK
  BY DEF TypeOK
<1>1. CASE AccountsNext
  <2>1. ASSUME NEW e \in Emails, OtpExpires(e)
        PROVE  Durable'
    BY <2>1, DurableKept DEF OtpExpires, store
  <2>2. CASE TokenExpires
    <3>1. UNCHANGED <<users, file, lock, request>> /\ tokens' \subseteq tokens
      BY <2>2 DEF TokenExpires, store
    <3>2. QED
      BY <3>1, DurableKept
  <2>3. QED
    BY <1>0, <1>1, <2>1, <2>2, DurableStore, DurableHandlers DEF AccountsNext
<1>2. CASE UNCHANGED accountVars
  <2>1. UNCHANGED <<users, file, lock, request>> /\ tokens' \subseteq tokens
    BY <1>2 DEF accountVars, store
  <2>2. QED
    BY <2>1, DurableKept
<1>3. CASE Restart
  BY <1>3, DurableRestart DEF Restart
<1>4. QED
  BY <1>1, <1>2, <1>3 DEF Next, Register, vars

\* A session token names an account that is in the store's file, whatever step the process
\* died at and whoever registered the same address at the same time; and the accounts in
\* memory are never ahead of the file nor, outside the mutex, behind it.
\* (register_password, upsert_google_user and save_locked, account_store.rs:55-133)
THEOREM TokensAreDurable == Spec => []TokensOutliveCrashes
<1>1. TypeOK /\ Durable => TokensOutliveCrashes
  BY DurableShows DEF TypeOK
<1>2. QED
  BY <1>1, TypeCorrect, DurableStart, DurableStep, PTL DEF Spec

-----------------------------------------------------------------------------
(* Sequences of messages: pieces of one another. *)

Rising(s)   == \A i, j \in 1..Len(s) : i < j => s[i] < s[j]
Below(s, n) == \A i \in 1..Len(s) : s[i] <= n
Apart(s, t) == \A i \in 1..Len(s), j \in 1..Len(t) : s[i] # t[j]

\* s is a contiguous piece of t; or such a piece and m behind it.
Piece(s, t) ==
  \E k \in Nat : Len(s) + k <= Len(t) /\ \A i \in 1..Len(s) : s[i] = t[i + k]
PieceThen(s, t, m) ==
  /\ Len(s) > 0 /\ s[Len(s)] = m
  /\ \E k \in Nat : Len(s) - 1 + k <= Len(t) /\ \A i \in 1..Len(s) - 1 : s[i] = t[i + k]

LEMMA PieceKeeps ==
  ASSUME NEW s \in Seq(Nat), NEW t \in Seq(Nat), Piece(s, t), NEW n \in Nat, NEW m \in Nat, n <= m,
         Rising(t), Below(t, n)
  PROVE  Rising(s) /\ Below(s, m)
<1>1. PICK k \in Nat : Len(s) + k <= Len(t) /\ \A i \in 1..Len(s) : s[i] = t[i + k]
  BY DEF Piece
<1>2. Len(s) \in Nat /\ Len(t) \in Nat /\ \A i \in 1..Len(t) : t[i] \in Nat
  OBVIOUS
<1>3. \A i \in 1..Len(s) : i + k \in 1..Len(t) /\ s[i] = t[i + k]
  BY <1>1, <1>2
<1>4. Rising(s)
  BY <1>2, <1>3 DEF Rising
<1>5. \A i \in 1..Len(s) : s[i] <= m
  BY <1>2, <1>3 DEF Below
<1>6. QED
  BY <1>4, <1>5 DEF Below

LEMMA PieceThenKeeps ==
  ASSUME NEW s \in Seq(Nat), NEW t \in Seq(Nat), NEW n \in Nat, NEW m \in Nat, n < m,
         PieceThen(s, t, m), Rising(t), Below(t, n)
  PROVE  Rising(s) /\ Below(s, m)
<1>1. PICK k \in Nat : Len(s) - 1 + k <= Len(t) /\ \A i \in 1..Len(s) - 1 : s[i] = t[i + k]
  BY DEF PieceThen
<1>2. Len(s) \in Nat /\ Len(t) \in Nat /\ \A i \in 1..Len(t) : t[i] \in Nat
  OBVIOUS
<1>3. Len(s) > 0 /\ s[Len(s)] = m
  BY DEF PieceThen
<1>4. \A i \in 1..Len(s) - 1 : i + k \in 1..Len(t) /\ s[i] = t[i + k] /\ t[i + k] <= n
  BY <1>1, <1>2 DEF Below
<1>5. ASSUME NEW i \in 1..Len(s), NEW j \in 1..Len(s), i < j
      PROVE  s[i] < s[j]
  <2>1. i \in 1..Len(s) - 1 /\ s[i] = t[i + k] /\ i + k \in 1..Len(t) /\ t[i + k] <= n
    BY <1>2, <1>4, <1>5
  <2>2. CASE j = Len(s)
    BY <1>2, <1>3, <2>1, <2>2
  <2>3. CASE j # Len(s)
    <3>1. j \in 1..Len(s) - 1
      BY <1>2, <2>3
    <3>2. s[j] = t[j + k] /\ j + k \in 1..Len(t)
      BY <1>4, <3>1
    <3>3. i + k < j + k
      BY <1>5
    <3>4. t[i + k] < t[j + k]
      BY <2>1, <3>2, <3>3 DEF Rising
    <3>5. QED
      BY <2>1, <3>2, <3>4
  <2>4. QED
    BY <2>2, <2>3
<1>6. ASSUME NEW i \in 1..Len(s)
      PROVE  s[i] <= m
  <2>1. CASE i = Len(s)
    BY <1>3, <2>1
  <2>2. CASE i # Len(s)
    <3>1. i \in 1..Len(s) - 1
      BY <1>2, <2>2
    <3>2. s[i] = t[i + k] /\ i + k \in 1..Len(t) /\ t[i + k] <= n
      BY <1>4, <3>1
    <3>3. QED
      BY <1>2, <3>2
  <2>3. QED
    BY <2>1, <2>2
<1>7. QED
  BY <1>5, <1>6 DEF Rising, Below

\* Whatever is in a piece was in the whole.
LEMMA PieceHas ==
  ASSUME NEW s \in Seq(Nat), NEW t \in Seq(Nat), Piece(s, t), NEW i \in 1..Len(s)
  PROVE  \E j \in 1..Len(t) : s[i] = t[j]
<1>1. PICK k \in Nat : Len(s) + k <= Len(t) /\ \A h \in 1..Len(s) : s[h] = t[h + k]
  BY DEF Piece
<1>2. i + k \in 1..Len(t) /\ s[i] = t[i + k]
  BY <1>1
<1>3. QED
  BY <1>2

LEMMA PieceThenHas ==
  ASSUME NEW s \in Seq(Nat), NEW t \in Seq(Nat), NEW m, PieceThen(s, t, m), NEW i \in 1..Len(s)
  PROVE  s[i] = m \/ \E j \in 1..Len(t) : s[i] = t[j]
<1>1. PICK k \in Nat : Len(s) - 1 + k <= Len(t) /\ \A h \in 1..Len(s) - 1 : s[h] = t[h + k]
  BY DEF PieceThen
<1>2. CASE i = Len(s)
  BY <1>2 DEF PieceThen
<1>3. CASE i # Len(s)
  <2>1. i \in 1..Len(s) - 1
    BY <1>3
  <2>2. i + k \in 1..Len(t) /\ s[i] = t[i + k]
    BY <1>1, <2>1
  <2>3. QED
    BY <2>2
<1>4. QED
  BY <1>2, <1>3

\* Sequences in lanes, each rising and no element in two of them.
Neat(K, W, n) ==
  /\ \A x \in K : Rising(W[x]) /\ Below(W[x], n)
  /\ \A x, y \in K : x # y => Apart(W[x], W[y])

\* Each lane becomes a piece of one of them, no two of the same one, and at most one lane, z,
\* gets a new and larger element behind its piece.
Follows(K, V, W, f, z, n, m) ==
  /\ f \in [K -> K] /\ \A x, y \in K : x # y => f[x] # f[y]
  /\ \A x \in K : Piece(V[x], W[f[x]]) \/ (x = z /\ n < m /\ PieceThen(V[x], W[f[x]], m))

LEMMA NeatMoves ==
  ASSUME NEW K, NEW W \in [K -> Seq(Nat)], NEW V \in [K -> Seq(Nat)], NEW n \in Nat, NEW m \in Nat, n <= m,
         Neat(K, W, n), NEW z, NEW f, Follows(K, V, W, f, z, n, m)
  PROVE  Neat(K, V, m)
<1> USE DEF Follows
<1>1. ASSUME NEW x \in K
      PROVE  Rising(V[x]) /\ Below(V[x], m)
  <2>1. f[x] \in K
    OBVIOUS
  <2>2. /\ V[x] \in Seq(Nat) /\ W[f[x]] \in Seq(Nat) /\ Rising(W[f[x]]) /\ Below(W[f[x]], n)
    BY <2>1 DEF Neat
  <2>3. QED
    BY <2>2, PieceKeeps, PieceThenKeeps
<1>2. ASSUME NEW x \in K, NEW i \in 1..Len(V[x])
      PROVE  \/ \E j \in 1..Len(W[f[x]]) : V[x][i] = W[f[x]][j]
             \/ x = z /\ n < m /\ V[x][i] = m
  <2>1. V[x] \in Seq(Nat) /\ W[f[x]] \in Seq(Nat)
    OBVIOUS
  <2>2. QED
    BY <2>1, PieceHas, PieceThenHas
<1>3. ASSUME NEW x \in K, NEW i \in 1..Len(W[f[x]])
      PROVE  W[f[x]][i] \in Nat /\ W[f[x]][i] <= n
  <2>1. f[x] \in K /\ W[f[x]] \in Seq(Nat)
    OBVIOUS
  <2>2. QED
    BY <2>1 DEF Neat, Below
<1>4. ASSUME NEW x \in K, NEW y \in K, x # y, NEW i \in 1..Len(V[x]), NEW j \in 1..Len(V[y]),
             V[x][i] = V[y][j]
      PROVE  FALSE
  <2>1. f[x] \in K /\ f[y] \in K /\ f[x] # f[y]
    BY <1>4
  <2>2. Apart(W[f[x]], W[f[y]])
    BY <2>1 DEF Neat
  <2>3. CASE (\E h \in 1..Len(W[f[x]]) : V[x][i] = W[f[x]][h]) /\ (\E h \in 1..Len(W[f[y]]) : V[y][j] = W[f[y]][h])
    BY <1>4, <2>2, <2>3 DEF Apart
  <2>4. CASE x = z /\ n < m /\ V[x][i] = m
    <3>1. PICK h \in 1..Len(W[f[y]]) : V[y][j] = W[f[y]][h]
      BY <1>2, <1>4, <2>4
    <3>2. W[f[y]][h] \in Nat /\ W[f[y]][h] <= n
      BY <1>3
    <3>3. W[f[y]][h] = m
      BY <1>4, <2>4, <3>1
    <3>4. QED
      BY <2>4, <3>2, <3>3
  <2>5. CASE y = z /\ n < m /\ V[y][j] = m
    <3>1. PICK h \in 1..Len(W[f[x]]) : V[x][i] = W[f[x]][h]
      BY <1>2, <1>4, <2>5
    <3>2. W[f[x]][h] \in Nat /\ W[f[x]][h] <= n
      BY <1>3
    <3>3. W[f[x]][h] = m
      BY <1>4, <2>5, <3>1
    <3>4. QED
      BY <2>5, <3>2, <3>3
  <2>6. QED
    BY <1>2, <2>3, <2>4, <2>5
<1>5. \A x, y \in K : x # y => Apart(V[x], V[y])
  BY <1>4 DEF Apart
<1>6. QED
  BY <1>1, <1>5 DEF Neat

\* The same, when every lane becomes a piece of itself.
Shrinks(K, V, W, z, n, m) ==
  \A x \in K : Piece(V[x], W[x]) \/ (x = z /\ n < m /\ PieceThen(V[x], W[x], m))

LEMMA NeatShrinks ==
  ASSUME NEW K, NEW W \in [K -> Seq(Nat)], NEW V \in [K -> Seq(Nat)], NEW n \in Nat, NEW m \in Nat, n <= m,
         Neat(K, W, n), NEW z, Shrinks(K, V, W, z, n, m)
  PROVE  Neat(K, V, m)
<1> DEFINE f == [x \in K |-> x]
<1>1. f \in [K -> K] /\ \A x \in K : f[x] = x
  OBVIOUS
<1> HIDE DEF f
<1>2. \A x, y \in K : x # y => f[x] # f[y]
  BY <1>1
<1>3. \A x \in K : Piece(V[x], W[f[x]]) \/ (x = z /\ n < m /\ PieceThen(V[x], W[f[x]], m))
  BY <1>1 DEF Shrinks
<1>4. Follows(K, V, W, f, z, n, m)
  BY <1>1, <1>2, <1>3 DEF Follows
<1>5. QED
  BY <1>4, NeatMoves

-----------------------------------------------------------------------------
(* Lines and queues as lanes. *)

Lane == ({"line"} \X Conns) \union ({"queue"} \X Pairs)

Msgs(q) == [i \in 1..Len(q) |-> q[i].msg]
Waiting(s) == IF s = None THEN <<>> ELSE Msgs(s.pending)

\* What each socket has received and is to receive, and what each queue holds.
LanesOf(g, o, s) == [x \in Lane |-> IF x[1] = "line" THEN g[x[2]] \o o[x[2]] ELSE Waiting(s[x[2]])]

LEMMA MsgsTyped ==
  ASSUME NEW q \in Seq(Pending)
  PROVE  /\ Msgs(q) \in Seq(Message) /\ Len(Msgs(q)) = Len(q)
         /\ \A i \in 1..Len(q) : Msgs(q)[i] = q[i].msg
<1>1. Len(q) \in Nat /\ \A i \in 1..Len(q) : q[i] \in Pending
  OBVIOUS
<1>2. \A i \in 1..Len(q) : q[i].msg \in Message
  BY <1>1 DEF Pending
<1>3. Msgs(q) \in [1..Len(q) -> Message]
  BY <1>2 DEF Msgs
<1>4. Msgs(q) \in Seq(Message) /\ Len(Msgs(q)) = Len(q)
  BY <1>1, <1>3
<1>5. QED
  BY <1>4 DEF Msgs

LEMMA WaitingTyped ==
  ASSUME NEW s \in Session \union {None}
  PROVE  Waiting(s) \in Seq(Message)
<1>1. <<>> \in Seq(Message)
  OBVIOUS
<1>2. QED
  BY <1>1, SessionParts, MsgsTyped DEF Waiting

LEMMA MessagesAreNat ==
  ASSUME SelfHostedAssumption
  PROVE  Message \subseteq Nat /\ \A s \in Seq(Message) : s \in Seq(Nat)
<1>1. Message \subseteq Nat
  BY DEF Message, SelfHostedAssumption
<1>2. Seq(Message) \subseteq Seq(Nat)
  BY <1>1, SeqMonotonic
<1>3. QED
  BY <1>1, <1>2

LEMMA LanesTyped ==
  ASSUME NEW g \in [Conns -> Seq(Message)], NEW o \in [Conns -> Seq(Message)],
         NEW s \in [Pairs -> Session \union {None}]
  PROVE  /\ LanesOf(g, o, s) \in [Lane -> Seq(Nat)]
         /\ \A c \in Conns : <<"line", c>> \in Lane /\ LanesOf(g, o, s)[<<"line", c>>] = g[c] \o o[c]
         /\ \A p \in Pairs : <<"queue", p>> \in Lane /\ LanesOf(g, o, s)[<<"queue", p>>] = Waiting(s[p])
<1>1. ASSUME NEW c \in Conns
      PROVE  /\ <<"line", c>> \in Lane /\ LanesOf(g, o, s)[<<"line", c>>] = g[c] \o o[c]
             /\ g[c] \o o[c] \in Seq(Message)
  <2>1. <<"line", c>> \in Lane
    BY DEF Lane
  <2>2. g[c] \in Seq(Message) /\ o[c] \in Seq(Message)
    OBVIOUS
  <2>3. g[c] \o o[c] \in Seq(Message)
    BY <2>2
  <2>4. QED
    BY <2>1, <2>3 DEF LanesOf
<1>2. ASSUME NEW p \in Pairs
      PROVE  /\ <<"queue", p>> \in Lane /\ LanesOf(g, o, s)[<<"queue", p>>] = Waiting(s[p])
             /\ Waiting(s[p]) \in Seq(Message)
  <2>1. <<"queue", p>> \in Lane
    BY DEF Lane
  <2>2. Waiting(s[p]) \in Seq(Message)
    BY WaitingTyped
  <2>3. QED
    BY <2>1, <2>2 DEF LanesOf
<1>3. ASSUME NEW x \in Lane
      PROVE  LanesOf(g, o, s)[x] \in Seq(Message)
  <2>1. (\E c \in Conns : x = <<"line", c>>) \/ (\E p \in Pairs : x = <<"queue", p>>)
    BY DEF Lane
  <2>2. QED
    BY <1>1, <1>2, <2>1
<1>4. LanesOf(g, o, s) = [x \in Lane |-> LanesOf(g, o, s)[x]]
  BY DEF LanesOf
<1>5. LanesOf(g, o, s) \in [Lane -> Seq(Nat)]
  BY <1>3, <1>4, MessagesAreNat, SelfHostedAssumption
<1>6. QED
  BY <1>1, <1>2, <1>5

LEMMA LaneKinds ==
  ASSUME NEW x \in Lane
  PROVE  (\E c \in Conns : x = <<"line", c>>) \/ (\E p \in Pairs : x = <<"queue", p>>)
BY DEF Lane

(* Pieces of lanes. *)

LEMMA PieceSelf ==
  ASSUME NEW s \in Seq(Nat)
  PROVE  Piece(s, s)
<1>1. 0 \in Nat /\ Len(s) + 0 <= Len(s) /\ \A i \in 1..Len(s) : s[i] = s[i + 0]
  OBVIOUS
<1>2. QED
  BY <1>1 DEF Piece

LEMMA PieceNothing ==
  ASSUME NEW s \in Seq(Nat)
  PROVE  Piece(<<>>, s)
<1>1. Len(<<>>) = 0
  OBVIOUS
<1>2. 0 \in Nat /\ 0 + 0 <= Len(s) /\ \A i \in 1..0 : <<>>[i] = s[i + 0]
  OBVIOUS
<1>3. QED
  BY <1>1, <1>2 DEF Piece

LEMMA PieceCut ==
  ASSUME NEW g \in Seq(Nat), NEW o \in Seq(Nat)
  PROVE  g \o <<>> = g /\ <<>> \o o = o /\ Piece(g, g \o o)
<1>1. g \o <<>> = g /\ <<>> \o o = o
  OBVIOUS
<1>2. 0 \in Nat /\ Len(g) + 0 <= Len(g \o o) /\ \A i \in 1..Len(g) : g[i] = (g \o o)[i + 0]
  OBVIOUS
<1>3. QED
  BY <1>1, <1>2 DEF Piece

LEMMA LineMoves ==
  ASSUME NEW g \in Seq(Nat), NEW o \in Seq(Nat), o # <<>>
  PROVE  Append(g, Head(o)) \o Tail(o) = g \o o
<1>1. Head(o) \in Nat /\ Tail(o) \in Seq(Nat) /\ o = <<Head(o)>> \o Tail(o)
  OBVIOUS
<1>2. Append(g, Head(o)) = g \o <<Head(o)>> /\ <<Head(o)>> \in Seq(Nat)
  BY <1>1
<1>3. (g \o <<Head(o)>>) \o Tail(o) = g \o (<<Head(o)>> \o Tail(o))
  BY <1>1, <1>2, ConcatAssociative
<1>4. QED
  BY <1>1, <1>2, <1>3

LEMMA LineGrows ==
  ASSUME NEW g \in Seq(Nat), NEW o \in Seq(Nat), NEW m \in Nat
  PROVE  PieceThen(g \o Append(o, m), g \o o, m)
<1> DEFINE s == g \o Append(o, m)
           t == g \o o
<1>1. Len(s) = Len(g) + Len(o) + 1 /\ Len(t) = Len(g) + Len(o)
  OBVIOUS
<1>2. s[Len(g) + Len(o) + 1] = m
  OBVIOUS
<1>3. \A i \in 1..Len(g) + Len(o) : s[i] = t[i + 0]
  OBVIOUS
<1> HIDE DEF s, t
<1>4. Len(s) > 0 /\ s[Len(s)] = m
  BY <1>1, <1>2
<1>5. 0 \in Nat /\ Len(s) - 1 + 0 <= Len(t) /\ \A i \in 1..Len(s) - 1 : s[i] = t[i + 0]
  BY <1>1, <1>3
<1>6. PieceThen(s, t, m)
  BY <1>4, <1>5 DEF PieceThen
<1>7. QED
  BY <1>6 DEF s, t

LEMMA QueueShrinks ==
  ASSUME NEW r \in Seq(Pending), NEW q \in Seq(Pending), NEW n \in Nat, Rest(r, q, n)
  PROVE  Piece(Msgs(r), Msgs(q))
<1>1. Len(r) = Len(q) - n /\ n <= Len(q) /\ \A i \in 1..Len(q) - n : r[i] = q[i + n]
  BY DEF Rest
<1>2. Len(Msgs(r)) = Len(r) /\ Len(Msgs(q)) = Len(q)
  BY MsgsTyped
<1>3. \A i \in 1..Len(r) : Msgs(r)[i] = Msgs(q)[i + n]
  <2>1. ASSUME NEW i \in 1..Len(r)
        PROVE  Msgs(r)[i] = Msgs(q)[i + n]
    <3>1. r[i] = q[i + n] /\ i + n \in 1..Len(q)
      BY <1>1
    <3>2. QED
      BY <3>1, MsgsTyped
  <2>2. QED
    BY <2>1
<1>4. Len(Msgs(r)) + n <= Len(Msgs(q))
  BY <1>1, <1>2
<1>5. QED
  BY <1>2, <1>3, <1>4 DEF Piece

LEMMA FlushedIsPiece ==
  ASSUME NEW q \in Seq(Pending)
  PROVE  Flushed(q) \in Seq(Message) /\ Piece(Flushed(q), Msgs(q))
<1>1. Kept(q) \in Seq(Pending)
  BY KeptIsRest
<1>2. PICK n \in 0..Len(q) : Rest(Kept(q), q, n)
  BY KeptIsRest
<1>3. Flushed(q) = Msgs(Kept(q))
  BY DEF Flushed, Msgs
<1>4. n \in Nat
  BY <1>2
<1>5. Piece(Msgs(Kept(q)), Msgs(q))
  BY <1>1, <1>2, <1>4, QueueShrinks
<1>6. QED
  BY <1>3, <1>5, FlushedTyped

LEMMA EnqueueIsPiece ==
  ASSUME SelfHostedAssumption, NEW q \in Seq(Pending), Len(q) <= MaxPending, NEW m \in Message, clock \in 0..Horizon
  PROVE  Piece(Msgs(Enqueue(q, m)), Msgs(q)) \/ PieceThen(Msgs(Enqueue(q, m)), Msgs(q), m)
<1> DEFINE e == Enqueue(q, m)
<1>1. e \in Seq(Pending)
  BY EnqueueAppends
<1>2. \/ MaxPending = 0 /\ e = <<>>
      \/ \E n \in 0..Len(q) :
           /\ Len(e) = Len(q) - n + 1 /\ \A i \in 1..Len(q) - n : e[i] = q[i + n]
           /\ e[Len(q) - n + 1] = [msg |-> m, at |-> clock]
  BY EnqueueAppends
<1> HIDE DEF e
<1>3. Len(Msgs(e)) = Len(e) /\ Len(Msgs(q)) = Len(q) /\ Len(q) \in Nat /\ Msgs(q) \in Seq(Nat)
  BY <1>1, MsgsTyped, MessagesAreNat
<1>4. CASE e = <<>>
  <2>1. Msgs(e) = <<>>
    BY <1>4 DEF Msgs
  <2>2. Piece(Msgs(e), Msgs(q))
    BY <1>3, <2>1, PieceNothing
  <2>3. QED
    BY <2>2 DEF e
<1>5. ASSUME NEW n \in 0..Len(q), Len(e) = Len(q) - n + 1, \A i \in 1..Len(q) - n : e[i] = q[i + n],
             e[Len(q) - n + 1] = [msg |-> m, at |-> clock]
      PROVE  PieceThen(Msgs(e), Msgs(q), m)
  <2>1. Len(q) - n + 1 \in 1..Len(e) /\ Len(e) \in Nat
    BY <1>3, <1>5
  <2>2. Msgs(e)[Len(q) - n + 1] = m
    BY <1>1, <1>5, <2>1, MsgsTyped
  <2>3. \A i \in 1..Len(Msgs(e)) - 1 : Msgs(e)[i] = Msgs(q)[i + n]
    <3>1. ASSUME NEW i \in 1..Len(Msgs(e)) - 1
          PROVE  Msgs(e)[i] = Msgs(q)[i + n]
      <4>1. i \in 1..Len(q) - n /\ i \in 1..Len(e) /\ i + n \in 1..Len(q)
        BY <1>3, <1>5, <2>1
      <4>2. e[i] = q[i + n]
        BY <1>5, <4>1
      <4>3. QED
        BY <1>1, <4>1, <4>2, MsgsTyped
    <3>2. QED
      BY <3>1
  <2>4. n \in Nat /\ Len(Msgs(e)) - 1 + n <= Len(Msgs(q)) /\ Len(Msgs(e)) > 0
    BY <1>3, <1>5
  <2>5. Msgs(e)[Len(Msgs(e))] = m
    BY <1>3, <1>5, <2>2
  <2>6. QED
    BY <2>3, <2>4, <2>5 DEF PieceThen
<1>6. QED
  BY <1>2, <1>4, <1>5 DEF e

-----------------------------------------------------------------------------
(* Once and in order. *)

\* A message is in one lane, behind older ones only; a task that has not begun has no line.
Unused(c) == conn[c].pc = "idle" => got[c] = <<>> /\ out[c] = <<>> /\ ~conn[c].writing

Ordered ==
  /\ Neat(Lane, LanesOf(got, out, session), sent)
  /\ \A c \in Conns : Unused(c)

LEMMA LanesNow ==
  ASSUME Typed
  PROVE  /\ LanesOf(got, out, session) \in [Lane -> Seq(Nat)] /\ sent \in Nat
         /\ \A c \in Conns : /\ <<"line", c>> \in Lane
                             /\ LanesOf(got, out, session)[<<"line", c>>] = got[c] \o out[c]
                             /\ got[c] \in Seq(Nat) /\ out[c] \in Seq(Nat) /\ got[c] \o out[c] \in Seq(Nat)
         /\ \A p \in Pairs : /\ <<"queue", p>> \in Lane
                             /\ LanesOf(got, out, session)[<<"queue", p>>] = Waiting(session[p])
                             /\ Waiting(session[p]) \in Seq(Nat)
<1>1. \A c \in Conns : got[c] \in Seq(Nat) /\ out[c] \in Seq(Nat)
  BY MessagesAreNat, SelfHostedAssumption DEF Typed, LinesTyped
<1>2. \A c \in Conns : got[c] \o out[c] \in Seq(Nat)
  BY <1>1
<1>3. \A p \in Pairs : Waiting(session[p]) \in Seq(Nat)
  BY WaitingTyped, MessagesAreNat, SelfHostedAssumption DEF Typed, SessionsTyped
<1>4. sent \in Nat
  BY SelfHostedAssumption DEF Typed, CountsTyped, SelfHostedAssumption
<1>5. /\ got \in [Conns -> Seq(Message)] /\ out \in [Conns -> Seq(Message)]
      /\ session \in [Pairs -> Session \union {None}]
  BY DEF Typed, LinesTyped, SessionsTyped
<1>6. /\ LanesOf(got, out, session) \in [Lane -> Seq(Nat)]
      /\ \A c \in Conns : <<"line", c>> \in Lane /\ LanesOf(got, out, session)[<<"line", c>>] = got[c] \o out[c]
      /\ \A p \in Pairs : <<"queue", p>> \in Lane /\ LanesOf(got, out, session)[<<"queue", p>>] = Waiting(session[p])
  BY <1>5, LanesTyped
<1>7. QED
  BY <1>1, <1>2, <1>3, <1>4, <1>6, Zenon

\* Every lane becomes a piece of itself, but for at most one that also gets the message just read.
LEMMA LanesShrink ==
  ASSUME Typed, Typed', Neat(Lane, LanesOf(got, out, session), sent), sent <= sent', NEW z,
         \A c \in Conns : \/ Piece(got'[c] \o out'[c], got[c] \o out[c])
                          \/ (z = <<"line", c>> /\ sent < sent' /\ PieceThen(got'[c] \o out'[c], got[c] \o out[c], sent')),
         \A p \in Pairs : \/ Piece(Waiting(session'[p]), Waiting(session[p]))
                          \/ (z = <<"queue", p>> /\ sent < sent' /\ PieceThen(Waiting(session'[p]), Waiting(session[p]), sent'))
  PROVE  Neat(Lane, LanesOf(got, out, session), sent)'
<1> DEFINE W == LanesOf(got, out, session)
           V == LanesOf(got', out', session')
           n == sent
           m == sent'
<1>1. /\ W \in [Lane -> Seq(Nat)] /\ n \in Nat
      /\ \A c \in Conns : W[<<"line", c>>] = got[c] \o out[c]
      /\ \A p \in Pairs : W[<<"queue", p>>] = Waiting(session[p])
  BY LanesNow
<1>2. /\ got' \in [Conns -> Seq(Message)] /\ out' \in [Conns -> Seq(Message)]
      /\ session' \in [Pairs -> Session \union {None}] /\ m \in Nat
  BY SelfHostedAssumption DEF Typed, LinesTyped, SessionsTyped, CountsTyped, SelfHostedAssumption
<1>3. /\ V \in [Lane -> Seq(Nat)]
      /\ \A c \in Conns : V[<<"line", c>>] = got'[c] \o out'[c]
      /\ \A p \in Pairs : V[<<"queue", p>>] = Waiting(session'[p])
  BY <1>2, LanesTyped
<1> HIDE DEF W, V, n, m
<1>4. ASSUME NEW x \in Lane
      PROVE  Piece(V[x], W[x]) \/ (x = z /\ n < m /\ PieceThen(V[x], W[x], m))
  <2>1. CASE \E c \in Conns : x = <<"line", c>>
    <3>1. PICK c \in Conns : x = <<"line", c>>
      BY <2>1
    <3>2. W[x] = got[c] \o out[c] /\ V[x] = got'[c] \o out'[c]
      BY <1>1, <1>3, <3>1
    <3>3. \/ Piece(got'[c] \o out'[c], got[c] \o out[c])
          \/ (z = x /\ sent < sent' /\ PieceThen(got'[c] \o out'[c], got[c] \o out[c], sent'))
      BY <3>1
    <3>4. QED
      BY <3>2, <3>3 DEF n, m
  <2>2. CASE \E p \in Pairs : x = <<"queue", p>>
    <3>1. PICK p \in Pairs : x = <<"queue", p>>
      BY <2>2
    <3>2. W[x] = Waiting(session[p]) /\ V[x] = Waiting(session'[p])
      BY <1>1, <1>3, <3>1
    <3>3. \/ Piece(Waiting(session'[p]), Waiting(session[p]))
          \/ (z = x /\ sent < sent' /\ PieceThen(Waiting(session'[p]), Waiting(session[p]), sent'))
      BY <3>1
    <3>4. QED
      BY <3>2, <3>3 DEF n, m
  <2>3. QED
    BY <2>1, <2>2, LaneKinds
<1>5. Neat(Lane, W, n) /\ n <= m
  BY DEF W, n, m
<1>6. Shrinks(Lane, V, W, z, n, m)
  BY <1>4 DEF Shrinks
<1>7. m \in Nat
  BY <1>2 DEF m
<1>8. Neat(Lane, V, m)
  BY <1>1, <1>3, <1>5, <1>6, <1>7, NeatShrinks
<1>9. QED
  BY <1>8 DEF V, m

\* A step that leaves the queues as they are keeps what waits in each.
LEMMA SameWaiting ==
  ASSUME Typed, SameQueues, NEW p \in Pairs
  PROVE  Waiting(session'[p]) = Waiting(session[p]) /\ Piece(Waiting(session'[p]), Waiting(session[p]))
<1>1. Waiting(session'[p]) = Waiting(session[p])
  BY DEF SameQueues, Waiting
<1>2. Waiting(session[p]) \in Seq(Nat)
  BY LanesNow
<1>3. QED
  BY <1>1, <1>2, PieceSelf

LEMMA SameLine ==
  ASSUME Typed, NEW c \in Conns, got'[c] \o out'[c] = got[c] \o out[c]
  PROVE  Piece(got'[c] \o out'[c], got[c] \o out[c])
BY LanesNow, PieceSelf

\* A step that leaves queues and lines alone, whether or not it has read a message.
LEMMA OrderedQuiet ==
  ASSUME Typed, Typed', Ordered, SameQueues, UNCHANGED <<got, out>>, sent <= sent',
         \A c \in Conns : conn'[c].pc = "idle" => conn'[c] = conn[c]
  PROVE  Ordered'
<1>1. \A c \in Conns : Piece(got'[c] \o out'[c], got[c] \o out[c])
  BY SameLine
<1>2. \A p \in Pairs : Piece(Waiting(session'[p]), Waiting(session[p]))
  BY SameWaiting
<1>3. Neat(Lane, LanesOf(got, out, session), sent)'
  BY <1>1, <1>2, LanesShrink DEF Ordered
<1>4. \A c \in Conns : Unused(c)'
  BY DEF Ordered, Unused
<1>5. QED
  BY <1>3, <1>4 DEF Ordered

\* What is in a channel moves to the socket, or is lost with the channel.
LEMMA OrderedWriter ==
  ASSUME Typed, Typed', Ordered, NEW c \in Conns, Write(c) \/ WriteFails(c) \/ Abort(c)
  PROVE  Ordered'
<1>0. /\ out \in [Conns -> Seq(Message)] /\ got \in [Conns -> Seq(Message)] /\ conn \in [Conns -> Task]
      /\ \A d \in Conns : got[d] \in Seq(Nat) /\ out[d] \in Seq(Nat) /\ got[d] \o out[d] \in Seq(Nat)
  BY LanesNow DEF Typed, LinesTyped, TasksTyped
<1>1. UNCHANGED <<session, sent>> /\ sent <= sent'
  BY LanesNow DEF Write, WriteFails, Abort
<1>2. SameQueues
  BY <1>1 DEF SameQueues
<1>3. ASSUME NEW d \in Conns
      PROVE  Piece(got'[d] \o out'[d], got[d] \o out[d]) /\ Unused(d)'
  <2>1. CASE d # c
    <3>1. got'[d] = got[d] /\ out'[d] = out[d] /\ conn'[d] = conn[d]
      BY <1>0, <2>1 DEF Write, WriteFails, Abort
    <3>2. QED
      BY <3>1, SameLine DEF Ordered, Unused
  <2>2. CASE d = c /\ Write(c)
    <3>1. out[c] # <<>> /\ got'[c] = Append(got[c], Head(out[c])) /\ out'[c] = Tail(out[c]) /\ conn'[c] = conn[c]
      BY <1>0, <2>2 DEF Write
    <3>2. got'[c] \o out'[c] = got[c] \o out[c]
      BY <1>0, <3>1, LineMoves
    <3>3. conn[c].pc # "idle"
      BY <3>1 DEF Ordered, Unused
    <3>4. QED
      BY <2>2, <3>1, <3>2, <3>3, SameLine DEF Unused
  <2>3. CASE d = c /\ (WriteFails(c) \/ Abort(c))
    <3>1. got'[c] = got[c] /\ out'[c] = <<>>
      BY <1>0, <2>3 DEF WriteFails, Abort
    <3>2. Piece(got[c] \o <<>>, got[c] \o out[c])
      BY <1>0, PieceCut
    <3>3. CASE WriteFails(c)
      <4>1. conn[c].writing /\ conn'[c].pc = conn[c].pc
        BY <1>0, <3>3 DEF WriteFails, Task
      <4>2. conn'[c].pc # "idle"
        BY <4>1 DEF Ordered, Unused
      <4>3. QED
        BY <2>3, <3>1, <3>2, <4>2 DEF Unused
    <3>4. CASE Abort(c)
      <4>1. conn'[c].pc = "closed"
        BY <1>0, <3>4 DEF Abort, Task
      <4>2. QED
        BY <2>3, <3>1, <3>2, <4>1 DEF Unused
    <3>5. QED
      BY <2>3, <3>3, <3>4
  <2>4. QED
    BY <2>1, <2>2, <2>3
<1>4. \A p \in Pairs : Piece(Waiting(session'[p]), Waiting(session[p]))
  BY <1>2, SameWaiting
<1>5. Neat(Lane, LanesOf(got, out, session), sent)'
  BY <1>1, <1>3, <1>4, LanesShrink DEF Ordered
<1>6. QED
  BY <1>3, <1>5 DEF Ordered

\* After a restart a socket has what it had received, and nothing else is left.
LEMMA OrderedRestart ==
  ASSUME Typed, Typed', Ordered, Restart
  PROVE  Ordered'
<1>1. /\ session' = [p \in Pairs |-> None] /\ out' = [c \in Conns |-> <<>>] /\ UNCHANGED <<got, sent>>
      /\ conn' = [c \in Conns |-> IF conn[c].pc = "idle" THEN Idle ELSE [Idle EXCEPT !.pc = "closed"]]
  BY DEF Restart
<1>2. Idle.pc = "idle" /\ ~Idle.writing /\ [Idle EXCEPT !.pc = "closed"].pc = "closed"
  BY DEF Idle
<1>3. ASSUME NEW c \in Conns
      PROVE  Piece(got'[c] \o out'[c], got[c] \o out[c]) /\ Unused(c)'
  <2>1. got[c] \in Seq(Nat) /\ out[c] \in Seq(Nat)
    BY LanesNow
  <2>2. Piece(got'[c] \o out'[c], got[c] \o out[c])
    BY <1>1, <2>1, PieceCut
  <2>3. conn'[c].pc = "idle" => conn[c].pc = "idle" /\ conn'[c] = Idle
    BY <1>1, <1>2
  <2>4. QED
    BY <1>1, <1>2, <2>2, <2>3 DEF Ordered, Unused
<1>4. ASSUME NEW p \in Pairs
      PROVE  Piece(Waiting(session'[p]), Waiting(session[p]))
  <2>1. Waiting(session'[p]) = <<>> /\ Waiting(session[p]) \in Seq(Nat)
    BY <1>1, LanesNow DEF Waiting
  <2>2. QED
    BY <2>1, PieceNothing
<1>5. sent <= sent'
  BY <1>1, LanesNow
<1>6. Neat(Lane, LanesOf(got, out, session), sent)'
  BY <1>3, <1>4, <1>5, LanesShrink DEF Ordered
<1>7. QED
  BY <1>3, <1>6 DEF Ordered

\* A routed message is the latest, and goes to the end of one lane or nowhere.
LEMMA OrderedRoute ==
  ASSUME Typed, Typed', Ordered, NEW c \in Conns, NEW o \in BOOLEAN, Route(c, o)
  PROVE  Ordered'
<1> DEFINE p == conn[c].pair
           m == sent'
<1>1. /\ conn[c].pc = "reading" /\ sent' = sent + 1 /\ m \in Message
      /\ UNCHANGED <<conn, got, clock>>
  BY RouteDoes DEF Route
<1>2. PICK s \in Session :
        /\ session' = [session EXCEPT ![p] = s]
        /\ \/ s.pending = Of(c).pending /\ UNCHANGED out
           \/ /\ s.pending = Of(c).pending
              /\ \E to \in Conns : conn[to].writing /\ out' = [out EXCEPT ![to] = Append(@, m)]
           \/ s.pending = Enqueue(Of(c).pending, m) /\ UNCHANGED out
  BY RouteDoes
<1>3. /\ p \in Pairs /\ Of(c) \in Session /\ Len(Of(c).pending) <= MaxPending
      /\ Of(c) = session[p] /\ Of(c) # None
  BY <1>1, AtWork DEF Typed
<1>4. sent < m /\ sent <= sent' /\ m \in Nat /\ sent \in Nat
  BY <1>1, LanesNow
<1>5. /\ session \in [Pairs -> Session \union {None}] /\ out \in [Conns -> Seq(Message)] /\ s # None
  BY SelfHostedAssumption DEF Typed, SessionsTyped, LinesTyped, SelfHostedAssumption
<1>6. Waiting(session[p]) = Msgs(Of(c).pending) /\ Waiting(session'[p]) = Msgs(s.pending)
  BY <1>2, <1>3, <1>5 DEF Waiting
<1>7. \A q \in Pairs : q # p => session'[q] = session[q]
  BY <1>2, <1>5
<1>8. \A q \in Pairs : q # p => Piece(Waiting(session'[q]), Waiting(session[q]))
  BY <1>7, LanesNow, PieceSelf
<1>9. CASE s.pending = Of(c).pending /\ UNCHANGED out
  <2>1. SameQueues
    BY <1>2, <1>3, <1>9, OneSameQueue
  <2>2. QED
    BY <1>1, <1>4, <1>9, <2>1, OrderedQuiet
<1>10. ASSUME NEW to \in Conns, conn[to].writing, out' = [out EXCEPT ![to] = Append(@, m)], s.pending = Of(c).pending
       PROVE  Ordered'
  <2> DEFINE z == <<"line", to>>
  <2>1. \A q \in Pairs : Piece(Waiting(session'[q]), Waiting(session[q]))
    <3>1. SameQueues
      BY <1>2, <1>3, <1>10, OneSameQueue
    <3>2. QED
      BY <3>1, SameWaiting
  <2>2. ASSUME NEW d \in Conns
        PROVE  \/ Piece(got'[d] \o out'[d], got[d] \o out[d])
               \/ (z = <<"line", d>> /\ sent < sent' /\ PieceThen(got'[d] \o out'[d], got[d] \o out[d], sent'))
    <3>1. CASE d = to
      <4>1. got'[d] = got[d] /\ out'[d] = Append(out[d], m) /\ got[d] \in Seq(Nat) /\ out[d] \in Seq(Nat)
        BY <1>1, <1>5, <1>10, <3>1, LanesNow
      <4>2. PieceThen(got'[d] \o out'[d], got[d] \o out[d], m)
        BY <1>4, <4>1, LineGrows
      <4>3. QED
        BY <1>4, <3>1, <4>2
    <3>2. CASE d # to
      <4>1. got'[d] = got[d] /\ out'[d] = out[d]
        BY <1>1, <1>5, <1>10, <3>2
      <4>2. QED
        BY <4>1, SameLine
    <3>3. QED
      BY <3>1, <3>2
  <2> HIDE DEF z
  <2>3. Neat(Lane, LanesOf(got, out, session), sent)'
    BY <1>4, <2>1, <2>2, LanesShrink DEF Ordered
  <2>4. ASSUME NEW d \in Conns
        PROVE  Unused(d)'
    <3>1. CASE d = to
      <4>1. conn'[d].pc # "idle"
        BY <1>1, <1>10, <3>1 DEF Ordered, Unused
      <4>2. QED
        BY <4>1 DEF Unused
    <3>2. CASE d # to
      <4>1. got'[d] = got[d] /\ out'[d] = out[d] /\ conn'[d] = conn[d]
        BY <1>1, <1>5, <1>10, <3>2
      <4>2. QED
        BY <4>1 DEF Ordered, Unused
    <3>3. QED
      BY <3>1, <3>2
  <2>5. QED
    BY <2>3, <2>4 DEF Ordered
<1>11. CASE s.pending = Enqueue(Of(c).pending, m) /\ UNCHANGED out
  <2> DEFINE z == <<"queue", p>>
             q == Of(c).pending
  <2>1. q \in Seq(Pending) /\ Len(q) <= MaxPending /\ clock \in 0..Horizon
    BY <1>3, SessionParts DEF Typed, CountsTyped
  <2>2. Piece(Msgs(Enqueue(q, m)), Msgs(q)) \/ PieceThen(Msgs(Enqueue(q, m)), Msgs(q), m)
    BY <1>1, <2>1, EnqueueIsPiece, SelfHostedAssumption
  <2>3. Piece(Waiting(session'[p]), Waiting(session[p])) \/ PieceThen(Waiting(session'[p]), Waiting(session[p]), m)
    BY <1>6, <1>11, <2>2
  <2>4. ASSUME NEW t \in Pairs
        PROVE  \/ Piece(Waiting(session'[t]), Waiting(session[t]))
               \/ (z = <<"queue", t>> /\ sent < sent' /\ PieceThen(Waiting(session'[t]), Waiting(session[t]), sent'))
    <3>1. CASE t = p
      BY <1>4, <2>3, <3>1
    <3>2. CASE t # p
      BY <1>8, <3>2
    <3>3. QED
      BY <3>1, <3>2
  <2>5. \A d \in Conns : Piece(got'[d] \o out'[d], got[d] \o out[d])
    BY <1>1, <1>11, SameLine
  <2> HIDE DEF z
  <2>6. Neat(Lane, LanesOf(got, out, session), sent)'
    BY <1>4, <2>4, <2>5, LanesShrink DEF Ordered
  <2>7. \A d \in Conns : Unused(d)'
    BY <1>1, <1>11 DEF Ordered, Unused
  <2>8. QED
    BY <2>6, <2>7 DEF Ordered
<1>12. QED
  BY <1>2, <1>9, <1>10, <1>11

LEMMA BeforeWaits ==
  ASSUME Typed, NEW p \in Pairs
  PROVE  Msgs(Before(p).pending) = Waiting(session[p])
<1>1. Msgs(<<>>) = <<>>
  BY DEF Msgs
<1>2. QED
  BY <1>1, BeforeTyped DEF Before, Waiting

\* A phone that attaches leaves every lane as it is; a desktop takes the queue as its line.
LEMMA OrderedAccept ==
  ASSUME Typed, Typed', Ordered, NEW c \in Conns, NEW p \in Pairs, NEW r \in Roles, Accept(c, p, r)
  PROVE  Ordered'
<1>1. /\ conn[c].pc = "idle" /\ Attach(c, p, r) /\ UNCHANGED <<got, sent>>
      /\ conn' = [conn EXCEPT ![c] = [pc |-> "reading", pair |-> p, role |-> r, writing |-> TRUE]]
  BY DEF Accept
<1>2. PICK s \in Session :
        /\ session' = [session EXCEPT ![p] = s] /\ s.tx[r] = c
        /\ \/ /\ r = "desktop" /\ s.pending = <<>>
              /\ out' = [out EXCEPT ![c] = Flushed(Before(p).pending)]
           \/ /\ r = "android" /\ s.pending = Before(p).pending
              /\ out' = [out EXCEPT ![c] = <<>>]
  BY <1>1, AttachDoes
<1>3. /\ session \in [Pairs -> Session \union {None}] /\ out \in [Conns -> Seq(Message)] /\ s # None
      /\ conn \in [Conns -> Task]
  BY SelfHostedAssumption DEF Typed, SessionsTyped, LinesTyped, TasksTyped, SelfHostedAssumption
<1>4. got[c] = <<>> /\ out[c] = <<>>
  BY <1>1 DEF Ordered, Unused
<1>5. Waiting(session'[p]) = Msgs(s.pending) /\ Waiting(session[p]) = Msgs(Before(p).pending)
  BY <1>2, <1>3, BeforeWaits DEF Waiting
<1>6. \A q \in Pairs : q # p => Waiting(session'[q]) = Waiting(session[q])
  BY <1>2, <1>3
<1>7. \A d \in Conns : d # c => got'[d] \o out'[d] = got[d] \o out[d] /\ conn'[d] = conn[d] /\ out'[d] = out[d]
  BY <1>1, <1>2, <1>3
<1>8. \A d \in Conns : Unused(d)'
  <2>1. conn'[c].pc = "reading"
    BY <1>1, <1>3
  <2>2. QED
    BY <1>1, <1>7, <2>1 DEF Ordered, Unused
<1>9. sent <= sent' /\ sent \in Nat /\ sent' \in Nat
  BY <1>1, LanesNow
<1>10. <<>> \in Seq(Nat)
  OBVIOUS
<1>11. CASE r = "android"
  <2>1. s.pending = Before(p).pending /\ out' = [out EXCEPT ![c] = <<>>]
    BY <1>2, <1>11
  <2>2. \A q \in Pairs : Piece(Waiting(session'[q]), Waiting(session[q]))
    BY <1>5, <1>6, <2>1, LanesNow, PieceSelf
  <2>3. got'[c] = got[c] /\ out'[c] = out[c]
    BY <1>1, <1>3, <1>4, <2>1
  <2>4. \A d \in Conns : Piece(got'[d] \o out'[d], got[d] \o out[d])
    BY <1>7, <2>3, SameLine
  <2>5. Neat(Lane, LanesOf(got, out, session), sent)'
    BY <1>9, <2>2, <2>4, LanesShrink DEF Ordered
  <2>6. QED
    BY <1>8, <2>5 DEF Ordered
<1>12. CASE r = "desktop"
  <2> DEFINE W == LanesOf(got, out, session)
             V == LanesOf(got', out', session')
             a == <<"line", c>>
             b == <<"queue", p>>
             f == [x \in Lane |-> IF x = a THEN b ELSE IF x = b THEN a ELSE x]
  <2>1. s.pending = <<>> /\ out' = [out EXCEPT ![c] = Flushed(Before(p).pending)]
    BY <1>2, <1>12
  <2>2. Before(p).pending \in Seq(Pending)
    BY BeforeTyped, SessionParts
  <2>3. Flushed(Before(p).pending) \in Seq(Nat) /\ Piece(Flushed(Before(p).pending), Waiting(session[p]))
    BY <1>5, <2>2, FlushedIsPiece, MessagesAreNat, SelfHostedAssumption
  <2>4. got'[c] \o out'[c] = Flushed(Before(p).pending)
    <3>1. got'[c] = <<>> /\ out'[c] = Flushed(Before(p).pending)
      BY <1>1, <1>3, <1>4, <2>1
    <3>2. QED
      BY <2>3, <3>1, PieceCut
  <2>5. Waiting(session'[p]) = <<>>
    BY <1>5, <2>1 DEF Msgs
  <2>6. /\ W \in [Lane -> Seq(Nat)] /\ a \in Lane /\ b \in Lane /\ a # b
        /\ W[a] = got[c] \o out[c] /\ W[b] = Waiting(session[p])
        /\ \A d \in Conns : W[<<"line", d>>] = got[d] \o out[d]
        /\ \A q \in Pairs : W[<<"queue", q>>] = Waiting(session[q])
    BY LanesNow
  <2>7. /\ got' \in [Conns -> Seq(Message)] /\ out' \in [Conns -> Seq(Message)]
        /\ session' \in [Pairs -> Session \union {None}]
    BY DEF Typed, LinesTyped, SessionsTyped
  <2>8. /\ V \in [Lane -> Seq(Nat)]
        /\ V[a] = got'[c] \o out'[c] /\ V[b] = Waiting(session'[p])
        /\ \A d \in Conns : V[<<"line", d>>] = got'[d] \o out'[d]
        /\ \A q \in Pairs : V[<<"queue", q>>] = Waiting(session'[q])
    BY <2>7, LanesTyped
  <2>9. /\ f \in [Lane -> Lane] /\ f[a] = b /\ f[b] = a
        /\ \A x \in Lane : x # a /\ x # b => f[x] = x
    BY <2>6
  <2> HIDE DEF f, W, V
  <2>10. \A x, y \in Lane : x # y => f[x] # f[y]
    BY <2>9
  <2>11. Piece(V[a], W[b])
    BY <2>3, <2>4, <2>6, <2>8
  <2>12. Piece(V[b], W[a])
    BY <2>5, <2>6, <2>8, PieceNothing
  <2>13. ASSUME NEW x \in Lane, x # a, x # b
         PROVE  V[x] = W[x]
    <3>1. CASE \E d \in Conns : x = <<"line", d>>
      <4>1. PICK d \in Conns : x = <<"line", d>>
        BY <3>1
      <4>2. d # c
        BY <2>13, <4>1
      <4>3. QED
        BY <1>7, <2>6, <2>8, <4>1, <4>2
    <3>2. CASE \E q \in Pairs : x = <<"queue", q>>
      <4>1. PICK q \in Pairs : x = <<"queue", q>>
        BY <3>2
      <4>2. q # p
        BY <2>13, <4>1
      <4>3. QED
        BY <1>6, <2>6, <2>8, <4>1, <4>2
    <3>3. QED
      BY <3>1, <3>2, LaneKinds
  <2>14. ASSUME NEW x \in Lane
         PROVE  Piece(V[x], W[f[x]])
    <3>1. CASE x = a
      BY <2>9, <2>11, <3>1
    <3>2. CASE x = b
      BY <2>9, <2>12, <3>2
    <3>3. CASE x # a /\ x # b
      <4>1. V[x] = W[x] /\ f[x] = x /\ W[x] \in Seq(Nat)
        BY <2>6, <2>9, <2>13, <3>3
      <4>2. QED
        BY <4>1, PieceSelf
    <3>4. QED
      BY <3>1, <3>2, <3>3
  <2>15. Follows(Lane, V, W, f, a, sent, sent')
    BY <2>9, <2>10, <2>14 DEF Follows
  <2>16. Neat(Lane, W, sent)
    BY DEF Ordered, W
  <2>17. Neat(Lane, V, sent')
    BY <1>9, <2>6, <2>8, <2>15, <2>16, NeatMoves
  <2>18. QED
    BY <1>8, <2>17 DEF Ordered, V
<1>13. QED
  BY <1>11, <1>12 DEF Roles

LEMMA OrderedStart == Init => Ordered
<1> SUFFICES ASSUME Init PROVE Ordered
  OBVIOUS
<1>1. /\ session = [p \in Pairs |-> None] /\ conn = [c \in Conns |-> Idle]
      /\ out = [c \in Conns |-> <<>>] /\ got = [c \in Conns |-> <<>>] /\ sent = 0
  BY DEF Init, InitSessions
<1>2. \A c \in Conns : Unused(c)
  BY <1>1 DEF Unused, Idle
<1>3. <<>> \o <<>> = <<>>
  OBVIOUS
<1>4. \A x \in Lane : LanesOf(got, out, session)[x] = <<>>
  <2>1. ASSUME NEW x \in Lane
        PROVE  LanesOf(got, out, session)[x] = <<>>
    <3>1. CASE \E c \in Conns : x = <<"line", c>>
      BY <1>1, <1>3, <3>1 DEF LanesOf
    <3>2. CASE \E p \in Pairs : x = <<"queue", p>>
      BY <1>1, <3>2 DEF LanesOf, Waiting
    <3>3. QED
      BY <3>1, <3>2, LaneKinds
  <2>2. QED
    BY <2>1
<1>5. Len(<<>>) = 0
  OBVIOUS
<1>6. Neat(Lane, LanesOf(got, out, session), sent)
  BY <1>4, <1>5 DEF Neat, Rising, Below, Apart
<1>7. QED
  BY <1>2, <1>6 DEF Ordered

LEMMA OrderedStep == TypeOK /\ TypeOK' /\ Ordered /\ [Next]_vars => Ordered'
<1> SUFFICES ASSUME TypeOK, TypeOK', Ordered, [Next]_vars PROVE Ordered'
  OBVIOUS
<1>0. Typed /\ Typed' /\ sent \in Nat
  BY LanesNow DEF TypeOK, Typed
<1>1. CASE UNCHANGED <<session, got, out, sent, conn>>
  <2>1. SameQueues /\ sent <= sent'
    BY <1>0, <1>1 DEF SameQueues
  <2>2. QED
    BY <1>0, <1>1, <2>1, OrderedQuiet
<1>2. ASSUME NEW c \in Conns, Serve(c)
      PROVE  Ordered'
  <2>1. CASE Refuse(c) \/ SeeWriterEnd(c) \/ CheckOwner(c) \/ Lose(c) \/ Detach(c)
    <3>1. SameQueues
      <4>1. CASE SeeWriterEnd(c) \/ CheckOwner(c) \/ Lose(c)
        BY <4>1 DEF SameQueues, SeeWriterEnd, CheckOwner, Lose
      <4>2. QED
        BY <1>0, <2>1, <4>1, RefuseDoes, DetachDoes
    <3>2. UNCHANGED <<got, out>> /\ sent <= sent'
      BY <1>0, <2>1 DEF Refuse, SeeWriterEnd, CheckOwner, Lose, Detach
    <3>3. conn' = [conn EXCEPT ![c].pc = "leaving"] \/ conn' = [conn EXCEPT ![c].pc = "detached"]
      BY <2>1 DEF Refuse, SeeWriterEnd, CheckOwner, Lose, Detach, Break
    <3>4. \A d \in Conns : conn'[d].pc = "idle" => conn'[d] = conn[d]
      <4>1. conn \in [Conns -> Task] /\ conn[c] \in Task
        BY <1>0 DEF Typed, TasksTyped
      <4>2. conn'[c].pc \in {"leaving", "detached"}
        BY <3>3, <4>1 DEF Task
      <4>3. \A d \in Conns : d # c => conn'[d] = conn[d]
        BY <3>3, <4>1
      <4>4. QED
        BY <4>2, <4>3
    <3>5. QED
      BY <1>0, <3>1, <3>2, <3>4, OrderedQuiet
  <2>2. QED
    BY <1>0, <1>2, <2>1, OrderedWriter, OrderedRoute, OrderedAccept DEF Serve
<1>3. CASE Restart
  BY <1>0, <1>3, OrderedRestart
<1>4. CASE \E p \in Pairs : Register(p)
  BY <1>1, <1>4 DEF Register
<1>5. CASE SessionsNext
  BY <1>1, <1>2, <1>5 DEF SessionsNext, Tick
<1>6. CASE UNCHANGED sessionVars
  BY <1>1, <1>6 DEF sessionVars
<1>7. QED
  BY <1>3, <1>4, <1>5, <1>6 DEF Next, vars

LEMMA OrderedShows ==
  ASSUME Typed, Ordered
  PROVE  OnceAndInOrder
<1> DEFINE line(c) == got[c] \o out[c]
           waiting(p) == IF session[p] = None THEN {}
                         ELSE {session[p].pending[i].msg : i \in DOMAIN session[p].pending}
           W == LanesOf(got, out, session)
<1>1. /\ \A c \in Conns : <<"line", c>> \in Lane /\ W[<<"line", c>>] = line(c) /\ line(c) \in Seq(Nat)
      /\ \A p \in Pairs : <<"queue", p>> \in Lane /\ W[<<"queue", p>>] = Waiting(session[p])
  BY LanesNow
<1>2. Neat(Lane, W, sent)
  BY DEF Ordered
<1> HIDE DEF W, line
<1>3. ASSUME NEW c \in Conns
      PROVE  Rising(line(c)) /\ DOMAIN line(c) = 1..Len(line(c))
  <2>1. Rising(W[<<"line", c>>])
    BY <1>1, <1>2 DEF Neat
  <2>2. DOMAIN line(c) = 1..Len(line(c))
    BY <1>1
  <2>3. QED
    BY <1>1, <2>1, <2>2
<1>4. \A c, d \in Conns : c # d => Apart(line(c), line(d))
  <2>1. ASSUME NEW c \in Conns, NEW d \in Conns, c # d
        PROVE  Apart(line(c), line(d))
    <3>1. <<"line", c>> # <<"line", d>>
      BY <2>1
    <3>2. QED
      BY <1>1, <1>2, <3>1 DEF Neat
  <2>2. QED
    BY <2>1
<1>5. \A c \in Conns, p \in Pairs : Apart(line(c), Waiting(session[p]))
  <2>1. ASSUME NEW c \in Conns, NEW p \in Pairs
        PROVE  Apart(line(c), Waiting(session[p]))
    <3>1. <<"line", c>> # <<"queue", p>>
      OBVIOUS
    <3>2. QED
      BY <1>1, <1>2, <3>1 DEF Neat
  <2>2. QED
    BY <2>1
<1>6. ASSUME NEW p \in Pairs, NEW m \in waiting(p)
      PROVE  \E i \in 1..Len(Waiting(session[p])) : Waiting(session[p])[i] = m
  <2>1. session[p] # None /\ session[p] \in Session
    BY DEF Typed, SessionsTyped
  <2> DEFINE q == session[p].pending
  <2>2. q \in Seq(Pending) /\ DOMAIN q = 1..Len(q)
    BY <2>1, SessionParts
  <2>3. PICK i \in DOMAIN q : m = q[i].msg
    BY <2>1
  <2>4. Waiting(session[p]) = Msgs(q)
    BY <2>1 DEF Waiting
  <2> HIDE DEF q
  <2>5. QED
    BY <2>2, <2>3, <2>4, MsgsTyped
<1>7. \A c, d \in Conns : c # d => Range(line(c)) \intersect Range(line(d)) = {}
  BY <1>3, <1>4 DEF Range, Apart
<1>8. \A c \in Conns, p \in Pairs : Range(line(c)) \intersect waiting(p) = {}
  <2> HIDE DEF waiting
  <2>1. ASSUME NEW c \in Conns, NEW p \in Pairs, NEW m \in waiting(p), m \in Range(line(c))
        PROVE  FALSE
    <3>1. PICK i \in 1..Len(line(c)) : line(c)[i] = m
      BY <1>3, <2>1 DEF Range
    <3>2. PICK j \in 1..Len(Waiting(session[p])) : Waiting(session[p])[j] = m
      BY <1>6
    <3>3. QED
      BY <1>5, <3>1, <3>2 DEF Apart
  <2>2. QED
    BY <2>1
<1>9. \A c \in Conns : \A i, j \in DOMAIN line(c) : i < j => line(c)[i] < line(c)[j]
  BY <1>3 DEF Rising
<1>10. QED
  BY <1>7, <1>8, <1>9 DEF OnceAndInOrder, line

\* What a socket receives is in the order it was sent, whatever went through a queue and a
\* flush and whichever task was replaced; no message is received twice, and none is received
\* and still waiting.  (route_from and attach, relay.rs:37-157)
THEOREM InOrder == Spec => []OnceAndInOrder
<1>1. TypeOK /\ Ordered => OnceAndInOrder
  BY OrderedShows DEF TypeOK, Typed
<1>2. QED
  BY <1>1, TypeCorrect, OrderedStart, OrderedStep, PTL DEF Spec

-----------------------------------------------------------------------------
(* The queue keeps what it has no reason to lose. *)

\* Message i of the queue of p is still queued, flushed, too old, or the oldest of a full queue.
Accounted(p, i) ==
  LET m == session[p].pending[i]
  IN \/ m \in Range(session'[p].pending)
     \/ \E c \in Conns : session'[p].tx["desktop"] = c /\ m.msg \in Range(out'[c])
     \/ clock - m.at > PendingTTL
     \/ i = 1 /\ Len(session[p].pending) = MaxPending

LEMMA SeqRange ==
  ASSUME NEW S, NEW s \in Seq(S), NEW i \in 1..Len(s)
  PROVE  s[i] \in Range(s) /\ s[i] \in S /\ DOMAIN s = 1..Len(s)
<1>1. DOMAIN s = 1..Len(s) /\ s[i] \in S
  OBVIOUS
<1>2. QED
  BY <1>1 DEF Range

LEMMA SameAccounted ==
  ASSUME Typed, NEW p \in Pairs, session[p] # None, session'[p].pending = session[p].pending,
         NEW i \in DOMAIN session[p].pending
  PROVE  Accounted(p, i)
BY DEF Accounted, Range

\* A message too old to be kept.
LEMMA TooOld ==
  ASSUME Typed, NEW q \in Seq(Pending), NEW i \in 1..Len(q), ~(clock - q[i].at <= PendingTTL)
  PROVE  clock - q[i].at > PendingTTL
<1>1. q[i] \in Pending
  OBVIOUS
<1>2. q[i].at \in Nat /\ clock \in Nat /\ PendingTTL \in Nat
  BY <1>1, SelfHostedAssumption DEF Pending, Typed, CountsTyped, SelfHostedAssumption
<1>3. QED
  BY <1>2

LEMMA RouteAccounted ==
  ASSUME Typed, NEW c \in Conns, NEW o \in BOOLEAN, Route(c, o), NEW p \in Pairs, session[p] # None,
         NEW i \in DOMAIN session[p].pending
  PROVE  Accounted(p, i)
<1> DEFINE q == session[p].pending
           m == sent'
<1>1. PICK s \in Session :
        /\ session' = [session EXCEPT ![conn[c].pair] = s]
        /\ \/ s.pending = Of(c).pending /\ UNCHANGED out
           \/ /\ s.pending = Of(c).pending
              /\ \E to \in Conns : conn[to].writing /\ out' = [out EXCEPT ![to] = Append(@, m)]
           \/ s.pending = Enqueue(Of(c).pending, m) /\ UNCHANGED out
  BY RouteDoes
<1>2. conn[c].pc = "reading" /\ m \in Message
  BY RouteDoes
<1>3. conn[c].pair \in Pairs /\ Of(c) = session[conn[c].pair]
  BY <1>2, AtWork DEF Typed
<1>4. session'[p] = IF p = conn[c].pair THEN s ELSE session[p]
  BY <1>1, <1>3 DEF Typed, SessionsTyped
<1>5. CASE session'[p].pending = session[p].pending
  BY <1>5, SameAccounted
<1>6. CASE p = conn[c].pair /\ s.pending = Enqueue(q, m)
  <2>1. q \in Seq(Pending) /\ Len(q) <= MaxPending /\ clock \in 0..Horizon
    BY SessionParts DEF Typed, SessionsTyped, CountsTyped
  <2>2. session'[p].pending = Enqueue(q, m)
    BY <1>4, <1>6
  <2> DEFINE e == Enqueue(q, m)
  <2>3. /\ e \in Seq(Pending)
        /\ \/ MaxPending = 0 /\ e = <<>>
           \/ \E n \in 0..Len(q) :
                /\ Len(e) = Len(q) - n + 1
                /\ \A j \in 1..Len(q) - n : e[j] = q[j + n]
                /\ \A j \in 1..n : \/ ~(clock - q[j].at <= PendingTTL)
                                   \/ j = 1 /\ Len(q) = MaxPending
    BY <1>2, <2>1, EnqueueAppends, SelfHostedAssumption
  <2>4. i \in 1..Len(q) /\ Len(q) \in Nat
    BY <2>1
  <2> HIDE DEF q, e
  <2>5. MaxPending # 0
    BY <2>1, <2>4, SelfHostedAssumption DEF SelfHostedAssumption
  <2>6. PICK n \in 0..Len(q) :
                /\ Len(e) = Len(q) - n + 1
                /\ \A j \in 1..Len(q) - n : e[j] = q[j + n]
                /\ \A j \in 1..n : ~(clock - q[j].at <= PendingTTL) \/ (j = 1 /\ Len(q) = MaxPending)
    BY <2>3, <2>5
  <2>7. CASE i <= n
    <3>1. ~(clock - q[i].at <= PendingTTL) \/ (i = 1 /\ Len(q) = MaxPending)
      BY <2>4, <2>6, <2>7
    <3>2. clock - q[i].at > PendingTTL \/ (i = 1 /\ Len(q) = MaxPending)
      BY <2>1, <2>4, <3>1, TooOld
    <3>3. QED
      BY <3>2 DEF Accounted, q
  <2>8. CASE ~(i <= n)
    <3>1. i - n \in 1..Len(q) - n /\ i - n \in 1..Len(e) /\ (i - n) + n = i
      BY <2>4, <2>6, <2>8
    <3>2. e[i - n] = q[i]
      BY <2>6, <3>1
    <3>3. e[i - n] \in Range(e)
      BY <2>3, <3>1, SeqRange
    <3>4. q[i] \in Range(session'[p].pending)
      BY <2>2, <3>2, <3>3 DEF e
    <3>5. QED
      BY <3>4 DEF Accounted, q
  <2>9. QED
    BY <2>7, <2>8
<1>7. QED
  BY <1>1, <1>3, <1>4, <1>5, <1>6

LEMMA AcceptAccounted ==
  ASSUME Typed, NEW c \in Conns, NEW t \in Pairs, NEW r \in Roles, Accept(c, t, r), NEW p \in Pairs,
         session[p] # None, NEW i \in DOMAIN session[p].pending
  PROVE  Accounted(p, i)
<1> DEFINE q == session[p].pending
<1>1. PICK s \in Session :
        /\ session' = [session EXCEPT ![t] = s] /\ s.tx[r] = c
        /\ \/ /\ r = "desktop" /\ s.pending = <<>>
              /\ out' = [out EXCEPT ![c] = Flushed(Before(t).pending)]
           \/ /\ r = "android" /\ s.pending = Before(t).pending
              /\ out' = [out EXCEPT ![c] = <<>>]
  BY AttachDoes DEF Accept
<1>2. session'[p] = IF p = t THEN s ELSE session[p]
  BY <1>1 DEF Typed, SessionsTyped
<1>3. p = t => Before(t).pending = q
  BY DEF Before
<1>4. CASE session'[p].pending = session[p].pending
  BY <1>4, SameAccounted
<1>5. CASE p = t /\ r = "desktop" /\ out' = [out EXCEPT ![c] = Flushed(Before(t).pending)]
  <2>1. q \in Seq(Pending)
    BY SessionParts DEF Typed, SessionsTyped
  <2>2. out'[c] = Flushed(q)
    BY <1>3, <1>5 DEF Typed, LinesTyped
  <2>3. session'[p].tx["desktop"] = c
    BY <1>1, <1>2, <1>5
  <2> DEFINE k == Kept(q)
  <2>4. k \in Seq(Pending) /\ \E n \in 0..Len(q) : Rest(k, q, n) /\ \A j \in 1..n : ~(clock - q[j].at <= PendingTTL)
    BY <2>1, KeptIsRest
  <2>5. i \in 1..Len(q) /\ Len(q) \in Nat
    BY <2>1
  <2>6. /\ Flushed(q) \in Seq(Message) /\ Len(Flushed(q)) = Len(k)
        /\ \A j \in 1..Len(k) : Flushed(q)[j] = k[j].msg
    BY <2>1, FlushedTyped
  <2> HIDE DEF q, k
  <2>7. PICK n \in 0..Len(q) : Rest(k, q, n) /\ \A j \in 1..n : ~(clock - q[j].at <= PendingTTL)
    BY <2>4
  <2>8. CASE i <= n
    <3>1. clock - q[i].at > PendingTTL
      BY <2>1, <2>5, <2>7, <2>8, TooOld
    <3>2. QED
      BY <3>1 DEF Accounted, q
  <2>9. CASE ~(i <= n)
    <3>1. Len(k) = Len(q) - n /\ \A j \in 1..Len(q) - n : k[j] = q[j + n]
      BY <2>7 DEF Rest
    <3>2. i - n \in 1..Len(k) /\ (i - n) + n = i
      BY <2>5, <2>7, <2>9, <3>1
    <3>3. k[i - n] = q[i]
      BY <3>1, <3>2
    <3>4. Flushed(q)[i - n] = q[i].msg
      BY <2>6, <3>2, <3>3
    <3>5. Flushed(q)[i - n] \in Range(Flushed(q))
      BY <2>6, <3>2, SeqRange
    <3>6. q[i].msg \in Range(out'[c])
      BY <2>2, <3>4, <3>5
    <3>7. QED
      BY <2>3, <3>6 DEF Accounted, q
  <2>10. QED
    BY <2>8, <2>9
<1>6. QED
  BY <1>1, <1>2, <1>3, <1>4, <1>5

LEMMA StepAccounts ==
  ASSUME TypeOK, [Next]_vars, NEW p \in Pairs, session[p] # None, session'[p] # None,
         NEW i \in DOMAIN session[p].pending
  PROVE  Accounted(p, i)
<1>0. Typed
  BY DEF TypeOK, Typed
<1>1. CASE UNCHANGED session
  BY <1>0, <1>1, SameAccounted
<1>2. ASSUME NEW c \in Conns, Serve(c)
      PROVE  Accounted(p, i)
  <2>1. CASE Refuse(c) \/ Detach(c)
    <3>1. SameQueues
      BY <1>0, <2>1, RefuseDoes, DetachDoes
    <3>2. session'[p].pending = session[p].pending
      BY <3>1 DEF SameQueues
    <3>3. QED
      BY <1>0, <3>2, SameAccounted
  <2>2. CASE Write(c) \/ WriteFails(c) \/ Lose(c) \/ SeeWriterEnd(c) \/ CheckOwner(c) \/ Abort(c)
    BY <1>1, <2>2 DEF Write, WriteFails, Lose, SeeWriterEnd, CheckOwner, Abort
  <2>3. QED
    BY <1>0, <1>2, <2>1, <2>2, RouteAccounted, AcceptAccounted DEF Serve
<1>3. CASE Restart
  BY <1>3 DEF Restart
<1>4. CASE SessionsNext
  BY <1>1, <1>2, <1>4 DEF SessionsNext, Tick
<1>5. CASE \E t \in Pairs : Register(t)
  BY <1>1, <1>5 DEF Register
<1>6. CASE UNCHANGED sessionVars
  BY <1>1, <1>6 DEF sessionVars
<1>7. QED
  BY <1>3, <1>4, <1>5, <1>6 DEF Next, vars

\* A message leaves the queue only into the channel of the desktop that attaches, because it
\* is older than its lifetime, or as the oldest of a full queue; only a restart takes the
\* whole queue.  (attach, relay.rs:37-70; expire_pending and enqueue_pending, session.rs:38-61)
THEOREM QueueAccounts == Spec => QueueKeeps
<1>1. TypeOK /\ [Next]_vars =>
        [\A p \in Pairs : session[p] # None /\ session'[p] # None =>
           \A i \in DOMAIN session[p].pending :
             LET m == session[p].pending[i]
             IN \/ m \in Range(session'[p].pending)
                \/ \E c \in Conns : session'[p].tx["desktop"] = c /\ m.msg \in Range(out'[c])
                \/ clock - m.at > PendingTTL
                \/ i = 1 /\ Len(session[p].pending) = MaxPending]_vars
  BY StepAccounts DEF Accounted
<1>2. QED
  BY <1>1, TypeCorrect, PTL DEF Spec, QueueKeeps

=============================================================================
