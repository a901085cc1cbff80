----------------------------- MODULE MCSelfHosted -----------------------------
(* Model checking SelfHostedRelay, one half at a time: the accounts and the *)
(* sessions meet only where a token lets a pair be registered, so a state   *)
(* of the whole is a state of each half side by side.                       *)
EXTENDS SelfHostedRelay, TLC

VARIABLE half

Symmetric == Permutations(Conns)

\* An account exists, created by request q, and its owner holds a token.
SignedIn(q) ==
  /\ users = [e \in Emails |-> [id |-> q, password |-> None]] /\ file = users
  /\ lock = None
  /\ otps = [e \in Emails |-> None]
  /\ request = [r \in Requests |-> [Fresh EXCEPT !.pc = "done"]]
  /\ tokens = {q}

MCInit ==
  \/ half = "accounts" /\ Init
  \/ half = "sessions" /\ SignedIn(CHOOSE q \in Requests : TRUE) /\ InitSessions /\ registered = {}

MCNext ==
  /\ UNCHANGED half
  /\ \/ half = "accounts" /\ AccountsNext /\ UNCHANGED sessionVars
     \/ half = "sessions" /\ SessionsNext /\ UNCHANGED accountVars
     \/ half = "sessions" /\ \E p \in Pairs : Register(p)
     \/ Restart

MCSpec == MCInit /\ [][MCNext]_<<half, vars>>

=============================================================================
