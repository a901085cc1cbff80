----------------------------- MODULE SecureLink -----------------------------
(***************************************************************************)
(* What an end-to-end session promises over a carrier that may lose, delay, *)
(* repeat and misroute frames: an end is bound to at most one other end,   *)
(* and takes from it the records that one sealed, each once, in the order  *)
(* they were sealed, with nothing left out between two of them.            *)
(***************************************************************************)
EXTENDS Naturals, Sequences

CONSTANTS Ids,      \* the ends of sessions
          Records,  \* what the applications exchange
          None

VARIABLES bound,    \* the end each end takes records from
          sealed,   \* the records each end has sealed
          opened    \* the records each end has taken

vars == <<bound, sealed, opened>>

Init ==
    /\ bound = [s \in Ids |-> None]
    /\ sealed = [s \in Ids |-> <<>>]
    /\ opened = [s \in Ids |-> <<>>]

\* An end is bound once, to an end nobody else is bound to and that is not
\* itself bound to somebody else.
Bind(s, t) ==
    /\ bound[s] = None
    /\ \A u \in Ids : bound[u] # t
    /\ bound[t] \in {None, s}
    /\ bound' = [bound EXCEPT ![s] = t]
    /\ UNCHANGED <<sealed, opened>>

Seal(s, r) ==
    /\ bound[s] # None
    /\ sealed' = [sealed EXCEPT ![s] = Append(@, r)]
    /\ UNCHANGED <<bound, opened>>

\* An end takes the next record of the end it is bound to.
Open(s) ==
    /\ bound[s] # None
    /\ Len(opened[s]) < Len(sealed[bound[s]])
    /\ opened' = [opened EXCEPT ![s] = Append(@, sealed[bound[s]][Len(@) + 1])]
    /\ UNCHANGED <<bound, sealed>>

Next ==
    \E s \in Ids :
        \/ \E t \in Ids \ {s} : Bind(s, t)
        \/ \E r \in Records : Seal(s, r)
        \/ Open(s)

Spec == Init /\ [][Next]_vars
=============================================================================
