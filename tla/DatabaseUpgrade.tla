-------------------------- MODULE DatabaseUpgrade --------------------------
(***************************************************************************)
(* What moving a plaintext database to an encrypted one promises its       *)
(* owner: there is one database, older versions of the program may go on   *)
(* committing to it while it is plaintext, the program serves it only      *)
(* encrypted, and no step loses a committed transaction.                   *)
(*                                                                         *)
(* Transactions are counted, not shown: content is the number of them a    *)
(* reader of the database would find.                                      *)
(***************************************************************************)
EXTENDS Naturals

VARIABLES form,      \* how the database is stored now
          content,   \* how many committed transactions it holds
          open       \* the program is serving it

vars == <<form, content, open>>

Forms == {"none", "plain", "cipher"}

Init ==
    /\ open = FALSE
    /\ \/ form = "none" /\ content = 0
       \/ form = "plain" /\ content \in Nat

-----------------------------------------------------------------------------

\* An older version of the program commits to the plaintext database.
Commit ==
    /\ form = "plain"
    /\ content' = content + 1
    /\ UNCHANGED <<form, open>>

\* The first run creates an empty database, encrypted from the start.
Create ==
    /\ form = "none"
    /\ form' = "cipher"
    /\ UNCHANGED <<content, open>>

\* The upgrade takes effect: the same transactions, encrypted.
Encrypt ==
    /\ form = "plain"
    /\ form' = "cipher"
    /\ UNCHANGED <<content, open>>

Open ==
    /\ form = "cipher"
    /\ ~open
    /\ open' = TRUE
    /\ UNCHANGED <<form, content>>

\* The program commits to the database it serves.
Store ==
    /\ open
    /\ content' = content + 1
    /\ UNCHANGED <<form, open>>

\* The program stops, or is killed.
Close ==
    /\ open
    /\ open' = FALSE
    /\ UNCHANGED <<form, content>>

Next == Commit \/ Create \/ Encrypt \/ Open \/ Store \/ Close

Spec == Init /\ [][Next]_vars
=============================================================================
