--------------------------- MODULE MCDesktopSession ---------------------------
(* Model checking DesktopSession with two known phones. *)
EXTENDS DesktopSession, TLC

\* Phones and connections are interchangeable.  Sound only without a liveness property.
Symmetric == Permutations(Phones) \union Permutations(Conns)

=============================================================================
