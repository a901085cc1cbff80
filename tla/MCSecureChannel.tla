-------------------------- MODULE MCSecureChannel --------------------------
(* Model checking SecureChannel with a few sessions and short records. *)
EXTENDS SecureChannel, TLC, FiniteSetsExt

CONSTANTS p1, p2, a, b

MCRecords == {<<a>>, <<b, a>>}

\* Sessions and phones are interchangeable; chunks are not.
Symmetry == Permutations(Ids) \cup Permutations(Phones)

\* Bound: a state with more than two sealed records is checked and not left.
FewRecords == FoldSet(LAMBDA s, n : n + Len(sealed[s]), 0, Ids) <= 2
=============================================================================
