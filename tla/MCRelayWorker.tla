---------------------------- MODULE MCRelayWorker ----------------------------
(* Model checking RelayWorker on a small account. *)
EXTENDS RelayWorker, TLC

\* Pairs and sockets are interchangeable.  Sound only without a liveness property.
Symmetric == Permutations(Pairs) \union Permutations(Sockets)

=============================================================================
