------------------------------ MODULE MCCounters ------------------------------
(***************************************************************************)
(* Counters on small instances.                                            *)
(***************************************************************************)
EXTENDS Counters, TLC

Symmetry == Permutations(Handlers)

=============================================================================
