----------------------------- MODULE MCTimeStats -----------------------------
(***************************************************************************)
(* TimeStats on small instances.                                           *)
(***************************************************************************)
EXTENDS TimeStats, TLC

Symmetry == Permutations(Handlers)

=============================================================================
