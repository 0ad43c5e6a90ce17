--------------------------- MODULE MCWorkerControl ---------------------------
(***************************************************************************)
(* WorkerControl on small instances.                                       *)
(***************************************************************************)
EXTENDS WorkerControl, TLC

Symmetry == Permutations(Handlers)

=============================================================================
