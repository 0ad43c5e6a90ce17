--------------------------- MODULE MCTransPipeline ---------------------------
(***************************************************************************)
(* TransPipeline on small instances.                                       *)
(***************************************************************************)
EXTENDS TransPipeline, TLC

\* Handlers, transactions and objects are told apart by nothing but their
\* names.  (The runs that check liveness do not use this.)
Symmetry ==
  Permutations(Handlers) \cup Permutations(Trans) \cup Permutations(Slots)

=============================================================================
