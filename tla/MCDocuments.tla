----------------------------- MODULE MCDocuments -----------------------------
(***************************************************************************)
(* Documents on small instances.                                           *)
(***************************************************************************)
EXTENDS Documents, TLC

CONSTANTS x, y

\* A full body, one with a title alone, and one that changes only the rest.
MCBodies ==
  {[title |-> x,        description |-> x,        amount |-> 1],
   [title |-> y,        description |-> NotGiven, amount |-> 0],
   [title |-> NotGiven, description |-> y,        amount |-> 1]}

Symmetry == Permutations(Handlers) \cup Permutations(Trans) \cup Permutations(Slots)

=============================================================================
