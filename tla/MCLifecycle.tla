----------------------------- MODULE MCLifecycle -----------------------------
(***************************************************************************)
(* Lifecycle with both signals and every failure.                          *)
(***************************************************************************)
EXTENDS Lifecycle

=============================================================================
