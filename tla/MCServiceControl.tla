--------------------------- MODULE MCServiceControl ---------------------------
(***************************************************************************)
(* ServiceControl on small instances.                                      *)
(***************************************************************************)
EXTENDS ServiceControl

=============================================================================
