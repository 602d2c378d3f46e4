------------------------- MODULE MCServiceLifecycle -------------------------
(* ServiceLifecycle with small constants for TLC. *)
EXTENDS ServiceLifecycle
=============================================================================
