--------------------------- MODULE MCPhonePairing ---------------------------
(* PhonePairing with small constants for TLC. *)
EXTENDS PhonePairing
=============================================================================
