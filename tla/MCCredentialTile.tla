-------------------------- MODULE MCCredentialTile --------------------------
(* CredentialTile with small constants for TLC. *)
EXTENDS CredentialTile
=============================================================================
