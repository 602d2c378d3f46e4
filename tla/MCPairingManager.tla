-------------------------- MODULE MCPairingManager --------------------------
(* PairingManager with small constants for TLC. *)
EXTENDS PairingManager, TLC

\* Clients and keys are only compared for equality.  Devices are not exchanged:
\* NoSession names one of them.
Symmetry == Permutations(Client) \cup Permutations(PublicKey)
=============================================================================
