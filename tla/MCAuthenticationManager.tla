---------------------- MODULE MCAuthenticationManager ----------------------
(* AuthenticationManager with small constants for TLC. *)
EXTENDS AuthenticationManager, TLC

\* Devices, keys and nonces are only compared for equality.
Symmetry == Permutations(PublicKey) \cup Permutations(Nonce) \cup Permutations(Device)
=============================================================================
