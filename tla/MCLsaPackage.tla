---------------------------- MODULE MCLsaPackage ----------------------------
(* LsaPackage with small constants for TLC. *)
EXTENDS LsaPackage, TLC

CONSTANTS d1, d2, k1, k2

\* The blocks of the LSA heap are interchangeable.
BlockSymmetry == Permutations(Block)

\* What the phone makes of a signature by the keystore; one with r = 0.
Good == derToP1363(<<48, 7, 2, 1, 128, 2, 2, 2, 0>>)

Bad == <<0, 0, 1, 0>>

MCSignature == {Good, Bad}

SubmitOf(defects, d, k, sig) == [defects |-> defects, device |-> d, signer |-> k, signature |-> sig]

\* Good buffers, every single defect, two that compete, and a bad signature.
MCSubmitted ==
    {SubmitOf({}, d, k, Good) : d \in {d1, d2}, k \in {k1, k2}}
    \cup {SubmitOf({f}, d1, k1, Good) : f \in Defect}
    \cup {SubmitOf({"SHORT", "OPERATION"}, d1, k1, Good), SubmitOf({}, d1, k1, Bad)}
=============================================================================
