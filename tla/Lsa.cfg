\* Two devices with two keys that pair, are revoked and unpaired while a call reads
\* their records; three blocks of heap, so that LSASS may still hold strings of an
\* earlier call; components of two bytes.
SPECIFICATION Spec
CONSTANTS
    d1 = d1
    d2 = d2
    k1 = k1
    k2 = k2
    Device = {d1, d2}
    PublicKey = {k1, k2}
    NoKey = NoKey
    Block = {x1, x2, x3}
    Null = Null
    Signature <- MCSignature
    Submitted <- MCSubmitted
    ComponentLen = 2
SYMMETRY BlockSymmetry
INVARIANT OutputsAreHeap
PROPERTY LogonWasTrue
