\* Two phones, two nonces, two registry changes (so that both phones can be
\* paired, or one revoked, unpaired or paired again with another key), restarts
\* and clock changes.  A challenge expires, and a lockout ends, with one tick.
SPECIFICATION Spec
CONSTANTS
    Device = {d1, d2}
    PublicKey = {k1, k2}
    NoKey = NoKey
    Nonce = {n1, n2}
    NoNonce = NoNonce
    ChallengeTTL = 0
    MaxFailedAttempts = 2
    LockoutDuration = 1
    MaxTime = 1
    MaxSession = 3
    MaxChanges = 2
SYMMETRY Symmetry
INVARIANTS OneSuccessPerNonce LockoutMatchesCount
PROPERTIES LockedOutUntouched OnlyNewestChallenge ImplementsOneShot
