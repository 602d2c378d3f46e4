\* Two clients that pair a device each, with a limit of one device: both sessions are
\* opened before either is confirmed.
SPECIFICATION Spec
CONSTANTS
    Device = {d1, d2}
    PublicKey = {k1}
    NoKey = NoKey
    Client = {c1, c2}
    SasMaxAttempts = 2
    SasExpiry = 0
    MaxPairAttempts = 2
    RateWindow = 0
    MaxDevices = 1
    Spelling = {TRUE, FALSE}
    MaxTime = 1
    MaxPins = 2
    MaxFailures = 2
SYMMETRY Symmetry
INVARIANT AccountLimit
