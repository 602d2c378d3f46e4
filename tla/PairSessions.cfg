\* Two clients that pair two devices at once, with a limit of one device, two
\* attempts, and a clock that passes the end of PINs and of the rate window, also
\* backwards; a third PIN, so that a session could open beside two paired devices.
SPECIFICATION Spec
CONSTANTS
    Device = {d1, d2}
    PublicKey = {k1}
    NoKey = NoKey
    Client = {c1, c2}
    SasMaxAttempts = 2
    SasExpiry = 0
    MaxPairAttempts = 2
    RateWindow = 0
    MaxDevices = 1
    Spelling = {TRUE, FALSE}
    MaxTime = 1
    MaxPins = 3
    MaxFailures = 2
SYMMETRY Symmetry
INVARIANTS GuessBudget AccountLimitSlack
PROPERTIES ActiveOnlyByPin PinIsOneShot
