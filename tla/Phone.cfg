\* Two overlapping calls and two sockets, so that a forgotten socket can speak.
SPECIFICATION FairSpec
CONSTANTS
    Call = {c1, c2}
    Socket = {s1, s2}
    NoSocket = NoSocket
    MaxDelay = 2
INVARIANTS StateIsBacked DisposedIsQuiet
PROPERTIES SilentPeerDropped PairingEnds
CHECK_DEADLOCK FALSE
