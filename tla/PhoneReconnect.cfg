\* One call and one socket are enough to lose a connection.
SPECIFICATION FairSpec
CONSTANTS
    Call = {c1}
    Socket = {s1}
    NoSocket = NoSocket
    MaxDelay = 16
PROPERTY ReconnectTries
CHECK_DEADLOCK FALSE
