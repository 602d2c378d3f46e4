\* Four connections of one address, two of which are let in per window, so that a
\* stretch of time over the end of a window can hold three; the clock passes several
\* windows and a block, and the tick counter wraps on the way.  One SOCKET value is
\* enough: a connection gives it back when it is refused or gets no thread.
SPECIFICATION AdmissionSpec
CONSTANTS
    Client = {c1, c2, c3, c4}
    Ip = {ip}
    Handle = {s1}
    INVALID = INVALID
    Nobody = Nobody
    TickWrap = 8
    StaleMs = 1
    WindowMs = 1
    BlockMs = 3
    MaxAttempts = 2
    StartTime = {5}
    MaxClock = 11
SYMMETRY ClientSymmetry
INVARIANT WindowSlack
PROPERTY BlockHolds
CHECK_DEADLOCK FALSE
