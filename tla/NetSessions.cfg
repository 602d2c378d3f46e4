\* Two clients of one address and two sockets, so that a number is used again, with
\* fairness and hence without symmetry.  A session is stale after one tick, the tick
\* counter wraps at that tick, and the sweep may read the time on either side of it.
SPECIFICATION FairSpec
CONSTANTS
    Client = {c1, c2}
    Ip = {ip}
    Handle = {s1, s2}
    INVALID = INVALID
    Nobody = Nobody
    TickWrap = 4
    StaleMs = 0
    WindowMs = 0
    BlockMs = 2
    MaxAttempts = 1
    StartTime = {3}
    MaxClock = 4
INVARIANTS EntryHasThread ClosedWhenDone
PROPERTY Quiesces
CHECK_DEADLOCK FALSE
