\* One pipe handle: by NoPipeLeaks the worker opens one only when none is open.  Two
\* searches of the phone that overlap, and one socket lost.
SPECIFICATION FairSpec
CONSTANTS
    Pipe = {p1}
    NoPipe = NoPipe
    NoState = NoState
    MaxSearches = 2
    MaxLost = 1
INVARIANTS TypeOK NoPipeLeaks StoppedMeansDown CrashOnlyInStop
PROPERTIES AnnouncedIsServed StopCompletes SearchEnds
CHECK_DEADLOCK FALSE
