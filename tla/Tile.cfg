\* Two status threads, so that an old one runs beside a new one, and two buffers.
SPECIFICATION FairSpec
CONSTANTS
    Thread = {t1, t2}
    NoThread = NoThread
    Buffer = {b1, b2}
    Zero = Zero
    NoBuffer = NoBuffer
    MaxRefs = 2
INVARIANTS SubmitsWhole BufferHasKeeper HandleIsLive GoneOnlyForOutlived
PROPERTY UnadvisedIsWiped
CHECK_DEADLOCK FALSE
