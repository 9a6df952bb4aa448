CONSTANTS
    Threads = {t1, t2}
    MaxStreams = 1
    MaxProviders = 1
    MaxSize = 3
    Capacity = 2
SPECIFICATION FairSpec
INVARIANTS ReadIsWhole PutIsWhole NoneLost OneAnswer GoneIsClosed
PROPERTIES CallsReturn RuntimeFreed
CHECK_DEADLOCK FALSE
