CONSTANTS
    Threads = {t1}
    MaxStreams = 1
    MaxProviders = 1
    MaxSize = 1
    Capacity = 1
SPECIFICATION Spec
PROPERTY FailureReported
CHECK_DEADLOCK FALSE
