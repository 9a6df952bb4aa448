CONSTANTS
    x = x
    y = y
    Threads = {x, y}
    MaxHandles = 1
    MaxMade = 2
    MaxCalls = 6
SPECIFICATION Spec
SYMMETRY Symmetry
INVARIANTS LastErrorIsOwn StringsFreedOnce RunsOnNamed EndIsFinal
CHECK_DEADLOCK FALSE
