CONSTANTS
    Characters <- MCCharacters
    Root <- AtRoot
    Keys <- MCKeys
    Rank <- MCRank
    Requests <- MCRequests
    DefaultMax = 2
    Representable = 5
    Faults <- FaultyPages
    Disturbances = 2
SPECIFICATION Spec
INVARIANTS PageIsConfined PageIsWhole HonestIsAccepted ListedOnce
CHECK_DEADLOCK FALSE
