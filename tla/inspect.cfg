CONSTANTS
    v0 = v0
    v2 = v2
    v5 = v5
    v10 = v10
    NoVersion = NoVersion
    NoSelection = NoSelection
    NoTotal = NoTotal
    Versions <- MCVersions
    Size <- MCSize
    Calls <- MCCalls
    DefaultBudget <- MCDefault
    Cap <- MCCap
SPECIFICATION FairSpec
INVARIANTS TypeOK WithinBudget AnswerIsWhole
PROPERTIES NothingPastDeadline Terminates KeepsPromise
CHECK_DEADLOCK FALSE
