CONSTANTS
    Inputs <- MCInputs
SPECIFICATION Spec
INVARIANT MidFollowsMidpoint
CHECK_DEADLOCK FALSE
