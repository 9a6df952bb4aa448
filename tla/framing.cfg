CONSTANTS
    Inputs <- MCInputs
SPECIFICATION Spec
INVARIANTS LinesAgree MidIsAligned TextIsAnswered BinaryIsWithheld
CHECK_DEADLOCK FALSE
