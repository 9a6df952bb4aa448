CONSTANTS
    a = a
    b = b
    d = d
    Clients = {a, b, d}
    Keys <- MCKeys
    Bucket <- MCBucket
    Stored = {"source", "near"}
    Plans <- MCPlans
    MaxAttempts = 2
    Rounds = 1
SPECIFICATION Spec
SYMMETRY Symmetry
INVARIANTS PutAnswerIsTrue NoLostUpdate DeleteIsSeen CopyIsOneVersion NoTornObject
CHECK_DEADLOCK FALSE
