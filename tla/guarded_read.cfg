CONSTANTS
    Contents <- MCContents
    SizeOf <- MCSizeOf
    Reads <- MCReads
    MaxVersions = 2
SPECIFICATION Spec
INVARIANTS OnlySelected ReceiptIsTrue ConflictIsReal MissIsReal
PROPERTIES KeepsPromise
