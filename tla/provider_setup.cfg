CONSTANTS
    Characters <- MCCharacters
    Texts <- MCTexts
    Setups <- MCSetups
    Partition <- MCPartition
    Ambient = {"access_key", "AWS_SECRET_ACCESS_KEY"}
SPECIFICATION Spec
INVARIANTS KeysAgree  AsAsked
CHECK_DEADLOCK FALSE
