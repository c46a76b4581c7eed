SPECIFICATION Spec
CONSTANTS
    Texts <- MCTexts
    NumTokens = 5
    ArmKeys <- MCArmKeys
INVARIANT OnlyKeysVisited
CHECK_DEADLOCK FALSE
