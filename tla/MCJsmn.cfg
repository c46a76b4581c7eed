SPECIFICATION Spec
CONSTANTS
    Texts <- MCTexts
    NumTokens = 5
    ArmKeys <- MCArmKeys
INVARIANTS
    TypeOK
    TokensNest
    BracketsPaired
    CommandsAccepted
    TruncatedIsPartial
    FlatCommandReported
PROPERTY Terminates
CHECK_DEADLOCK FALSE
