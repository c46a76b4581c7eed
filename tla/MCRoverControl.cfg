SPECIFICATION Spec
CONSTANTS
    Digits <- MCDigits
    Words <- MCWords
INVARIANTS
    TypeOK
    CommandInForce
    NothingMisread
    StillWithoutDirection
PROPERTIES
    ImplementsMotion
    OnlyDirectionStarts
    ReportTruth
    LostLinkStops
