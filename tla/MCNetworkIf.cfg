SPECIFICATION Spec
CONSTANTS
    ConnectWait = 2
    MaxDrops = 2
INVARIANTS
    TypeOK
    BitsTrackLink
    SpinIsAnswered
PROPERTIES
    BothBitsAtOnce
    Terminates
CHECK_DEADLOCK FALSE
