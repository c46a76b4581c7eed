SPECIFICATION Spec
CONSTANTS
    ConnectWait = 2
    MaxDrops = 1
INVARIANTS
    BitMeansConnected
CHECK_DEADLOCK FALSE
