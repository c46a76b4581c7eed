SPECIFICATION Spec
CONSTANTS
    ConnectWait = 2
    MaxDrops = 1
INVARIANTS
    AttemptCalledOff
CHECK_DEADLOCK FALSE
