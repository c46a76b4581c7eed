SPECIFICATION Spec
CONSTANTS
    QueueLength = 1
    ConnectWait = 2
    MaxDrops = 1
    Macs <- MCMacs
INVARIANTS
    StartupTypeOK
    ClientFollowsResult
    ClientIdTellsBoard
    DeviceReady
PROPERTY ImplementsPipelineStart
CHECK_DEADLOCK FALSE
