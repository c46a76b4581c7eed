SPECIFICATION Spec
CONSTANTS
    QueueLength = 2
    MaxStatus = 8
INVARIANTS
    TypeOK
    NothingLost
    SomeoneDrains
    BacklogBounded
PROPERTIES
    AcceptedIsHanded
    ReceiveThreadReturns
    ImplementsStatusChannel
