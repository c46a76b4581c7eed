SPECIFICATION SystemSpec
CONSTANTS
    QueueLength = 1
    MaxStatus = 3
    MaxInbox = 2
    Digits <- MCDigits
    Words <- MCWords
INVARIANTS
    SystemTypeOK
    ObeysLastWord
PROPERTIES
    StopCarriesThrough
    LossStopsRover
