SPECIFICATION Spec
CONSTANTS
    QueueLength = 1
    MaxStatus = 2
PROPERTIES
    ApRetried
