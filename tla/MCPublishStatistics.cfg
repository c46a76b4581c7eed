SPECIFICATION Spec
CONSTANTS
    QueueLength = 2
    MaxAttempts = 4
INVARIANTS
    TypeOK
    SuccessesCovered
    ReportPlausible
PROPERTIES
    ReportsNeverDecrease
