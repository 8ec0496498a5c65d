SPECIFICATION Spec
CONSTANTS
    Fields <- OneField
    Readings <- SomeReadings
    StoreOnChange = TRUE
    Heartbeat = 2
    Deadband = 0
    Northbound = TRUE
    MaxNow = 5
    Bucket = 2
    StartOffset = 4
    EndOffset = 1
    RawMaxSpan = 2
    MaxFaults = 2
INVARIANTS
    LossIsRepaired
    ChartHasPoint
    ChartsAgree
\* The clock stops at MaxNow.
CHECK_DEADLOCK FALSE
