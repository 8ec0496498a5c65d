SPECIFICATION FairSpec
CONSTANTS
    BatchSize = 2
    MaxPerAsset = 3
    MaxRows = 5
    MaxFaults = 2
INVARIANTS
    LockDiscipline
    FifoConservation
    DuplicatesBounded
    BatchTrigger
    DrainComplete
PROPERTIES
    ImplementsHistoryLog
    EventuallyStored
    ShutdownCompletes
\* After the shutdown the worker has returned and nothing happens any more.
CHECK_DEADLOCK FALSE
