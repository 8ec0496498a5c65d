SPECIFICATION Spec
CONSTANTS
    BatchSize = 2
    MaxPerAsset = 2
    MaxRows = 3
    MaxFaults = 1
INVARIANTS
    StopLosesNothing
\* After the shutdown the worker has returned and nothing happens any more.
CHECK_DEADLOCK FALSE
