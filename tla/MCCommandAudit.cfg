SPECIFICATION FairSpec
CONSTANTS
    Requests <- BatchAndCommand
    Kind <- KindOf
    Writes <- ThreeWrites
    KnownAsset <- Known
    Northbound = TRUE
    Credentials = TRUE
    MaxFaults = 1
    MaxExpiries = 1
INVARIANTS
    AuditedBeforeExecuted
    ExecutedAtMostOnce
    OkMeansExecuted
    ReplyMatchesAudit
    BatchStopsAtError
PROPERTIES
    AuditIsAppendOnly
    EveryRequestEnds
\* Once every request has ended nothing happens any more.
CHECK_DEADLOCK FALSE
