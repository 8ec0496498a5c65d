SPECIFICATION FairSpec
CONSTANTS
    AssetOrder <- TwoAssets
    FieldsOf <- ThreeFields
    Canonical <- SpecFields
    LiveOnly <- SpecLiveOnly
    Shapes <- AllShapes
    Values = {"low", "high"}
    MaxChanges = 1
    MaxEdits = 1
    MaxFaults = 2
    MaxRestarts = 1
INVARIANTS
    LiveOnlyStayLive
    ClearedKeyHonoured
PROPERTIES
    DataNotBlanked
    LatestCatchesUp
\* A process whose worker is gone serves the API and ingests nothing.
CHECK_DEADLOCK FALSE
