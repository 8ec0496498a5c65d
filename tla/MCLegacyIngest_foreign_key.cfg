SPECIFICATION Spec
CONSTANTS
    AssetOrder <- TwoAssets
    FieldsOf <- ThreeFields
    Canonical <- SpecFields
    LiveOnly <- SpecLiveOnly
    Shapes <- AllShapes
    Values = {"low", "high"}
    MaxChanges = 1
    MaxEdits = 1
    MaxFaults = 0
    MaxRestarts = 1
INVARIANTS
    ForeignKeyHolds
\* A process whose worker is gone serves the API and ingests nothing.
CHECK_DEADLOCK FALSE
