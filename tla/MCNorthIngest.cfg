SPECIFICATION FairSpec
CONSTANTS
    AssetOrder <- TwoAssets
    SignalsOf <- ThreeSignals
    Values = {"low", "high"}
    Alarms <- OneAlarm
    AssetOfAlarm <- OneAlarmAsset
    MaxChanges = 2
    MaxFaults = 1
    MaxRestarts = 1
INVARIANTS
    SeenIsRegistered
    FaultCostsOne
    HealthyHistory
PROPERTIES
    LatestLeadsHistory
    LatestCatchesUp
    HistoryCatchesUp
\* A worker whose dictionary load has raised stops for good.
CHECK_DEADLOCK FALSE
