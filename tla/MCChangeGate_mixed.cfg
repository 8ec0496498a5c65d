SPECIFICATION Spec
CONSTANTS
    bms_soc = bms_soc
    pcs_soc = pcs_soc
    Fields <- TwoAssets
    Readings <- MixedReadings
    StoreOnChange = TRUE
    Heartbeat = 2
    Deadband = 1
    Northbound = TRUE
    MaxSkew = 1
    MaxNow = 3
SYMMETRY EitherAsset
INVARIANTS
    HeldValueIsCurrent
    GapBounded
