SPECIFICATION Spec
CONSTANTS
    s1 = s1
    s2 = s2
    Syncs <- TwoSyncs
    Entries <- SomeEntries
    Alarms <- TwoAlarms
    Limit = 2
    MaxLog = 3
    MaxFaults = 1
SYMMETRY Symmetry
INVARIANTS
    SyncedIsStored
    CountsAddUp
