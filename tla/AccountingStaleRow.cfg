SPECIFICATION Spec
CONSTANTS
    Conns = {c1}
    KeyOf <- DistinctKeys
    LegacyOf <- DistinctLegacy
    Retention = 1
    MaxBytes = 2
    MaxGen = 1
    MaxTime = 0
    MaxQueue = 1
    MaxDuplicates = 0
    MaxStarts = 1
    MaxLanChanges = 0
INVARIANT StaleRowHarmless
CHECK_DEADLOCK FALSE
