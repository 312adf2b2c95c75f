SPECIFICATION Spec
CONSTANTS
    Conns = {c1}
    KeyOf <- DistinctKeys
    LegacyOf <- DistinctLegacy
    Retention = 1
    MaxBytes = 2
    MaxGen = 2
    MaxTime = 0
    MaxQueue = 1
    MaxDuplicates = 1
    MaxStarts = 3
    MaxLanChanges = 0
INVARIANTS NoRecountUnlessSuspect SettledExact
PROPERTY SavedOnlyGrows
CHECK_DEADLOCK FALSE
