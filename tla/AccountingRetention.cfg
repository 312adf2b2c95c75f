SPECIFICATION FairSpec
CONSTANTS
    Conns = {c1}
    KeyOf <- DistinctKeys
    LegacyOf <- DistinctLegacy
    Retention = 1
    MaxBytes = 2
    MaxGen = 1
    MaxTime = 2
    MaxQueue = 1
    MaxDuplicates = 0
    MaxStarts = 1
    MaxLanChanges = 1
INVARIANT NoRecountUnlessSuspect
PROPERTIES DestroysApplied EndedIsCounted
CHECK_DEADLOCK FALSE
