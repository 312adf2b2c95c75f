SPECIFICATION FairSpec
CONSTANTS
    Loop = Loop
    Handler = Handler
    Main = Main
    None = None
    RenameMayFail = TRUE
    ReadMayFail = TRUE
    MaxVersion = 1
    MaxStarts = 2
INVARIANT NoWarningMeansSaved
PROPERTY SaveReturns
CHECK_DEADLOCK FALSE
