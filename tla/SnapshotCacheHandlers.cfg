SPECIFICATION FairSpec
CONSTANTS
    Readers = {r1, r2}
    Collector = Collector
    Listener = Listener
    Resetter = Resetter
    None = None
    MaxVersion = 2
INVARIANT AnswersComplete
PROPERTIES ReadersAnswer CollectorAdmitted ResetReachesCaches
