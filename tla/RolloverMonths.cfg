SPECIFICATION FairSpec
CONSTANTS
    Hosts = {h1}
    Collector = Collector
    Listener = Listener
    API = API
    MaxMonth = 3
    MaxCredit = 1
    MaxBytes = 1
    MaxStarts = 2
INVARIANTS HostsWithinMonth OverviewIsMonth
PROPERTIES HistoryKept MonthEntered
CHECK_DEADLOCK FALSE
