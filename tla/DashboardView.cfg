SPECIFICATION FairSpec
CONSTANTS
    h1 = h1
    h2 = h2
    Hosts <- TwoHosts
    NoHost = NoHost
    Granularities = {"day", "month"}
    Reports <- TwoReports
    MaxPending = 2
    MaxChoices = 1
INVARIANTS SelectionOffered LoadingIsOutstanding  SettledOrAsking
PROPERTIES HistoryNeverOlder  DetailsStay
