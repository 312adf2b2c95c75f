SPECIFICATION Spec
CONSTANTS
    Addrs = {1, 2}
    IPv4 = {1}
    Macs = {m1, m2}
    router = router
    phone = phone
    Names <- TwoNames
    NoMac = NoMac
    NoName = NoName
    LeaseFiles <- AnyLeases
    StaticNames <- OneStaticName
    NeighborTables <- AnyNeighbors
    MaxReads = 2
    MaxBytes = 2
    MaxStarts = 2
SYMMETRY MacSymmetry
INVARIANTS NamesCurrent FlowsUnderTheirHost OnlineWasSeen HistoryComplete DevicesKeepHistory
CHECK_DEADLOCK FALSE
