SPECIFICATION Spec
CONSTANTS
    MaxAddr = 3
    BlockSizes = {1, 2, 4}
    NumSpecs = 2
    MaxLines = 4
    Severity <- TwoSeverities
    RiskFiles <- TwoLoads
    CountryFiles <- CountryTables
    IPsumFiles <- IPsumTables
    Country = Country
    IPsum = IPsum
INVARIANTS MergeExact ListsExact TablesExact MoreListsScoreMore
CHECK_DEADLOCK FALSE
