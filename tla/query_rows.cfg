\* Every answer of up to five rows, the deadline passing anywhere.
SPECIFICATION FairSpec
CONSTANTS
    MaxRowsPerQuery = 3
    MaxTotal = 5
INVARIANTS
    IInv
    TruncatedHonest
    WholeWhenUndisturbed
    TimeoutIffLate
PROPERTIES
    QueryReturns
