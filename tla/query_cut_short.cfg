\* An answer the deadline cut short is returned as if it were whole.
SPECIFICATION Spec
CONSTANTS
    MaxRowsPerQuery = 3
    MaxTotal = 5
INVARIANTS
    TimedOutIsMarked
