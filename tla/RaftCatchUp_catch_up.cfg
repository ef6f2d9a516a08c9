SPECIFICATION CatchUpSpec
CONSTANTS
    Node = {n1, n2, n3}
    None = None
    Key = {k}
    Value = {}
    Chief = n1
    Laggard = n2
    MaxTerm = 3
    MaxIndex = 2
    MaxBatch = 1
    MaxCalls = 2
    MaxLate = 0
INVARIANTS LogMatching
PROPERTIES CatchesUpUnlessStranded
CHECK_DEADLOCK FALSE
