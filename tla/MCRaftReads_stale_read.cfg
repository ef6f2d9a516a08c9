SPECIFICATION AcknowledgedSpec
CONSTANTS
    Node = {n1, n2, n3}
    None = None
    Key = {k}
    Value = {}
    MaxTerm = 2
    MaxIndex = 1
    MaxBatch = 1
    MaxCalls = 2
    MaxLate = 0
    MaxReads = 1
SYMMETRY Symmetry
INVARIANTS ReadsSeeAcknowledged
CHECK_DEADLOCK FALSE
