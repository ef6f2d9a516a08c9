SPECIFICATION ClientSpec
CONSTANTS
    Node = {n1, n2, n3}
    None = None
    Key = {k}
    Value = {}
    MaxTerm = 3
    MaxIndex = 1
    MaxBatch = 1
    MaxCalls = 2
    MaxLate = 0
SYMMETRY Symmetry
INVARIANTS AckedIsCommitted
CHECK_DEADLOCK FALSE
