SPECIFICATION LeaseSpec
CONSTANTS
    Node = {n1, n2, n3}
    None = None
    Key = {k}
    Value = {}
    MaxTerm = 2
    MaxIndex = 2
    MaxBatch = 1
    MaxCalls = 3
    MaxLate = 0
    MaxReads = 1
SYMMETRY Symmetry
INVARIANTS ReadTypeOK ReadsSeeCommitted
CHECK_DEADLOCK FALSE
