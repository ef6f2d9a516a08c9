SPECIFICATION SnapshotSpec
CONSTANTS
    Node = {n1, n2, n3}
    None = None
    Key = {k}
    Value = {v}
    MaxTerm = 2
    MaxIndex = 3
    MaxBatch = 2
    MaxCalls = 2
    MaxLate = 0
SYMMETRY Symmetry
INVARIANTS StateMachineSafety WorkerNeverRaises
CHECK_DEADLOCK FALSE
