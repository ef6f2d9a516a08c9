SPECIFICATION TransferSpec
CONSTANTS
    Node = {n1, n2, n3}
    None = None
    Key = {k}
    Value = {}
    MaxTerm = 2
    MaxIndex = 1
    MaxBatch = 1
    MaxCalls = 2
    MaxLate = 1
SYMMETRY Symmetry
INVARIANTS TransferTargetCaughtUp MatchIndexTruthful
CHECK_DEADLOCK FALSE
