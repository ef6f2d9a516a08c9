SPECIFICATION SuccessionSpec
CONSTANTS
    Node = {n1, n2, n3}
    None = None
    Key = {k}
    Value = {}
    MaxTerm = 3
    MaxIndex = 2
    MaxBatch = 2
    MaxCalls = 2
    MaxLate = 0
SYMMETRY Symmetry
INVARIANTS LeaderCompleteness ElectableHasCommitted LogMatching CommittedAgree AnswersInTermAreTrue
CHECK_DEADLOCK FALSE
