SPECIFICATION SnapshotCrashSpec
CONSTANTS
    Node = {n1, n2, n3}
    None = None
    Key = {k}
    Value = {}
    MaxTerm = 2
    MaxIndex = 1
    MaxBatch = 1
    MaxCalls = 2
    MaxLate = 0
SYMMETRY Symmetry
INVARIANTS TypeOK RestartsFromWholeRecords AppliedInOrder ElectionSafety DurableBeforeAnswer LeaderTermCoversLog
PROPERTIES VoteSticky CommitNeverDecreases
CHECK_DEADLOCK FALSE
