SPECIFICATION EngineSpec
CONSTANTS
    Client = {c1, c2}
    Key = {k1, k2}
    Value = {v1, v2}
    Absent = Absent
    Broken = Broken
    MaxLines = 3
INVARIANTS TypeOK AcknowledgedSurvives RestartReplays
PROPERTIES ImplementsDurableMap
CHECK_DEADLOCK FALSE
