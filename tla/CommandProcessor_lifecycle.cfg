SPECIFICATION FairSpec
CONSTANTS
    Caller = {c1, c2}
    Owner = {o1, o2, o3}
    Worker = {w1, w2, w3}
    None = None
    Sentinel = Sentinel
    MaxQueue = 2
    MaxBatch = 2
INVARIANTS TypeOK StoppedIsDrained
PROPERTIES EveryCallerAnswered StopsReturn
