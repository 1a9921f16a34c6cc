SPECIFICATION FairSpec
CONSTANTS
    w1 = w1
    w2 = w2
    w3 = w3
    Dead = Dead
    None = None
    Workers = {w1, w2}
    MaxRequests = 2
    Scenarios <- EachHazard
INVARIANTS
    OneBuildAtATime
    
PROPERTIES
    LockIsKept
    BuildEndsUnlessDropped
CHECK_DEADLOCK FALSE
