\* One run, decided by one request at a time; nothing dies.
SPECIFICATION FairSpec
CONSTANTS
    u1 = u1  u2 = u2
    Deciders = {u1, u2}
    Ids = {1}
    Attempts = {1}
    Plans <- OnePlan
    Scenarios <- NoHazard
    None = None
PROPERTY ExecutionsSettle
CHECK_DEADLOCK FALSE
