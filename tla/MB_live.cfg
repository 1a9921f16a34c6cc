SPECIFICATION FairSpec
CONSTANTS
    s1 = s1
    s2 = s2
    s3 = s3
    k1 = k1
    k2 = k2
    None = None
    Sessions = {s1, s2}
    Keys = {k1, k2}
    Estimates = {2}
    Actuals = {1, 3}
    Credit = 4
    Limit = 5
    Hazards = {"shared_key", "late_request"}
INVARIANTS
    MoneyConserved
    SpentMatches
    NoOverdraft
PROPERTIES
    EventuallyClosed
    RequestsEnd
CHECK_DEADLOCK FALSE
