SPECIFICATION Spec
CONSTANTS
    s1 = s1
    s2 = s2
    s3 = s3
    k1 = k1
    k2 = k2
    None = None
    Sessions = {s1, s2, s3}
    Keys = {k1, k2}
    Estimates = {1, 2}
    Actuals = {0, 2, 3}
    Credit = 4
    Limit = 4
    Hazards = {}
SYMMETRY SessionSymmetry
INVARIANTS
    LedgerAgrees
PROPERTIES
    Finality
    ImplementsAccount
CHECK_DEADLOCK FALSE
