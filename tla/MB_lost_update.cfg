SPECIFICATION Spec
CONSTANTS
    s1 = s1
    s2 = s2
    s3 = s3
    k1 = k1
    k2 = k2
    None = None
    Sessions = {s1, s2}
    Keys = {k1, k2}
    Estimates = {2}
    Actuals = {2}
    Credit = 4
    Limit = 9
    Hazards = {"held_wallet"}
INVARIANT MoneyConserved
CHECK_DEADLOCK FALSE
