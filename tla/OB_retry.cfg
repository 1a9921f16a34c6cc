\* One draft, one request after the other, failed turns tried again late.
SPECIFICATION Spec
CONSTANTS
    q1 = q1  q2 = q2  k1 = k1  k2 = k2  p1 = p1  p2 = p2  n1 = n1  n2 = n2
    Requests = {q1}
    Sessions = {1}
    Keys = {k1, k2}
    Prompts = {p1}
    Names = {n1, n2}
    MaxRuntimes = 2
    MaxDrafts <- OneDraft
    Extractions <- SomeOpen
    Scenarios <- Late
    None = None
    Gone = Gone
PROPERTY OnlyTheFailedTurn
CHECK_DEADLOCK FALSE
