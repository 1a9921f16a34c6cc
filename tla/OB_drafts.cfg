\* Two requests, two drafts; no hazard, and each one alone.
SPECIFICATION FairSpec
CONSTANTS
    q1 = q1  q2 = q2  k1 = k1  k2 = k2  p1 = p1  p2 = p2  n1 = n1  n2 = n2
    Requests = {q1, q2}
    Sessions = {1, 2}
    Keys = {k1, k2}
    Prompts = {p1}
    Names = {n1, n2}
    MaxRuntimes = 2
    MaxDrafts <- FewDrafts
    Extractions <- SomeOpen
    Scenarios <- EachHazard
    None = None
    Gone = Gone
INVARIANTS TwoQuestions OneRuntimePerDraft
PROPERTIES OneActiveDraft TurnsKept ReviewIsReached
CHECK_DEADLOCK FALSE
