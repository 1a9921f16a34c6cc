\* Two ticks, one request of a user; no hazard, and each one alone.
SPECIFICATION FairSpec
CONSTANTS
    t1 = t1  t2 = t2  e1 = e1  e2 = e2
    Ticks = {t1, t2}
    Editors = {e1}
    MaxTime = 2
    MaxEdits = 2
    Scenarios <- EachHazard
    None = None
INVARIANTS NoRunSkipped QueuedOnce
PROPERTY DueIsQueued
CHECK_DEADLOCK FALSE
