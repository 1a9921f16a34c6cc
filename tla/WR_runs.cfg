\* Two requests decide what runs and turns ask for; each hazard alone.
SPECIFICATION FairSpec
CONSTANTS
    u1 = u1  u2 = u2
    Deciders = {u1, u2}
    Ids = {1, 2}
    Attempts = {1, 2}
    Plans <- SomePlans
    Scenarios <- EachHazard
    None = None
INVARIANTS PerformedAsDecided BlockedMeansAsked AnsweredOnce
PROPERTIES ConfirmedIsSettled 
CHECK_DEADLOCK FALSE
