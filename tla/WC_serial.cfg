SPECIFICATION Spec
CONSTANTS
    h1 = h1
    h2 = h2
    h3 = h3
    p1 = p1
    p2 = p2
    g1 = g1
    d1 = d1
    d2 = d2
    None = None
    Handlers = {h1, h2}
    Payments = {p1}
    Grants = {g1}
    Debits = {d1, d2}
    AmountOf <- Amounts
    Opening = 2
    BudgetLimit = 4
    Overlap = FALSE
SYMMETRY HandlerSymmetry
INVARIANTS
    BudgetIsCurrent
PROPERTY ImplementsBook
CHECK_DEADLOCK FALSE
