\* Two ticks or requests synchronize two sources; three calls share a token;
\* two requests choose between two models; two bookers keep an account; a
\* request is priced; two requests of a client are limited; each hazard alone.
SPECIFICATION Spec
CONSTANTS
    t1 = t1  t2 = t2  s1 = s1  s2 = s2
    Syncers = {t1, t2}
    Sources = {s1, s2}
    MaxClock = 1
    SyncScenarios <- EachSync
    Nobody = Nobody
    c1 = c1  c2 = c2  c3 = c3  w1 = w1  w2 = w2
    ActionCalls = {c1, c2, c3}
    Processes = {w1, w2}
    MaxTokens = 3
    TokenScenarios <- EachToken
    NoCall = NoCall
    r1 = r1  r2 = r2  p1 = p1  p2 = p2  m1 = m1  m2 = m2
    Requests = {r1, r2}
    Servers = {w1, w2}
    Providers = {p1, p2}
    ModelsOf <- SomeModels
    Threshold = 2
    RouterScenarios <- EachRouter
    NoRequest = NoRequest
    b1 = b1  b2 = b2  u1 = u1  u2 = u2
    Bookers = {b1, b2}
    Usages = {u1, u2}
    CostOf <- Costs
    Balances = {1, 3}
    Minima = {1}
    Tops = {"off", "recharge"}
    FundingScenarios <- EachPeril
    NoAccount = NoAccount
    Catalogue <- SomeRules
    PricedModels = {m1, m2}
    NewRates = {7}
    ListPrice <- SomePrices
    Quantities = {0, 1, 5}
    Unit = 10
    Parts = 5
    MaxVersion = 2
    NoQuote = NoQuote
    v1 = v1  v2 = v2
    Visits = {v1, v2}
    RateLimit = 2
    ViolationLimit = 2
    LimitScenarios <- EachStrait
    NoVisit = NoVisit
INVARIANTS SourceTellsLastSync RuntimeHasSyncs RefreshTokenKept StaleCopyOnce  BalanceIsTold ChargeIsFair LimitsAreTemporary
PROPERTIES NoOccurrenceSkipped  AnswersAreWhole
CHECK_DEADLOCK FALSE
