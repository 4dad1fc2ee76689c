CONSTANTS
    a1 = a1  a2 = a2  c1 = c1  c2 = c2
    h1 = h1  h2 = h2  h3 = h3  o1 = o1
    r1 = r1  r2 = r2  r3 = r3
    Handlers = {h1, h2}
    Overviews = {}
    RequestIds = {r1, r2}
    Accounts = {a1}
    Characters = {c1, c2}
    Owner <- OwnerOne
    MaximumGoldPerRequest = 1
    DailyGoldLimit = 1
    DailyRequestLimit = 2
    StaleBatchSize = 1
    MaxDay = 1
    MaxFaults = 1
    IdleConnection = IdleConnection
    NoRow = NoRow
    NoCall = NoCall
    NoRequest = NoRequest
SPECIFICATION Spec
CONSTRAINT OneEvent
SYMMETRY Symmetry
INVARIANTS TypeOK AtMostOneCommand LedgerTruthful AnswersMatchLedger DailyLimits
PROPERTIES LedgerSpec
