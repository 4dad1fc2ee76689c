CONSTANTS
    a1 = a1  a2 = a2  c1 = c1  c2 = c2
    h1 = h1  h2 = h2  h3 = h3  o1 = o1
    r1 = r1  r2 = r2  r3 = r3
    Handlers = {h1}
    Overviews = {o1}
    RequestIds = {r1, r2}
    Accounts = {a1}
    Characters = {c1}
    Owner <- OwnerOne
    MaximumGoldPerRequest = 2
    DailyGoldLimit = 2
    DailyRequestLimit = 2
    StaleBatchSize = 1
    MaxDay = 0
    MaxFaults = 1
    IdleConnection = IdleConnection
    NoRow = NoRow
    NoCall = NoCall
    NoRequest = NoRequest
SPECIFICATION PolledSpec
INVARIANTS DailyLimits
PROPERTIES PendingIsSettled EveryCallReturns
