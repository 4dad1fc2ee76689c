CONSTANTS
    c1 = c1  c2 = c2  c3 = c3  c4 = c4
    h1 = h1  h2 = h2  h3 = h3  h4 = h4
    r1 = r1  r2 = r2  r3 = r3  r4 = r4
    Handlers = {h1, h2}
    RequestIds = {r1, r2}
    Characters = {c1}
    MaximumLevel = 3
    StaleBatchSize = 2
    ConnectionLimit = 3
    QueueLimit = 2
    PlayersLevel = FALSE
    PromptServer = TRUE
    LocksCanBeLost = FALSE
    MaxFaults = 0
    IdleConnection = IdleConnection
    NoRow = NoRow
    NoCall = NoCall
SPECIFICATION FairSpec
PROPERTIES RaiseOnly EveryCallReturns
