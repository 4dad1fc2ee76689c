CONSTANTS
    c1 = c1  c2 = c2  c3 = c3  c4 = c4
    h1 = h1  h2 = h2  h3 = h3  h4 = h4
    r1 = r1  r2 = r2  r3 = r3  r4 = r4
    Handlers = {h1, h2, h3, h4}
    RequestIds = {r1}
    Characters = {c1, c2, c3, c4}
    MaximumLevel = 2
    StaleBatchSize = 1
    ConnectionLimit = 4
    QueueLimit = 8
    PlayersLevel = FALSE
    PromptServer = FALSE
    LocksCanBeLost = FALSE
    MaxFaults = 0
    IdleConnection = IdleConnection
    NoRow = NoRow
    NoCall = NoCall
SPECIFICATION Spec
SYMMETRY Symmetry
INVARIANTS PoolMovesOn
