CONSTANTS
    a1 = a1  c1 = c1  c2 = c2  h1 = h1  h2 = h2
    n1 = n1  n2 = n2  n3 = n3  o1 = o1  p1 = p1  p2 = p2  r1 = r1
    Boosts = {"items"}
    Handlers = {h1, h2}
    Overviews = {o1}
    RequestIds = {r1}
    FlightRequestIds = {p1, p2}
    Accounts = {a1}
    Characters = {c1, c2}
    Owner <- OwnerOne
    Names = {n1, n2, n3}
    Nodes = {1, 2}
    MaximumStacks = 2
    StaleBatchSize = 1
    MaxFaults = 0
    MaxRenames = 2
    IdleConnection = IdleConnection
    NotLoaded = NotLoaded
    NoRow = NoRow
    NoCall = NoCall
    NoRequest = NoRequest
SPECIFICATION BothSpec
CONSTRAINT OneEvent
SYMMETRY Symmetry
INVARIANTS NeverRedirected
