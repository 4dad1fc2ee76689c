CONSTANTS
    a1 = a1  a2 = a2  a3 = a3
    i1 = i1  i2 = i2  i3 = i3
    c1 = c1  c2 = c2  c3 = c3
    Accounts = {a1, a2, a3}
    Ips = {i1, i2, i3}
    AccountLimit = 2
    IpLimit = 2
    Window = 2
    Calls = {c1, c2, c3}
    Uses <- AllUses
SPECIFICATION Spec
INVARIANTS TypeOK MapsBounded FailuresBounded
PROPERTIES NoEarlyForgiveness Exact
