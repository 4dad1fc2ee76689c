CONSTANTS
    t1 = t1  t2 = t2
    a1 = a1  a2 = a2
    c1 = c1  c2 = c2
    Tabs = {t1, t2}
    Browsers <- OneBrowser
    BrowserOf <- Shared
    Accounts = {a1, a2}
    Calls = {c1, c2}
    SessionIds <- SomeSessions
    CsrfTokens <- SomeTokens
    Verifiers <- SomeVerifiers
    MaxSessions = 2
    IdleTimeout = 2
    AbsoluteTimeout = 3
    Uses <- SafetyUses
    MaxOrphans = 1
    None = None  Keep = Keep  Clear = Clear
SPECIFICATION Spec
VIEW Observed
SYMMETRY SharedSymmetry
INVARIANTS TypeOK NoCrossAccountMutation SessionsBounded PasswordEndsSessions
PROPERTIES NoExpiredService
