\* Four requests of one client that sends its token everywhere.
SPECIFICATION Spec
CONSTANTS
    r1 = r1  r2 = r2  r3 = r3  r4 = r4
    c1 = c1  c2 = c2
    Requests = {r1, r2, r3, r4}
    Clients = {c1}
    Browsers = {}
    MaxTokens = 4
    NoRequest = NoRequest
INVARIANTS OneLiveSession ReuseIsReal LogoutEndsSession
PROPERTY ImplementsChains
SYMMETRY RequestSymmetry
CHECK_DEADLOCK FALSE
