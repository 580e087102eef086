\* A browser logs in and out.
SPECIFICATION Spec
CONSTANTS
    r1 = r1  r2 = r2  r3 = r3  r4 = r4
    c1 = c1  c2 = c2
    Requests = {r1, r2}
    Clients = {c1}
    Browsers = {c1}
    MaxTokens = 2
    NoRequest = NoRequest
INVARIANT LogoutRevokes
CHECK_DEADLOCK FALSE
