\* Two concurrent claims of one item.
SPECIFICATION NotedSpec
CONSTANTS
    r1 = r1  r2 = r2  r3 = r3
    u1 = u1  u2 = u2
    s1 = s1  s2 = s2
    i1 = i1  i2 = i2
    Requests = {r1, r2}
    Users = {u1, u2}
    Items = {i1}
    Secrets = {s1}
    ItemOf <- OneSecret
    RewardXp <- OnePaid
    Kinds = {"collect"}
    Removable = {}
    NoRequest = NoRequest
    NoCount = NoCount
INVARIANT ConcurrentScansSucceed
CHECK_DEADLOCK FALSE
