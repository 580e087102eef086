\* Collecting and reading the cached count, under fairness; the refinement of RankLedger.
SPECIFICATION FairNotedSpec
CONSTANTS
    r1 = r1  r2 = r2  r3 = r3
    u1 = u1  u2 = u2
    s1 = s1  s2 = s2
    i1 = i1  i2 = i2
    Requests = {r1, r2}
    Users = {u1, u2}
    Items = {i1, i2}
    Secrets = {s1, s2}
    ItemOf <- SecretPerItem
    RewardXp <- Paid
    Kinds = {"collect", "count", "scan"}
    Removable = {i1, s1}
    NoRequest = NoRequest
    NoCount = NoCount
INVARIANT StaleOnlyInOverlap
PROPERTIES ImplementsLedger EveryRequestAnswered
CHECK_DEADLOCK FALSE
