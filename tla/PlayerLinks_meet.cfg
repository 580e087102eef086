\* One player, two who come by that player's links and each other's; stickers and scans;
\* two sessions.
SPECIFICATION Spec
CONSTANTS
    u = u  v = v  w = w
    s1 = s1  s2 = s2
    Sessions = {s1, s2}
    Players = {u, v, w}
    FirstUsers = {u}
    Nobody = Nobody
    NoJob = NoJob
    InitData <- SomeInitData
    Asked <- SomeAsked
    MaxLapses = 1
INVARIANTS ReferralForest ReferralPaid ScansPaid LostOnlyInOverlap
SYMMETRY SessionSymmetry
