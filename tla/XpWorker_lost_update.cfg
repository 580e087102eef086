\* Two events of one user processed at the same time, no faults.
SPECIFICATION Spec
CONSTANTS
    e1 = e1  e2 = e2
    u1 = u1  u2 = u2
    w1 = w1  w2 = w2
    p1 = p1  p2 = p2
    Events = {e1, e2}
    TasksOf <- XpOnly
    Publishers = {p1}
    Workers = {w1, w2}
    BatchLimit = 2
    MaxRetries = 1
    MaxFaults = 0
    NoMessage = NoMessage
    Users = {u1}
    UserOf <- SameUser
    PaidSets <- AllPaid
    LevelAt <- SecondEvent
    Deletable = {}
    NoWorker = NoWorker

INVARIANT XpConserved
CHECK_DEADLOCK FALSE
