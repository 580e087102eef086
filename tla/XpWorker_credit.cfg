\* Two events of one user, two overlapping publishers, one fault or deletion, fairness.
SPECIFICATION FairSpec
CONSTANTS
    e1 = e1  e2 = e2
    u1 = u1  u2 = u2
    w1 = w1  w2 = w2
    p1 = p1  p2 = p2
    Events = {e1, e2}
    TasksOf <- MixedTasks
    Publishers = {p1, p2}
    Workers = {w1, w2}
    BatchLimit = 1
    MaxRetries = 1
    MaxFaults = 1
    NoMessage = NoMessage
    Users = {u1}
    UserOf <- SameUser
    PaidSets <- SomePaid
    LevelAt <- SecondEvent
    Deletable = {u1}
    NoWorker = NoWorker

INVARIANTS LevelEarned CreditedOnce PublishedNotForgotten FragmentsExact
PROPERTY EventuallySettled
CHECK_DEADLOCK FALSE
