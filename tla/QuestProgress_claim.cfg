\* Two scans, quests of one and of two scans, two claims of the longer one, two faults.
SPECIFICATION Spec
CONSTANTS
    e1 = e1  e2 = e2
    w1 = w1  w2 = w2
    p1 = p1
    q1 = q1  q2 = q2
    c1 = c1  c2 = c2
    Events = {e1, e2}
    TasksOf <- QuestTask
    Publishers = {p1}
    Workers = {w1, w2}
    BatchLimit = 2
    MaxRetries = 1
    MaxFaults = 2
    NoMessage = NoMessage
    Quests = {q1, q2}
    TargetOf <- Targets
    Claims = {c1, c2}
    QuestOf <- SameQuest
    NoRow = NoRow
INVARIANTS CompletionEarned QuestXpOnce ClaimBacked AnnouncedIsCompleted
PROPERTY NothingForgotten
SYMMETRY ActorSymmetry
CHECK_DEADLOCK FALSE
