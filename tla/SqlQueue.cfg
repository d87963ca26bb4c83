CONSTANTS
    m1 = m1
    m2 = m2
    g1 = g1
    g2 = g2
    w1 = w1
    w2 = w2
    Id = {m1, m2}
    Group = {g1}
    Worker = {w1, w2}
    GroupOf <- OneGroup
    BatchSize = 1
    MaxAttempts = 1
    DLQEnabled = TRUE
    Overlapping = FALSE
    Started = {g1}
    Outcomes = {"ack", "reject", "postpone"}
    Drains = TRUE
    MaxOffset = 2
    MaxFaults = 1
SYMMETRY WorkerSymmetry
SPECIFICATION AdminSpec
INVARIANTS TypeOK NothingLost LagCoversBacklog
PROPERTIES StrictOrder
\* a partition with nothing left to deliver stops
CHECK_DEADLOCK FALSE
