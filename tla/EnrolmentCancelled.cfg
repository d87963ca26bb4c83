CONSTANTS
    q1 = q1
    q2 = q2
    Request = {q1, q2}
    Arrivals <- TwoRequests
    Cancels = {q2}
    MaxBatch = 3
    MaxFaults = 0
    FaultKinds = {}
    DeadLetters = {}
    Slow = {}
SPECIFICATION Spec
INVARIANTS ReportedIsTrue
\* a queue with nothing left to do stops
CHECK_DEADLOCK FALSE
