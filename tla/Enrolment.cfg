CONSTANTS
    q1 = q1
    q2 = q2
    Request = {q1, q2}
    Arrivals <- TwoRequests
    Cancels = {q1}
    MaxBatch = 3
    MaxFaults = 1
    FaultKinds = {"crash", "expiry", "deadletter"}
    DeadLetters = {"conclude"}
    Slow = {"cancel", "batch", "signal"}
SPECIFICATION Spec
INVARIANTS EnrolledOnce Serialised OneClaimant
PROPERTIES TerminalIsFinal
\* a queue with nothing left to do stops
CHECK_DEADLOCK FALSE
