CONSTANTS
    a = a
    b = b
    w1 = w1
    w2 = w2
    Batch = {a, b}
    Deps <- ChainDeps
    Path <- ChainPath
    Ahead = {a}
    Worker = {w1}
    Cancels = {}
    CIReports = {"Succeeded", "Failed", "Cancelled"}
    Merges = {"merged", "rejected"}
    Speculator = "eager"
    FaultKinds = {"crash"}
    MaxFaults = 1
SPECIFICATION FairSpec
PROPERTIES OutcomesAreActedOn HeadsAreDecided
\* a queue with nothing left to do stops
CHECK_DEADLOCK FALSE
