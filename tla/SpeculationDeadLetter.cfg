CONSTANTS
    a = a
    b = b
    w1 = w1
    w2 = w2
    Batch = {a, b}
    Deps <- ChainDeps
    Path <- ChainPath
    Ahead = {a}
    Worker = {w1}
    Cancels = {b}
    CIReports = {"Succeeded", "Failed", "Cancelled"}
    Merges = {"merged"}
    Speculator = "any"
    FaultKinds = {"deadletter", "expiry"}
    MaxFaults = 1
SPECIFICATION Spec
INVARIANTS TypeOK LandedIsValidated DispatchedIsDurable
PROPERTIES Lifecycle FailIsJustified ImplementsLandQueue
\* a queue with nothing left to do stops
CHECK_DEADLOCK FALSE
