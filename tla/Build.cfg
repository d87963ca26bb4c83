SPECIFICATION FairSpec
CONSTANTS
  Path = {p}
  Reporting = {1}
  MaxAttempt = 2
  MaxBuild = 2
  MaxQueued = 1
  MaxEvents = 1
  EventKinds = {"crash", "lateBuild", "latePoll", "deadletter", "nudge", "cancel", "collect"}
INVARIANTS PassedIsReal WantedIsKept
PROPERTIES LinkedSettles LoserIsStopped
CHECK_DEADLOCK FALSE
