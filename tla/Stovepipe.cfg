SPECIFICATION FairSpec
CONSTANTS
  c1 = c1
  c2 = c2
  Caller = {c1, c2}
  Watches <- FollowOrRace
  MaxConcurrent = 1
  MaxCommit = 2
  MaxId = 2
  MaxBuild = 3
  MaxEvents = 1
  EventKinds = {"crash", "redeliver", "abandon", "late"}
  Dying = {"process", "build", "poll", "record"}
INVARIANTS SlotsAreOwned GreenIsEarned OneRequestPerCommit
PROPERTIES VerdictIsFinal BookmarksMoveForward CommitsAreJudged
CHECK_DEADLOCK FALSE
