SPECIFICATION IssuesSpec
CONSTANTS
  MaxTracked = 2
  MaxIssue = 2
  TaskWide = {1}
  Scenarios <- ThreeCases
  Slots = 1
  BatchSize = 2
  Repairer = {"fix"}
  MaxUpsets = 1
INVARIANTS ClosedIsGone ListedIsOpen
PROPERTIES ChangesAreCurrent TrackingEnds
CHECK_DEADLOCK FALSE
