SPECIFICATION Spec
INVARIANTS ProcessIsOrderly EnablementIsTrue RecordsAreTrue
PROPERTIES EverythingEnds
\* a stopped process and an answered call have no next step
CHECK_DEADLOCK FALSE
