SPECIFICATION Spec
INVARIANTS WorkersHoldLeases
PROPERTIES ConsumptionSettles
\* a drained partition and a settled group have no next step
CHECK_DEADLOCK FALSE
