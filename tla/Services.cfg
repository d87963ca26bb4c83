SPECIFICATION Spec
INVARIANTS ReadsAreTrue MergesAreTrue
PROPERTIES ServedInTheEnd
\* an answered client and a served merger have no next step
CHECK_DEADLOCK FALSE
