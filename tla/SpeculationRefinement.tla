----------------------- MODULE SpeculationRefinement -----------------------
(* The speculate stage and the stages around it implement LandQueue.        *)
EXTENDS Speculation

Standing ==
    [b \in Batch |-> CASE state[b] = "Landing" -> "committed"
                       [] state[b] = "Succeeded" -> "landed"
                       [] state[b] \in {"Failed", "Cancelled"} -> "out"
                       [] OTHER -> "queued"]
Proven == [b \in Batch |-> {p \in [Deps[b] -> Assumption] : p \in Path /\ build[b][p] = "Succeeded"}]

Queue == INSTANCE LandQueue WITH standing <- Standing, proven <- Proven

\* Whatever runs overlap, stages race and messages are dead-lettered, the batch
\* states and the builds are those of a queue that commits a batch only on
\* proof of every combination still possible, and never takes it back.
ImplementsLandQueue == Queue!QueueSpec
============================================================================
