---------------------------- MODULE MCSqlQueue -----------------------------
(* Small partitions for SqlQueue.                                           *)
EXTENDS QueueAdmin, TLC

CONSTANTS m1, m2, g1, g2, w1, w2

\* Both workers subscribe for one group.
OneGroup == w1 :> g1 @@ w2 :> g1
LoneWorker == w1 :> g1

\* One worker for each group.
TwoGroups == w1 :> g1 @@ w2 :> g2

\* Two workers of one group are interchangeable.
WorkerSymmetry == Permutations({w1, w2})
============================================================================
