----------------------------- MODULE LandQueue -----------------------------
(***************************************************************************)
(* What the orchestrator promises of a queue, without saying how.  A batch  *)
(* is stacked on others that may or may not land.  CI proves combinations:  *)
(* the batch on top of those of its dependencies that a combination has     *)
(* succeed.  A batch is committed to landing once every combination its     *)
(* dependencies can still leave is proven, then lands or is refused; one    *)
(* that is not committed may drop out at any time.                          *)
(***************************************************************************)
CONSTANTS
    Batch,   \* the batches of the queue
    Deps     \* Deps[b]: the batches b is stacked on

VARIABLES
    standing,   \* batch -> "queued", "committed", "landed", "out"
    proven      \* batch -> the combinations CI has proven

queueVars == <<standing, proven>>

Standing == {"queued", "committed", "landed", "out"}
Combination(b) == [Deps[b] -> {"succeeds", "fails"}]

\* The dependencies may still leave the combination c.
Possible(c) ==
    \A d \in DOMAIN c : /\ standing[d] = "landed" => c[d] = "succeeds"
                        /\ standing[d] = "out" => c[d] = "fails"

QueueInit ==
    /\ standing \in [Batch -> {"queued", "committed"}]
    /\ proven \in [Batch -> SUBSET UNION {Combination(b) : b \in Batch}]
    /\ \A b \in Batch : /\ proven[b] \subseteq Combination(b)
                        /\ standing[b] = "committed" => proven[b] = Combination(b)

\* CI proves a combination, whatever has become of the batch by then.
Prove(b, c) ==
    /\ proven' = [proven EXCEPT ![b] = @ \cup {c}]
    /\ UNCHANGED standing

Commit(b) ==
    /\ standing[b] = "queued"
    /\ \A c \in Combination(b) : Possible(c) => c \in proven[b]
    /\ standing' = [standing EXCEPT ![b] = "committed"]
    /\ UNCHANGED proven

Land(b) ==
    /\ standing[b] = "committed"
    /\ standing' = [standing EXCEPT ![b] = "landed"]
    /\ UNCHANGED proven

\* A batch fails or is cancelled, or the push of a committed one is refused.
Leave(b) ==
    /\ standing[b] \in {"queued", "committed"}
    /\ standing' = [standing EXCEPT ![b] = "out"]
    /\ UNCHANGED proven

QueueNext == \E b \in Batch : \/ Commit(b) \/ Land(b) \/ Leave(b)
                              \/ \E c \in Combination(b) : Prove(b, c)

QueueSpec == QueueInit /\ [][QueueNext]_queueVars
============================================================================
