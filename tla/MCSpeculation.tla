--------------------------- MODULE MCSpeculation ---------------------------
(* Small queues for Speculation.                                            *)
EXTENDS SpeculationRefinement, TLC

CONSTANTS a, b, w1, w2

\* The assumption lists over subsets of S: the well-formed ones of every head
\* stacked on S, and the malformed ones that leave a dependency out.
PathsOver(S) == UNION {[D -> Assumption] : D \in SUBSET S}

\* a alone.
LoneDeps == a :> {}

\* b stacked on a.
ChainDeps == a :> {} @@ b :> {a}
ChainPath == PathsOver({a})

\* Workers are interchangeable.
WorkerSymmetry == Permutations({w1, w2})
============================================================================
