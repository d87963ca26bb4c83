----------------------------- MODULE MCOutcome -----------------------------
(***************************************************************************)
(* Outcome over every snapshot of one head stacked on two batches: any      *)
(* states of the dependencies, any statuses of the head's paths.  The steps *)
(* are what the rest of the system can do to the facts a decision rests on. *)
(***************************************************************************)
EXTENDS Outcome, TLC

CONSTANTS a, b, c

ForkDeps == a :> {} @@ b :> {a, c} @@ c :> {}
ForkPath == [{a, c} -> Assumption]

VARIABLES st, set

Init == /\ st \in [Batch -> {"Speculating", "Landing"}]
        /\ st[b] = "Speculating"
        /\ set \in [Path -> {"Absent", "Building", "Cancelling"}]

\* A dependency finishes.
Resolve(d) ==
    /\ st[d] \notin Final
    /\ \E s \in Final : st' = [st EXCEPT ![d] = s]
    /\ UNCHANGED set

\* A build of one of the head's paths finishes and a run observes it.
Observe(p) ==
    /\ set[p] \in PathLive
    /\ \E s \in BuildFinal : set' = [set EXCEPT ![p] = ObservedStatus(@, s)]
    /\ UNCHANGED st

Next == (\E d \in Deps[b] : Resolve(d)) \/ (\E p \in Path : Observe(p))

Spec == Init /\ [][Next]_<<st, set>>

\* The positional signature count of bypassablePath and the settled check of
\* landablePath together decide exactly one thing: a head lands when every
\* outcome its dependencies can still have is covered by a passed path.
LandIsCoverage ==
    (Decide(b, set, st) = "land") <=>
        \A p \in [Deps[b] -> Assumption] : ~Broken(p, st) => set[p] = "Passed"

\* A decision to land taken before the dependencies are settled stays right
\* however they, and the builds still running, turn out.
LandIsStable == [][Decide(b, set, st) = "land" => Decide(b, set', st') = "land"]_<<st, set>>

\* A decision to fail is final too: nothing that can still happen would have
\* let the head land.
FailIsFinal == [][Decide(b, set, st) = "fail" => Decide(b, set', st') = "fail"]_<<st, set>>
============================================================================
