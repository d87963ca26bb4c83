------------------------------ MODULE Outcome ------------------------------
(***************************************************************************)
(* What a speculate run concludes from a snapshot: the pure functions of   *)
(* submitqueue/orchestrator/controller/speculate (outcome.go, bypass.go,   *)
(* snapshot.go, check.go and the set operations of run.go, finalize.go and *)
(* dispatch.go).                                                           *)
(*                                                                         *)
(* A path is a function from the dependencies it makes a guess about to    *)
(* the guess; a path set gives every path its status, "Absent" when the    *)
(* set has no entry for it; st is a snapshot of batch states.              *)
(***************************************************************************)
EXTENDS Naturals, FiniteSets

CONSTANTS
    Batch,      \* batch IDs of one queue
    Deps,       \* Deps[b]: the batches b is stacked on (Batch.Dependencies)
    Path        \* the assumption lists a Speculator may propose, well-formed or not

Assumption == {"succeeds", "fails"}

ASSUME BatchAssumption == IsFiniteSet(Batch)
ASSUME DepsAssumption  == Deps \in [Batch -> SUBSET Batch]
ASSUME PathAssumption  == \A p \in Path : \E D \in SUBSET Batch : p \in [D -> Assumption]

Final      == {"Succeeded", "Failed", "Cancelled"}
Active     == {"Created", "Speculating", "Landing", "Cancelling"}
BatchState == {"Creating"} \cup Active \cup Final
Halted     == Final \cup {"Cancelling"}
Cancellable == {"Created", "Speculating", "Cancelling"}

PathFinal  == {"Passed", "Failed", "Cancelled"}
PathLive   == {"Pending", "Building", "Cancelling"}
PathStatus == {"Absent"} \cup PathLive \cup PathFinal
PathSet    == [Path -> PathStatus]
NoPaths    == [p \in Path |-> "Absent"]

BuildFinal  == {"Succeeded", "Failed", "Cancelled"}
BuildStatus == {"None", "Running"} \cup BuildFinal

Verdict == {"wait", "land", "fail", "cancel"}

----------------------------------------------------------------------------
(* Reading a path against a snapshot of batch states.                       *)

WellFormed(p, h) == DOMAIN p = Deps[h]

\* A finished dependency contradicts the path.
Broken(p, st) ==
    \E d \in DOMAIN p : /\ st[d] \in Final
                        /\ (p[d] = "succeeds") # (st[d] = "Succeeded")

\* Mutant: a dependency still running counts as one that failed.
SettledUnlessContradicted(p, st) ==
    \A d \in DOMAIN p : (p[d] = "succeeds") = (st[d] = "Succeeded")

\* Every dependency finished the way the path assumed.
Settled(p, st) ==
    \A d \in DOMAIN p : IF p[d] = "succeeds" THEN st[d] = "Succeeded"
                                             ELSE st[d] \in {"Failed", "Cancelled"}

Landable(set, st) ==
    \E p \in Path : set[p] = "Passed" /\ ~Broken(p, st) /\ Settled(p, st)

Unsettled(h, st) == {d \in Deps[h] : st[d] \notin Final}

\* Mutant: a passed path counts though a dependency has contradicted it.
SeenWithBroken(h, set, st) ==
    { {d \in Unsettled(h, st) : p[d] = "succeeds"} :
        p \in {q \in Path : set[q] = "Passed" /\ WellFormed(q, h)} }

\* The combinations of unsettled dependencies that passed paths answer for:
\* each is named by the dependencies it assumes succeed.
Seen(h, set, st) ==
    { {d \in Unsettled(h, st) : p[d] = "succeeds"} :
        p \in {q \in Path : set[q] = "Passed" /\ ~Broken(q, st) /\ WellFormed(q, h)} }

Bypassable(h, set, st) ==
    LET unsettled == Unsettled(h, st)
        required  == 2^Cardinality(unsettled)
    IN  /\ unsettled # {}
        /\ required <= Cardinality({p \in Path : set[p] # "Absent"})
        /\ Cardinality(Seen(h, set, st)) = required

\* Mutant: a head fails as soon as every path it was given failed.
NoPathLeft(h, set, st) ==
    LET unbroken == {p \in Path : set[p] # "Absent" /\ ~Broken(p, st)}
    IN  unbroken # {} /\ \A p \in unbroken : set[p] = "Failed"

NoViableFuture(h, set, st) ==
    LET unbroken == {p \in Path : set[p] # "Absent" /\ ~Broken(p, st)}
    IN  /\ \A d \in Deps[h] : st[d] \in Final
        /\ unbroken # {}
        /\ \A p \in unbroken : set[p] = "Failed"

Decide(h, set, st) ==
    IF Landable(set, st) \/ Bypassable(h, set, st) THEN "land"
    ELSE IF NoViableFuture(h, set, st) THEN "fail"
    ELSE "wait"

\* Ask every live path to stop, except the ones in keep.
MarkCancelling(set, keep) ==
    [p \in Path |-> IF set[p] \in {"Pending", "Building"} /\ p \notin keep
                    THEN "Cancelling" ELSE set[p]]

CancelBroken(set, st) == MarkCancelling(set, {p \in Path : ~Broken(p, st)})

\* The winner of a land is a passed path, which no marking touches.
Supersede(set) == MarkCancelling(set, {})

CancelAll(set) == MarkCancelling(set, {})

AllStopped(set) == \A p \in Path : set[p] \notin PathLive

\* The path status that records a finished build.
TerminalPathStatus(b) == IF b = "Succeeded" THEN "Passed" ELSE b

\* What a run makes of one path, given the build its attempt is linked to.
ObservedStatus(status, b) ==
    IF status \notin PathLive THEN status
    ELSE IF b \in BuildFinal THEN TerminalPathStatus(b)
    ELSE IF b = "None" /\ status = "Cancelling" THEN "Cancelled"
    ELSE IF b = "Running" /\ status = "Pending" THEN "Building"
    ELSE status

UpdatePathsFromBuilds(set, bld) == [p \in Path |-> ObservedStatus(set[p], bld[p])]

\* Mutants of the filter: a path that leaves a dependency out gets through;
\* a finished path may be funded again.
KeepAnyShape(h, p, set, st) ==
    st[h] = "Speculating" /\ ~Broken(p, st) /\ set[p] \notin PathFinal
KeepFinished(h, p, set, st) ==
    st[h] = "Speculating" /\ WellFormed(p, h) /\ ~Broken(p, st)

\* The filter: which proposals for head h survive, given the run's snapshot.
KeepBuild(h, p, set, st) ==
    /\ st[h] = "Speculating"
    /\ WellFormed(p, h)
    /\ ~Broken(p, st)
    /\ set[p] \notin PathFinal

KeepCancel(h, p, set, st) ==
    /\ st[h] = "Speculating"
    /\ WellFormed(p, h)
    /\ ~Broken(p, st)
    /\ set[p] \in PathLive

\* Proposals folded into a set.  A path both funded and cancelled ends up
\* cancelling whichever comes first; funding a finished path resurrects it.
ApplyProposals(set, fund, stop) ==
    [p \in Path |->
        IF p \in stop /\ set[p] # "Absent" THEN "Cancelling"
        ELSE IF p \in fund /\ set[p] \notin PathLive THEN "Pending"
        ELSE set[p]]

HasActionablePaths(set) == \E p \in Path : set[p] = "Pending"
============================================================================
