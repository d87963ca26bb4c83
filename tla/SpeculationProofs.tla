------------------------- MODULE SpeculationProofs -------------------------
(***************************************************************************)
(* Speculation, for any queue, any number of overlapping workers and any    *)
(* number of faults: the types, that what lands was validated, and that the *)
(* stages implement LandQueue.  First, what a decision of Outcome guarantees,*)
(* for every queue and every snapshot.                                      *)
(***************************************************************************)
EXTENDS SpeculationRefinement, FiniteSetTheorems, TLAPS
-----------------------------------------------------------------------------
(* Outcome.                                                                 *)

\* The states a snapshot gives batches: the stored ones, or none yet.
Snapshot == [Batch -> BatchState \cup {"Unread"}]

\* Every outcome the dependencies of h can still have has a passed path.
Covers(h, set, st) ==
    \A p \in [Deps[h] -> Assumption] : ~Broken(p, st) => p \in Path /\ set[p] = "Passed"

\* A stored path is a function over its own domain.
LEMMA PathIsFunction ==
    ASSUME NEW h \in Batch, NEW p \in Path, WellFormed(p, h)
    PROVE  p \in [Deps[h] -> Assumption]
  BY PathAssumption DEF WellFormed

\* landablePath: once every dependency is settled the way a path assumed, that
\* path is the only outcome left.
LEMMA LandableCovers ==
    ASSUME NEW h \in Batch, NEW set \in PathSet, NEW st \in Snapshot,
           \A p \in Path : set[p] = "Passed" => WellFormed(p, h),
           Landable(set, st)
    PROVE  Covers(h, set, st)
<1>1. PICK p \in Path : set[p] = "Passed" /\ Settled(p, st)
  BY DEF Landable
<1>2. p \in [Deps[h] -> Assumption]
  BY <1>1, PathIsFunction
<1>3. ASSUME NEW q \in [Deps[h] -> Assumption], ~Broken(q, st)
      PROVE  q = p
  <2>1. \A d \in Deps[h] : q[d] = p[d]
    BY <1>1, <1>2, <1>3 DEF Settled, Broken, Final, Assumption
  <2> QED BY <1>2, <1>3, <2>1
<1> QED BY <1>1, <1>3 DEF Covers

\* bypassablePath: as many signatures as there are subsets of the unsettled
\* dependencies means every one of those subsets.
LEMMA BypassableCovers ==
    ASSUME NEW h \in Batch, NEW set \in PathSet, NEW st \in Snapshot,
           Bypassable(h, set, st)
    PROVE  Covers(h, set, st)
<1> DEFINE U == Unsettled(h, st)
<1>1. IsFiniteSet(U)
  <2>1. U \in SUBSET Batch
    BY DepsAssumption DEF Unsettled
  <2> QED BY <2>1, BatchAssumption, FS_Subset
<1>2. IsFiniteSet(SUBSET U) /\ Cardinality(SUBSET U) = 2^Cardinality(U)
  BY <1>1, FS_SUBSET
<1>3. Seen(h, set, st) \in SUBSET (SUBSET U)
  BY DEF Seen
<1>4. Cardinality(Seen(h, set, st)) = Cardinality(SUBSET U)
  BY <1>2 DEF Bypassable
<1>5. Seen(h, set, st) = SUBSET U
  BY <1>2, <1>3, <1>4, FS_Subset
<1>6. ASSUME NEW q \in [Deps[h] -> Assumption], ~Broken(q, st)
      PROVE  q \in Path /\ set[q] = "Passed"
  <2>1. {d \in U : q[d] = "succeeds"} \in Seen(h, set, st)
    BY <1>5
  <2>2. PICK p \in Path : /\ set[p] = "Passed" /\ ~Broken(p, st) /\ WellFormed(p, h)
                          /\ {d \in U : q[d] = "succeeds"} = {d \in U : p[d] = "succeeds"}
    BY <2>1 DEF Seen
  <2>3. p \in [Deps[h] -> Assumption]
    BY <2>2, PathIsFunction
  <2>4. \A d \in Deps[h] : q[d] = p[d]
    <3>1. ASSUME NEW d \in U PROVE q[d] = p[d]
      <4>1. d \in Deps[h] BY DEF Unsettled
      <4>2. (q[d] = "succeeds") <=> (p[d] = "succeeds") BY <2>2
      <4> QED BY <4>1, <4>2, <1>6, <2>3 DEF Assumption
    <3>2. ASSUME NEW d \in Deps[h], d \notin U PROVE q[d] = p[d]
      <4>1. st[d] \in Final BY <3>2 DEF Unsettled
      <4> QED BY <4>1, <3>2, <1>6, <2>2, <2>3 DEF Broken, Assumption
    <3> QED BY <3>1, <3>2
  <2> QED BY <1>6, <2>2, <2>3, <2>4
<1> QED BY <1>6 DEF Covers

\* A head is decided to land only when every outcome its dependencies can still
\* have is covered by a passed path (decide, outcome.go): for any number of
\* dependencies, whatever the snapshot.
THEOREM LandIsCovered ==
    ASSUME NEW h \in Batch, NEW set \in PathSet, NEW st \in Snapshot,
           \A p \in Path : set[p] = "Passed" => WellFormed(p, h),
           Decide(h, set, st) = "land"
    PROVE  Covers(h, set, st)
  BY LandableCovers, BypassableCovers DEF Decide

\* The combination a snapshot with every dependency final leaves.
LeftBy(h, st) == [d \in Deps[h] |-> IF st[d] = "Succeeded" THEN "succeeds" ELSE "fails"]

\* A queue has finitely many paths to propose.
LEMMA PathIsFinite == IsFiniteSet(Path)
<1> DEFINE T == (SUBSET Batch) \X (SUBSET Batch)
           f == [p \in Path |-> <<DOMAIN p, {d \in DOMAIN p : p[d] = "succeeds"}>>]
<1>1. IsFiniteSet(T)
  <2>1. IsFiniteSet(SUBSET Batch)
    BY BatchAssumption, FS_SUBSET
  <2> QED BY <2>1, FS_Product
<1>2. f \in [Path -> T]
  <2>1. \A p \in Path : DOMAIN p \in SUBSET Batch
    BY PathAssumption
  <2> QED BY <2>1
<1>3. ASSUME NEW p \in Path, NEW q \in Path, f[p] = f[q]
      PROVE  p = q
  <2>1. PICK D \in SUBSET Batch : p \in [D -> Assumption]
    BY PathAssumption
  <2>2. PICK E \in SUBSET Batch : q \in [E -> Assumption]
    BY PathAssumption
  <2>3. D = E /\ {d \in D : p[d] = "succeeds"} = {d \in D : q[d] = "succeeds"}
    BY <1>3, <2>1, <2>2
  <2>4. \A d \in D : p[d] = q[d]
    <3>1. ASSUME NEW d \in D PROVE p[d] = q[d]
      <4>1. p[d] = "succeeds" <=> q[d] = "succeeds" BY <2>3
      <4> QED BY <2>1, <2>2, <2>3, <4>1 DEF Assumption
    <3> QED BY <3>1
  <2> QED BY <2>1, <2>2, <2>3, <2>4
<1> HIDE DEF f, T
<1>4. f \in Injection(Path, T)
  BY <1>2, <1>3 DEF Injection, IsInjective
<1> QED BY <1>1, <1>4, FS_Injection

\* The other direction: where every outcome has a passed path, landablePath or
\* bypassablePath finds it out, by a settled path or by counting signatures.
LEMMA CoverageLands ==
    ASSUME NEW h \in Batch, NEW set \in PathSet, NEW st \in Snapshot, Covers(h, set, st)
    PROVE  Landable(set, st) \/ Bypassable(h, set, st)
<1> DEFINE U == Unsettled(h, st)
           Guess(S) == [d \in Deps[h] |-> IF d \in S \/ st[d] = "Succeeded" THEN "succeeds" ELSE "fails"]
           Held == {p \in Path : set[p] # "Absent"}
<1>1. \A S \in SUBSET U : /\ Guess(S) \in [Deps[h] -> Assumption]
                          /\ ~Broken(Guess(S), st)
                          /\ {d \in U : Guess(S)[d] = "succeeds"} = S
  <2>1. \A S : Guess(S) \in [Deps[h] -> Assumption]
    BY DEF Assumption
  <2>2. ASSUME NEW S \in SUBSET U PROVE ~Broken(Guess(S), st)
    BY <2>2 DEF Broken, Unsettled
  <2>3. ASSUME NEW S \in SUBSET U PROVE {d \in U : Guess(S)[d] = "succeeds"} = S
    <3>1. \A d \in U : d \in Deps[h] /\ st[d] # "Succeeded"
      BY DEF Unsettled, Final
    <3>2. \A d \in U : Guess(S)[d] = "succeeds" <=> d \in S
      BY <3>1
    <3> HIDE DEF Guess, U
    <3> QED BY <2>3, <3>2
  <2> QED BY <2>1, <2>2, <2>3
<1>2. \A S \in SUBSET U : Guess(S) \in Path /\ set[Guess(S)] = "Passed" /\ WellFormed(Guess(S), h)
  BY <1>1 DEF Covers, WellFormed
<1>3. CASE U = {}
  <2>1. Settled(Guess({}), st)
    BY <1>3 DEF Settled, Unsettled, Final
  <2>2. {} \in SUBSET U
    OBVIOUS
  <2>3. Guess({}) \in Path /\ set[Guess({})] = "Passed" /\ ~Broken(Guess({}), st)
    BY <1>1, <1>2, <2>2
  <2> HIDE DEF Guess
  <2> QED BY <2>1, <2>3 DEF Landable
<1>4. CASE U # {}
  <2>1. IsFiniteSet(U)
    <3>1. U \in SUBSET Batch
      BY DepsAssumption DEF Unsettled
    <3> QED BY <3>1, BatchAssumption, FS_Subset
  <2>2. IsFiniteSet(SUBSET U) /\ Cardinality(SUBSET U) = 2^Cardinality(U)
    BY <2>1, FS_SUBSET
  <2>3. Seen(h, set, st) = SUBSET U
    <3>1. Seen(h, set, st) \subseteq SUBSET U
      BY DEF Seen
    <3>2. ASSUME NEW S \in SUBSET U PROVE S \in Seen(h, set, st)
      <4>1. Guess(S) \in {q \in Path : set[q] = "Passed" /\ ~Broken(q, st) /\ WellFormed(q, h)}
        BY <1>1, <1>2
      <4>2. S = {d \in Unsettled(h, st) : Guess(S)[d] = "succeeds"}
        BY <1>1
      <4> HIDE DEF Guess
      <4> QED BY <4>1, <4>2 DEF Seen
    <3> QED BY <3>1, <3>2
  <2>4. Cardinality(SUBSET U) <= Cardinality(Held)
    <3> DEFINE f == [S \in SUBSET U |-> Guess(S)]
    <3>1. f \in [SUBSET U -> Held]
      BY <1>2
    <3>2. ASSUME NEW S \in SUBSET U, NEW R \in SUBSET U, f[S] = f[R] PROVE S = R
      <4>1. Guess(S) = Guess(R)
        BY <3>2
      <4>2. {d \in U : Guess(S)[d] = "succeeds"} = S /\ {d \in U : Guess(R)[d] = "succeeds"} = R
        BY <1>1
      <4> HIDE DEF Guess, U
      <4> QED BY <4>1, <4>2
    <3>4. IsFiniteSet(Held)
      BY PathIsFinite, FS_Subset
    <3> HIDE DEF f, Held, U
    <3>3. f \in Injection(SUBSET U, Held)
      BY <3>1, <3>2 DEF Injection, IsInjective
    <3> QED BY <2>2, <3>3, <3>4, FS_Injection
  <2> QED BY <1>4, <2>2, <2>3, <2>4 DEF Bypassable
<1> QED BY <1>3, <1>4

\* hasNoViableFuture: with every dependency final, the one unbroken path is the
\* combination they leave.
LEMMA NoFutureIsFailed ==
    ASSUME NEW h \in Batch, NEW set \in PathSet, NEW st \in Snapshot,
           \A p \in Path : set[p] # "Absent" => WellFormed(p, h),
           Decide(h, set, st) = "fail"
    PROVE  /\ \A d \in Deps[h] : st[d] \in Final
           /\ LeftBy(h, st) \in Path /\ set[LeftBy(h, st)] = "Failed"
<1>1. NoViableFuture(h, set, st)
  BY DEF Decide
<1>2. PICK p \in Path : set[p] = "Failed" /\ ~Broken(p, st)
  BY <1>1 DEF NoViableFuture
<1>3. p \in [Deps[h] -> Assumption]
  BY <1>2, PathIsFunction
<1>4. \A d \in Deps[h] : st[d] \in Final
  BY <1>1 DEF NoViableFuture
<1>5. p = LeftBy(h, st)
  <2>1. \A d \in Deps[h] : p[d] = LeftBy(h, st)[d]
    BY <1>2, <1>3, <1>4 DEF Broken, LeftBy, Assumption
  <2> QED BY <1>3, <2>1 DEF LeftBy
<1> QED BY <1>2, <1>4, <1>5

\* The landing rule is exact: decide answers "land" when, and only when, every
\* outcome the dependencies can still have is covered by a passed path.  No
\* batch waits for a build it does not need (decide, outcome.go).
THEOREM LandIsExact ==
    ASSUME NEW h \in Batch, NEW set \in PathSet, NEW st \in Snapshot,
           \A p \in Path : set[p] = "Passed" => WellFormed(p, h)
    PROVE  Decide(h, set, st) = "land" <=> Covers(h, set, st)
  BY LandIsCovered, CoverageLands DEF Decide

\* Coverage outlives the snapshot it was read from: when more dependencies are
\* final, and those that were stay as they were, and no passed path is lost.
LEMMA CoversIsStable ==
    ASSUME NEW h \in Batch, NEW set \in PathSet, NEW set2 \in PathSet,
           NEW st \in Snapshot, NEW st2 \in Snapshot,
           \A b \in Batch : st[b] \in Final => st2[b] = st[b],
           \A p \in Path : set[p] = "Passed" => set2[p] = "Passed",
           Covers(h, set, st)
    PROVE  Covers(h, set2, st2)
<1> SUFFICES ASSUME NEW p \in [Deps[h] -> Assumption], ~Broken(p, st2)
             PROVE  p \in Path /\ set2[p] = "Passed"
  BY DEF Covers
<1>1. ~Broken(p, st)
  BY DepsAssumption DEF Broken
<1> QED BY <1>1 DEF Covers

\* A decision to land taken before the dependencies are settled stays right
\* however they, and the builds still running, turn out.
THEOREM LandStands ==
    ASSUME NEW h \in Batch, NEW set \in PathSet, NEW set2 \in PathSet,
           NEW st \in Snapshot, NEW st2 \in Snapshot,
           \A b \in Batch : st[b] \in Final => st2[b] = st[b],
           \A p \in Path : set[p] = "Passed" => set2[p] = "Passed",
           \A p \in Path : set[p] = "Passed" \/ set2[p] = "Passed" => WellFormed(p, h),
           Decide(h, set, st) = "land"
    PROVE  Decide(h, set2, st2) = "land"
<1>1. Covers(h, set, st)
  BY LandIsCovered
<1>2. Covers(h, set2, st2)
  BY <1>1, CoversIsStable
<1> QED BY <1>2, LandIsExact

\* A decision to fail is final too: whatever paths are added, and whatever the
\* other builds answer, the head could never have landed (hasNoViableFuture).
THEOREM FailStands ==
    ASSUME NEW h \in Batch, NEW set \in PathSet, NEW set2 \in PathSet,
           NEW st \in Snapshot, NEW st2 \in Snapshot,
           \A b \in Batch : st[b] \in Final => st2[b] = st[b],
           \A p \in Path : set[p] = "Failed" => set2[p] = "Failed",
           \A p \in Path : set[p] # "Absent" \/ set2[p] # "Absent" => WellFormed(p, h),
           Decide(h, set, st) = "fail"
    PROVE  Decide(h, set2, st2) = "fail"
<1> DEFINE left == LeftBy(h, st)
<1>1. /\ \A d \in Deps[h] : st[d] \in Final
      /\ left \in Path /\ set[left] = "Failed"
  BY NoFutureIsFailed
<1>2. \A d \in Deps[h] : st2[d] = st[d] /\ st2[d] \in Final
  BY <1>1, DepsAssumption
<1>3. ~Broken(left, st2) /\ set2[left] = "Failed"
  BY <1>1, <1>2 DEF Broken, LeftBy
<1>4. ASSUME NEW p \in Path, set2[p] # "Absent", ~Broken(p, st2)
      PROVE  p = left
  <2>1. p \in [Deps[h] -> Assumption]
    BY <1>4, PathIsFunction
  <2>2. \A d \in Deps[h] : p[d] = left[d]
    BY <1>2, <1>4, <2>1 DEF Broken, LeftBy, Assumption
  <2> QED BY <2>1, <2>2 DEF LeftBy
<1> HIDE DEF left
<1>5. ~Landable(set2, st2)
  BY <1>3, <1>4 DEF Landable
<1>6. ~Bypassable(h, set2, st2)
  BY <1>2 DEF Bypassable, Unsettled
<1>7. NoViableFuture(h, set2, st2)
  BY <1>1, <1>2, <1>3, <1>4 DEF NoViableFuture
<1> QED BY <1>5, <1>6, <1>7 DEF Decide
-----------------------------------------------------------------------------
(* Speculation.                                                             *)

(* The inductive invariant.                                                 *)

\* A worker may be behind the store, but a batch it read as final is final.
SnapIsCurrent ==
    \A w \in Worker, b \in Batch : snap[w][b] \in Final => state[b] = snap[w][b]

\* A path a worker read as passed still is, in the store and in its own copy;
\* a path that reads as passed anywhere has a build that succeeded.
CopiesAreSound ==
    /\ \A w \in Worker, h \in Batch, p \in Path :
          /\ orig[w][h][p] = "Passed" => paths[h][p] = "Passed" /\ sets[w][h][p] = "Passed"
          /\ sets[w][h][p] = "Passed" => build[h][p] = "Succeeded"
    /\ \A h \in Batch, p \in Path : paths[h][p] = "Passed" => build[h][p] = "Succeeded"

\* No malformed path gets past the filter.
SetsAreWellFormed ==
    /\ \A h \in Batch, p \in Path : paths[h][p] # "Absent" => WellFormed(p, h)
    /\ \A w \in Worker, h \in Batch, p \in Path : sets[w][h][p] # "Absent" => WellFormed(p, h)

\* A head still open that is not marked dirty is unchanged since it was read.
CleanIsUnchanged ==
    \A w \in Worker, h \in Batch :
        sets[w][h] # orig[w][h] /\ h \notin dirty[w] =>
            pc[w] \notin {"idle", "batches", "paths"} /\ h \notin open[w] /\ snap[w][h] # "Created"

OpenIsSpeculating == \A w \in Worker : \A h \in open[w] : snap[w][h] = "Speculating"

\* A worker about to move a head holds a head it read as open or cancelling,
\* and, if it lands it, the stored set covers what the worker saw.
CommitIsSound ==
    \A w \in Worker : pc[w] \in {"recover", "transition"} =>
        /\ head[w] \in Batch \ open[w]
        /\ verdict[w] \in {"land", "fail", "cancel"}
        /\ snap[w][head[w]] = IF verdict[w] = "cancel" THEN "Cancelling" ELSE "Speculating"
        /\ verdict[w] = "land" => Covers(head[w], paths[head[w]], snap[w])

\* What a worker is about to dispatch is in the store.
EnactIsDurable ==
    \A w \in Worker : pc[w] = "enact" =>
        state[head[w]] \in IF verdict[w] = "land" THEN {"Landing", "Succeeded", "Failed"} ELSE Final

\* Runway is asked for, and answers about, batches dispatched to land.
RunwayWasAsked ==
    \A b \in Batch : runway[b] # "none" \/ b \in signals => b \in land

\* Every outcome the dependencies of a landing head can still have has a path
\* that passed.
LandedIsCovered ==
    \A h \in Batch : state[h] \in {"Landing", "Succeeded"} => Covers(h, paths[h], state)

IInv == /\ TypeOK
        /\ SnapIsCurrent
        /\ CopiesAreSound
        /\ SetsAreWellFormed
        /\ CleanIsUnchanged
        /\ OpenIsSpeculating
        /\ CommitIsSound
        /\ EnactIsDurable
        /\ DispatchedIsDurable
        /\ RunwayWasAsked
        /\ LandedIsCovered

----------------------------------------------------------------------------
(* Types.                                                                   *)

\* The set operations of a run return path sets.
LEMMA SetOperations ==
    ASSUME NEW set \in PathSet
    PROVE  /\ \A bld \in [Path -> BuildStatus] : UpdatePathsFromBuilds(set, bld) \in PathSet
           /\ \A keep : MarkCancelling(set, keep) \in PathSet
           /\ \A fund, stop : ApplyProposals(set, fund, stop) \in PathSet
  BY DEF PathSet, PathStatus, PathLive, PathFinal, BuildStatus, BuildFinal, UpdatePathsFromBuilds,
         ObservedStatus, TerminalPathStatus, MarkCancelling, ApplyProposals

\* The stages around speculate touch no worker.
LEMMA StagesLeaveWorkers ==
    ASSUME StageStep
    PROVE  UNCHANGED local
  BY DEF StageStep, Promote, CancelBatch, LandBatch, LandSignal, DeadLetter, DeadLetterSpeculate, RunwayMerge,
         StartPath, SkipPath, BuildSignal

\* They keep the types.
LEMMA StagesTypeOK ==
    ASSUME TypeOK, StageStep
    PROVE  TypeOK'
<1> USE DEF TypeOK
<1>1. UNCHANGED local
  BY StagesLeaveWorkers
<1>2. ControlTypeOK' /\ CopyTypeOK' /\ LoopTypeOK'
  BY <1>1 DEF local, ControlTypeOK, CopyTypeOK, LoopTypeOK
<1>3. ASSUME NEW b \in Batch, Promote(b) PROVE StoreTypeOK'
  BY <1>3 DEF StoreTypeOK, Promote, BatchState, Active
<1>4. ASSUME NEW b \in Batch, CancelBatch(b) PROVE StoreTypeOK'
  BY <1>4 DEF StoreTypeOK, CancelBatch, BatchState, Active
<1>5. ASSUME NEW b \in Batch, LandSignal(b) PROVE StoreTypeOK'
  BY <1>5 DEF StoreTypeOK, LandSignal, BatchState, Final
<1>6. ASSUME NEW b \in Batch, DeadLetter(b) PROVE StoreTypeOK'
  BY <1>6, FaultsAssumption DEF StoreTypeOK, DeadLetter, FailBatch, Fault, BatchState, Final
<1>7. ASSUME NEW b \in Batch, NEW res \in Merges, RunwayMerge(b, res) PROVE StoreTypeOK'
  BY <1>7, InputAssumption DEF StoreTypeOK, RunwayMerge, RunwayStatus
<1>8. ASSUME NEW h \in Batch, NEW p \in Path, StartPath(h, p) PROVE StoreTypeOK'
  BY <1>8 DEF StoreTypeOK, StartPath, BuildStatus
<1>9. ASSUME NEW h \in Batch, NEW p \in Path, SkipPath(h, p) PROVE StoreTypeOK'
  BY <1>9 DEF StoreTypeOK, SkipPath
<1>10. ASSUME NEW h \in Batch, NEW p \in Path, NEW s \in CIReports, BuildSignal(h, p, s) PROVE StoreTypeOK'
  BY <1>10, InputAssumption DEF StoreTypeOK, BuildSignal, BuildStatus, BuildFinal
<1>11. ASSUME NEW b \in Batch, LandBatch(b) PROVE StoreTypeOK'
  BY <1>11 DEF StoreTypeOK, LandBatch, RunwayStatus
<1>12. ASSUME NEW b \in Batch, DeadLetterSpeculate(b) PROVE StoreTypeOK'
  <2>1. state' \in [Batch -> BatchState] /\ conclude' \subseteq Batch
    BY <1>12 DEF StoreTypeOK, DeadLetterSpeculate, FailBatch, BatchState, Final
  <2>2. msgs' \subseteq Batch /\ dead' \subseteq Batch
    BY <1>12 DEF StoreTypeOK, DeadLetterSpeculate
  <2> QED BY <1>12, <2>1, <2>2 DEF StoreTypeOK, DeadLetterSpeculate
<1> QED
  BY <1>2, <1>3, <1>4, <1>5, <1>6, <1>7, <1>8, <1>9, <1>10, <1>11, <1>12 DEF StageStep

\* A forgotten run is well typed.
LEMMA ForgetTypeOK ==
    ASSUME TypeOK, NEW w \in Worker, Forget(w)
    PROVE  ControlTypeOK' /\ CopyTypeOK' /\ LoopTypeOK'
<1> USE DEF TypeOK
<1>1. ControlTypeOK'
  BY DEF Forget, ControlTypeOK, Phase, Verdict
<1>2. Unread \in Snapshot /\ [b \in Batch |-> NoPaths] \in [Batch -> PathSet]
  BY DEF Unread, Snapshot, NoPaths, PathSet, PathStatus
<1>3. CopyTypeOK'
  BY <1>2 DEF Forget, CopyTypeOK, Snapshot
<1>4. LoopTypeOK'
  BY DEF Forget, LoopTypeOK
<1> QED BY <1>1, <1>3, <1>4

\* A worker that gives its run up.
Drop(w) == Abandon(w) \/ \E b \in Batch : GiveUp(w, b)

\* A worker that takes a message, loses it or dies keeps the types.
LEMMA DeliveryTypeOK ==
    ASSUME TypeOK, NEW w \in Worker,
           Drop(w) \/ Expire(w) \/ \E b \in Batch : Deliver(w, b)
    PROVE  TypeOK'
<1> USE DEF TypeOK
<1>1. CASE Drop(w)
  <2>1. StoreTypeOK'
    BY <1>1, FaultsAssumption DEF StoreTypeOK, ControlTypeOK, Drop, Abandon, GiveUp, Fault, Requeue
  <2> QED BY <1>1, <2>1, ForgetTypeOK DEF Drop, Abandon, GiveUp
<1>2. CASE Expire(w)
  BY <1>2, FaultsAssumption DEF StoreTypeOK, ControlTypeOK, CopyTypeOK, LoopTypeOK, Expire, Fault
<1>3. ASSUME NEW b \in Batch, Deliver(w, b) PROVE TypeOK'
  <2>1. Receive(w, b)
    BY <1>3 DEF Deliver, ReceiveTerminal, ReceiveLanding, ReceiveCreated, ReceiveOther
  <2>2. state' \in [Batch -> BatchState] /\ land' \subseteq Batch /\ conclude' \subseteq Batch
    <3>1. CASE ReceiveTerminal(w, b) BY <3>1 DEF StoreTypeOK, ReceiveTerminal
    <3>2. CASE ReceiveLanding(w, b) BY <3>2 DEF StoreTypeOK, ReceiveLanding
    <3>3. CASE ReceiveCreated(w, b) BY <3>3 DEF StoreTypeOK, ReceiveCreated, BatchState, Active
    <3>4. CASE ReceiveOther(w, b) BY <3>4 DEF StoreTypeOK, ReceiveOther
    <3> QED BY <1>3, <3>1, <3>2, <3>3, <3>4 DEF Deliver
  <2>3. StoreTypeOK'
    BY <2>1, <2>2 DEF StoreTypeOK, Receive
  <2>4. ControlTypeOK'
    BY <2>1 DEF ControlTypeOK, Receive, Phase
  <2>5. CopyTypeOK' /\ LoopTypeOK'
    BY <2>1 DEF CopyTypeOK, LoopTypeOK, Receive
  <2> QED BY <2>3, <2>4, <2>5
<1> QED BY <1>1, <1>2, <1>3

\* The heads a loop has left, and its end, keep the types.
LEMMA GoOnTypeOK ==
    ASSUME TypeOK, NEW w \in Worker, NEW rest \in SUBSET Batch, pc[w] # "idle", GoOn(w, rest)
    PROVE  ControlTypeOK' /\ CopyTypeOK' /\ LoopTypeOK'
<1> USE DEF TypeOK
<1>1. CASE rest = {}
  BY <1>1, ForgetTypeOK DEF GoOn
<1>2. CASE rest # {}
  <2>1. ControlTypeOK' BY <1>2 DEF GoOn, ControlTypeOK, Phase
  <2>2. CopyTypeOK' BY <1>2 DEF GoOn, CopyTypeOK
  <2>3. LoopTypeOK' BY <1>2 DEF GoOn, LoopTypeOK
  <2> QED BY <2>1, <2>2, <2>3
<1> QED BY <1>1, <1>2

\* So does a committed outcome.
LEMMA CommitTypeOK ==
    ASSUME TypeOK, NEW w \in Worker, NEW b \in Batch, NEW set \in PathSet, NEW v \in Verdict,
           pc[w] = "finalize", UNCHANGED <<owned, trigger>>,
           Commit(w, b, set, v) \/ CommitLost(w, b, set)
    PROVE  /\ ControlTypeOK'
           /\ paths' \in [Batch -> PathSet]
           /\ orig' \in [Worker -> [Batch -> PathSet]]
<1> USE DEF TypeOK
<1>1. CASE Commit(w, b, set, v)
  <2>1. ControlTypeOK'
    BY <1>1 DEF Commit, ControlTypeOK, Phase
  <2>2. paths' \in [Batch -> PathSet] /\ orig' \in [Worker -> [Batch -> PathSet]]
    BY <1>1 DEF Commit, StoreTypeOK, CopyTypeOK
  <2> QED BY <2>1, <2>2
<1>2. CASE CommitLost(w, b, set)
  BY <1>2 DEF CommitLost, StoreTypeOK, ControlTypeOK, CopyTypeOK
<1> QED BY <1>1, <1>2

\* A step of a run keeps the types.
LEMMA RunTypeOK ==
    ASSUME TypeOK, NEW w \in Worker, RunStep(w)
    PROVE  TypeOK'
<1> USE DEF TypeOK
<1>1. ASSUME NEW b \in Batch, ReadBatch(w, b) PROVE TypeOK'
  <2>1. StoreTypeOK' BY <1>1 DEF ReadBatch, store, StoreTypeOK
  <2>2. ControlTypeOK' BY <1>1 DEF ReadBatch, EnterFinalize, ControlTypeOK, Phase
  <2>3. CopyTypeOK' BY <1>1 DEF ReadBatch, CopyTypeOK, StoreTypeOK
  <2>4. LoopTypeOK' BY <1>1 DEF ReadBatch, EnterFinalize, OpenHeads, Sweep, LoopTypeOK
  <2> QED BY <2>1, <2>2, <2>3, <2>4
<1>2. ASSUME NEW h \in Batch, ReadPathSet(w, h) PROVE TypeOK'
  <2>1. StoreTypeOK' BY <1>2 DEF ReadPathSet, store, StoreTypeOK
  <2>2. UpdatePathsFromBuilds(paths[h], build[h]) \in PathSet
    BY SetOperations DEF StoreTypeOK
  <2>3. ControlTypeOK' BY <1>2 DEF ReadPathSet, EnterFinalize, ControlTypeOK, Phase
  <2>4. CopyTypeOK' BY <1>2, <2>2 DEF ReadPathSet, CopyTypeOK, StoreTypeOK
  <2>5. LoopTypeOK' BY <1>2 DEF ReadPathSet, EnterFinalize, OpenHeads, Sweep, LoopTypeOK
  <2> QED BY <2>1, <2>3, <2>4, <2>5
<1>3. ASSUME NEW b \in Batch, AdmitCreated(w, b) PROVE TypeOK'
  <2>1. StoreTypeOK' BY <1>3 DEF AdmitCreated, StoreTypeOK, BatchState, Active
  <2>2. ControlTypeOK' BY <1>3 DEF AdmitCreated, ControlTypeOK
  <2>3. CopyTypeOK'
    <3>1. snap' = [snap EXCEPT ![w][b] = "Speculating"] \/ snap' = snap
      BY <1>3 DEF AdmitCreated
    <3>2. orig' = orig /\ sets' = sets
      BY <1>3 DEF AdmitCreated
    <3>3. "Speculating" \in BatchState
      BY DEF BatchState, Active
    <3>4. snap \in [Worker -> [Batch -> BatchState \cup {"Unread"}]]
      BY DEF CopyTypeOK
    <3>5. snap' \in [Worker -> [Batch -> BatchState \cup {"Unread"}]]
      BY <3>1, <3>3, <3>4
    <3> QED BY <3>2, <3>5 DEF CopyTypeOK
  <2>4. LoopTypeOK' BY <1>3 DEF AdmitCreated, LoopTypeOK
  <2> QED BY <2>1, <2>2, <2>3, <2>4
<1>4. ASSUME NEW b \in Batch, FinalizeCancellation(w, b) PROVE TypeOK'
  <2> DEFINE set == CancelAll(sets[w][b])
  <2>1. set \in PathSet
    BY SetOperations DEF CancelAll, CopyTypeOK
  <2>2. LoopTypeOK'
    BY <1>4 DEF FinalizeCancellation, LoopTypeOK
  <2>3. sets' \in [Worker -> [Batch -> PathSet]] /\ snap' = snap
    BY <1>4, <2>1 DEF FinalizeCancellation, CopyTypeOK
  <2>4. CASE AllStopped(set)
    <3>1. pc[w] = "finalize" /\ UNCHANGED <<owned, trigger>>
      BY <1>4 DEF FinalizeCancellation
    <3>2. Commit(w, b, set, "cancel") \/ CommitLost(w, b, set)
      BY <1>4, <2>4 DEF FinalizeCancellation
    <3>3. /\ ControlTypeOK'
          /\ paths' \in [Batch -> PathSet]
          /\ orig' \in [Worker -> [Batch -> PathSet]]
      BY <2>1, <3>1, <3>2, CommitTypeOK DEF Verdict
    <3>4. StoreTypeOK' BY <1>4, <3>3 DEF FinalizeCancellation, StoreTypeOK
    <3>5. CopyTypeOK' BY <2>3, <3>3 DEF CopyTypeOK
    <3> QED BY <2>2, <3>3, <3>4, <3>5
  <2>5. CASE ~AllStopped(set)
    <3>1. UNCHANGED <<paths, orig, pc, head, verdict>>
      BY <1>4, <2>5 DEF FinalizeCancellation
    <3>2. StoreTypeOK' BY <1>4, <3>1 DEF FinalizeCancellation, StoreTypeOK
    <3>3. ControlTypeOK' BY <1>4, <3>1 DEF FinalizeCancellation, ControlTypeOK
    <3>4. CopyTypeOK' BY <2>3, <3>1 DEF CopyTypeOK
    <3> QED BY <2>2, <3>2, <3>3, <3>4
  <2> QED BY <2>4, <2>5
<1>5. ASSUME NEW h \in Batch, FinalizeHead(w, h) PROVE TypeOK'
  <2> DEFINE decision == Decide(h, Folded(w, h), snap[w])
             set      == IF decision = "land" THEN Supersede(Folded(w, h)) ELSE Folded(w, h)
  <2>1. set \in PathSet
    <3>1. Folded(w, h) \in PathSet
      BY SetOperations DEF Folded, CancelBroken, CopyTypeOK
    <3> QED BY <3>1, SetOperations DEF Supersede
  <2>2. decision \in Verdict
    BY DEF Decide, Verdict
  <2>3. /\ pc[w] = "finalize" /\ UNCHANGED <<owned, trigger>>
        /\ Commit(w, h, set, decision) \/ CommitLost(w, h, set)
    BY <1>5 DEF FinalizeHead
  <2>4. /\ ControlTypeOK'
        /\ paths' \in [Batch -> PathSet]
        /\ orig' \in [Worker -> [Batch -> PathSet]]
    <3> HIDE DEF set, decision
    <3> QED BY <2>1, <2>2, <2>3, CommitTypeOK
  <2>5. sets' = [sets EXCEPT ![w][h] = set] /\ snap' = snap
    BY <1>5 DEF FinalizeHead
  <2>6. CopyTypeOK'
    <3> HIDE DEF set, decision
    <3> QED BY <2>1, <2>4, <2>5 DEF CopyTypeOK
  <2>7. StoreTypeOK' BY <1>5, <2>4 DEF FinalizeHead, StoreTypeOK
  <2>8. LoopTypeOK' BY <1>5 DEF FinalizeHead, LoopTypeOK
  <2> QED BY <2>4, <2>6, <2>7, <2>8
<1>6. CASE Recoverable(w)
  <2>1. StoreTypeOK' BY <1>6 DEF Recoverable, StoreTypeOK, ControlTypeOK
  <2>2. ControlTypeOK' BY <1>6 DEF Recoverable, ControlTypeOK, Phase
  <2>3. CopyTypeOK' /\ LoopTypeOK' BY <1>6 DEF Recoverable, CopyTypeOK, LoopTypeOK
  <2> QED BY <2>1, <2>2, <2>3
<1>7. CASE Transition(w)
  <2>1. TargetState(verdict[w]) \in BatchState
    BY DEF TargetState, BatchState, Active, Final
  <2>2. StoreTypeOK' BY <1>7, <2>1 DEF Transition, StoreTypeOK
  <2>3. ControlTypeOK' BY <1>7 DEF Transition, ControlTypeOK, Phase
  <2>4. CopyTypeOK' BY <1>7, <2>1 DEF Transition, CopyTypeOK
  <2>5. LoopTypeOK' BY <1>7 DEF Transition, LoopTypeOK
  <2> QED BY <2>2, <2>3, <2>4, <2>5
<1>8. ASSUME pc[w] # "idle", Resume(w) PROVE ControlTypeOK' /\ CopyTypeOK' /\ LoopTypeOK'
  <2>1. ControlTypeOK' BY <1>8 DEF Resume, ControlTypeOK, Phase, Verdict
  <2>2. CopyTypeOK' /\ LoopTypeOK' BY <1>8 DEF Resume, CopyTypeOK, LoopTypeOK
  <2> QED BY <2>1, <2>2
<1>9. CASE TransitionLost(w)
  <2>1. StoreTypeOK' BY <1>9 DEF TransitionLost, store, StoreTypeOK
  <2> QED BY <1>8, <1>9, <2>1 DEF TransitionLost
<1>10. CASE Enact(w)
  <2>1. StoreTypeOK' BY <1>10 DEF Enact, StoreTypeOK, ControlTypeOK
  <2> QED BY <1>8, <1>10, <2>1 DEF Enact
<1>11. ASSUME NEW h \in Batch, Dispatch(w, h) PROVE TypeOK'
  <2> DEFINE before == Folded(w, h)
             rest   == Undispatched(w) \ {h}
  <2>1. before \in PathSet
    BY SetOperations DEF Folded, CancelBroken, CopyTypeOK
  <2>2. rest \in SUBSET Batch /\ pc[w] # "idle"
    BY <1>11 DEF Dispatch, Undispatched, LoopTypeOK
  <2>3. PICK fund, stop :
          LET set     == ApplyProposals(before, fund, stop)
              changed == h \in dirty[w] \/ set # sets[w][h]
              lost    == changed /\ paths[h] # orig[w][h]
          IN  /\ paths' = [paths EXCEPT ![h] = IF changed /\ ~lost THEN set ELSE @]
              /\ build' = [build EXCEPT ![h] = [p \in Path |->
                     IF ~lost /\ p \in fund /\ before[p] \in PathFinal THEN "None" ELSE @[p]]]
              /\ IF lost \/ ~HasActionablePaths(set)
                 THEN GoOn(w, rest)
                 ELSE /\ pc' = [pc EXCEPT ![w] = "publish"]
                      /\ head' = [head EXCEPT ![w] = h]
                      /\ todo' = [todo EXCEPT ![w] = rest]
                      /\ UNCHANGED <<owned, trigger, snap, inflight, orig, sets, dirty, open, verdict>>
    BY <1>11 DEF Dispatch
  <2> DEFINE set == ApplyProposals(before, fund, stop)
  <2>4. set \in PathSet
    BY <2>1, SetOperations
  <2> HIDE DEF before, rest, set
  <2>5. StoreTypeOK'
    <3>1. paths' \in [Batch -> PathSet]
      BY <2>3, <2>4 DEF StoreTypeOK, set
    <3>2. build' \in [Batch -> [Path -> BuildStatus]]
      BY <2>3 DEF StoreTypeOK, BuildStatus
    <3> QED BY <1>11, <3>1, <3>2 DEF Dispatch, StoreTypeOK
  <2>6. ControlTypeOK' /\ CopyTypeOK' /\ LoopTypeOK'
    <3>1. CASE GoOn(w, rest)
      BY <2>2, <3>1, GoOnTypeOK
    <3>2. CASE /\ pc' = [pc EXCEPT ![w] = "publish"]
               /\ head' = [head EXCEPT ![w] = h]
               /\ todo' = [todo EXCEPT ![w] = rest]
               /\ UNCHANGED <<owned, trigger, snap, inflight, orig, sets, dirty, open, verdict>>
      <4>1. ControlTypeOK' BY <2>2, <3>2 DEF ControlTypeOK, Phase
      <4>2. CopyTypeOK' BY <3>2 DEF CopyTypeOK
      <4>3. LoopTypeOK' BY <2>2, <3>2 DEF LoopTypeOK
      <4> QED BY <4>1, <4>2, <4>3
    <3> QED BY <2>3, <3>1, <3>2
  <2> QED BY <2>5, <2>6
<1>12. CASE PublishBuild(w)
  <2>1. StoreTypeOK' BY <1>12 DEF PublishBuild, StoreTypeOK, ControlTypeOK
  <2>2. todo[w] \in SUBSET Batch BY DEF LoopTypeOK
  <2> QED BY <1>12, <2>1, <2>2, GoOnTypeOK DEF PublishBuild
<1>13. CASE Finish(w)
  <2>1. StoreTypeOK' BY <1>13 DEF Finish, store, StoreTypeOK
  <2> QED BY <1>13, <2>1, ForgetTypeOK DEF Finish
<1> QED
  BY <1>1, <1>2, <1>3, <1>4, <1>5, <1>6, <1>7, <1>9, <1>10, <1>11, <1>12, <1>13 DEF RunStep

\* The types are an inductive invariant.
LEMMA NextTypeOK ==
    ASSUME TypeOK, [Next]_vars
    PROVE  TypeOK'
<1>1. CASE Next
  BY <1>1, StagesTypeOK, DeliveryTypeOK, RunTypeOK DEF Next, Drop
<1>2. CASE UNCHANGED vars
  BY <1>2 DEF vars, store, local, TypeOK, StoreTypeOK, ControlTypeOK, CopyTypeOK, LoopTypeOK
<1> QED BY <1>1, <1>2

\* The types hold at first.
LEMMA InitTypeOK ==
    ASSUME Init
    PROVE  TypeOK
<1>1. StoreTypeOK
  BY AheadAssumption, FaultsAssumption
     DEF Init, StoreTypeOK, RunwayStatus, BatchState, Active, PathSet, PathStatus, PathFinal, BuildStatus, BuildFinal
<1>2. ControlTypeOK
  BY DEF Init, ControlTypeOK, Phase, Verdict
<1>3. CopyTypeOK
  BY DEF Init, CopyTypeOK, Unread, NoPaths, PathSet, PathStatus
<1>4. LoopTypeOK
  BY DEF Init, LoopTypeOK
<1> QED BY <1>1, <1>2, <1>3, <1>4 DEF TypeOK

\* Whatever the workers, the other stages and the faults do, the stores and
\* every worker's copies hold what the code's types say, and a run under way
\* names a batch.
THEOREM TypeCorrect == Spec => []TypeOK
<1>1. Init => TypeOK
  BY InitTypeOK
<1>2. TypeOK /\ [Next]_vars => TypeOK'
  BY NextTypeOK
<1> QED BY <1>1, <1>2, PTL DEF Spec

----------------------------------------------------------------------------
(* What a step does to a path set.                                          *)

\* Asking paths to stop neither makes nor loses a passed or a failed path, nor
\* adds one.
LEMMA MarkCancellingKeeps ==
    ASSUME NEW set \in PathSet, NEW keep, NEW p \in Path
    PROVE  \A s \in {"Passed", "Failed", "Absent"} : MarkCancelling(set, keep)[p] = s <=> set[p] = s
  BY DEF PathSet, MarkCancelling

\* The same of an open head's paths.
LEMMA FoldedKeeps ==
    ASSUME TypeOK, NEW w \in Worker, NEW h \in Batch
    PROVE  /\ Folded(w, h) \in PathSet
           /\ \A p \in Path, s \in {"Passed", "Failed", "Absent"} : Folded(w, h)[p] = s <=> sets[w][h][p] = s
<1>1. sets[w][h] \in PathSet
  BY DEF TypeOK, CopyTypeOK
<1> QED BY <1>1, SetOperations, MarkCancellingKeeps DEF Folded, CancelBroken

\* Folding builds in only passes a path whose build succeeded, and only fails
\* one whose build failed.
LEMMA UpdateKeeps ==
    ASSUME NEW set \in PathSet, NEW bld \in [Path -> BuildStatus], NEW p \in Path
    PROVE  LET new == UpdatePathsFromBuilds(set, bld)
           IN  /\ set[p] = "Passed" => new[p] = "Passed"
               /\ new[p] = "Passed" => set[p] = "Passed" \/ bld[p] = "Succeeded"
               /\ new[p] = "Absent" => set[p] = "Absent"
               /\ set[p] = "Absent" => new[p] = "Absent"
               /\ new[p] = "Failed" => set[p] = "Failed" \/ bld[p] = "Failed"
  BY DEF PathSet, PathStatus, PathLive, PathFinal, BuildStatus, BuildFinal, UpdatePathsFromBuilds,
         ObservedStatus, TerminalPathStatus

\* What dispatch saves for a head: a compare-and-swap that lost no passed path,
\* passed none, and added only well-formed ones.
LEMMA DispatchSaves ==
    ASSUME TypeOK, CopiesAreSound, NEW w \in Worker, NEW h \in Batch, Dispatch(w, h)
    PROVE  /\ build' = build
           /\ \A b \in Batch \ {h} : paths'[b] = paths[b]
           /\ \A p \in Path :
                 /\ paths[h][p] = "Passed" => paths'[h][p] = "Passed"
                 /\ paths'[h][p] = "Passed" => paths[h][p] = "Passed" \/ sets[w][h][p] = "Passed"
                 /\ paths'[h][p] # "Absent" => \/ paths[h][p] # "Absent" \/ sets[w][h][p] # "Absent"
                                               \/ WellFormed(p, h)
                 /\ paths'[h][p] = "Failed" => paths[h][p] = "Failed" \/ sets[w][h][p] = "Failed"
<1> DEFINE before == Folded(w, h)
<1>0. \A S : FundProposals(S) \subseteq SUBSET S /\ StopProposals(S) \subseteq SUBSET S
  BY DEF FundProposals, StopProposals
<1>1. PICK fund \in FundProposals({p \in Path : open[w] # {} /\ KeepBuild(h, p, before, snap[w])}),
           stop \in StopProposals({p \in Path : open[w] # {} /\ KeepCancel(h, p, before, snap[w])}) :
          LET set     == ApplyProposals(before, fund, stop)
              changed == h \in dirty[w] \/ set # sets[w][h]
              lost    == changed /\ paths[h] # orig[w][h]
          IN  /\ paths' = [paths EXCEPT ![h] = IF changed /\ ~lost THEN set ELSE @]
              /\ build' = [build EXCEPT ![h] = [p \in Path |->
                     IF ~lost /\ p \in fund /\ before[p] \in PathFinal THEN "None" ELSE @[p]]]
  BY DEF Dispatch
<1> DEFINE set == ApplyProposals(before, fund, stop)
<1>2. \A p \in Path : /\ p \in fund => WellFormed(p, h) /\ before[p] \notin PathFinal
                      /\ p \in stop => WellFormed(p, h) /\ before[p] \in PathLive
  BY <1>0 DEF KeepBuild, KeepCancel
<1>3. /\ before \in PathSet
      /\ \A p \in Path, s \in {"Passed", "Failed", "Absent"} : before[p] = s <=> sets[w][h][p] = s
  BY FoldedKeeps
<1> HIDE DEF before
<1>4. \A p \in Path : /\ set[p] = "Passed" <=> before[p] = "Passed"
                      /\ set[p] = "Failed" => before[p] = "Failed"
                      /\ set[p] # "Absent" => before[p] # "Absent" \/ WellFormed(p, h)
  BY <1>2, <1>3 DEF ApplyProposals, PathSet, PathFinal, PathLive
<1>5. build' = build
  <2>1. \A p \in Path : ~(p \in fund /\ before[p] \in PathFinal)
    BY <1>2
  <2>2. build \in [Batch -> [Path -> BuildStatus]]
    BY DEF TypeOK, StoreTypeOK
  <2> QED BY <1>1, <2>1, <2>2
<1>6. paths \in [Batch -> PathSet]
  BY DEF TypeOK, StoreTypeOK
<1>7. \/ paths' = paths
      \/ paths' = [paths EXCEPT ![h] = set] /\ paths[h] = orig[w][h]
  BY <1>1, <1>6
<1> HIDE DEF set
<1>8. \A b \in Batch \ {h} : paths'[b] = paths[b]
  BY <1>6, <1>7
<1>9. ASSUME NEW p \in Path
      PROVE  /\ paths[h][p] = "Passed" => paths'[h][p] = "Passed"
             /\ paths'[h][p] = "Passed" => paths[h][p] = "Passed" \/ sets[w][h][p] = "Passed"
             /\ paths'[h][p] # "Absent" => \/ paths[h][p] # "Absent" \/ sets[w][h][p] # "Absent"
                                           \/ WellFormed(p, h)
             /\ paths'[h][p] = "Failed" => paths[h][p] = "Failed" \/ sets[w][h][p] = "Failed"
  BY <1>3, <1>4, <1>6, <1>7 DEF CopiesAreSound
<1> QED BY <1>5, <1>8, <1>9

\* What finalize saves for a head it closes: its own copy, with paths asked to
\* stop, over the set that copy was read from.
SavesCopy(w, b, set) ==
    /\ set \in PathSet
    /\ \A p \in Path, s \in {"Passed", "Failed", "Absent"} : set[p] = s <=> sets[w][b][p] = s
    /\ sets' = [sets EXCEPT ![w][b] = set]
    /\ \/ UNCHANGED <<paths, orig>>
       \/ /\ paths[b] = orig[w][b]
          /\ paths' = [paths EXCEPT ![b] = set]
          /\ orig' = [orig EXCEPT ![w][b] = set]

\* A commit either saves the set or leaves the store alone.
LEMMA CommitSaves ==
    ASSUME TypeOK, NEW w \in Worker, NEW b \in Batch, NEW set, NEW v,
           Commit(w, b, set, v) \/ CommitLost(w, b, set)
    PROVE  \/ UNCHANGED <<paths, orig>>
           \/ /\ paths[b] = orig[w][b]
              /\ paths' = [paths EXCEPT ![b] = set]
              /\ orig' = [orig EXCEPT ![w][b] = set]
<1>1. CASE CommitLost(w, b, set)
  BY <1>1 DEF CommitLost
<1>2. CASE Commit(w, b, set, v)
  <2>1. CASE b \in dirty[w] \/ set # sets[w][b]
    BY <1>2, <2>1 DEF Commit
  <2>2. CASE ~(b \in dirty[w] \/ set # sets[w][b])
    BY <1>2, <2>2 DEF Commit, TypeOK, StoreTypeOK, CopyTypeOK
  <2> QED BY <2>1, <2>2
<1> QED BY <1>1, <1>2

\* So does each of the two steps of finalize that close a head.
LEMMA FinalizeSaves ==
    ASSUME TypeOK, NEW w \in Worker, NEW b \in Batch,
           FinalizeCancellation(w, b) \/ FinalizeHead(w, b)
    PROVE  \E set : SavesCopy(w, b, set)
<1>1. sets[w][b] \in PathSet
  BY DEF TypeOK, CopyTypeOK
<1>2. CASE FinalizeCancellation(w, b)
  <2> DEFINE set == CancelAll(sets[w][b])
  <2>1. /\ set \in PathSet
        /\ \A p \in Path, s \in {"Passed", "Failed", "Absent"} : set[p] = s <=> sets[w][b][p] = s
    BY <1>1, SetOperations, MarkCancellingKeeps DEF CancelAll
  <2>2. \/ Commit(w, b, set, "cancel") \/ CommitLost(w, b, set)
        \/ UNCHANGED <<paths, orig>>
    BY <1>2 DEF FinalizeCancellation
  <2>3. sets' = [sets EXCEPT ![w][b] = set]
    BY <1>2 DEF FinalizeCancellation
  <2> HIDE DEF set
  <2>4. \/ UNCHANGED <<paths, orig>>
        \/ /\ paths[b] = orig[w][b]
           /\ paths' = [paths EXCEPT ![b] = set]
           /\ orig' = [orig EXCEPT ![w][b] = set]
    BY <2>2, CommitSaves
  <2>5. SavesCopy(w, b, set)
    BY <2>1, <2>3, <2>4 DEF SavesCopy
  <2> QED BY <2>5
<1>3. CASE FinalizeHead(w, b)
  <2> DEFINE decision == Decide(b, Folded(w, b), snap[w])
             set      == IF decision = "land" THEN Supersede(Folded(w, b)) ELSE Folded(w, b)
  <2>1. /\ set \in PathSet
        /\ \A p \in Path, s \in {"Passed", "Failed", "Absent"} : set[p] = s <=> sets[w][b][p] = s
    BY FoldedKeeps, SetOperations, MarkCancellingKeeps DEF Supersede
  <2>2. Commit(w, b, set, decision) \/ CommitLost(w, b, set)
    BY <1>3 DEF FinalizeHead
  <2>3. sets' = [sets EXCEPT ![w][b] = set]
    BY <1>3 DEF FinalizeHead
  <2> HIDE DEF set, decision
  <2>4. \/ UNCHANGED <<paths, orig>>
        \/ /\ paths[b] = orig[w][b]
           /\ paths' = [paths EXCEPT ![b] = set]
           /\ orig' = [orig EXCEPT ![w][b] = set]
    BY <2>2, CommitSaves
  <2>5. SavesCopy(w, b, set)
    BY <2>1, <2>3, <2>4 DEF SavesCopy
  <2> QED BY <2>5
<1> QED BY <1>2, <1>3

\* A build that succeeded is done: no step takes it back.
BuildsAdvance == \A h \in Batch, p \in Path : build[h][p] = "Succeeded" => build'[h][p] = "Succeeded"

\* The copies after a step that does not write them: kept, or forgotten.
CopiesKept(w) == \/ UNCHANGED <<orig, sets>>
                 \/ /\ orig' = [orig EXCEPT ![w] = [b \in Batch |-> NoPaths]]
                    /\ sets' = [sets EXCEPT ![w] = [b \in Batch |-> NoPaths]]

\* Every step is one of five kinds, as far as path sets and builds go.
LEMMA StepKinds ==
    ASSUME TypeOK, [Next]_vars
    PROVE  \/ UNCHANGED <<paths, orig, sets>> /\ BuildsAdvance
           \/ \E w \in Worker : UNCHANGED <<paths, build>> /\ CopiesKept(w)
           \/ \E w \in Worker, h \in Batch : ReadPathSet(w, h)
           \/ \E w \in Worker, b \in Batch : FinalizeCancellation(w, b) \/ FinalizeHead(w, b)
           \/ \E w \in Worker, h \in Batch : Dispatch(w, h) /\ CopiesKept(w)
<1>1. CASE UNCHANGED vars
  BY <1>1 DEF vars, store, local, BuildsAdvance
<1>2. CASE StageStep
  <2>1. UNCHANGED <<paths, orig, sets>>
    <3>1. UNCHANGED paths
      BY <1>2 DEF StageStep, Promote, CancelBatch, LandBatch, LandSignal, DeadLetter, DeadLetterSpeculate,
                  RunwayMerge, StartPath, SkipPath, BuildSignal
    <3> QED BY <1>2, <3>1, StagesLeaveWorkers DEF local
  <2>2. \/ UNCHANGED build
        \/ \E h \in Batch, p \in Path, s \in BuildStatus :
              build[h][p] # "Succeeded" /\ build' = [build EXCEPT ![h][p] = s]
    BY <1>2, InputAssumption
       DEF StageStep, Promote, CancelBatch, LandBatch, LandSignal, DeadLetter, DeadLetterSpeculate,
           RunwayMerge, StartPath, SkipPath, BuildSignal, BuildStatus, BuildFinal
  <2>3. BuildsAdvance
    BY <2>2 DEF BuildsAdvance, TypeOK, StoreTypeOK
  <2> QED BY <2>1, <2>3
<1>3. ASSUME NEW w \in Worker, NEW b \in Batch, Deliver(w, b)
      PROVE  UNCHANGED <<paths, build, orig, sets>>
  BY <1>3 DEF Deliver, ReceiveTerminal, ReceiveLanding, ReceiveCreated, ReceiveOther, Receive
<1>4. ASSUME NEW w \in Worker, NEW rest, GoOn(w, rest) \/ Forget(w)
      PROVE  CopiesKept(w)
  BY <1>4 DEF GoOn, Forget, CopiesKept
<1>5. ASSUME NEW w \in Worker, Drop(w) \/ Finish(w) \/ PublishBuild(w)
      PROVE  UNCHANGED <<paths, build>> /\ CopiesKept(w)
  BY <1>4, <1>5 DEF Drop, Abandon, GiveUp, Finish, PublishBuild, store
<1>6. ASSUME NEW w \in Worker,
             \/ Expire(w) \/ Recoverable(w) \/ Transition(w) \/ TransitionLost(w) \/ Enact(w)
             \/ \E b \in Batch : ReadBatch(w, b) \/ AdmitCreated(w, b)
      PROVE  UNCHANGED <<paths, build, orig, sets>>
  BY <1>6 DEF Expire, Recoverable, Transition, TransitionLost, Enact, Resume, ReadBatch, AdmitCreated, store
<1>7. ASSUME NEW w \in Worker, NEW h \in Batch, Dispatch(w, h)
      PROVE  CopiesKept(w)
  <2>1. GoOn(w, Undispatched(w) \ {h}) \/ UNCHANGED <<orig, sets>>
    BY <1>7 DEF Dispatch
  <2> QED BY <1>4, <2>1 DEF CopiesKept
<1>8. UNCHANGED <<paths, build, orig, sets>> => UNCHANGED <<paths, orig, sets>> /\ BuildsAdvance
  BY DEF BuildsAdvance
<1> QED BY <1>1, <1>2, <1>3, <1>5, <1>6, <1>7, <1>8 DEF Next, RunStep, Drop

\* A copy a step does not write is what it was, or forgotten.
LEMMA KeptCopies ==
    ASSUME TypeOK, NEW w \in Worker, CopiesKept(w), NEW x \in Worker, NEW h \in Batch, NEW p \in Path
    PROVE  \/ orig'[x][h] = orig[x][h] /\ sets'[x][h] = sets[x][h]
           \/ orig'[x][h][p] = "Absent" /\ sets'[x][h][p] = "Absent"
<1>1. CASE UNCHANGED <<orig, sets>>
  BY <1>1
<1>2. CASE /\ orig' = [orig EXCEPT ![w] = [b \in Batch |-> NoPaths]]
           /\ sets' = [sets EXCEPT ![w] = [b \in Batch |-> NoPaths]]
  <2>1. CASE x = w
    BY <1>2, <2>1 DEF NoPaths, TypeOK, CopyTypeOK
  <2>2. CASE x # w
    BY <1>2, <2>2 DEF TypeOK, CopyTypeOK
  <2> QED BY <2>1, <2>2
<1> QED BY <1>1, <1>2 DEF CopiesKept

\* No step loses a passed path or a successful build: the writers that could,
\* a stale run among them, lose their compare-and-swap.
LEMMA PassedIsKept ==
    ASSUME TypeOK, CopiesAreSound, [Next]_vars
    PROVE  /\ BuildsAdvance
           /\ \A h \in Batch, p \in Path : paths[h][p] = "Passed" => paths'[h][p] = "Passed"
<1>1. CASE UNCHANGED <<paths, orig, sets>> /\ BuildsAdvance
  BY <1>1
<1>2. ASSUME NEW w \in Worker, UNCHANGED <<paths, build>>
      PROVE  BuildsAdvance /\ paths' = paths
  BY <1>2 DEF BuildsAdvance
<1>3. ASSUME NEW w \in Worker, NEW h \in Batch, ReadPathSet(w, h)
      PROVE  BuildsAdvance /\ paths' = paths
  BY <1>3 DEF ReadPathSet, store, BuildsAdvance
<1>4. ASSUME NEW w \in Worker, NEW b \in Batch, FinalizeCancellation(w, b) \/ FinalizeHead(w, b)
      PROVE  /\ BuildsAdvance
             /\ \A h \in Batch, p \in Path : paths[h][p] = "Passed" => paths'[h][p] = "Passed"
  <2>1. build' = build
    BY <1>4 DEF FinalizeCancellation, FinalizeHead
  <2>2. PICK set : SavesCopy(w, b, set)
    BY <1>4, FinalizeSaves
  <2>3. ASSUME NEW h \in Batch, NEW p \in Path, paths[h][p] = "Passed" PROVE paths'[h][p] = "Passed"
    <3>1. CASE paths' = paths
      BY <2>3, <3>1
    <3>2. CASE paths[b] = orig[w][b] /\ paths' = [paths EXCEPT ![b] = set]
      <4>1. CASE h # b
        BY <2>3, <3>2, <4>1 DEF TypeOK, StoreTypeOK
      <4>2. CASE h = b
        <5>1. sets[w][b][p] = "Passed"
          BY <2>3, <3>2, <4>2 DEF CopiesAreSound
        <5>2. set[p] = "Passed"
          BY <2>2, <5>1 DEF SavesCopy
        <5> QED BY <3>2, <4>2, <5>2 DEF TypeOK, StoreTypeOK
      <4> QED BY <4>1, <4>2
    <3> QED BY <2>2, <3>1, <3>2 DEF SavesCopy
  <2> QED BY <2>1, <2>3 DEF BuildsAdvance
<1>5. ASSUME NEW w \in Worker, NEW b \in Batch, Dispatch(w, b)
      PROVE  /\ BuildsAdvance
             /\ \A h \in Batch, p \in Path : paths[h][p] = "Passed" => paths'[h][p] = "Passed"
  BY <1>5, DispatchSaves DEF BuildsAdvance
<1> QED BY <1>1, <1>2, <1>3, <1>4, <1>5, StepKinds

\* What a worker holds stays sound: its copies never claim a pass the store
\* lacks, whatever the others write.
LEMMA CopiesStaySound ==
    ASSUME TypeOK, CopiesAreSound, [Next]_vars
    PROVE  CopiesAreSound'
<1>1. /\ BuildsAdvance
      /\ \A h \in Batch, p \in Path : paths[h][p] = "Passed" => paths'[h][p] = "Passed"
  BY PassedIsKept
<1>2. CASE UNCHANGED <<paths, orig, sets>> /\ BuildsAdvance
  BY <1>2 DEF CopiesAreSound, BuildsAdvance
<1>4. ASSUME NEW w \in Worker, UNCHANGED <<paths, build>>, CopiesKept(w)
      PROVE  CopiesAreSound'
  BY <1>4, KeptCopies DEF CopiesAreSound
<1>5. ASSUME NEW w \in Worker, NEW h \in Batch, ReadPathSet(w, h)
      PROVE  CopiesAreSound'
  <2> DEFINE new == UpdatePathsFromBuilds(paths[h], build[h])
  <2>1. /\ UNCHANGED <<paths, build>>
        /\ orig' = [orig EXCEPT ![w][h] = paths[h]]
        /\ sets' = [sets EXCEPT ![w][h] = new]
    BY <1>5 DEF ReadPathSet, store
  <2>2. \A p \in Path : /\ paths[h][p] = "Passed" => new[p] = "Passed"
                        /\ new[p] = "Passed" => paths[h][p] = "Passed" \/ build[h][p] = "Succeeded"
    BY UpdateKeeps DEF TypeOK, StoreTypeOK
  <2> HIDE DEF new
  <2> QED BY <2>1, <2>2 DEF CopiesAreSound, TypeOK, CopyTypeOK
<1>6. ASSUME NEW w \in Worker, NEW b \in Batch, FinalizeCancellation(w, b) \/ FinalizeHead(w, b)
      PROVE  CopiesAreSound'
  <2>1. build' = build
    BY <1>6 DEF FinalizeCancellation, FinalizeHead
  <2>2. PICK set : SavesCopy(w, b, set)
    BY <1>6, FinalizeSaves
  <2>3. CASE UNCHANGED <<paths, orig>>
    BY <2>1, <2>2, <2>3 DEF SavesCopy, CopiesAreSound, TypeOK, CopyTypeOK
  <2>4. CASE /\ paths[b] = orig[w][b]
             /\ paths' = [paths EXCEPT ![b] = set]
             /\ orig' = [orig EXCEPT ![w][b] = set]
    <3>1. \A x \in Worker, h \in Batch, p \in Path : sets'[x][h][p] = "Passed" => build'[h][p] = "Succeeded"
      BY <2>1, <2>2 DEF SavesCopy, CopiesAreSound, TypeOK, CopyTypeOK
    <3>2. \A h \in Batch, p \in Path : paths'[h][p] = "Passed" => build'[h][p] = "Succeeded"
      BY <2>1, <2>2, <2>4 DEF SavesCopy, CopiesAreSound, TypeOK, StoreTypeOK
    <3>3. ASSUME NEW x \in Worker, NEW h \in Batch, NEW p \in Path, orig'[x][h][p] = "Passed"
          PROVE  paths'[h][p] = "Passed" /\ sets'[x][h][p] = "Passed"
      <4>1. CASE x = w /\ h = b
        <5>1. orig'[w][b] = set /\ paths'[b] = set /\ sets'[w][b] = set
          BY <2>2, <2>4 DEF SavesCopy, TypeOK, StoreTypeOK, CopyTypeOK
        <5> QED BY <3>3, <4>1, <5>1
      <4>2. CASE ~(x = w /\ h = b)
        <5>1. orig'[x][h] = orig[x][h] /\ sets'[x][h] = sets[x][h]
          BY <2>2, <2>4, <4>2 DEF SavesCopy, TypeOK, StoreTypeOK, CopyTypeOK
        <5> QED BY <1>1, <3>3, <5>1 DEF CopiesAreSound
      <4> QED BY <4>1, <4>2
    <3> QED BY <3>1, <3>2, <3>3 DEF CopiesAreSound
  <2> QED BY <2>2, <2>3, <2>4 DEF SavesCopy
<1>7. ASSUME NEW w \in Worker, NEW b \in Batch, Dispatch(w, b), CopiesKept(w)
      PROVE  CopiesAreSound'
  <2>1. \A h \in Batch, p \in Path : paths'[h][p] = "Passed" => build'[h][p] = "Succeeded"
    BY <1>7, DispatchSaves DEF CopiesAreSound
  <2>2. build' = build
    BY <1>7, DispatchSaves
  <2>3. ASSUME NEW x \in Worker, NEW h \in Batch, NEW p \in Path
        PROVE  /\ orig'[x][h][p] = "Passed" => paths'[h][p] = "Passed" /\ sets'[x][h][p] = "Passed"
               /\ sets'[x][h][p] = "Passed" => build'[h][p] = "Succeeded"
    BY <1>1, <1>7, <2>2, KeptCopies DEF CopiesAreSound
  <2> QED BY <2>1, <2>3 DEF CopiesAreSound
<1> QED BY <1>2, <1>4, <1>5, <1>6, <1>7, StepKinds

\* Only well-formed paths are ever stored or held.
LEMMA SetsStayWellFormed ==
    ASSUME TypeOK, CopiesAreSound, SetsAreWellFormed, [Next]_vars
    PROVE  SetsAreWellFormed'
<1>1. CASE UNCHANGED <<paths, orig, sets>>
  BY <1>1 DEF SetsAreWellFormed, WellFormed
<1>2. ASSUME NEW w \in Worker, UNCHANGED paths, CopiesKept(w)
      PROVE  SetsAreWellFormed'
  BY <1>2, KeptCopies DEF SetsAreWellFormed, WellFormed
<1>3. ASSUME NEW w \in Worker, NEW h \in Batch, ReadPathSet(w, h)
      PROVE  SetsAreWellFormed'
  <2> DEFINE new == UpdatePathsFromBuilds(paths[h], build[h])
  <2>1. UNCHANGED paths /\ sets' = [sets EXCEPT ![w][h] = new]
    BY <1>3 DEF ReadPathSet, store
  <2>2. \A p \in Path : paths[h][p] = "Absent" => new[p] = "Absent"
    BY UpdateKeeps DEF TypeOK, StoreTypeOK
  <2> HIDE DEF new
  <2> QED BY <2>1, <2>2 DEF SetsAreWellFormed, WellFormed, TypeOK, CopyTypeOK
<1>4. ASSUME NEW w \in Worker, NEW b \in Batch, FinalizeCancellation(w, b) \/ FinalizeHead(w, b)
      PROVE  SetsAreWellFormed'
  <2>1. PICK set : SavesCopy(w, b, set)
    BY <1>4, FinalizeSaves
  <2>2. \A p \in Path : set[p] # "Absent" => WellFormed(p, b)
    BY <2>1 DEF SavesCopy, SetsAreWellFormed
  <2>3. paths' = paths \/ paths' = [paths EXCEPT ![b] = set]
    BY <2>1 DEF SavesCopy
  <2>4. sets' = [sets EXCEPT ![w][b] = set]
    BY <2>1 DEF SavesCopy
  <2>5. \A h \in Batch, p \in Path : paths'[h][p] # "Absent" => WellFormed(p, h)
    BY <2>2, <2>3 DEF SetsAreWellFormed, TypeOK, StoreTypeOK
  <2>6. \A x \in Worker, h \in Batch, p \in Path : sets'[x][h][p] # "Absent" => WellFormed(p, h)
    BY <2>2, <2>4 DEF SetsAreWellFormed, TypeOK, CopyTypeOK
  <2> QED BY <2>5, <2>6 DEF SetsAreWellFormed, WellFormed
<1>5. ASSUME NEW w \in Worker, NEW b \in Batch, Dispatch(w, b), CopiesKept(w)
      PROVE  SetsAreWellFormed'
  <2>1. \A h \in Batch, p \in Path : paths'[h][p] # "Absent" => WellFormed(p, h)
    BY <1>5, DispatchSaves DEF SetsAreWellFormed
  <2>2. \A x \in Worker, h \in Batch, p \in Path : sets'[x][h][p] # "Absent" => WellFormed(p, h)
    BY <1>5, KeptCopies DEF SetsAreWellFormed
  <2> QED BY <2>1, <2>2 DEF SetsAreWellFormed, WellFormed
<1> QED BY <1>1, <1>2, <1>3, <1>4, <1>5, StepKinds

----------------------------------------------------------------------------
(* What a step does to batch states and to a worker's view of them.         *)

\* Every change of a batch state is one of the moves of its lifecycle, and a
\* batch becomes landing only by a worker's transition.
LEMMA StateSteps ==
    ASSUME TypeOK, CommitIsSound, DispatchedIsDurable, RunwayWasAsked, [Next]_vars,
           NEW b \in Batch, state'[b] # state[b]
    PROVE  /\ <<state[b], state'[b]>> \in Moves
           /\ state'[b] = "Landing" =>
                 \E w \in Worker : pc[w] = "transition" /\ head[w] = b /\ verdict[w] = "land"
<1> USE DEF TypeOK, StoreTypeOK
<1>1. CASE StageStep
  <2>1. PICK c \in Batch : \/ Promote(c) \/ CancelBatch(c) \/ LandSignal(c) \/ DeadLetter(c)
                           \/ DeadLetterSpeculate(c)
    BY <1>1 DEF StageStep, LandBatch, RunwayMerge, StartPath, SkipPath, BuildSignal
  <2>2. CASE Promote(c) \/ CancelBatch(c)
    BY <2>1, <2>2 DEF Promote, CancelBatch, Moves, Cancellable
  <2>3. CASE DeadLetter(c) \/ DeadLetterSpeculate(c)
    <3>1. state[b] \in BatchState \ Final /\ state'[b] = "Failed"
      BY <2>1, <2>3 DEF DeadLetter, DeadLetterSpeculate, FailBatch
    <3> QED BY <3>1 DEF Moves
  <2>4. CASE LandSignal(c)
    <3>1. b = c /\ b \in land /\ state[b] \notin Final /\ state'[b] \in {"Succeeded", "Failed"}
      BY <2>1, <2>4 DEF LandSignal, RunwayWasAsked
    <3>2. state[b] = "Landing"
      BY <3>1 DEF DispatchedIsDurable, Final
    <3>3. state[b] \in BatchState \ Final
      BY <3>1
    <3> QED BY <3>1, <3>2, <3>3 DEF Moves
  <2> QED BY <2>1, <2>2, <2>3, <2>4
<1>2. ASSUME NEW w \in Worker, NEW c \in Batch, Deliver(w, c) \/ AdmitCreated(w, c)
      PROVE  state[b] = "Created" /\ state'[b] = "Speculating"
  BY <1>2 DEF Deliver, ReceiveTerminal, ReceiveLanding, ReceiveCreated, ReceiveOther, AdmitCreated
<1>3. ASSUME NEW w \in Worker, Transition(w)
      PROVE  /\ <<state[b], state'[b]>> \in Moves
             /\ state'[b] = "Landing" => pc[w] = "transition" /\ head[w] = b /\ verdict[w] = "land"
  <2>1. head[w] = b /\ state'[b] = TargetState(verdict[w]) /\ pc[w] = "transition"
    BY <1>3 DEF Transition
  <2>2. /\ verdict[w] \in {"land", "fail", "cancel"}
        /\ state[b] = IF verdict[w] = "cancel" THEN "Cancelling" ELSE "Speculating"
    BY <1>3, <2>1 DEF Transition, CommitIsSound
  <2> QED BY <2>1, <2>2 DEF TargetState, Moves, BatchState, Active, Final
<1>4. ASSUME NEW w \in Worker,
             \/ Drop(w) \/ Expire(w) \/ Recoverable(w) \/ TransitionLost(w) \/ Enact(w)
             \/ PublishBuild(w) \/ Finish(w)
             \/ \E c \in Batch : \/ ReadBatch(w, c) \/ ReadPathSet(w, c) \/ FinalizeCancellation(w, c)
                                 \/ FinalizeHead(w, c) \/ Dispatch(w, c)
      PROVE  state' = state
  BY <1>4 DEF Drop, Abandon, GiveUp, Expire, Recoverable, TransitionLost, Enact, PublishBuild, Finish, ReadBatch,
              ReadPathSet, FinalizeCancellation, FinalizeHead, Dispatch, store
<1>5. CASE UNCHANGED vars
  BY <1>5 DEF vars, store
<1>6. <<"Created", "Speculating">> \in Moves
  BY DEF Moves
<1> QED BY <1>1, <1>2, <1>3, <1>4, <1>5, <1>6 DEF Next, RunStep, Drop

\* A final state is never left: not by a stale run, whose compare-and-swap
\* fails, nor by cancel, landsignal or a dead-letter consumer.
LEMMA FinalIsKept ==
    ASSUME TypeOK, CommitIsSound, DispatchedIsDurable, RunwayWasAsked, [Next]_vars,
           NEW b \in Batch, state[b] \in Final
    PROVE  state'[b] = state[b]
  BY StateSteps DEF Final, Moves

\* What a worker's snapshot says of a batch is what it said, what the store
\* says, or nothing final.
LEMMA SnapSteps ==
    ASSUME TypeOK, [Next]_vars, NEW x \in Worker, NEW b \in Batch
    PROVE  snap'[x][b] \in {snap[x][b], state'[b], "Unread", "Speculating"}
<1> USE DEF TypeOK, CopyTypeOK
<1>1. ASSUME NEW w \in Worker, Forget(w)
      PROVE  snap'[x][b] \in {snap[x][b], "Unread"}
  BY <1>1 DEF Forget, Unread
<1>2. CASE UNCHANGED snap
  BY <1>2
<1>3. CASE StageStep
  BY <1>3, StagesLeaveWorkers DEF local
<1>4. ASSUME NEW w \in Worker, NEW rest, GoOn(w, rest)
      PROVE  snap'[x][b] \in {snap[x][b], "Unread"}
  <2>1. Forget(w) \/ UNCHANGED snap BY <1>4 DEF GoOn
  <2> QED BY <1>1, <2>1
<1>5. ASSUME NEW w \in Worker, Drop(w) \/ Finish(w) \/ PublishBuild(w)
      PROVE  snap'[x][b] \in {snap[x][b], "Unread"}
  BY <1>1, <1>4, <1>5 DEF Drop, Abandon, GiveUp, Finish, PublishBuild
<1>6. ASSUME NEW w \in Worker, NEW c \in Batch, Dispatch(w, c)
      PROVE  snap'[x][b] \in {snap[x][b], "Unread"}
  <2>1. GoOn(w, Undispatched(w) \ {c}) \/ UNCHANGED snap BY <1>6 DEF Dispatch
  <2> QED BY <1>4, <2>1
<1>7. ASSUME NEW w \in Worker,
             \/ Expire(w) \/ Recoverable(w) \/ TransitionLost(w) \/ Enact(w)
             \/ \E c \in Batch : \/ Deliver(w, c) \/ ReadPathSet(w, c) \/ FinalizeCancellation(w, c)
                                 \/ FinalizeHead(w, c)
      PROVE  UNCHANGED snap
  BY <1>7 DEF Expire, Recoverable, TransitionLost, Enact, Resume, Deliver, ReceiveTerminal, ReceiveLanding,
              ReceiveCreated, ReceiveOther, Receive, ReadPathSet, FinalizeCancellation, FinalizeHead
<1>8. ASSUME NEW w \in Worker, NEW c \in Batch, ReadBatch(w, c)
      PROVE  snap'[x][b] \in {snap[x][b], state'[b]}
  BY <1>8 DEF ReadBatch, store
<1>9. ASSUME NEW w \in Worker, NEW c \in Batch, AdmitCreated(w, c)
      PROVE  snap'[x][b] \in {snap[x][b], "Speculating"}
  BY <1>9 DEF AdmitCreated
<1>10. ASSUME NEW w \in Worker, Transition(w)
       PROVE  snap'[x][b] \in {snap[x][b], state'[b]}
  <2>1. head[w] \in Batch
    BY <1>10 DEF Transition, ControlTypeOK
  <2> QED BY <1>10, <2>1 DEF Transition, StoreTypeOK
<1>11. CASE UNCHANGED vars
  BY <1>11 DEF vars, local
<1> QED BY <1>2, <1>3, <1>5, <1>6, <1>7, <1>8, <1>9, <1>10, <1>11 DEF Next, RunStep, Drop

\* A worker never believes a batch final that is not.
LEMMA SnapStaysCurrent ==
    ASSUME TypeOK, SnapIsCurrent, CommitIsSound, DispatchedIsDurable, RunwayWasAsked, [Next]_vars
    PROVE  SnapIsCurrent'
<1>1. ASSUME NEW x \in Worker, NEW b \in Batch, snap'[x][b] \in Final
      PROVE  state'[b] = snap'[x][b]
  <2>1. snap'[x][b] \in {snap[x][b], state'[b]}
    BY <1>1, SnapSteps DEF Final
  <2>2. CASE snap'[x][b] = snap[x][b]
    BY <1>1, <2>2, FinalIsKept DEF SnapIsCurrent
  <2> QED BY <2>1, <2>2
<1> QED BY <1>1 DEF SnapIsCurrent

----------------------------------------------------------------------------
(* What a step does to the heads a worker has open.                         *)

\* A worker's view is in order: what CleanIsUnchanged and OpenIsSpeculating say
\* of one worker.
ViewInOrder(w) ==
    /\ \A h \in Batch : sets[w][h] # orig[w][h] /\ h \notin dirty[w] =>
          pc[w] \notin {"idle", "batches", "paths"} /\ h \notin open[w] /\ snap[w][h] # "Created"
    /\ \A h \in open[w] : snap[w][h] = "Speculating"

\* A worker whose variables do not change keeps its view in order.
LEMMA ViewUnchanged ==
    ASSUME NEW x \in Worker, ViewInOrder(x),
           pc'[x] = pc[x], snap'[x] = snap[x], orig'[x] = orig[x], sets'[x] = sets[x],
           dirty'[x] = dirty[x], open'[x] = open[x]
    PROVE  ViewInOrder(x)'
  BY DEF ViewInOrder

\* A run that is over holds nothing.
LEMMA ForgetView ==
    ASSUME TypeOK, \A x \in Worker : ViewInOrder(x), NEW w \in Worker, Forget(w), NEW x \in Worker
    PROVE  ViewInOrder(x)'
<1> USE DEF TypeOK, ControlTypeOK, CopyTypeOK, LoopTypeOK
<1>1. CASE x = w
  <2>1. sets'[w] = orig'[w] /\ open'[w] = {}
    BY DEF Forget
  <2> QED BY <1>1, <2>1 DEF ViewInOrder
<1>2. CASE x # w
  BY <1>2, ViewUnchanged DEF Forget
<1> QED BY <1>1, <1>2

\* Taking and losing a message, and the steps of a run that only read.
LEMMA ReadingView ==
    ASSUME TypeOK, \A x \in Worker : ViewInOrder(x), NEW w \in Worker, NEW x \in Worker,
           \/ Expire(w)
           \/ \E b \in Batch : Deliver(w, b) \/ ReadBatch(w, b) \/ ReadPathSet(w, b) \/ AdmitCreated(w, b)
    PROVE  ViewInOrder(x)'
<1> USE DEF TypeOK, ControlTypeOK, CopyTypeOK, LoopTypeOK
<1>1. CASE Expire(w)
  BY <1>1, ViewUnchanged DEF Expire
<1>2. ASSUME NEW b \in Batch, Deliver(w, b) PROVE ViewInOrder(x)'
  <2>1. Receive(w, b)
    BY <1>2 DEF Deliver, ReceiveTerminal, ReceiveLanding, ReceiveCreated, ReceiveOther
  <2> QED BY <2>1 DEF Receive, ViewInOrder
<1>3. ASSUME NEW b \in Batch, ReadBatch(w, b) PROVE ViewInOrder(x)'
  <2>1. CASE x # w
    BY <1>3, <2>1, ViewUnchanged DEF ReadBatch, EnterFinalize
  <2>2. CASE x = w
    <3>1. \A h \in Batch : sets[w][h] # orig[w][h] => h \in dirty[w]
      BY <1>3 DEF ReadBatch, ViewInOrder
    <3>2. UNCHANGED <<sets, orig, dirty>>
      BY <1>3 DEF ReadBatch
    <3>3. \A h \in open'[w] : snap'[w][h] = "Speculating"
      <4>1. open'[w] = open[w] \/ \A h \in open'[w] : snap'[w][h] = "Speculating"
        BY <1>3 DEF ReadBatch, EnterFinalize, OpenHeads
      <4>2. \A h \in open[w] : h # b
        BY <1>3 DEF ReadBatch, ViewInOrder
      <4>3. \A h \in open[w] : snap'[w][h] = snap[w][h]
        BY <1>3, <4>2 DEF ReadBatch
      <4> QED BY <4>1, <4>3 DEF ViewInOrder
    <3> QED BY <2>2, <3>1, <3>2, <3>3 DEF ViewInOrder
  <2> QED BY <2>1, <2>2
<1>4. ASSUME NEW b \in Batch, ReadPathSet(w, b) PROVE ViewInOrder(x)'
  <2>1. CASE x # w
    BY <1>4, <2>1, ViewUnchanged DEF ReadPathSet, EnterFinalize
  <2>2. CASE x = w
    <3>1. \A h \in Batch : sets[w][h] # orig[w][h] => h \in dirty[w]
      BY <1>4 DEF ReadPathSet, ViewInOrder
    <3>2. \A h \in Batch : sets'[w][h] # orig'[w][h] => h \in dirty'[w]
      BY <1>4, <3>1 DEF ReadPathSet
    <3>3. \A h \in open'[w] : snap'[w][h] = "Speculating"
      BY <1>4 DEF ReadPathSet, EnterFinalize, OpenHeads, ViewInOrder
    <3> QED BY <2>2, <3>2, <3>3 DEF ViewInOrder
  <2> QED BY <2>1, <2>2
<1>5. ASSUME NEW b \in Batch, AdmitCreated(w, b) PROVE ViewInOrder(x)'
  <2>1. CASE x # w
    BY <1>5, <2>1, ViewUnchanged DEF AdmitCreated
  <2>2. CASE x = w
    <3>1. UNCHANGED <<sets, orig, dirty, pc>> /\ pc[w] = "finalize" /\ snap[w][b] = "Created"
      BY <1>5 DEF AdmitCreated
    <3>2. sets[w][b] # orig[w][b] => b \in dirty[w]
      BY <3>1 DEF ViewInOrder
    <3>3. \/ UNCHANGED <<snap, open>>
          \/ /\ snap' = [snap EXCEPT ![w][b] = "Speculating"]
             /\ open' = [open EXCEPT ![w] = @ \cup {b}]
      BY <1>5 DEF AdmitCreated
    <3> QED BY <2>2, <3>1, <3>2, <3>3 DEF ViewInOrder
  <2> QED BY <2>1, <2>2
<1> QED BY <1>1, <1>2, <1>3, <1>4, <1>5

\* The steps of finalize, of the commit it starts, and of dispatch.
LEMMA WritingView ==
    ASSUME TypeOK, CommitIsSound, \A x \in Worker : ViewInOrder(x), NEW w \in Worker, NEW x \in Worker,
           \/ \E b \in Batch : FinalizeCancellation(w, b) \/ FinalizeHead(w, b) \/ Dispatch(w, b)
           \/ Recoverable(w) \/ Transition(w) \/ TransitionLost(w) \/ Enact(w) \/ PublishBuild(w)
    PROVE  ViewInOrder(x)'
<1> USE DEF TypeOK, ControlTypeOK, CopyTypeOK, LoopTypeOK
<1>1. ASSUME NEW b \in Batch, FinalizeCancellation(w, b) PROVE ViewInOrder(x)'
  <2>1. \/ UNCHANGED <<pc, orig>>
        \/ /\ pc' \in {[pc EXCEPT ![w] = "transition"], [pc EXCEPT ![w] = "recover"]}
           /\ orig' = orig \/ orig' = [orig EXCEPT ![w][b] = CancelAll(sets[w][b])]
    <3>1. ASSUME Commit(w, b, CancelAll(sets[w][b]), "cancel")
          PROVE  /\ pc' \in {[pc EXCEPT ![w] = "transition"], [pc EXCEPT ![w] = "recover"]}
                 /\ orig' = orig \/ orig' = [orig EXCEPT ![w][b] = CancelAll(sets[w][b])]
      <4>1. orig' = orig \/ orig' = [orig EXCEPT ![w][b] = CancelAll(sets[w][b])]
        BY <3>1, CommitSaves
      <4> QED BY <3>1, <4>1 DEF Commit
    <3> QED BY <1>1, <3>1 DEF FinalizeCancellation, CommitLost
  <2>2. /\ sets' = [sets EXCEPT ![w][b] = CancelAll(sets[w][b])]
        /\ UNCHANGED <<snap, open>> /\ pc[w] = "finalize" /\ snap[w][b] = "Cancelling"
    BY <1>1 DEF FinalizeCancellation
  <2>3. \A y \in Worker, h \in Batch : (y # w \/ h # b) => (h \in dirty'[y] <=> h \in dirty[y])
    BY <1>1 DEF FinalizeCancellation
  <2>4. pc'[x] = pc[x] \/ (x = w /\ pc'[x] \in {"transition", "recover"})
    BY <2>1
  <2>5. ASSUME NEW h \in Batch, sets'[x][h] # orig'[x][h], h \notin dirty'[x]
        PROVE  pc'[x] \notin {"idle", "batches", "paths"} /\ h \notin open'[x] /\ snap'[x][h] # "Created"
    <3>1. CASE x = w /\ h = b
      BY <2>2, <2>4, <3>1 DEF ViewInOrder
    <3>2. CASE x # w \/ h # b
      <4>1. sets'[x][h] = sets[x][h] /\ orig'[x][h] = orig[x][h]
        BY <2>1, <2>2, <3>2
      <4>2. h \notin dirty[x]
        BY <2>3, <2>5, <3>2
      <4> QED BY <2>2, <2>4, <2>5, <4>1, <4>2 DEF ViewInOrder
    <3> QED BY <3>1, <3>2
  <2> QED BY <2>2, <2>5 DEF ViewInOrder
<1>2. ASSUME NEW b \in Batch, FinalizeHead(w, b) PROVE ViewInOrder(x)'
  <2> DEFINE set == IF Decide(b, Folded(w, b), snap[w]) = "land" THEN Supersede(Folded(w, b)) ELSE Folded(w, b)
  <2>1. \/ UNCHANGED <<pc, orig>>
        \/ /\ pc' \in {[pc EXCEPT ![w] = "transition"], [pc EXCEPT ![w] = "recover"]}
           /\ orig' = orig \/ orig' = [orig EXCEPT ![w][b] = set]
    <3>1. PICK v : Commit(w, b, set, v) \/ CommitLost(w, b, set)
      BY <1>2 DEF FinalizeHead
    <3> HIDE DEF set
    <3>2. ASSUME Commit(w, b, set, v)
          PROVE  /\ pc' \in {[pc EXCEPT ![w] = "transition"], [pc EXCEPT ![w] = "recover"]}
                 /\ orig' = orig \/ orig' = [orig EXCEPT ![w][b] = set]
      <4>1. orig' = orig \/ orig' = [orig EXCEPT ![w][b] = set]
        BY <3>2, CommitSaves
      <4> QED BY <3>2, <4>1 DEF Commit
    <3> QED BY <3>1, <3>2 DEF CommitLost
  <2>2. /\ sets' = [sets EXCEPT ![w][b] = set]
        /\ dirty' = [dirty EXCEPT ![w] = @ \ {b}]
        /\ open' = [open EXCEPT ![w] = @ \ {b}]
        /\ UNCHANGED snap /\ pc[w] = "finalize" /\ snap[w][b] = "Speculating"
    BY <1>2 DEF FinalizeHead, ViewInOrder
  <2> HIDE DEF set
  <2>3. pc'[x] = pc[x] \/ (x = w /\ pc'[x] \in {"transition", "recover"})
    BY <2>1
  <2>4. ASSUME NEW h \in Batch, sets'[x][h] # orig'[x][h], h \notin dirty'[x]
        PROVE  pc'[x] \notin {"idle", "batches", "paths"} /\ h \notin open'[x] /\ snap'[x][h] # "Created"
    <3>1. CASE x = w /\ h = b
      BY <2>2, <2>3, <3>1
    <3>2. CASE x # w \/ h # b
      <4>1. sets'[x][h] = sets[x][h] /\ orig'[x][h] = orig[x][h]
        BY <2>1, <2>2, <3>2
      <4>2. h \notin dirty[x] /\ (h \in open'[x] => h \in open[x])
        BY <2>2, <2>4, <3>2
      <4> QED BY <2>2, <2>3, <2>4, <4>1, <4>2 DEF ViewInOrder
    <3> QED BY <3>1, <3>2
  <2>5. \A h \in open'[x] : h \in open[x]
    BY <2>2
  <2> QED BY <2>2, <2>4, <2>5 DEF ViewInOrder
<1>3. ASSUME NEW rest, GoOn(w, rest) PROVE ViewInOrder(x)'
  <2>1. CASE Forget(w) BY <2>1, ForgetView
  <2>2. CASE /\ pc' = [pc EXCEPT ![w] = "dispatch"]
             /\ UNCHANGED <<snap, orig, sets, dirty, open>>
    BY <2>2 DEF ViewInOrder
  <2> QED BY <1>3, <2>1, <2>2 DEF GoOn
<1>4. ASSUME NEW b \in Batch, Dispatch(w, b) PROVE ViewInOrder(x)'
  <2>1. \/ GoOn(w, Undispatched(w) \ {b})
        \/ /\ pc' = [pc EXCEPT ![w] = "publish"]
           /\ UNCHANGED <<snap, orig, sets, dirty, open>>
    BY <1>4 DEF Dispatch
  <2>2. CASE /\ pc' = [pc EXCEPT ![w] = "publish"]
             /\ UNCHANGED <<snap, orig, sets, dirty, open>>
    BY <2>2 DEF ViewInOrder
  <2> QED BY <1>3, <2>1, <2>2
<1>5. CASE PublishBuild(w)
  BY <1>3, <1>5 DEF PublishBuild
<1>6. CASE Recoverable(w)
  BY <1>6 DEF Recoverable, ViewInOrder
<1>7. CASE TransitionLost(w) \/ Enact(w)
  <2>1. /\ pc' = [pc EXCEPT ![w] = "finalize"]
        /\ UNCHANGED <<snap, orig, sets, dirty, open>>
    BY <1>7 DEF TransitionLost, Enact, Resume
  <2> QED BY <2>1 DEF ViewInOrder
<1>8. CASE Transition(w)
  <2>1. /\ pc' = [pc EXCEPT ![w] = "enact"]
        /\ UNCHANGED <<orig, sets, dirty, open>>
        /\ head[w] \in Batch \ open[w]
    BY <1>8 DEF Transition, CommitIsSound
  <2>2. \A h \in Batch : \/ snap'[x][h] = snap[x][h]
                         \/ x = w /\ h = head[w] /\ snap'[x][h] \in {"Failed", "Cancelled"}
    <3>1. verdict[w] \in {"land", "fail", "cancel"}
      BY <1>8 DEF Transition, CommitIsSound
    <3> QED BY <1>8, <2>1, <3>1 DEF Transition, TargetState
  <2>3. \A h \in open'[x] : snap'[x][h] = "Speculating"
    <3>1. \A h \in open[x] : h \in Batch /\ ~(x = w /\ h = head[w])
      BY <2>1
    <3> QED BY <2>1, <2>2, <3>1 DEF ViewInOrder
  <2>4. pc'[x] = pc[x] \/ pc'[x] = "enact"
    BY <2>1
  <2>5. ASSUME NEW h \in Batch, sets'[x][h] # orig'[x][h], h \notin dirty'[x]
        PROVE  pc'[x] \notin {"idle", "batches", "paths"} /\ h \notin open'[x] /\ snap'[x][h] # "Created"
    <3>1. sets[x][h] # orig[x][h] /\ h \notin dirty[x] /\ open'[x] = open[x]
      BY <2>1, <2>5
    <3>2. pc[x] \notin {"idle", "batches", "paths"} /\ h \notin open[x] /\ snap[x][h] # "Created"
      BY <3>1 DEF ViewInOrder
    <3>3. snap'[x][h] # "Created"
      BY <2>2, <3>2
    <3> QED BY <2>4, <3>1, <3>2, <3>3
  <2> QED BY <2>3, <2>5 DEF ViewInOrder
<1> QED BY <1>1, <1>2, <1>4, <1>5, <1>6, <1>7, <1>8

\* Every worker's view stays in order.
LEMMA ViewStaysInOrder ==
    ASSUME TypeOK, CommitIsSound, CleanIsUnchanged, OpenIsSpeculating, [Next]_vars
    PROVE  CleanIsUnchanged' /\ OpenIsSpeculating'
<1>1. \A x \in Worker : ViewInOrder(x)
  BY DEF CleanIsUnchanged, OpenIsSpeculating, ViewInOrder
<1>2. ASSUME NEW x \in Worker PROVE ViewInOrder(x)'
  <2>1. CASE UNCHANGED local
    BY <1>1, <2>1, ViewUnchanged DEF local
  <2>2. CASE StageStep
    <3>1. UNCHANGED local
      BY <2>2, StagesLeaveWorkers
    <3> QED BY <2>1, <3>1
  <2>3. ASSUME NEW w \in Worker, Drop(w) \/ Finish(w) PROVE ViewInOrder(x)'
    BY <1>1, <2>3, ForgetView DEF Drop, Abandon, GiveUp, Finish
  <2>4. ASSUME NEW w \in Worker, Expire(w) \/ RunStep(w) \/ \E b \in Batch : Deliver(w, b), ~Finish(w)
        PROVE  ViewInOrder(x)'
    BY <1>1, <2>4, ReadingView, WritingView DEF RunStep
  <2> QED BY <2>1, <2>2, <2>3, <2>4 DEF Next, vars, Drop
<1> QED BY <1>2 DEF CleanIsUnchanged, OpenIsSpeculating, ViewInOrder

----------------------------------------------------------------------------
(* A commit under way, and what it lands.                                   *)

\* A worker is about to move a head because it was already, or because one of
\* the two steps of finalize just committed the outcome.
LEMMA CommitSteps ==
    ASSUME TypeOK, [Next]_vars, NEW x \in Worker, pc'[x] \in {"recover", "transition"}
    PROVE  \/ /\ pc[x] \in {"recover", "transition"}
              /\ head'[x] = head[x] /\ verdict'[x] = verdict[x] /\ snap'[x] = snap[x] /\ open'[x] = open[x]
           \/ \E b \in Batch : /\ FinalizeCancellation(x, b)
                               /\ head'[x] = b /\ verdict'[x] = "cancel"
           \/ \E b \in Batch : /\ FinalizeHead(x, b)
                               /\ head'[x] = b /\ verdict'[x] = Decide(b, Folded(x, b), snap[x])
<1> DEFINE Same == /\ pc[x] \in {"recover", "transition"}
                   /\ head'[x] = head[x] /\ verdict'[x] = verdict[x] /\ snap'[x] = snap[x]
                   /\ open'[x] = open[x]
<1> USE DEF TypeOK, ControlTypeOK, CopyTypeOK, LoopTypeOK
<1>1. CASE UNCHANGED local
  BY <1>1 DEF local
<1>2. CASE StageStep
  <2>1. UNCHANGED local
    BY <1>2, StagesLeaveWorkers
  <2> QED BY <1>1, <2>1
<1>3. ASSUME NEW w \in Worker, Forget(w) PROVE Same
  BY <1>3 DEF Forget
<1>4. ASSUME NEW w \in Worker, NEW rest, GoOn(w, rest) PROVE Same
  <2>1. CASE Forget(w) BY <1>3, <2>1
  <2>2. CASE /\ pc' = [pc EXCEPT ![w] = "dispatch"]
             /\ head' = [head EXCEPT ![w] = "none"]
             /\ UNCHANGED <<snap, open, verdict>>
    BY <2>2
  <2> QED BY <1>4, <2>1, <2>2 DEF GoOn
<1>5. ASSUME NEW w \in Worker, NEW b \in Batch, Dispatch(w, b) PROVE Same
  <2>1. \/ GoOn(w, Undispatched(w) \ {b})
        \/ /\ pc' = [pc EXCEPT ![w] = "publish"]
           /\ head' = [head EXCEPT ![w] = b]
           /\ UNCHANGED <<snap, open, verdict>>
    BY <1>5 DEF Dispatch
  <2> QED BY <1>4, <2>1
<1>6. ASSUME NEW w \in Worker, Drop(w) \/ Finish(w) \/ PublishBuild(w) PROVE Same
  BY <1>3, <1>4, <1>6 DEF Drop, Abandon, GiveUp, Finish, PublishBuild
<1>7. ASSUME NEW w \in Worker, Expire(w) PROVE Same
  BY <1>7 DEF Expire
<1>8. ASSUME NEW w \in Worker, NEW b \in Batch, Deliver(w, b) PROVE Same
  <2>1. Receive(w, b)
    BY <1>8 DEF Deliver, ReceiveTerminal, ReceiveLanding, ReceiveCreated, ReceiveOther
  <2> QED BY <2>1 DEF Receive
<1>9. ASSUME NEW w \in Worker, NEW b \in Batch, ReadBatch(w, b) PROVE Same
  BY <1>9 DEF ReadBatch, EnterFinalize
<1>10. ASSUME NEW w \in Worker, NEW b \in Batch, ReadPathSet(w, b) PROVE Same
  BY <1>10 DEF ReadPathSet, EnterFinalize
<1>11. ASSUME NEW w \in Worker, NEW b \in Batch, AdmitCreated(w, b) PROVE Same
  BY <1>11 DEF AdmitCreated
<1>12. ASSUME NEW w \in Worker, Recoverable(w) PROVE Same
  BY <1>12 DEF Recoverable
<1>13. ASSUME NEW w \in Worker, Transition(w) PROVE Same
  BY <1>13 DEF Transition
<1>14. ASSUME NEW w \in Worker, TransitionLost(w) \/ Enact(w) PROVE Same
  <2>1. Resume(w) BY <1>14 DEF TransitionLost, Enact
  <2> QED BY <2>1 DEF Resume
<1>15. ASSUME NEW w \in Worker, NEW b \in Batch, FinalizeCancellation(w, b)
       PROVE  Same \/ (x = w /\ head'[x] = b /\ verdict'[x] = "cancel")
  <2>1. /\ UNCHANGED <<snap, open>> /\ pc[w] = "finalize"
        /\ \/ UNCHANGED <<pc, head, verdict>>
           \/ Commit(w, b, CancelAll(sets[w][b]), "cancel")
    BY <1>15 DEF FinalizeCancellation, CommitLost
  <2> QED BY <2>1 DEF Commit
<1>16. ASSUME NEW w \in Worker, NEW b \in Batch, FinalizeHead(w, b)
       PROVE  Same \/ (x = w /\ head'[x] = b /\ verdict'[x] = Decide(b, Folded(x, b), snap[x]))
  <2>1. PICK set : /\ UNCHANGED snap /\ pc[w] = "finalize" /\ open' = [open EXCEPT ![w] = @ \ {b}]
                   /\ \/ UNCHANGED <<pc, head, verdict>>
                      \/ Commit(w, b, set, Decide(b, Folded(w, b), snap[w]))
    BY <1>16 DEF FinalizeHead, CommitLost
  <2>2. CASE UNCHANGED <<pc, head, verdict>>
    BY <2>1, <2>2
  <2>3. CASE Commit(w, b, set, Decide(b, Folded(w, b), snap[w]))
    <3>1. head'[w] = b /\ verdict'[w] = Decide(b, Folded(w, b), snap[w])
      BY <2>3 DEF Commit
    <3>2. x # w => Same
      BY <2>1, <2>3 DEF Commit
    <3> QED BY <2>3, <3>1, <3>2
  <2> QED BY <2>1, <2>2, <2>3
<1> QED BY <1>1, <1>2, <1>5, <1>6, <1>7, <1>8, <1>9, <1>10, <1>11, <1>12, <1>13, <1>14, <1>15, <1>16
        DEF Next, RunStep, Drop, vars

\* The heart of the argument: when finalize commits a land, the stored set
\* covers every outcome the worker's snapshot leaves open, even if the run
\* itself wrote nothing.
LEMMA LandCommitCovers ==
    ASSUME TypeOK, CopiesAreSound, SetsAreWellFormed, CleanIsUnchanged, NEW w \in Worker, NEW h \in Batch,
           FinalizeHead(w, h), pc'[w] \in {"recover", "transition"},
           Decide(h, Folded(w, h), snap[w]) = "land"
    PROVE  Covers(h, paths'[h], snap[w])
<1> DEFINE set == Supersede(Folded(w, h))
<1>1. snap[w] \in Snapshot /\ paths[h] \in PathSet /\ sets[w][h] \in PathSet
  BY DEF TypeOK, StoreTypeOK, CopyTypeOK, Snapshot
<1>2. Folded(w, h) \in PathSet
  BY FoldedKeeps
<1>3. \A p \in Path : Folded(w, h)[p] = "Passed" => sets[w][h][p] = "Passed"
  BY FoldedKeeps
<1>4. Covers(h, Folded(w, h), snap[w])
  <2>1. \A p \in Path : Folded(w, h)[p] = "Passed" => WellFormed(p, h)
    BY <1>3 DEF SetsAreWellFormed
  <2> QED BY <1>1, <1>2, <2>1, LandIsCovered
<1>5. Commit(w, h, set, "land")
  <2>1. pc[w] = "finalize" /\ (Commit(w, h, set, "land") \/ CommitLost(w, h, set))
    BY DEF FinalizeHead
  <2> QED BY <2>1 DEF CommitLost
<1>6. CASE h \in dirty[w] \/ set # sets[w][h]
  <2>1. set \in PathSet /\ \A p \in Path : Folded(w, h)[p] = "Passed" => set[p] = "Passed"
    BY <1>2, SetOperations, MarkCancellingKeeps DEF Supersede
  <2>2. paths'[h] = set
    BY <1>5, <1>6 DEF Commit, TypeOK, StoreTypeOK
  <2> HIDE DEF set
  <2> QED BY <1>1, <1>2, <1>4, <2>1, <2>2, CoversIsStable
<1>7. CASE ~(h \in dirty[w] \/ set # sets[w][h])
  <2>1. paths'[h] = paths[h]
    BY <1>5, <1>7 DEF Commit, TypeOK, StoreTypeOK
  <2>2. sets[w][h] = orig[w][h]
    BY <1>7 DEF CleanIsUnchanged, FinalizeHead
  <2>3. \A p \in Path : Folded(w, h)[p] = "Passed" => paths[h][p] = "Passed"
    BY <1>3, <2>2 DEF CopiesAreSound
  <2> QED BY <1>1, <1>2, <1>4, <2>1, <2>3, CoversIsStable
<1> QED BY <1>6, <1>7

\* A commit under way stays sound, whatever the other workers write meanwhile.
LEMMA CommitStaysSound ==
    ASSUME TypeOK, TypeOK', CopiesAreSound, SetsAreWellFormed, CleanIsUnchanged, OpenIsSpeculating,
           CommitIsSound, [Next]_vars
    PROVE  CommitIsSound'
<1> DEFINE Sound(x) == /\ head'[x] \in Batch \ open'[x]
                       /\ verdict'[x] \in {"land", "fail", "cancel"}
                       /\ snap'[x][head'[x]] = IF verdict'[x] = "cancel" THEN "Cancelling" ELSE "Speculating"
                       /\ verdict'[x] = "land" => Covers(head'[x], paths'[head'[x]], snap'[x])
<1>1. ASSUME NEW x \in Worker, pc'[x] \in {"recover", "transition"} PROVE Sound(x)
  <2>1. CASE /\ pc[x] \in {"recover", "transition"}
             /\ head'[x] = head[x] /\ verdict'[x] = verdict[x] /\ snap'[x] = snap[x] /\ open'[x] = open[x]
    <3>1. /\ head[x] \in Batch \ open[x]
          /\ verdict[x] \in {"land", "fail", "cancel"}
          /\ snap[x][head[x]] = IF verdict[x] = "cancel" THEN "Cancelling" ELSE "Speculating"
          /\ verdict[x] = "land" => Covers(head[x], paths[head[x]], snap[x])
      BY <2>1 DEF CommitIsSound
    <3>2. snap[x] \in Snapshot /\ paths[head[x]] \in PathSet /\ paths'[head[x]] \in PathSet
      BY <3>1 DEF TypeOK, StoreTypeOK, CopyTypeOK, Snapshot
    <3>3. \A p \in Path : paths[head[x]][p] = "Passed" => paths'[head[x]][p] = "Passed"
      BY <3>1, PassedIsKept
    <3>4. verdict[x] = "land" => Covers(head[x], paths'[head[x]], snap[x])
      BY <3>1, <3>2, <3>3, CoversIsStable
    <3> QED BY <2>1, <3>1, <3>4
  <2>2. ASSUME NEW b \in Batch, FinalizeCancellation(x, b), head'[x] = b, verdict'[x] = "cancel"
        PROVE  Sound(x)
    <3>1. UNCHANGED <<snap, open>> /\ snap[x][b] = "Cancelling"
      BY <2>2 DEF FinalizeCancellation
    <3>2. b \notin open[x]
      BY <3>1 DEF OpenIsSpeculating
    <3> QED BY <2>2, <3>1, <3>2
  <2>3. ASSUME NEW b \in Batch, FinalizeHead(x, b), head'[x] = b,
               verdict'[x] = Decide(b, Folded(x, b), snap[x])
        PROVE  Sound(x)
    <3>1. UNCHANGED snap /\ snap[x][b] = "Speculating"
      BY <2>3 DEF FinalizeHead, OpenIsSpeculating
    <3>2. b \notin open'[x]
      BY <2>3 DEF FinalizeHead, TypeOK, LoopTypeOK
    <3>3. verdict'[x] \in {"land", "fail"}
      BY <2>3 DEF FinalizeHead, Decide
    <3>4. verdict'[x] = "land" => Covers(b, paths'[b], snap[x])
      BY <1>1, <2>3, LandCommitCovers
    <3> QED BY <2>3, <3>1, <3>2, <3>3, <3>4
  <2> QED BY <1>1, <2>1, <2>2, <2>3, CommitSteps
<1> QED BY <1>1 DEF CommitIsSound, Covers, Broken

\* What is landing is covered, now and for good.
LEMMA LandedStaysCovered ==
    ASSUME TypeOK, TypeOK', SnapIsCurrent, CopiesAreSound, CommitIsSound, DispatchedIsDurable,
           RunwayWasAsked, LandedIsCovered, [Next]_vars
    PROVE  LandedIsCovered'
<1>1. ASSUME NEW h \in Batch, state'[h] \in {"Landing", "Succeeded"}
      PROVE  Covers(h, paths'[h], state')
  <2>1. /\ state \in Snapshot /\ state' \in Snapshot
        /\ paths[h] \in PathSet /\ paths'[h] \in PathSet
    BY DEF TypeOK, StoreTypeOK, Snapshot
  <2>2. \A p \in Path : paths[h][p] = "Passed" => paths'[h][p] = "Passed"
    BY PassedIsKept
  <2>3. \A b \in Batch : state[b] \in Final => state'[b] = state[b]
    BY FinalIsKept
  <2>4. CASE state[h] \in {"Landing", "Succeeded"}
    <3>1. Covers(h, paths[h], state)
      BY <2>4 DEF LandedIsCovered
    <3> QED BY <2>1, <2>2, <2>3, <3>1, CoversIsStable
  <2>5. ASSUME NEW w \in Worker, pc[w] = "transition", head[w] = h, verdict[w] = "land"
        PROVE  Covers(h, paths'[h], state')
    <3>1. Covers(h, paths[h], snap[w])
      BY <2>5 DEF CommitIsSound
    <3>2. snap[w] \in Snapshot /\ \A b \in Batch : snap[w][b] \in Final => state'[b] = snap[w][b]
      BY <2>3 DEF TypeOK, CopyTypeOK, Snapshot, SnapIsCurrent
    <3> QED BY <2>1, <2>2, <3>1, <3>2, CoversIsStable
  <2>6. CASE state[h] \notin {"Landing", "Succeeded"}
    <3>1. <<state[h], state'[h]>> \in Moves
      BY <1>1, <2>6, StateSteps
    <3>2. state'[h] = "Landing"
      BY <1>1, <2>6, <3>1 DEF Moves
    <3> QED BY <2>5, <2>6, <3>2, StateSteps
  <2> QED BY <2>4, <2>6
<1> QED BY <1>1 DEF LandedIsCovered, Covers, Broken

----------------------------------------------------------------------------
(* What is dispatched is durable.                                           *)

\* A worker about to dispatch an outcome has just moved the batch, or had.
LEMMA EnactSteps ==
    ASSUME TypeOK, [Next]_vars, NEW x \in Worker, pc'[x] = "enact"
    PROVE  \/ pc[x] = "enact" /\ head'[x] = head[x] /\ verdict'[x] = verdict[x]
           \/ Transition(x)
<1> DEFINE Same == pc[x] = "enact" /\ head'[x] = head[x] /\ verdict'[x] = verdict[x]
<1> USE DEF TypeOK, ControlTypeOK
<1>1. CASE UNCHANGED local
  BY <1>1 DEF local
<1>2. CASE StageStep
  <2>1. UNCHANGED local
    BY <1>2, StagesLeaveWorkers
  <2> QED BY <1>1, <2>1
<1>3. ASSUME NEW w \in Worker, Forget(w) PROVE Same
  BY <1>3 DEF Forget
<1>4. ASSUME NEW w \in Worker, NEW rest, GoOn(w, rest) PROVE Same
  <2>1. CASE Forget(w) BY <1>3, <2>1
  <2>2. CASE /\ pc' = [pc EXCEPT ![w] = "dispatch"]
             /\ head' = [head EXCEPT ![w] = "none"]
             /\ UNCHANGED verdict
    BY <2>2
  <2> QED BY <1>4, <2>1, <2>2 DEF GoOn
<1>5. ASSUME NEW w \in Worker, NEW b \in Batch, Dispatch(w, b) PROVE Same
  <2>1. \/ GoOn(w, Undispatched(w) \ {b})
        \/ /\ pc' = [pc EXCEPT ![w] = "publish"]
           /\ head' = [head EXCEPT ![w] = b]
           /\ UNCHANGED verdict
    BY <1>5 DEF Dispatch
  <2> QED BY <1>4, <2>1
<1>6. ASSUME NEW w \in Worker, Drop(w) \/ Finish(w) \/ PublishBuild(w) PROVE Same
  BY <1>3, <1>4, <1>6 DEF Drop, Abandon, GiveUp, Finish, PublishBuild
<1>7. ASSUME NEW w \in Worker,
             \/ Expire(w) \/ Recoverable(w)
             \/ \E b \in Batch : ReadBatch(w, b) \/ ReadPathSet(w, b) \/ AdmitCreated(w, b)
      PROVE  Same
  BY <1>7 DEF Expire, ReadBatch, ReadPathSet, EnterFinalize, AdmitCreated, Recoverable
<1>8. ASSUME NEW w \in Worker, NEW b \in Batch, Deliver(w, b) PROVE Same
  <2>1. Receive(w, b)
    BY <1>8 DEF Deliver, ReceiveTerminal, ReceiveLanding, ReceiveCreated, ReceiveOther
  <2> QED BY <2>1 DEF Receive
<1>9. ASSUME NEW w \in Worker, Transition(w) PROVE Same \/ Transition(x)
  <2>1. CASE x = w BY <1>9, <2>1
  <2>2. CASE x # w BY <1>9, <2>2 DEF Transition
  <2> QED BY <2>1, <2>2
<1>10. ASSUME NEW w \in Worker, TransitionLost(w) \/ Enact(w) PROVE Same
  <2>1. Resume(w) BY <1>10 DEF TransitionLost, Enact
  <2> QED BY <2>1 DEF Resume
<1>11. ASSUME NEW w \in Worker, NEW b \in Batch, FinalizeCancellation(w, b) \/ FinalizeHead(w, b)
       PROVE  Same
  <2>1. \/ UNCHANGED <<pc, head, verdict>>
        \/ \E set, v : Commit(w, b, set, v)
    BY <1>11 DEF FinalizeCancellation, FinalizeHead, CommitLost
  <2> QED BY <2>1 DEF Commit
<1> QED BY <1>1, <1>2, <1>5, <1>6, <1>7, <1>8, <1>9, <1>10, <1>11 DEF Next, RunStep, Drop, vars

\* What a worker is about to dispatch stays in the store until it does.
LEMMA EnactStaysDurable ==
    ASSUME TypeOK, CommitIsSound, EnactIsDurable, DispatchedIsDurable, RunwayWasAsked, [Next]_vars
    PROVE  EnactIsDurable'
<1>1. ASSUME NEW x \in Worker, pc'[x] = "enact"
      PROVE  state'[head'[x]] \in IF verdict'[x] = "land" THEN {"Landing", "Succeeded", "Failed"} ELSE Final
  <2>1. CASE pc[x] = "enact" /\ head'[x] = head[x] /\ verdict'[x] = verdict[x]
    <3>1. head[x] \in Batch
      BY <2>1 DEF TypeOK, ControlTypeOK
    <3>2. state[head[x]] \in IF verdict[x] = "land" THEN {"Landing", "Succeeded", "Failed"} ELSE Final
      BY <2>1 DEF EnactIsDurable
    <3>3. \/ state'[head[x]] = state[head[x]]
          \/ state[head[x]] = "Landing" /\ state'[head[x]] \in {"Succeeded", "Failed"}
      <4>1. state'[head[x]] # state[head[x]] => <<state[head[x]], state'[head[x]]>> \in Moves
        BY <3>1, StateSteps
      <4> DEFINE from == state[head[x]]
                 to   == state'[head[x]]
      <4>2. from \in {"Landing"} \cup Final
        BY <3>2 DEF Final
      <4> HIDE DEF from, to
      <4>3. <<from, to>> \in Moves => from = "Landing" /\ to \in {"Succeeded", "Failed"}
        BY <4>2 DEF Moves, Final
      <4> QED BY <4>1, <4>3 DEF from, to
    <3> QED BY <2>1, <3>2, <3>3 DEF Final
  <2>2. CASE Transition(x)
    <3>1. head[x] \in Batch /\ verdict[x] \in {"land", "fail", "cancel"}
      BY <2>2 DEF Transition, CommitIsSound
    <3>2. state'[head[x]] = TargetState(verdict[x]) /\ head' = head /\ verdict' = verdict
      BY <2>2, <3>1 DEF Transition, TypeOK, StoreTypeOK
    <3> QED BY <3>1, <3>2 DEF TargetState, Final
  <2> QED BY <1>1, <2>1, <2>2, EnactSteps
<1> QED BY <1>1 DEF EnactIsDurable

\* Land and conclude are sent nothing the store does not say.
LEMMA DispatchedStaysDurable ==
    ASSUME TypeOK, TypeOK', CommitIsSound, EnactIsDurable, DispatchedIsDurable, RunwayWasAsked, [Next]_vars
    PROVE  DispatchedIsDurable'
<1>1. ASSUME NEW b \in Batch, state[b] \in {"Landing", "Succeeded", "Failed"}
      PROVE  state'[b] \in {"Landing", "Succeeded", "Failed"}
  BY <1>1, StateSteps DEF Moves, Final
<1>2. ASSUME NEW b \in Batch, state[b] \in Final PROVE state'[b] \in Final
  BY <1>2, FinalIsKept
<1>3. land \subseteq Batch /\ conclude \subseteq Batch
  BY DEF TypeOK, StoreTypeOK
<1>4. CASE UNCHANGED <<land, conclude>>
  BY <1>1, <1>2, <1>3, <1>4 DEF DispatchedIsDurable
<1>5. ASSUME NEW b \in Batch, LandSignal(b) \/ DeadLetter(b) \/ DeadLetterSpeculate(b)
      PROVE  /\ land' = land
             /\ conclude' = conclude \/ (conclude' = conclude \cup {b} /\ state'[b] \in Final)
  BY <1>5 DEF LandSignal, DeadLetter, DeadLetterSpeculate, FailBatch, Final, TypeOK, StoreTypeOK
<1>6. CASE StageStep
  <2>1. \/ UNCHANGED <<land, conclude>>
        \/ \E b \in Batch : LandSignal(b) \/ DeadLetter(b) \/ DeadLetterSpeculate(b)
    BY <1>6 DEF StageStep, Promote, CancelBatch, LandBatch, RunwayMerge, StartPath, SkipPath, BuildSignal
  <2> QED BY <1>1, <1>2, <1>3, <1>4, <1>5, <2>1 DEF DispatchedIsDurable
<1>7. ASSUME NEW w \in Worker, NEW b \in Batch, Deliver(w, b) PROVE DispatchedIsDurable'
  <2>1. \/ UNCHANGED <<land, conclude>>
        \/ state[b] = "Landing" /\ land' = land \cup {b} /\ conclude' = conclude
        \/ state[b] \in Final /\ conclude' = conclude \cup {b} /\ land' = land
    BY <1>7 DEF Deliver, ReceiveTerminal, ReceiveLanding, ReceiveCreated, ReceiveOther
  <2> QED BY <1>1, <1>2, <1>3, <1>4, <2>1 DEF DispatchedIsDurable
<1>8. ASSUME NEW w \in Worker, Enact(w) PROVE DispatchedIsDurable'
  <2>1. /\ head[w] \in Batch
        /\ state[head[w]] \in IF verdict[w] = "land" THEN {"Landing", "Succeeded", "Failed"} ELSE Final
    BY <1>8 DEF Enact, EnactIsDurable, TypeOK, ControlTypeOK
  <2>2. /\ state' = state
        /\ land' = IF verdict[w] = "land" THEN land \cup {head[w]} ELSE land
        /\ conclude' = IF verdict[w] = "land" THEN conclude ELSE conclude \cup {head[w]}
    BY <1>8 DEF Enact
  <2> QED BY <2>1, <2>2 DEF DispatchedIsDurable
<1>9. ASSUME NEW w \in Worker,
             \/ Drop(w) \/ Expire(w) \/ Recoverable(w) \/ Transition(w) \/ TransitionLost(w)
             \/ PublishBuild(w) \/ Finish(w)
             \/ \E c \in Batch : \/ ReadBatch(w, c) \/ ReadPathSet(w, c) \/ FinalizeCancellation(w, c)
                                 \/ FinalizeHead(w, c) \/ Dispatch(w, c) \/ AdmitCreated(w, c)
      PROVE  UNCHANGED <<land, conclude>>
  BY <1>9 DEF Drop, Abandon, GiveUp, Expire, Recoverable, Transition, TransitionLost, PublishBuild, Finish, ReadBatch,
              ReadPathSet, FinalizeCancellation, FinalizeHead, Dispatch, AdmitCreated, store
<1>10. CASE UNCHANGED vars
  BY <1>4, <1>10 DEF vars, store
<1> QED BY <1>4, <1>6, <1>7, <1>8, <1>9, <1>10 DEF Next, RunStep, Drop

\* Runway only ever hears of what land was given.
LEMMA RunwayStaysAsked ==
    ASSUME TypeOK, RunwayWasAsked, [Next]_vars
    PROVE  RunwayWasAsked'
<1> USE DEF TypeOK, StoreTypeOK
<1>1. ASSUME NEW b \in Batch, LandBatch(b) PROVE RunwayWasAsked'
  BY <1>1 DEF LandBatch, RunwayWasAsked
<1>2. ASSUME NEW b \in Batch, NEW res \in Merges, RunwayMerge(b, res) PROVE RunwayWasAsked'
  BY <1>2 DEF RunwayMerge, RunwayWasAsked
<1>3. CASE UNCHANGED runway /\ signals' \subseteq signals /\ land \subseteq land'
  BY <1>3 DEF RunwayWasAsked
<1>4. CASE StageStep
  <2>1. \/ UNCHANGED runway /\ signals' \subseteq signals /\ land \subseteq land'
        \/ \E b \in Batch : LandBatch(b)
        \/ \E b \in Batch, res \in Merges : RunwayMerge(b, res)
    BY <1>4 DEF StageStep, Promote, CancelBatch, LandSignal, DeadLetter, DeadLetterSpeculate, StartPath,
                SkipPath, BuildSignal
  <2> QED BY <1>1, <1>2, <1>3, <2>1
<1>5. ASSUME NEW w \in Worker, NEW b \in Batch, Deliver(w, b)
      PROVE  UNCHANGED <<runway, signals>> /\ land \subseteq land'
  BY <1>5 DEF Deliver, ReceiveTerminal, ReceiveLanding, ReceiveCreated, ReceiveOther, Receive
<1>6. ASSUME NEW w \in Worker, Drop(w) \/ Expire(w) \/ Finish(w) \/ TransitionLost(w)
      PROVE  UNCHANGED <<runway, signals, land>>
  BY <1>6 DEF Drop, Abandon, GiveUp, Expire, Finish, TransitionLost, store
<1>7. ASSUME NEW w \in Worker, Recoverable(w) \/ Transition(w) \/ Enact(w) \/ PublishBuild(w)
      PROVE  UNCHANGED <<runway, signals>> /\ land \subseteq land'
  BY <1>7 DEF Recoverable, Transition, Enact, PublishBuild
<1>8. ASSUME NEW w \in Worker, NEW b \in Batch,
             \/ ReadBatch(w, b) \/ ReadPathSet(w, b) \/ AdmitCreated(w, b)
             \/ FinalizeCancellation(w, b) \/ FinalizeHead(w, b) \/ Dispatch(w, b)
      PROVE  UNCHANGED <<runway, signals, land>>
  BY <1>8 DEF ReadBatch, ReadPathSet, AdmitCreated, FinalizeCancellation, FinalizeHead, Dispatch, store
<1>9. CASE UNCHANGED vars
  BY <1>3, <1>9 DEF vars, store
<1> QED BY <1>3, <1>4, <1>5, <1>6, <1>7, <1>8, <1>9 DEF Next, RunStep, Drop

----------------------------------------------------------------------------
(* The theorems.                                                            *)

\* The invariant holds at first: what is ahead has its one path passed.
LEMMA InitIInv ==
    ASSUME Init
    PROVE  IInv
<1>1. TypeOK
  BY InitTypeOK
<1>2. SnapIsCurrent /\ OpenIsSpeculating
  BY DEF Init, SnapIsCurrent, OpenIsSpeculating, Unread, Final
<1>3. CopiesAreSound /\ SetsAreWellFormed /\ CleanIsUnchanged
  BY DEF Init, CopiesAreSound, SetsAreWellFormed, CleanIsUnchanged, NoPaths
<1>4. CommitIsSound /\ EnactIsDurable
  BY DEF Init, CommitIsSound, EnactIsDurable
<1>5. DispatchedIsDurable /\ RunwayWasAsked
  BY AheadAssumption DEF Init, DispatchedIsDurable, RunwayWasAsked
<1>6. LandedIsCovered
  <2>1. ASSUME NEW h \in Batch, state[h] \in {"Landing", "Succeeded"},
               NEW p \in [Deps[h] -> Assumption]
        PROVE  p \in Path /\ paths[h][p] = "Passed"
    <3>1. h \in Ahead
      BY <2>1 DEF Init
    <3>2. p \in Path
      BY <2>1, <3>1, AheadAssumption
    <3>3. WellFormed(p, h)
      BY <2>1 DEF WellFormed
    <3> QED BY <3>1, <3>2, <3>3 DEF Init
  <2> QED BY <2>1 DEF LandedIsCovered, Covers
<1> QED BY <1>1, <1>2, <1>3, <1>4, <1>5, <1>6 DEF IInv

\* Every step keeps it.
LEMMA NextIInv ==
    ASSUME IInv, [Next]_vars
    PROVE  IInv'
<1> USE DEF IInv
<1>1. TypeOK' BY NextTypeOK
<1>2. SnapIsCurrent' BY SnapStaysCurrent
<1>3. CopiesAreSound' BY CopiesStaySound
<1>4. SetsAreWellFormed' BY SetsStayWellFormed
<1>5. CleanIsUnchanged' /\ OpenIsSpeculating' BY ViewStaysInOrder
<1>6. CommitIsSound' BY <1>1, CommitStaysSound
<1>7. EnactIsDurable' BY EnactStaysDurable
<1>8. DispatchedIsDurable' BY <1>1, DispatchedStaysDurable
<1>9. LandedIsCovered' BY <1>1, LandedStaysCovered
<1>10. RunwayWasAsked' BY RunwayStaysAsked
<1> QED BY <1>1, <1>2, <1>3, <1>4, <1>5, <1>6, <1>7, <1>8, <1>9, <1>10

----------------------------------------------------------------------------
(* A failed head.                                                           *)

\* A build's slot is written by StartPath and BuildSignal, which leave the
\* batches alone; every other step moves at most one batch, and no build.
LEMMA OneChange ==
    ASSUME TypeOK, CopiesAreSound, [Next]_vars
    PROVE  \/ /\ UNCHANGED state
              /\ \/ UNCHANGED build
                 \/ \E h \in Batch, p \in Path, s \in BuildStatus :
                       build[h][p] \notin BuildFinal /\ build' = [build EXCEPT ![h][p] = s]
           \/ /\ UNCHANGED build
              /\ \E b \in Batch, s \in BatchState : state' = [state EXCEPT ![b] = s]
<1> USE DEF TypeOK, StoreTypeOK
<1>1. CASE UNCHANGED vars
  BY <1>1 DEF vars, store
<1>2. CASE StageStep
  <2>1. CASE \E b \in Batch : Promote(b) \/ CancelBatch(b) \/ LandSignal(b) \/ DeadLetter(b) \/ DeadLetterSpeculate(b)
    <3>1. state \in [Batch -> BatchState] /\ {"Created", "Cancelling", "Succeeded", "Failed"} \subseteq BatchState
      BY DEF BatchState, Active, Final
    <3> QED BY <2>1, <3>1 DEF Promote, CancelBatch, LandSignal, DeadLetter, DeadLetterSpeculate, FailBatch
  <2>2. CASE \E b \in Batch : LandBatch(b) \/ \E res \in Merges : RunwayMerge(b, res)
    BY <2>2 DEF LandBatch, RunwayMerge
  <2>3. CASE \E h \in Batch, p \in Path : StartPath(h, p) \/ SkipPath(h, p)
    BY <2>3 DEF StartPath, SkipPath, BuildStatus, BuildFinal
  <2>4. CASE \E h \in Batch, p \in Path, s \in CIReports : BuildSignal(h, p, s)
    BY <2>4, InputAssumption DEF BuildSignal, BuildStatus, BuildFinal
  <2> QED BY <1>2, <2>1, <2>2, <2>3, <2>4 DEF StageStep
<1>3. ASSUME NEW w \in Worker, NEW b \in Batch, Deliver(w, b) \/ AdmitCreated(w, b)
      PROVE  UNCHANGED build /\ \E c \in Batch, s \in BatchState : state' = [state EXCEPT ![c] = s]
  <2>1. state[b] \in BatchState /\ state = [state EXCEPT ![b] = state[b]] /\ "Speculating" \in BatchState
    BY DEF BatchState, Active
  <2> QED BY <1>3, <2>1 DEF Deliver, ReceiveTerminal, ReceiveLanding, ReceiveCreated, ReceiveOther, Receive,
                            AdmitCreated
<1>4. ASSUME NEW w \in Worker, Transition(w)
      PROVE  UNCHANGED build /\ \E c \in Batch, s \in BatchState : state' = [state EXCEPT ![c] = s]
  BY <1>4 DEF Transition, ControlTypeOK, TargetState, BatchState, Active, Final
<1>5. ASSUME NEW w \in Worker, NEW h \in Batch, Dispatch(w, h)
      PROVE  UNCHANGED <<state, build>>
  BY <1>5, DispatchSaves DEF Dispatch
<1>6. ASSUME NEW w \in Worker,
             \/ Drop(w) \/ Expire(w) \/ Recoverable(w) \/ TransitionLost(w) \/ Enact(w)
             \/ PublishBuild(w) \/ Finish(w)
             \/ \E c \in Batch : \/ ReadBatch(w, c) \/ ReadPathSet(w, c) \/ FinalizeCancellation(w, c)
                                 \/ FinalizeHead(w, c)
      PROVE  UNCHANGED <<state, build>>
  BY <1>6 DEF Drop, Abandon, GiveUp, Expire, Recoverable, TransitionLost, Enact, PublishBuild, Finish, ReadBatch,
              ReadPathSet, FinalizeCancellation, FinalizeHead, store
<1> QED BY <1>1, <1>2, <1>3, <1>4, <1>5, <1>6 DEF Next, RunStep, Drop

\* A path reads as failed, in the store or in a worker's copy, only when the
\* build of its attempt failed.
FailuresAreSound ==
    /\ \A h \in Batch, p \in Path : paths[h][p] = "Failed" => build[h][p] = "Failed"
    /\ \A w \in Worker, h \in Batch, p \in Path : sets[w][h][p] = "Failed" => build[h][p] = "Failed"

\* A worker about to fail a head saw every dependency final, and CI rejected
\* what they leave.
FailCommitIsSound ==
    \A w \in Worker : pc[w] \in {"recover", "transition"} /\ verdict[w] = "fail" =>
        /\ \A d \in Deps[head[w]] : snap[w][d] \in Final
        /\ LeftBy(head[w], snap[w]) \in Path
        /\ build[head[w]][LeftBy(head[w], snap[w])] = "Failed"

FailInv == IInv /\ FailuresAreSound /\ FailCommitIsSound

\* A build that failed stays failed: only a start and a report write one, and
\* no finished path is funded again.
LEMMA FailedIsKept ==
    ASSUME TypeOK, CopiesAreSound, [Next]_vars, NEW h \in Batch, NEW p, build[h][p] = "Failed", p \in Path
    PROVE  build'[h][p] = "Failed"
  BY OneChange DEF BuildFinal, TypeOK, StoreTypeOK

\* No step makes a path read as failed whose build did not fail.
LEMMA FailuresStaySound ==
    ASSUME TypeOK, CopiesAreSound, FailuresAreSound, [Next]_vars
    PROVE  FailuresAreSound'
<1>1. \A h \in Batch, p \in Path : build[h][p] = "Failed" => build'[h][p] = "Failed"
  BY FailedIsKept
<1>2. CASE UNCHANGED <<paths, orig, sets>>
  BY <1>1, <1>2 DEF FailuresAreSound
<1>3. ASSUME NEW w \in Worker, UNCHANGED <<paths, build>>, CopiesKept(w)
      PROVE  FailuresAreSound'
  BY <1>3, KeptCopies DEF FailuresAreSound
<1>4. ASSUME NEW w \in Worker, NEW h \in Batch, ReadPathSet(w, h)
      PROVE  FailuresAreSound'
  <2> DEFINE new == UpdatePathsFromBuilds(paths[h], build[h])
  <2>1. UNCHANGED <<paths, build>> /\ sets' = [sets EXCEPT ![w][h] = new]
    BY <1>4 DEF ReadPathSet, store
  <2>2. \A p \in Path : new[p] = "Failed" => paths[h][p] = "Failed" \/ build[h][p] = "Failed"
    BY UpdateKeeps DEF TypeOK, StoreTypeOK
  <2> HIDE DEF new
  <2> QED BY <2>1, <2>2 DEF FailuresAreSound, TypeOK, CopyTypeOK
<1>5. ASSUME NEW w \in Worker, NEW b \in Batch, FinalizeCancellation(w, b) \/ FinalizeHead(w, b)
      PROVE  FailuresAreSound'
  <2>1. build' = build
    BY <1>5 DEF FinalizeCancellation, FinalizeHead
  <2>2. PICK set : SavesCopy(w, b, set)
    BY <1>5, FinalizeSaves
  <2>3. \A p \in Path : set[p] = "Failed" => build[b][p] = "Failed"
    BY <2>2 DEF SavesCopy, FailuresAreSound
  <2>4. sets' = [sets EXCEPT ![w][b] = set] /\ (paths' = paths \/ paths' = [paths EXCEPT ![b] = set])
    BY <2>2 DEF SavesCopy
  <2>5. \A h \in Batch, p \in Path : paths'[h][p] = "Failed" => build'[h][p] = "Failed"
    BY <2>1, <2>3, <2>4 DEF FailuresAreSound, TypeOK, StoreTypeOK
  <2>6. \A x \in Worker, h \in Batch, p \in Path : sets'[x][h][p] = "Failed" => build'[h][p] = "Failed"
    BY <2>1, <2>3, <2>4 DEF FailuresAreSound, TypeOK, CopyTypeOK
  <2> QED BY <2>5, <2>6 DEF FailuresAreSound
<1>6. ASSUME NEW w \in Worker, NEW b \in Batch, Dispatch(w, b), CopiesKept(w)
      PROVE  FailuresAreSound'
  <2>1. build' = build
    BY <1>6, DispatchSaves
  <2>2. \A h \in Batch, p \in Path : paths'[h][p] = "Failed" => build'[h][p] = "Failed"
    BY <1>6, <2>1, DispatchSaves DEF FailuresAreSound
  <2>3. \A x \in Worker, h \in Batch, p \in Path : sets'[x][h][p] = "Failed" => build'[h][p] = "Failed"
    BY <1>6, <2>1, KeptCopies DEF FailuresAreSound
  <2> QED BY <2>2, <2>3 DEF FailuresAreSound
<1> QED BY <1>2, <1>3, <1>4, <1>5, <1>6, StepKinds

\* A worker that holds a failed head holds a justified one.
LEMMA FailCommitStaysSound ==
    ASSUME FailInv, IInv', [Next]_vars
    PROVE  FailCommitIsSound'
<1> USE DEF FailInv, IInv
<1> SUFFICES ASSUME NEW x \in Worker, pc'[x] \in {"recover", "transition"}, verdict'[x] = "fail"
             PROVE  /\ \A d \in Deps[head'[x]] : snap'[x][d] \in Final
                    /\ LeftBy(head'[x], snap'[x]) \in Path
                    /\ LeftBy(head'[x], snap'[x]) \in Path
             /\ build'[head'[x]][LeftBy(head'[x], snap'[x])] = "Failed"
  BY DEF FailCommitIsSound, LeftBy
<1>1. CASE /\ pc[x] \in {"recover", "transition"}
           /\ head'[x] = head[x] /\ verdict'[x] = verdict[x] /\ snap'[x] = snap[x]
  <2>1. head[x] \in Batch
    BY <1>1 DEF CommitIsSound
  <2>2. /\ \A d \in Deps[head[x]] : snap[x][d] \in Final
        /\ LeftBy(head[x], snap[x]) \in Path /\ build[head[x]][LeftBy(head[x], snap[x])] = "Failed"
    BY <1>1 DEF FailCommitIsSound
  <2>3. build'[head[x]][LeftBy(head[x], snap[x])] = "Failed"
    BY <2>1, <2>2, FailedIsKept
  <2> QED BY <1>1, <2>2, <2>3
<1>2. ASSUME NEW b \in Batch, FinalizeHead(x, b), head'[x] = b, verdict'[x] = Decide(b, Folded(x, b), snap[x])
      PROVE  /\ \A d \in Deps[head'[x]] : snap'[x][d] \in Final
             /\ LeftBy(head'[x], snap'[x]) \in Path
             /\ build'[head'[x]][LeftBy(head'[x], snap'[x])] = "Failed"
  <2>1. UNCHANGED <<snap, build>>
    BY <1>2 DEF FinalizeHead
  <2>2. Folded(x, b) \in PathSet /\ \A p \in Path : Folded(x, b)[p] # "Absent" => WellFormed(p, b)
    BY FoldedKeeps DEF SetsAreWellFormed
  <2>3. snap[x] \in Snapshot
    BY DEF TypeOK, CopyTypeOK, Snapshot
  <2>4. /\ \A d \in Deps[b] : snap[x][d] \in Final
        /\ LeftBy(b, snap[x]) \in Path /\ Folded(x, b)[LeftBy(b, snap[x])] = "Failed"
    BY <1>2, <2>2, <2>3, NoFutureIsFailed
  <2>5. build[b][LeftBy(b, snap[x])] = "Failed"
    BY <2>4, FoldedKeeps DEF FailuresAreSound
  <2> QED BY <1>2, <2>1, <2>4, <2>5
<1> QED BY <1>1, <1>2, CommitSteps

\* The invariant holds at first and is kept.
LEMMA FailInvIsInductive ==
    /\ Init => FailInv
    /\ FailInv /\ [Next]_vars => FailInv'
<1>1. ASSUME Init PROVE FailInv
  <2>1. FailuresAreSound /\ FailCommitIsSound
    BY <1>1 DEF Init, FailuresAreSound, FailCommitIsSound, NoPaths
  <2> QED BY <1>1, <2>1, InitIInv DEF FailInv
<1>2. ASSUME FailInv, [Next]_vars PROVE FailInv'
  <2>1. IInv'
    BY <1>2, NextIInv DEF FailInv
  <2>2. FailuresAreSound'
    BY <1>2, FailuresStaySound DEF FailInv, IInv
  <2> QED BY <1>2, <2>1, <2>2, FailCommitStaysSound DEF FailInv
<1> QED BY <1>1, <1>2

\* The invariant says that what lands is validated.
LEMMA CoveredIsValidated ==
    ASSUME IInv
    PROVE  LandedIsValidated
  BY DEF IInv, LandedIsCovered, Covers, CopiesAreSound, LandedIsValidated

\* For any queue, any stacking of batches, any Speculator, any number of
\* overlapping workers and any crash, expiry or dead letter: a batch handed to
\* the land stage has a successful build for every outcome its dependencies can
\* still have (landablePath, bypassablePath and the compare-and-swaps of
\* commitOutcome).
THEOREM LandedValidated == Spec => []LandedIsValidated
<1>1. Init => IInv
  BY InitIInv
<1>2. IInv /\ [Next]_vars => IInv'
  BY NextIInv
<1>3. IInv => LandedIsValidated
  BY CoveredIsValidated
<1> QED BY <1>1, <1>2, <1>3, PTL DEF Spec

\* Land and conclude are never sent a batch on the strength of an outcome the
\* store refused (applyOutcome dispatches after its compare-and-swap).
THEOREM DispatchedDurable == Spec => []DispatchedIsDurable
<1>1. Init => IInv
  BY InitIInv
<1>2. IInv /\ [Next]_vars => IInv'
  BY NextIInv
<1>3. IInv => DispatchedIsDurable
  BY DEF IInv
<1> QED BY <1>1, <1>2, <1>3, PTL DEF Spec

\* No writer takes a batch off its lifecycle: final states are never left, a
\* cancelling batch never lands (core/batch Transition).
THEOREM LifecycleHolds == Spec => Lifecycle
<1>1. Init => IInv
  BY InitIInv
<1>2. IInv /\ [Next]_vars => IInv'
  BY NextIInv
<1>3. IInv /\ [Next]_vars =>
        [\A b \in Batch : state'[b] # state[b] => <<state[b], state'[b]>> \in Moves]_vars
  BY StateSteps DEF IInv
<1> QED BY <1>1, <1>2, <1>3, PTL DEF Spec, Lifecycle

\* A run fails a head only when every dependency is final and CI rejected the
\* very combination they left, however stale the run (hasNoViableFuture).
THEOREM FailJustified == Spec => FailIsJustified
<1>1. (Init => FailInv) /\ (FailInv /\ [Next]_vars => FailInv')
  BY FailInvIsInductive
<1>2. FailInv /\ [Next]_vars =>
        [\A w \in Worker :
            (pc[w] = "transition" /\ pc'[w] = "enact" /\ verdict[w] = "fail") =>
                /\ \A d \in Deps[head[w]] : state[d] \in Final
                /\ build[head[w]][ActualPath(head[w])] = "Failed"]_vars
  <2> SUFFICES ASSUME FailInv, NEW w \in Worker, pc[w] = "transition", verdict[w] = "fail"
               PROVE  /\ \A d \in Deps[head[w]] : state[d] \in Final
                      /\ build[head[w]][ActualPath(head[w])] = "Failed"
    OBVIOUS
  <2>1. head[w] \in Batch
    BY DEF FailInv, IInv, CommitIsSound
  <2>2. \A d \in Deps[head[w]] : snap[w][d] \in Final /\ state[d] = snap[w][d]
    BY <2>1, DepsAssumption DEF FailInv, IInv, FailCommitIsSound, SnapIsCurrent
  <2>3. ActualPath(head[w]) = LeftBy(head[w], snap[w])
    BY <2>2 DEF ActualPath, LeftBy
  <2> QED BY <2>2, <2>3 DEF FailInv, FailCommitIsSound
<1> QED BY <1>1, <1>2, PTL DEF Spec, FailIsJustified

(* The refinement of LandQueue.                                             *)

\* The queue starts as an abstract one: what is ahead is committed on nothing
\* unproven.
LEMMA InitRefines ==
    ASSUME Init
    PROVE  Queue!QueueInit
<1>1. Standing \in [Batch -> {"queued", "committed"}]
  BY DEF Standing, Init
<1>2. \A b \in Batch : Proven[b] \subseteq Queue!Combination(b)
  BY DEF Proven, Queue!Combination, Assumption
<1>3. Proven \in [Batch -> SUBSET UNION {Queue!Combination(b) : b \in Batch}]
  BY <1>2 DEF Proven
<1>4. ASSUME NEW b \in Batch, Standing[b] = "committed"
      PROVE  Proven[b] = Queue!Combination(b)
  <2>1. b \in Ahead
    BY <1>4 DEF Standing, Init
  <2>2. Deps[b] = {} /\ [{} -> Assumption] \subseteq Path
    BY <2>1, AheadAssumption
  <2>3. ASSUME NEW c \in [Deps[b] -> Assumption] PROVE c \in Path /\ build[b][c] = "Succeeded"
    BY <2>1, <2>2 DEF Init, WellFormed
  <2> QED BY <2>3 DEF Proven, Queue!Combination, Assumption
<1> QED BY <1>1, <1>2, <1>3, <1>4 DEF Queue!QueueInit

\* The one step that commits a batch has every outcome proven that its
\* dependencies can still have: LandedIsCovered, seen from the abstract queue.
LEMMA CommitRefines ==
    ASSUME IInv, IInv', NEW b \in Batch, UNCHANGED build,
           state' = [state EXCEPT ![b] = "Landing"],
           NEW c \in Queue!Combination(b), Queue!Possible(c)
    PROVE  c \in Proven[b]
<1> USE DEF IInv, TypeOK, StoreTypeOK
<1>1. c \in [Deps[b] -> Assumption] /\ Deps[b] \subseteq Batch
  BY DepsAssumption DEF Queue!Combination, Assumption
<1>2. ~Broken(c, state')
  <2>1. ASSUME NEW d \in Deps[b], state'[d] \in Final
        PROVE  (c[d] = "succeeds") <=> (state'[d] = "Succeeded")
    <3>1. d # b /\ state'[d] = state[d]
      BY <1>1, <2>1 DEF Final
    <3>2. /\ Standing[d] = "landed" => c[d] = "succeeds"
          /\ Standing[d] = "out" => c[d] = "fails"
      BY <1>1 DEF Queue!Possible
    <3> QED BY <1>1, <2>1, <3>1, <3>2 DEF Standing, Final
  <2> QED BY <1>1, <2>1 DEF Broken
<1>3. state'[b] = "Landing"
  OBVIOUS
<1>4. c \in Path /\ paths'[b][c] = "Passed"
  BY <1>1, <1>2, <1>3 DEF LandedIsCovered, Covers
<1>5. build[b][c] = "Succeeded"
  BY <1>4 DEF CopiesAreSound
<1> QED BY <1>1, <1>4, <1>5 DEF Proven

\* Every step is one of the abstract queue, or changes nothing it sees.
LEMMA StepRefines ==
    ASSUME IInv, IInv', [Next]_vars
    PROVE  [Queue!QueueNext]_(Queue!queueVars)
<1> USE DEF IInv, TypeOK, StoreTypeOK
<1>1. CASE UNCHANGED <<state, build>>
  BY <1>1 DEF Standing, Proven, Queue!queueVars
<1>2. ASSUME UNCHANGED state, NEW h \in Batch, NEW p \in Path, NEW s \in BuildStatus,
             build[h][p] \notin BuildFinal, build' = [build EXCEPT ![h][p] = s]
      PROVE  [Queue!QueueNext]_(Queue!queueVars)
  <2>1. UNCHANGED Standing
    BY <1>2 DEF Standing
  <2>2. \A g \in Batch, q \in Path :
           build'[g][q] = "Succeeded" <=> build[g][q] = "Succeeded" \/ (g = h /\ q = p /\ s = "Succeeded")
    BY <1>2 DEF BuildFinal
  <2>3. CASE s = "Succeeded" /\ p \in [Deps[h] -> Assumption]
    <3>1. Proven' = [Proven EXCEPT ![h] = @ \cup {p}]
      <4> DEFINE G(g) == {q \in [Deps[g] -> Assumption] : q \in Path /\ build[g][q] = "Succeeded"}
                 G2(g) == {q \in [Deps[g] -> Assumption] : q \in Path /\ build'[g][q] = "Succeeded"}
      <4>1. \A g \in Batch : G2(g) = IF g = h THEN G(g) \cup {p} ELSE G(g)
        BY <2>2, <2>3
      <4>2. Proven = [g \in Batch |-> G(g)] /\ Proven' = [g \in Batch |-> G2(g)]
        BY DEF Proven
      <4> HIDE DEF G, G2
      <4> QED BY <4>1, <4>2
    <3>2. p \in Queue!Combination(h)
      BY <2>3 DEF Queue!Combination, Assumption
    <3> QED BY <2>1, <3>1, <3>2 DEF Queue!Prove, Queue!QueueNext
  <2>4. CASE ~(s = "Succeeded" /\ p \in [Deps[h] -> Assumption])
    <3>1. Proven' = Proven
      BY <2>2, <2>4 DEF Proven
    <3> QED BY <2>1, <3>1 DEF Queue!queueVars
  <2> QED BY <2>3, <2>4
<1>3. ASSUME UNCHANGED build, NEW b \in Batch, NEW s \in BatchState, state' = [state EXCEPT ![b] = s],
             state'[b] # state[b]
      PROVE  [Queue!QueueNext]_(Queue!queueVars)
  <2>1. UNCHANGED Proven
    BY <1>3 DEF Proven
  <2>2. <<state[b], s>> \in Moves
    BY <1>3, StateSteps
  <2>3. CASE s = "Landing"
    <3>1. state[b] = "Speculating"
      BY <2>2, <2>3 DEF Moves
    <3>2. Standing[b] = "queued" /\ Standing' = [Standing EXCEPT ![b] = "committed"]
      BY <1>3, <2>3, <3>1 DEF Standing
    <3>3. \A c \in Queue!Combination(b) : Queue!Possible(c) => c \in Proven[b]
      BY <1>3, <2>3, CommitRefines
    <3>4. Queue!Commit(b)
      BY <2>1, <3>2, <3>3 DEF Queue!Commit
    <3> QED BY <3>4 DEF Queue!QueueNext
  <2>4. CASE s = "Succeeded"
    <3>1. state[b] = "Landing"
      BY <2>2, <2>4 DEF Moves
    <3>2. Standing[b] = "committed" /\ Standing' = [Standing EXCEPT ![b] = "landed"]
      BY <1>3, <2>4, <3>1 DEF Standing
    <3> QED BY <2>1, <3>2 DEF Queue!Land, Queue!QueueNext
  <2>5. CASE s \in {"Failed", "Cancelled"}
    <3>1. state[b] \in BatchState \ Final
      BY <2>2, <2>5 DEF Moves, BatchState, Active, Final
    <3>2. Standing[b] \in {"queued", "committed"}
      BY <3>1 DEF Standing, BatchState, Active, Final
    <3>3. Standing' = [Standing EXCEPT ![b] = "out"]
      BY <1>3, <2>5 DEF Standing
    <3> QED BY <2>1, <3>2, <3>3 DEF Queue!Leave, Queue!QueueNext
  <2>6. CASE s \notin {"Landing", "Succeeded", "Failed", "Cancelled"}
    <3>1. state[b] \notin {"Landing", "Succeeded", "Failed", "Cancelled"}
      BY <2>2, <2>6 DEF Moves
    <3>2. Standing' = Standing
      BY <1>3, <2>6, <3>1 DEF Standing
    <3> QED BY <2>1, <3>2 DEF Queue!queueVars
  <2> QED BY <2>3, <2>4, <2>5, <2>6
<1>4. ASSUME UNCHANGED build, NEW b \in Batch, NEW s \in BatchState, state' = [state EXCEPT ![b] = s],
             state'[b] = state[b]
      PROVE  UNCHANGED <<state, build>>
  BY <1>4
<1> QED BY <1>1, <1>2, <1>3, <1>4, OneChange

\* The stages implement the abstract queue: whatever workers overlap, stages
\* race and messages are dead-lettered, a batch is committed only on proof of
\* every combination still possible, and what has left the queue stays out.
THEOREM Refinement == Spec => ImplementsLandQueue
<1>1. Init => IInv /\ Queue!QueueInit
  BY InitIInv, InitRefines
<1>2. IInv /\ [Next]_vars => IInv'
  BY NextIInv
<1>3. IInv /\ IInv' /\ [Next]_vars => [Queue!QueueNext]_(Queue!queueVars)
  BY StepRefines
<1> QED BY <1>1, <1>2, <1>3, PTL DEF Spec, ImplementsLandQueue, Queue!QueueSpec
============================================================================
