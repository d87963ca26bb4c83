----------------------------- MODULE BuildProofs -----------------------------
(***************************************************************************)
(* Proofs about Build, for any paths, bounds, events and runner: a path     *)
(* passes only on the build its attempt is linked to, and no build that is  *)
(* still wanted is asked to stop.                                           *)
(***************************************************************************)
EXTENDS Build, SequenceTheorems, TLAPS

(* Types.                                                                   *)

PathStatus  == {"none"} \cup LivePath \cup TerminalPath
EntryType   == [status : PathStatus, attempt : 0..MaxAttempt]
RunType     == [path : Path, attempt : Attempt, status : BuildStatus, stop : BOOLEAN]
TodoType    == [path : Path, status : LivePath, attempt : Attempt]
StarterType == [at : {"idle", "loop", "link"}, todo : SUBSET TodoType, halted : BOOLEAN,
                recovering : BOOLEAN, path : Path \cup {Idle.path}, attempt : 0..MaxAttempt,
                id : 0..MaxBuild]
PollType    == [at : {"idle", "stop", "write"}, was : {"none"} \cup BuildStatus,
                status : {"none"} \cup BuildStatus, halted : BOOLEAN]

\* A live path is in some attempt.
Entries == /\ entry \in [Path -> EntryType]
           /\ \A p \in Path : entry[p].status \in LivePath => entry[p].attempt # 0

Runs == run \in Seq(RunType) /\ Len(run) <= MaxBuild

\* A handler holds the message at the head of the topic.
Handlers == /\ dispatches \in Seq(BOOLEAN)
            /\ starter \in [Slot -> StarterType]
            /\ starter["now"].at # "idle" => dispatches # <<>>
            /\ \A s \in Slot : starter[s].at = "link" => /\ starter[s].id # 0 /\ starter[s].attempt # 0
                                                         /\ starter[s].path \in Path

Polls == poll \in [BuildIDs \X Slot -> PollType]

Types == TypeOK /\ Entries /\ Runs /\ Handlers /\ Polls

LEMMA BuildKeys ==
    ASSUME Runs
    PROVE  /\ Builds = 1..Len(run) /\ Len(run) \in Nat /\ Builds \subseteq BuildIDs
           /\ \A b \in Builds : run[b] \in RunType
           /\ \A b \in BuildIDs, s \in Slot : <<b, s>> \in BuildIDs \X Slot
<1>1. Builds = 1..Len(run) /\ Len(run) \in Nat
  BY DEF Runs, Builds
<1>2. Builds \subseteq BuildIDs
  BY <1>1, BuildAssumption DEF Runs, BuildIDs
<1>3. \A b \in Builds : run[b] \in RunType
  BY <1>1 DEF Runs
<1> QED BY <1>1, <1>2, <1>3

LEMMA TypesInit == Init => Types
<1> SUFFICES ASSUME Init PROVE Types
  OBVIOUS
<1>1. TypeOK /\ Entries /\ Runs
  <2>1. 0 \in 0..MaxAttempt /\ 0 \in 0..MaxBuild /\ 0 \in 0..MaxEvents
    BY BuildAssumption
  <2>2. Entries
    BY <2>1 DEF Init, Entries, EntryType, PathStatus, LivePath
  <2>3. Runs
    BY BuildAssumption DEF Init, Runs
  <2> QED BY <2>1, <2>2, <2>3 DEF Init, TypeOK, Entries, EntryType, PathStatus, LivePath, TerminalPath, Builds
<1>2. Handlers
  <2>1. Idle \in StarterType /\ Idle.at = "idle"
    BY BuildAssumption DEF Idle, StarterType
  <2> QED BY <2>1 DEF Init, Handlers, Slot
<1>3. Polls
  BY DEF Init, Polls, PollType, NoPoll
<1> QED BY <1>1, <1>2, <1>3 DEF Types

-----------------------------------------------------------------------------
(* The speculate run is the only writer of the path set.                    *)

Closing == TerminalPath \cup {"cancelling"}

\* The build of p's attempt is recorded as succeeded.
LinkSucceeded(p) == /\ entry[p].attempt # 0
                    /\ link[<<p, entry[p].attempt>>] # 0
                    /\ record[link[<<p, entry[p].attempt>>]] = "succeeded"

\* What one run may make of an entry: a called-off or finished attempt stays so,
\* a later attempt begins as pending, and only an entry that has passed, or did
\* so by what the run read, is passed.
Advances(x, y, succeeded) ==
    /\ y \in EntryType /\ (y.status \in LivePath => y.attempt # 0)
    /\ y.attempt >= x.attempt
    /\ y.attempt = x.attempt /\ x.status \in Closing => y.status \in Closing
    /\ y.status = "passed" => y.attempt = x.attempt /\ (x.status = "passed" \/ succeeded)

LEMMA ReadAdvances ==
    ASSUME Types, NEW p \in Path
    PROVE  Advances(entry[p], [entry[p] EXCEPT !.status = UpdatePathFromBuild(p)], LinkSucceeded(p))
<1> DEFINE x == entry[p]
           u == UpdatePathFromBuild(p)
<1>1. x \in EntryType /\ (x.status \in LivePath => x.attempt # 0)
  BY DEF Types, Entries
<1>2. x.attempt # 0 => /\ <<p, x.attempt>> \in Path \X Attempt
                       /\ link[<<p, x.attempt>>] \in 0..MaxBuild
  BY <1>1, BuildAssumption DEF EntryType, Attempt, Types, TypeOK
<1>3. \A b \in 1..MaxBuild : record[b] \in TerminalStatus =>
          /\ TerminalPathStatus(record[b]) \in TerminalPath
          /\ TerminalPathStatus(record[b]) = "passed" => record[b] = "succeeded"
  BY DEF TerminalPathStatus, TerminalStatus, TerminalPath
<1>4. /\ u \in PathStatus
      /\ u \in LivePath => x.status \in LivePath
      /\ x.status \in Closing => u \in Closing
      /\ u = "passed" => x.status = "passed" \/ LinkSucceeded(p)
  <2>1. CASE x.status \notin LivePath
    <3>1. u = x.status
      BY <2>1 DEF UpdatePathFromBuild, LivePath
    <3> QED BY <1>1, <2>1, <3>1 DEF EntryType, PathStatus, Closing
  <2>2. CASE x.status \in LivePath /\ link[<<p, x.attempt>>] = 0
    <3>1. u = "cancelled" \/ u = x.status
      BY <1>1, <2>2 DEF UpdatePathFromBuild
    <3>2. u = x.status => u # "passed"
      BY <2>2 DEF LivePath
    <3> QED BY <1>1, <2>2, <3>1, <3>2 DEF EntryType, PathStatus, LivePath, TerminalPath, Closing
  <2>3. CASE /\ x.status \in LivePath /\ link[<<p, x.attempt>>] # 0
             /\ record[link[<<p, x.attempt>>]] \in TerminalStatus
    <3>1. u = TerminalPathStatus(record[link[<<p, x.attempt>>]])
      BY <1>1, <2>3 DEF UpdatePathFromBuild
    <3>2. link[<<p, x.attempt>>] \in 1..MaxBuild
      BY <1>1, <1>2, <2>3
    <3> QED BY <1>1, <1>3, <2>3, <3>1, <3>2 DEF PathStatus, Closing, LinkSucceeded
  <2>4. CASE /\ x.status \in LivePath /\ link[<<p, x.attempt>>] # 0
             /\ record[link[<<p, x.attempt>>]] \notin TerminalStatus
    <3>1. u = IF x.status = "pending" THEN "building" ELSE x.status
      BY <1>1, <2>4 DEF UpdatePathFromBuild
    <3> QED BY <1>1, <2>4, <3>1 DEF PathStatus, LivePath, TerminalPath, Closing
  <2> QED BY <2>1, <2>2, <2>3, <2>4
<1> DEFINE y == [x EXCEPT !.status = u]
<1>5. y \in EntryType /\ y.attempt = x.attempt /\ y.status = u
  BY <1>1, <1>4 DEF EntryType
<1> HIDE DEF u, y, x
<1>6. Advances(x, y, LinkSucceeded(p))
  BY <1>1, <1>4, <1>5, BuildAssumption DEF Advances, EntryType
<1> QED BY <1>6 DEF x, y, u

LEMMA CancelAdvances ==
    ASSUME NEW x \in EntryType, NEW y, NEW s, Advances(x, y, s)
    PROVE  Advances(x, IF y.status \in {"pending", "building"}
                       THEN [y EXCEPT !.status = "cancelling"] ELSE y, s)
<1> DEFINE z == [y EXCEPT !.status = "cancelling"]
<1>1. y \in EntryType
  BY DEF Advances
<1>2. z \in EntryType /\ z.attempt = y.attempt /\ z.status = "cancelling"
  BY <1>1 DEF EntryType, PathStatus, LivePath
<1> HIDE DEF z
<1>3. y.status \in {"pending", "building"} => Advances(x, z, s)
  BY <1>2 DEF Advances, LivePath, Closing
<1> QED BY <1>3 DEF z

LEMMA FundAdvances ==
    ASSUME NEW x \in EntryType, NEW y, NEW s, Advances(x, y, s), y.attempt < MaxAttempt
    PROVE  Advances(x, [status |-> "pending", attempt |-> y.attempt + 1], s)
<1> DEFINE z == [status |-> "pending", attempt |-> y.attempt + 1]
<1>1. x.attempt \in Nat /\ y.attempt \in Nat /\ x.attempt <= y.attempt
  BY BuildAssumption DEF Advances, EntryType
<1>2. z \in EntryType /\ z.attempt = y.attempt + 1 /\ z.status = "pending"
  BY <1>1, BuildAssumption DEF EntryType, PathStatus, LivePath
<1> HIDE DEF z
<1>3. Advances(x, z, s)
  BY <1>1, <1>2 DEF Advances
<1> QED BY <1>3 DEF z

\* The topic's messages after a publish and after a redelivery.
LEMMA Queueing ==
    ASSUME NEW q \in Seq(BOOLEAN)
    PROVE  /\ Append(q, FALSE) \in Seq(BOOLEAN) /\ Append(q, FALSE) # <<>>
           /\ q # <<>> => /\ Tail(q) \in Seq(BOOLEAN) /\ Head(q) \in BOOLEAN
                          /\ <<TRUE>> \o Tail(q) \in Seq(BOOLEAN) /\ <<TRUE>> \o Tail(q) # <<>>
<1> DEFINE B == BOOLEAN
           f == FALSE
           t == TRUE
<1>1. f \in B /\ t \in B
  OBVIOUS
<1>2. q \in Seq(B)
  OBVIOUS
<1> SUFFICES /\ Append(q, f) \in Seq(B) /\ Append(q, f) # <<>>
             /\ q # <<>> => /\ Tail(q) \in Seq(B) /\ Head(q) \in B
                            /\ <<t>> \o Tail(q) \in Seq(B) /\ <<t>> \o Tail(q) # <<>>
  OBVIOUS
<1> HIDE DEF B, f, t
<1>3. Append(q, f) \in Seq(B) /\ Append(q, f) # <<>>
  BY <1>1, <1>2
<1>4. q # <<>> => Tail(q) \in Seq(B) /\ Head(q) \in B
  BY <1>2
<1>5. q # <<>> => /\ <<t>> \in Seq(B) /\ Len(<<t>>) = 1
                  /\ <<t>> \o Tail(q) \in Seq(B)
                  /\ Len(<<t>> \o Tail(q)) = 1 + Len(Tail(q)) /\ Len(Tail(q)) \in Nat
  BY <1>1, <1>4
<1> QED BY <1>3, <1>4, <1>5

LEMMA SpeculateMoves ==
    ASSUME Types, Speculate
    PROVE  /\ entry' \in [Path -> EntryType]
           /\ \A p \in Path : Advances(entry[p], entry'[p], LinkSucceeded(p))
           /\ head' \in {"speculating", "landing"} \cup Halted
           /\ head \in Halted => head' \in Halted
           /\ dispatches' \in Seq(BOOLEAN) /\ (dispatches # <<>> => dispatches' # <<>>)
<1> DEFINE seen == [p \in Path |-> [entry[p] EXCEPT !.status = UpdatePathFromBuild(p)]]
<1>0. \A p \in Path : entry[p] \in EntryType
  BY DEF Types, Entries
<1>1. \A p \in Path : Advances(entry[p], seen[p], LinkSucceeded(p))
  BY ReadAdvances
<1>2. ASSUME entry' = CancelLive(seen)
      PROVE  \A p \in Path : Advances(entry[p], entry'[p], LinkSucceeded(p))
  <2> SUFFICES ASSUME NEW p \in Path PROVE Advances(entry[p], entry'[p], LinkSucceeded(p))
    OBVIOUS
  <2>1. Advances(entry[p], seen[p], LinkSucceeded(p)) /\ entry[p] \in EntryType
    BY <1>0, <1>1
  <2>2. entry'[p] = IF seen[p].status \in {"pending", "building"}
                    THEN [seen[p] EXCEPT !.status = "cancelling"] ELSE seen[p]
    BY <1>2 DEF CancelLive
  <2> HIDE DEF seen
  <2> QED BY <2>1, <2>2, CancelAdvances
<1>3. ASSUME NEW fund \in SUBSET Path, NEW stop \in SUBSET Path,
             \A p \in fund : seen[p].attempt < MaxAttempt,
             \A p \in stop : seen[p].status \in {"pending", "building"},
             entry' = ApplyProposals(seen, fund, stop)
      PROVE  \A p \in Path : Advances(entry[p], entry'[p], LinkSucceeded(p))
  <2> SUFFICES ASSUME NEW p \in Path PROVE Advances(entry[p], entry'[p], LinkSucceeded(p))
    OBVIOUS
  <2>1. Advances(entry[p], seen[p], LinkSucceeded(p)) /\ entry[p] \in EntryType
    BY <1>0, <1>1
  <2>2. \/ p \in fund /\ entry'[p] = [status |-> "pending", attempt |-> seen[p].attempt + 1]
        \/ p \in stop /\ entry'[p] = [seen[p] EXCEPT !.status = "cancelling"]
        \/ entry'[p] = seen[p]
    BY <1>3 DEF ApplyProposals
  <2>3. p \in fund => seen[p].attempt < MaxAttempt
    BY <1>3
  <2>4. p \in stop => seen[p].status \in {"pending", "building"}
    BY <1>3
  <2> HIDE DEF seen
  <2> QED BY <2>1, <2>2, <2>3, <2>4, CancelAdvances, FundAdvances
<1>4. \/ UNCHANGED <<head, entry, dispatches>>
      \/ /\ entry' = CancelLive(seen) /\ UNCHANGED dispatches
         /\ head = "cancelling" /\ (head' = "cancelled" \/ head' = head)
      \/ /\ entry' = CancelLive(seen) /\ UNCHANGED dispatches
         /\ head \in {"landing", "speculating"} /\ head' = "landing"
      \/ /\ \E fund, stop \in SUBSET Path :
              /\ \A p \in fund : seen[p].attempt < MaxAttempt
              /\ \A p \in stop : seen[p].status \in {"pending", "building"}
              /\ entry' = ApplyProposals(seen, fund, stop)
         /\ UNCHANGED head
         /\ dispatches' = Append(dispatches, FALSE) \/ UNCHANGED dispatches
  BY DEF Speculate, Dispatch
<1> HIDE DEF seen
<1>5. \A p \in Path : Advances(entry[p], entry'[p], LinkSucceeded(p))
  <2>1. CASE UNCHANGED entry
    <3> QED BY <1>0, <2>1, BuildAssumption DEF Advances, Types, Entries, EntryType
  <2> QED BY <1>2, <1>3, <1>4, <2>1
<1>6. entry' \in [Path -> EntryType]
  <2>1. entry' = [p \in Path |-> entry'[p]]
    BY <1>4 DEF CancelLive, ApplyProposals, Types, Entries
  <2> QED BY <1>5, <2>1 DEF Advances
<1>7. head' \in {"speculating", "landing"} \cup Halted /\ (head \in Halted => head' \in Halted)
  BY <1>4 DEF Types, TypeOK, Halted
<1>8. dispatches' \in Seq(BOOLEAN) /\ (dispatches # <<>> => dispatches' # <<>>)
  <2>1. dispatches' = dispatches \/ dispatches' = Append(dispatches, FALSE)
    BY <1>4
  <2> QED BY <2>1, Queueing DEF Types, Handlers
<1> QED BY <1>5, <1>6, <1>7, <1>8

-----------------------------------------------------------------------------
(* What a step may do to each store.                                        *)

\* Who writes the path set and the batch.
LEMMA Writers ==
    ASSUME [Next]_vars
    PROVE  /\ Speculate \/ UNCHANGED entry
           /\ Speculate \/ UNCHANGED head \/ FailBatch \/ (head = "speculating" /\ head' = "cancelling")
<1>1. CASE Speculate
  BY <1>1
<1>2. ASSUME NEW s \in Slot, StartStep(s) PROVE UNCHANGED <<entry, head>>
  <2>1. ASSUME NEW e, StartPath(s, e) \/ AlreadyDispatched(s, e) \/ EnsureSignal(s, e)
        PROVE  UNCHANGED <<entry, head>>
    BY <2>1 DEF StartPath, AlreadyDispatched, EnsureSignal, stores
  <2>2. CASE LinkBuild(s) \/ FinishDispatch(s)
    BY <2>2 DEF LinkBuild, FinishDispatch, stores
  <2> QED BY <1>2, <2>1, <2>2 DEF StartStep
<1>3. ASSUME NEW b, NEW s, PollStep(b, s) PROVE UNCHANGED entry /\ (UNCHANGED head \/ FailBatch)
  BY <1>3 DEF PollStep, PollStop, PollWrite, PollRejected, stores
<1>4. ASSUME NEW b, NEW status, PollStatus(b) \/ RunnerMoves(b, status) PROVE UNCHANGED <<entry, head>>
  BY <1>4 DEF PollStatus, RunnerMoves, stores
<1>5. CASE Event
  <2>1. ASSUME NEW b, CrashPoll(b) \/ ExpirePoll(b) \/ DeadLetterPoll(b) \/ Collect(b)
        PROVE  UNCHANGED entry /\ (UNCHANGED head \/ FailBatch)
    BY <2>1 DEF CrashPoll, ExpirePoll, DeadLetterPoll, Collect, stores
  <2> QED BY <1>5, <2>1 DEF Event, CrashDispatch, ExpireDispatch, DeadLetterDispatch, Nudge, CancelBatch, stores
<1>6. CASE ReceiveDispatch \/ UNCHANGED vars
  BY <1>6 DEF ReceiveDispatch, vars, stores
<1> QED BY <1>1, <1>2, <1>3, <1>4, <1>5, <1>6 DEF Next

LEMMA EntriesMove ==
    ASSUME Types, [Next]_vars
    PROVE  /\ entry' \in [Path -> EntryType]
           /\ \A p \in Path : Advances(entry[p], entry'[p], LinkSucceeded(p))
<1>1. CASE Speculate
  BY <1>1, SpeculateMoves
<1>2. CASE UNCHANGED entry
  <2>1. \A p \in Path : entry[p] \in EntryType
    BY DEF Types, Entries
  <2> QED BY <1>2, <2>1, BuildAssumption DEF Advances, Types, Entries, EntryType
<1> QED BY <1>1, <1>2, Writers

LEMMA HeadMoves ==
    ASSUME Types, [Next]_vars
    PROVE  head' \in {"speculating", "landing"} \cup Halted /\ (head \in Halted => head' \in Halted)
<1>1. CASE Speculate
  BY <1>1, SpeculateMoves
<1>2. CASE UNCHANGED head \/ FailBatch \/ (head = "speculating" /\ head' = "cancelling")
  BY <1>2 DEF Types, TypeOK, FailBatch, Halted
<1> QED BY <1>1, <1>2, Writers

\* The runner's builds: one more, one asked to stop, or one that moves on.
Started(s, e) == run' = Append(run, [path |-> e.path, attempt |-> e.attempt, status |-> "accepted",
                                     stop |-> FALSE])
RunStep ==
    \/ run' = run
    \/ \E s \in Slot : \E e \in starter[s].todo : StartPath(s, e)
    \/ \E b \in Builds, s \in Slot : /\ run' = [run EXCEPT ![b].stop = TRUE] /\ poll[<<b, s>>].at = "stop"
                                     /\ Unwanted(b, poll[<<b, s>>].halted) /\ UNCHANGED stores
    \/ \E b \in Builds : /\ \E status \in BuildStatus : run' = [run EXCEPT ![b].status = status]
                         /\ run[b].status \notin TerminalStatus /\ UNCHANGED stores

LEMMA RunSteps ==
    ASSUME [Next]_vars
    PROVE  RunStep
<1>1. CASE \E s \in Slot : StartStep(s)
  <2>1. PICK s \in Slot : StartStep(s)
    BY <1>1
  <2>2. \/ run' = run
        \/ \E e \in starter[s].todo : StartPath(s, e)
    BY <2>1 DEF StartStep, AlreadyDispatched, EnsureSignal, LinkBuild, FinishDispatch
  <2> QED BY <2>2 DEF RunStep
<1>2. ASSUME NEW b \in Builds,
             \/ PollStatus(b)
             \/ \E s \in Slot : PollStep(b, s)
             \/ \E status \in BuildStatus : RunnerMoves(b, status)
      PROVE  RunStep
  <2>1. ASSUME NEW s \in Slot, PollStop(b, s) PROVE RunStep
    <3>1. CASE run' = run
      BY <3>1 DEF RunStep
    <3>2. CASE run' = [run EXCEPT ![b].stop = TRUE] /\ Unwanted(b, poll[<<b, s>>].halted)
      <4>1. poll[<<b, s>>].at = "stop" /\ UNCHANGED stores
        BY <2>1 DEF PollStop
      <4> QED BY <3>2, <4>1 DEF RunStep
    <3> QED BY <2>1, <3>1, <3>2 DEF PollStop
  <2>2. ASSUME NEW status \in BuildStatus, RunnerMoves(b, status) PROVE RunStep
    <3>1. /\ run' = [run EXCEPT ![b].status = status] /\ run[b].status \notin TerminalStatus
          /\ UNCHANGED stores
      BY <2>2 DEF RunnerMoves
    <3> QED BY <3>1 DEF RunStep
  <2>3. ASSUME NEW s \in Slot, PollWrite(b, s) \/ PollRejected(b, s) PROVE run' = run
    BY <2>3 DEF PollWrite, PollRejected
  <2>4. PollStatus(b) => run' = run
    BY DEF PollStatus, stores
  <2> QED BY <1>2, <2>1, <2>2, <2>3, <2>4 DEF PollStep, RunStep
<1>3. CASE Speculate \/ ReceiveDispatch \/ Event \/ UNCHANGED vars
  BY <1>3 DEF RunStep, Speculate, ReceiveDispatch, Event, CrashDispatch, ExpireDispatch, vars,
              DeadLetterDispatch, Nudge, CancelBatch, CrashPoll, ExpirePoll, DeadLetterPoll, Collect
<1> QED BY <1>1, <1>2, <1>3 DEF Next

\* No build is forgotten, and one that has ended stays as it ended.
BuildsAdvance ==
    \A b \in Builds : /\ b \in Builds'
                      /\ run'[b].path = run[b].path /\ run'[b].attempt = run[b].attempt
                      /\ run[b].status \in TerminalStatus => run'[b].status = run[b].status

LEMMA RunsMove ==
    ASSUME Types, [Next]_vars
    PROVE  Runs' /\ BuildsAdvance
<1>1. /\ Builds = 1..Len(run) /\ Len(run) \in Nat /\ \A b \in Builds : run[b] \in RunType
      /\ run \in Seq(RunType) /\ Len(run) <= MaxBuild
  BY BuildKeys DEF Types, Runs
<1>2. CASE run' = run
  BY <1>1, <1>2 DEF Runs, BuildsAdvance, Builds
<1>3. ASSUME NEW s \in Slot, NEW e \in starter[s].todo, StartPath(s, e)
      PROVE  Runs' /\ BuildsAdvance
  <2>1. e \in TodoType
    BY DEF Types, Handlers, StarterType
  <2> DEFINE new == [path |-> e.path, attempt |-> e.attempt, status |-> "accepted", stop |-> FALSE]
  <2>2. new \in RunType
    BY <2>1 DEF TodoType, RunType, BuildStatus
  <2>3. run' = Append(run, new) /\ Len(run) < MaxBuild
    BY <1>3 DEF StartPath
  <2> HIDE DEF new
  <2>4. run' \in Seq(RunType) /\ Len(run') = Len(run) + 1 /\ \A i \in 1..Len(run) : run'[i] = run[i]
    BY <1>1, <2>2, <2>3
  <2>5. Builds' = 1..Len(run')
    BY <2>4 DEF Builds
  <2> QED BY <1>1, <2>3, <2>4, <2>5, BuildAssumption DEF Runs, BuildsAdvance
<1>4. ASSUME NEW b \in Builds, NEW x \in RunType, run' = [run EXCEPT ![b] = x],
             x.path = run[b].path, x.attempt = run[b].attempt,
             run[b].status \in TerminalStatus => x.status = run[b].status
      PROVE  Runs' /\ BuildsAdvance
  <2>1. run' \in Seq(RunType) /\ Len(run') = Len(run)
    BY <1>1, <1>4
  <2>2. Builds' = Builds
    BY <1>1, <2>1 DEF Builds
  <2>3. \A c \in Builds : run'[c] = IF c = b THEN x ELSE run[c]
    BY <1>1, <1>4
  <2> QED BY <1>1, <1>4, <2>1, <2>2, <2>3 DEF Runs, BuildsAdvance
<1>5. ASSUME NEW b \in Builds, run' = [run EXCEPT ![b].stop = TRUE] PROVE Runs' /\ BuildsAdvance
  <2> DEFINE x == [run[b] EXCEPT !.stop = TRUE]
  <2>1. run[b] \in RunType
    BY <1>1
  <2>2. x \in RunType /\ x.path = run[b].path /\ x.attempt = run[b].attempt /\ x.status = run[b].status
    BY <2>1 DEF RunType
  <2>3. run' = [run EXCEPT ![b] = x]
    BY <1>5
  <2> HIDE DEF x
  <2> QED BY <1>4, <2>2, <2>3
<1>6. ASSUME NEW b \in Builds, NEW status \in BuildStatus, run[b].status \notin TerminalStatus,
             run' = [run EXCEPT ![b].status = status]
      PROVE  Runs' /\ BuildsAdvance
  <2> DEFINE x == [run[b] EXCEPT !.status = status]
  <2>1. run[b] \in RunType
    BY <1>1
  <2>2. x \in RunType /\ x.path = run[b].path /\ x.attempt = run[b].attempt
    BY <2>1 DEF RunType
  <2>3. run' = [run EXCEPT ![b] = x]
    BY <1>6
  <2> HIDE DEF x
  <2> QED BY <1>4, <1>6, <2>2, <2>3
<1> QED BY <1>2, <1>3, <1>5, <1>6, RunSteps DEF RunStep

-----------------------------------------------------------------------------
(* The handlers of the build topic.                                         *)

\* What a handler still has to do was in the path set when it was delivered.
ReadFrom(e) ==
    \/ \E t \in Slot : e \in starter[t].todo
    \/ \E p \in Path : e = [path |-> p, status |-> entry[p].status, attempt |-> entry[p].attempt]

\* A handler about to link has the build it just started.
LinkFrom(x) ==
    \/ \E t \in Slot : /\ starter[t].at = "link" /\ x.id = starter[t].id
                       /\ x.path = starter[t].path /\ x.attempt = starter[t].attempt
    \/ \E t \in Slot : \E e \in starter[t].todo :
          StartPath(t, e) /\ x.path = e.path /\ x.attempt = e.attempt /\ x.id = Len(run) + 1

StarterFrom(x) == (\A e \in x.todo : ReadFrom(e)) /\ (x.at = "link" => LinkFrom(x))

Ready(x) == /\ x \in StarterType /\ StarterFrom(x)
            /\ x.at = "link" => x.id # 0 /\ x.attempt # 0 /\ x.path \in Path

HandlersMove == Handlers' /\ \A s \in Slot : StarterFrom(starter'[s])

LEMMA IdleIsReady == Ready(Idle) /\ Idle.at = "idle"
<1>1. Idle \in StarterType /\ Idle.at = "idle" /\ Idle.todo = {}
  BY BuildAssumption DEF Idle, StarterType
<1> QED BY <1>1 DEF Ready, StarterFrom

LEMMA StartersAreReady == ASSUME Types, NEW s \in Slot PROVE Ready(starter[s])
<1>1. starter[s] \in StarterType
  BY DEF Types, Handlers
<1> QED BY <1>1 DEF Types, Handlers, Ready, StarterFrom, ReadFrom, LinkFrom

LEMMA OneHandlerMoves ==
    ASSUME Types, NEW s \in Slot, NEW x, Ready(x), starter' = [starter EXCEPT ![s] = x],
           dispatches' \in Seq(BOOLEAN),
           s = "now" => (x.at # "idle" => dispatches' # <<>>),
           s = "late" => (starter["now"].at # "idle" => dispatches' # <<>>)
    PROVE  HandlersMove
<1>1. starter \in [Slot -> StarterType]
  BY DEF Types, Handlers
<1>2. \A t \in Slot : starter'[t] = IF t = s THEN x ELSE starter[t]
  BY <1>1
<1>3. \A t \in Slot : Ready(starter'[t])
  BY <1>2, StartersAreReady
<1>4. starter' \in [Slot -> StarterType]
  BY <1>1 DEF Ready
<1>5. starter'["now"].at # "idle" => dispatches' # <<>>
  BY <1>2 DEF Slot
<1> QED BY <1>3, <1>4, <1>5 DEF HandlersMove, Handlers, Ready

LEMMA ReceiveReady ==
    ASSUME Types, ReceiveDispatch
    PROVE  HandlersMove
<1> DEFINE todo == {[path |-> p, status |-> entry[p].status, attempt |-> entry[p].attempt] :
                      p \in {q \in Path : entry[q].status \in LivePath}}
           x == [Idle EXCEPT !.at = "loop", !.halted = head \in Halted,
                             !.recovering = Head(dispatches), !.todo = todo]
<1>1. todo \subseteq TodoType
  BY BuildAssumption DEF Types, Entries, EntryType, TodoType, Attempt
<1>2. \A e \in todo : ReadFrom(e)
  BY DEF ReadFrom
<1>3. starter' = [starter EXCEPT !["now"] = x] /\ dispatches # <<>> /\ dispatches' = dispatches
  BY DEF ReceiveDispatch
<1>4. Head(dispatches) \in BOOLEAN /\ (head \in Halted) \in BOOLEAN /\ dispatches \in Seq(BOOLEAN)
  BY <1>3, Queueing DEF Types, Handlers
<1> HIDE DEF todo
<1>5. Idle \in StarterType
  BY IdleIsReady DEF Ready
<1>6. x \in StarterType /\ x.at = "loop" /\ x.todo = todo
  BY <1>1, <1>4, <1>5 DEF StarterType
<1>7. Ready(x)
  BY <1>2, <1>6 DEF Ready, StarterFrom
<1> HIDE DEF x
<1> QED BY <1>3, <1>4, <1>7, OneHandlerMoves DEF Slot

LEMMA StartReady ==
    ASSUME Types, NEW s \in Slot, NEW e, StartPath(s, e)
    PROVE  HandlersMove
<1> DEFINE x == [starter[s] EXCEPT !.at = "link", !.todo = starter[s].todo \ {e}, !.path = e.path,
                                   !.attempt = e.attempt, !.id = Len(run) + 1]
<1>1. /\ e \in starter[s].todo /\ starter[s].at = "loop" /\ Len(run) < MaxBuild
      /\ dispatches' = dispatches
  BY DEF StartPath
<1>s. starter' = [starter EXCEPT ![s] = x]
  BY DEF StartPath
<1>2. starter[s] \in StarterType /\ e \in TodoType
  BY <1>1 DEF Types, Handlers, StarterType
<1>3. Len(run) + 1 \in 1..MaxBuild
  BY <1>1, BuildKeys, BuildAssumption DEF Types
<1>4. e.path \in Path /\ e.attempt \in 1..MaxAttempt
  BY <1>2 DEF TodoType, Attempt
<1>5. /\ x \in StarterType /\ x.at = "link" /\ x.todo = starter[s].todo \ {e}
      /\ x.path = e.path /\ x.attempt = e.attempt /\ x.id = Len(run) + 1
  <2> DEFINE n == Len(run) + 1
             y == [starter[s] EXCEPT !.at = "link", !.todo = starter[s].todo \ {e}, !.path = e.path,
                                     !.attempt = e.attempt, !.id = n]
  <2>1. n \in 0..MaxBuild /\ e.attempt \in 0..MaxAttempt
    BY <1>3, <1>4, BuildAssumption
  <2> HIDE DEF n
  <2>2. /\ y \in StarterType /\ y.at = "link" /\ y.todo = starter[s].todo \ {e}
        /\ y.path = e.path /\ y.attempt = e.attempt /\ y.id = n
    BY <1>2, <1>4, <2>1 DEF StarterType
  <2> QED BY <2>2 DEF n
<1> HIDE DEF x
<1>6. LinkFrom(x) /\ \A d \in x.todo : ReadFrom(d)
  BY <1>1, <1>5 DEF LinkFrom, ReadFrom
<1>7. Ready(x)
  BY <1>3, <1>4, <1>5, <1>6 DEF Ready, StarterFrom
<1>8. dispatches' \in Seq(BOOLEAN) /\ (starter["now"].at # "idle" => dispatches' # <<>>)
  BY <1>1 DEF Types, Handlers
<1>9. s = "now" => dispatches' # <<>>
  BY <1>1, <1>8
<1> QED BY <1>s, <1>7, <1>8, <1>9, OneHandlerMoves

LEMMA SkipReady ==
    ASSUME Types, NEW s \in Slot, NEW e, AlreadyDispatched(s, e) \/ EnsureSignal(s, e)
    PROVE  HandlersMove
<1> DEFINE x == [starter[s] EXCEPT !.todo = @ \ {e}]
<1>1. starter[s].at = "loop" /\ dispatches' = dispatches /\ starter' = [starter EXCEPT ![s].todo = @ \ {e}]
  BY DEF AlreadyDispatched, EnsureSignal
<1>2. starter[s] \in StarterType
  BY DEF Types, Handlers
<1>3. x \in StarterType /\ x.at = "loop" /\ x.todo = starter[s].todo \ {e}
  BY <1>1, <1>2 DEF StarterType
<1>4. starter' = [starter EXCEPT ![s] = x]
  BY <1>1
<1> HIDE DEF x
<1>5. Ready(x)
  BY <1>3 DEF Ready, StarterFrom, ReadFrom
<1>6. dispatches' \in Seq(BOOLEAN) /\ (starter["now"].at # "idle" => dispatches' # <<>>)
  BY <1>1 DEF Types, Handlers
<1>7. s = "now" => dispatches' # <<>>
  BY <1>1, <1>6
<1> QED BY <1>4, <1>5, <1>6, <1>7, OneHandlerMoves

LEMMA LinkReady ==
    ASSUME Types, NEW s \in Slot, LinkBuild(s)
    PROVE  HandlersMove
<1> DEFINE x == [starter[s] EXCEPT !.at = "loop", !.path = Idle.path, !.attempt = 0, !.id = 0]
<1>0. starter[s].at = "link" /\ dispatches \in Seq(BOOLEAN) /\ (starter["now"].at # "idle" => dispatches # <<>>)
  BY DEF LinkBuild, Types, Handlers
<1>1. starter[s] \in StarterType /\ 0 \in 0..MaxAttempt /\ 0 \in 0..MaxBuild
  BY BuildAssumption DEF Types, Handlers
<1>2. x \in StarterType /\ x.at = "loop" /\ x.todo = starter[s].todo
  BY <1>1 DEF StarterType
<1> DEFINE y == x
<1>3. Ready(y)
  BY <1>2 DEF Ready, StarterFrom, ReadFrom
<1>4. CASE starter' = [starter EXCEPT ![s] = y] /\ dispatches' = dispatches
  <2> HIDE DEF x, y
  <2>1. s = "now" => dispatches' # <<>>
    BY <1>0, <1>4
  <2> QED BY <1>0, <1>3, <1>4, <2>1, OneHandlerMoves
<1>5. CASE s = "now" /\ Redeliver /\ starter' = [starter EXCEPT !["now"] = Idle]
  <2>1. dispatches' \in Seq(BOOLEAN) /\ dispatches' # <<>>
    BY <1>0, <1>5, Queueing DEF Redeliver
  <2> QED BY <1>5, <2>1, IdleIsReady, OneHandlerMoves
<1> QED BY <1>4, <1>5 DEF LinkBuild

LEMMA EndReady ==
    ASSUME Types,
           \/ \E s \in Slot : FinishDispatch(s)
           \/ CrashDispatch \/ DeadLetterDispatch
    PROVE  HandlersMove
<1>0. dispatches \in Seq(BOOLEAN) /\ (starter["now"].at # "idle" => dispatches # <<>>)
  BY DEF Types, Handlers
<1>1. ASSUME starter["now"].at # "idle", starter' = [starter EXCEPT !["now"] = Idle],
             dispatches' = Tail(dispatches) \/ Redeliver
      PROVE  HandlersMove
  <2>1. dispatches' \in Seq(BOOLEAN)
    BY <1>0, <1>1, Queueing DEF Redeliver
  <2> QED BY <1>1, <2>1, IdleIsReady, OneHandlerMoves DEF Slot
<1>2. CASE FinishDispatch("now") \/ CrashDispatch \/ DeadLetterDispatch
  BY <1>1, <1>2 DEF FinishDispatch, CrashDispatch, DeadLetterDispatch
<1>3. CASE FinishDispatch("late")
  <2>1. starter' = [starter EXCEPT !["late"] = Idle] /\ dispatches' = dispatches
    BY <1>3 DEF FinishDispatch
  <2> QED BY <1>0, <2>1, IdleIsReady, OneHandlerMoves DEF Slot
<1> QED BY <1>2, <1>3 DEF Slot

LEMMA ExpireReady ==
    ASSUME Types, ExpireDispatch
    PROVE  HandlersMove
<1>1. /\ starter' = [starter EXCEPT !["late"] = starter["now"], !["now"] = Idle]
      /\ starter["now"].at # "idle" /\ Redeliver
  BY DEF ExpireDispatch
<1>2. starter \in [Slot -> StarterType] /\ dispatches \in Seq(BOOLEAN) /\ dispatches # <<>>
  BY <1>1 DEF Types, Handlers
<1>3. starter'["late"] = starter["now"] /\ starter'["now"] = Idle /\ DOMAIN starter' = Slot
  BY <1>1, <1>2 DEF Slot
<1>4. \A t \in Slot : Ready(starter'[t])
  BY <1>3, IdleIsReady, StartersAreReady DEF Slot
<1>5. starter' \in [Slot -> StarterType]
  BY <1>1, <1>2, <1>4, IdleIsReady DEF Ready, Slot
<1>6. dispatches' \in Seq(BOOLEAN) /\ dispatches' # <<>>
  BY <1>1, <1>2, Queueing DEF Redeliver
<1> QED BY <1>4, <1>5, <1>6 DEF HandlersMove, Handlers, Ready

LEMMA HandlersStep ==
    ASSUME Types, [Next]_vars
    PROVE  HandlersMove
<1>1. ASSUME NEW s \in Slot, StartStep(s) PROVE HandlersMove
  BY <1>1, StartReady, SkipReady, LinkReady, EndReady DEF StartStep
<1>2. CASE CrashDispatch \/ ExpireDispatch \/ DeadLetterDispatch \/ ReceiveDispatch
  BY <1>2, EndReady, ExpireReady, ReceiveReady
<1>3. ASSUME UNCHANGED starter, dispatches' \in Seq(BOOLEAN), dispatches # <<>> => dispatches' # <<>>
      PROVE  HandlersMove
  BY <1>3, StartersAreReady DEF HandlersMove, Handlers, Ready, Types
<1>4. dispatches \in Seq(BOOLEAN)
  BY DEF Types, Handlers
<1>5. CASE Speculate
  BY <1>3, <1>5, SpeculateMoves DEF Speculate
<1>6. ASSUME NEW b, NEW s, PollStep(b, s) PROVE HandlersMove
  BY <1>3, <1>4, <1>6 DEF PollStep, PollStop, PollWrite, PollRejected
<1>7. ASSUME NEW b, NEW status, PollStatus(b) \/ RunnerMoves(b, status) PROVE HandlersMove
  BY <1>3, <1>4, <1>7 DEF PollStatus, RunnerMoves
<1>8. ASSUME NEW b, CrashPoll(b) \/ ExpirePoll(b) \/ DeadLetterPoll(b) \/ Collect(b) PROVE HandlersMove
  BY <1>3, <1>4, <1>8 DEF CrashPoll, ExpirePoll, DeadLetterPoll, Collect
<1>9. CASE Nudge \/ CancelBatch \/ UNCHANGED vars
  BY <1>3, <1>4, <1>9 DEF Nudge, CancelBatch, vars
<1> QED BY <1>1, <1>2, <1>5, <1>6, <1>7, <1>8, <1>9 DEF Next, Event

-----------------------------------------------------------------------------
(* The polls.                                                               *)

\* A poll carries what the runner said of the build, and of the batch, then.
PollFrom(b, x) ==
    x.at # "idle" =>
        \/ \E t \in Slot : /\ poll[<<b, t>>].at # "idle"
                           /\ x.status = poll[<<b, t>>].status /\ x.halted = poll[<<b, t>>].halted
        \/ b \in Builds /\ x.status = run[b].status /\ x.halted = (head \in Halted)

PollsMove == Polls' /\ \A b \in BuildIDs, s \in Slot : PollFrom(b, poll'[<<b, s>>])

LEMMA PollsKept == ASSUME UNCHANGED poll, Types PROVE PollsMove
  BY DEF PollsMove, Polls, PollFrom, Types

LEMMA OnePollMoves ==
    ASSUME Types, NEW b \in BuildIDs, NEW s \in Slot, NEW x \in PollType, PollFrom(b, x),
           poll' = [poll EXCEPT ![<<b, s>>] = x]
    PROVE  PollsMove
<1>1. poll \in [BuildIDs \X Slot -> PollType] /\ <<b, s>> \in BuildIDs \X Slot
  BY DEF Types, Polls
<1>2. poll' \in [BuildIDs \X Slot -> PollType]
  BY <1>1
<1>3. ASSUME NEW c \in BuildIDs, NEW t \in Slot PROVE PollFrom(c, poll'[<<c, t>>])
  <2>1. <<c, t>> \in BuildIDs \X Slot
    OBVIOUS
  <2>2. CASE c = b /\ t = s
    BY <1>1, <2>2
  <2>3. CASE ~(c = b /\ t = s)
    <3>1. poll'[<<c, t>>] = poll[<<c, t>>]
      BY <1>1, <2>1, <2>3
    <3> QED BY <3>1 DEF PollFrom
  <2> QED BY <2>2, <2>3
<1> QED BY <1>2, <1>3 DEF PollsMove, Polls

LEMMA NoPollType == NoPoll \in PollType /\ NoPoll.at = "idle"
  BY DEF NoPoll, PollType

LEMMA PollEnds ==
    ASSUME Types, NEW b \in Builds, NEW s \in Slot, poll' = [poll EXCEPT ![<<b, s>>] = NoPoll]
    PROVE  PollsMove
<1>1. b \in BuildIDs
  BY BuildKeys DEF Types
<1>2. PollFrom(b, NoPoll)
  BY NoPollType DEF PollFrom
<1> QED BY <1>1, <1>2, NoPollType, OnePollMoves

LEMMA PollBegins ==
    ASSUME Types, NEW b \in Builds, PollStatus(b)
    PROVE  PollsMove
<1> DEFINE x == [at |-> IF run[b].status \in TerminalStatus THEN "write" ELSE "stop",
                 was |-> record[b], status |-> run[b].status, halted |-> head \in Halted]
<1>1. b \in BuildIDs /\ run[b] \in RunType
  BY BuildKeys DEF Types
<1>2. record[b] \in {"none"} \cup BuildStatus /\ run[b].status \in BuildStatus
  BY <1>1 DEF Types, TypeOK, RunType
<1>3. (head \in Halted) \in BOOLEAN
  OBVIOUS
<1>4. x \in PollType /\ x.status = run[b].status
  BY <1>2, <1>3 DEF PollType
<1>5. x.halted = (head \in Halted)
  OBVIOUS
<1>6. poll' = [poll EXCEPT ![<<b, "now">>] = x]
  BY DEF PollStatus
<1> HIDE DEF x
<1>7. PollFrom(b, x)
  BY <1>4, <1>5 DEF PollFrom
<1> QED BY <1>1, <1>4, <1>6, <1>7, OnePollMoves DEF Slot

LEMMA PollStops ==
    ASSUME Types, NEW b \in Builds, NEW s \in Slot, PollStop(b, s)
    PROVE  PollsMove
<1> DEFINE x == [poll[<<b, s>>] EXCEPT !.at = "write"]
<1>1. b \in BuildIDs
  BY BuildKeys DEF Types
<1>2. poll[<<b, s>>] \in PollType /\ poll[<<b, s>>].at = "stop"
  BY <1>1 DEF Types, Polls, PollStop
<1>3. x \in PollType /\ x.status = poll[<<b, s>>].status /\ x.halted = poll[<<b, s>>].halted
  BY <1>2 DEF PollType
<1>4. poll' = [poll EXCEPT ![<<b, s>>] = x]
  BY DEF PollStop
<1> HIDE DEF x
<1>5. PollFrom(b, x)
  BY <1>2, <1>3 DEF PollFrom
<1> QED BY <1>1, <1>3, <1>4, <1>5, OnePollMoves

LEMMA PollExpires ==
    ASSUME Types, NEW b \in Builds, ExpirePoll(b)
    PROVE  PollsMove
<1>1. /\ b \in BuildIDs /\ poll \in [BuildIDs \X Slot -> PollType]
      /\ <<b, "now">> \in BuildIDs \X Slot /\ <<b, "late">> \in BuildIDs \X Slot
  BY BuildKeys DEF Types, Polls, Slot
<1>2. /\ poll[<<b, "now">>].at # "idle"
      /\ poll' = [poll EXCEPT ![<<b, "late">>] = poll[<<b, "now">>], ![<<b, "now">>] = NoPoll]
  BY DEF ExpirePoll
<1>3. /\ poll' \in [BuildIDs \X Slot -> PollType]
      /\ poll'[<<b, "late">>] = poll[<<b, "now">>] /\ poll'[<<b, "now">>] = NoPoll
  BY <1>1, <1>2, NoPollType
<1>4. ASSUME NEW c \in BuildIDs, NEW t \in Slot PROVE PollFrom(c, poll'[<<c, t>>])
  <2>1. CASE c = b /\ t = "now"
    BY <1>3, <2>1, NoPollType DEF PollFrom
  <2>2. CASE c = b /\ t = "late"
    BY <1>2, <1>3, <2>2 DEF PollFrom, Slot
  <2>3. CASE c # b
    <3>1. poll'[<<c, t>>] = poll[<<c, t>>]
      BY <1>1, <1>2, <2>3
    <3> QED BY <3>1 DEF PollFrom
  <2> QED BY <2>1, <2>2, <2>3 DEF Slot
<1> QED BY <1>3, <1>4 DEF PollsMove, Polls

LEMMA PollsStep ==
    ASSUME Types, [Next]_vars
    PROVE  PollsMove
<1>1. ASSUME NEW b \in Builds, NEW s \in Slot, PollStep(b, s) PROVE PollsMove
  BY <1>1, PollStops, PollEnds DEF PollStep, PollWrite, PollRejected
<1>2. ASSUME NEW b \in Builds, CrashPoll(b) \/ DeadLetterPoll(b) PROVE PollsMove
  BY <1>2, PollEnds DEF CrashPoll, DeadLetterPoll, Slot
<1>3. ASSUME NEW b \in Builds, PollStatus(b) \/ ExpirePoll(b) PROVE PollsMove
  BY <1>3, PollBegins, PollExpires
<1>4. ASSUME NEW b \in Builds, NEW status, Collect(b) \/ RunnerMoves(b, status) PROVE PollsMove
  BY <1>4, PollsKept DEF Collect, RunnerMoves
<1>5. ASSUME NEW s \in Slot, StartStep(s) PROVE PollsMove
  <2>1. UNCHANGED poll
    BY <1>5 DEF StartStep, StartPath, AlreadyDispatched, EnsureSignal, LinkBuild, FinishDispatch
  <2> QED BY <2>1, PollsKept
<1>6. CASE \/ Speculate \/ ReceiveDispatch \/ CrashDispatch \/ ExpireDispatch \/ DeadLetterDispatch
           \/ Nudge \/ CancelBatch \/ UNCHANGED vars
  <2>1. UNCHANGED poll
    BY <1>6 DEF Speculate, ReceiveDispatch, CrashDispatch, ExpireDispatch, DeadLetterDispatch, Nudge,
                CancelBatch, vars
  <2> QED BY <2>1, PollsKept
<1> QED BY <1>1, <1>2, <1>3, <1>4, <1>5, <1>6 DEF Next, Event

-----------------------------------------------------------------------------
(* Records and links.                                                       *)

\* A record takes what a poll was told, a fresh build's start aside.
RecordsMove ==
    /\ record' \in [BuildIDs -> {"none"} \cup BuildStatus]
    /\ \A b \in BuildIDs :
          \/ record'[b] = record[b] \/ record'[b] = "accepted"
          \/ \E s \in Slot : poll[<<b, s>>].at = "write" /\ record'[b] = poll[<<b, s>>].status

\* A link is written once, to the build its dispatch started.
LinksMove ==
    /\ link' \in [Path \X Attempt -> 0..MaxBuild]
    /\ \A pa \in Path \X Attempt :
          \/ link'[pa] = link[pa]
          \/ /\ link[pa] = 0
             /\ \E s \in Slot : /\ starter[s].at = "link" /\ link'[pa] = starter[s].id
                                /\ pa = <<starter[s].path, starter[s].attempt>>

LEMMA StoresStep ==
    ASSUME Types, [Next]_vars
    PROVE  RecordsMove /\ LinksMove
<1>0. record \in [BuildIDs -> {"none"} \cup BuildStatus] /\ link \in [Path \X Attempt -> 0..MaxBuild]
  BY DEF Types, TypeOK
<1>1. ASSUME UNCHANGED record PROVE RecordsMove
  BY <1>0, <1>1 DEF RecordsMove
<1>2. ASSUME UNCHANGED link PROVE LinksMove
  BY <1>0, <1>2 DEF LinksMove
<1>3. ASSUME NEW s \in Slot, LinkBuild(s) PROVE RecordsMove /\ LinksMove
  <2> DEFINE b == starter[s].id
             pa == <<starter[s].path, starter[s].attempt>>
  <2>1. starter[s].at = "link" /\ starter[s] \in StarterType
    BY <1>3 DEF LinkBuild, Types, Handlers
  <2>2. b \in 1..MaxBuild /\ pa \in Path \X Attempt
    BY <2>1, BuildAssumption DEF Types, Handlers, StarterType, Attempt
  <2>3. /\ record' = [record EXCEPT ![b] = "accepted"]
        /\ link' = IF link[pa] = 0 THEN [link EXCEPT ![pa] = b] ELSE link
    BY <1>3 DEF LinkBuild
  <2>4. RecordsMove
    BY <1>0, <2>2, <2>3 DEF RecordsMove, BuildStatus, BuildIDs
  <2>5. ASSUME NEW x, x = b PROVE LinksMove
    <3>1. link' = IF link[pa] = 0 THEN [link EXCEPT ![pa] = x] ELSE link
      BY <2>3, <2>5
    <3>2. link' \in [Path \X Attempt -> 0..MaxBuild]
      BY <1>0, <2>2, <2>5, <3>1
    <3>3. \A qa \in Path \X Attempt : link'[qa] = link[qa] \/ (qa = pa /\ link[pa] = 0 /\ link'[pa] = x)
      BY <1>0, <2>2, <3>1
    <3> QED BY <2>1, <2>5, <3>2, <3>3 DEF LinksMove
  <2> QED BY <2>4, <2>5
<1>4. ASSUME NEW b \in Builds, NEW s \in Slot, PollWrite(b, s) PROVE RecordsMove /\ UNCHANGED link
  <2>1. b \in BuildIDs
    BY BuildKeys DEF Types
  <2>2. /\ poll[<<b, s>>].at = "write" /\ UNCHANGED link
        /\ record' = record \/ record' = [record EXCEPT ![b] = poll[<<b, s>>].status]
    BY <1>4 DEF PollWrite
  <2>3. poll[<<b, s>>] \in PollType
    BY <2>1 DEF Types, Polls
  <2>4. poll[<<b, s>>].status \in {"none"} \cup BuildStatus
    BY <2>3 DEF PollType
  <2> QED BY <1>0, <2>1, <2>2, <2>4 DEF RecordsMove
<1>5. ASSUME NEW s \in Slot, StartStep(s), ~LinkBuild(s) PROVE UNCHANGED <<record, link>>
  BY <1>5 DEF StartStep, StartPath, AlreadyDispatched, EnsureSignal, FinishDispatch, stores
<1>6. ASSUME NEW b, NEW s, PollStop(b, s) \/ PollRejected(b, s) PROVE UNCHANGED <<record, link>>
  BY <1>6 DEF PollStop, PollRejected, stores
<1>7. ASSUME NEW b, NEW status, PollStatus(b) \/ RunnerMoves(b, status) PROVE UNCHANGED <<record, link>>
  BY <1>7 DEF PollStatus, RunnerMoves, stores
<1>8. CASE Event
  <2>1. ASSUME NEW b, CrashPoll(b) \/ ExpirePoll(b) \/ DeadLetterPoll(b) \/ Collect(b)
        PROVE  UNCHANGED <<record, link>>
    BY <2>1 DEF CrashPoll, ExpirePoll, DeadLetterPoll, Collect, stores
  <2>2. UNCHANGED <<record, link>>
    BY <1>8, <2>1 DEF Event, CrashDispatch, ExpireDispatch, DeadLetterDispatch, Nudge, CancelBatch, stores
  <2> QED BY <1>1, <1>2, <2>2
<1>9. CASE Speculate \/ ReceiveDispatch \/ UNCHANGED vars
  BY <1>1, <1>2, <1>9 DEF Speculate, ReceiveDispatch, vars, stores
<1> QED BY <1>1, <1>2, <1>3, <1>4, <1>5, <1>6, <1>7, <1>8, <1>9 DEF Next, PollStep

\* Signals name builds; events are counted.
LEMMA SignalsStep ==
    ASSUME Types, [Next]_vars
    PROVE  signals' \subseteq BuildIDs /\ sent' \subseteq BuildIDs /\ events' \in 0..MaxEvents
<1>0. signals \subseteq BuildIDs /\ sent \subseteq BuildIDs /\ events \in 0..MaxEvents
  BY DEF Types, TypeOK
<1>1. ASSUME events' = events + 1, events < MaxEvents PROVE events' \in 0..MaxEvents
  BY <1>0, <1>1, BuildAssumption
<1>2. ASSUME NEW bs, bs \subseteq BuildIDs, PublishBuildSignals(bs)
      PROVE  signals' \subseteq BuildIDs /\ sent' \subseteq BuildIDs
  BY <1>0, <1>2 DEF PublishBuildSignals
<1>3. ASSUME NEW s \in Slot, NEW e \in starter[s].todo, AlreadyDispatched(s, e) \/ EnsureSignal(s, e)
      PROVE  signals' \subseteq BuildIDs /\ sent' \subseteq BuildIDs /\ events' \in 0..MaxEvents
  <2>1. e \in TodoType
    BY DEF Types, Handlers, StarterType
  <2>2. <<e.path, e.attempt>> \in Path \X Attempt
    BY <2>1 DEF TodoType
  <2>3. link[<<e.path, e.attempt>>] # 0 => {link[<<e.path, e.attempt>>]} \subseteq BuildIDs
    BY <2>2, BuildAssumption DEF Types, TypeOK, BuildIDs
  <2>4. /\ UNCHANGED events
        /\ \/ NoSignal
           \/ /\ link[<<e.path, e.attempt>>] # 0
              /\ PublishBuildSignals({link[<<e.path, e.attempt>>]})
    BY <1>3 DEF AlreadyDispatched, EnsureSignal
  <2> QED BY <1>0, <1>2, <2>3, <2>4 DEF NoSignal
<1>4. ASSUME NEW s \in Slot, LinkBuild(s)
      PROVE  signals' \subseteq BuildIDs /\ sent' \subseteq BuildIDs /\ events' \in 0..MaxEvents
  <2> DEFINE b == starter[s].id
             pa == <<starter[s].path, starter[s].attempt>>
  <2>1. starter[s].at = "link" /\ starter[s] \in StarterType
    BY <1>4 DEF LinkBuild, Types, Handlers
  <2>2. b \in BuildIDs /\ pa \in Path \X Attempt
    BY <2>1, BuildAssumption DEF Types, Handlers, StarterType, Attempt, BuildIDs
  <2>3. link' = IF link[pa] = 0 THEN [link EXCEPT ![pa] = b] ELSE link
    BY <1>4 DEF LinkBuild
  <2>4. link'[pa] \in BuildIDs
    <3>1. link \in [Path \X Attempt -> 0..MaxBuild]
      BY DEF Types, TypeOK
    <3> HIDE DEF b, pa
    <3>2. CASE link[pa] = 0
      BY <2>2, <2>3, <3>1, <3>2
    <3>3. CASE link[pa] # 0
      BY <2>2, <2>3, <3>1, <3>3, BuildAssumption DEF BuildIDs
    <3> QED BY <3>2, <3>3
  <2>5. HandedOver(b, link'[pa]) \subseteq BuildIDs
    BY <2>2, <2>4 DEF HandedOver
  <2>6. \/ PublishBuildSignals(HandedOver(b, link'[pa])) /\ UNCHANGED events
        \/ NoSignal /\ CanHappen("crash") /\ events' = events + 1
    BY <1>4 DEF LinkBuild
  <2> HIDE DEF b, pa
  <2>7. CASE PublishBuildSignals(HandedOver(b, link'[pa])) /\ UNCHANGED events
    BY <1>0, <1>2, <2>5, <2>7
  <2>8. CASE NoSignal /\ CanHappen("crash") /\ events' = events + 1
    BY <1>0, <1>1, <2>8 DEF NoSignal, CanHappen
  <2> QED BY <2>6, <2>7, <2>8
<1>5. ASSUME NEW s \in Slot, NEW e, StartPath(s, e) \/ FinishDispatch(s) PROVE UNCHANGED <<signals, sent, events>>
  BY <1>5 DEF StartPath, FinishDispatch
<1>6. ASSUME NEW b \in Builds, NEW s \in Slot, PollStep(b, s)
      PROVE  signals' \subseteq BuildIDs /\ sent' \subseteq BuildIDs /\ events' \in 0..MaxEvents
  <2>1. /\ signals' = signals \/ signals' = signals \ {b}
        /\ UNCHANGED sent
        /\ UNCHANGED events \/ (CanHappen("crash") /\ events' = events + 1)
    BY <1>6 DEF PollStep, PollStop, PollWrite, PollRejected
  <2> QED BY <1>0, <1>1, <2>1 DEF CanHappen
<1>7. ASSUME NEW b, NEW status, PollStatus(b) \/ RunnerMoves(b, status) PROVE UNCHANGED <<signals, sent, events>>
  BY <1>7 DEF PollStatus, RunnerMoves
<1>8. CASE Event
  <2>1. /\ signals' \subseteq signals /\ sent' \subseteq sent
        /\ events' = events + 1 /\ events < MaxEvents
    <3>1. ASSUME NEW b, CrashPoll(b) \/ ExpirePoll(b) \/ DeadLetterPoll(b) \/ Collect(b)
          PROVE  /\ signals' \subseteq signals /\ sent' \subseteq sent
                 /\ events' = events + 1 /\ events < MaxEvents
      BY <3>1 DEF CrashPoll, ExpirePoll, DeadLetterPoll, Collect, CanHappen
    <3> QED BY <1>8, <3>1 DEF Event, CrashDispatch, ExpireDispatch, DeadLetterDispatch, Nudge, CancelBatch, CanHappen
  <2> QED BY <1>0, <1>1, <2>1
<1>9. CASE Speculate \/ ReceiveDispatch \/ UNCHANGED vars
  BY <1>0, <1>9 DEF Speculate, ReceiveDispatch, vars
<1> QED BY <1>0, <1>3, <1>4, <1>5, <1>6, <1>7, <1>8, <1>9 DEF Next, StartStep

LEMMA TypesStep ==
    ASSUME Types, [Next]_vars
    PROVE  Types'
<1>1. Entries'
  BY EntriesMove DEF Entries, Advances
<1>2. Runs' /\ Handlers' /\ Polls'
  BY RunsMove, HandlersStep, PollsStep DEF HandlersMove, PollsMove
<1>3. \A p \in Path : /\ entry'[p].status \in {"none"} \cup LivePath \cup TerminalPath
                      /\ entry'[p].attempt \in 0..MaxAttempt
  BY <1>1 DEF Entries, EntryType, PathStatus
<1>4. \A b \in Builds' : run'[b].status \in BuildStatus
  <2>1. run' \in Seq(RunType) /\ Builds' = DOMAIN run'
    BY <1>2 DEF Runs, Builds
  <2>2. \A b \in Builds' : run'[b] \in RunType
    BY <2>1
  <2> QED BY <2>2 DEF RunType
<1>5. TypeOK'
  BY <1>3, <1>4, HeadMoves, StoresStep, SignalsStep DEF TypeOK, RecordsMove, LinksMove
<1> QED BY <1>1, <1>2, <1>5 DEF Types

-----------------------------------------------------------------------------
(* Passed paths.                                                            *)

\* A poll that was told a build has ended was told the truth, and so the record.
TruthfulPolls ==
    \A b \in BuildIDs, s \in Slot :
        poll[<<b, s>>].at # "idle" /\ poll[<<b, s>>].status \in TerminalStatus =>
            b \in Builds /\ run[b].status = poll[<<b, s>>].status

TruthfulRecords ==
    \A b \in BuildIDs : record[b] \in TerminalStatus => b \in Builds /\ run[b].status = record[b]

\* What an attempt is linked to is a build of that attempt.
LinkedIsOwn ==
    /\ \A s \in Slot : starter[s].at = "link" =>
          /\ starter[s].id \in Builds
          /\ run[starter[s].id].path = starter[s].path
          /\ run[starter[s].id].attempt = starter[s].attempt
    /\ \A p \in Path, a \in Attempt : link[<<p, a>>] # 0 =>
          /\ link[<<p, a>>] \in Builds
          /\ run[link[<<p, a>>]].path = p /\ run[link[<<p, a>>]].attempt = a

PassedIsEarned ==
    \A p \in Path : entry[p].status = "passed" =>
        /\ entry[p].attempt \in Attempt
        /\ link[<<p, entry[p].attempt>>] \in Builds
        /\ run[link[<<p, entry[p].attempt>>]].status = "succeeded"

LEMMA TruthStep ==
    ASSUME Types, TruthfulPolls, TruthfulRecords, [Next]_vars
    PROVE  TruthfulPolls' /\ TruthfulRecords'
<1>1. BuildsAdvance
  BY RunsMove
<1>2. ASSUME NEW b \in BuildIDs, NEW s \in Slot,
             poll'[<<b, s>>].at # "idle", poll'[<<b, s>>].status \in TerminalStatus
      PROVE  b \in Builds' /\ run'[b].status = poll'[<<b, s>>].status
  <2>1. PollFrom(b, poll'[<<b, s>>])
    BY PollsStep DEF PollsMove
  <2>2. b \in Builds /\ run[b].status = poll'[<<b, s>>].status
    BY <1>2, <2>1 DEF PollFrom, TruthfulPolls
  <2> QED BY <1>1, <1>2, <2>2 DEF BuildsAdvance
<1>3. ASSUME NEW b \in BuildIDs, record'[b] \in TerminalStatus
      PROVE  b \in Builds' /\ run'[b].status = record'[b]
  <2>1. \/ record'[b] = record[b] \/ record'[b] = "accepted"
        \/ \E s \in Slot : poll[<<b, s>>].at = "write" /\ record'[b] = poll[<<b, s>>].status
    BY StoresStep DEF RecordsMove
  <2>2. b \in Builds /\ run[b].status = record'[b]
    BY <1>3, <2>1 DEF TruthfulPolls, TruthfulRecords, TerminalStatus
  <2> QED BY <1>1, <1>3, <2>2 DEF BuildsAdvance
<1> QED BY <1>2, <1>3 DEF TruthfulPolls, TruthfulRecords

LEMMA LinkedStep ==
    ASSUME Types, LinkedIsOwn, [Next]_vars
    PROVE  LinkedIsOwn'
<1>1. BuildsAdvance
  BY RunsMove
<1>2. ASSUME NEW s \in Slot, starter'[s].at = "link"
      PROVE  /\ starter'[s].id \in Builds'
             /\ run'[starter'[s].id].path = starter'[s].path
             /\ run'[starter'[s].id].attempt = starter'[s].attempt
  <2>1. LinkFrom(starter'[s])
    BY <1>2, HandlersStep DEF HandlersMove, StarterFrom
  <2>2. CASE \E t \in Slot : /\ starter[t].at = "link" /\ starter'[s].id = starter[t].id
                             /\ starter'[s].path = starter[t].path /\ starter'[s].attempt = starter[t].attempt
    BY <1>1, <2>2 DEF LinkedIsOwn, BuildsAdvance
  <2>3. ASSUME NEW t \in Slot, NEW e \in starter[t].todo, StartPath(t, e), starter'[s].path = e.path,
               starter'[s].attempt = e.attempt, starter'[s].id = Len(run) + 1
        PROVE  /\ starter'[s].id \in Builds'
               /\ run'[starter'[s].id].path = starter'[s].path
               /\ run'[starter'[s].id].attempt = starter'[s].attempt
    <3> DEFINE new == [path |-> e.path, attempt |-> e.attempt, status |-> "accepted", stop |-> FALSE]
    <3>1. run' = Append(run, new)
      BY <2>3 DEF StartPath
    <3>2. e \in TodoType
      BY DEF Types, Handlers, StarterType
    <3>3. new \in RunType /\ new.path = e.path /\ new.attempt = e.attempt
      BY <3>2 DEF TodoType, RunType, BuildStatus
    <3>4. run \in Seq(RunType) /\ run' \in Seq(RunType)
      BY RunsMove DEF Types, Runs
    <3> HIDE DEF new
    <3>5. Len(run') = Len(run) + 1 /\ run'[Len(run) + 1] = new /\ Len(run) \in Nat
      BY <3>1, <3>3, <3>4
    <3>6. Builds' = 1..Len(run')
      BY <3>4 DEF Builds
    <3> QED BY <2>3, <3>3, <3>5, <3>6
  <2> QED BY <2>1, <2>2, <2>3 DEF LinkFrom
<1>3. ASSUME NEW p \in Path, NEW a \in Attempt, link'[<<p, a>>] # 0
      PROVE  /\ link'[<<p, a>>] \in Builds'
             /\ run'[link'[<<p, a>>]].path = p /\ run'[link'[<<p, a>>]].attempt = a
  <2>1. <<p, a>> \in Path \X Attempt
    OBVIOUS
  <2>2. \/ link'[<<p, a>>] = link[<<p, a>>]
        \/ \E s \in Slot : /\ starter[s].at = "link" /\ link'[<<p, a>>] = starter[s].id
                           /\ <<p, a>> = <<starter[s].path, starter[s].attempt>>
    BY <2>1, StoresStep DEF LinksMove
  <2>3. /\ link'[<<p, a>>] \in Builds
        /\ run[link'[<<p, a>>]].path = p /\ run[link'[<<p, a>>]].attempt = a
    BY <1>3, <2>2 DEF LinkedIsOwn
  <2> QED BY <1>1, <2>3 DEF BuildsAdvance
<1> QED BY <1>2, <1>3 DEF LinkedIsOwn

LEMMA PassedStep ==
    ASSUME Types, TruthfulRecords, PassedIsEarned, [Next]_vars
    PROVE  PassedIsEarned'
<1> SUFFICES ASSUME NEW p \in Path, entry'[p].status = "passed"
             PROVE  /\ entry'[p].attempt \in Attempt
                    /\ link'[<<p, entry'[p].attempt>>] \in Builds'
                    /\ run'[link'[<<p, entry'[p].attempt>>]].status = "succeeded"
  BY DEF PassedIsEarned
<1> DEFINE a == entry[p].attempt
           b == link[<<p, a>>]
<1>1. Advances(entry[p], entry'[p], LinkSucceeded(p))
  BY EntriesMove
<1>2. entry'[p].attempt = a /\ (entry[p].status = "passed" \/ LinkSucceeded(p))
  BY <1>1 DEF Advances
<1>3. a \in Attempt /\ b \in Builds /\ run[b].status = "succeeded"
  <2>1. CASE entry[p].status = "passed"
    BY <2>1 DEF PassedIsEarned
  <2>2. CASE LinkSucceeded(p)
    <3>1. entry[p] \in EntryType
      BY DEF Types, Entries
    <3>2. a \in Attempt /\ <<p, a>> \in Path \X Attempt
      BY <2>2, <3>1, BuildAssumption DEF LinkSucceeded, EntryType, Attempt
    <3>3. b \in BuildIDs /\ record[b] = "succeeded"
      BY <2>2, <3>2, BuildAssumption DEF LinkSucceeded, Types, TypeOK, BuildIDs
    <3> QED BY <3>2, <3>3 DEF TruthfulRecords, TerminalStatus
  <2> QED BY <1>2, <2>1, <2>2
<1>4. <<p, a>> \in Path \X Attempt /\ b # 0
  BY <1>3, BuildKeys DEF Types, BuildIDs
<1>5. link'[<<p, a>>] = b
  BY <1>4, StoresStep DEF LinksMove
<1>6. b \in Builds' /\ run'[b].status = "succeeded"
  BY <1>3, RunsMove DEF BuildsAdvance, TerminalStatus
<1> HIDE DEF a, b
<1> QED BY <1>2, <1>3, <1>5, <1>6

-----------------------------------------------------------------------------
(* Builds asked to stop.                                                    *)

\* Attempts only rise, so a build or a handler never runs ahead of its entry.
AttemptsRise ==
    /\ \A b \in Builds : run[b].attempt <= entry[run[b].path].attempt
    /\ \A s \in Slot : \A e \in starter[s].todo : e.attempt <= entry[e.path].attempt

\* A poll that saw the batch halted was right, and it is halted still.
HaltIsSeen ==
    \A b \in BuildIDs, s \in Slot :
        poll[<<b, s>>].at # "idle" /\ poll[<<b, s>>].halted => head \in Halted

\* Nothing will want the build again.
PastWanting(b) ==
    LET e == entry[run[b].path]
        l == link[<<run[b].path, run[b].attempt>>]
    IN \/ head \in Halted
       \/ e.attempt > run[b].attempt
       \/ e.attempt = run[b].attempt /\ e.status \in Closing
       \/ l # 0 /\ l # b

StoppedIsUnwanted == \A b \in Builds : run[b].stop => PastWanting(b)

LEMMA RiseStep ==
    ASSUME Types, AttemptsRise, [Next]_vars
    PROVE  AttemptsRise'
<1>0. \A p \in Path : /\ entry[p].attempt \in Nat /\ entry'[p].attempt \in Nat
                      /\ entry[p].attempt <= entry'[p].attempt
  <2>1. \A p \in Path : /\ entry[p] \in EntryType /\ entry'[p] \in EntryType
                        /\ entry'[p].attempt >= entry[p].attempt
    BY EntriesMove DEF Types, Entries, Advances
  <2> QED BY <2>1, BuildAssumption DEF EntryType
<1>1. /\ \A s \in Slot : \A e \in starter[s].todo : e \in TodoType
      /\ \A b \in Builds : run[b] \in RunType
  BY BuildKeys DEF Types, Handlers, StarterType
<1>2. ASSUME NEW s \in Slot, NEW e \in starter'[s].todo PROVE e.attempt <= entry'[e.path].attempt
  <2>1. ReadFrom(e)
    BY HandlersStep DEF HandlersMove, StarterFrom
  <2>2. CASE \E t \in Slot : e \in starter[t].todo
    <3>1. e \in TodoType /\ e.attempt <= entry[e.path].attempt
      BY <1>1, <2>2 DEF AttemptsRise
    <3>2. e.attempt \in Nat /\ e.path \in Path
      BY <3>1, BuildAssumption DEF TodoType, Attempt
    <3> QED BY <1>0, <3>1, <3>2
  <2>3. CASE \E p \in Path : e = [path |-> p, status |-> entry[p].status, attempt |-> entry[p].attempt]
    BY <1>0, <2>3
  <2> QED BY <2>1, <2>2, <2>3 DEF ReadFrom
<1>3. \A b \in Builds : /\ run'[b].attempt <= entry'[run'[b].path].attempt
  <2> SUFFICES ASSUME NEW b \in Builds PROVE run'[b].attempt <= entry'[run'[b].path].attempt
    OBVIOUS
  <2>1. run'[b].path = run[b].path /\ run'[b].attempt = run[b].attempt
    BY RunsMove DEF BuildsAdvance
  <2>2. run[b].path \in Path /\ run[b].attempt \in Nat
    BY <1>1, BuildAssumption DEF RunType, Attempt
  <2> QED BY <1>0, <2>1, <2>2 DEF AttemptsRise
<1>4. ASSUME NEW s \in Slot, NEW e \in starter[s].todo, StartPath(s, e), NEW b \in Builds', b \notin Builds
      PROVE  run'[b].attempt <= entry'[run'[b].path].attempt
  <2> DEFINE new == [path |-> e.path, attempt |-> e.attempt, status |-> "accepted", stop |-> FALSE]
  <2>1. run' = Append(run, new)
    BY <1>4 DEF StartPath
  <2>2. e \in TodoType
    BY <1>1
  <2>3. new \in RunType /\ new.path = e.path /\ new.attempt = e.attempt
    BY <2>2 DEF TodoType, RunType, BuildStatus
  <2>4. run \in Seq(RunType) /\ run' \in Seq(RunType)
    BY RunsMove DEF Types, Runs
  <2> HIDE DEF new
  <2>5. b = Len(run) + 1 /\ run'[b] = new
    BY <1>4, <2>1, <2>3, <2>4 DEF Builds
  <2>6. e.attempt \in Nat /\ e.path \in Path /\ e.attempt <= entry[e.path].attempt
    BY <2>2, BuildAssumption DEF TodoType, Attempt, AttemptsRise
  <2> QED BY <1>0, <2>3, <2>5, <2>6
<1>5. ASSUME NEW b \in Builds' PROVE run'[b].attempt <= entry'[run'[b].path].attempt
  <2>1. CASE b \in Builds
    BY <1>3, <2>1
  <2>2. CASE b \notin Builds
    <3>1. run' = run => Builds' = Builds
      BY DEF Builds
    <3>2. \A c \in Builds : \A x : run' = [run EXCEPT ![c] = x] => Builds' = Builds
      BY DEF Types, Runs, Builds
    <3>3. \E s \in Slot : \E e \in starter[s].todo : StartPath(s, e)
      BY <2>2, <3>1, <3>2, RunSteps DEF RunStep
    <3> QED BY <1>4, <2>2, <3>3
  <2> QED BY <2>1, <2>2
<1> QED BY <1>2, <1>5 DEF AttemptsRise

LEMMA HaltStep ==
    ASSUME Types, HaltIsSeen, [Next]_vars
    PROVE  HaltIsSeen'
<1> SUFFICES ASSUME NEW b \in BuildIDs, NEW s \in Slot, poll'[<<b, s>>].at # "idle", poll'[<<b, s>>].halted
             PROVE  head' \in Halted
  BY DEF HaltIsSeen
<1>1. PollFrom(b, poll'[<<b, s>>])
  BY PollsStep DEF PollsMove
<1>2. CASE \E t \in Slot : poll[<<b, t>>].at # "idle" /\ poll'[<<b, s>>].halted = poll[<<b, t>>].halted
  BY <1>2, HeadMoves DEF HaltIsSeen
<1>3. CASE poll'[<<b, s>>].halted = (head \in Halted)
  BY <1>3, HeadMoves
<1> QED BY <1>1, <1>2, <1>3 DEF PollFrom

LEMMA PastWantingStays ==
    ASSUME Types, [Next]_vars, NEW b \in Builds, PastWanting(b)
    PROVE  PastWanting(b)'
<1> DEFINE p == run[b].path
           a == run[b].attempt
<1>1. run[b] \in RunType /\ b \in Builds /\ b # 0
  BY BuildKeys DEF Types, BuildIDs
<1>2. p \in Path /\ a \in Nat /\ <<p, a>> \in Path \X Attempt
  BY <1>1, BuildAssumption DEF RunType, Attempt
<1>3. run'[b].path = p /\ run'[b].attempt = a
  BY RunsMove DEF BuildsAdvance
<1>4. Advances(entry[p], entry'[p], LinkSucceeded(p)) /\ entry[p] \in EntryType /\ entry'[p] \in EntryType
  BY <1>2, EntriesMove DEF Types, Entries
<1>5. entry[p].attempt \in Nat /\ entry'[p].attempt \in Nat
  BY <1>4, BuildAssumption DEF EntryType
<1>6. link[<<p, a>>] # 0 => link'[<<p, a>>] = link[<<p, a>>]
  BY <1>2, StoresStep DEF LinksMove
<1>7. head \in Halted => head' \in Halted
  BY HeadMoves
<1>8. PastWanting(b)' <=> \/ head' \in Halted
                          \/ entry'[p].attempt > a
                          \/ entry'[p].attempt = a /\ entry'[p].status \in Closing
                          \/ link'[<<p, a>>] # 0 /\ link'[<<p, a>>] # b
  BY <1>3 DEF PastWanting, Closing, TerminalPath, Halted
<1>9. \/ head \in Halted
      \/ entry[p].attempt > a
      \/ entry[p].attempt = a /\ entry[p].status \in Closing
      \/ link[<<p, a>>] # 0 /\ link[<<p, a>>] # b
  BY DEF PastWanting
<1> HIDE DEF p, a
<1> QED BY <1>2, <1>4, <1>5, <1>6, <1>7, <1>8, <1>9 DEF Advances

\* What the kill list takes for unwanted is past wanting.
LEMMA UnwantedIsPast ==
    ASSUME Types, AttemptsRise, HaltIsSeen, NEW b \in Builds, NEW s \in Slot, poll[<<b, s>>].at # "idle",
           Unwanted(b, poll[<<b, s>>].halted)
    PROVE  PastWanting(b)
<1> DEFINE p == run[b].path
           a == run[b].attempt
<1>1. b \in BuildIDs /\ run[b] \in RunType
  BY BuildKeys DEF Types
<1>2. p \in Path /\ a \in Nat
  BY <1>1, BuildAssumption DEF RunType, Attempt
<1>3. entry[p] \in EntryType
  BY <1>2 DEF Types, Entries
<1>4. entry[p].attempt \in Nat /\ a <= entry[p].attempt
  BY <1>3, BuildAssumption DEF EntryType, AttemptsRise
<1>5. poll[<<b, s>>].halted => head \in Halted
  BY <1>1 DEF HaltIsSeen
<1>6. \/ poll[<<b, s>>].halted
      \/ entry[p].status \in {"cancelling", "cancelled"}
      \/ entry[p].attempt # a
      \/ link[<<p, a>>] # 0 /\ link[<<p, a>>] # b
  BY DEF Unwanted
<1>7. PastWanting(b) <=> \/ head \in Halted
                         \/ entry[p].attempt > a
                         \/ entry[p].attempt = a /\ entry[p].status \in Closing
                         \/ link[<<p, a>>] # 0 /\ link[<<p, a>>] # b
  BY DEF PastWanting
<1> HIDE DEF p, a
<1> QED BY <1>2, <1>4, <1>5, <1>6, <1>7 DEF Closing, TerminalPath

LEMMA StoppedStep ==
    ASSUME Types, AttemptsRise, HaltIsSeen, StoppedIsUnwanted, [Next]_vars
    PROVE  StoppedIsUnwanted'
<1> SUFFICES ASSUME NEW b \in Builds', run'[b].stop PROVE PastWanting(b)'
  BY DEF StoppedIsUnwanted
<1>1. run \in Seq(RunType) /\ \A c \in Builds : run[c] \in RunType
  BY BuildKeys DEF Types, Runs
<1>2. CASE b \in Builds /\ run[b].stop
  BY <1>2, PastWantingStays DEF StoppedIsUnwanted
<1>3. ASSUME NEW s \in Slot, NEW e \in starter[s].todo, StartPath(s, e) PROVE b \in Builds /\ run[b].stop
  <2> DEFINE new == [path |-> e.path, attempt |-> e.attempt, status |-> "accepted", stop |-> FALSE]
  <2>1. run' = Append(run, new)
    BY <1>3 DEF StartPath
  <2>2. e \in TodoType
    BY DEF Types, Handlers, StarterType
  <2>3. new \in RunType /\ new.stop = FALSE
    BY <2>2 DEF TodoType, RunType, BuildStatus
  <2> HIDE DEF new
  <2>4. (b \in Builds /\ run'[b] = run[b]) \/ run'[b] = new
    BY <1>1, <2>1, <2>3 DEF Builds
  <2> QED BY <2>3, <2>4
<1>4. ASSUME NEW c \in Builds, NEW s \in Slot, run' = [run EXCEPT ![c].stop = TRUE],
             poll[<<c, s>>].at = "stop", Unwanted(c, poll[<<c, s>>].halted)
      PROVE  PastWanting(b)'
  <2>1. PastWanting(c)
    BY <1>4, UnwantedIsPast
  <2>2. CASE b = c
    BY <2>1, <2>2, PastWantingStays
  <2>3. CASE b # c
    <3>1. b \in Builds /\ run'[b] = run[b]
      BY <1>1, <1>4, <2>3 DEF Builds
    <3> QED BY <1>2, <3>1
  <2> QED BY <2>2, <2>3
<1>5. ASSUME NEW c \in Builds, NEW status, run' = [run EXCEPT ![c].status = status]
      PROVE  b \in Builds /\ run[b].stop
  <2>1. b \in Builds
    BY <1>1, <1>5 DEF Builds
  <2>2. run'[b].stop = run[b].stop
    BY <1>1, <1>5, <2>1 DEF RunType, Builds
  <2> QED BY <2>1, <2>2
<1>6. run' = run => b \in Builds /\ run[b].stop
  BY DEF Builds
<1> QED BY <1>2, <1>3, <1>4, <1>5, <1>6, RunSteps DEF RunStep

-----------------------------------------------------------------------------
(* The inductive invariant and the theorems.                                *)

IInv == /\ Types
        /\ TruthfulPolls /\ TruthfulRecords /\ LinkedIsOwn /\ PassedIsEarned
        /\ AttemptsRise /\ HaltIsSeen /\ StoppedIsUnwanted

LEMMA IInvInit == Init => IInv
<1> SUFFICES ASSUME Init PROVE IInv
  OBVIOUS
<1>1. Types
  BY TypesInit
<1>2. Builds = {} /\ \A s \in Slot : starter[s] = Idle
  BY DEF Init, Builds
<1>3. \A b \in BuildIDs, s \in Slot : poll[<<b, s>>] = NoPoll
  BY DEF Init
<1>4. \A s \in Slot : starter[s].at = "idle" /\ starter[s].todo = {}
  <2>1. Idle.at = "idle" /\ Idle.todo = {}
    BY DEF Idle
  <2> QED BY <1>2, <2>1
<1>5. TruthfulPolls /\ HaltIsSeen
  BY <1>3, NoPollType DEF TruthfulPolls, HaltIsSeen
<1>6. TruthfulRecords
  BY DEF Init, TruthfulRecords, TerminalStatus
<1>7. LinkedIsOwn
  BY <1>4 DEF Init, LinkedIsOwn
<1>8. PassedIsEarned
  BY DEF Init, PassedIsEarned
<1>9. AttemptsRise /\ StoppedIsUnwanted
  BY <1>2, <1>4 DEF AttemptsRise, StoppedIsUnwanted
<1> QED BY <1>1, <1>5, <1>6, <1>7, <1>8, <1>9 DEF IInv

LEMMA IInvStep == IInv /\ [Next]_vars => IInv'
  BY TypesStep, TruthStep, LinkedStep, PassedStep, RiseStep, HaltStep, StoppedStep DEF IInv

\* The stores, the messages and the handlers of the build and buildsignal stages
\* keep their shape (build.go, buildsignal.go).
THEOREM BuildTypes == Spec => []TypeOK
<1>1. IInv => TypeOK
  BY DEF IInv, Types
<1> QED BY <1>1, IInvInit, IInvStep, PTL DEF Spec

\* A path counts as passed only when the build its current attempt is linked to
\* succeeded in CI, whatever surplus builds, earlier attempts and late polls
\* there are (updatePathFromBuild, dispatchPath).
THEOREM PassedReal == Spec => []PassedIsReal
<1>1. IInv => PassedIsReal
  BY BuildKeys DEF IInv, Types, PassedIsEarned, PassedIsReal, BuildIDs
<1> QED BY <1>1, IInvInit, IInvStep, PTL DEF Spec

\* The poll loop asks no build to stop that its path still wants, however stale
\* what it read of the batch (unwanted, buildsignal.go).
THEOREM WantedKept == Spec => []WantedIsKept
<1>1. IInv => WantedIsKept
  <2> SUFFICES ASSUME IInv, NEW b \in Builds, run[b].stop,
                      head \in {"speculating", "landing"},
                      entry[run[b].path].status \in {"pending", "building"},
                      entry[run[b].path].attempt = run[b].attempt,
                      link[<<run[b].path, run[b].attempt>>] = b
               PROVE  FALSE
    BY DEF WantedIsKept
  <2>1. PastWanting(b)
    BY DEF IInv, StoppedIsUnwanted
  <2>2. entry[run[b].path].attempt \in Nat
    <3>1. run[b] \in RunType
      BY BuildKeys DEF IInv, Types
    <3> QED BY <3>1, BuildAssumption DEF RunType, Attempt
  <2> QED BY <2>1, <2>2 DEF PastWanting, Closing, TerminalPath, Halted
<1> QED BY <1>1, IInvInit, IInvStep, PTL DEF Spec

\* An attempt is linked only to a build that was started for it: no build of
\* another path or attempt speaks for it (linkBuild, build.go).
THEOREM LinksAreOwn == Spec => []LinkedIsOwn
<1>1. IInv => LinkedIsOwn
  BY DEF IInv
<1> QED BY <1>1, IInvInit, IInvStep, PTL DEF Spec
=============================================================================
