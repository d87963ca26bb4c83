-------------------------- MODULE StovepipeProofs ---------------------------
(***************************************************************************)
(* Stovepipe, for any number of callers, commits, requests, builds, slots   *)
(* and faults: the types, that racing calls make one request, that verdicts *)
(* are final, that whatever is called green passed, and that every slot     *)
(* counted has a request in process.                                        *)
(***************************************************************************)
EXTENDS Stovepipe, SequenceTheorems, FiniteSetTheorems, TLAPS

(* Types.                                                                   *)

State == {"none", "accepted", "processing"} \cup Terminal

\* A call knows its commit from the start and its request once it is past the
\* lookup.
CallType ==
    {k \in [at : {"idle", "resolve", "map", "ensure", "advance", "publish"},
            commit : 0..MaxCommit, id : 0..MaxId, accepted : BOOLEAN] :
        /\ k.at # "idle" => k.commit # 0
        /\ k.at \notin {"idle", "resolve"} => k.id # 0
        /\ k.accepted => k.at \in {"advance", "publish"}}

QueueType == [latest : 0..MaxId, inFlight : Nat, green : 0..MaxId, version : Nat]

BuildType == [request : 0..MaxId, status : Outcome \cup {"none", "running"}]

JobType == [at : {"idle", "plan", "mark", "claim", "publish", "associate", "signal", "release",
                  "green", "projects", "bookmark", "promote", "process", "build", "poll"},
            id : Nat, version : Nat, base : 0..MaxCommit, build : 0..MaxBuild, seen : State]

\* The requests and the builds that the stores hold, and the messages that name
\* one of them.
Request == {r \in Id : req[r].state # "none"}
Build == {b \in BuildId : builds[b].status # "none"}
Message == {"process", "build", "record"} \X Request \cup {"poll"} \X Build

\* A request or a build that is not stored is blank; a stored build is one of
\* the runner's and names a stored request, and a request a stored build.
Stores ==
    /\ \A r \in Id \ Request : req[r] = NoRequest
    /\ \A b \in Build : b \in 1..Len(run) /\ builds[b].request \in Request
    /\ \A r \in Request : req[r].build # 0 => req[r].build \in Build

Messages ==
    /\ line \in Seq(Request)
    /\ sent \subseteq Message /\ inbox \subseteq Message /\ dead \subseteq Message
    /\ \A c \in Caller : call[c].accepted => call[c].id \in Request

\* A handler in flight works on something that is stored.
PollWorks(b) == job[<<"poll", b>>].at # "idle" => b \in Build
RecordWorks(r) == job[<<"record", r>>].at # "idle" => r \in Request
BuildWorks(r) ==
    /\ job[<<"build", r>>].at # "idle" => r \in Request
    /\ job[<<"build", r>>].at = "associate" => job[<<"build", r>>].build \in 1..Len(run)
    /\ job[<<"build", r>>].at = "signal" => req[r].build # 0
ProcessWorks(j) == job[j].at # "idle" => job[j].id \in Request
DlqWorks ==
    job[DLQ].at # "idle" =>
        /\ <<job[DLQ].at, job[DLQ].id>> \in dead
        /\ job[DLQ].at \in {"process", "build", "poll"}
        /\ job[DLQ].seen \notin Terminal \cup {"none"}

Handlers ==
    /\ \A b \in BuildId : PollWorks(b)
    /\ \A r \in Id : RecordWorks(r) /\ BuildWorks(r)
    /\ ProcessWorks(Now) /\ ProcessWorks(Late) /\ DlqWorks
    /\ job[Now].at # "idle" => line # <<>>

Types ==
    /\ TypeOK /\ watch \in Watches
    /\ call \in [Caller -> CallType]
    /\ job \in [Job -> JobType]

TypeInv == Types /\ Stores /\ Messages /\ Handlers

LEMMA JobKeys ==
    /\ Now \in Job /\ Late \in Job /\ DLQ \in Job
    /\ \A r \in Id : <<"build", r>> \in Job /\ <<"record", r>> \in Job
    /\ \A b \in BuildId : <<"poll", b>> \in Job
  BY DEF Job, Now, Late, DLQ

LEMMA Idle == NoRequest \in RequestType /\ NoJob \in JobType /\ NoCall \in CallType
<1>1. 0 \in 0..MaxCommit /\ 0 \in 0..MaxBuild /\ 0 \in 0..MaxId
  BY StovepipeAssumption
<1> QED BY <1>1 DEF NoRequest, RequestType, NoJob, JobType, NoCall, CallType, State

LEMMA Published ==
    ASSUME NEW m, NEW rest, Publish(m, rest)
    PROVE  (inbox' = rest \/ inbox' = rest \cup {m}) /\ sent' = sent \cup {m}
  BY DEF Publish

LEMMA TypeInit == Init => TypeInv
<1> SUFFICES ASSUME Init PROVE TypeInv
  OBVIOUS
<1>1. TypeOK
  BY Idle, EmptySeq, StovepipeAssumption DEF Init, TypeOK, Commit
<1>2. watch \in Watches /\ call \in [Caller -> CallType] /\ job \in [Job -> JobType]
  BY Idle DEF Init
<1>3. Request = {} /\ Build = {}
  BY DEF Init, Request, Build, NoRequest
<1>4. Stores /\ Messages /\ Handlers
  BY <1>3, JobKeys, EmptySeq DEF Init, Stores, Messages, Handlers, PollWorks, RecordWorks, BuildWorks, ProcessWorks, DlqWorks, NoJob, NoCall
<1> QED BY <1>1, <1>2, <1>4 DEF TypeInv, Types

-----------------------------------------------------------------------------
(* Who writes what.                                                         *)

Writers ==
    /\ uri' = uri \/ \E c \in Caller : MapURI(c)
    /\ minted' = minted \/ \E c \in Caller : MintID(c)
    /\ \/ req' = req \/ Coalesce \/ FailRequest
       \/ \E c \in Caller : EnsureRequest(c)
       \/ \E j \in {Now, Late} : MarkProcessing(j)
       \/ \E r \in Id : AssociateBuild(r)
       \/ \E b \in BuildId : MarkOutcome(b)
    /\ \/ queue' = queue
       \/ \E c \in Caller : AdvanceQueueLatestRequestID(c)
       \/ \E j \in {Now, Late} : ConfirmAdmission(j) \/ ClaimBuildSlot(j)
       \/ \E b \in BuildId : ReleaseBuildSlot(b) \/ AdvanceLastGreen(b)
       \/ \E d \in dead : FailRequestRelease(d)
    /\ \/ run' = run
       \/ \E b \in DOMAIN run, status \in Outcome : BuildEnds(b, status)
       \/ \E r \in Id : BuildTrigger(r)
    /\ \/ builds' = builds
       \/ \E r \in Id : AssociateBuild(r)
       \/ \E b \in BuildId : PollBuild(b)
    /\ fact' = fact \/ (\E r \in Id : RecordFact(r)) \/ \E d \in dead : AbandonRecord(d)
    /\ projects' = projects \/ \E r \in Id : PersistProjectFacts(r)
    /\ promoted' = promoted \/ \E r \in Id : Promote(r)
    /\ trunk' = trunk \/ NewCommit
    /\ events' = events \/ (events < MaxEvents /\ events' = events + 1)
    /\ watch' = watch

LEMMA WritersAre == ASSUME [Next]_vars PROVE Writers
<1>1. ASSUME NEW c \in Caller, IngestStep(c) PROVE Writers
  BY <1>1 DEF Writers, IngestStep, Ingest, MintID, MapURI, EnsureRequest, PublishProcess,
       AdvanceQueueLatestRequestID, ingestRest
<1>2. CASE ProcessStep
  BY <1>2 DEF Writers, ProcessStep, ProcessAgain, Coalesce, AdmitLatestHead, ConfirmAdmission,
       MarkProcessing, ClaimBuildSlot, PublishBuild, processRest
<1>3. CASE DlqStep
  BY <1>3 DEF Writers, DlqStep, FailRequest, DLQProcess, DLQBuild, DLQBuildSignal,
       FailRequestRelease, AbandonRecord, dlqRest
<1>4. ASSUME NEW r \in Id, BuildStep(r) PROVE Writers
  BY <1>4 DEF Writers, BuildStep, BuildTrigger, AssociateBuild, PublishBuildSignal, buildRest
<1>5. ASSUME NEW r \in Id, RecordStep(r) PROVE Writers
  BY <1>5 DEF Writers, RecordStep, RecordFact, PersistProjectFacts, HoldsBookmark, Promote, recordRest
<1>6. ASSUME NEW b \in BuildId, PollStep(b) PROVE Writers
  BY <1>6 DEF Writers, PollStep, PollBuild, ReleaseBuildSlot, MarkOutcome, AdvanceLastGreen,
       PublishRecord, pollRest
<1>7. CASE NewCommit \/ RunnerStep
  BY <1>7 DEF Writers, NewCommit, RunnerStep, BuildEnds, topics
<1>8. CASE Fault
  BY <1>8 DEF Writers, Fault, CanHappen, Abandon, ExpireProcess, Crash, DeadLetter, Redeliver, faultRest, topics
<1>9. CASE UNCHANGED vars
  BY <1>9 DEF Writers, vars, topics
<1> QED BY <1>1, <1>2, <1>3, <1>4, <1>5, <1>6, <1>7, <1>8, <1>9 DEF Next, JobStep

-----------------------------------------------------------------------------
(* What a step never takes back.                                            *)

KeepsRequests ==
    /\ \A r \in Id : req[r].state # "none" =>
          /\ req'[r].state # "none" /\ req'[r].commit = req[r].commit
          /\ req[r].build # 0 => req'[r].build = req[r].build
    /\ \A r \in Id : req[r].state \in Terminal =>
          req'[r].state = req[r].state /\ req'[r].by = req[r].by

KeepsBuilds ==
    /\ \A b \in BuildId : builds[b].status # "none" => builds'[b].status # "none"
    /\ \A b \in 1..Len(run) : b \in 1..Len(run') /\ (run[b] # "running" => run'[b] = run[b])

KeepsFacts ==
    /\ \A u \in Commit : uri[u] # 0 => uri'[u] = uri[u]
    /\ \A u \in Commit : fact[u] # "none" => fact'[u] = fact[u]
    /\ projects \subseteq projects'

Forward == queue'.green >= queue.green /\ queue'.latest >= queue.latest

\* A request's row may be written if this says so of the new row.
MayBecome(old, new) ==
    /\ old.state # "none" => /\ new.state # "none" /\ new.commit = old.commit
                             /\ old.build # 0 => new.build = old.build
    /\ old.state \in Terminal => new.state = old.state /\ new.by = old.by

LEMMA RowWrites ==
    ASSUME req \in [Id -> RequestType], NEW r, NEW row, WriteRequest(r, row),
           r \in Id => MayBecome(req[r], row)
    PROVE  KeepsRequests
  BY DEF WriteRequest, MayBecome, KeepsRequests

LEMMA RequestsAreKept ==
    ASSUME TypeInv, [Next]_vars
    PROVE  KeepsRequests
<1>0. Writers /\ req \in [Id -> RequestType]
  BY WritersAre DEF TypeInv, Types, TypeOK
<1>1. CASE req' = req
  BY <1>1 DEF KeepsRequests
<1>2. CASE Coalesce
  <2>1. Head(line) \in Id => MayBecome(req[Head(line)], [req[Head(line)] EXCEPT !.state = "superseded"])
    BY <1>0, <1>2 DEF Coalesce, MayBecome, RequestType, Terminal, Outcome
  <2> QED BY <1>0, <1>2, <2>1, RowWrites DEF Coalesce, Supersede
<1>3. CASE FailRequest
  <2>1. job[DLQ].seen \notin Terminal \cup {"none"}
    BY <1>3 DEF FailRequest, TypeInv, Handlers, DlqWorks
  <2>2. PICK r : req' # req => req[r].state = job[DLQ].seen /\ req' = [req EXCEPT ![r].state = "failed"]
    BY <1>3 DEF FailRequest
  <2>3. [req EXCEPT ![r].state = "failed"] = [req EXCEPT ![r] = [req[r] EXCEPT !.state = "failed"]]
    OBVIOUS
  <2>4. r \in Id /\ req' # req => MayBecome(req[r], [req[r] EXCEPT !.state = "failed"])
    BY <1>0, <2>1, <2>2 DEF MayBecome, RequestType, Terminal, Outcome
  <2>5. CASE req' # req
    BY <1>0, <2>2, <2>3, <2>4, <2>5, RowWrites DEF WriteRequest
  <2> QED BY <1>1, <2>5
<1>4. ASSUME NEW c \in Caller, EnsureRequest(c) PROVE KeepsRequests
  BY <1>0, <1>4 DEF EnsureRequest, CreateRequest, WriteRequest, KeepsRequests, Terminal, Outcome
<1>5. ASSUME NEW j \in {Now, Late}, MarkProcessing(j) PROVE KeepsRequests
  <2> DEFINE r == job[j].id
             row == [req[r] EXCEPT !.state = "processing", !.base = job[j].base]
  <2>1. req' # req => req[r].state = "accepted" /\ WriteRequest(r, row)
    BY <1>5 DEF MarkProcessing
  <2>2. r \in Id /\ req[r].state = "accepted" => MayBecome(req[r], row)
    BY <1>0 DEF MayBecome, RequestType, Terminal, Outcome
  <2> HIDE DEF r, row
  <2> QED BY <1>0, <1>1, <2>1, <2>2, RowWrites
<1>6. ASSUME NEW r \in Id, AssociateBuild(r) PROVE KeepsRequests
  <2> DEFINE row == [req[r] EXCEPT !.build = job[<<"build", r>>].build]
  <2>1. req' # req => req[r].build = 0 /\ WriteRequest(r, row)
    BY <1>6 DEF AssociateBuild
  <2>2. req[r].build = 0 => MayBecome(req[r], row)
    BY <1>0 DEF MayBecome, RequestType, Terminal, Outcome
  <2> HIDE DEF row
  <2> QED BY <1>0, <1>1, <2>1, <2>2, RowWrites
<1>7. ASSUME NEW b \in BuildId, MarkOutcome(b) PROVE KeepsRequests
  <2> DEFINE r == builds[b].request
             row == [req[r] EXCEPT !.state = OutcomeState(builds[b].status), !.by = b]
  <2>1. req' # req => req[r].state = "processing" /\ WriteRequest(r, row)
    BY <1>7 DEF MarkOutcome
  <2>2. r \in Id /\ req[r].state = "processing" => MayBecome(req[r], row)
    BY <1>0 DEF MayBecome, RequestType, Terminal, Outcome, OutcomeState
  <2> HIDE DEF r, row
  <2> QED BY <1>0, <1>1, <2>1, <2>2, RowWrites
<1> QED BY <1>0, <1>1, <1>2, <1>3, <1>4, <1>5, <1>6, <1>7 DEF Writers

LEMMA BuildsAreKept ==
    ASSUME TypeInv, [Next]_vars
    PROVE  KeepsBuilds
<1>0. Writers /\ builds \in [BuildId -> BuildType] /\ run \in Seq(Outcome \cup {"running"})
  BY WritersAre DEF TypeInv, Types, TypeOK, BuildType
<1>1. \A b \in BuildId : builds[b].status # "none" => builds'[b].status # "none"
  <2>1. ASSUME NEW r \in Id, AssociateBuild(r)
        PROVE  \A b \in BuildId : builds[b].status # "none" => builds'[b].status # "none"
    BY <1>0, <2>1 DEF AssociateBuild, WriteBuild
  <2>2. ASSUME NEW b \in BuildId, PollBuild(b), builds' # builds
        PROVE  \A a \in BuildId : builds[a].status # "none" => builds'[a].status # "none"
    <3>1. b \in Build /\ b \in 1..Len(run)
      BY <2>2 DEF PollBuild, TypeInv, Messages, Message, Stores
    <3>2. run[b] \in Outcome \cup {"running"}
      BY <1>0, <3>1, ElementOfSeq
    <3> QED BY <1>0, <2>2, <3>2 DEF PollBuild, Reconcile, WriteBuild, BuildType, Outcome
  <2> QED BY <1>0, <2>1, <2>2 DEF Writers
<1> DEFINE EndsStand == \A b \in 1..Len(run) :
                b \in 1..Len(run') /\ (run[b] # "running" => run'[b] = run[b])
<1>2. EndsStand
  <2>1. ASSUME NEW b \in DOMAIN run, NEW status \in Outcome, BuildEnds(b, status)
        PROVE  EndsStand
    <3>1. run' = [run EXCEPT ![b] = status] /\ run[b] = "running" /\ run' \in Seq(Outcome \cup {"running"})
      BY <1>0, <2>1, ExceptSeq DEF BuildEnds
    <3>2. Len(run') = Len(run)
      BY <1>0, <3>1
    <3> QED BY <1>0, <3>1, <3>2
  <2>2. ASSUME NEW r \in Id, BuildTrigger(r)
        PROVE  EndsStand
    BY <1>0, <2>2 DEF BuildTrigger
  <2> QED BY <1>0, <2>1, <2>2 DEF Writers
<1> QED BY <1>1, <1>2 DEF KeepsBuilds

LEMMA FactsAreKept ==
    ASSUME TypeInv, [Next]_vars
    PROVE  KeepsFacts
<1>0. Writers /\ uri \in [Commit -> 0..MaxId] /\ fact \in [Commit -> {"none", "green", "broken"}]
  BY WritersAre DEF TypeInv, Types, TypeOK
<1>1. \A u \in Commit : uri[u] # 0 => uri'[u] = uri[u]
  BY <1>0 DEF Writers, MapURI, CreateURI
<1>2. \A u \in Commit : fact[u] # "none" => fact'[u] = fact[u]
  BY <1>0 DEF Writers, RecordFact, AbandonRecord, RecordValidationFact, CreateFact
<1>3. projects \subseteq projects'
  BY <1>0 DEF Writers, PersistProjectFacts
<1> QED BY <1>1, <1>2, <1>3 DEF KeepsFacts

LEMMA QueueMovesForward ==
    ASSUME TypeInv, [Next]_vars
    PROVE  Forward /\ queue' \in QueueType
<1>0. Writers /\ queue \in QueueType
  BY WritersAre DEF TypeInv, Types, TypeOK, QueueType
<1>1. queue.version + 1 \in Nat /\ queue.inFlight + 1 \in Nat
  BY <1>0 DEF QueueType
<1> DEFINE Written(row) == queue' = [row EXCEPT !.version = queue.version + 1]
<1>2. ASSUME NEW row \in QueueType, Written(row), row.latest >= queue.latest, row.green >= queue.green
      PROVE  Forward /\ queue' \in QueueType
  BY <1>1, <1>2 DEF QueueType, Forward
<1>3. queue.latest >= queue.latest /\ queue.green >= queue.green
  BY <1>0, StovepipeAssumption DEF QueueType
<1>4. CASE queue' = queue
  BY <1>0, <1>3, <1>4 DEF Forward
<1>5. ASSUME NEW c \in Caller, AdvanceQueueLatestRequestID(c), queue' # queue
      PROVE  Forward /\ queue' \in QueueType
  <2> DEFINE row == [queue EXCEPT !.latest = call[c].id]
  <2>0. call[c] \in CallType
    BY <1>5 DEF TypeInv, Types
  <2>1. call[c].id \in 0..MaxId
    BY <2>0 DEF CallType
  <2>2. call[c].id > queue.latest /\ Written(row)
    BY <1>5 DEF AdvanceQueueLatestRequestID, WriteQueue
  <2>3. row \in QueueType /\ row.latest = call[c].id /\ row.green = queue.green
    BY <1>0, <2>1 DEF QueueType
  <2>4. row.latest >= queue.latest
    BY <1>0, <2>1, <2>2, <2>3, StovepipeAssumption DEF QueueType
  <2> HIDE DEF row
  <2> QED BY <1>2, <1>3, <2>2, <2>3, <2>4
<1>6. ASSUME NEW j \in {Now, Late}, ConfirmAdmission(j), queue' # queue
      PROVE  Forward /\ queue' \in QueueType
  BY <1>0, <1>2, <1>3, <1>6 DEF ConfirmAdmission, WriteQueue
<1>7. ASSUME NEW j \in {Now, Late}, ClaimBuildSlot(j)
      PROVE  Forward /\ queue' \in QueueType
  <2> DEFINE row == [queue EXCEPT !.inFlight = @ + 1]
  <2>1. row \in QueueType /\ row.latest = queue.latest /\ row.green = queue.green
    BY <1>0, <1>1 DEF QueueType
  <2>2. Written(row)
    BY <1>7 DEF ClaimBuildSlot, WriteQueue
  <2> HIDE DEF row
  <2> QED BY <1>2, <1>3, <2>1, <2>2
<1>8. ASSUME Written(ReleaseSlot(queue))
      PROVE  Forward /\ queue' \in QueueType
  <2> DEFINE n == IF queue.inFlight <= 0 THEN queue.inFlight ELSE queue.inFlight - 1
  <2>1. n \in Nat
    BY <1>0 DEF QueueType
  <2>2. ReleaseSlot(queue) = [queue EXCEPT !.inFlight = n]
    BY DEF ReleaseSlot
  <2> HIDE DEF n
  <2>3. ReleaseSlot(queue) \in QueueType /\ ReleaseSlot(queue).latest = queue.latest
          /\ ReleaseSlot(queue).green = queue.green
    BY <1>0, <2>1, <2>2 DEF QueueType
  <2> QED BY <1>2, <1>3, <1>8, <2>3
<1>9. ASSUME NEW b \in BuildId, AdvanceLastGreen(b), queue' # queue
      PROVE  Forward /\ queue' \in QueueType
  <2> DEFINE r == builds[b].request
             row == [queue EXCEPT !.green = r]
  <2>1. r \in 0..MaxId
    BY DEF TypeInv, Types, TypeOK
  <2>2. Written(row) /\ CompareToBookmark(r, queue.green) > 0
    BY <1>9 DEF AdvanceLastGreen, WriteQueue
  <2>3. row \in QueueType /\ row.green = r /\ row.latest = queue.latest
    BY <1>0, <2>1 DEF QueueType
  <2>4. row.green >= queue.green
    BY <1>0, <2>1, <2>2, <2>3, StovepipeAssumption DEF QueueType, CompareToBookmark
  <2> HIDE DEF r, row
  <2> QED BY <1>2, <1>3, <2>2, <2>3, <2>4
<1> QED BY <1>0, <1>4, <1>5, <1>6, <1>7, <1>8, <1>9
        DEF Writers, ReleaseBuildSlot, FailRequestRelease, ReleaseOne, WriteQueue

\* What is stored stays stored, and the messages about it stay valid.
LEMMA Grow ==
    ASSUME TypeInv, [Next]_vars
    PROVE  /\ Request \subseteq Request' /\ Build \subseteq Build' /\ Message \subseteq Message'
           /\ 1..Len(run) \subseteq 1..Len(run')
<1>1. Request \subseteq Request' /\ Build \subseteq Build' /\ 1..Len(run) \subseteq 1..Len(run')
  BY RequestsAreKept, BuildsAreKept DEF KeepsRequests, KeepsBuilds, Request, Build
<1> QED BY <1>1 DEF Message

StoredRow == {row \in RequestType : row.state # "none"}

TypedWrite ==
    /\ req' \in [Id -> RequestType]
    /\ \A r \in Id : req'[r] = req[r] \/ req'[r].state # "none"

LEMMA RowTypes ==
    ASSUME req \in [Id -> RequestType], NEW r, NEW row, WriteRequest(r, row),
           r \in Id => row \in StoredRow
    PROVE  TypedWrite
  BY DEF WriteRequest, TypedWrite, StoredRow

LEMMA RequestTypes ==
    ASSUME TypeInv, [Next]_vars
    PROVE  req' \in [Id -> RequestType] /\ \A r \in Id \ Request' : req'[r] = NoRequest
<1>0. /\ Writers /\ Request \subseteq Request' /\ KeepsRequests
      /\ req \in [Id -> RequestType] /\ \A r \in Id \ Request : req[r] = NoRequest
  BY WritersAre, Grow, RequestsAreKept DEF TypeInv, Types, TypeOK, Stores
<1> SUFFICES TypedWrite
  BY <1>0 DEF TypedWrite, Request
<1>2. CASE req' = req
  BY <1>0, <1>2 DEF TypedWrite
<1>3. CASE Coalesce
  <2> DEFINE r == Head(line)
             row == [req[r] EXCEPT !.state = "superseded"]
  <2>1. WriteRequest(r, row)
    BY <1>3 DEF Coalesce, Supersede
  <2>2. r \in Id => row \in StoredRow
    BY <1>0 DEF StoredRow, RequestType, Terminal
  <2> HIDE DEF r, row
  <2> QED BY <1>0, RowTypes, <2>1, <2>2
<1>4. CASE FailRequest
  <2>1. PICK r : req' # req => req' = [req EXCEPT ![r].state = "failed"]
    BY <1>4 DEF FailRequest
  <2> DEFINE row == [req[r] EXCEPT !.state = "failed"]
  <2>2. req' # req => WriteRequest(r, row)
    BY <2>1 DEF WriteRequest
  <2>3. r \in Id => row \in StoredRow
    BY <1>0 DEF StoredRow, RequestType, Terminal, Outcome
  <2> HIDE DEF row
  <2> QED BY <1>0, RowTypes, <1>2, <2>2, <2>3
<1>5. ASSUME NEW c \in Caller, EnsureRequest(c) PROVE TypedWrite
  <2> DEFINE row == [NoRequest EXCEPT !.state = "accepted", !.commit = call[c].commit]
  <2>1. call[c].commit \in 0..MaxCommit
    BY DEF TypeInv, Types, CallType
  <2>2. row \in StoredRow
    BY <2>1, Idle DEF StoredRow, NoRequest, RequestType
  <2>3. req' # req => WriteRequest(call[c].id, row)
    BY <1>5 DEF EnsureRequest, CreateRequest
  <2> HIDE DEF row
  <2> QED BY <1>0, RowTypes, <1>2, <2>2, <2>3
<1>6. ASSUME NEW j \in {Now, Late}, MarkProcessing(j) PROVE TypedWrite
  <2> DEFINE r == job[j].id
             row == [req[r] EXCEPT !.state = "processing", !.base = job[j].base]
  <2>1. req' # req => WriteRequest(r, row)
    BY <1>6 DEF MarkProcessing
  <2>2. job[j] \in JobType
    BY JobKeys DEF TypeInv, Types
  <2>3. r \in Id => row \in StoredRow
    BY <1>0, <2>2 DEF StoredRow, RequestType, JobType
  <2> HIDE DEF r, row
  <2> QED BY <1>0, RowTypes, <1>2, <2>1, <2>3
<1>7. ASSUME NEW r \in Id, AssociateBuild(r) PROVE TypedWrite
  <2> DEFINE row == [req[r] EXCEPT !.build = job[<<"build", r>>].build]
  <2>1. req' # req => WriteRequest(r, row)
    BY <1>7 DEF AssociateBuild
  <2>2. job[<<"build", r>>] \in JobType
    BY JobKeys DEF TypeInv, Types
  <2>3. req[r].state # "none"
    BY <1>7 DEF AssociateBuild, TypeInv, Handlers, BuildWorks, Request
  <2>4. row \in StoredRow
    BY <1>0, <2>2, <2>3 DEF StoredRow, RequestType, JobType
  <2> HIDE DEF row
  <2> QED BY <1>0, RowTypes, <1>2, <2>1, <2>4
<1>8. ASSUME NEW b \in BuildId, MarkOutcome(b) PROVE TypedWrite
  <2> DEFINE r == builds[b].request
             s == OutcomeState(builds[b].status)
             row == [req[r] EXCEPT !.state = s, !.by = b]
  <2>1. req' # req => WriteRequest(r, row)
    BY <1>8 DEF MarkOutcome
  <2>2. s \in Outcome /\ b \in 0..MaxBuild
    BY DEF OutcomeState, Outcome, BuildId
  <2>3. s \in Terminal /\ s # "none"
    <3> HIDE DEF s
    <3> QED BY <2>2 DEF Terminal, Outcome
  <2> HIDE DEF s, r
  <2>4. ASSUME r \in Id PROVE row \in StoredRow
    <3>1. req[r] \in RequestType
      BY <1>0, <2>4
    <3>2. row \in RequestType
      BY <2>2, <2>3, <3>1 DEF RequestType
    <3>3. row.state = s
      BY <3>1 DEF RequestType
    <3> HIDE DEF row
    <3> QED BY <2>3, <3>2, <3>3 DEF StoredRow
  <2> HIDE DEF row
  <2> QED BY <1>0, RowTypes, <1>2, <2>1, <2>4
<1> QED BY <1>0, <1>2, <1>3, <1>4, <1>5, <1>6, <1>7, <1>8 DEF Writers

LEMMA BuildTypes ==
    ASSUME TypeInv, [Next]_vars
    PROVE  /\ run' \in Seq(Outcome \cup {"running"}) /\ Len(run') <= MaxBuild
           /\ builds' \in [BuildId -> BuildType]
           /\ \A b \in Build' : b \in 1..Len(run') /\ builds'[b].request \in Request'
<1>0. /\ Writers /\ Request \subseteq Request' /\ 1..Len(run) \subseteq 1..Len(run')
      /\ builds \in [BuildId -> BuildType]
      /\ run \in Seq(Outcome \cup {"running"}) /\ Len(run) <= MaxBuild
      /\ \A b \in Build : b \in 1..Len(run) /\ builds[b].request \in Request
  BY WritersAre, Grow DEF TypeInv, Types, TypeOK, Stores, BuildType
<1>1. run' \in Seq(Outcome \cup {"running"}) /\ Len(run') <= MaxBuild
  <2>1. ASSUME NEW b \in DOMAIN run, NEW status \in Outcome, BuildEnds(b, status)
        PROVE  run' \in Seq(Outcome \cup {"running"}) /\ Len(run') <= MaxBuild
    BY <1>0, <2>1, ExceptSeq DEF BuildEnds
  <2>2. ASSUME NEW r \in Id, BuildTrigger(r)
        PROVE  run' \in Seq(Outcome \cup {"running"}) /\ Len(run') <= MaxBuild
    <3>1. CASE run' = run
      BY <1>0, <3>1
    <3>2. CASE run' = Append(run, "running") /\ Len(run) < MaxBuild
      BY <1>0, <3>2, StovepipeAssumption
    <3> QED BY <2>2, <3>1, <3>2 DEF BuildTrigger
  <2> QED BY <1>0, <2>1, <2>2 DEF Writers
<1>2. ASSUME NEW b \in BuildId, NEW row \in BuildType, WriteBuild(b, row),
             b \in 1..Len(run), row.request \in Request
      PROVE  /\ builds' \in [BuildId -> BuildType]
             /\ \A a \in Build' : a \in 1..Len(run') /\ builds'[a].request \in Request'
  BY <1>0, <1>2 DEF WriteBuild, Build
<1>3. CASE builds' = builds
  BY <1>0, <1>1, <1>3 DEF Build
<1>4. ASSUME NEW r \in Id, AssociateBuild(r)
      PROVE  /\ builds' \in [BuildId -> BuildType]
             /\ \A a \in Build' : a \in 1..Len(run') /\ builds'[a].request \in Request'
  <2> DEFINE b == job[<<"build", r>>].build
             row == [request |-> r, status |-> "running"]
  <2>1. r \in Request /\ b \in 1..Len(run) /\ WriteBuild(b, row)
    BY <1>4 DEF AssociateBuild, TypeInv, Handlers, BuildWorks
  <2>2. b \in BuildId
    BY <1>0, <2>1, StovepipeAssumption DEF BuildId
  <2>3. row \in BuildType /\ row.request = r
    BY StovepipeAssumption DEF BuildType, Id
  <2> HIDE DEF b, row
  <2> QED BY <1>2, <2>1, <2>2, <2>3
<1>5. ASSUME NEW b \in BuildId, PollBuild(b), builds' # builds
      PROVE  /\ builds' \in [BuildId -> BuildType]
             /\ \A a \in Build' : a \in 1..Len(run') /\ builds'[a].request \in Request'
  <2> DEFINE row == [builds[b] EXCEPT !.status = run[b]]
  <2>1. b \in Build /\ WriteBuild(b, row)
    BY <1>5 DEF PollBuild, Reconcile, TypeInv, Messages, Message
  <2>2. run[b] \in Outcome \cup {"running"}
    BY <1>0, <2>1, ElementOfSeq
  <2>3. row \in BuildType /\ row.request \in Request
    BY <1>0, <2>1, <2>2 DEF BuildType
  <2> HIDE DEF row
  <2> QED BY <1>0, <1>2, <2>1, <2>3
<1>6. /\ builds' \in [BuildId -> BuildType]
      /\ \A a \in Build' : a \in 1..Len(run') /\ builds'[a].request \in Request'
  BY <1>0, <1>3, <1>4, <1>5 DEF Writers
<1> QED BY <1>1, <1>6

LEMMA CommitTypes ==
    ASSUME TypeInv, [Next]_vars
    PROVE  /\ watch' \in Watches /\ trunk' \in Commit
           /\ uri' \in [Commit -> 0..MaxId] /\ minted' \in 0..MaxId
           /\ fact' \in [Commit -> {"none", "green", "broken"}] /\ promoted' \in 0..MaxCommit
           /\ events' \in 0..MaxEvents
<1>0. Writers /\ TypeOK /\ watch \in Watches /\ call \in [Caller -> CallType]
  BY WritersAre DEF TypeInv, Types
<1>1. watch' \in Watches /\ trunk' \in Commit
  <2>1. ASSUME NewCommit PROVE trunk' \in Commit
    <3>1. PICK c \in Caller : trunk + 1 \in watch[c]
      BY <2>1 DEF NewCommit
    <3>2. watch[c] \subseteq Commit
      BY <1>0, StovepipeAssumption DEF Commit
    <3> QED BY <2>1, <3>1, <3>2 DEF NewCommit
  <2> QED BY <1>0, <2>1 DEF Writers, TypeOK
<1>2. uri' \in [Commit -> 0..MaxId]
  <2>1. ASSUME NEW c \in Caller, MapURI(c) PROVE uri' \in [Commit -> 0..MaxId]
    <3>1. call[c].id \in 0..MaxId
      BY <1>0 DEF CallType
    <3> QED BY <1>0, <2>1, <3>1 DEF MapURI, CreateURI, TypeOK
  <2> QED BY <1>0, <2>1 DEF Writers, TypeOK
<1>3. minted' \in 0..MaxId
  <2>1. minted \in 0..MaxId /\ MaxId \in Nat
    BY <1>0, StovepipeAssumption DEF TypeOK
  <2>2. minted' = minted \/ (minted < MaxId /\ minted' = minted + 1)
    BY <1>0 DEF Writers, MintID
  <2> QED BY <2>1, <2>2
<1>4. fact' \in [Commit -> {"none", "green", "broken"}]
  <2>1. ASSUME NEW u, NEW degree \in {"green", "broken"}, CreateFact(u, degree)
        PROVE  fact' \in [Commit -> {"none", "green", "broken"}]
    BY <1>0, <2>1 DEF CreateFact, TypeOK
  <2>2. \A state : DegreeFor(state) \in {"green", "broken"}
    BY DEF DegreeFor
  <2>3. fact' = fact \/ \E u : \E degree \in {"green", "broken"} : CreateFact(u, degree)
    BY <1>0, <2>2 DEF Writers, RecordFact, AbandonRecord, RecordValidationFact
  <2> QED BY <1>0, <2>1, <2>3 DEF TypeOK
<1>5. promoted' \in 0..MaxCommit
  <2>1. \A r \in Id : req[r] \in RequestType
    BY <1>0 DEF TypeOK
  <2>2. \A r \in Id : req[r].commit \in 0..MaxCommit
    BY <2>1 DEF RequestType
  <2>3. promoted' = promoted \/ \E r \in Id : promoted' = req[r].commit
    BY <1>0 DEF Writers, Promote
  <2> QED BY <1>0, <2>2, <2>3 DEF TypeOK
<1>6. events' \in 0..MaxEvents
  <2>1. events \in 0..MaxEvents /\ MaxEvents \in Nat
    BY <1>0, StovepipeAssumption DEF TypeOK
  <2>2. events' = events \/ (events < MaxEvents /\ events' = events + 1)
    BY <1>0 DEF Writers
  <2> QED BY <2>1, <2>2
<1> QED BY <1>1, <1>2, <1>3, <1>4, <1>5, <1>6

LEMMA CallsMove ==
    ASSUME [Next]_vars
    PROVE  call' = call \/ \E c \in Caller : IngestStep(c) \/ call' = [call EXCEPT ![c] = NoCall]
<1>1. ASSUME NEW b \in BuildId, PollStep(b) PROVE call' = call
  BY <1>1 DEF PollStep, PollBuild, ReleaseBuildSlot, MarkOutcome, AdvanceLastGreen, PublishRecord, pollRest
<1>2. ASSUME NEW r \in Id, BuildStep(r) \/ RecordStep(r) PROVE call' = call
  BY <1>2 DEF BuildStep, BuildTrigger, AssociateBuild, PublishBuildSignal, buildRest, RecordStep,
       RecordFact, PersistProjectFacts, HoldsBookmark, Promote, recordRest
<1>3. CASE ProcessStep \/ DlqStep
  BY <1>3 DEF ProcessStep, ProcessAgain, Coalesce, AdmitLatestHead, ConfirmAdmission, MarkProcessing,
       ClaimBuildSlot, PublishBuild, processRest, DlqStep, FailRequest, DLQProcess, DLQBuild,
       DLQBuildSignal, FailRequestRelease, AbandonRecord, dlqRest
<1>4. CASE NewCommit \/ RunnerStep \/ Fault \/ UNCHANGED vars
  BY <1>4 DEF NewCommit, RunnerStep, BuildEnds, Fault, Abandon, ExpireProcess, Crash, DeadLetter,
       Redeliver, faultRest, vars
<1> QED BY <1>1, <1>2, <1>3, <1>4 DEF Next, JobStep

CallsTyped ==
    /\ call' \in [Caller -> CallType]
    /\ \A c \in Caller : call'[c].accepted => call'[c].id \in Request'

LEMMA CallTypes ==
    ASSUME TypeInv, [Next]_vars
    PROVE  CallsTyped
<1>0. /\ TypeOK /\ call \in [Caller -> CallType] /\ Request \subseteq Request'
      /\ uri' \in [Commit -> 0..MaxId] /\ minted' \in 0..MaxId
      /\ \A c \in Caller : call[c].accepted => call[c].id \in Request
  BY Grow, CommitTypes DEF TypeInv, Types, Messages
<1>1. CASE call' = call
  BY <1>0, <1>1 DEF CallsTyped
<1>2. ASSUME NEW c \in Caller, NEW k \in CallType, call' = [call EXCEPT ![c] = k],
             k.accepted => k.id \in Request'
      PROVE  CallsTyped
  BY <1>0, <1>2 DEF CallsTyped
<1>3. ASSUME NEW c \in Caller, call' = [call EXCEPT ![c] = NoCall]
      PROVE  CallsTyped
  <2>1. NoCall \in CallType /\ NoCall.accepted = FALSE
    BY Idle DEF NoCall
  <2> QED BY <1>0, <1>3, <2>1 DEF CallsTyped
<1>4. ASSUME NEW c \in Caller, IngestStep(c)
      PROVE  CallsTyped
  <2>0. /\ call[c] \in CallType
        /\ call[c].accepted => call[c].id \in Request'
    BY <1>0
  <2>1. CASE Ingest(c)
    <3> DEFINE k == [NoCall EXCEPT !.at = "resolve", !.commit = trunk]
    <3>1. trunk \in 0..MaxCommit /\ trunk # 0
      BY <1>0, StovepipeAssumption DEF TypeOK, Commit
    <3>2. k \in CallType /\ k.accepted = FALSE
      BY <3>1, Idle DEF NoCall, CallType
    <3>3. call' = [call EXCEPT ![c] = k]
      BY <2>1 DEF Ingest
    <3> HIDE DEF k
    <3> QED BY <1>2, <3>2, <3>3
  <2>2. ASSUME NEW at \in {"ensure", "map"}, NEW r \in 0..MaxId, r # 0, call[c].commit # 0,
               call[c].accepted = FALSE, call' = [call EXCEPT ![c].at = at, ![c].id = r]
        PROVE  CallsTyped
    <3> DEFINE k == [call[c] EXCEPT !.at = at, !.id = r]
    <3>1. k \in CallType /\ k.accepted = FALSE
      BY <2>0, <2>2 DEF CallType
    <3>2. call' = [call EXCEPT ![c] = k]
      BY <2>2
    <3> HIDE DEF k
    <3> QED BY <1>2, <3>1, <3>2
  <2>3. CASE MintID(c)
    <3>1. call[c].commit \in Commit /\ call[c].commit # 0 /\ call[c].accepted = FALSE
      BY <2>0, <2>3, StovepipeAssumption DEF MintID, CallType, Commit
    <3>2. uri[call[c].commit] \in 0..MaxId /\ minted \in 0..MaxId /\ minted + 1 # 0
      BY <1>0, <3>1, StovepipeAssumption DEF TypeOK
    <3>3. CASE minted' = minted + 1 /\ call' = [call EXCEPT ![c].at = "map", ![c].id = minted + 1]
      <4>1. minted + 1 \in 0..MaxId
        BY <1>0, <3>3
      <4> QED BY <2>2, <3>1, <3>2, <3>3, <4>1
    <3> QED BY <2>2, <2>3, <3>1, <3>2, <3>3 DEF MintID, GetIDByURI
  <2>4. CASE MapURI(c)
    <3>1. call[c].commit \in Commit /\ call[c].commit # 0 /\ call[c].id \in 0..MaxId /\ call[c].id # 0
            /\ call[c].accepted = FALSE
      BY <2>0, <2>4, StovepipeAssumption DEF MapURI, CallType, Commit
    <3>2. uri'[call[c].commit] \in 0..MaxId /\ uri'[call[c].commit] # 0
      BY <1>0, <2>4, <3>1 DEF MapURI, CreateURI, TypeOK
    <3> QED BY <2>2, <2>4, <3>1, <3>2 DEF MapURI
  <2>5. CASE EnsureRequest(c)
    <3> DEFINE a == req'[call[c].id].state = "accepted"
               k == [call[c] EXCEPT !.at = "advance", !.accepted = a]
    <3>1. call[c].id \in Id /\ call[c].id # 0
      BY <2>0, <2>5, StovepipeAssumption DEF EnsureRequest, CallType, Id
    <3>2. a \in BOOLEAN /\ (a => call[c].id \in Request')
      BY <3>1 DEF Request
    <3>3. call' = [call EXCEPT ![c] = k]
      BY <2>5 DEF EnsureRequest
    <3> HIDE DEF a
    <3>4. k \in CallType /\ k.id = call[c].id /\ k.accepted = a
      BY <2>0, <2>5, <3>1, <3>2 DEF EnsureRequest, CallType
    <3> HIDE DEF k
    <3> QED BY <1>2, <3>2, <3>3, <3>4
  <2>6. CASE AdvanceQueueLatestRequestID(c)
    <3> DEFINE k == [call[c] EXCEPT !.at = "publish"]
    <3>1. k \in CallType /\ k.id = call[c].id /\ k.accepted = call[c].accepted
      BY <2>0, <2>6 DEF AdvanceQueueLatestRequestID, CallType
    <3>2. call' = [call EXCEPT ![c] = k]
      BY <2>6 DEF AdvanceQueueLatestRequestID
    <3> HIDE DEF k
    <3> QED BY <1>2, <2>0, <3>1, <3>2
  <2>7. CASE PublishProcess(c)
    BY <1>3, <2>7 DEF PublishProcess
  <2> QED BY <1>4, <2>1, <2>3, <2>4, <2>5, <2>6, <2>7 DEF IngestStep
<1> QED BY <1>1, <1>3, <1>4, CallsMove

\* The process topic after a step.
LEMMA LineTypes ==
    ASSUME TypeInv, [Next]_vars
    PROVE  line' \in Seq(Request')
<1>0. /\ line \in Seq(Request) /\ Request \subseteq Request' /\ sent \subseteq Message
      /\ \A c \in Caller : call[c].accepted => call[c].id \in Request
  BY Grow DEF TypeInv, Messages
<1>1. line \in Seq(Request') /\ <<>> \in Seq(Request')
  <2>1. Seq(Request) \subseteq Seq(Request')
    BY <1>0
  <2> QED BY <1>0, <2>1
<1>2. ASSUME line # <<>> PROVE Tail(line) \in Seq(Request')
  BY <1>1, <1>2
<1>3. ASSUME NEW r \in Request PROVE Append(line, r) \in Seq(Request') /\ <<r>> \o line \in Seq(Request')
  BY <1>0, <1>1, <1>3
<1>4. CASE line' = line \/ (line # <<>> /\ line' = Tail(line))
  BY <1>1, <1>2, <1>4
<1>5. ASSUME NEW c \in Caller, IngestStep(c) PROVE line' \in Seq(Request')
  <2>1. CASE PublishProcess(c)
    BY <1>0, <1>1, <1>3, <2>1 DEF PublishProcess
  <2> QED BY <1>4, <1>5, <2>1 DEF IngestStep, Ingest, MintID, MapURI, EnsureRequest, AdvanceQueueLatestRequestID
<1>6. CASE ProcessStep
  <2>1. ASSUME NEW j \in {Now, Late}, job[j].at # "idle", line' = line \/ line' = Acked(j)
        PROVE  line' \in Seq(Request')
    BY <1>4, <2>1 DEF Acked, TypeInv, Handlers
  <2>2. CASE ProcessAgain \/ Coalesce \/ AdmitLatestHead
    BY <1>4, <2>2 DEF ProcessAgain, Coalesce, AdmitLatestHead
  <2> QED BY <1>6, <2>1, <2>2 DEF ProcessStep, ConfirmAdmission, MarkProcessing, ClaimBuildSlot, PublishBuild
<1>7. ASSUME NEW m \in sent, Redeliver(m) PROVE line' \in Seq(Request')
  <2>1. m \in Message
    BY <1>0
  <2>2. m[1] = "process" => m[2] \in Request
    BY <2>1 DEF Message
  <2> QED BY <1>1, <1>3, <1>7, <2>2 DEF Redeliver
<1>8. ASSUME NEW j \in Job, DeadLetter(j) PROVE line' \in Seq(Request')
  BY <1>4, <1>8 DEF DeadLetter
<1>9. line' = line \/ (\E c \in Caller : IngestStep(c)) \/ ProcessStep
         \/ (\E m \in sent : Redeliver(m)) \/ (\E j \in Job : DeadLetter(j))
  <2>1. ASSUME NEW b \in BuildId, PollStep(b) PROVE line' = line
    BY <2>1 DEF PollStep, PollBuild, ReleaseBuildSlot, MarkOutcome, AdvanceLastGreen, PublishRecord, pollRest
  <2>2. ASSUME NEW r \in Id, BuildStep(r) \/ RecordStep(r) PROVE line' = line
    BY <2>2 DEF BuildStep, BuildTrigger, AssociateBuild, PublishBuildSignal, buildRest, RecordStep,
         RecordFact, PersistProjectFacts, HoldsBookmark, Promote, recordRest
  <2>3. CASE DlqStep
    BY <2>3 DEF DlqStep, FailRequest, DLQProcess, DLQBuild, DLQBuildSignal, FailRequestRelease,
         AbandonRecord, dlqRest
  <2>4. CASE NewCommit \/ RunnerStep \/ UNCHANGED vars
    BY <2>4 DEF NewCommit, RunnerStep, BuildEnds, vars, topics
  <2>5. CASE Fault
    BY <2>5 DEF Fault, Abandon, ExpireProcess, Crash, topics
  <2> QED BY <2>1, <2>2, <2>3, <2>4, <2>5 DEF Next, JobStep
<1> QED BY <1>4, <1>5, <1>6, <1>7, <1>8, <1>9

MessagesTyped ==
    sent' \subseteq Message' /\ inbox' \subseteq Message' \cap Job /\ dead' \subseteq Message'

\* A step publishes messages about what is stored.
LEMMA MessageTypes ==
    ASSUME TypeInv, [Next]_vars
    PROVE  MessagesTyped
<1>0. /\ sent \subseteq Message' /\ inbox \subseteq Message' \cap Job /\ dead \subseteq Message'
      /\ Request \subseteq Request' /\ Build \subseteq Build'
  BY Grow DEF TypeInv, Messages, Types, TypeOK
<1>1. \A r \in Request : <<"process", r>> \in Message' 
            /\ <<"build", r>> \in Message' \cap Job /\ <<"record", r>> \in Message' \cap Job
  BY <1>0, JobKeys DEF Message, Request
<1>2. \A b \in Build : <<"poll", b>> \in Message' \cap Job
  BY <1>0, JobKeys DEF Message, Build
<1>3. ASSUME NEW m \in Message', inbox' \subseteq inbox \cup ({m} \cap Job), sent' \subseteq sent \cup {m},
             dead' \subseteq dead \cup {m}
      PROVE  MessagesTyped
  BY <1>0, <1>3 DEF MessagesTyped
<1>4. ASSUME inbox' \subseteq inbox, sent' \subseteq sent, dead' \subseteq dead
      PROVE  MessagesTyped
  BY <1>0, <1>4 DEF MessagesTyped
<1>5. ASSUME NEW c \in Caller, IngestStep(c) PROVE MessagesTyped
  <2>1. CASE PublishProcess(c)
    <3>1. call[c].accepted => call[c].id \in Request
      BY DEF TypeInv, Messages
    <3> QED BY <1>0, <1>1, <2>1, <3>1 DEF PublishProcess, ingestRest, MessagesTyped
  <2> QED BY <1>4, <1>5, <2>1 DEF IngestStep, Ingest, MintID, MapURI, EnsureRequest,
          AdvanceQueueLatestRequestID, ingestRest
<1>6. CASE ProcessStep
  <2>1. ASSUME NEW j \in {Now, Late}, PublishBuild(j) PROVE MessagesTyped
    <3>1. <<"build", job[j].id>> \in Message' \cap Job
      BY <1>1, <2>1 DEF PublishBuild, TypeInv, Handlers, ProcessWorks
    <3> QED BY <1>3, <2>1, <3>1, Published DEF PublishBuild, processRest
  <2> QED BY <1>4, <1>6, <2>1 DEF ProcessStep, ProcessAgain, Coalesce, AdmitLatestHead, ConfirmAdmission,
          MarkProcessing, ClaimBuildSlot, processRest
<1>7. ASSUME NEW r \in Id, BuildStep(r) PROVE MessagesTyped
  <2>1. CASE PublishBuildSignal(r)
    <3>1. <<"poll", req[r].build>> \in Message' \cap Job
      BY <1>2, <2>1 DEF PublishBuildSignal, TypeInv, Handlers, BuildWorks, Stores
    <3> QED BY <1>3, <2>1, <3>1, Published DEF PublishBuildSignal, Ack, buildRest
  <2> QED BY <1>4, <1>7, <2>1 DEF BuildStep, BuildTrigger, AssociateBuild, Ack, buildRest
<1>8. ASSUME NEW b \in BuildId, PollStep(b) PROVE MessagesTyped
  <2>1. CASE PublishRecord(b)
    <3>1. <<"record", builds[b].request>> \in Message' \cap Job
      BY <1>1, <2>1 DEF PublishRecord, TypeInv, Handlers, PollWorks, Stores
    <3> QED BY <1>3, <2>1, <3>1, Published DEF PublishRecord, Ack, pollRest
  <2> QED BY <1>4, <1>8, <2>1 DEF PollStep, PollBuild, ReleaseBuildSlot, MarkOutcome, AdvanceLastGreen,
          Ack, pollRest
<1>9. ASSUME NEW r \in Id, RecordStep(r) PROVE MessagesTyped
  BY <1>4, <1>9 DEF RecordStep, RecordFact, PersistProjectFacts, HoldsBookmark, Promote, Ack, recordRest
<1>10. CASE DlqStep
  BY <1>4, <1>10 DEF DlqStep, FailRequest, DLQProcess, DLQBuild, DLQBuildSignal, FailRequestRelease,
     AbandonRecord, dlqRest
<1>11. ASSUME NEW j \in Job, DeadLetter(j) PROVE MessagesTyped
  <2> DEFINE m == IF j = Now THEN <<"process", Head(line)>> ELSE j
  <2>1. m \in Message'
    <3>1. line # <<>> => Head(line) \in Request
      BY DEF TypeInv, Messages
    <3> QED BY <1>0, <1>1, <1>11, <3>1 DEF DeadLetter
  <2>2. dead' = dead \cup {m} /\ inbox' \subseteq inbox /\ sent' = sent
    BY <1>11 DEF DeadLetter, faultRest
  <2> HIDE DEF m
  <2> QED BY <1>3, <2>1, <2>2
<1>12. ASSUME NEW m \in sent, Redeliver(m) PROVE MessagesTyped
  <2>1. m \in Message
    BY <1>12 DEF TypeInv, Messages
  <2>2. m[1] # "process" => m \in Job
    BY <2>1 DEF Message, Job, Request, Build
  <2> QED BY <1>0, <1>3, <1>12, <2>2 DEF Redeliver, faultRest
<1>13. CASE NewCommit \/ RunnerStep \/ UNCHANGED vars
  BY <1>4, <1>13 DEF NewCommit, RunnerStep, BuildEnds, vars, topics
<1>14. ASSUME (\E c \in Caller : Abandon(c)) \/ ExpireProcess \/ (\E j \in Job : Crash(j))
       PROVE  MessagesTyped
  BY <1>4, <1>14 DEF Abandon, ExpireProcess, Crash, topics, faultRest
<1> QED BY <1>5, <1>6, <1>7, <1>8, <1>9, <1>10, <1>11, <1>12, <1>13, <1>14 DEF Next, JobStep, Fault

-----------------------------------------------------------------------------
(* Handlers in flight.                                                      *)

\* Nobody disturbs a handler but itself.
LEMMA Undisturbed ==
    ASSUME TypeInv, [Next]_vars
    PROVE  /\ \A b \in BuildId : job'[<<"poll", b>>] = job[<<"poll", b>>] => PollWorks(b)'
           /\ \A r \in Id : job'[<<"record", r>>] = job[<<"record", r>>] => RecordWorks(r)'
           /\ \A r \in Id : job'[<<"build", r>>] = job[<<"build", r>>] => BuildWorks(r)'
           /\ \A j \in {Now, Late} : job'[j] = job[j] => ProcessWorks(j)'
<1>1. /\ Request \subseteq Request' /\ Build \subseteq Build' /\ 1..Len(run) \subseteq 1..Len(run')
      /\ KeepsRequests /\ Handlers
  BY Grow, RequestsAreKept DEF TypeInv
<1>2. \A b \in BuildId : job'[<<"poll", b>>] = job[<<"poll", b>>] => PollWorks(b)'
  BY <1>1 DEF Handlers, PollWorks
<1>3. \A r \in Id : job'[<<"record", r>>] = job[<<"record", r>>] => RecordWorks(r)'
  BY <1>1 DEF Handlers, RecordWorks
<1>4. ASSUME NEW r \in Id, job'[<<"build", r>>] = job[<<"build", r>>] PROVE BuildWorks(r)'
  <2>1. BuildWorks(r)
    BY <1>1 DEF Handlers
  <2>2. req[r].build # 0 /\ r \in Request => req'[r].build # 0
    BY <1>1 DEF KeepsRequests, Request
  <2> QED BY <1>1, <1>4, <2>1, <2>2 DEF BuildWorks
<1>5. \A j \in {Now, Late} : job'[j] = job[j] => ProcessWorks(j)'
  BY <1>1 DEF Handlers, ProcessWorks
<1> QED BY <1>2, <1>3, <1>4, <1>5

\* An idle handler works on nothing.
LEMMA IdleWorks ==
    ASSUME TypeInv
    PROVE  /\ \A b \in BuildId : job'[<<"poll", b>>] = NoJob => PollWorks(b)'
           /\ \A r \in Id : job'[<<"record", r>>] = NoJob => RecordWorks(r)'
           /\ \A r \in Id : job'[<<"build", r>>] = NoJob => BuildWorks(r)'
           /\ \A j \in {Now, Late} : job'[j] = NoJob => ProcessWorks(j)'
           /\ job'[DLQ] = NoJob => DlqWorks'
  BY DEF NoJob, PollWorks, RecordWorks, BuildWorks, ProcessWorks, DlqWorks

OnlyJob(k) == \A j \in Job \ {k} : job'[j] = job[j]
JobsTyped == job' \in [Job -> JobType] /\ Handlers'
DeadLettersStay == \A d \in dead : d[1] # "record" => d \in dead'
LineStays == line # <<>> => line' # <<>>

LEMMA NoJobTouched ==
    ASSUME TypeInv, [Next]_vars, job' = job, DeadLettersStay, LineStays
    PROVE  JobsTyped
<1>1. job' \in [Job -> JobType]
  BY DEF TypeInv, Types
<1>2. DlqWorks'
  BY DEF Handlers, TypeInv, DlqWorks, DeadLettersStay
<1>3. job'[Now].at # "idle" => line' # <<>>
  BY DEF TypeInv, Handlers, LineStays
<1>4. /\ \A b \in BuildId : PollWorks(b)'
      /\ \A r \in Id : RecordWorks(r)' /\ BuildWorks(r)'
      /\ ProcessWorks(Now)' /\ ProcessWorks(Late)'
  BY Undisturbed
<1> QED BY <1>1, <1>2, <1>3, <1>4 DEF JobsTyped, Handlers

\* One handler moves.
LEMMA OneJobTouched ==
    ASSUME TypeInv, [Next]_vars, NEW k \in Job, NEW x \in JobType, job' = [job EXCEPT ![k] = x],
           \A b \in BuildId : k = <<"poll", b>> => PollWorks(b)',
           \A r \in Id : k = <<"record", r>> => RecordWorks(r)',
           \A r \in Id : k = <<"build", r>> => BuildWorks(r)',
           k \in {Now, Late} => ProcessWorks(k)',
           IF k = DLQ THEN DlqWorks' ELSE DeadLettersStay,
           IF k = Now THEN x.at # "idle" => line' # <<>> ELSE LineStays
    PROVE  JobsTyped
<1>1. job' \in [Job -> JobType] /\ \A j \in Job : job'[j] = IF j = k THEN x ELSE job[j]
  BY DEF TypeInv, Types
<1>2. \A b \in BuildId : PollWorks(b)'
  BY <1>1, JobKeys, Undisturbed
<1>3. \A r \in Id : RecordWorks(r)' /\ BuildWorks(r)'
  BY <1>1, JobKeys, Undisturbed
<1>4. ProcessWorks(Now)' /\ ProcessWorks(Late)'
  BY <1>1, JobKeys, Undisturbed
<1>5. DlqWorks'
  <2>1. CASE k # DLQ
    <3>1. job'[DLQ] = job[DLQ]
      BY <1>1, <2>1, JobKeys
    <3> QED BY <2>1, <3>1 DEF TypeInv, Handlers, DlqWorks, DeadLettersStay
  <2> QED BY <2>1
<1>6. job'[Now].at # "idle" => line' # <<>>
  <2>1. CASE k # Now
    BY <1>1, <2>1, JobKeys DEF TypeInv, Handlers, LineStays
  <2> QED BY <1>1, <2>1
<1> QED BY <1>1, <1>2, <1>3, <1>4, <1>5, <1>6 DEF JobsTyped, Handlers

\* One handler is done.
LEMMA OneJobDone ==
    ASSUME TypeInv, [Next]_vars, NEW k \in Job, job' = [job EXCEPT ![k] = NoJob],
           k # DLQ => DeadLettersStay, k # Now => LineStays
    PROVE  JobsTyped
<1>1. NoJob \in JobType /\ NoJob.at = "idle" /\ job'[k] = NoJob
  BY Idle DEF NoJob, TypeInv, Types
<1>2. /\ \A b \in BuildId : k = <<"poll", b>> => PollWorks(b)'
      /\ \A r \in Id : k = <<"record", r>> => RecordWorks(r)'
      /\ \A r \in Id : k = <<"build", r>> => BuildWorks(r)'
      /\ k \in {Now, Late} => ProcessWorks(k)'
      /\ k = DLQ => DlqWorks'
  BY <1>1, IdleWorks
<1> QED BY <1>1, <1>2, OneJobTouched

LEMMA ProcessJobs ==
    ASSUME TypeInv, [Next]_vars, ProcessStep
    PROVE  JobsTyped
<1>0. /\ Now \in Job /\ Late \in Job /\ Now # DLQ /\ Late # DLQ /\ Now # Late
      /\ dead' = dead /\ DeadLettersStay /\ Request \subseteq Request'
  BY JobKeys, Grow DEF ProcessStep, ProcessAgain, Coalesce, AdmitLatestHead, ConfirmAdmission,
     MarkProcessing, ClaimBuildSlot, PublishBuild, processRest, Now, Late, DLQ, DeadLettersStay
<1>1. \A r \in Id : Now # <<"record", r>> /\ Now # <<"build", r>> /\ Late # <<"record", r>> /\ Late # <<"build", r>>
  BY DEF Now, Late
<1>2. \A b \in BuildId : Now # <<"poll", b>> /\ Late # <<"poll", b>>
  BY DEF Now, Late
<1>3. ASSUME NEW j \in {Now, Late}, NEW x \in JobType, job' = [job EXCEPT ![j] = x],
             x.id \in Request', j = Now => line' # <<>>, LineStays
      PROVE  JobsTyped
  <2>1. job'[j] = x
    BY <1>0, <1>3 DEF TypeInv, Types
  <2>2. ProcessWorks(j)'
    BY <1>3, <2>1 DEF ProcessWorks
  <2> QED BY <1>0, <1>1, <1>2, <1>3, <2>2, OneJobTouched
<1>4. ASSUME NEW j \in {Now, Late}, job[j].at # "idle"
      PROVE  /\ job[j] \in JobType /\ job[j].id \in Request' /\ (j = Now => line # <<>>)
             /\ \A at \in {"mark", "claim", "publish"} :
                   [job[j] EXCEPT !.at = at] \in JobType /\ [job[j] EXCEPT !.at = at].id = job[j].id
  <2>1. job[j] \in JobType /\ job[j].id \in Request' /\ (j = Now => line # <<>>)
    BY <1>0, <1>4 DEF TypeInv, Types, Handlers, ProcessWorks
  <2> QED BY <2>1 DEF JobType
<1>5. ASSUME NEW r \in Request, NEW at \in {"claim", "publish"}
      PROVE  [NoJob EXCEPT !.at = at, !.id = r] \in JobType /\ [NoJob EXCEPT !.at = at, !.id = r].id = r
  <2>1. r \in Nat
    BY DEF Request, Id
  <2>2. [NoJob EXCEPT !.id = r] \in JobType /\ [NoJob EXCEPT !.id = r].id = r
    BY <2>1, Idle DEF JobType
  <2>3. [[NoJob EXCEPT !.id = r] EXCEPT !.at = at] \in JobType /\ [[NoJob EXCEPT !.id = r] EXCEPT !.at = at].id = r
    BY <2>2 DEF JobType
  <2>4. [[NoJob EXCEPT !.id = r] EXCEPT !.at = at] = [NoJob EXCEPT !.at = at, !.id = r]
    BY Idle DEF JobType
  <2> QED BY <2>3, <2>4
<1>6. CASE ProcessAgain
  <2>1. line # <<>> /\ Head(line) \in Request
    BY <1>6 DEF ProcessAgain, TypeInv, Messages
  <2>2. CASE job' = job
    <3>1. \A n \in {Now} : job'[n].at = "idle"
      BY <1>6, <2>2 DEF ProcessAgain
    <3>2. ProcessWorks(Now)' /\ ProcessWorks(Late)' /\ DlqWorks'
      BY <1>0, <2>2, Undisturbed DEF TypeInv, Handlers, DlqWorks
    <3>3. /\ \A b \in BuildId : PollWorks(b)'
          /\ \A r \in Id : RecordWorks(r)' /\ BuildWorks(r)'
      BY <2>2, Undisturbed
    <3> QED BY <2>2, <3>1, <3>2, <3>3 DEF JobsTyped, Handlers, TypeInv, Types
  <2>3. CASE job' = [job EXCEPT ![Now] = [NoJob EXCEPT !.at = "publish", !.id = Head(line)]] /\ line' = line
    BY <1>0, <1>3, <1>5, <2>1, <2>3 DEF LineStays
  <2> QED BY <1>6, <2>2, <2>3 DEF ProcessAgain
<1>7. CASE Coalesce
  <2>1. job' = job /\ job[Now].at = "idle"
    BY <1>7 DEF Coalesce
  <2>2. ProcessWorks(Now)' /\ ProcessWorks(Late)' /\ DlqWorks'
    BY <1>0, <2>1, Undisturbed DEF TypeInv, Handlers, DlqWorks
  <2>3. /\ \A b \in BuildId : PollWorks(b)'
        /\ \A r \in Id : RecordWorks(r)' /\ BuildWorks(r)'
    BY <2>1, Undisturbed
  <2> QED BY <2>1, <2>2, <2>3 DEF JobsTyped, Handlers, TypeInv, Types
<1>8. CASE AdmitLatestHead
  <2> DEFINE base == DeriveBuildStrategy(queue, Head(line))
             x == [NoJob EXCEPT !.at = "plan", !.id = Head(line), !.version = queue.version, !.base = base]
  <2>1. line # <<>> /\ Head(line) \in Request /\ line' = line
    BY <1>8 DEF AdmitLatestHead, TypeInv, Messages
  <2>2. base \in 0..MaxCommit /\ queue.version \in Nat
    <3>1. \A r \in Id : req[r] \in RequestType
      BY DEF TypeInv, Types, TypeOK
    <3>2. queue.green # 0 => queue.green \in Id
      BY StovepipeAssumption DEF TypeInv, Types, TypeOK, Id
    <3>3. 0 \in 0..MaxCommit /\ queue.version \in Nat
      BY StovepipeAssumption DEF TypeInv, Types, TypeOK
    <3>4. \A r \in Id : req[r].commit \in 0..MaxCommit
      BY <3>1 DEF RequestType
    <3> QED BY <3>2, <3>3, <3>4 DEF DeriveBuildStrategy
  <2> HIDE DEF base
  <2>3. x \in JobType /\ x.id = Head(line)
    <3>1. Head(line) \in Nat
      BY <2>1 DEF Request, Id
    <3>2. [NoJob EXCEPT !.at = "plan", !.id = Head(line)] \in JobType
      BY <3>1, Idle DEF JobType
    <3>3. [NoJob EXCEPT !.at = "plan", !.id = Head(line), !.version = queue.version] \in JobType
      BY <3>2, <2>2 DEF JobType
    <3>4. x \in JobType
      BY <3>3, <2>2 DEF JobType
    <3> QED BY <3>4, Idle DEF JobType
  <2>4. job' = [job EXCEPT ![Now] = x]
    BY <1>8 DEF AdmitLatestHead, base
  <2> HIDE DEF x
  <2> QED BY <1>0, <1>3, <2>1, <2>3, <2>4 DEF LineStays
<1>9. ASSUME NEW j \in {Now, Late}, ConfirmAdmission(j) \/ ClaimBuildSlot(j) PROVE JobsTyped
  <2>1. job[j].at # "idle" /\ line' = line /\ LineStays
    BY <1>9 DEF ConfirmAdmission, ClaimBuildSlot, LineStays
  <2>2. CASE job' = [job EXCEPT ![j] = NoJob]
    BY <1>0, <2>1, <2>2, OneJobDone
  <2>3. ASSUME NEW at \in {"mark", "publish"}, job' = [job EXCEPT ![j].at = at] PROVE JobsTyped
    <3> DEFINE x == [job[j] EXCEPT !.at = at]
    <3>1. x \in JobType /\ x.id \in Request' /\ (j = Now => line' # <<>>)
      BY <1>4, <2>1
    <3>2. job' = [job EXCEPT ![j] = x]
      BY <2>3
    <3> HIDE DEF x
    <3> QED BY <1>3, <2>1, <3>1, <3>2
  <2> QED BY <1>9, <2>2, <2>3 DEF ConfirmAdmission, ClaimBuildSlot
<1>10. ASSUME NEW j \in {Now, Late}, MarkProcessing(j) \/ PublishBuild(j) PROVE JobsTyped
  <2>1. job[j].at # "idle" /\ job[j].id \in Request'
    BY <1>4, <1>10 DEF MarkProcessing, PublishBuild
  <2>2. CASE job' = [job EXCEPT ![j] = NoJob] /\ line' = Acked(j)
    BY <1>0, <2>2, OneJobDone DEF Acked, LineStays
  <2>3. CASE job' = [job EXCEPT ![j] = [NoJob EXCEPT !.at = "claim", !.id = job[j].id]] /\ line' = line
    <3>1. job[j].id \in Request
      BY <2>1, <1>10 DEF TypeInv, Handlers, ProcessWorks
    <3> DEFINE x == [NoJob EXCEPT !.at = "claim", !.id = job[j].id]
    <3>2. x \in JobType /\ x.id = job[j].id /\ LineStays
      BY <1>5, <2>3, <3>1 DEF LineStays
    <3>3. line' # <<>> \/ j # Now
      BY <1>4, <1>10, <2>1, <2>3 DEF LineStays, MarkProcessing, PublishBuild
    <3>4. job' = [job EXCEPT ![j] = x]
      BY <2>3
    <3> HIDE DEF x
    <3> QED BY <1>0, <1>3, <2>1, <3>2, <3>3, <3>4
  <2> QED BY <1>10, <2>2, <2>3 DEF MarkProcessing, PublishBuild
<1> QED BY <1>6, <1>7, <1>8, <1>9, <1>10 DEF ProcessStep

LEMMA BuildJobs ==
    ASSUME TypeInv, [Next]_vars, NEW r \in Id, BuildStep(r)
    PROVE  JobsTyped
<1> DEFINE k == <<"build", r>>
<1>0. k \in Job /\ DeadLettersStay /\ LineStays /\ Request \subseteq Request' /\ job[k] \in JobType
  BY JobKeys, Grow DEF BuildStep, BuildTrigger, AssociateBuild, PublishBuildSignal, buildRest,
     DeadLettersStay, LineStays, TypeInv, Types
<1>1. k # Now /\ k # Late /\ k # DLQ
  BY DEF Now, Late, DLQ
<1>2. ASSUME NEW x \in JobType, job' = [job EXCEPT ![k] = x], r \in Request,
             x.at = "associate" => x.build \in 1..Len(run'), x.at = "signal" => req'[r].build # 0
      PROVE  JobsTyped
  <2>1. job'[k] = x
    BY <1>0, <1>2 DEF TypeInv, Types
  <2>2. BuildWorks(r)'
    BY <1>0, <1>2, <2>1 DEF BuildWorks
  <2> QED BY <1>0, <1>1, <1>2, <2>2, OneJobTouched
<1>3. [NoJob EXCEPT !.at = "signal"] \in JobType /\ [NoJob EXCEPT !.at = "signal"].at = "signal"
  BY Idle DEF JobType
<1>4. CASE BuildTrigger(r)
  <2>1. r \in Request
    BY <1>4 DEF BuildTrigger, TypeInv, Messages, Message
  <2>2. CASE job' = job
    BY <1>0, <2>2, NoJobTouched
  <2>3. CASE job' = [job EXCEPT ![k].at = "signal"] /\ req[r].build # 0 /\ req' = req
    <3> DEFINE x == [job[k] EXCEPT !.at = "signal"]
    <3>1. x \in JobType /\ x.at = "signal"
      BY <1>0 DEF JobType
    <3>2. job' = [job EXCEPT ![k] = x]
      BY <2>3
    <3> HIDE DEF x
    <3> QED BY <1>2, <2>1, <2>3, <3>1, <3>2
  <2>4. CASE /\ Len(run) < MaxBuild /\ run' = Append(run, "running")
             /\ job' = [job EXCEPT ![k] = [NoJob EXCEPT !.at = "associate", !.build = Len(run) + 1]]
    <3> DEFINE x == [NoJob EXCEPT !.at = "associate", !.build = Len(run) + 1]
    <3>1. Len(run) + 1 \in 1..Len(run') /\ Len(run) + 1 \in 0..MaxBuild
      <4>1. run \in Seq(Outcome \cup {"running"}) /\ Len(run) \in Nat /\ MaxBuild \in Nat
        BY StovepipeAssumption DEF TypeInv, Types, TypeOK
      <4>2. Len(run') = Len(run) + 1
        BY <2>4, <4>1
      <4> QED BY <2>4, <4>1, <4>2
    <3>2. x \in JobType /\ x.at = "associate" /\ x.build = Len(run) + 1
      BY <3>1, Idle DEF JobType
    <3> HIDE DEF x
    <3> QED BY <1>2, <2>1, <2>4, <3>1, <3>2 DEF x
  <2> QED BY <1>4, <2>2, <2>3, <2>4 DEF BuildTrigger
<1>5. CASE AssociateBuild(r)
  <2>1. r \in Request /\ job[k].build \in 1..Len(run)
    BY <1>5 DEF AssociateBuild, TypeInv, Handlers, BuildWorks
  <2>2. req'[r].build # 0
    <3> DEFINE b == job[k].build
    <3>1. b # 0 /\ req[r] \in RequestType /\ r \in DOMAIN req
      <4>1. req \in [Id -> RequestType]
        BY DEF TypeInv, Types, TypeOK
      <4> QED BY <2>1, <4>1
    <3>2. IF req[r].build = 0 THEN req' = [req EXCEPT ![r] = [req[r] EXCEPT !.build = b]] ELSE req' = req
      BY <1>5 DEF AssociateBuild, WriteRequest
    <3> HIDE DEF b
    <3> QED BY <3>1, <3>2 DEF RequestType
  <2> QED BY <1>2, <1>3, <1>5, <2>1, <2>2 DEF AssociateBuild
<1>6. CASE PublishBuildSignal(r)
  BY <1>0, <1>1, <1>6, OneJobDone DEF PublishBuildSignal
<1> QED BY <1>4, <1>5, <1>6 DEF BuildStep

LEMMA PollJobs ==
    ASSUME TypeInv, [Next]_vars, NEW b \in BuildId, PollStep(b)
    PROVE  JobsTyped
<1> DEFINE k == <<"poll", b>>
<1>0. k \in Job /\ DeadLettersStay /\ LineStays /\ Build \subseteq Build' /\ job[k] \in JobType
  BY JobKeys, Grow DEF PollStep, PollBuild, ReleaseBuildSlot, MarkOutcome, AdvanceLastGreen, PublishRecord,
     pollRest, DeadLettersStay, LineStays, TypeInv, Types
<1>1. k # Now /\ k # Late /\ k # DLQ
  BY DEF Now, Late, DLQ
<1>2. ASSUME NEW x \in JobType, job' = [job EXCEPT ![k] = x]
      PROVE  JobsTyped
  <2>1. b \in Build
    BY DEF PollStep, PollBuild, ReleaseBuildSlot, MarkOutcome, AdvanceLastGreen, PublishRecord,
       TypeInv, Messages, Message, Handlers, PollWorks
  <2>2. PollWorks(b)'
    BY <1>0, <2>1 DEF PollWorks
  <2> QED BY <1>0, <1>1, <1>2, <2>2, OneJobTouched
<1>3. \A at \in {"release", "green", "publish"} : [NoJob EXCEPT !.at = at] \in JobType
  BY Idle DEF JobType
<1>4. CASE PollBuild(b)
  <2> DEFINE r == builds[b].request
             s == req[r].state
             at == IF s \in Outcome THEN "green" ELSE "release"
  <2>1. b \in Build
    BY <1>4 DEF PollBuild, TypeInv, Messages, Message
  <2>2. r \in Id
    BY <2>1 DEF TypeInv, Stores, Request
  <2>3. s \in State
    BY <2>2 DEF TypeInv, Types, TypeOK, RequestType, State
  <2>4. [NoJob EXCEPT !.seen = s] \in JobType
    BY <2>3, Idle DEF JobType
  <2>5. [NoJob EXCEPT !.seen = s, !.at = at] \in JobType
    BY <2>4 DEF JobType
  <2>6. job' = job \/ job' = [job EXCEPT ![k] = [NoJob EXCEPT !.seen = s, !.at = at]]
    BY <1>4 DEF PollBuild
  <2> HIDE DEF r, s, at
  <2> QED BY <1>0, <1>2, <2>5, <2>6, NoJobTouched
<1>5. CASE ReleaseBuildSlot(b)
  <2> DEFINE x == [job[k] EXCEPT !.at = "mark"]
  <2>1. x \in JobType
    BY <1>0 DEF JobType
  <2>2. job' = [job EXCEPT ![k] = x]
    BY <1>5 DEF ReleaseBuildSlot
  <2> HIDE DEF x
  <2> QED BY <1>2, <2>1, <2>2
<1>6. CASE MarkOutcome(b) \/ AdvanceLastGreen(b)
  BY <1>2, <1>3, <1>6 DEF MarkOutcome, AdvanceLastGreen
<1>7. CASE PublishRecord(b)
  BY <1>2, <1>7, Idle DEF PublishRecord
<1> QED BY <1>4, <1>5, <1>6, <1>7 DEF PollStep

LEMMA RecordJobs ==
    ASSUME TypeInv, [Next]_vars, NEW r \in Id, RecordStep(r)
    PROVE  JobsTyped
<1> DEFINE k == <<"record", r>>
<1>0. k \in Job /\ DeadLettersStay /\ LineStays /\ Request \subseteq Request' /\ job[k] \in JobType
  BY JobKeys, Grow DEF RecordStep, RecordFact, PersistProjectFacts, HoldsBookmark, Promote, recordRest,
     DeadLettersStay, LineStays, TypeInv, Types
<1>1. k # Now /\ k # Late /\ k # DLQ
  BY DEF Now, Late, DLQ
<1>2. ASSUME NEW at \in {"projects", "bookmark", "promote"}, job' = [job EXCEPT ![k].at = at]
      PROVE  JobsTyped
  <2> DEFINE x == [job[k] EXCEPT !.at = at]
  <2>1. x \in JobType
    BY <1>0 DEF JobType
  <2>2. job' = [job EXCEPT ![k] = x]
    BY <1>2
  <2>3. r \in Request
    BY DEF RecordStep, RecordFact, PersistProjectFacts, HoldsBookmark, Promote, TypeInv, Messages,
       Message, Handlers, RecordWorks
  <2>4. RecordWorks(r)'
    BY <1>0, <2>3 DEF RecordWorks
  <2> HIDE DEF x
  <2> QED BY <1>0, <1>1, <2>1, <2>2, <2>4, OneJobTouched
<1>3. CASE job' = [job EXCEPT ![k] = NoJob]
  BY <1>0, <1>1, <1>3, OneJobDone
<1>4. CASE job' = job
  BY <1>0, <1>4, NoJobTouched
<1> QED BY <1>2, <1>3, <1>4 DEF RecordStep, RecordFact, PersistProjectFacts, HoldsBookmark, Promote

LEMMA DlqJobs ==
    ASSUME TypeInv, [Next]_vars, DlqStep
    PROVE  JobsTyped
<1>0. DLQ \in Job /\ LineStays /\ DLQ # Now /\ DLQ # Late
  BY JobKeys DEF DlqStep, FailRequest, DLQProcess, DLQBuild, DLQBuildSignal, FailRequestRelease,
     AbandonRecord, dlqRest, LineStays, Now, Late, DLQ
<1>1. \A b \in BuildId : DLQ # <<"poll", b>>
  BY DEF DLQ
<1>2. \A r \in Id : DLQ # <<"record", r>> /\ DLQ # <<"build", r>>
  BY DEF DLQ
<1>3. CASE FailRequest
  BY <1>0, <1>3, OneJobDone DEF FailRequest
<1>4. ASSUME NEW d \in dead, AbandonRecord(d) PROVE JobsTyped
  BY <1>0, <1>4, NoJobTouched DEF AbandonRecord, DeadLettersStay
<1>5. ASSUME NEW d \in dead, FailRequestRelease(d), d[1] \in {"process", "build", "poll"} PROVE JobsTyped
  <2> DEFINE r == RequestOf(d)
             x == [NoJob EXCEPT !.at = d[1], !.id = d[2], !.seen = req[r].state, !.build = req[r].build]
  <2>0. d \in Message
    BY DEF TypeInv, Messages
  <2>1. d[2] \in Nat /\ r \in Request /\ d = <<d[1], d[2]>>
    BY <2>0 DEF Message, RequestOf, Request, Build, Id, BuildId, TypeInv, Stores
  <2>2. CASE job' = job /\ job[DLQ].at = "idle"
    <3>1. DlqWorks'
      BY <2>2 DEF DlqWorks
    <3>2. /\ \A b \in BuildId : PollWorks(b)'
          /\ \A q \in Id : RecordWorks(q)' /\ BuildWorks(q)'
          /\ ProcessWorks(Now)' /\ ProcessWorks(Late)'
      BY <2>2, Undisturbed
    <3>3. job'[Now].at # "idle" => line' # <<>>
      BY <1>0, <2>2 DEF TypeInv, Handlers, LineStays
    <3> QED BY <2>2, <3>1, <3>2, <3>3 DEF JobsTyped, Handlers, TypeInv, Types
  <2>3. CASE job' = [job EXCEPT ![DLQ] = x] /\ dead' = dead /\ req[r].state \notin Terminal
    <3>1. req[r] \in RequestType /\ req[r].state # "none"
      BY <2>1 DEF TypeInv, Types, TypeOK, Request
    <3>2. [NoJob EXCEPT !.at = d[1], !.id = d[2]] \in JobType
      BY <1>5, <2>1, Idle DEF JobType
    <3>3. [NoJob EXCEPT !.at = d[1], !.id = d[2], !.seen = req[r].state] \in JobType
      BY <3>1, <3>2 DEF JobType, RequestType, State
    <3>4. x \in JobType /\ x.at = d[1] /\ x.id = d[2] /\ x.seen = req[r].state
      BY <3>1, <3>3 DEF JobType, RequestType
    <3> HIDE DEF r, x
    <3>5. job'[DLQ] = x
      BY <1>0, <2>3 DEF TypeInv, Types
    <3>6. DlqWorks'
      BY <1>5, <2>1, <2>3, <3>1, <3>4, <3>5 DEF DlqWorks
    <3> QED BY <1>0, <1>1, <1>2, <2>3, <3>4, <3>6, OneJobTouched
  <2> QED BY <1>5, <2>2, <2>3 DEF FailRequestRelease
<1> QED BY <1>3, <1>4, <1>5 DEF DlqStep, DLQProcess, DLQBuild, DLQBuildSignal

LEMMA FaultJobs ==
    ASSUME TypeInv, [Next]_vars, Fault
    PROVE  JobsTyped
<1>1. ASSUME NEW c \in Caller, Abandon(c) PROVE JobsTyped
  BY <1>1, NoJobTouched DEF Abandon, topics, DeadLettersStay, LineStays
<1>2. ASSUME NEW j \in Job, Crash(j) PROVE JobsTyped
  BY <1>2, OneJobDone DEF Crash, DeadLettersStay, LineStays
<1>3. ASSUME NEW m \in sent, Redeliver(m) PROVE JobsTyped
  <2>1. line' # <<>> \/ line' = line
    BY <1>3 DEF Redeliver, TypeInv, Messages
  <2> QED BY <1>3, <2>1, NoJobTouched DEF Redeliver, DeadLettersStay, LineStays
<1>4. ASSUME NEW j \in Job, DeadLetter(j) PROVE JobsTyped
  BY <1>4, OneJobDone DEF DeadLetter, DeadLettersStay, LineStays
<1>5. CASE ExpireProcess
  <2>1. /\ job[Now] \in JobType /\ job[Now].id \in Request /\ Request \subseteq Request'
        /\ Now \in Job /\ Late \in Job /\ DLQ \in Job /\ Now # Late /\ DLQ # Now /\ DLQ # Late
        /\ dead' = dead /\ line' = line
    BY <1>5, JobKeys, Grow DEF ExpireProcess, TypeInv, Types, Handlers, ProcessWorks, Now, Late, DLQ
  <2>2. job' \in [Job -> JobType] /\ job'[Late] = job[Now] /\ job'[Now] = NoJob
          /\ \A j \in Job : j # Now /\ j # Late => job'[j] = job[j]
    BY <1>5, <2>1, Idle DEF ExpireProcess, TypeInv, Types
  <2>3. /\ \A b \in BuildId : PollWorks(b)'
        /\ \A r \in Id : RecordWorks(r)' /\ BuildWorks(r)'
    BY <2>2, JobKeys, Undisturbed DEF Now, Late
  <2>4. ProcessWorks(Now)' /\ ProcessWorks(Late)'
    BY <2>1, <2>2, IdleWorks DEF ProcessWorks
  <2>5. DlqWorks'
    BY <2>1, <2>2 DEF DlqWorks, TypeInv, Handlers
  <2>6. job'[Now].at = "idle"
    BY <2>2 DEF NoJob
  <2> QED BY <2>2, <2>3, <2>4, <2>5, <2>6 DEF JobsTyped, Handlers
<1> QED BY <1>1, <1>2, <1>3, <1>4, <1>5 DEF Fault

LEMMA JobTypes ==
    ASSUME TypeInv, [Next]_vars
    PROVE  JobsTyped
<1>1. ASSUME NEW c \in Caller, IngestStep(c) PROVE JobsTyped
  <2>1. LineStays
    BY <1>1 DEF IngestStep, Ingest, MintID, MapURI, EnsureRequest, PublishProcess,
       AdvanceQueueLatestRequestID, ingestRest, LineStays, TypeInv, Messages
  <2>2. job' = job /\ DeadLettersStay
    BY <1>1 DEF IngestStep, Ingest, MintID, MapURI, EnsureRequest, PublishProcess,
       AdvanceQueueLatestRequestID, ingestRest, DeadLettersStay
  <2> QED BY <2>1, <2>2, NoJobTouched
<1>2. CASE NewCommit \/ RunnerStep \/ UNCHANGED vars
  BY <1>2, NoJobTouched DEF NewCommit, RunnerStep, BuildEnds, vars, topics, DeadLettersStay, LineStays
<1> QED BY <1>1, <1>2, ProcessJobs, BuildJobs, PollJobs, RecordJobs, DlqJobs, FaultJobs DEF Next, JobStep

NamesBuilds == \A r \in Id : req'[r].build # 0 => req'[r].build \in Build'

LEMMA RowNames ==
    ASSUME req \in [Id -> RequestType], \A r \in Id : req[r].build # 0 => req[r].build \in Build',
           NEW r, NEW row, WriteRequest(r, row), r \in Id => row.build \in {0, req[r].build} \cup Build'
    PROVE  NamesBuilds
  BY DEF WriteRequest, NamesBuilds

\* A request names a build that is stored.
LEMMA BuildNames ==
    ASSUME TypeInv, [Next]_vars
    PROVE  NamesBuilds
<1>0. /\ Writers /\ req \in [Id -> RequestType]
      /\ \A r \in Id : req[r].build # 0 => req[r].build \in Build'
  <2>1. Writers /\ req \in [Id -> RequestType]
    BY WritersAre DEF TypeInv, Types, TypeOK
  <2>2. Build \subseteq Build'
    BY Grow
  <2>3. \A r \in Id : req[r].build # 0 => req[r].build \in Build
    BY DEF TypeInv, Stores, NoRequest, Request
  <2> QED BY <2>1, <2>2, <2>3
<1>1. CASE req' = req
  BY <1>0, <1>1 DEF NamesBuilds
<1>2. CASE Coalesce
  <2> DEFINE r == Head(line)
             row == [req[r] EXCEPT !.state = "superseded"]
  <2>1. WriteRequest(r, row)
    BY <1>2 DEF Coalesce, Supersede
  <2>2. r \in Id => row.build \in {0, req[r].build} \cup Build'
    BY <1>0 DEF RequestType
  <2> HIDE DEF row
  <2> QED BY <1>0, <2>1, <2>2, RowNames
<1>3. CASE FailRequest
  <2>1. PICK r : req' # req => req' = [req EXCEPT ![r].state = "failed"]
    BY <1>3 DEF FailRequest
  <2> DEFINE row == [req[r] EXCEPT !.state = "failed"]
  <2>2. req' # req => WriteRequest(r, row)
    BY <2>1 DEF WriteRequest
  <2>3. r \in Id => row.build \in {0, req[r].build} \cup Build'
    BY <1>0 DEF RequestType
  <2> HIDE DEF row
  <2> QED BY <1>0, <1>1, <2>2, <2>3, RowNames
<1>4. ASSUME NEW c \in Caller, EnsureRequest(c) PROVE NamesBuilds
  <2> DEFINE row == [NoRequest EXCEPT !.state = "accepted", !.commit = call[c].commit]
  <2>1. row.build = 0
    BY DEF NoRequest
  <2>2. req' # req => WriteRequest(call[c].id, row)
    BY <1>4 DEF EnsureRequest, CreateRequest
  <2> HIDE DEF row
  <2> QED BY <1>0, <1>1, <2>1, <2>2, RowNames
<1>5. ASSUME NEW j \in {Now, Late}, MarkProcessing(j) PROVE NamesBuilds
  <2> DEFINE r == job[j].id
             row == [req[r] EXCEPT !.state = "processing", !.base = job[j].base]
  <2>1. req' # req => WriteRequest(r, row)
    BY <1>5 DEF MarkProcessing
  <2>2. r \in Id => row.build \in {0, req[r].build} \cup Build'
    BY <1>0 DEF RequestType
  <2> HIDE DEF r, row
  <2> QED BY <1>0, <1>1, <2>1, <2>2, RowNames
<1>6. ASSUME NEW r \in Id, AssociateBuild(r) PROVE NamesBuilds
  <2> DEFINE b == job[<<"build", r>>].build
             row == [req[r] EXCEPT !.build = b]
  <2>1. b \in 1..Len(run) /\ Len(run) \in Nat /\ Len(run) <= MaxBuild
    BY <1>6 DEF AssociateBuild, TypeInv, Handlers, BuildWorks, Types, TypeOK
  <2>2. b \in BuildId
    BY <2>1, StovepipeAssumption DEF BuildId
  <2>3. b \in Build'
    BY <1>6, <2>2 DEF AssociateBuild, WriteBuild, Build, TypeInv, Types, TypeOK
  <2>4. row.build = b /\ (req' # req => WriteRequest(r, row))
    BY <1>0, <1>6 DEF AssociateBuild, RequestType
  <2> HIDE DEF b, row
  <2> QED BY <1>0, <1>1, <2>3, <2>4, RowNames
<1>7. ASSUME NEW b \in BuildId, MarkOutcome(b) PROVE NamesBuilds
  <2> DEFINE r == builds[b].request
             row == [req[r] EXCEPT !.state = OutcomeState(builds[b].status), !.by = b]
  <2>1. req' # req => WriteRequest(r, row)
    BY <1>7 DEF MarkOutcome
  <2>2. r \in Id => row.build \in {0, req[r].build} \cup Build'
    BY <1>0 DEF RequestType
  <2> HIDE DEF r, row
  <2> QED BY <1>0, <1>1, <2>1, <2>2, RowNames
<1> QED BY <1>0, <1>1, <1>2, <1>3, <1>4, <1>5, <1>6, <1>7 DEF Writers

LEMMA TypeStep ==
    ASSUME TypeInv, [Next]_vars
    PROVE  TypeInv'
<1>1. Stores'
  <2>1. \A r \in Request' : req'[r].build # 0 => req'[r].build \in Build'
    BY BuildNames DEF NamesBuilds, Request
  <2> QED BY <2>1, RequestTypes, BuildTypes DEF Stores
<1>2. Messages'
  BY LineTypes, MessageTypes, CallTypes DEF Messages, MessagesTyped, CallsTyped
<1>3. Handlers' /\ job' \in [Job -> JobType]
  BY JobTypes DEF JobsTyped
<1>4. TypeOK'
  <2>1. Seq(Request') \subseteq Seq(Id)
    BY DEF Request
  <2>2. line' \in Seq(Id)
    BY <2>1, LineTypes
  <2>3. inbox' \subseteq Job
    BY MessageTypes DEF MessagesTyped
  <2>4. dead' \subseteq {"process", "build", "poll", "record"} \X Nat
    BY MessageTypes DEF MessagesTyped, Message, Request, Build, Id, BuildId
  <2> QED BY <2>2, <2>3, <2>4, CommitTypes, RequestTypes, QueueMovesForward, BuildTypes
          DEF TypeOK, QueueType, BuildType
<1> QED BY <1>1, <1>2, <1>3, <1>4, CallTypes, CommitTypes DEF TypeInv, Types, CallsTyped

-----------------------------------------------------------------------------
(* How a request's row moves.                                               *)

Entered(new, r) ==
    \E c \in Caller : /\ call[c].at = "ensure" /\ call[c].id = r
                      /\ new.commit = call[c].commit /\ new.base = 0 /\ new.state = "accepted"
Admitted(old, new) ==
    /\ old.state = "accepted" /\ new.state = "processing"
    /\ \E j \in {Now, Late} : new.base = job[j].base
Closed(old, new) ==
    /\ old.state = "processing" /\ new.base = old.base
    /\ \E b \in Build : new.by = b /\ new.state = OutcomeState(builds[b].status)
Moved(old, new) ==
    /\ old.state # "none" /\ new.base = old.base /\ new.by = old.by
    /\ new.state = old.state \/ new.state \in {"superseded", "failed"}
RowMoves(old, new, r) == Entered(new, r) \/ Admitted(old, new) \/ Closed(old, new) \/ Moved(old, new)

RequestMoves == \A r \in Id : req'[r] = req[r] \/ RowMoves(req[r], req'[r], r)

LEMMA RowIsMoved ==
    ASSUME req \in [Id -> RequestType], NEW r, NEW row, WriteRequest(r, row),
           r \in Id => RowMoves(req[r], row, r)
    PROVE  RequestMoves
<1>1. \A q \in Id : q # r => req'[q] = req[q]
  BY DEF WriteRequest
<1>2. r \in Id => req'[r] = row
  BY DEF WriteRequest
<1> QED BY <1>1, <1>2 DEF RequestMoves

LEMMA RequestsMove ==
    ASSUME TypeInv, [Next]_vars
    PROVE  RequestMoves
<1>0. Writers /\ req \in [Id -> RequestType]
  BY WritersAre DEF TypeInv, Types, TypeOK
<1> USE DEF RowMoves
<1>1. CASE req' = req
  BY <1>1 DEF RequestMoves
<1>2. CASE Coalesce
  <2> DEFINE r == Head(line)
             row == [req[r] EXCEPT !.state = "superseded"]
  <2>1. WriteRequest(r, row)
    BY <1>2 DEF Coalesce, Supersede
  <2>2. r \in Id => Moved(req[r], row)
    BY <1>0, <1>2 DEF Coalesce, Moved, RequestType
  <2> HIDE DEF r, row
  <2> QED BY <1>0, <2>1, <2>2, RowIsMoved
<1>3. CASE FailRequest
  <2>0. job[DLQ].seen # "none"
    BY <1>3 DEF FailRequest, TypeInv, Handlers, DlqWorks
  <2>1. PICK r : req' # req => req[r].state = job[DLQ].seen /\ req' = [req EXCEPT ![r].state = "failed"]
    BY <1>3 DEF FailRequest
  <2> DEFINE row == [req[r] EXCEPT !.state = "failed"]
  <2>2. req' # req => WriteRequest(r, row)
    BY <2>1 DEF WriteRequest
  <2>3. r \in Id /\ req' # req => Moved(req[r], row)
    BY <1>0, <2>0, <2>1 DEF Moved, RequestType
  <2> HIDE DEF row
  <2> QED BY <1>0, <1>1, <2>2, <2>3, RowIsMoved
<1>4. ASSUME NEW c \in Caller, EnsureRequest(c) PROVE RequestMoves
  <2> DEFINE row == [NoRequest EXCEPT !.state = "accepted", !.commit = call[c].commit]
  <2>1. Entered(row, call[c].id)
    BY <1>4 DEF Entered, EnsureRequest, NoRequest
  <2>2. req' # req => WriteRequest(call[c].id, row)
    BY <1>4 DEF EnsureRequest, CreateRequest
  <2> HIDE DEF row
  <2> QED BY <1>0, <1>1, <2>1, <2>2, RowIsMoved
<1>5. ASSUME NEW j \in {Now, Late}, MarkProcessing(j) PROVE RequestMoves
  <2> DEFINE r == job[j].id
             row == [req[r] EXCEPT !.state = "processing", !.base = job[j].base]
  <2>1. req' # req => req[r].state = "accepted" /\ WriteRequest(r, row)
    BY <1>5 DEF MarkProcessing
  <2>2. r \in Id /\ req[r].state = "accepted" => Admitted(req[r], row)
    BY <1>0 DEF Admitted, RequestType
  <2> HIDE DEF r, row
  <2> QED BY <1>0, <1>1, <2>1, <2>2, RowIsMoved
<1>6. ASSUME NEW r \in Id, AssociateBuild(r) PROVE RequestMoves
  <2> DEFINE row == [req[r] EXCEPT !.build = job[<<"build", r>>].build]
  <2>1. req' # req => WriteRequest(r, row)
    BY <1>6 DEF AssociateBuild
  <2>2. Moved(req[r], row)
    BY <1>0, <1>6 DEF AssociateBuild, TypeInv, Handlers, BuildWorks, Request, Moved, RequestType
  <2> HIDE DEF row
  <2> QED BY <1>0, <1>1, <2>1, <2>2, RowIsMoved
<1>7. ASSUME NEW b \in BuildId, MarkOutcome(b) PROVE RequestMoves
  <2> DEFINE r == builds[b].request
             row == [req[r] EXCEPT !.state = OutcomeState(builds[b].status), !.by = b]
  <2>1. req' # req => req[r].state = "processing" /\ WriteRequest(r, row)
    BY <1>7 DEF MarkOutcome
  <2>2. b \in Build
    BY <1>7 DEF MarkOutcome, TypeInv, Handlers, PollWorks
  <2>3. r \in Id /\ req[r].state = "processing" => Closed(req[r], row)
    BY <1>0, <2>2 DEF Closed, RequestType
  <2> HIDE DEF r, row
  <2> QED BY <1>0, <1>1, <2>1, <2>3, RowIsMoved
<1> QED BY <1>0, <1>1, <1>2, <1>3, <1>4, <1>5, <1>6, <1>7 DEF Writers

-----------------------------------------------------------------------------
(* Racing calls make one request.                                           *)

\* A stored request is its commit's, and a call that will store one holds the
\* commit's.
Mapped ==
    /\ \A r \in Request : req[r].commit \in Commit /\ uri[req[r].commit] = r
    /\ \A c \in Caller : call[c].at = "ensure" => uri[call[c].commit] = call[c].id

LEMMA MappedStep ==
    ASSUME TypeInv, Mapped, [Next]_vars
    PROVE  Mapped'
<1>0. /\ KeepsFacts /\ KeepsRequests /\ RequestMoves /\ call \in [Caller -> CallType]
      /\ uri \in [Commit -> 0..MaxId]
  BY FactsAreKept, RequestsAreKept, RequestsMove DEF TypeInv, Types, TypeOK
<1>1. \A c \in Caller : call[c].at # "idle" => call[c].commit \in Commit
  <2>1. \A c \in Caller : call[c] \in CallType
    BY <1>0
  <2> QED BY <2>1, StovepipeAssumption DEF CallType, Commit
<1>2. ASSUME NEW r \in Request' PROVE req'[r].commit \in Commit /\ uri'[req'[r].commit] = r
  <2>1. CASE r \in Request
    <3>1. req'[r].commit = req[r].commit
      BY <1>0, <2>1 DEF KeepsRequests, Request
    <3>2. uri[req[r].commit] = r /\ r # 0 /\ req[r].commit \in Commit
      BY <2>1 DEF Mapped, Request, Id
    <3> QED BY <1>0, <3>1, <3>2 DEF KeepsFacts
  <2>2. CASE r \notin Request
    <3>1. r \in Id /\ req[r].state = "none" /\ req'[r].state # "none" /\ r # 0
      BY <2>2 DEF Request, Id
    <3>2. Entered(req'[r], r)
      BY <1>0, <3>1 DEF RequestMoves, RowMoves, Admitted, Closed, Moved
    <3>3. PICK c \in Caller : call[c].at = "ensure" /\ call[c].id = r /\ req'[r].commit = call[c].commit
      BY <3>2 DEF Entered
    <3>4. call[c].commit \in Commit /\ uri[call[c].commit] = r
      BY <1>1, <3>3 DEF Mapped
    <3> QED BY <1>0, <3>1, <3>3, <3>4 DEF KeepsFacts
  <2> QED BY <2>1, <2>2
<1>3. ASSUME NEW c \in Caller, call'[c].at = "ensure" PROVE uri'[call'[c].commit] = call'[c].id
  <2>1. CASE call'[c] = call[c]
    <3>1. uri[call[c].commit] = call[c].id /\ call[c].id # 0 /\ call[c].commit \in Commit
      BY <1>0, <1>1, <1>3, <2>1 DEF Mapped, CallType
    <3> QED BY <1>0, <2>1, <3>1 DEF KeepsFacts
  <2>2. ASSUME NEW at, NEW r, call' = [call EXCEPT ![c].at = at, ![c].id = r]
        PROVE  call'[c].commit = call[c].commit /\ call'[c].id = r /\ call'[c].at = at
    <3>1. call[c] \in CallType
      BY <1>0
    <3>2. call'[c] = [call[c] EXCEPT !.at = at, !.id = r]
      BY <1>0, <2>2
    <3> QED BY <3>1, <3>2 DEF CallType
  <2>3. CASE MintID(c)
    <3>1. call[c].commit \in Commit /\ uri' = uri
      BY <1>1, <2>3 DEF MintID
    <3>2. CASE call' = [call EXCEPT ![c].at = "ensure", ![c].id = uri[call[c].commit]]
      BY <2>2, <3>1, <3>2
    <3>3. CASE call' = [call EXCEPT ![c].at = "map", ![c].id = minted + 1]
      BY <1>3, <2>2, <3>3
    <3> QED BY <2>3, <3>2, <3>3 DEF MintID, GetIDByURI
  <2>4. CASE MapURI(c)
    BY <2>2, <2>4 DEF MapURI
  <2>5. CASE EnsureRequest(c) \/ AdvanceQueueLatestRequestID(c) \/ PublishProcess(c) \/ Ingest(c)
    <3>1. call'[c].at # "ensure"
      <4>1. call[c] \in CallType
        BY <1>0
      <4>2. CASE EnsureRequest(c)
        <5> DEFINE a == req'[call[c].id].state = "accepted"
        <5>1. call'[c] = [call[c] EXCEPT !.at = "advance", !.accepted = a]
          BY <1>0, <4>2 DEF EnsureRequest
        <5> HIDE DEF a
        <5> QED BY <4>1, <5>1 DEF CallType
      <4>3. CASE AdvanceQueueLatestRequestID(c)
        BY <1>0, <4>1, <4>3 DEF AdvanceQueueLatestRequestID, CallType
      <4>4. CASE PublishProcess(c)
        BY <1>0, <4>4 DEF PublishProcess, NoCall
      <4>5. CASE Ingest(c)
        <5>1. call'[c] = [NoCall EXCEPT !.at = "resolve", !.commit = trunk]
          BY <1>0, <4>5 DEF Ingest
        <5> QED BY <5>1, Idle DEF CallType
      <4> QED BY <2>5, <4>2, <4>3, <4>4, <4>5
    <3> QED BY <1>3, <3>1
  <2>6. CASE call' = [call EXCEPT ![c] = NoCall]
    BY <1>0, <1>3, <2>6 DEF NoCall
  <2>7. ASSUME NEW d \in Caller, IngestStep(d) \/ call' = [call EXCEPT ![d] = NoCall], d # c
        PROVE  call'[c] = call[c]
    BY <1>0, <2>7 DEF IngestStep, Ingest, MintID, MapURI, EnsureRequest, PublishProcess,
       AdvanceQueueLatestRequestID
  <2> QED BY CallsMove, <2>1, <2>3, <2>4, <2>5, <2>6, <2>7 DEF IngestStep
<1> QED BY <1>2, <1>3 DEF Mapped

-----------------------------------------------------------------------------
(* A request succeeds on a build that passed.                               *)

\* A build's stored end is the runner's, and a success has such an end.
SuccessIsReal ==
    /\ \A b \in Build : builds[b].status \in Outcome => run[b] = builds[b].status
    /\ \A r \in Id : req[r].state = "succeeded" =>
          req[r].by \in 1..Len(run) /\ run[req[r].by] = "succeeded"

LEMMA SuccessStep ==
    ASSUME TypeInv, SuccessIsReal, [Next]_vars
    PROVE  SuccessIsReal'
<1>0. /\ Writers /\ KeepsBuilds /\ KeepsRequests /\ RequestMoves
      /\ \A b \in Build : b \in 1..Len(run) /\ b \in BuildId
      /\ builds \in [BuildId -> BuildType]
  BY WritersAre, BuildsAreKept, RequestsAreKept, RequestsMove
     DEF TypeInv, Types, TypeOK, Stores, BuildType, Build
<1>1. ASSUME NEW b \in Build', builds'[b].status \in Outcome PROVE run'[b] = builds'[b].status
  <2>1. CASE builds'[b] = builds[b]
    <3>1. b \in Build
      BY <2>1 DEF Build
    <3>2. run[b] = builds[b].status /\ run[b] # "running"
      BY <1>1, <2>1, <3>1 DEF SuccessIsReal, Outcome
    <3> QED BY <1>0, <2>1, <3>1, <3>2 DEF KeepsBuilds
  <2>2. ASSUME NEW r \in Id, AssociateBuild(r), builds'[b] # builds[b] PROVE FALSE
    <3>1. builds'[b] = [request |-> r, status |-> "running"]
      BY <1>0, <2>2 DEF AssociateBuild, WriteBuild, Build
    <3> QED BY <1>1, <3>1 DEF Outcome
  <2>3. ASSUME NEW a \in BuildId, PollBuild(a), builds'[b] # builds[b] PROVE run'[b] = builds'[b].status
    <3>1. b = a /\ builds' = [builds EXCEPT ![a] = [builds[a] EXCEPT !.status = run[a]]] /\ run' = run
      BY <1>0, <2>3 DEF PollBuild, Reconcile, WriteBuild, Build, pollRest
    <3>2. builds[a] \in BuildType /\ b \in BuildId
      BY <1>0 DEF Build
    <3>3. builds'[b] = [builds[a] EXCEPT !.status = run[a]]
      BY <1>0, <3>1, <3>2
    <3> QED BY <3>1, <3>2, <3>3 DEF BuildType
  <2> QED BY <1>0, <2>1, <2>2, <2>3 DEF Writers
<1>2. ASSUME NEW r \in Id, req'[r].state = "succeeded"
      PROVE  req'[r].by \in 1..Len(run') /\ run'[req'[r].by] = "succeeded"
  <2>1. CASE req[r].state = "succeeded"
    <3>1. req'[r].by = req[r].by /\ req[r].by \in 1..Len(run) /\ run[req[r].by] = "succeeded"
      BY <1>0, <2>1 DEF KeepsRequests, SuccessIsReal, Terminal, Outcome
    <3> QED BY <1>0, <3>1 DEF KeepsBuilds
  <2>2. CASE req[r].state # "succeeded"
    <3>1. Closed(req[r], req'[r])
      BY <1>0, <1>2, <2>2 DEF RequestMoves, RowMoves, Entered, Admitted, Moved
    <3>2. PICK b \in Build : req'[r].by = b /\ OutcomeState(builds[b].status) = "succeeded"
      BY <1>2, <3>1 DEF Closed
    <3>3. builds[b].status = "succeeded"
      BY <3>2 DEF OutcomeState
    <3>4. b \in 1..Len(run) /\ run[b] = "succeeded"
      BY <1>0, <3>3 DEF SuccessIsReal, Outcome
    <3> QED BY <1>0, <3>2, <3>4 DEF KeepsBuilds
  <2> QED BY <2>1, <2>2
<1> QED BY <1>1, <1>2 DEF SuccessIsReal

-----------------------------------------------------------------------------
(* A fact is a verdict.                                                     *)

FactIsVerdict(u) ==
    /\ uri[u] \in Request /\ req[uri[u]].state \in {"succeeded", "failed"}
    /\ fact[u] = DegreeFor(req[uri[u]].state)

\* A fact says what its commit's request came to; a handler of record goes on
\* when the fact is there, and to the bookmark when the project facts are.
Recorded(r) ==
    LET at == job[<<"record", r>>].at
    IN  /\ at \in {"projects", "bookmark", "promote"} =>
              req[r].state \in {"succeeded", "failed"} /\ fact[req[r].commit] # "none"
        /\ at \in {"bookmark", "promote"} => req[r].state = "succeeded" /\ req[r].commit \in projects

FactsAreVerdicts ==
    /\ \A u \in Commit : fact[u] # "none" => FactIsVerdict(u)
    /\ \A r \in Id : Recorded(r)

LEMMA FactStep ==
    ASSUME TypeInv, Mapped, FactsAreVerdicts, [Next]_vars
    PROVE  \A u \in Commit : fact'[u] # "none" => FactIsVerdict(u)'
<1>0. /\ Writers /\ KeepsFacts /\ KeepsRequests /\ Request \subseteq Request'
      /\ fact \in [Commit -> {"none", "green", "broken"}]
  BY WritersAre, FactsAreKept, RequestsAreKept, Grow DEF TypeInv, Types, TypeOK
<1> SUFFICES ASSUME NEW u \in Commit, fact'[u] # "none" PROVE FactIsVerdict(u)'
  OBVIOUS
<1>1. CASE fact[u] # "none"
  <2>1. FactIsVerdict(u) /\ fact'[u] = fact[u]
    BY <1>0, <1>1 DEF FactsAreVerdicts, KeepsFacts
  <2>2. uri'[u] = uri[u] /\ uri[u] \in Request /\ uri[u] \in Request'
    BY <1>0, <2>1 DEF FactIsVerdict, KeepsFacts, Request, Id
  <2>3. req'[uri[u]].state = req[uri[u]].state
    BY <1>0, <2>1, <2>2 DEF FactIsVerdict, KeepsRequests, Terminal, Outcome, Request
  <2> QED BY <2>1, <2>2, <2>3 DEF FactIsVerdict
<1>2. ASSUME NEW r \in Id, NEW degree, CreateFact(req[r].commit, degree), req' = req, uri' = uri,
             req[r].state \in {"succeeded", "failed"}, degree = DegreeFor(req[r].state), fact[u] = "none"
      PROVE  FactIsVerdict(u)'
  <2>1. req[r].commit = u /\ fact'[u] = degree
    BY <1>0, <1>2 DEF CreateFact
  <2>2. r \in Request /\ uri[u] = r
    BY <1>2, <2>1 DEF Mapped, Request
  <2> QED BY <1>0, <1>2, <2>1, <2>2 DEF FactIsVerdict
<1>3. ASSUME NEW r \in Id, RecordFact(r), fact' # fact PROVE FactIsVerdict(u)'
  BY <1>1, <1>2, <1>3 DEF RecordFact, RecordValidationFact, recordRest
<1>4. ASSUME NEW d \in dead, AbandonRecord(d), fact' # fact PROVE FactIsVerdict(u)'
  <2>1. d \in Message /\ d[1] = "record"
    BY <1>4 DEF AbandonRecord, TypeInv, Messages
  <2>2. d[2] \in Id
    BY <2>1 DEF Message, Request
  <2>3. DegreeFor("failed") = "broken"
    BY DEF DegreeFor
  <2> QED BY <1>1, <1>2, <1>4, <2>2, <2>3 DEF AbandonRecord, RecordValidationFact, dlqRest
<1> QED BY <1>0, <1>1, <1>3, <1>4 DEF Writers

\* A handler of record moves by its own steps, or is interrupted.
LEMMA RecordJobsMove ==
    ASSUME TypeInv, [Next]_vars, NEW r \in Id
    PROVE  LET k == <<"record", r>>
           IN  job'[k] = job[k] \/ RecordStep(r) \/ job'[k] = NoJob
<1> DEFINE k == <<"record", r>>
           Moves == job'[k] = job[k] \/ RecordStep(r) \/ job'[k] = NoJob
<1>0. /\ job \in [Job -> JobType] /\ k \in Job /\ k # Now /\ k # Late /\ k # DLQ
      /\ \A q \in Id : k # <<"build", q>> /\ (k = <<"record", q>> => q = r)
      /\ \A b \in BuildId : k # <<"poll", b>>
  BY JobKeys DEF TypeInv, Types, Now, Late, DLQ
<1> SUFFICES Moves
  OBVIOUS
<1>1. ASSUME NEW c \in Caller, IngestStep(c) PROVE Moves
  BY <1>1 DEF IngestStep, Ingest, MintID, MapURI, EnsureRequest, PublishProcess,
     AdvanceQueueLatestRequestID, ingestRest
<1>2. CASE ProcessStep
  BY <1>0, <1>2 DEF ProcessStep, ProcessAgain, Coalesce, AdmitLatestHead, ConfirmAdmission, MarkProcessing,
     ClaimBuildSlot, PublishBuild
<1>3. ASSUME NEW q \in Id, BuildStep(q) PROVE Moves
  BY <1>0, <1>3 DEF BuildStep, BuildTrigger, AssociateBuild, PublishBuildSignal
<1>4. ASSUME NEW b \in BuildId, PollStep(b) PROVE Moves
  BY <1>0, <1>4 DEF PollStep, PollBuild, ReleaseBuildSlot, MarkOutcome, AdvanceLastGreen, PublishRecord
<1>5. ASSUME NEW q \in Id, RecordStep(q) PROVE Moves
  BY <1>0, <1>5 DEF RecordStep, RecordFact, PersistProjectFacts, HoldsBookmark, Promote
<1>6. CASE DlqStep
  BY <1>0, <1>6 DEF DlqStep, FailRequest, DLQProcess, DLQBuild, DLQBuildSignal, FailRequestRelease,
     AbandonRecord
<1>7. CASE Fault
  BY <1>0, <1>7 DEF Fault, Abandon, ExpireProcess, Crash, DeadLetter, Redeliver
<1>8. CASE NewCommit \/ RunnerStep \/ UNCHANGED vars
  BY <1>8 DEF NewCommit, RunnerStep, BuildEnds, vars
<1> QED BY <1>1, <1>2, <1>3, <1>4, <1>5, <1>6, <1>7, <1>8 DEF Next, JobStep

LEMMA RecordedStep ==
    ASSUME TypeInv, Mapped, FactsAreVerdicts, [Next]_vars, NEW r \in Id
    PROVE  Recorded(r)'
<1> DEFINE k == <<"record", r>>
<1>0. /\ KeepsFacts /\ KeepsRequests /\ job \in [Job -> JobType] /\ k \in Job /\ Recorded(r)
      /\ fact \in [Commit -> {"none", "green", "broken"}]
      /\ req[r].state # "none" => req[r].commit \in Commit
  BY FactsAreKept, RequestsAreKept, JobKeys
     DEF TypeInv, Types, TypeOK, FactsAreVerdicts, Mapped, Request
<1>1. ASSUME job'[k].at \in {"projects", "bookmark", "promote"} => job'[k].at = job[k].at
      PROVE  Recorded(r)'
  <2>1. CASE job[k].at \in {"projects", "bookmark", "promote"}
    <3>1. req[r].state \in {"succeeded", "failed"} /\ fact[req[r].commit] # "none" /\ req[r].commit \in Commit
      BY <1>0, <2>1 DEF Recorded
    <3>2. req'[r].state = req[r].state /\ req'[r].commit = req[r].commit
      BY <1>0, <3>1 DEF KeepsRequests, Terminal, Outcome
    <3>3. fact'[req[r].commit] # "none" /\ projects \subseteq projects'
      BY <1>0, <3>1 DEF KeepsFacts
    <3> QED BY <1>0, <1>1, <3>1, <3>2, <3>3 DEF Recorded
  <2>2. CASE job[k].at \notin {"projects", "bookmark", "promote"}
    BY <1>1, <2>2 DEF Recorded
  <2> QED BY <2>1, <2>2
<1>2. CASE job'[k] = job[k] \/ job'[k] = NoJob
  BY <1>1, <1>2 DEF NoJob
<1>3. ASSUME NEW at, job' = [job EXCEPT ![k].at = at]
      PROVE  job'[k].at = at
  BY <1>0, <1>3 DEF JobType
<1>4. CASE RecordFact(r)
  <2>1. CASE job' = job \/ job' = [job EXCEPT ![k] = NoJob]
    BY <1>0, <1>2, <2>1
  <2>2. CASE /\ req[r].state \in {"succeeded", "failed"} /\ job' = [job EXCEPT ![k].at = "projects"]
             /\ CreateFact(req[r].commit, DegreeFor(req[r].state)) /\ req' = req
    <3>1. fact'[req[r].commit] # "none"
      BY <1>0, <2>2 DEF CreateFact, DegreeFor
    <3> QED BY <1>3, <2>2, <3>1 DEF Recorded
  <2> QED BY <1>4, <2>1, <2>2 DEF RecordFact, RecordValidationFact, recordRest
<1>5. CASE PersistProjectFacts(r)
  <2>1. CASE job' = [job EXCEPT ![k] = NoJob]
    BY <1>0, <1>2, <2>1
  <2>2. CASE job' = [job EXCEPT ![k].at = "bookmark"] /\ req[r].state = "succeeded"
    <3>1. fact[req[r].commit] # "none" /\ fact' = fact /\ req' = req /\ req[r].commit \in projects'
      BY <1>0, <1>5 DEF PersistProjectFacts, Recorded, recordRest
    <3> QED BY <1>3, <2>2, <3>1 DEF Recorded
  <2> QED BY <1>5, <2>1, <2>2 DEF PersistProjectFacts
<1>6. CASE HoldsBookmark(r)
  <2>1. CASE job' = [job EXCEPT ![k] = NoJob]
    BY <1>0, <1>2, <2>1
  <2>2. CASE job' = [job EXCEPT ![k].at = "promote"]
    <3>1. /\ job[k].at = "bookmark" /\ fact' = fact /\ req' = req /\ projects' = projects
      BY <1>6 DEF HoldsBookmark, recordRest
    <3> QED BY <1>0, <1>3, <2>2, <3>1 DEF Recorded
  <2> QED BY <1>6, <2>1, <2>2 DEF HoldsBookmark
<1>7. CASE Promote(r)
  BY <1>0, <1>2, <1>7 DEF Promote
<1> QED BY <1>2, <1>4, <1>5, <1>6, <1>7, RecordJobsMove DEF RecordStep

-----------------------------------------------------------------------------
(* What is called green passed.                                             *)

Green(u) == u \in Commit /\ uri[u] \in Request /\ req[uri[u]].state = "succeeded"

GreensAreReal ==
    /\ queue.green # 0 => queue.green \in Request /\ req[queue.green].state = "succeeded"
    /\ \A r \in Id : req[r].base # 0 => Green(req[r].base)
    /\ \A j \in {Now, Late} : job[j].base # 0 => Green(job[j].base)
    /\ promoted # 0 => Green(promoted) /\ fact[promoted] = "green" /\ promoted \in projects

LEMMA GreenStays ==
    ASSUME TypeInv, [Next]_vars
    PROVE  /\ \A u : Green(u) => Green(u)'
           /\ \A r \in Request : req[r].state = "succeeded" => r \in Request' /\ req'[r].state = "succeeded"
<1>1. KeepsFacts /\ KeepsRequests /\ Request \subseteq Request'
  BY FactsAreKept, RequestsAreKept, Grow
<1>2. \A r \in Request : req[r].state = "succeeded" => r \in Request' /\ req'[r].state = "succeeded"
  BY <1>1 DEF KeepsRequests, Terminal, Outcome, Request
<1>3. ASSUME NEW u, Green(u) PROVE Green(u)'
  BY <1>1, <1>2, <1>3 DEF Green, KeepsFacts, Request, Id
<1> QED BY <1>2, <1>3

\* A plan's base is read from the bookmark, and stays with the handler.
LEMMA BasesMove ==
    ASSUME TypeInv, [Next]_vars, NEW j \in {Now, Late}
    PROVE  \/ job'[j].base = 0 \/ \E i \in {Now, Late} : job'[j].base = job[i].base
           \/ job'[j].base = DeriveBuildStrategy(queue, Head(line)) /\ line # <<>>
<1> DEFINE Moves == \/ job'[j].base = 0 \/ \E i \in {Now, Late} : job'[j].base = job[i].base
                    \/ job'[j].base = DeriveBuildStrategy(queue, Head(line)) /\ line # <<>>
<1>0. /\ job \in [Job -> JobType] /\ Now \in Job /\ Late \in Job /\ Now # Late /\ j # DLQ
      /\ \A r \in Id : j # <<"build", r>> /\ j # <<"record", r>>
      /\ \A b \in BuildId : j # <<"poll", b>>
      /\ job[Now] \in JobType /\ job[Late] \in JobType
  BY JobKeys DEF TypeInv, Types, Now, Late, DLQ
<1> SUFFICES Moves
  OBVIOUS
<1>1. CASE job'[j] = job[j] \/ job'[j] = NoJob
  BY <1>1 DEF NoJob
<1>2. ASSUME NEW c \in Caller, IngestStep(c) PROVE Moves
  BY <1>1, <1>2 DEF IngestStep, Ingest, MintID, MapURI, EnsureRequest, PublishProcess,
     AdvanceQueueLatestRequestID, ingestRest
<1>3. CASE ProcessStep
  <2>1. ASSUME NEW i \in {Now, Late}, NEW x \in JobType, job' = [job EXCEPT ![i] = x], x.base \in {0, job[i].base}
        PROVE  Moves
    BY <1>0, <1>1, <2>1
  <2>2. ASSUME NEW i \in {Now, Late}, NEW at \in {"mark", "publish"}, job' = [job EXCEPT ![i].at = at]
        PROVE  Moves
    <3> DEFINE x == [job[i] EXCEPT !.at = at]
    <3>1. x \in JobType /\ x.base = job[i].base /\ job' = [job EXCEPT ![i] = x]
      BY <1>0, <2>2 DEF JobType
    <3> HIDE DEF x
    <3> QED BY <2>1, <3>1
  <2>3. ASSUME NEW i \in {Now, Late}, NEW r, NEW at, job' = [job EXCEPT ![i] = [NoJob EXCEPT !.at = at, !.id = r]]
        PROVE  Moves
    <3>1. [NoJob EXCEPT !.at = at, !.id = r].base = 0
      BY DEF NoJob
    <3>2. job'[j] = job[j] \/ job'[j] = [NoJob EXCEPT !.at = at, !.id = r]
      BY <1>0, <2>3
    <3> HIDE DEF Moves
    <3> QED BY <1>1, <3>1, <3>2 DEF Moves
  <2>4. CASE ProcessAgain
    BY <1>1, <2>3, <2>4 DEF ProcessAgain
  <2>5. CASE Coalesce
    BY <1>1, <2>5 DEF Coalesce
  <2>6. CASE AdmitLatestHead
    <3> DEFINE base == DeriveBuildStrategy(queue, Head(line))
               x == [NoJob EXCEPT !.at = "plan", !.id = Head(line), !.version = queue.version, !.base = base]
    <3>1. job' = [job EXCEPT ![Now] = x] /\ line # <<>>
      BY <2>6 DEF AdmitLatestHead
    <3> HIDE DEF base
    <3>2. x.base = base
      BY DEF NoJob
    <3> HIDE DEF x
    <3>3. job'[j] = job[j] \/ job'[j] = x
      BY <1>0, <3>1
    <3> QED BY <1>1, <3>1, <3>2, <3>3 DEF base
  <2>7. ASSUME NEW i \in {Now, Late}, ConfirmAdmission(i) \/ MarkProcessing(i) \/ ClaimBuildSlot(i) \/ PublishBuild(i)
        PROVE  Moves
    <3>1. \/ job' = [job EXCEPT ![i] = NoJob] \/ job' = [job EXCEPT ![i].at = "mark"]
          \/ job' = [job EXCEPT ![i].at = "publish"]
          \/ job' = [job EXCEPT ![i] = [NoJob EXCEPT !.at = "claim", !.id = job[i].id]]
      BY <2>7 DEF ConfirmAdmission, MarkProcessing, ClaimBuildSlot, PublishBuild
    <3>2. CASE job' = [job EXCEPT ![i] = NoJob]
      BY <1>0, <1>1, <3>2
    <3> QED BY <2>2, <2>3, <3>1, <3>2
  <2> QED BY <1>3, <2>4, <2>5, <2>6, <2>7 DEF ProcessStep
<1>4. ASSUME NEW q \in Id, BuildStep(q) \/ RecordStep(q) PROVE job'[j] = job[j]
  BY <1>0, <1>4 DEF BuildStep, BuildTrigger, AssociateBuild, PublishBuildSignal, RecordStep, RecordFact,
     PersistProjectFacts, HoldsBookmark, Promote
<1>5. ASSUME NEW b \in BuildId, PollStep(b) PROVE job'[j] = job[j]
  BY <1>0, <1>5 DEF PollStep, PollBuild, ReleaseBuildSlot, MarkOutcome, AdvanceLastGreen, PublishRecord
<1>6. CASE DlqStep
  <2>1. CASE FailRequest
    BY <1>0, <1>1, <2>1 DEF FailRequest
  <2>2. ASSUME NEW d \in dead, FailRequestRelease(d) PROVE job'[j] = job[j]
    BY <1>0, <2>2 DEF FailRequestRelease
  <2>3. ASSUME NEW d \in dead, AbandonRecord(d) PROVE job' = job
    BY <2>3 DEF AbandonRecord
  <2> QED BY <1>1, <1>6, <2>1, <2>2, <2>3 DEF DlqStep, DLQProcess, DLQBuild, DLQBuildSignal
<1>7. CASE Fault
  <2>1. CASE ExpireProcess
    BY <1>0, <1>1, <2>1 DEF ExpireProcess
  <2>2. ASSUME NEW k \in Job, Crash(k) \/ DeadLetter(k) PROVE job'[j] = job[j] \/ job'[j] = NoJob
    BY <1>0, <2>2 DEF Crash, DeadLetter
  <2>3. ASSUME (\E c \in Caller : Abandon(c)) \/ (\E m \in sent : Redeliver(m)) PROVE job' = job
    BY <2>3 DEF Abandon, Redeliver
  <2> QED BY <1>1, <1>7, <2>1, <2>2, <2>3 DEF Fault
<1>8. CASE NewCommit \/ RunnerStep \/ UNCHANGED vars
  BY <1>1, <1>8 DEF NewCommit, RunnerStep, BuildEnds, vars
<1> QED BY <1>1, <1>2, <1>3, <1>4, <1>5, <1>6, <1>7, <1>8 DEF Next, JobStep

LEMMA GreensStep ==
    ASSUME TypeInv, Mapped, FactsAreVerdicts, GreensAreReal, [Next]_vars
    PROVE  GreensAreReal'
<1>0. /\ Writers /\ KeepsFacts /\ RequestMoves /\ \A u : Green(u) => Green(u)'
      /\ \A r \in Request : req[r].state = "succeeded" => r \in Request' /\ req'[r].state = "succeeded"
      /\ queue \in QueueType
  BY WritersAre, FactsAreKept, RequestsMove, GreenStays DEF TypeInv, Types, TypeOK, QueueType
<1>1. \A r \in Request : req[r].state = "succeeded" => Green(req[r].commit) /\ uri[req[r].commit] = r
  BY DEF Mapped, Green
<1>2. queue'.green # 0 => queue'.green \in Request' /\ req'[queue'.green].state = "succeeded"
  <2>1. CASE queue'.green = queue.green
    BY <1>0, <2>1 DEF GreensAreReal
  <2>2. ASSUME NEW b \in BuildId, AdvanceLastGreen(b), queue' # queue
        PROVE  queue'.green \in Request /\ req[queue'.green].state = "succeeded"
    <3>1. b \in Build
      BY <2>2 DEF AdvanceLastGreen, TypeInv, Handlers, PollWorks
    <3>2. builds[b].request \in Request
      BY <3>1 DEF TypeInv, Stores
    <3>3. queue' = [[queue EXCEPT !.green = builds[b].request] EXCEPT !.version = queue.version + 1]
            /\ req[builds[b].request].state = "succeeded"
      BY <2>2 DEF AdvanceLastGreen, WriteQueue
    <3>4. queue'.green = builds[b].request
      BY <1>0, <3>3 DEF QueueType
    <3> QED BY <3>2, <3>3, <3>4
  <2>3. CASE \/ \E c \in Caller : AdvanceQueueLatestRequestID(c)
             \/ \E j \in {Now, Late} : ConfirmAdmission(j) \/ ClaimBuildSlot(j)
             \/ \E b \in BuildId : ReleaseBuildSlot(b)
             \/ \E d \in dead : FailRequestRelease(d)
    <3>1. queue'.green = queue.green
      BY <1>0, <2>3 DEF AdvanceQueueLatestRequestID, ConfirmAdmission, ClaimBuildSlot, ReleaseBuildSlot,
         FailRequestRelease, ReleaseOne, ReleaseSlot, WriteQueue, QueueType
    <3> QED BY <2>1, <3>1
  <2> QED BY <1>0, <2>1, <2>2, <2>3 DEF Writers
<1>3. ASSUME NEW r \in Id, NEW u, u = req'[r].base, u # 0 PROVE Green(u)'
  <2>1. CASE req'[r].base = req[r].base
    BY <1>0, <1>3, <2>1 DEF GreensAreReal
  <2>2. CASE Admitted(req[r], req'[r])
    BY <1>0, <1>3, <2>2 DEF GreensAreReal, Admitted
  <2>3. CASE Entered(req'[r], r)
    BY <1>3, <2>3 DEF Entered
  <2> QED BY <1>0, <2>1, <2>2, <2>3 DEF RequestMoves, RowMoves, Closed, Moved
<1>4. ASSUME NEW j \in {Now, Late}, NEW u, u = job'[j].base, u # 0 PROVE Green(u)'
  <2>1. ASSUME line # <<>>, DeriveBuildStrategy(queue, Head(line)) # 0
        PROVE  Green(DeriveBuildStrategy(queue, Head(line)))
    <3>1. queue.green # 0 /\ DeriveBuildStrategy(queue, Head(line)) = req[queue.green].commit
      BY <2>1 DEF DeriveBuildStrategy
    <3> QED BY <1>1, <3>1 DEF GreensAreReal
  <2> QED BY <1>0, <1>4, <2>1, BasesMove DEF GreensAreReal
<1>5. ASSUME NEW u, u = promoted', u # 0
      PROVE  Green(u)' /\ fact'[u] = "green" /\ u \in projects'
  <2>1. CASE promoted' = promoted
    <3>1. Green(promoted) /\ fact[promoted] = "green" /\ promoted \in projects
      BY <1>5, <2>1 DEF GreensAreReal
    <3> QED BY <1>0, <1>5, <2>1, <3>1 DEF KeepsFacts, Green
  <2>2. ASSUME NEW r \in Id, Promote(r)
        PROVE  Green(u)' /\ fact'[u] = "green" /\ u \in projects'
    <3>1. req[r].state = "succeeded" /\ fact[req[r].commit] # "none" /\ req[r].commit \in projects
            /\ promoted' = req[r].commit /\ fact' = fact /\ projects' = projects
      BY <2>2 DEF Promote, FactsAreVerdicts, Recorded, recordRest
    <3>2. r \in Request
      BY <3>1 DEF Request
    <3>3. Green(req[r].commit) /\ uri[req[r].commit] = r /\ req[r].commit \in Commit
      BY <1>1, <3>1, <3>2 DEF Green
    <3>4. fact[req[r].commit] = "green"
      BY <3>1, <3>3 DEF FactsAreVerdicts, FactIsVerdict, DegreeFor
    <3> QED BY <1>0, <1>5, <3>1, <3>3, <3>4
  <2> QED BY <1>0, <2>1, <2>2 DEF Writers
<1> QED BY <1>2, <1>3, <1>4, <1>5 DEF GreensAreReal, Green

-----------------------------------------------------------------------------
(* The inductive invariant and the theorems.                                *)

IInv == TypeInv /\ Mapped /\ SuccessIsReal /\ FactsAreVerdicts /\ GreensAreReal

LEMMA IInvInit == Init => IInv
<1> SUFFICES ASSUME Init PROVE IInv
  OBVIOUS
<1>1. Request = {} /\ Build = {}
  BY DEF Init, Request, Build, NoRequest
<1>2. Mapped
  BY <1>1 DEF Init, Mapped, NoCall
<1>3. SuccessIsReal
  BY <1>1 DEF Init, SuccessIsReal, NoRequest
<1>4. FactsAreVerdicts
  BY JobKeys DEF Init, FactsAreVerdicts, Recorded, NoJob
<1>5. GreensAreReal
  BY JobKeys DEF Init, GreensAreReal, NoRequest, NoJob
<1> QED BY TypeInit, <1>2, <1>3, <1>4, <1>5 DEF IInv

LEMMA IInvStep == IInv /\ [Next]_vars => IInv'
  BY TypeStep, MappedStep, SuccessStep, FactStep, RecordedStep, GreensStep DEF IInv, FactsAreVerdicts

LEMMA Inductive == Spec => []IInv
  BY IInvInit, IInvStep, PTL DEF Spec

\* The stores, the messages and the handlers in flight keep their types,
\* whatever crashes, is delivered again or is dead-lettered.
THEOREM StovepipeTypes == Spec => []TypeOK
<1>1. IInv => TypeOK
  BY DEF IInv, TypeInv, Types
<1> QED BY Inductive, <1>1, PTL

\* Racing and repeated Ingest calls for one head of trunk make one request,
\* though each of them mints an ID: the URI store's insert decides.
THEOREM OneRequest == Spec => []OneRequestPerCommit
<1>1. IInv => OneRequestPerCommit
  <2> SUFFICES ASSUME IInv, NEW r \in Id, NEW q \in Id, req[r].commit # 0, req[r].commit = req[q].commit
               PROVE  r = q
    BY DEF OneRequestPerCommit
  <2>1. r \in Request /\ q \in Request
    BY DEF IInv, TypeInv, Stores, NoRequest
  <2> QED BY <2>1 DEF IInv, Mapped
<1> QED BY Inductive, <1>1, PTL

\* A commit that the bookmark, a fact, an incremental build or the promotion ref
\* treats as green has a request that a build closed which really passed.
THEOREM GreenEarned == Spec => []GreenIsEarned
<1>1. IInv => GreenIsEarned
  <2> SUFFICES ASSUME IInv PROVE GreenIsEarned
    OBVIOUS
  <2>1. ASSUME NEW r \in Request, req[r].state = "succeeded" PROVE r # 0 /\ Passed(r)
    BY <2>1 DEF IInv, SuccessIsReal, Passed, Request, Id
  <2>2. \A u \in Commit : fact[u] = "green" => uri[u] # 0 /\ Passed(uri[u])
    BY <2>1 DEF IInv, FactsAreVerdicts, FactIsVerdict, DegreeFor
  <2>3. queue.green # 0 => Passed(queue.green)
    BY <2>1 DEF IInv, GreensAreReal
  <2>4. \A u : Green(u) => uri[u] # 0 /\ Passed(uri[u])
    BY <2>1 DEF Green
  <2>5. /\ \A r \in Id : req[r].base # 0 => Green(req[r].base)
        /\ promoted # 0 => Green(promoted) /\ fact[promoted] = "green" /\ promoted \in projects
    BY DEF IInv, GreensAreReal
  <2> QED BY <2>2, <2>3, <2>4, <2>5 DEF GreenIsEarned
<1> QED BY Inductive, <1>1, PTL

\* No delivery, however late or often repeated, changes a final request's state
\* or a fact that is written.
THEOREM VerdictFinal == Spec => VerdictIsFinal
<1>1. IInv /\ [Next]_vars =>
        [/\ \A r \in Id : req[r].state \in Terminal => req'[r].state = req[r].state
         /\ \A u \in Commit : fact[u] # "none" => fact'[u] = fact[u]]_vars
  BY RequestsAreKept, FactsAreKept DEF IInv, KeepsRequests, KeepsFacts
<1> QED BY Inductive, <1>1, PTL DEF Spec, VerdictIsFinal

\* No caller, poll or dead letter moves a bookmark back, though each writes the
\* row from its own reading.
THEOREM BookmarksForward == Spec => BookmarksMoveForward
<1>1. IInv /\ [Next]_vars => [queue'.green >= queue.green /\ queue'.latest >= queue.latest]_vars
  BY QueueMovesForward DEF IInv, Forward
<1> QED BY Inductive, <1>1, PTL DEF Spec, BookmarksMoveForward

-----------------------------------------------------------------------------
(* The slots are owned.                                                     *)

\* What is about to be decided: a poll has given the slot of the request back,
\* or the dead-letter consumer has, and the verdict is not written yet.
PollLeaves(r) == \E b \in BuildId : job[<<"poll", b>>].at = "mark" /\ builds[b].request = r
DlqLeaves(r) ==
    /\ job[DLQ].at # "idle" /\ job[DLQ].seen = "processing"
    /\ RequestOf(<<job[DLQ].at, job[DLQ].id>>) = r
Holding == {r \in Processing : ~PollLeaves(r) /\ ~DlqLeaves(r)}
Claims == IF job[Now].at = "claim" THEN 1 ELSE 0

\* A message that waits was sent; one for process waits once, on the line or
\* among the dead, and the delivery in hand is the first of the line.
Waiting ==
    /\ inbox \cup dead \subseteq sent
    /\ \A i \in 1..Len(line) : <<"process", line[i]>> \in sent \ dead
    /\ \A i, k \in 1..Len(line) : line[i] = line[k] => i = k
    /\ job[Now].at # "idle" => job[Now].id = Head(line)

\* A build that is being recorded is nobody else's and is not stored.
FreshBuilds ==
    \A r \in Id : job[<<"build", r>>].at = "associate" =>
        /\ job[<<"build", r>>].build \notin Build
        /\ \A q \in Id : /\ job[<<"build", q>>].at = "associate"
                         /\ job[<<"build", q>>].build = job[<<"build", r>>].build
                         => q = r

\* Only an admitted request goes to build, and only once its slot is counted.
Handed(r) == <<"build", r>> \in sent
Waits(r) == req[r].state \in {"none", "accepted"}
BuildsAreAdmitted ==
    /\ \A r \in Id : Handed(r) => ~Waits(r)
    /\ \A r \in Id : job[<<"build", r>>].at # "idle" => Handed(r)
    /\ \A b \in Build : Handed(builds[b].request)
    /\ job[Now].at = "publish" => ~Waits(job[Now].id)
    /\ job[Now].at = "claim" => req[job[Now].id].state = "processing" /\ ~Handed(job[Now].id)

SlotsAreCounted == queue.inFlight + Claims <= Cardinality(Holding)

SlotInv ==
    ~Overlapped =>
        /\ job[Late].at = "idle"
        /\ Waiting /\ FreshBuilds /\ BuildsAreAdmitted /\ SlotsAreCounted

\* A step seen by the handlers, as long as no two overlap.
NowMoves == ProcessAgain \/ AdmitLatestHead \/ ConfirmAdmission(Now) \/ MarkProcessing(Now) \/ ClaimBuildSlot(Now)
DlqReads == \E d \in dead : FailRequestRelease(d)
HandlerMoves ==
    /\ job'[Late].at = "idle" /\ ~Overlapped
    /\ \A b \in BuildId : job'[<<"poll", b>>].at = "mark" => job[<<"poll", b>>].at = "mark" \/ ReleaseBuildSlot(b)
    /\ \A r \in Id : \/ job'[<<"build", r>>] = job[<<"build", r>>] \/ job'[<<"build", r>>].at = "idle"
                     \/ BuildTrigger(r) \/ AssociateBuild(r)
    /\ job'[DLQ] = job[DLQ] \/ job'[DLQ].at = "idle" \/ DlqReads
    /\ job'[Now] = job[Now] \/ job'[Now].at = "idle" \/ NowMoves

LEMMA KeysDiffer ==
    /\ Now # Late /\ Now # DLQ /\ Late # DLQ
    /\ \A r : <<"build", r>> \notin {Now, Late, DLQ} /\ <<"record", r>> \notin {Now, Late, DLQ}
    /\ \A b : <<"poll", b>> \notin {Now, Late, DLQ}
    /\ \A r, b : <<"build", r>> # <<"poll", b>> /\ <<"record", r>> # <<"poll", b>> /\ <<"build", r>> # <<"record", b>>
  BY DEF Now, Late, DLQ

LEMMA OneHandlerMoves ==
    ASSUME TypeInv, ~Overlapped, job[Late].at = "idle",
           NEW k \in Job, NEW x, job' = [job EXCEPT ![k] = x],
           k = Late => x.at = "idle",
           k = Now => x.at = "idle" \/ NowMoves,
           k = DLQ => x.at = "idle" \/ DlqReads,
           \A b \in BuildId : k = <<"poll", b>> /\ x.at = "mark" => ReleaseBuildSlot(b),
           \A r \in Id : k = <<"build", r>> /\ x.at # "idle" => BuildTrigger(r) \/ AssociateBuild(r)
    PROVE  HandlerMoves
<1>1. \A j \in Job : job'[j] = IF j = k THEN x ELSE job[j]
  BY DEF TypeInv, Types
<1>2. \A b \in BuildId : job'[<<"poll", b>>].at = "mark" => job[<<"poll", b>>].at = "mark" \/ ReleaseBuildSlot(b)
  BY <1>1, JobKeys
<1>3. \A r \in Id : \/ job'[<<"build", r>>] = job[<<"build", r>>] \/ job'[<<"build", r>>].at = "idle"
                    \/ BuildTrigger(r) \/ AssociateBuild(r)
  BY <1>1, JobKeys
<1>4. /\ job'[Late].at = "idle"
      /\ job'[DLQ] = job[DLQ] \/ job'[DLQ].at = "idle" \/ DlqReads
      /\ job'[Now] = job[Now] \/ job'[Now].at = "idle" \/ NowMoves
  BY <1>1, JobKeys
<1> QED BY <1>2, <1>3, <1>4 DEF HandlerMoves

\* Handlers that overlapped stay on record.
LEMMA OverlapStays ==
    ASSUME [Next]_vars, ~Overlapped'
    PROVE  ~Overlapped
<1> SUFFICES gone \subseteq gone'
  BY DEF Overlapped
<1>1. CASE Fault
  BY <1>1 DEF Fault, Abandon, ExpireProcess, Crash, DeadLetter, Redeliver, faultRest
<1>2. CASE JobStep
  <2>1. CASE ProcessStep
    BY <2>1 DEF ProcessStep, ProcessAgain, Coalesce, AdmitLatestHead, ConfirmAdmission,
         MarkProcessing, ClaimBuildSlot, PublishBuild, processRest
  <2>2. CASE DlqStep
    BY <2>2 DEF DlqStep, FailRequest, DLQProcess, DLQBuild, DLQBuildSignal, FailRequestRelease,
         AbandonRecord, dlqRest
  <2>3. ASSUME NEW r \in Id, BuildStep(r) \/ RecordStep(r) PROVE gone \subseteq gone'
    BY <2>3 DEF BuildStep, BuildTrigger, AssociateBuild, PublishBuildSignal, buildRest,
         RecordStep, RecordFact, PersistProjectFacts, HoldsBookmark, Promote, recordRest
  <2>4. ASSUME NEW b \in BuildId, PollStep(b) PROVE gone \subseteq gone'
    BY <2>4 DEF PollStep, PollBuild, ReleaseBuildSlot, MarkOutcome, AdvanceLastGreen, PublishRecord, pollRest
  <2> QED BY <1>2, <2>1, <2>2, <2>3, <2>4 DEF JobStep
<1>3. CASE NewCommit \/ RunnerStep \/ UNCHANGED vars
  BY <1>3 DEF NewCommit, RunnerStep, BuildEnds, vars
<1>4. ASSUME NEW c \in Caller, IngestStep(c) PROVE gone \subseteq gone'
  BY <1>4 DEF IngestStep, Ingest, MintID, MapURI, EnsureRequest, AdvanceQueueLatestRequestID,
       PublishProcess, ingestRest
<1> QED BY <1>1, <1>2, <1>3, <1>4 DEF Next

LEMMA HandlersMove ==
    ASSUME TypeInv, [Next]_vars, ~Overlapped', job[Late].at = "idle"
    PROVE  HandlerMoves
<1> USE DEF NoJob
<1>0. ~Overlapped
  BY OverlapStays
<1>1. ASSUME job' = job PROVE HandlerMoves
  BY <1>0, <1>1 DEF HandlerMoves
<1>2. ASSUME NEW k \in Job, job' = [job EXCEPT ![k] = NoJob] PROVE HandlerMoves
  <2> DEFINE x == NoJob
  <2>1. x.at = "idle"
    OBVIOUS
  <2> HIDE DEF x
  <2>2. job' = [job EXCEPT ![k] = x]
    BY <1>2 DEF x
  <2> QED BY <1>0, <2>1, <2>2, OneHandlerMoves
<1>3. CASE ProcessStep
  <2>1. \A j \in {Now, Late} : job[j].at # "idle" => j = Now
    OBVIOUS
  <2>2. CASE Coalesce
    BY <1>1, <2>2 DEF Coalesce
  <2>3. CASE PublishBuild(Now)
    BY <1>2, <2>3, JobKeys DEF PublishBuild
  <2>4. CASE NowMoves
    <3>1. job' = [job EXCEPT ![Now] = job'[Now]]
      BY <2>4, JobKeys DEF NowMoves, ProcessAgain, AdmitLatestHead, ConfirmAdmission, MarkProcessing,
         ClaimBuildSlot, TypeInv, Types
    <3> DEFINE x == job'[Now]
    <3> HIDE DEF x
    <3>2. job' = [job EXCEPT ![Now] = x]
      BY <3>1 DEF x
    <3> QED BY <1>0, <2>4, <3>2, JobKeys, KeysDiffer, OneHandlerMoves
  <2> QED BY <1>3, <2>1, <2>2, <2>3, <2>4 DEF ProcessStep, NowMoves, ConfirmAdmission, MarkProcessing,
       ClaimBuildSlot, PublishBuild
<1>4. ASSUME NEW r \in Id, BuildStep(r) PROVE HandlerMoves
  <2>1. CASE PublishBuildSignal(r)
    BY <1>2, <2>1, JobKeys DEF PublishBuildSignal
  <2>2. CASE BuildTrigger(r) \/ AssociateBuild(r)
    <3> DEFINE k == <<"build", r>>
               x == job'[k]
    <3>1. job' = [job EXCEPT ![k] = x]
      BY <2>2, JobKeys DEF BuildTrigger, AssociateBuild, TypeInv, Types
    <3>2. k \in Job /\ k \notin {Now, Late, DLQ} /\ (\A q : k = <<"build", q>> => q = r) /\ \A b : k # <<"poll", b>>
      BY JobKeys, KeysDiffer
    <3> HIDE DEF k, x
    <3> QED BY <1>0, <2>2, <3>1, <3>2, OneHandlerMoves
  <2> QED BY <1>4, <2>1, <2>2 DEF BuildStep
<1>5. ASSUME NEW b \in BuildId, PollStep(b) PROVE HandlerMoves
  <2>1. CASE PublishRecord(b)
    BY <1>2, <2>1, JobKeys DEF PublishRecord
  <2>2. CASE PollBuild(b) \/ ReleaseBuildSlot(b) \/ MarkOutcome(b) \/ AdvanceLastGreen(b)
    <3> DEFINE k == <<"poll", b>>
               x == job'[k]
    <3>1. job' = [job EXCEPT ![k] = x]
      BY <2>2, JobKeys DEF PollBuild, ReleaseBuildSlot, MarkOutcome, AdvanceLastGreen, TypeInv, Types
    <3>2. k \in Job /\ k \notin {Now, Late, DLQ} /\ (\A q : k # <<"build", q>>) /\ \A a : k = <<"poll", a>> => a = b
      BY JobKeys, KeysDiffer
    <3>3. job'[k].at = "mark" => job[k].at = "mark" \/ ReleaseBuildSlot(b)
      <4>1. job \in [Job -> JobType] /\ k \in Job
        BY JobKeys DEF TypeInv, Types
      <4>2. CASE PollBuild(b)
        <5> DEFINE s == req[builds[b].request].state
                   at == IF s \in Outcome THEN "green" ELSE "release"
                   y == [NoJob EXCEPT !.seen = s, !.at = at]
        <5>1. job' = job \/ job' = [job EXCEPT ![k] = y]
          BY <4>2 DEF PollBuild
        <5>2. y.at = at /\ at # "mark"
          BY DEF NoJob
        <5> HIDE DEF y, at, s
        <5> QED BY <4>1, <5>1, <5>2
      <4>3. CASE MarkOutcome(b) \/ AdvanceLastGreen(b)
        <5>1. job' = [job EXCEPT ![k] = [NoJob EXCEPT !.at = "green"]] \/ job' = [job EXCEPT ![k] = [NoJob EXCEPT !.at = "publish"]]
          BY <4>3 DEF MarkOutcome, AdvanceLastGreen
        <5> QED BY <4>1, <5>1
      <4> QED BY <2>2, <4>2, <4>3
    <3>4. CASE job[k].at # "mark"
      <4> HIDE DEF k, x
      <4>1. x.at = "mark" => ReleaseBuildSlot(b)
        BY <3>3, <3>4 DEF x
      <4> QED BY <1>0, <3>1, <3>2, <4>1, OneHandlerMoves
    <3>5. CASE job[k].at = "mark"
      <4>1. MarkOutcome(b)
        BY <2>2, <3>5, JobKeys DEF PollBuild, ReleaseBuildSlot, AdvanceLastGreen
      <4>2. job' = [job EXCEPT ![k] = [NoJob EXCEPT !.at = "green"]]
        BY <4>1 DEF MarkOutcome
      <4>3. x.at # "mark"
        BY <4>2, JobKeys DEF TypeInv, Types
      <4> HIDE DEF k, x
      <4> QED BY <1>0, <3>1, <3>2, <4>3, OneHandlerMoves
    <3> QED BY <3>4, <3>5
  <2> QED BY <1>5, <2>1, <2>2 DEF PollStep
<1>6. ASSUME NEW r \in Id, RecordStep(r) PROVE HandlerMoves
  <2> DEFINE k == <<"record", r>>
             x == job'[k]
  <2>1. job' = [job EXCEPT ![k] = x]
    BY <1>6, JobKeys DEF RecordStep, RecordFact, PersistProjectFacts, HoldsBookmark, Promote, TypeInv, Types
  <2>2. k \in Job /\ k \notin {Now, Late, DLQ} /\ (\A q : k # <<"build", q>>) /\ \A a : k # <<"poll", a>>
    BY JobKeys, KeysDiffer
  <2> HIDE DEF k, x
  <2> QED BY <1>0, <2>1, <2>2, OneHandlerMoves
<1>7. CASE DlqStep
  <2>1. CASE FailRequest
    BY <1>2, <2>1, JobKeys DEF FailRequest
  <2>2. ASSUME NEW d \in dead, AbandonRecord(d) PROVE HandlerMoves
    BY <1>1, <2>2 DEF AbandonRecord
  <2>3. ASSUME NEW d \in dead, FailRequestRelease(d) PROVE HandlerMoves
    <3> DEFINE x == job'[DLQ]
    <3>1. job' = [job EXCEPT ![DLQ] = x]
      BY <2>3, JobKeys DEF FailRequestRelease, TypeInv, Types
    <3>2. DlqReads
      BY <2>3 DEF DlqReads
    <3> HIDE DEF x
    <3> QED BY <1>0, <3>1, <3>2, JobKeys, KeysDiffer, OneHandlerMoves
  <2> QED BY <1>7, <2>1, <2>2, <2>3 DEF DlqStep, DLQProcess, DLQBuild, DLQBuildSignal
<1>8. CASE Fault
  <2>1. ~ExpireProcess
    BY DEF ExpireProcess, Overlapped
  <2> QED BY <1>1, <1>2, <1>8, <2>1 DEF Fault, Abandon, Crash, DeadLetter, Redeliver, faultRest
<1>9. CASE NewCommit \/ RunnerStep \/ UNCHANGED vars \/ \E c \in Caller : IngestStep(c)
  BY <1>1, <1>9 DEF NewCommit, RunnerStep, BuildEnds, vars, IngestStep, Ingest, MintID, MapURI,
     EnsureRequest, AdvanceQueueLatestRequestID, PublishProcess, ingestRest
<1> QED BY <1>3, <1>4, <1>5, <1>6, <1>7, <1>8, <1>9 DEF Next, JobStep

\* What a step does to the line, the dead letters and the messages sent.
Heard ==
    /\ sent \subseteq sent' /\ inbox' \subseteq sent'
    /\ \A d \in dead' : \/ d \in dead
                        \/ /\ d \in sent
                           /\ d[1] = "process" => line # <<>> /\ d = <<"process", Head(line)>> /\ line' = Tail(line)
LineMoves ==
    \/ line' = line
    \/ line # <<>> /\ line' = Tail(line) /\ job'[Now].at = "idle"
    \/ \E r \in Id : /\ line' = <<r>> \o line /\ <<"process", r>> \in sent \ dead /\ dead' = dead
                     /\ job'[Now].at = "idle" /\ \A i \in DOMAIN line : line[i] # r
    \/ \E r \in Id : /\ line' = Append(line, r) /\ <<"process", r>> \in sent' \ dead
                     /\ job' = job /\ dead' = dead /\ \A i \in DOMAIN line : line[i] # r
NowReads ==
    job'[Now].at # "idle" => \/ line' = line /\ job'[Now].id = Head(line)
                             \/ job[Now].at # "idle" /\ job'[Now].id = job[Now].id

LEMMA HeardStep ==
    ASSUME TypeInv, Waiting, [Next]_vars
    PROVE  Heard
<1>0. inbox \subseteq sent /\ dead \subseteq sent /\ \A i \in 1..Len(line) : <<"process", line[i]>> \in sent
  BY DEF Waiting
<1>1. ASSUME NEW c \in Caller, IngestStep(c) PROVE Heard
  BY <1>0, <1>1 DEF Heard, IngestStep, Ingest, MintID, MapURI, EnsureRequest, AdvanceQueueLatestRequestID,
     PublishProcess, ingestRest
<1>2. CASE ProcessStep
  BY <1>0, <1>2, Published DEF Heard, ProcessStep, ProcessAgain, Coalesce, AdmitLatestHead, ConfirmAdmission,
     MarkProcessing, ClaimBuildSlot, PublishBuild, processRest
<1>3. CASE DlqStep
  BY <1>0, <1>3 DEF Heard, DlqStep, FailRequest, DLQProcess, DLQBuild, DLQBuildSignal, FailRequestRelease,
     AbandonRecord, dlqRest
<1>4. ASSUME NEW r \in Id, BuildStep(r) PROVE Heard
  BY <1>0, <1>4, Published DEF Heard, BuildStep, BuildTrigger, AssociateBuild, PublishBuildSignal, Ack, buildRest
<1>5. ASSUME NEW b \in BuildId, PollStep(b) PROVE Heard
  BY <1>0, <1>5, Published DEF Heard, PollStep, PollBuild, ReleaseBuildSlot, MarkOutcome, AdvanceLastGreen,
     PublishRecord, Ack, pollRest
<1>6. ASSUME NEW r \in Id, RecordStep(r) PROVE Heard
  BY <1>0, <1>6 DEF Heard, RecordStep, RecordFact, PersistProjectFacts, HoldsBookmark, Promote, Ack, recordRest
<1>7. ASSUME NEW j \in Job, DeadLetter(j) PROVE Heard
  <2>1. CASE j = Now
    <3>1. line # <<>> /\ dead' = dead \cup {<<"process", Head(line)>>} /\ line' = Tail(line)
      BY <1>7, <2>1 DEF DeadLetter
    <3>2. <<"process", Head(line)>> \in sent
      <4>1. line \in Seq(Id) /\ line # <<>>
        BY <3>1 DEF TypeInv, Types, TypeOK
      <4>2. Head(line) = line[1] /\ 1 \in 1..Len(line)
        BY <4>1
      <4> QED BY <1>0, <4>2
    <3>3. inbox' \subseteq inbox /\ sent' = sent
      BY <1>7 DEF DeadLetter, faultRest
    <3> QED BY <1>0, <3>1, <3>2, <3>3 DEF Heard
  <2>2. CASE j # Now
    <3>1. j \in inbox /\ j[1] # "process"
      BY <1>7, <2>2 DEF DeadLetter, Job, Now, Late
    <3>2. dead' = dead \cup {j} /\ inbox' \subseteq inbox /\ sent' = sent
      BY <1>7, <2>2 DEF DeadLetter, faultRest
    <3> QED BY <1>0, <3>1, <3>2 DEF Heard
  <2> QED BY <2>1, <2>2
<1>8. CASE NewCommit \/ RunnerStep \/ UNCHANGED vars
  BY <1>0, <1>8 DEF Heard, NewCommit, RunnerStep, BuildEnds, vars, topics
<1>9. CASE ExpireProcess \/ (\E c \in Caller : Abandon(c)) \/ (\E j \in Job : Crash(j)) \/ \E m \in sent : Redeliver(m)
  BY <1>0, <1>9 DEF Heard, ExpireProcess, Abandon, Crash, Redeliver, faultRest, topics
<1> QED BY <1>1, <1>2, <1>3, <1>4, <1>5, <1>6, <1>7, <1>8, <1>9 DEF Next, JobStep, Fault

LEMMA LineMovesStep ==
    ASSUME TypeInv, [Next]_vars, ~Overlapped', job[Late].at = "idle"
    PROVE  LineMoves
<1>0. job \in [Job -> JobType] /\ NoJob.at = "idle" /\ ~ExpireProcess
  BY DEF TypeInv, Types, NoJob, ExpireProcess, Overlapped
<1>1. ASSUME line' # line, NEW c \in Caller, IngestStep(c) PROVE LineMoves
  <2>1. PublishProcess(c)
    BY <1>1 DEF IngestStep, Ingest, MintID, MapURI, EnsureRequest, AdvanceQueueLatestRequestID, ingestRest
  <2>2. call[c] \in CallType /\ call[c].at = "publish"
    BY <2>1 DEF PublishProcess, TypeInv, Types
  <2>3. call[c].id \in Id
    BY <2>2, StovepipeAssumption DEF CallType, Id
  <2>4. <<"process", call[c].id>> \in dead => Again \in gone'
    BY <1>1, <2>1 DEF PublishProcess
  <2> QED BY <1>1, <2>1, <2>3, <2>4 DEF PublishProcess, InLine, ingestRest, LineMoves, Overlapped
<1>2. CASE ProcessStep
  <2>1. CASE ProcessAgain \/ Coalesce \/ AdmitLatestHead
    BY <1>0, <2>1, JobKeys DEF LineMoves, ProcessAgain, Coalesce, AdmitLatestHead, processRest
  <2>2. ASSUME NEW j \in {Now, Late}, ConfirmAdmission(j) \/ ClaimBuildSlot(j) PROVE LineMoves
    BY <2>2 DEF LineMoves, ConfirmAdmission, ClaimBuildSlot
  <2>3. ASSUME NEW j \in {Now, Late}, MarkProcessing(j) \/ PublishBuild(j), line' # line PROVE LineMoves
    <3>1. j = Now /\ job[Now].at # "idle"
      BY <2>3 DEF MarkProcessing, PublishBuild
    <3>2. line # <<>> /\ line' = Tail(line) /\ job' = [job EXCEPT ![Now] = NoJob]
      BY <2>3, <3>1 DEF MarkProcessing, PublishBuild, Acked, TypeInv, Handlers
    <3> QED BY <1>0, <3>2, JobKeys DEF LineMoves
  <2> QED BY <1>2, <2>1, <2>2, <2>3 DEF ProcessStep, LineMoves
<1>3. ASSUME NEW m \in sent, Redeliver(m), line' # line PROVE LineMoves
  <2>1. /\ m[1] = "process" /\ m \notin dead /\ job[Now].at = "idle" /\ job' = job /\ dead' = dead
        /\ \A i \in DOMAIN line : line[i] # m[2]
        /\ line' = <<m[2]>> \o line
    BY <1>3 DEF Redeliver
  <2>2. m \in Message
    BY DEF TypeInv, Messages
  <2>3. m = <<"process", m[2]>> /\ m[2] \in Id
    BY <2>1, <2>2 DEF Message, Request
  <2> QED BY <2>1, <2>3 DEF LineMoves
<1>4. ASSUME NEW j \in Job, DeadLetter(j), line' # line PROVE LineMoves
  <2>1. j = Now /\ line # <<>> /\ line' = Tail(line) /\ job' = [job EXCEPT ![Now] = NoJob]
    BY <1>4 DEF DeadLetter
  <2> QED BY <1>0, <2>1, JobKeys DEF LineMoves
<1>5. CASE DlqStep
  BY <1>5 DEF LineMoves, DlqStep, FailRequest, DLQProcess, DLQBuild, DLQBuildSignal, FailRequestRelease,
     AbandonRecord, dlqRest
<1>6. ASSUME NEW r \in Id, BuildStep(r) \/ RecordStep(r) PROVE LineMoves
  BY <1>6 DEF LineMoves, BuildStep, BuildTrigger, AssociateBuild, PublishBuildSignal, buildRest,
     RecordStep, RecordFact, PersistProjectFacts, HoldsBookmark, Promote, recordRest
<1>7. ASSUME NEW b \in BuildId, PollStep(b) PROVE LineMoves
  BY <1>7 DEF LineMoves, PollStep, PollBuild, ReleaseBuildSlot, MarkOutcome, AdvanceLastGreen,
     PublishRecord, pollRest
<1>8. CASE NewCommit \/ RunnerStep \/ UNCHANGED vars \/ (\E c \in Caller : Abandon(c)) \/ \E j \in Job : Crash(j)
  BY <1>8 DEF LineMoves, NewCommit, RunnerStep, BuildEnds, vars, topics, Abandon, Crash
<1> QED BY <1>0, <1>1, <1>2, <1>3, <1>4, <1>5, <1>6, <1>7, <1>8 DEF Next, JobStep, Fault, LineMoves

LEMMA NowReadsStep ==
    ASSUME TypeInv, [Next]_vars, ~Overlapped', job[Late].at = "idle"
    PROVE  NowReads
<1>0. HandlerMoves /\ Now \in Job /\ job \in [Job -> JobType] /\ job[Now] \in JobType
  BY HandlersMove, JobKeys DEF TypeInv, Types
<1>1. CASE job'[Now] = job[Now] \/ job'[Now].at = "idle"
  BY <1>1 DEF NowReads
<1>2. CASE ProcessAgain
  <2>1. CASE line' = line
    <3>1. job' = [job EXCEPT ![Now] = [NoJob EXCEPT !.at = "publish", !.id = Head(line)]] \/ job' = job
      BY <1>2 DEF ProcessAgain
    <3>2. CASE job' = [job EXCEPT ![Now] = [NoJob EXCEPT !.at = "publish", !.id = Head(line)]]
      BY <1>0, <2>1, <3>2 DEF NowReads, NoJob
    <3> QED BY <1>1, <3>1, <3>2
  <2>2. CASE line' # line
    BY <1>1, <1>2, <2>2 DEF ProcessAgain
  <2> QED BY <2>1, <2>2
<1>3. CASE AdmitLatestHead
  <2> DEFINE base == DeriveBuildStrategy(queue, Head(line))
  <2>1. job' = [job EXCEPT ![Now] = [NoJob EXCEPT !.at = "plan", !.id = Head(line), !.version = queue.version, !.base = base]]
    BY <1>3 DEF AdmitLatestHead
  <2> HIDE DEF base
  <2>2. job'[Now].id = Head(line)
    BY <1>0, <2>1 DEF NoJob
  <2> QED BY <1>3, <2>2 DEF NowReads, AdmitLatestHead
<1>4. CASE ConfirmAdmission(Now) \/ ClaimBuildSlot(Now)
  BY <1>0, <1>4 DEF NowReads, ConfirmAdmission, ClaimBuildSlot, NoJob, JobType
<1>5. CASE MarkProcessing(Now)
  <2>1. CASE job' = [job EXCEPT ![Now] = NoJob]
    BY <1>0, <1>1, <2>1 DEF NoJob
  <2>2. CASE job' # [job EXCEPT ![Now] = NoJob]
    <3> DEFINE r == job[Now].id
    <3>1. job[Now].at = "mark" /\ job' = [job EXCEPT ![Now] = [NoJob EXCEPT !.at = "claim", !.id = r]]
      BY <1>5, <2>2 DEF MarkProcessing
    <3> HIDE DEF r
    <3>2. job'[Now].id = r
      BY <1>0, <3>1 DEF NoJob
    <3> QED BY <3>1, <3>2 DEF NowReads, r
  <2> QED BY <2>1, <2>2
<1> QED BY <1>0, <1>1, <1>2, <1>3, <1>4, <1>5 DEF HandlerMoves, NowMoves

LEMMA WaitingStep ==
    ASSUME TypeInv, Waiting, [Next]_vars, ~Overlapped', job[Late].at = "idle"
    PROVE  Waiting'
<1>0. /\ Heard /\ LineMoves /\ NowReads /\ line \in Seq(Id)
      /\ job[Now].at # "idle" => line # <<>> /\ job[Now].id = Head(line)
  BY HeardStep, LineMovesStep, NowReadsStep DEF TypeInv, Types, TypeOK, Handlers, Waiting
<1>1. inbox' \cup dead' \subseteq sent'
  BY <1>0 DEF Heard, Waiting
<1>2. \A i, k \in 1..Len(line) : line[i] = line[k] => i = k
  BY DEF Waiting
<1>3. \A i \in 1..Len(line) : <<"process", line[i]>> \in sent \ dead
  BY DEF Waiting
<1>4. \A d \in dead' : d \notin dead /\ d[1] = "process" => line # <<>> /\ d = <<"process", Head(line)>> /\ line' = Tail(line)
  BY <1>0 DEF Heard
<1>5. CASE line' = line
  <2>1. \A d \in dead' : d[1] = "process" => d \in dead
    <3> SUFFICES ASSUME NEW d \in dead', d[1] = "process", d \notin dead PROVE FALSE
      OBVIOUS
    <3>1. line # <<>> /\ line = Tail(line)
      BY <1>4, <1>5
    <3> QED BY <1>0, <3>1
  <2>2. \A i \in 1..Len(line) : <<"process", line[i]>> \in sent' \ dead'
    BY <1>0, <1>3, <2>1 DEF Heard
  <2>3. job'[Now].at # "idle" => job'[Now].id = Head(line)
    BY <1>0 DEF NowReads
  <2> QED BY <1>1, <1>2, <1>5, <2>2, <2>3 DEF Waiting
<1>6. CASE line # <<>> /\ line' = Tail(line) /\ job'[Now].at = "idle"
  <2>1. Len(line') = Len(line) - 1 /\ \A i \in 1..Len(line') : line'[i] = line[i + 1] /\ i + 1 \in 1..Len(line)
    BY <1>0, <1>6
  <2>2. Head(line) = line[1] /\ 1 \in 1..Len(line)
    BY <1>0, <1>6
  <2>3. ASSUME NEW i \in 1..Len(line') PROVE <<"process", line'[i]>> \in sent' \ dead'
    <3>1. <<"process", line'[i]>> \in sent \ dead
      BY <1>3, <2>1
    <3>2. line'[i] # Head(line)
      BY <1>2, <2>1, <2>2
    <3>3. <<"process", line'[i]>> \notin dead'
      BY <1>4, <3>1, <3>2
    <3> QED BY <1>0, <3>1, <3>3 DEF Heard
  <2>4. ASSUME NEW i \in 1..Len(line'), NEW k \in 1..Len(line'), line'[i] = line'[k] PROVE i = k
    BY <1>0, <1>2, <2>1, <2>4
  <2> QED BY <1>1, <1>6, <2>3, <2>4 DEF Waiting
<1>7. ASSUME NEW r \in Id, line' = <<r>> \o line, <<"process", r>> \in sent \ dead, dead' = dead,
             job'[Now].at = "idle", \A i \in DOMAIN line : line[i] # r
      PROVE  Waiting'
  <2>1. /\ Len(line') = Len(line) + 1 /\ line'[1] = r
        /\ \A i \in 1..Len(line') : i # 1 => line'[i] = line[i - 1] /\ i - 1 \in 1..Len(line)
    BY <1>0, <1>7
  <2>2. \A i \in 1..Len(line) : line[i] # r
    BY <1>0, <1>7
  <2>3. ASSUME NEW i \in 1..Len(line') PROVE <<"process", line'[i]>> \in sent' \ dead'
    <3>1. <<"process", line'[i]>> \in sent \ dead
      BY <1>3, <1>7, <2>1
    <3> QED BY <1>0, <1>7, <3>1 DEF Heard
  <2>4. ASSUME NEW i \in 1..Len(line'), NEW k \in 1..Len(line'), line'[i] = line'[k] PROVE i = k
    BY <1>0, <1>2, <2>1, <2>2, <2>4
  <2> QED BY <1>1, <1>7, <2>3, <2>4 DEF Waiting
<1>8. ASSUME NEW r \in Id, line' = Append(line, r), <<"process", r>> \in sent' \ dead, job' = job, dead' = dead,
             \A i \in DOMAIN line : line[i] # r
      PROVE  Waiting'
  <2>1. /\ Len(line') = Len(line) + 1 /\ line'[Len(line')] = r
        /\ \A i \in 1..Len(line') : i # Len(line') => line'[i] = line[i] /\ i \in 1..Len(line)
    BY <1>0, <1>8
  <2>2. \A i \in 1..Len(line) : line[i] # r
    BY <1>0, <1>8
  <2>3. ASSUME NEW i \in 1..Len(line') PROVE <<"process", line'[i]>> \in sent' \ dead'
    <3>1. CASE i = Len(line')
      BY <1>8, <2>1, <3>1
    <3>2. CASE i # Len(line')
      BY <1>0, <1>3, <1>8, <2>1, <3>2 DEF Heard
    <3> QED BY <3>1, <3>2
  <2>4. ASSUME NEW i \in 1..Len(line'), NEW k \in 1..Len(line'), line'[i] = line'[k] PROVE i = k
    BY <1>0, <1>2, <2>1, <2>2, <2>4
  <2>5. job'[Now].at # "idle" => job'[Now].id = Head(line')
    BY <1>0, <1>8
  <2> QED BY <1>1, <1>8, <2>3, <2>4, <2>5 DEF Waiting
<1> QED BY <1>0, <1>5, <1>6, <1>7, <1>8 DEF LineMoves

RequestsStay == \A b \in Build : b \in Build' /\ builds'[b].request = builds[b].request

LEMMA FreshStep ==
    ASSUME TypeInv, FreshBuilds, [Next]_vars, HandlerMoves
    PROVE  FreshBuilds' /\ RequestsStay
<1>0. /\ Writers /\ job \in [Job -> JobType] /\ builds \in [BuildId -> BuildType] /\ Len(run) \in Nat
      /\ \A r \in Id : <<"build", r>> \in Job
      /\ \A r \in Id : job[<<"build", r>>].at = "associate" => job[<<"build", r>>].build \in 1..Len(run)
      /\ \A b \in Build : b \in 1..Len(run) /\ b \in BuildId
  <2>1. Writers /\ \A r \in Id : <<"build", r>> \in Job
    BY WritersAre, JobKeys
  <2>2. job \in [Job -> JobType] /\ builds \in [BuildId -> BuildType] /\ Len(run) \in Nat
    BY DEF TypeInv, Types, TypeOK, BuildType
  <2>3. \A r \in Id : job[<<"build", r>>].at = "associate" => job[<<"build", r>>].build \in 1..Len(run)
    BY DEF TypeInv, Handlers, BuildWorks
  <2>4. \A b \in Build : b \in 1..Len(run) /\ b \in BuildId
    BY DEF TypeInv, Stores, Build
  <2> QED BY <2>1, <2>2, <2>3, <2>4
\* Only a build that is being recorded is new.
<1>1. ASSUME NEW q \in Id, AssociateBuild(q)
      PROVE  /\ job[<<"build", q>>].at = "associate" /\ job'[<<"build", q>>].at # "associate"
             /\ Build' \subseteq Build \cup {job[<<"build", q>>].build}
             /\ RequestsStay
  <2> DEFINE b == job[<<"build", q>>].build
  <2>1. job[<<"build", q>>].at = "associate" /\ builds' = [builds EXCEPT ![b] = [request |-> q, status |-> "running"]]
    BY <1>1 DEF AssociateBuild, WriteBuild
  <2>2. b \notin Build
    BY <2>1 DEF FreshBuilds
  <2>3. job'[<<"build", q>>].at # "associate"
    BY <1>0, <1>1 DEF AssociateBuild, NoJob
  <2> HIDE DEF b
  <2>4. \A a \in BuildId : a # b => builds'[a] = builds[a]
    BY <1>0, <2>1
  <2>5. Build' \subseteq Build \cup {b} /\ RequestsStay
    BY <2>2, <2>4 DEF Build, RequestsStay
  <2> QED BY <2>1, <2>3, <2>5 DEF b
<1>2. ASSUME NEW a \in BuildId, PollBuild(a) PROVE Build' = Build /\ RequestsStay
  <2>1. builds' = builds \/ builds' = [builds EXCEPT ![a] = [builds[a] EXCEPT !.status = run[a]]]
    BY <1>2 DEF PollBuild, Reconcile, WriteBuild
  <2>2. CASE builds' = builds
    BY <2>2 DEF Build, RequestsStay
  <2>3. CASE builds' # builds
    <3>1. builds[a].status = "running" /\ builds' = [builds EXCEPT ![a] = [builds[a] EXCEPT !.status = run[a]]]
      BY <1>2, <2>3 DEF PollBuild, Reconcile, WriteBuild
    <3>2. a \in Build
      BY <3>1 DEF Build
    <3>3. builds[a] \in BuildType /\ a \in 1..Len(run) /\ run \in Seq(Outcome \cup {"running"})
      BY <1>0, <3>2 DEF TypeInv, Types, TypeOK
    <3>4. run[a] # "none"
      BY <3>3 DEF Outcome
    <3>5. builds'[a].request = builds[a].request /\ builds'[a].status = run[a]
      <4> DEFINE row == [builds[a] EXCEPT !.status = run[a]]
      <4>1. row.request = builds[a].request /\ row.status = run[a]
        BY <3>3 DEF BuildType
      <4>2. builds' = [builds EXCEPT ![a] = row]
        BY <3>1
      <4> HIDE DEF row
      <4> QED BY <1>0, <4>1, <4>2
    <3>6. \A c \in BuildId : c # a => builds'[c] = builds[c]
      BY <1>0, <3>1
    <3> QED BY <3>1, <3>4, <3>5, <3>6 DEF Build, RequestsStay
  <2> QED BY <2>2, <2>3
<1>3. RequestsStay
  <2>1. CASE builds' = builds
    BY <2>1 DEF RequestsStay, Build
  <2> QED BY <1>0, <1>1, <1>2, <2>1 DEF Writers
<1>4. ASSUME NEW q \in Id, BuildTrigger(q), job'[<<"build", q>>].at = "associate", job'[<<"build", q>>] # job[<<"build", q>>]
      PROVE  /\ builds' = builds /\ job'[<<"build", q>>].build = Len(run) + 1
             /\ \A r \in Id : r # q => job'[<<"build", r>>] = job[<<"build", r>>]
  <2> DEFINE k == <<"build", q>>
             x == [NoJob EXCEPT !.at = "associate", !.build = Len(run) + 1]
  <2>1. job' # [job EXCEPT ![k].at = "signal"]
    <3>1. job[k] \in JobType /\ k \in Job
      BY <1>0
    <3> QED BY <1>0, <1>4, <3>1 DEF JobType
  <2>2. job' = [job EXCEPT ![k] = x]
    BY <1>0, <1>4, <2>1 DEF BuildTrigger
  <2>3. x.build = Len(run) + 1
    BY DEF NoJob
  <2>4. builds' = builds
    BY <1>4 DEF BuildTrigger
  <2> HIDE DEF x
  <2> QED BY <1>0, <2>2, <2>3, <2>4
<1>5. ASSUME NEW r \in Id, job'[<<"build", r>>].at = "associate"
      PROVE  job'[<<"build", r>>] = job[<<"build", r>>] \/ BuildTrigger(r)
  BY <1>1, <1>5 DEF HandlerMoves
<1>6. ASSUME NEW r \in Id, job'[<<"build", r>>].at = "associate"
      PROVE  job'[<<"build", r>>].build \notin Build'
  <2>1. CASE job'[<<"build", r>>] = job[<<"build", r>>]
    <3>1. job[<<"build", r>>].build \notin Build
      BY <1>6, <2>1 DEF FreshBuilds
    <3>2. CASE builds' = builds
      BY <2>1, <3>1, <3>2 DEF Build
    <3>3. ASSUME NEW q \in Id, AssociateBuild(q) PROVE job[<<"build", r>>].build \notin Build'
      <4>1. q # r
        BY <1>1, <1>6, <3>3
      <4>2. job[<<"build", q>>].build # job[<<"build", r>>].build
        BY <1>1, <1>6, <2>1, <3>3, <4>1 DEF FreshBuilds
      <4> QED BY <1>1, <3>1, <3>3, <4>2
    <3>4. ASSUME NEW a \in BuildId, PollBuild(a) PROVE job[<<"build", r>>].build \notin Build'
      BY <1>2, <3>1, <3>4
    <3> QED BY <1>0, <2>1, <3>2, <3>3, <3>4 DEF Writers
  <2>2. CASE job'[<<"build", r>>] # job[<<"build", r>>]
    <3>1. builds' = builds /\ job'[<<"build", r>>].build = Len(run) + 1
      BY <1>4, <1>5, <1>6, <2>2
    <3>2. Len(run) + 1 \notin Build
      BY <1>0
    <3> QED BY <3>1, <3>2 DEF Build
  <2> QED BY <2>1, <2>2
<1>7. ASSUME NEW r \in Id, NEW q \in Id, q # r,
             job'[<<"build", r>>].at = "associate", job'[<<"build", q>>].at = "associate"
      PROVE  job'[<<"build", q>>].build # job'[<<"build", r>>].build
  <2>1. CASE job'[<<"build", r>>] = job[<<"build", r>>] /\ job'[<<"build", q>>] = job[<<"build", q>>]
    BY <1>7, <2>1 DEF FreshBuilds
  <2>2. ASSUME NEW s \in Id, NEW t \in Id, s # t, job'[<<"build", s>>] # job[<<"build", s>>],
               job'[<<"build", s>>].at = "associate", job'[<<"build", t>>].at = "associate"
        PROVE  job'[<<"build", s>>].build # job'[<<"build", t>>].build
    <3>1. job'[<<"build", s>>].build = Len(run) + 1 /\ job'[<<"build", t>>] = job[<<"build", t>>]
      BY <1>4, <1>5, <2>2
    <3>2. job[<<"build", t>>].build \in 1..Len(run)
      BY <1>0, <2>2, <3>1
    <3> QED BY <1>0, <3>1, <3>2
  <2> QED BY <1>7, <2>1, <2>2
<1> QED BY <1>3, <1>6, <1>7 DEF FreshBuilds

\* A request whose slot is being claimed has no build, no poll and no dead letter.
LEMMA Unnamed ==
    ASSUME TypeInv, Waiting, BuildsAreAdmitted, NEW r \in Id, ~Handed(r),
           job[Now].at # "idle", job[Now].id = r
    PROVE  /\ \A b \in BuildId : job[<<"poll", b>>].at # "idle" => builds[b].request # r
           /\ job[DLQ].at # "idle" => RequestOf(<<job[DLQ].at, job[DLQ].id>>) # r
           /\ ~PollLeaves(r) /\ ~DlqLeaves(r)
<1>1. \A b \in Build : builds[b].request # r
  BY DEF BuildsAreAdmitted
<1>2. \A b \in BuildId : job[<<"poll", b>>].at # "idle" => builds[b].request # r
  BY <1>1 DEF TypeInv, Handlers, PollWorks
<1>3. ASSUME job[DLQ].at # "idle" PROVE RequestOf(<<job[DLQ].at, job[DLQ].id>>) # r
  <2> DEFINE d == <<job[DLQ].at, job[DLQ].id>>
  <2>1. d \in dead /\ d \in Message /\ d \in sent /\ d[1] \in {"process", "build", "poll"}
    BY <1>3 DEF TypeInv, Handlers, DlqWorks, Messages, Waiting
  <2>2. <<"process", r>> \notin dead
    <3>1. line \in Seq(Id) /\ line # <<>> /\ r = Head(line)
      BY DEF TypeInv, Types, TypeOK, Handlers, Waiting
    <3>2. 1 \in 1..Len(line) /\ r = line[1]
      BY <3>1
    <3> QED BY <3>2 DEF Waiting
  <2>3. <<"build", r>> \notin sent
    BY DEF Handed
  <2> HIDE DEF d
  <2>4. d = <<d[1], d[2]>> /\ (d[1] = "poll" => d[2] \in Build)
    BY <2>1 DEF Message
  <2>5. RequestOf(d) # r
    BY <1>1, <2>1, <2>2, <2>3, <2>4 DEF RequestOf
  <2> QED BY <2>5 DEF d
<1> QED BY <1>2, <1>3 DEF PollLeaves, DlqLeaves

\* An admitted request waits no more.
LEMMA AdmittedStays ==
    ASSUME TypeInv, [Next]_vars
    PROVE  \A r \in Id : ~Waits(r) => ~Waits(r)'
<1>0. Writers /\ req \in [Id -> RequestType]
  BY WritersAre DEF TypeInv, Types, TypeOK
<1> SUFFICES ASSUME NEW r \in Id, ~Waits(r) PROVE ~Waits(r)'
  OBVIOUS
<1>1. CASE req' = req \/ req'[r] = req[r]
  BY <1>1 DEF Waits
<1>2. CASE Coalesce
  BY <1>0, <1>2 DEF Coalesce, Supersede, WriteRequest, Waits, RequestType
<1>3. CASE FailRequest
  BY <1>0, <1>3 DEF FailRequest, Waits, RequestType
<1>4. ASSUME NEW c \in Caller, EnsureRequest(c) PROVE req'[r] = req[r]
  BY <1>0, <1>4 DEF EnsureRequest, CreateRequest, WriteRequest, Waits
<1>5. ASSUME NEW j \in {Now, Late}, MarkProcessing(j) PROVE req'[r] = req[r]
  BY <1>0, <1>5 DEF MarkProcessing, WriteRequest, Waits
<1>6. ASSUME NEW q \in Id, AssociateBuild(q) PROVE req'[r].state = req[r].state
  BY <1>0, <1>6 DEF AssociateBuild, WriteRequest, RequestType
<1>7. ASSUME NEW b \in BuildId, MarkOutcome(b) PROVE ~Waits(r)'
  <2> DEFINE q == builds[b].request
             s == OutcomeState(builds[b].status)
  <2>1. s \notin {"none", "accepted"}
    BY DEF OutcomeState
  <2> HIDE DEF s
  <2>2. req' = req \/ req' = [req EXCEPT ![q] = [req[q] EXCEPT !.state = s, !.by = b]]
    BY <1>7 DEF MarkOutcome, WriteRequest, s
  <2> HIDE DEF q
  <2> QED BY <1>0, <2>1, <2>2 DEF Waits, RequestType
<1> QED BY <1>0, <1>1, <1>2, <1>3, <1>4, <1>5, <1>6, <1>7 DEF Writers, Waits

\* What is sent to build.
LEMMA HandedBy ==
    ASSUME TypeInv, [Next]_vars, job[Late].at = "idle", NEW r, Handed(r)'
    PROVE  Handed(r) \/ (PublishBuild(Now) /\ r = job[Now].id)
<1>1. ASSUME NEW c \in Caller, IngestStep(c) PROVE Handed(r)
  BY <1>1 DEF Handed, IngestStep, Ingest, MintID, MapURI, EnsureRequest, AdvanceQueueLatestRequestID,
     PublishProcess, ingestRest
<1>2. CASE ProcessStep
  <2>1. CASE PublishBuild(Now)
    BY <2>1, Published DEF PublishBuild, Handed
  <2>2. ~PublishBuild(Late)
    BY DEF PublishBuild
  <2>3. CASE ~PublishBuild(Now)
    BY <1>2, <2>2, <2>3 DEF Handed, ProcessStep, ProcessAgain, Coalesce, AdmitLatestHead, ConfirmAdmission,
       MarkProcessing, ClaimBuildSlot, processRest
  <2> QED BY <2>1, <2>3
<1>3. CASE DlqStep
  BY <1>3 DEF Handed, DlqStep, FailRequest, DLQProcess, DLQBuild, DLQBuildSignal, FailRequestRelease,
     AbandonRecord, dlqRest
<1>4. ASSUME NEW q \in Id, BuildStep(q) PROVE Handed(r)
  BY <1>4, Published DEF Handed, BuildStep, BuildTrigger, AssociateBuild, PublishBuildSignal, buildRest
<1>5. ASSUME NEW b \in BuildId, PollStep(b) PROVE Handed(r)
  BY <1>5, Published DEF Handed, PollStep, PollBuild, ReleaseBuildSlot, MarkOutcome, AdvanceLastGreen, PublishRecord, pollRest
<1>6. ASSUME NEW q \in Id, RecordStep(q) PROVE Handed(r)
  BY <1>6 DEF Handed, RecordStep, RecordFact, PersistProjectFacts, HoldsBookmark, Promote, recordRest
<1>7. CASE NewCommit \/ RunnerStep \/ UNCHANGED vars \/ Fault
  BY <1>7 DEF Handed, NewCommit, RunnerStep, BuildEnds, vars, topics, Fault, ExpireProcess, Abandon,
     Crash, DeadLetter, Redeliver, faultRest
<1> QED BY <1>1, <1>2, <1>3, <1>4, <1>5, <1>6, <1>7 DEF Next, JobStep

\* Only a claim's own handler moves it on.
LEMMA ClaimStays ==
    ASSUME TypeInv, Waiting, BuildsAreAdmitted, [Next]_vars, job[Late].at = "idle",
           job[Now].at = "claim", job[Now].id \in Id
    PROVE  req'[job[Now].id].state = "processing"
<1> DEFINE r == job[Now].id
<1>0. /\ Writers /\ req \in [Id -> RequestType] /\ r \in Id /\ req[r].state = "processing" /\ ~Handed(r)
  BY WritersAre DEF TypeInv, Types, TypeOK, BuildsAreAdmitted
<1>1. /\ \A b \in BuildId : job[<<"poll", b>>].at # "idle" => builds[b].request # r
      /\ job[DLQ].at # "idle" => RequestOf(<<job[DLQ].at, job[DLQ].id>>) # r
  BY <1>0, Unnamed
<1> HIDE DEF r
<1>2. ~Coalesce
  BY DEF Coalesce
<1>3. ASSUME FailRequest PROVE req'[r] = req[r]
  <2> DEFINE q == RequestOf(<<job[DLQ].at, job[DLQ].id>>)
  <2>1. q # r /\ (req' = req \/ req' = [req EXCEPT ![q].state = "failed"])
    BY <1>1, <1>3 DEF FailRequest
  <2> HIDE DEF q
  <2> QED BY <1>0, <2>1
<1>4. ASSUME NEW c \in Caller, EnsureRequest(c) PROVE req'[r] = req[r]
  BY <1>0, <1>4 DEF EnsureRequest, CreateRequest, WriteRequest
<1>5. ASSUME NEW j \in {Now, Late} PROVE ~MarkProcessing(j)
  BY DEF MarkProcessing
<1>6. ASSUME NEW q \in Id, AssociateBuild(q) PROVE req'[r].state = req[r].state
  BY <1>0, <1>6 DEF AssociateBuild, WriteRequest, RequestType
<1>7. ASSUME NEW b \in BuildId, MarkOutcome(b) PROVE req'[r] = req[r]
  BY <1>0, <1>1, <1>7 DEF MarkOutcome, WriteRequest
<1> QED BY <1>0, <1>2, <1>3, <1>4, <1>5, <1>6, <1>7 DEF Writers, r

\* The process handler marks its request, which waits, and goes on to claim a slot.
Admits ==
    /\ MarkProcessing(Now) /\ job'[Now].at = "claim" /\ job'[Now].id = job[Now].id
    /\ req[job[Now].id].state = "accepted" /\ req'[job[Now].id].state = "processing"

\* Which steps of the process handler come to the slot or past it.
LEMMA NowComes ==
    ASSUME TypeInv, BuildsAreAdmitted, HandlerMoves,
           job'[Now].at \in {"claim", "publish"}, job'[Now] # job[Now]
    PROVE  \/ Admits
           \/ job'[Now].at = "publish" /\ job'[Now].id \in Id /\ ~Waits(job'[Now].id)
<1>0. /\ Now \in Job /\ job \in [Job -> JobType] /\ req \in [Id -> RequestType]
      /\ job[Now].at # "idle" => job[Now].id \in Id
  BY JobKeys DEF TypeInv, Types, TypeOK, Handlers, ProcessWorks, Request
<1>1. CASE ProcessAgain
  <2> DEFINE r == Head(line)
             x == [NoJob EXCEPT !.at = "publish", !.id = r]
  <2>1. req[r].state = "processing" /\ job' = [job EXCEPT ![Now] = x] /\ line # <<>>
    BY <1>0, <1>1 DEF ProcessAgain
  <2>2. x.at = "publish" /\ x.id = r /\ r \in Id
    BY <2>1 DEF NoJob, TypeInv, Types, TypeOK
  <2> HIDE DEF x, r
  <2>3. job'[Now] = x
    BY <1>0, <2>1
  <2> QED BY <2>1, <2>2, <2>3 DEF Waits
<1>2. CASE AdmitLatestHead
  <2> DEFINE base == DeriveBuildStrategy(queue, Head(line))
  <2>1. job' = [job EXCEPT ![Now] = [NoJob EXCEPT !.at = "plan", !.id = Head(line), !.version = queue.version, !.base = base]]
    BY <1>2 DEF AdmitLatestHead
  <2> HIDE DEF base
  <2> QED BY <1>0, <2>1 DEF NoJob
<1>3. CASE ConfirmAdmission(Now)
  BY <1>0, <1>3 DEF ConfirmAdmission, NoJob, JobType
<1>4. CASE MarkProcessing(Now)
  <2> DEFINE r == job[Now].id
             row == [req[r] EXCEPT !.state = "processing", !.base = job[Now].base]
             x == [NoJob EXCEPT !.at = "claim", !.id = r]
  <2>1. job[Now].at = "mark" /\ r \in Id /\ job' # [job EXCEPT ![Now] = NoJob]
    BY <1>0, <1>4 DEF MarkProcessing, NoJob
  <2>2. req[r].state = "accepted" /\ req' = [req EXCEPT ![r] = row] /\ job' = [job EXCEPT ![Now] = x]
    BY <1>4, <2>1 DEF MarkProcessing, WriteRequest
  <2>3. row.state = "processing" /\ x.at = "claim" /\ x.id = r
    BY <1>0, <2>1 DEF RequestType, NoJob
  <2> HIDE DEF row, x, r
  <2> QED BY <1>0, <1>4, <2>1, <2>2, <2>3 DEF r, Admits
<1>5. CASE ClaimBuildSlot(Now)
  <2>1. job[Now].at = "claim" /\ job'[Now].id = job[Now].id /\ job'[Now].at = "publish" /\ job[Now].id \in Id
    BY <1>0, <1>5 DEF ClaimBuildSlot, JobType
  <2> QED BY <2>1 DEF BuildsAreAdmitted, Waits
<1> QED BY <1>0, <1>1, <1>2, <1>3, <1>4, <1>5 DEF HandlerMoves, NowMoves

LEMMA AdmittedStep ==
    ASSUME TypeInv, Waiting, FreshBuilds, BuildsAreAdmitted, [Next]_vars, ~Overlapped', job[Late].at = "idle"
    PROVE  BuildsAreAdmitted'
<1>0. /\ HandlerMoves /\ RequestsStay /\ Writers /\ sent \subseteq sent'
      /\ Now \in Job /\ job \in [Job -> JobType] /\ req \in [Id -> RequestType]
  BY HandlersMove, FreshStep, WritersAre, HeardStep, JobKeys DEF Heard, TypeInv, Types, TypeOK
<1>1. \A r \in Id : ~Waits(r) => ~Waits(r)'
  BY AdmittedStays
<1>2. \A r : Handed(r) => Handed(r)'
  BY <1>0 DEF Handed
<1>3. job[Now].at # "idle" => job[Now].id \in Id
  BY DEF TypeInv, Handlers, ProcessWorks, Request
<1>4. ASSUME NEW r \in Id, Handed(r)' PROVE ~Waits(r)'
  <2>1. CASE Handed(r)
    BY <1>1, <2>1 DEF BuildsAreAdmitted
  <2>2. CASE PublishBuild(Now) /\ r = job[Now].id
    BY <1>1, <2>2 DEF BuildsAreAdmitted, PublishBuild
  <2> QED BY <1>4, <2>1, <2>2, HandedBy
<1>5. ASSUME NEW r \in Id, job'[<<"build", r>>].at # "idle" PROVE Handed(r)'
  <2>1. CASE job[<<"build", r>>].at # "idle"
    BY <1>2, <2>1 DEF BuildsAreAdmitted
  <2>2. CASE BuildTrigger(r)
    BY <1>2, <2>2 DEF BuildTrigger, Waiting, Handed
  <2>3. CASE AssociateBuild(r)
    BY <1>2, <2>3 DEF AssociateBuild, BuildsAreAdmitted
  <2> QED BY <1>0, <1>5, <2>1, <2>2, <2>3 DEF HandlerMoves
<1>6. ASSUME NEW b \in Build' PROVE <<"build", builds'[b].request>> \in sent'
  <2>1. CASE b \in Build
    BY <1>0, <2>1 DEF BuildsAreAdmitted, RequestsStay, Handed
  <2>2. CASE b \notin Build
    <3>1. b \in BuildId /\ builds[b].status = "none" /\ builds'[b].status # "none"
      BY <2>2 DEF Build
    <3>2. ASSUME NEW a \in BuildId, PollBuild(a) PROVE builds'[b] = builds[b]
      <4>1. builds' = builds \/ (builds' = [builds EXCEPT ![a] = [builds[a] EXCEPT !.status = run[a]]]
                                    /\ builds[a].status = "running")
        BY <3>2 DEF PollBuild, Reconcile, WriteBuild
      <4>2. builds \in [BuildId -> BuildType]
        BY DEF TypeInv, Types, TypeOK, BuildType
      <4> QED BY <3>1, <4>1, <4>2
    <3>3. PICK q \in Id : AssociateBuild(q) /\ builds'[b] # builds[b]
      BY <1>0, <3>1, <3>2 DEF Writers
    <3>4. builds'[b] = [request |-> q, status |-> "running"]
      <4>1. builds \in [BuildId -> BuildType]
        BY DEF TypeInv, Types, TypeOK, BuildType
      <4> QED BY <3>1, <3>3, <4>1 DEF AssociateBuild, WriteBuild
    <3>5. Handed(q)
      BY <3>3 DEF AssociateBuild, BuildsAreAdmitted
    <3> QED BY <1>0, <3>4, <3>5 DEF Handed
  <2> QED BY <2>1, <2>2
<1>7. ASSUME job'[Now].at \in {"claim", "publish"}, job'[Now] # job[Now]
      PROVE  \/ Admits
             \/ job'[Now].at = "publish" /\ job'[Now].id \in Id /\ ~Waits(job'[Now].id)
  BY <1>0, <1>7, NowComes
<1>8. ASSUME job'[Now].at = "publish" PROVE req'[job'[Now].id].state \notin {"none", "accepted"}
  <2>1. CASE job'[Now] = job[Now]
    <3>1. job[Now].id \in Id /\ ~Waits(job[Now].id)
      BY <1>3, <1>8, <2>1 DEF BuildsAreAdmitted
    <3>2. req'[job[Now].id].state \notin {"none", "accepted"}
      BY <1>1, <3>1 DEF Waits
    <3> QED BY <2>1, <3>2
  <2>2. CASE job'[Now] # job[Now]
    <3>1. job'[Now].id \in Id /\ req[job'[Now].id].state \notin {"none", "accepted"}
      BY <1>7, <1>8, <2>2 DEF Waits, Admits
    <3>2. req'[job'[Now].id].state \notin {"none", "accepted"}
      BY <1>1, <3>1 DEF Waits
    <3> QED BY <3>2
  <2> QED BY <2>1, <2>2
<1>9. ASSUME job'[Now].at = "claim"
      PROVE  req'[job'[Now].id].state = "processing" /\ <<"build", job'[Now].id>> \notin sent'
  <2>0. PICK r : r = job[Now].id
    OBVIOUS
  <2>1. r \in Id /\ job'[Now].id = r /\ req'[r].state = "processing" /\ ~Handed(r)
    <3>1. CASE job'[Now] = job[Now]
      BY <1>3, <1>9, <2>0, <3>1, ClaimStays DEF BuildsAreAdmitted
    <3>2. CASE job'[Now] # job[Now]
      <4>1. MarkProcessing(Now) /\ job'[Now].id = r /\ req[r].state = "accepted" /\ req'[r].state = "processing"
        BY <1>7, <1>9, <2>0, <3>2 DEF Admits
      <4>2. r \in Id
        BY <1>3, <2>0, <4>1 DEF MarkProcessing
      <4>3. Waits(r)
        BY <4>1 DEF Waits
      <4> QED BY <4>1, <4>2, <4>3 DEF BuildsAreAdmitted
    <3> QED BY <3>1, <3>2
  <2>2. ~PublishBuild(Now)
    <3>1. PublishBuild(Now) => job'[Now] = NoJob
      BY <1>0 DEF PublishBuild
    <3> QED BY <1>9, <3>1 DEF NoJob
  <2>3. ~Handed(r)'
    BY <2>1, <2>2, HandedBy
  <2> QED BY <2>1, <2>3 DEF Handed
<1> QED BY <1>4, <1>5, <1>6, <1>8, <1>9 DEF BuildsAreAdmitted, Handed, Waits

\* A slot is given back with the decision that is about to be written.
Releases(r) ==
    \/ \E b \in BuildId : ReleaseBuildSlot(b) /\ builds[b].request = r
    \/ \E d \in dead : FailRequestRelease(d) /\ RequestOf(d) = r

LEMMA HoldingIsFinite ==
    ASSUME TypeInv
    PROVE  /\ IsFiniteSet(Id) /\ IsFiniteSet(Holding) /\ Cardinality(Holding) \in Nat /\ Holding \subseteq Processing
           /\ IsFiniteSet(Processing) /\ IsFiniteSet(Holding')
<1>1. IsFiniteSet(Id)
  BY FS_Interval, StovepipeAssumption DEF Id
<1>2. Holding \subseteq Processing /\ Processing \subseteq Id /\ Holding' \subseteq Id
  BY DEF Holding, Processing
<1> QED BY <1>1, <1>2, FS_Subset, FS_CardinalityType

LEMMA HoldingKept ==
    ASSUME TypeInv, FreshBuilds, [Next]_vars, HandlerMoves, NEW r \in Holding, ~Releases(r)
    PROVE  r \in Holding'
<1>0. /\ Writers /\ RequestsStay /\ req \in [Id -> RequestType] /\ r \in Id
      /\ req[r].state = "processing" /\ ~PollLeaves(r) /\ ~DlqLeaves(r)
  BY FreshStep, WritersAre DEF TypeInv, Types, TypeOK, Holding, Processing
<1>1. req'[r].state = "processing"
  <2>1. CASE Coalesce
    BY <1>0, <2>1 DEF Coalesce, Supersede, WriteRequest
  <2>2. ASSUME FailRequest PROVE req'[r] = req[r]
    <3> DEFINE q == RequestOf(<<job[DLQ].at, job[DLQ].id>>)
    <3>1. req' = req \/ (req' = [req EXCEPT ![q].state = "failed"] /\ req[q].state = job[DLQ].seen /\ job[DLQ].at # "idle")
      BY <2>2 DEF FailRequest
    <3>2. job[DLQ].at # "idle" /\ job[DLQ].seen = "processing" => q # r
      BY <1>0 DEF DlqLeaves
    <3> HIDE DEF q
    <3> QED BY <1>0, <3>1, <3>2
  <2>3. ASSUME NEW c \in Caller, EnsureRequest(c) PROVE req'[r] = req[r]
    BY <1>0, <2>3 DEF EnsureRequest, CreateRequest, WriteRequest
  <2>4. ASSUME NEW j \in {Now, Late}, MarkProcessing(j) PROVE req'[r] = req[r]
    BY <1>0, <2>4 DEF MarkProcessing, WriteRequest
  <2>5. ASSUME NEW q \in Id, AssociateBuild(q) PROVE req'[r].state = req[r].state
    BY <1>0, <2>5 DEF AssociateBuild, WriteRequest, RequestType
  <2>6. ASSUME NEW b \in BuildId, MarkOutcome(b) PROVE req'[r] = req[r]
    <3>1. builds[b].request # r
      BY <1>0, <2>6 DEF MarkOutcome, PollLeaves
    <3> QED BY <1>0, <2>6, <3>1 DEF MarkOutcome, WriteRequest
  <2> QED BY <1>0, <2>1, <2>2, <2>3, <2>4, <2>5, <2>6 DEF Writers
<1>2. ASSUME NEW b \in BuildId, job'[<<"poll", b>>].at = "mark" PROVE builds'[b].request # r
  <2>1. job[<<"poll", b>>].at = "mark" \/ ReleaseBuildSlot(b)
    BY <1>2 DEF HandlerMoves
  <2>2. b \in Build
    BY <2>1 DEF ReleaseBuildSlot, TypeInv, Handlers, PollWorks
  <2>3. builds[b].request # r
    BY <1>0, <2>1 DEF PollLeaves, Releases
  <2> QED BY <1>0, <2>2, <2>3 DEF RequestsStay
<1>3. ASSUME job'[DLQ].at # "idle", job'[DLQ].seen = "processing"
      PROVE  RequestOf(<<job[DLQ].at, job[DLQ].id>>)' # r
  <2>1. ASSUME NEW d \in dead, RequestOf(d) # r, job'[DLQ].at = d[1], job'[DLQ].id = d[2], d[1] # "record"
        PROVE  RequestOf(<<job[DLQ].at, job[DLQ].id>>)' # r
    <3>1. d[1] = "poll" => d[2] \in Build
      BY DEF TypeInv, Messages, Message
    <3>2. d[1] = "poll" => builds'[d[2]].request = builds[d[2]].request
      BY <1>0, <3>1 DEF RequestsStay
    <3> QED BY <2>1, <3>2 DEF RequestOf
  <2>2. CASE job'[DLQ] = job[DLQ]
    <3> DEFINE d == <<job[DLQ].at, job[DLQ].id>>
    <3>1. d \in dead /\ d[1] # "record"
      BY <1>3, <2>2 DEF TypeInv, Handlers, DlqWorks
    <3>2. RequestOf(d) # r
      BY <1>0, <1>3, <2>2 DEF DlqLeaves
    <3>3. job'[DLQ].at = d[1] /\ job'[DLQ].id = d[2]
      BY <2>2
    <3> HIDE DEF d
    <3> QED BY <2>1, <3>1, <3>2, <3>3
  <2>3. ASSUME NEW d \in dead, FailRequestRelease(d), job'[DLQ] # job[DLQ]
        PROVE  RequestOf(<<job[DLQ].at, job[DLQ].id>>)' # r
    <3> DEFINE s == req[RequestOf(d)].state
               n == req[RequestOf(d)].build
               x == [NoJob EXCEPT !.at = d[1], !.id = d[2], !.seen = s, !.build = n]
    <3>1. job' = [job EXCEPT ![DLQ] = x]
      BY <2>3 DEF FailRequestRelease
    <3>2. x.at = d[1] /\ x.id = d[2]
      BY DEF NoJob
    <3>3. RequestOf(d) # r
      BY <1>0, <2>3 DEF Releases
    <3> HIDE DEF x, s, n
    <3>4. job'[DLQ] = x
      BY <3>1, JobKeys DEF TypeInv, Types
    <3>5. d[1] # "record"
      BY JobTypes, <1>3, <3>2, <3>4 DEF JobsTyped, Handlers, DlqWorks
    <3> QED BY <2>1, <3>2, <3>3, <3>4, <3>5
  <2> QED BY <1>3, <2>2, <2>3 DEF HandlerMoves, DlqReads
<1> QED BY <1>0, <1>1, <1>2, <1>3 DEF Holding, Processing, PollLeaves, DlqLeaves

LEMMA ReleasedRow ==
    ASSUME TypeInv, queue.inFlight > 0, WriteQueue(ReleaseSlot(queue))
    PROVE  queue'.inFlight = queue.inFlight - 1
<1>0. queue \in QueueType
  BY DEF TypeInv, Types, TypeOK, QueueType
<1> DEFINE row == [queue EXCEPT !.inFlight = queue.inFlight - 1]
           n == IF queue.inFlight <= 0 THEN queue.inFlight ELSE queue.inFlight - 1
<1>1. n = queue.inFlight - 1
  BY <1>0 DEF QueueType
<1>2. ReleaseSlot(queue) = [queue EXCEPT !.inFlight = n]
  BY <1>0 DEF ReleaseSlot, QueueType
<1>3. row \in QueueType /\ row.inFlight = queue.inFlight - 1
  BY <1>0 DEF QueueType
<1> HIDE DEF n, row
<1>4. ReleaseSlot(queue) = row
  BY <1>1, <1>2 DEF row
<1>5. queue' = [row EXCEPT !.version = queue.version + 1]
  BY <1>4 DEF WriteQueue
<1> QED BY <1>3, <1>5 DEF QueueType

\* The rows that are counted: a slot more is a claim less, a slot less is a
\* decision more.
LEMMA CountMoves ==
    ASSUME TypeInv, [Next]_vars, job[Late].at = "idle"
    PROVE  \/ queue'.inFlight = queue.inFlight
           \/ ClaimBuildSlot(Now) /\ queue'.inFlight = queue.inFlight + 1
           \/ (\E r : Releases(r)) /\ queue.inFlight > 0 /\ queue'.inFlight = queue.inFlight - 1
<1>0. Writers /\ queue \in QueueType
  BY WritersAre DEF TypeInv, Types, TypeOK, QueueType
<1> USE DEF WriteQueue
<1>1. ASSUME NEW row \in QueueType, queue' = [row EXCEPT !.version = queue.version + 1]
      PROVE  queue'.inFlight = row.inFlight
  BY <1>1 DEF QueueType
<1>2. ASSUME NEW c \in Caller, AdvanceQueueLatestRequestID(c) PROVE queue'.inFlight = queue.inFlight
  BY <1>0, <1>2 DEF AdvanceQueueLatestRequestID, QueueType
<1>3. ASSUME NEW j \in {Now, Late}, ConfirmAdmission(j) PROVE queue'.inFlight = queue.inFlight
  BY <1>0, <1>1, <1>3 DEF ConfirmAdmission
<1>4. ASSUME NEW j \in {Now, Late}, ClaimBuildSlot(j)
      PROVE  ClaimBuildSlot(Now) /\ queue'.inFlight = queue.inFlight + 1
  <2>1. j = Now
    BY <1>4 DEF ClaimBuildSlot
  <2> DEFINE row == [queue EXCEPT !.inFlight = queue.inFlight + 1]
  <2>2. queue' = [row EXCEPT !.version = queue.version + 1]
    BY <1>4 DEF ClaimBuildSlot
  <2>3. row \in QueueType /\ row.inFlight = queue.inFlight + 1
    BY <1>0 DEF QueueType
  <2> HIDE DEF row
  <2> QED BY <1>1, <1>4, <2>1, <2>2, <2>3
<1>5. ASSUME queue.inFlight > 0, WriteQueue(ReleaseSlot(queue)) PROVE queue'.inFlight = queue.inFlight - 1
  BY <1>5, ReleasedRow
<1>6. ASSUME NEW b \in BuildId, ReleaseBuildSlot(b), queue' # queue
      PROVE  Releases(builds[b].request) /\ queue.inFlight > 0 /\ queue'.inFlight = queue.inFlight - 1
  BY <1>5, <1>6 DEF ReleaseBuildSlot, Releases
<1>7. ASSUME NEW b \in BuildId, AdvanceLastGreen(b) PROVE queue'.inFlight = queue.inFlight
  BY <1>0, <1>7 DEF AdvanceLastGreen, QueueType
<1>8. ASSUME NEW d \in dead, FailRequestRelease(d), queue' # queue
      PROVE  Releases(RequestOf(d)) /\ queue.inFlight > 0 /\ queue'.inFlight = queue.inFlight - 1
  BY <1>5, <1>8 DEF FailRequestRelease, ReleaseOne, Releases
<1> QED BY <1>0, <1>2, <1>3, <1>4, <1>6, <1>7, <1>8 DEF Writers

\* One request at most is decided in a step.
LEMMA ReleasesOne ==
    ASSUME TypeInv, [Next]_vars, NEW r, NEW q, Releases(r), Releases(q)
    PROVE  r = q
<1>0. job \in [Job -> JobType] /\ DLQ \in Job /\ \A b \in BuildId : <<"poll", b>> \in Job
  BY JobKeys DEF TypeInv, Types
<1>1. ASSUME NEW b \in BuildId, ReleaseBuildSlot(b)
      PROVE  /\ job[<<"poll", b>>].at = "release" /\ job'[<<"poll", b>>].at = "mark"
             /\ \A k \in Job : k # <<"poll", b>> => job'[k] = job[k]
  BY <1>0, <1>1 DEF ReleaseBuildSlot, JobType
<1>2. ASSUME NEW a \in BuildId, ReleaseBuildSlot(a), NEW b \in BuildId, ReleaseBuildSlot(b) PROVE a = b
  BY <1>0, <1>1, <1>2
<1>3. ASSUME NEW d \in dead, FailRequestRelease(d) PROVE \A b \in BuildId : ~ReleaseBuildSlot(b)
  <2>1. ASSUME NEW b \in BuildId, ReleaseBuildSlot(b) PROVE FALSE
    <3>1. job'[<<"poll", b>>] = job[<<"poll", b>>]
      BY <1>0, <1>3, KeysDiffer DEF FailRequestRelease
    <3> QED BY <1>1, <2>1, <3>1
  <2> QED BY <2>1
<1>4. ASSUME NEW d \in dead, FailRequestRelease(d), NEW e \in dead, FailRequestRelease(e) PROVE d = e
  <2>1. d \in Message /\ e \in Message
    BY DEF TypeInv, Messages
  <2>2. d = <<d[1], d[2]>> /\ e = <<e[1], e[2]>>
    BY <2>1 DEF Message
  <2> DEFINE Over(f) == req[RequestOf(f)].state \in Terminal
             s(f) == req[RequestOf(f)].state
             n(f) == req[RequestOf(f)].build
             x(f) == [NoJob EXCEPT !.at = f[1], !.id = f[2], !.seen = s(f), !.build = n(f)]
  <2>3. ASSUME NEW f \in dead, FailRequestRelease(f)
        PROVE  IF Over(f) THEN dead' = dead \ {f} ELSE dead' = dead /\ job'[DLQ].at = f[1] /\ job'[DLQ].id = f[2]
    <3>1. CASE Over(f)
      BY <2>3, <3>1 DEF FailRequestRelease
    <3>2. CASE ~Over(f)
      <4>1. dead' = dead /\ job' = [job EXCEPT ![DLQ] = x(f)]
        BY <2>3, <3>2 DEF FailRequestRelease
      <4>2. x(f).at = f[1] /\ x(f).id = f[2]
        BY DEF NoJob
      <4> HIDE DEF x
      <4> QED BY <1>0, <3>2, <4>1, <4>2
    <3> QED BY <3>1, <3>2
  <2> HIDE DEF Over, s, n, x
  <2>4. CASE Over(d) \/ Over(e)
    BY <1>4, <2>3, <2>4
  <2>5. CASE ~Over(d) /\ ~Over(e)
    BY <1>4, <2>2, <2>3, <2>5
  <2> QED BY <2>4, <2>5
<1> QED BY <1>2, <1>3, <1>4 DEF Releases

\* A dead letter that is read is not about a request whose slot is being claimed.
LEMMA DeadUnnamed ==
    ASSUME TypeInv, Waiting, BuildsAreAdmitted, [Next]_vars, NEW r \in Id, ~Handed(r),
           req[r].state = "processing", job[Now].at # "idle", job[Now].id = r,
           NEW d \in dead, FailRequestRelease(d)
    PROVE  RequestOf(d) # r
<1> SUFFICES ASSUME RequestOf(d) = r PROVE FALSE
  OBVIOUS
<1>1. job'[DLQ].at = d[1]
  <2> DEFINE s == req[RequestOf(d)].state
             n == req[RequestOf(d)].build
             x == [NoJob EXCEPT !.at = d[1], !.id = d[2], !.seen = s, !.build = n]
  <2>1. job' = [job EXCEPT ![DLQ] = x]
    BY DEF FailRequestRelease, Terminal, Outcome
  <2>2. x.at = d[1]
    BY DEF NoJob
  <2> HIDE DEF x
  <2> QED BY <2>1, <2>2, JobKeys DEF TypeInv, Types
<1>2. d \in Message /\ d \in sent
  BY DEF TypeInv, Messages, Waiting
<1>3. d[1] \in {"process", "build", "poll"}
  <2>1. d[1] # "idle"
    BY <1>2 DEF Message
  <2> QED BY <1>1, <2>1, JobTypes DEF JobsTyped, Handlers, DlqWorks
<1>4. d = <<d[1], d[2]>> /\ (d[1] = "poll" => d[2] \in Build)
  BY <1>2 DEF Message
<1>5. <<"process", r>> \notin dead
  <2>1. line \in Seq(Id) /\ line # <<>> /\ r = Head(line)
    BY DEF TypeInv, Types, TypeOK, Handlers, Waiting
  <2>2. 1 \in 1..Len(line) /\ r = line[1]
    BY <2>1
  <2> QED BY <2>2 DEF Waiting
<1> QED BY <1>2, <1>3, <1>4, <1>5 DEF RequestOf, Handed, BuildsAreAdmitted

\* An admission touches nobody else's handler.
LEMMA AdmissionIsAlone ==
    ASSUME TypeInv, Admits
    PROVE  /\ \A k \in Job \ {Now} : job'[k] = job[k]
           /\ job'[Now] # job[Now] /\ builds' = builds /\ \A q : ~Releases(q)
<1>1. job \in [Job -> JobType] /\ job[Now].at = "mark" /\ job'[Now] # job[Now]
  BY DEF TypeInv, Types, Admits, MarkProcessing
<1>2. \A k \in Job \ {Now} : job'[k] = job[k]
  BY <1>1 DEF Admits, MarkProcessing
<1>3. \A b \in BuildId : ~ReleaseBuildSlot(b)
  BY <1>1, JobKeys, KeysDiffer DEF ReleaseBuildSlot
<1>4. \A d \in dead : ~FailRequestRelease(d)
  BY <1>1, JobKeys, KeysDiffer DEF FailRequestRelease
<1>5. builds' = builds
  BY DEF Admits, MarkProcessing, processRest
<1> QED BY <1>1, <1>2, <1>3, <1>4, <1>5 DEF Releases

LEMMA Enters ==
    ASSUME TypeInv, Waiting, BuildsAreAdmitted, Admits, NEW r \in Id, r = job[Now].id, ~Handed(r)
    PROVE  r \in Holding'
<1>1. job[Now].at = "mark"
  BY DEF Admits, MarkProcessing
<1>2. ~PollLeaves(r) /\ ~DlqLeaves(r)
  BY <1>1, Unnamed
<1>3. /\ \A b \in BuildId : job'[<<"poll", b>>] = job[<<"poll", b>>]
      /\ job'[DLQ] = job[DLQ] /\ builds' = builds
  BY AdmissionIsAlone, JobKeys, KeysDiffer
<1>4. req'[r].state = "processing"
  BY DEF Admits
<1>5. ~PollLeaves(r)'
  BY <1>2, <1>3 DEF PollLeaves
<1>6. ~DlqLeaves(r)'
  BY <1>2, <1>3 DEF DlqLeaves, RequestOf
<1> QED BY <1>4, <1>5, <1>6 DEF Holding, Processing

\* A slot that is given back is counted off, unless there is none.
LEMMA ReleasesCount ==
    ASSUME TypeInv, [Next]_vars, job[Late].at = "idle", NEW q, Releases(q), req[q].state = "processing"
    PROVE  queue'.inFlight = IF queue.inFlight > 0 THEN queue.inFlight - 1 ELSE queue.inFlight
<1>1. CASE queue.inFlight > 0
  <2>1. WriteQueue(ReleaseSlot(queue))
    BY <1>1 DEF Releases, ReleaseBuildSlot, FailRequestRelease, ReleaseOne, Terminal, Outcome
  <2> QED BY <1>1, <2>1, ReleasedRow
<1>2. CASE ~(queue.inFlight > 0)
  BY <1>2 DEF Releases, ReleaseBuildSlot, FailRequestRelease, ReleaseOne, Terminal, Outcome
<1> QED BY <1>1, <1>2

LEMMA CountStep ==
    ASSUME TypeInv, Waiting, FreshBuilds, BuildsAreAdmitted, SlotsAreCounted, [Next]_vars,
           ~Overlapped', job[Late].at = "idle"
    PROVE  SlotsAreCounted'
<1> DEFINE H == Holding
           G == Holding'
<1>0. /\ HandlerMoves /\ queue \in QueueType /\ queue' \in QueueType
      /\ IsFiniteSet(H) /\ IsFiniteSet(G) /\ Cardinality(H) \in Nat /\ Cardinality(G) \in Nat
      /\ queue.inFlight + Claims <= Cardinality(H) /\ Claims \in {0, 1} /\ Claims' \in {0, 1}
  <2>1. TypeInv'
    BY TypeStep
  <2>2. queue \in QueueType /\ queue' \in QueueType
    BY <2>1 DEF TypeInv, Types, TypeOK, QueueType
  <2> QED BY <2>2, HandlersMove, HoldingIsFinite, FS_CardinalityType DEF SlotsAreCounted, Claims
<1>1. queue.inFlight \in Nat /\ queue'.inFlight \in Nat
  BY <1>0 DEF QueueType
<1>2. \A r \in H : ~Releases(r) => r \in G
  BY <1>0, HoldingKept
<1>3. job[Now].at = "claim" => job[Now].id \in H /\ ~Releases(job[Now].id)
  <2> SUFFICES ASSUME job[Now].at = "claim" PROVE job[Now].id \in H /\ ~Releases(job[Now].id)
    OBVIOUS
  <2> DEFINE r == job[Now].id
  <2>1. r \in Id /\ req[r].state = "processing" /\ ~Handed(r)
    BY DEF TypeInv, Handlers, ProcessWorks, Request, BuildsAreAdmitted
  <2>2. /\ ~PollLeaves(r) /\ ~DlqLeaves(r)
        /\ \A b \in BuildId : job[<<"poll", b>>].at # "idle" => builds[b].request # r
    BY <2>1, Unnamed
  <2>3. ASSUME NEW d \in dead, FailRequestRelease(d), RequestOf(d) = r PROVE FALSE
    BY <2>1, <2>3, DeadUnnamed
  <2> QED BY <2>1, <2>2, <2>3 DEF Releases, ReleaseBuildSlot, Holding, Processing
<1> HIDE DEF H, G
\* A slot is claimed for a request that waited until now.
<1>4. CASE Claims = 0 /\ Claims' = 1
  <2>1. job'[Now] # job[Now] /\ job'[Now].at = "claim"
    BY <1>4 DEF Claims
  <2>2. Admits
    BY <1>0, <2>1, NowComes
  <2> DEFINE r == job[Now].id
  <2>3. job[Now].at = "mark" /\ r \in Id /\ req[r].state = "accepted" /\ ~Handed(r)
    <3>1. job[Now].at = "mark" /\ req[r].state = "accepted"
      BY <2>2 DEF Admits, MarkProcessing
    <3>2. r \in Id
      BY <3>1 DEF TypeInv, Handlers, ProcessWorks, Request
    <3> QED BY <3>1, <3>2 DEF BuildsAreAdmitted, Waits
  <2>4. r \notin H
    BY <2>3 DEF H, Holding, Processing
  <2>5. r \in G
    BY <2>2, <2>3, Enters DEF G
  <2>6. \A q : ~Releases(q)
    BY <2>2, AdmissionIsAlone
  <2>7. H \cup {r} \subseteq G
    BY <1>2, <2>5, <2>6
  <2>8. queue'.inFlight = queue.inFlight
    BY <2>2 DEF Admits, MarkProcessing
  <2> HIDE DEF r
  <2>9. Cardinality(H) + 1 <= Cardinality(G)
    <3>1. IsFiniteSet(H \cup {r}) /\ Cardinality(H \cup {r}) = Cardinality(H) + 1
      BY <1>0, <2>4, FS_AddElement
    <3>2. Cardinality(H \cup {r}) <= Cardinality(G)
      BY <1>0, <2>7, FS_Subset
    <3> QED BY <3>1, <3>2
  <2> QED BY <1>0, <1>1, <1>4, <2>8, <2>9 DEF SlotsAreCounted, G
<1>5. CASE Claims' <= Claims
  <2>1. CASE H \subseteq G
    <3>1. Cardinality(H) <= Cardinality(G)
      BY <1>0, <2>1, FS_Subset
    <3>2. CASE ClaimBuildSlot(Now) /\ queue'.inFlight = queue.inFlight + 1
      <4>1. Claims = 1 /\ Claims' = 0
        BY <3>2, JobKeys DEF ClaimBuildSlot, Claims, TypeInv, Types, JobType
      <4> QED BY <1>0, <1>1, <3>1, <3>2, <4>1 DEF SlotsAreCounted, G
    <3>3. CASE queue'.inFlight <= queue.inFlight
      BY <1>0, <1>1, <1>5, <3>1, <3>3 DEF SlotsAreCounted, G
    <3> QED BY <1>1, <3>2, <3>3, CountMoves
  <2>2. CASE ~(H \subseteq G)
    <3>1. PICK q \in H : Releases(q)
      BY <1>2, <2>2
    <3>2. H \ {q} \subseteq G
      BY <1>2, <3>1, ReleasesOne
    <3>3. Cardinality(H) - 1 <= Cardinality(G)
      <4>1. IsFiniteSet(H \ {q}) /\ Cardinality(H \ {q}) = Cardinality(H) - 1
        BY <1>0, <3>1, FS_RemoveElement
      <4> QED BY <1>0, <3>2, <4>1, FS_Subset
    <3>4. queue'.inFlight = IF queue.inFlight > 0 THEN queue.inFlight - 1 ELSE queue.inFlight
      <4>1. req[q].state = "processing"
        BY <3>1 DEF H, Holding, Processing
      <4> QED BY <3>1, <4>1, ReleasesCount
    <3>5. CASE queue.inFlight > 0
      BY <1>0, <1>1, <1>5, <3>3, <3>4, <3>5 DEF SlotsAreCounted, G
    <3>6. CASE queue.inFlight = 0
      <4>1. CASE Claims' = 0
        BY <1>0, <3>4, <3>6, <4>1 DEF SlotsAreCounted, G
      <4>2. CASE Claims' = 1
        <5>1. job[Now].id \in G
          BY <1>0, <1>2, <1>3, <1>5, <4>2 DEF Claims
        <5>2. Cardinality(G) # 0
          BY <1>0, <5>1, FS_EmptySet
        <5> QED BY <1>0, <3>4, <3>6, <4>2, <5>2 DEF SlotsAreCounted, G
      <4> QED BY <1>0, <4>1, <4>2
    <3> QED BY <1>1, <3>5, <3>6
  <2> QED BY <2>1, <2>2
<1> QED BY <1>0, <1>4, <1>5

LEMMA SlotInit == Init => SlotInv
<1> SUFFICES ASSUME Init PROVE SlotInv
  OBVIOUS
<1>1. job[Late].at = "idle" /\ job[Now].at = "idle" /\ \A r \in Id : job[<<"build", r>>].at = "idle"
  BY JobKeys DEF Init, NoJob
<1>2. Build = {}
  BY DEF Init, Build
<1>3. Waiting /\ FreshBuilds
  <2>1. line = <<>> /\ 1..Len(line) = {} /\ inbox = {} /\ dead = {}
    BY DEF Init
  <2> QED BY <1>1, <2>1 DEF Waiting, FreshBuilds
<1>4. BuildsAreAdmitted
  BY <1>1, <1>2 DEF Init, BuildsAreAdmitted, Handed
<1>5. SlotsAreCounted
  <2>1. Holding = {}
    BY DEF Init, Holding, Processing, NoRequest
  <2>2. Claims = 0 /\ queue.inFlight = 0
    BY <1>1 DEF Init, Claims
  <2> QED BY <2>1, <2>2, FS_EmptySet DEF SlotsAreCounted
<1> QED BY <1>1, <1>3, <1>4, <1>5 DEF SlotInv

LEMMA SlotStep ==
    ASSUME TypeInv, SlotInv, [Next]_vars
    PROVE  SlotInv'
<1> SUFFICES ASSUME ~Overlapped' PROVE job'[Late].at = "idle" /\ (Waiting /\ FreshBuilds /\ BuildsAreAdmitted /\ SlotsAreCounted)'
  BY DEF SlotInv
<1>1. ~Overlapped
  BY OverlapStays
<1>2. job[Late].at = "idle" /\ Waiting /\ FreshBuilds /\ BuildsAreAdmitted /\ SlotsAreCounted
  BY <1>1 DEF SlotInv
<1>3. HandlerMoves
  BY <1>2, HandlersMove
<1> QED BY <1>2, <1>3, WaitingStep, FreshStep, AdmittedStep, CountStep DEF HandlerMoves

\* The count of slots is a lower bound on the requests in process: a slot is
\* counted only after its request is marked, and given back before the verdict
\* is written, so that no crash, repeat or dead letter between the two leaves a
\* slot that nobody owns. Two handlers of one request at once are excepted: a
\* process handler beyond its lease, and an ingest that hands the request to
\* process again while its dead letter is still to be read.
THEOREM SlotsOwned == Spec => []SlotsAreOwned
<1>1. Init => TypeInv /\ SlotInv
  BY TypeInit, SlotInit
<1>2. TypeInv /\ SlotInv /\ [Next]_vars => (TypeInv /\ SlotInv)'
  BY TypeStep, SlotStep
<1>3. TypeInv /\ SlotInv => SlotsAreOwned
  <2> SUFFICES ASSUME TypeInv, SlotInv, ~Overlapped PROVE queue.inFlight <= Cardinality(Processing)
    BY DEF SlotsAreOwned
  <2>1. Cardinality(Holding) <= Cardinality(Processing) /\ Cardinality(Holding) \in Nat /\ Cardinality(Processing) \in Nat
    BY HoldingIsFinite, FS_Subset, FS_CardinalityType
  <2>2. queue.inFlight + Claims <= Cardinality(Holding) /\ Claims \in {0, 1} /\ queue.inFlight \in Nat
    BY DEF SlotInv, SlotsAreCounted, Claims, TypeInv, Types, TypeOK
  <2> QED BY <2>1, <2>2
<1> QED BY <1>1, <1>2, <1>3, PTL DEF Spec
=============================================================================
