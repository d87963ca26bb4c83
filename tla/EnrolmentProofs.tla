--------------------------- MODULE EnrolmentProofs ---------------------------
(***************************************************************************)
(* Proofs about Enrolment, for any requests, arrivals, cancels and faults:  *)
(* a terminal request is never written again, one change has one claimant   *)
(* in progress, a request is enrolled by one batch, and the batches on      *)
(* their way to the trunk are serialized.                                   *)
(***************************************************************************)
EXTENDS Enrolment, SequenceTheorems, TLAPS

(* Types.                                                                   *)

RequestRow  == [state : RequestState, ver : Nat]
BatchRow(n) == [req : Request, state : BatchState, deps : SUBSET (1..n)]
Message     == {<<>>} \cup Request \cup Nat \cup Request \X BOOLEAN \X {"live", "dlq"}
               \cup Topic \X (Request \cup Nat)
Point       == {"idle", "publish", "claim", "mint", "announce", "created",
                "speculating", "landing", "resolve", "claimWrite", "promote", "file",
                "find", "terminate", "batches", "handOff", "put", "delete", "fail",
                "fanOut"}
JobType     == [topic : Topic \cup {"none", "speculate"}, msg : Message, at : Point,
                ver : Nat, ids : SUBSET Nat, was : BatchState \cup {"none"}]

\* A row that nobody created has no version.
Requests == /\ request \in [Request -> RequestRow]
            /\ \A q \in Request : request[q].state = "none" => request[q].ver = 0

Batches == batch \in Seq(BatchRow(Len(batch)))

Sets == /\ assoc \subseteq Request \X Batch
        /\ records \subseteq BatchState \X Batch
        /\ index \subseteq Batch \X Batch
        /\ claims \subseteq Request
        /\ announced \subseteq Batch

Queues == /\ DOMAIN topic = Topic
          /\ topic["conclude"] \in Seq(Batch)
          /\ faults \in 0..MaxFaults

\* A handler runs in its topic's slot, or late after its lease expired.
InSlot(h) == \/ job[h].topic \in {"none", h}
             \/ h = "late" /\ job[h].topic \in Slow /\ "expiry" \in FaultKinds

Holds(h) ==
    /\ job[h].topic = "none" => job[h].at = "idle"
    /\ job[h].topic \in {"start", "validate", "batch", "cancel"} => job[h].msg \in Request
    /\ job[h].topic \in {"analysis", "speculate"} => job[h].msg \in Batch
    /\ h = "dlq" /\ job[h].at = "fanOut" => job[h].msg[2] \in Batch
    /\ job[h].ids \subseteq Batch

Jobs == /\ job \in [Slot -> JobType]
        /\ \A h \in Slot : InSlot(h) /\ Holds(h)

Types == Requests /\ Batches /\ Sets /\ Queues /\ Jobs

(* How a step may change a request.                                         *)

RowMove(q) == \/ request'[q] = request[q]
              \/ /\ request[q].state \notin TerminalRequest
                 /\ request'[q].ver > request[q].ver
                 /\ request'[q].state # "none"

RequestsMove == Requests' /\ \A q \in Request : RowMove(q)

LEMMA Untouched ==
    ASSUME Requests, UNCHANGED request
    PROVE  RequestsMove
  BY DEF RequestsMove, RowMove, Requests

LEMMA Updating ==
    ASSUME Requests, NEW r \in Request, NEW s \in RequestState \ {"none"},
           request[r].state \notin TerminalRequest, request' = RequestUpdated(r, s)
    PROVE  RequestsMove
<1>1. request[r].ver + 1 \in Nat /\ request[r].ver + 1 > request[r].ver
  BY DEF Requests, RequestRow
<1> DEFINE row == [state |-> s, ver |-> request[r].ver + 1]
<1>2. row \in RequestRow /\ row.state = s /\ row.ver = request[r].ver + 1
  BY <1>1 DEF RequestRow
<1>3. request' = [request EXCEPT ![r] = row]
  BY DEF RequestUpdated
<1> HIDE DEF row
<1>4. /\ request' \in [Request -> RequestRow] /\ request'[r] = row
      /\ \A q \in Request \ {r} : request'[q] = request[q]
  BY <1>2, <1>3 DEF Requests
<1> QED BY <1>1, <1>2, <1>4 DEF RequestsMove, RowMove, Requests

LEMMA Terminating ==
    ASSUME Requests, NEW r, NEW s \in TerminalRequest, request' = Terminated(r, s)
    PROVE  RequestsMove
<1>1. CASE r \notin Request
  <2>1. \A x : [request EXCEPT ![r] = x] = request
    BY <1>1 DEF Requests
  <2>2. UNCHANGED request
    BY <2>1 DEF Terminated, RequestUpdated
  <2> QED BY <2>2, Untouched
<1>2. CASE r \in Request /\ request[r].state \in TerminalRequest \cup {"none"}
  BY <1>2, Untouched DEF Terminated
<1>3. CASE r \in Request /\ request[r].state \notin TerminalRequest \cup {"none"}
  <2>1. s \in RequestState \ {"none"}
    BY DEF TerminalRequest, RequestState, HaltedRequest
  <2> QED BY <1>3, <2>1, Updating DEF Terminated
<1> QED BY <1>1, <1>2, <1>3

LEMMA Creating ==
    ASSUME Requests, NEW r \in Request, request' = RequestCreated(r)
    PROVE  RequestsMove
<1>1. CASE request[r].state # "none"
  BY <1>1, Untouched DEF RequestCreated
<1>2. CASE request[r].state = "none"
  <2> DEFINE row == [state |-> "started", ver |-> 1]
  <2>1. row \in RequestRow /\ row.state = "started" /\ row.ver = 1
    BY DEF RequestRow, RequestState
  <2>2. request' = [request EXCEPT ![r] = row]
    BY <1>2 DEF RequestCreated
  <2> HIDE DEF row
  <2>3. /\ request' \in [Request -> RequestRow] /\ request'[r] = row
        /\ \A q \in Request \ {r} : request'[q] = request[q]
    BY <2>1, <2>2 DEF Requests
  <2>4. request[r].ver = 0 /\ request[r].state \notin TerminalRequest
    BY <1>2 DEF Requests, TerminalRequest
  <2> QED BY <2>1, <2>3, <2>4 DEF RequestsMove, RowMove, Requests
<1> QED BY <1>1, <1>2

(* How a step may change the batches: a row is only added as Creating, and  *)
(* only a promotion takes one out of Creating but to fail it.               *)

Promotes(b) == \E h \in Topic \cup {"late"} :
    /\ job[h].topic = "analysis" /\ job[h].at = "promote" /\ job[h].msg = b
    /\ batch[b].state = "creating"

StateMove(b) == \/ batch'[b].state = batch[b].state
                \/ batch[b].state \in Live
                \/ batch'[b].state = "failed" /\ batch[b].state \notin {"succeeded", "cancelled"}
                \/ batch'[b].state = "created" /\ Promotes(b)

BatchesMove == /\ Batches'
               /\ Len(batch) \in Nat /\ Len(batch') \in Nat /\ Len(batch) =< Len(batch')
               /\ \A b \in Batch : batch'[b].req = batch[b].req /\ StateMove(b)
               /\ \A b \in Batch' : b \notin Batch => batch'[b].state = "creating"

LEMMA BatchKeys ==
    ASSUME Batches
    PROVE  /\ Len(batch) \in Nat /\ Batch = 1..Len(batch) /\ Batch \subseteq Nat
           /\ DOMAIN batch = Batch
           /\ \A b \in Batch : batch[b] \in BatchRow(Len(batch))
  BY DEF Batches, Batch

LEMMA BatchesStay ==
    ASSUME Batches, UNCHANGED batch
    PROVE  BatchesMove
  BY BatchKeys DEF BatchesMove, StateMove, Batches, Batch

LEMMA BatchUpdating ==
    ASSUME Batches, NEW b \in Batch, NEW s \in BatchState, NEW d \in SUBSET Batch,
           batch' = BatchUpdated(b, s, d),
           \/ batch[b].state = s
           \/ batch[b].state \in Live
           \/ s = "failed" /\ batch[b].state \notin {"succeeded", "cancelled"}
           \/ s = "created" /\ Promotes(b)
    PROVE  BatchesMove
<1> DEFINE row == [[batch[b] EXCEPT !.state = s] EXCEPT !.deps = d]
<1>1. row \in BatchRow(Len(batch)) /\ row.state = s /\ row.req = batch[b].req
  <2> DEFINE old == batch[b]
  <2>1. old \in BatchRow(Len(batch)) /\ d \in SUBSET (1..Len(batch))
    BY BatchKeys
  <2> HIDE DEF old
  <2> QED BY <2>1 DEF BatchRow, old
<1>2. batch' = [batch EXCEPT ![b] = row]
  BY BatchKeys DEF BatchUpdated
<1> HIDE DEF row
<1>3. /\ batch' \in Seq(BatchRow(Len(batch))) /\ Len(batch') = Len(batch)
      /\ batch'[b] = row /\ \A x \in Batch \ {b} : batch'[x] = batch[x]
  BY <1>2, <1>1, BatchKeys DEF Batches, Batch
<1> QED BY <1>1, <1>3, BatchKeys DEF BatchesMove, StateMove, Batches, Batch

LEMMA BatchAdding ==
    ASSUME Batches, NEW r \in Request, batch' = BatchCreated(r)
    PROVE  BatchesMove /\ Len(batch') = Len(batch) + 1
<1> DEFINE n == Len(batch)
           row == [req |-> r, state |-> "creating", deps |-> {}]
<1>1. n \in Nat /\ n + 1 \in Nat
  BY BatchKeys
<1>2. row \in BatchRow(n + 1) /\ row.state = "creating"
  BY <1>1 DEF BatchRow, BatchState
<1>3. batch' = Append(batch, row)
  BY DEF BatchCreated
<1>4. BatchRow(n) \subseteq BatchRow(n + 1)
  <2>1. 1..n \subseteq 1..(n + 1)
    BY <1>1
  <2> QED BY <2>1 DEF BatchRow
<1>5. batch \in Seq(BatchRow(n + 1))
  BY <1>4, BatchKeys DEF Batches
<1> HIDE DEF row
<1>6. /\ batch' \in Seq(BatchRow(n + 1)) /\ Len(batch') = n + 1
      /\ batch'[n + 1] = row /\ \A x \in 1..n : batch'[x] = batch[x]
  BY <1>2, <1>3, <1>5
<1> QED BY <1>1, <1>2, <1>6, BatchKeys DEF BatchesMove, StateMove, Batches, Batch

(* What the topics do, as far as a proof needs it: conclude is told of a    *)
(* batch once it is over, and forgets from the head.                        *)

Told(q) == \/ q = topic["conclude"]
           \/ topic["conclude"] # <<>> /\ q = Tail(topic["conclude"])
           \/ \E b \in Batch : /\ batch[b].state \in TerminalBatch
                               /\ q = Append(topic["conclude"], b)

TopicsMove == /\ DOMAIN topic' = Topic /\ Told(topic'["conclude"])
              /\ faults' \in 0..MaxFaults

LEMMA TopicsStay ==
    ASSUME Queues, UNCHANGED <<topic, faults>>
    PROVE  TopicsMove
  BY DEF Queues, TopicsMove, Told

LEMMA Counting ==
    ASSUME Queues, NEW kind, CanFault(kind), faults' = faults + 1
    PROVE  faults' \in 0..MaxFaults
  BY EnrolmentAssumption DEF Queues, CanFault

LEMMA Publishing ==
    ASSUME NEW topics, DOMAIN topics = Topic, NEW t \in Topic, NEW m
    PROVE  /\ DOMAIN Publish(topics, t, m) = Topic
           /\ t # "conclude" => Publish(topics, t, m)["conclude"] = topics["conclude"]
           /\ Publish(topics, t, m)["conclude"] \in
                {topics["conclude"], Append(topics["conclude"], m)}
<1>1. "conclude" \in Topic
  BY DEF Topic
<1> QED BY <1>1 DEF Publish

LEMMA Taking ==
    ASSUME Queues, NEW t \in Topic, NEW m
    PROVE  DOMAIN Without(t, m) = Topic /\ Told(Without(t, m)["conclude"])
<1>1. "conclude" \in Topic
  BY DEF Topic
<1> QED BY <1>1 DEF Queues, Without, Told

\* The slot a step is about, and the other ones.
Puts(h, next) == /\ job' \in [Slot -> JobType] /\ job'[h] = next
                 /\ \A g \in Slot : g # h => job'[g] = job[g]

LEMMA IdleIsJob == Idle \in JobType
  BY DEF Idle, JobType, Message, Point

LEMMA Setting ==
    ASSUME Jobs, NEW h \in Slot, NEW next \in JobType, job' = [job EXCEPT ![h] = next]
    PROVE  Puts(h, next)
  BY DEF Jobs, Puts

LEMMA Returning ==
    ASSUME Queues, Jobs, NEW h \in Slot, NEW t \in Topic, NEW m, ReturnNil(h, t, m, {})
    PROVE  Puts(h, Idle) /\ TopicsMove
<1>1. Puts(h, Idle)
  BY Setting, IdleIsJob DEF ReturnNil
<1>2. \/ topic' = Without(t, m) /\ UNCHANGED faults
      \/ topic' = topic /\ CanFault("crash") /\ faults' = faults + 1
  BY DEF ReturnNil
<1>3. TopicsMove
  BY <1>2, Taking, Counting DEF TopicsMove, Queues, Told
<1> QED BY <1>1, <1>3

LEMMA Passing ==
    ASSUME Queues, Jobs, NEW h \in Slot, NEW t \in Topic, NEW m, NEW u \in Topic, NEW o,
           u # "conclude", ReturnNil(h, t, m, {<<u, o>>})
    PROVE  Puts(h, Idle) /\ TopicsMove
<1>1. Puts(h, Idle)
  BY Setting, IdleIsJob DEF ReturnNil
<1>2. (CHOOSE x \in {<<u, o>>} : TRUE) = <<u, o>> /\ {<<u, o>>} # {}
  OBVIOUS
<1>3. \/ topic' = Publish(Without(t, m), u, o) /\ UNCHANGED faults
      \/ topic' = Publish(topic, u, o) /\ CanFault("crash") /\ faults' = faults + 1
  BY <1>2 DEF ReturnNil
<1>4. TopicsMove
  BY <1>3, Taking, Counting, Publishing DEF TopicsMove, Queues, Told
<1> QED BY <1>1, <1>4

LEMMA Retrying ==
    ASSUME Queues, Jobs, NEW h \in Slot, Retry(h)
    PROVE  Puts(h, Idle) /\ TopicsMove
  BY Setting, IdleIsJob, TopicsStay DEF Retry

LEMMA Continuing ==
    ASSUME Queues, Jobs, NEW h \in Slot, NEW next \in JobType, Continue(h, next)
    PROVE  Puts(h, next) /\ TopicsMove
  BY Setting, TopicsStay DEF Continue

(* How a step may change the handler in a slot.                             *)

Late(g) == /\ g = "late" /\ "expiry" \in FaultKinds
           /\ \E t \in Topic \cap Slow : job'[g] = job[t]

\* A delivery, and what its handler has read of the stores.
Opens(g) ==
    /\ job'[g].topic = g /\ job'[g].ids = {}
    /\ g \in {"start", "validate", "batch", "cancel"} => job'[g].msg \in Request
    /\ g \in {"analysis", "speculate"} => job'[g].msg \in Batch
    /\ g = "dlq" /\ job'[g].at = "fanOut" => job'[g].msg[2] \in Batch
    /\ g = "validate" => Duplicates(job'[g].msg) = {} /\ UNCHANGED <<request, claims>>
    /\ g = "analysis" => \/ job'[g].at = "announce"
                         \/ /\ job'[g].at = "created" /\ UNCHANGED batch
                            /\ ~EnrolledElsewhere(job'[g].msg)

AnalysisGoes(g) ==
    LET r == batch[job[g].msg].req IN
    \/ job'[g].at \in {"file", "announce"}
    \/ /\ job[g].at \in DependencyStates /\ UNCHANGED batch
       /\ job'[g].at \in {"speculating", "landing", "resolve"}
    \/ /\ job[g].at = "resolve" /\ job'[g].at = "claim" /\ UNCHANGED batch
       /\ <<r, job[g].msg>> \in assoc'
    \/ /\ job[g].at = "claim" /\ job'[g].at = "claimWrite" /\ UNCHANGED <<request, batch>>
       /\ job'[g].ver = request[r].ver /\ request[r].state \notin HaltedRequest
    \/ job[g].at = "claimWrite" /\ job'[g].at = "promote" /\ UNCHANGED batch

Goes(g) == /\ g # "dlq" /\ job[g].topic \notin {"validate", "none"}
           /\ job'[g].topic = job[g].topic /\ job'[g].msg = job[g].msg
           /\ job'[g].ids \subseteq Batch
           /\ job[g].topic = "analysis" => AnalysisGoes(g)

JobMove(g) == \/ job'[g] = job[g] \/ job'[g] = Idle
              \/ Late(g) \/ Opens(g) \/ Goes(g)

JobsMove == job' \in [Slot -> JobType] /\ \A g \in Slot : JobMove(g)

LEMMA OneSlot ==
    ASSUME NEW h, NEW next, Puts(h, next), next = Idle \/ JobMove(h)
    PROVE  JobsMove
  BY DEF Puts, JobsMove, JobMove

LEMMA NoSlot ==
    ASSUME Jobs, UNCHANGED job
    PROVE  JobsMove
  BY DEF Jobs, JobsMove, JobMove

(* How a step may change the rest.                                          *)

\* A claim ends the handler that makes it.
ClaimsMove ==
    \/ UNCHANGED claims
    \/ \E h \in Slot : /\ job[h].topic = "validate" /\ job[h].at = "claim"
                       /\ claims' = claims \cup {job[h].msg}
                       /\ job'[h] = Idle /\ UNCHANGED request

RowsMove == RequestsMove /\ BatchesMove /\ Sets' /\ assoc \subseteq assoc'

StepMove == RowsMove /\ ClaimsMove /\ TopicsMove /\ JobsMove

LEMMA Widening ==
    ASSUME Batches, BatchesMove
    PROVE  Batch \subseteq Batch'
  BY DEF BatchesMove, Batches, Batch

LEMMA RowsStay ==
    ASSUME Types, UNCHANGED <<rows, announced>>
    PROVE  RowsMove /\ ClaimsMove
<1>1. RequestsMove /\ BatchesMove
  BY Untouched, BatchesStay DEF rows, Types
<1>2. Batch' = Batch
  BY DEF rows, Batch
<1> QED BY <1>1, <1>2 DEF rows, RowsMove, ClaimsMove, Types, Sets

LEMMA RequestMoves ==
    ASSUME Types, RequestsMove, UNCHANGED <<batch, assoc, records, index, claims, announced>>
    PROVE  RowsMove /\ ClaimsMove
<1>1. BatchesMove
  BY BatchesStay DEF Types
<1>2. Batch' = Batch
  BY DEF Batch
<1> QED BY <1>1, <1>2 DEF RowsMove, ClaimsMove, Types, Sets

LEMMA BatchMoves ==
    ASSUME Types, BatchesMove, UNCHANGED <<request, assoc, records, index, claims, announced>>
    PROVE  RowsMove /\ ClaimsMove
<1>1. RequestsMove /\ Batch \subseteq Batch'
  BY Untouched, Widening DEF Types
<1> QED BY <1>1 DEF RowsMove, ClaimsMove, Types, Sets

LEMMA SetMoves ==
    ASSUME Types, UNCHANGED <<request, batch>>, claims' = claims, assoc \subseteq assoc',
           assoc' \subseteq Request \X Batch, records' \subseteq BatchState \X Batch,
           index' \subseteq Batch \X Batch, announced' \subseteq Batch
    PROVE  RowsMove /\ ClaimsMove
<1>1. RequestsMove /\ BatchesMove
  BY Untouched, BatchesStay DEF Types
<1>2. Batch' = Batch
  BY DEF Batch
<1> QED BY <1>1, <1>2 DEF RowsMove, ClaimsMove, Types, Sets

(* Every step is such a change. Users and faults first.                     *)

LEMMA UserSteps ==
    ASSUME Types, User
    PROVE  StepMove
<1>1. UNCHANGED <<rows, announced, job, faults>>
  BY DEF User, Land, Cancel
<1>2. \E t \in {"start", "cancel"} : \E r : topic' = Publish(topic, t, r)
  BY DEF User, Land, Cancel
<1>3. TopicsMove
  <2>1. {"start", "cancel"} \subseteq Topic \ {"conclude"}
    BY DEF Topic
  <2> QED BY <1>1, <1>2, <2>1, Publishing DEF Types, Queues, TopicsMove, Told
<1> QED BY <1>1, <1>3, RowsStay, NoSlot DEF StepMove, Types

LEMMA FaultSteps ==
    ASSUME Types, NEW t \in Topic, Crash(t) \/ Expire(t) \/ GiveUp(t)
    PROVE  StepMove
<1>1. RowsMove /\ ClaimsMove
  BY RowsStay DEF Crash, Expire, GiveUp
<1>2. t \in Slot /\ "late" \in Slot /\ t # "late" /\ "dlq" \in Topic /\ "conclude" \in Topic
  BY DEF Slot, Topic
<1>3. CASE Crash(t)
  <2>1. TopicsMove
    BY <1>3, Counting DEF Crash, Types, Queues, TopicsMove, Told
  <2>2. Puts(t, Idle)
    BY <1>3, <1>2, Setting, IdleIsJob DEF Crash, Types
  <2> QED BY <1>1, <2>1, <2>2, OneSlot DEF StepMove
<1>4. CASE Expire(t)
  <2>1. TopicsMove
    BY <1>4, Counting DEF Expire, Types, Queues, TopicsMove, Told
  <2>2. /\ job' \in [Slot -> JobType] /\ job'["late"] = job[t] /\ job'[t] = Idle
        /\ \A g \in Slot \ {"late", t} : job'[g] = job[g]
    BY <1>4, <1>2, IdleIsJob DEF Expire, Types, Jobs
  <2>3. JobMove("late") /\ JobMove(t)
    BY <1>4, <2>2 DEF Expire, CanFault, JobMove, Late
  <2> QED BY <1>1, <2>1, <2>2, <2>3 DEF StepMove, JobsMove, JobMove
<1>5. CASE GiveUp(t)
  <2>1. /\ topic[t] # <<>> /\ CanFault("deadletter") /\ faults' = faults + 1
        /\ DOMAIN topic' = Topic
        /\ t = "conclude" => topic'["conclude"] = Tail(topic["conclude"])
        /\ t # "conclude" => topic'["conclude"] = topic["conclude"]
    BY <1>5, <1>2 DEF GiveUp, Types, Queues
  <2>2. TopicsMove
    BY <2>1, Counting DEF Types, TopicsMove, Told
  <2>3. Puts(t, Idle)
    BY <1>5, <1>2, Setting, IdleIsJob DEF GiveUp, Types
  <2> QED BY <1>1, <2>2, <2>3, OneSlot DEF StepMove
<1> QED BY <1>3, <1>4, <1>5

(* A delivery opens a handler in its topic's slot.                          *)

LEMMA Openings ==
    ASSUME NEW t \in Topic \cup {"speculate"}, NEW m \in Message, NEW pc \in Point
    PROVE  /\ Opened(t, m, pc) \in JobType /\ Opened(t, m, pc).topic = t
           /\ Opened(t, m, pc).msg = m /\ Opened(t, m, pc).at = pc
           /\ Opened(t, m, pc).ids = {}
  BY DEF Opened, JobType

LEMMA IntakeDeliveries ==
    ASSUME Types, NEW r \in Request,
           StartCreate(r) \/ ValidateRead(r) \/ RunwayCheck(r) \/ BatchRead(r)
    PROVE  StepMove
<1>1. {"start", "validate", "check", "signal", "batch"} \subseteq Topic \cap Slot
      /\ r \in Message /\ {"publish", "claim", "mint"} \subseteq Point
  BY DEF Topic, Slot, Message, Point
<1>2. CASE StartCreate(r)
  <2> DEFINE next == Opened("start", r, "publish")
  <2>1. next \in JobType /\ next.topic = "start" /\ next.msg = r /\ next.ids = {}
    BY <1>1, Openings
  <2>2. Continue("start", next)
    BY <1>2 DEF StartCreate
  <2> HIDE DEF next
  <2>3. Puts("start", next) /\ TopicsMove
    BY <1>1, <2>1, <2>2, Continuing DEF Types
  <2>4. JobMove("start")
    BY <2>1, <2>3 DEF Puts, JobMove, Opens
  <2>5. RequestsMove
    BY <1>2, Creating DEF StartCreate, Types
  <2> QED BY <1>2, <2>3, <2>4, <2>5, OneSlot, RequestMoves DEF StartCreate, StepMove
<1>3. CASE ValidateRead(r)
  <2>1. \/ UNCHANGED request
        \/ request' = Terminated(r, "error")
    BY <1>3 DEF ValidateRead
  <2>2. RequestsMove
    BY <2>1, Untouched, Terminating DEF Types, TerminalRequest
  <2>3. RowsMove /\ ClaimsMove
    BY <1>3, <2>2, RequestMoves DEF ValidateRead
  <2> DEFINE next == Opened("validate", r, "claim")
  <2>4. next \in JobType /\ next.topic = "validate" /\ next.msg = r /\ next.ids = {}
    BY <1>1, Openings
  <2>5. \/ ReturnNil("validate", "validate", r, {})
        \/ Continue("validate", next) /\ Duplicates(r) = {} /\ UNCHANGED <<request, claims>>
    BY <1>3 DEF ValidateRead
  <2> HIDE DEF next
  <2>6. CASE ReturnNil("validate", "validate", r, {})
    BY <1>1, <2>3, <2>6, Returning, OneSlot DEF StepMove, Types
  <2>7. CASE Continue("validate", next) /\ Duplicates(r) = {} /\ UNCHANGED <<request, claims>>
    <3>1. Puts("validate", next) /\ TopicsMove
      BY <1>1, <2>4, <2>7, Continuing DEF Types
    <3>2. JobMove("validate")
      BY <2>4, <2>7, <3>1 DEF Puts, JobMove, Opens
    <3> QED BY <2>3, <3>1, <3>2, OneSlot DEF StepMove
  <2> QED BY <2>5, <2>6, <2>7
<1>4. CASE RunwayCheck(r)
  <2>1. PICK landable \in BOOLEAN :
            ReturnNil("check", "check", r, {<<"signal", <<r, landable, "live">>>>})
    BY <1>4 DEF RunwayCheck
  <2>2. Puts("check", Idle) /\ TopicsMove
    BY <1>1, <2>1, Passing DEF Types
  <2> QED BY <1>4, <2>2, OneSlot, RowsStay DEF RunwayCheck, StepMove
<1>5. CASE BatchRead(r)
  <2> DEFINE next == Opened("batch", r, "mint")
  <2>1. next \in JobType /\ next.topic = "batch" /\ next.msg = r /\ next.ids = {}
    BY <1>1, Openings
  <2>2. ReturnNil("batch", "batch", r, {}) \/ Continue("batch", next)
    BY <1>5 DEF BatchRead
  <2> HIDE DEF next
  <2>3. CASE ReturnNil("batch", "batch", r, {})
    BY <1>1, <1>5, <2>3, Returning, OneSlot, RowsStay DEF StepMove, Types, BatchRead
  <2>4. CASE Continue("batch", next)
    <3>1. Puts("batch", next) /\ TopicsMove
      BY <1>1, <2>1, <2>4, Continuing DEF Types
    <3>2. JobMove("batch")
      BY <2>1, <3>1 DEF Puts, JobMove, Opens
    <3> QED BY <1>5, <3>1, <3>2, OneSlot, RowsStay DEF BatchRead, StepMove
  <2> QED BY <2>2, <2>3, <2>4
<1> QED BY <1>2, <1>3, <1>4, <1>5

LEMMA SignalDelivery ==
    ASSUME Types, NEW r \in Request, SignalRead(r)
    PROVE  StepMove
<1>1. "signal" \in Topic \cap Slot /\ "publish" \in Point
  BY DEF Topic, Slot, Point
<1>2. PICK landable \in BOOLEAN, origin \in {"live", "dlq"} :
        LET m == <<r, landable, origin>>
            halted == request[r].state \in HaltedRequest
        IN \/ halted /\ ReturnNil("signal", "signal", m, {}) /\ UNCHANGED request
           \/ /\ ~halted /\ request' = RequestUpdated(r, "error")
              /\ ReturnNil("signal", "signal", m, {})
           \/ /\ ~halted /\ request' = RequestUpdated(r, "validated")
              /\ Continue("signal", Opened("signal", m, "publish"))
  BY DEF SignalRead
<1> DEFINE m == <<r, landable, origin>>
           next == Opened("signal", m, "publish")
<1>3. m \in Message
  BY DEF Message
<1>4. next \in JobType /\ next.topic = "signal" /\ next.ids = {}
  BY <1>1, <1>3, Openings
<1>5. \/ UNCHANGED request
      \/ request[r].state \notin HaltedRequest /\ request' = RequestUpdated(r, "error")
      \/ request[r].state \notin HaltedRequest /\ request' = RequestUpdated(r, "validated")
  BY <1>2
<1>6. RequestsMove
  <2>1. {"error", "validated"} \subseteq RequestState \ {"none"} /\ TerminalRequest \subseteq HaltedRequest
    BY DEF RequestState, HaltedRequest, TerminalRequest
  <2> QED BY <1>5, <2>1, Untouched, Updating DEF Types
<1>7. RowsMove /\ ClaimsMove
  BY <1>6, RequestMoves DEF SignalRead
<1>8. ReturnNil("signal", "signal", m, {}) \/ Continue("signal", next)
  BY <1>2
<1> HIDE DEF next, m
<1>9. CASE ReturnNil("signal", "signal", m, {})
  BY <1>1, <1>7, <1>9, Returning, OneSlot DEF StepMove, Types
<1>10. CASE Continue("signal", next)
  <2>1. Puts("signal", next) /\ TopicsMove
    BY <1>1, <1>4, <1>10, Continuing DEF Types
  <2>2. JobMove("signal")
    BY <1>4, <2>1 DEF Puts, JobMove, Opens
  <2> QED BY <1>7, <2>1, <2>2, OneSlot DEF StepMove
<1> QED BY <1>8, <1>9, <1>10

LEMMA CancelDelivery ==
    ASSUME Types, NEW r \in Request, CancelMark(r)
    PROVE  StepMove
<1>1. {"cancel", "dlq", "conclude"} \subseteq Topic \cap Slot /\ "find" \in Point /\ r \in Message
  BY DEF Topic, Slot, Point, Message
<1> DEFINE next == Opened("cancel", r, "find")
           none == request[r].state = "none"
           over == request[r].state \in TerminalRequest
<1>2. next \in JobType /\ next.topic = "cancel" /\ next.msg = r /\ next.ids = {}
  BY <1>1, Openings
<1>3. \/ /\ topic' = [topic EXCEPT !["cancel"] = Tail(@), !["dlq"] = Append(@, <<"cancel", r>>)]
         /\ UNCHANGED <<request, job, sent, faults>>
      \/ over /\ ReturnNil("cancel", "cancel", r, {}) /\ UNCHANGED request
      \/ /\ ~none /\ ~over
         /\ request' = IF request[r].state = "cancelling" THEN request
                       ELSE RequestUpdated(r, "cancelling")
         /\ Continue("cancel", next)
  BY DEF CancelMark
<1>4. RequestsMove
  <2>1. "cancelling" \in RequestState \ {"none"}
    BY DEF RequestState, HaltedRequest
  <2> QED BY <1>3, <2>1, Untouched, Updating DEF Types
<1>5. RowsMove /\ ClaimsMove
  BY <1>4, RequestMoves DEF CancelMark
<1> HIDE DEF next, none, over
<1>6. CASE /\ topic' = [topic EXCEPT !["cancel"] = Tail(@), !["dlq"] = Append(@, <<"cancel", r>>)]
           /\ UNCHANGED <<request, job, sent, faults>>
  <2>1. DOMAIN topic' = Topic /\ topic'["conclude"] = topic["conclude"]
    BY <1>1, <1>6 DEF Types, Queues
  <2>2. TopicsMove
    BY <1>6, <2>1 DEF Types, Queues, TopicsMove, Told
  <2> QED BY <1>5, <1>6, <2>2, NoSlot DEF StepMove, Types
<1>7. CASE ReturnNil("cancel", "cancel", r, {})
  BY <1>1, <1>5, <1>7, Returning, OneSlot DEF StepMove, Types
<1>8. CASE Continue("cancel", next)
  <2>1. Puts("cancel", next) /\ TopicsMove
    BY <1>1, <1>2, <1>8, Continuing DEF Types
  <2>2. JobMove("cancel")
    BY <1>2, <2>1 DEF Puts, JobMove, Opens
  <2> QED BY <1>5, <2>1, <2>2, OneSlot DEF StepMove
<1> QED BY <1>3, <1>6, <1>7, <1>8

LEMMA AnalysisDelivery ==
    ASSUME Types, NEW b \in Batch, AnalysisRead(b)
    PROVE  StepMove
<1>1. "analysis" \in Topic \cap Slot /\ {"announce", "created"} \subseteq Point /\ b \in Message
  BY BatchKeys DEF Types, Topic, Slot, Point, Message
<1>2. \/ /\ records' = RecordPut("created", b)
         /\ Continue("analysis", Opened("analysis", b, "announce"))
      \/ /\ ~EnrolledElsewhere(b) /\ UNCHANGED records
         /\ Continue("analysis", Opened("analysis", b, "created"))
      \/ ReturnNil("analysis", "analysis", b, {}) /\ UNCHANGED records
  BY DEF AnalysisRead
<1>3. RowsMove /\ ClaimsMove
  <2>1. records' \subseteq BatchState \X Batch
    BY <1>2 DEF RecordPut, Types, Sets, BatchState, DependencyStates
  <2> QED BY <2>1, SetMoves DEF AnalysisRead, Types, Sets
<1>4. ASSUME NEW pc \in {"announce", "created"}, Continue("analysis", Opened("analysis", b, pc)),
             pc = "created" => ~EnrolledElsewhere(b)
      PROVE  StepMove
  <2> DEFINE next == Opened("analysis", b, pc)
  <2>1. next \in JobType /\ next.topic = "analysis" /\ next.msg = b /\ next.ids = {} /\ next.at = pc
    BY <1>1, Openings
  <2>2. Continue("analysis", next)
    BY <1>4
  <2> HIDE DEF next
  <2>3. Puts("analysis", next) /\ TopicsMove
    BY <1>1, <2>1, <2>2, Continuing DEF Types
  <2>4. JobMove("analysis")
    BY <1>4, <2>1, <2>3 DEF Puts, JobMove, Opens, AnalysisRead
  <2> QED BY <1>3, <2>3, <2>4, OneSlot DEF StepMove
<1>5. CASE ReturnNil("analysis", "analysis", b, {})
  BY <1>1, <1>3, <1>5, Returning, OneSlot DEF StepMove, Types
<1> QED BY <1>2, <1>4, <1>5

\* Conclude is told of a batch that is over.
ToldWhenOver == \A i \in 1..Len(topic["conclude"]) :
    batch[topic["conclude"][i]].state \in TerminalBatch

LEMMA ConcludeDelivery ==
    ASSUME Types, ToldWhenOver, NEW b \in Batch, Conclude(b)
    PROVE  StepMove
<1>1. "conclude" \in Topic \cap Slot
  BY DEF Topic, Slot
<1>2. batch[b].state \in TerminalBatch
  <2>1. topic["conclude"] # <<>> /\ b = Head(topic["conclude"])
    BY DEF Conclude, Delivered
  <2>2. topic["conclude"] \in Seq(Batch)
    BY DEF Types, Queues
  <2>3. 1 \in 1..Len(topic["conclude"]) /\ b = topic["conclude"][1]
    BY <2>1, <2>2
  <2> QED BY <2>3 DEF ToldWhenOver
<1>3. RequestOutcome[batch[b].state] \in TerminalRequest
  BY <1>2 DEF RequestOutcome, TerminalBatch, TerminalRequest
<1>4. request' = Terminated(batch[b].req, RequestOutcome[batch[b].state])
  BY DEF Conclude
<1>5. RequestsMove
  BY <1>3, <1>4, Terminating DEF Types
<1>6. RowsMove /\ ClaimsMove
  BY <1>5, RequestMoves DEF Conclude
<1>7. ReturnNil("conclude", "conclude", b, {})
  BY DEF Conclude
<1> QED BY <1>1, <1>6, <1>7, Returning, OneSlot DEF StepMove, Types

LEMMA SpeculateDelivery ==
    ASSUME Types, NEW b \in Batch, Speculate(b)
    PROVE  StepMove
<1>1. "speculate" \in Slot /\ "put" \in Point /\ b \in Message /\ batch[b] \in BatchRow(Len(batch))
  BY BatchKeys DEF Types, Slot, Point, Message
<1>2. batch[b].state \in Live /\ batch[b].state \in BatchState /\ batch[b].deps \subseteq Batch
  BY <1>1, BatchKeys DEF Speculate, BatchRow, Types
<1>3. PICK s \in Moves[batch[b].state] :
        /\ batch' = BatchUpdated(b, s, batch[b].deps)
        /\ Continue("speculate", [Opened("speculate", b, "put") EXCEPT !.was = batch[b].state])
  BY DEF Speculate
<1>4. s \in BatchState
  BY <1>2 DEF Moves, Live, DependencyStates, BatchState, HaltedBatch, TerminalBatch
<1>5. BatchesMove
  BY <1>2, <1>3, <1>4, BatchUpdating DEF Types
<1> DEFINE was  == batch[b].state
           base == Opened("speculate", b, "put")
           next == [base EXCEPT !.was = was]
<1>6. base \in JobType /\ base.topic = "speculate" /\ base.msg = b /\ base.ids = {}
  BY <1>1 DEF Opened, JobType
<1>7. was \in BatchState \cup {"none"}
  BY <1>2
<1>8. Continue("speculate", next)
  BY <1>3
<1> HIDE DEF base, was
<1>9. next \in JobType /\ next.topic = "speculate" /\ next.msg = b /\ next.ids = {}
  BY <1>6, <1>7 DEF JobType
<1> HIDE DEF next
<1>10. Puts("speculate", next) /\ TopicsMove
  BY <1>1, <1>8, <1>9, Continuing DEF Types
<1>11. JobMove("speculate")
  BY <1>9, <1>10 DEF Puts, JobMove, Opens
<1> QED BY <1>5, <1>10, <1>11, OneSlot, BatchMoves DEF Speculate, StepMove

LEMMA SpeculateSteps ==
    ASSUME Types, SpeculatePut \/ SpeculateDelete
    PROVE  StepMove
<1> DEFINE b == job["speculate"].msg
<1>1. "speculate" \in Slot /\ "conclude" \in Topic
  BY DEF Slot, Topic
<1>2. CASE SpeculatePut
  <2>1. Continue("speculate", [job["speculate"] EXCEPT !.at = "delete"])
        /\ records' = RecordPut(batch[b].state, b)
    BY <1>2 DEF SpeculatePut, GoTo
  <2> DEFINE old  == job["speculate"]
             next == [old EXCEPT !.at = "delete"]
  <2>2. old \in JobType /\ old.ids \subseteq Batch /\ "delete" \in Point
    BY <1>1 DEF Types, Jobs, Holds, Point
  <2>3. Continue("speculate", next)
    BY <2>1
  <2>4. next \in JobType /\ next.topic = old.topic /\ next.msg = old.msg /\ next.ids = old.ids
    <3> HIDE DEF old
    <3> QED BY <2>2 DEF JobType
  <2> HIDE DEF next
  <2>5. Puts("speculate", next) /\ TopicsMove
    BY <1>1, <2>3, <2>4, Continuing DEF Types
  <2>6. old.topic = "speculate" /\ b \in Batch
    <3>1. old.topic \in {"speculate", "none"}
      BY <1>1 DEF Types, Jobs, InSlot
    <3>2. old.at # "idle"
      BY <1>2 DEF SpeculatePut
    <3> QED BY <1>1, <3>1, <3>2 DEF Types, Jobs, Holds
  <2>7. JobMove("speculate")
    BY <2>2, <2>4, <2>5, <2>6 DEF Puts, JobMove, Goes
  <2>8. records' \subseteq BatchState \X Batch
    <3>1. batch[b] \in BatchRow(Len(batch))
      BY <2>6, BatchKeys DEF Types
    <3>2. batch[b].state \in BatchState
      BY <3>1 DEF BatchRow
    <3> QED BY <2>1, <2>6, <3>2 DEF RecordPut, Types, Sets
  <2> QED BY <1>2, <2>5, <2>7, <2>8, OneSlot, SetMoves DEF SpeculatePut, StepMove, Types, Sets
<1>3. CASE SpeculateDelete
  <2>1. b \in Batch
    <3>1. job["speculate"].topic \in {"speculate", "none"} /\ job["speculate"].at # "idle"
      BY <1>1, <1>3 DEF Types, Jobs, InSlot, SpeculateDelete
    <3> QED BY <1>1, <3>1 DEF Types, Jobs, Holds
  <2>2. \/ batch[b].state \in TerminalBatch /\ topic' = Publish(topic, "conclude", b)
        \/ UNCHANGED topic
    BY <1>3 DEF SpeculateDelete
  <2>3. TopicsMove
    BY <1>1, <1>3, <2>1, <2>2, Publishing DEF SpeculateDelete, Types, Queues, TopicsMove, Told
  <2>4. Puts("speculate", Idle)
    BY <1>1, <1>3, Setting, IdleIsJob DEF SpeculateDelete, Types
  <2>5. records' \subseteq BatchState \X Batch
    BY <1>3 DEF SpeculateDelete, Types, Sets
  <2> QED BY <1>3, <2>3, <2>4, <2>5, OneSlot, SetMoves DEF SpeculateDelete, StepMove, Types, Sets
<1> QED BY <1>2, <1>3

(* A handler in flight goes on.                                             *)

\* What is known of a handler at work in a slot.
LEMMA AtWork ==
    ASSUME Types, NEW h \in Topic \cup {"late"}
    PROVE  /\ h \in Slot /\ job[h] \in JobType /\ job[h].ids \subseteq Batch
           /\ job[h].topic \in {"start", "validate", "batch", "cancel"} => job[h].msg \in Request
           /\ job[h].topic = "analysis" => job[h].msg \in Batch
  BY DEF Types, Jobs, Holds, Slot

LEMMA IntakeSteps ==
    ASSUME Types, NEW h \in Topic \cup {"late"},
           \/ StartPublish(h) \/ ValidateClaim(h) \/ ValidateReject(h)
           \/ SignalPublish(h) \/ BatchMint(h) \/ BatchPublish(h)
    PROVE  StepMove
<1>1. {"start", "validate", "check", "signal", "batch", "analysis"} \subseteq Topic \ {"conclude"}
  BY DEF Topic
<1>2. CASE StartPublish(h)
  BY <1>1, <1>2, AtWork, Passing, OneSlot, RowsStay DEF StartPublish, Return, StepMove, Types
<1>3. CASE SignalPublish(h)
  BY <1>1, <1>3, AtWork, Passing, OneSlot, RowsStay DEF SignalPublish, Return, StepMove, Types
<1>4. CASE BatchPublish(h)
  BY <1>1, <1>4, AtWork, Passing, OneSlot, RowsStay DEF BatchPublish, Return, StepMove, Types
<1>5. CASE ValidateReject(h)
  <2>1. RequestsMove
    BY <1>5, Terminating DEF ValidateReject, Types, TerminalRequest
  <2>2. Puts(h, Idle) /\ TopicsMove
    BY <1>1, <1>5, AtWork, Returning DEF ValidateReject, Return, Types
  <2> QED BY <1>5, <2>1, <2>2, OneSlot, RequestMoves DEF ValidateReject, StepMove
<1>6. CASE ValidateClaim(h)
  <2>1. Puts(h, Idle) /\ TopicsMove
    BY <1>1, <1>6, AtWork, Passing DEF ValidateClaim, Return, Types
  <2>2. RequestsMove /\ BatchesMove /\ Batch' = Batch
    BY <1>6, Untouched, BatchesStay DEF ValidateClaim, Types, Batch
  <2>3. claims' = claims \cup {job[h].msg} /\ job[h].msg \in Request
    BY <1>6, AtWork DEF ValidateClaim, ChangeClaimed
  <2>4. RowsMove
    BY <1>6, <2>2, <2>3 DEF ValidateClaim, RowsMove, Types, Sets
  <2>5. ClaimsMove
    BY <1>6, <2>1, <2>3, AtWork DEF ValidateClaim, ClaimsMove, Puts
  <2> QED BY <2>1, <2>4, <2>5, OneSlot DEF StepMove
<1>7. CASE BatchMint(h)
  <2>1. BatchesMove /\ Len(batch') = Len(batch) + 1
    BY <1>7, AtWork, BatchAdding DEF BatchMint, Types
  <2> DEFINE n    == Len(batch) + 1
             old  == job[h]
             next == [old EXCEPT !.at = "publish", !.ver = n]
  <2>2. n \in Nat /\ old \in JobType /\ "publish" \in Point /\ old.topic = "batch"
    BY <1>7, AtWork, BatchKeys DEF Types, Point, BatchMint
  <2>3. Continue(h, next)
    BY <1>7 DEF BatchMint
  <2>4. next \in JobType /\ next.topic = old.topic /\ next.msg = old.msg /\ next.ids = old.ids
    <3> HIDE DEF old, n
    <3> QED BY <2>2 DEF JobType
  <2> HIDE DEF next, n
  <2>5. Puts(h, next) /\ TopicsMove
    BY <2>3, <2>4, AtWork, Continuing DEF Types
  <2>6. h # "dlq"
    BY <2>2, AtWork DEF Types, Jobs, InSlot
  <2>7. JobMove(h)
    BY <2>2, <2>4, <2>5, <2>6, AtWork DEF Puts, JobMove, Goes
  <2> QED BY <1>7, <2>1, <2>5, <2>7, OneSlot, BatchMoves DEF BatchMint, StepMove
<1> QED BY <1>2, <1>3, <1>4, <1>5, <1>6, <1>7

LEMMA GoingOn ==
    ASSUME Types, NEW h \in Topic \cup {"late"}, NEW next \in JobType, Continue(h, next),
           next.topic = job[h].topic, next.msg = job[h].msg, next.ids \subseteq Batch,
           job[h].topic \in {"batch", "analysis", "cancel"},
           job[h].topic = "analysis" /\ job'[h] = next => AnalysisGoes(h)
    PROVE  JobsMove /\ TopicsMove
<1>1. Puts(h, next) /\ TopicsMove
  BY AtWork, Continuing DEF Types
<1>2. h # "dlq"
  BY AtWork DEF Types, Jobs, InSlot
<1>3. JobMove(h)
  BY <1>1, <1>2 DEF Puts, JobMove, Goes
<1> QED BY <1>1, <1>3, OneSlot

LEMMA AnalysisReads ==
    ASSUME Types, NEW h \in Topic \cup {"late"}, AnalysisScan(h) \/ AnalysisResolve(h)
    PROVE  StepMove
<1> DEFINE old == job[h]
           b   == old.msg
<1>1. /\ old \in JobType /\ old.ids \subseteq Batch /\ old.topic = "analysis" /\ b \in Batch
      /\ Batch \subseteq Nat
  BY AtWork, BatchKeys DEF AnalysisScan, AnalysisResolve, Types
<1>2. batch[b].req \in Request
  BY <1>1, BatchKeys DEF Types, BatchRow
<1>3. CASE AnalysisScan(h)
  <2> DEFINE pc  == NextBucket[old.at]
             ids == old.ids \cup RecordsIn(old.at)
             next == [old EXCEPT !.at = pc, !.ids = ids]
  <2>1. old.at \in DependencyStates
    BY <1>3 DEF AnalysisScan
  <2>2. pc \in {"speculating", "landing", "resolve"}
    BY <2>1 DEF NextBucket, DependencyStates
  <2>3. ids \subseteq Batch
    BY <1>1 DEF RecordsIn
  <2>4. Continue(h, next)
    BY <1>3 DEF AnalysisScan
  <2>5. /\ next \in JobType /\ next.topic = old.topic /\ next.msg = old.msg
        /\ next.at = pc /\ next.ids = ids
    <3>1. pc \in Point /\ ids \in SUBSET Nat
      BY <1>1, <2>2, <2>3 DEF Point
    <3> HIDE DEF old, pc, ids
    <3> QED BY <1>1, <3>1 DEF JobType
  <2> HIDE DEF next
  <2>6. job'[h] = next => AnalysisGoes(h)
    BY <1>3, <2>1, <2>2, <2>5 DEF AnalysisGoes, AnalysisScan, rows
  <2> QED BY <1>1, <1>3, <2>3, <2>4, <2>5, <2>6, GoingOn, RowsStay DEF AnalysisScan, StepMove
<1>4. CASE AnalysisResolve(h)
  <2> DEFINE deps == Conflicts(b, Hydrated(old.ids))
             next == [old EXCEPT !.at = "claim", !.ids = deps]
  <2>1. deps \subseteq Batch
    BY <1>1 DEF Conflicts, Hydrated
  <2>2. /\ index' = DependentsUpdated(deps, b) /\ assoc' = Associated(batch[b].req, b)
        /\ Continue(h, next) /\ UNCHANGED <<request, batch, records, claims, announced>>
        /\ old.at = "resolve"
    BY <1>4 DEF AnalysisResolve
  <2> HIDE DEF deps
  <2>3. /\ next \in JobType /\ next.topic = old.topic /\ next.msg = old.msg
        /\ next.at = "claim" /\ next.ids = deps
    <3>1. "claim" \in Point /\ deps \in SUBSET Nat
      BY <1>1, <2>1 DEF Point
    <3> HIDE DEF old
    <3> QED BY <1>1, <3>1 DEF JobType
  <2> HIDE DEF next
  <2>4. job'[h] = next => AnalysisGoes(h)
    BY <2>2, <2>3 DEF AnalysisGoes, Associated
  <2>5. JobsMove /\ TopicsMove
    BY <1>1, <2>1, <2>2, <2>3, <2>4, GoingOn
  <2>6. index' \subseteq Batch \X Batch
    <3>1. deps \X {b} \subseteq Batch \X Batch
      BY <1>1, <2>1
    <3> QED BY <2>2, <3>1 DEF DependentsUpdated, Types, Sets
  <2>7. assoc' \subseteq Request \X Batch /\ assoc \subseteq assoc'
    BY <1>1, <1>2, <2>2 DEF Associated, Types, Sets
  <2> QED BY <2>2, <2>5, <2>6, <2>7, SetMoves DEF StepMove, Types, Sets
<1> QED BY <1>3, <1>4

\* A claim that is about to be written rests on a request still in progress,
\* unless the request has moved on and the version tells.
ClaimIsFresh == \A h \in Slot :
    job[h].topic = "analysis" /\ job[h].at = "claimWrite" =>
      LET now == request[batch[job[h].msg].req] IN
        /\ job[h].ver =< now.ver
        /\ job[h].ver = now.ver => now.state \notin HaltedRequest

LEMMA AnalysisClaims ==
    ASSUME Types, ClaimIsFresh, NEW h \in Topic \cup {"late"},
           AnalysisClaimRead(h) \/ AnalysisClaimWrite(h)
    PROVE  StepMove
<1> DEFINE old == job[h]
           b   == old.msg
           r   == batch[b].req
<1>1. /\ old \in JobType /\ old.ids \subseteq Batch /\ old.topic = "analysis" /\ b \in Batch
      /\ "analysis" \in Topic /\ h \in Slot
  BY AtWork DEF AnalysisClaimRead, AnalysisClaimWrite, Topic
<1>2. r \in Request
  BY <1>1, BatchKeys DEF Types, BatchRow
<1>3. request[r].ver \in Nat
  BY <1>2 DEF Types, Requests, RequestRow
<1>4. CASE AnalysisClaimRead(h)
  <2> DEFINE n    == request[r].ver
             next == [old EXCEPT !.at = "claimWrite", !.ver = n]
  <2>1. \/ Return(h, {})
        \/ request[r].state \notin HaltedRequest /\ Continue(h, next)
    BY <1>4 DEF AnalysisClaimRead
  <2>2. UNCHANGED <<rows, announced>> /\ old.at = "claim"
    BY <1>4 DEF AnalysisClaimRead
  <2>3. CASE Return(h, {})
    BY <1>1, <2>2, <2>3, Returning, OneSlot, RowsStay DEF Return, StepMove, Types
  <2>4. CASE request[r].state \notin HaltedRequest /\ Continue(h, next)
    <3>1. /\ next \in JobType /\ next.topic = old.topic /\ next.msg = old.msg
          /\ next.at = "claimWrite" /\ next.ids = old.ids /\ next.ver = n
      <4>1. "claimWrite" \in Point /\ n \in Nat
        BY <1>3 DEF Point
      <4> HIDE DEF old, n
      <4> QED BY <1>1, <4>1 DEF JobType
    <3> HIDE DEF next
    <3>2. job'[h] = next => AnalysisGoes(h)
      BY <2>2, <2>4, <3>1 DEF AnalysisGoes, rows
    <3>3. JobsMove /\ TopicsMove
      BY <1>1, <2>4, <3>1, <3>2, GoingOn
    <3> QED BY <2>2, <3>3, RowsStay DEF StepMove
  <2> QED BY <2>1, <2>3, <2>4
<1>5. CASE AnalysisClaimWrite(h)
  <2> DEFINE next == [old EXCEPT !.at = "promote"]
  <2>1. /\ UNCHANGED <<batch, assoc, records, index, claims, announced>> /\ old.at = "claimWrite"
        /\ \/ /\ request[r].ver = old.ver /\ request' = RequestUpdated(r, "batched")
              /\ Continue(h, next)
           \/ Return(h, {}) /\ UNCHANGED request
    BY <1>5 DEF AnalysisClaimWrite, GoTo
  <2>2. CASE Return(h, {}) /\ UNCHANGED request
    <3>1. RequestsMove
      BY <2>2, Untouched DEF Types
    <3> QED BY <1>1, <2>1, <2>2, <3>1, Returning, OneSlot, RequestMoves DEF Return, StepMove, Types
  <2>3. CASE request[r].ver = old.ver /\ request' = RequestUpdated(r, "batched") /\ Continue(h, next)
    <3>1. request[r].state \notin HaltedRequest
      BY <1>1, <2>1, <2>3 DEF ClaimIsFresh
    <3>2. "batched" \in RequestState \ {"none"} /\ TerminalRequest \subseteq HaltedRequest
      BY DEF RequestState, HaltedRequest, TerminalRequest
    <3>3. RequestsMove
      BY <1>2, <2>3, <3>1, <3>2, Updating DEF Types
    <3>4. /\ next \in JobType /\ next.topic = old.topic /\ next.msg = old.msg
          /\ next.at = "promote" /\ next.ids = old.ids
      <4>1. "promote" \in Point
        BY DEF Point
      <4> HIDE DEF old
      <4> QED BY <1>1, <4>1 DEF JobType
    <3> HIDE DEF next
    <3>5. job'[h] = next => AnalysisGoes(h)
      BY <2>1, <3>4 DEF AnalysisGoes
    <3>6. JobsMove /\ TopicsMove
      BY <1>1, <2>3, <3>4, <3>5, GoingOn
    <3> QED BY <2>1, <3>3, <3>6, RequestMoves DEF StepMove
  <2> QED BY <2>1, <2>2, <2>3
<1> QED BY <1>4, <1>5

LEMMA AnalysisEnds ==
    ASSUME Types, NEW h \in Topic \cup {"late"},
           AnalysisPromote(h) \/ AnalysisFile(h) \/ AnalysisAnnounce(h)
    PROVE  StepMove
<1> DEFINE old == job[h]
           b   == old.msg
<1>1. /\ old \in JobType /\ old.ids \subseteq Batch /\ old.topic = "analysis" /\ b \in Batch
      /\ "analysis" \in Topic /\ h \in Slot
  BY AtWork DEF AnalysisPromote, AnalysisFile, AnalysisAnnounce, Topic
<1>2. ASSUME NEW pc \in {"file", "announce"}, GoTo(h, pc)
      PROVE  JobsMove /\ TopicsMove
  <2> DEFINE next == [old EXCEPT !.at = pc]
  <2>1. /\ next \in JobType /\ next.topic = old.topic /\ next.msg = old.msg
        /\ next.at = pc /\ next.ids = old.ids
    <3>1. pc \in Point
      BY DEF Point
    <3> HIDE DEF old
    <3> QED BY <1>1, <3>1 DEF JobType
  <2>2. Continue(h, next)
    BY <1>2 DEF GoTo
  <2> HIDE DEF next
  <2>3. job'[h] = next => AnalysisGoes(h)
    BY <2>1 DEF AnalysisGoes
  <2> QED BY <1>1, <2>1, <2>2, <2>3, GoingOn
<1>3. CASE AnalysisPromote(h)
  <2>1. /\ UNCHANGED <<request, assoc, records, index, claims, announced>>
        /\ \/ /\ batch[b].state = "creating" /\ batch' = BatchUpdated(b, "created", old.ids)
              /\ GoTo(h, "file")
           \/ Retry(h) /\ UNCHANGED batch
    BY <1>3 DEF AnalysisPromote
  <2>2. CASE Retry(h) /\ UNCHANGED batch
    BY <1>1, <2>1, <2>2, Retrying, BatchesStay, BatchMoves, OneSlot DEF StepMove, Types
  <2>3. CASE batch[b].state = "creating" /\ batch' = BatchUpdated(b, "created", old.ids) /\ GoTo(h, "file")
    <3>1. Promotes(b)
      BY <1>3, <2>3 DEF Promotes, AnalysisPromote
    <3>2. "created" \in BatchState
      BY DEF BatchState, DependencyStates
    <3>3. BatchesMove
      BY <1>1, <2>3, <3>1, <3>2, BatchUpdating DEF Types
    <3> QED BY <1>2, <2>1, <2>3, <3>3, BatchMoves DEF StepMove
  <2> QED BY <2>1, <2>2, <2>3
<1>4. CASE AnalysisFile(h)
  <2>1. /\ UNCHANGED <<request, batch, assoc, index, claims, announced>> /\ GoTo(h, "announce")
        /\ records' = RecordPut("created", b)
    BY <1>4 DEF AnalysisFile
  <2>2. records' \subseteq BatchState \X Batch
    BY <1>1, <2>1 DEF RecordPut, Types, Sets, BatchState, DependencyStates
  <2> QED BY <1>2, <2>1, <2>2, SetMoves DEF StepMove, Types, Sets
<1>5. CASE AnalysisAnnounce(h)
  <2>1. UNCHANGED rows /\ Return(h, {}) /\ announced' = announced \cup {b}
    BY <1>5 DEF AnalysisAnnounce
  <2>2. RowsMove /\ ClaimsMove
    <3>1. announced' \subseteq Batch
      BY <1>1, <2>1 DEF Types, Sets
    <3> QED BY <2>1, <3>1, SetMoves DEF rows, Types, Sets
  <2> QED BY <1>1, <2>1, <2>2, Returning, OneSlot DEF Return, StepMove, Types
<1> QED BY <1>3, <1>4, <1>5

LEMMA CancelSteps ==
    ASSUME Types, NEW h \in Topic \cup {"late"}, CancelStage(h)
    PROVE  StepMove
<1> DEFINE old == job[h]
<1>1. /\ old \in JobType /\ old.ids \subseteq Batch /\ old.topic = "cancel" /\ old.msg \in Request
      /\ "cancel" \in Topic /\ h \in Slot /\ Batch \subseteq Nat
  BY AtWork, BatchKeys DEF Types, CancelStage, CancelFind, CancelRequest, CancelBatch,
                           CancelHandOff, CancelReturn, Topic
<1>2. CASE CancelFind(h)
  <2> DEFINE found == {b \in FindByRequestID(old.msg) : batch[b].state # "creating"}
             pc    == IF found = {} THEN "terminate" ELSE "batches"
             ids   == {b \in found : batch[b].state \in Cancellable}
             next  == [old EXCEPT !.at = pc, !.ids = ids]
  <2>1. UNCHANGED <<rows, announced>> /\ Continue(h, next)
    BY <1>2 DEF CancelFind
  <2>2. pc \in Point /\ ids \subseteq Batch
    BY DEF Point, FindByRequestID
  <2> HIDE DEF pc, ids
  <2>3. /\ next \in JobType /\ next.topic = old.topic /\ next.msg = old.msg /\ next.ids = ids
    <3>1. ids \in SUBSET Nat
      BY <1>1, <2>2
    <3> HIDE DEF old
    <3> QED BY <1>1, <2>2, <3>1 DEF JobType
  <2> HIDE DEF next
  <2> QED BY <1>1, <2>1, <2>2, <2>3, GoingOn, RowsStay DEF StepMove
<1>3. CASE CancelRequest(h)
  <2>1. RequestsMove
    BY <1>3, Terminating DEF CancelRequest, Types, TerminalRequest
  <2> QED BY <1>1, <1>3, <2>1, Returning, OneSlot, RequestMoves DEF CancelRequest, Return, StepMove, Types
<1>4. CASE CancelBatch(h)
  <2>1. PICK b \in old.ids :
          /\ UNCHANGED <<request, assoc, records, index, claims, announced>>
          /\ \/ /\ batch[b].state \in Cancellable
                /\ batch' = BatchUpdated(b, "cancelling", batch[b].deps)
                /\ Continue(h, [old EXCEPT !.at = "handOff", !.was = batch[b].state])
             \/ /\ Continue(h, [old EXCEPT !.ids = old.ids \ {b}, !.ver = 1])
                /\ UNCHANGED batch
    BY <1>4 DEF CancelBatch
  <2>2. b \in Batch /\ batch[b] \in BatchRow(Len(batch))
    BY <1>1, BatchKeys DEF Types
  <2>3. batch[b].state \in BatchState /\ batch[b].deps \subseteq Batch
    BY <2>2, BatchKeys DEF Types, BatchRow
  <2>4. CASE /\ batch[b].state \in Cancellable
             /\ batch' = BatchUpdated(b, "cancelling", batch[b].deps)
             /\ Continue(h, [old EXCEPT !.at = "handOff", !.was = batch[b].state])
    <3>1. batch[b].state \in Live /\ "cancelling" \in BatchState
      BY <2>4 DEF Cancellable, Live, DependencyStates, BatchState, HaltedBatch
    <3>2. BatchesMove
      BY <2>2, <2>3, <2>4, <3>1, BatchUpdating DEF Types
    <3> DEFINE was  == batch[b].state
               next == [old EXCEPT !.at = "handOff", !.was = was]
    <3>3. Continue(h, next)
      BY <2>4
    <3>4. /\ next \in JobType /\ next.topic = old.topic /\ next.msg = old.msg /\ next.ids = old.ids
      <4>1. "handOff" \in Point /\ was \in BatchState
        BY <2>3 DEF Point
      <4> HIDE DEF old, was
      <4> QED BY <1>1, <4>1 DEF JobType
    <3> HIDE DEF next
    <3> QED BY <1>1, <2>1, <3>2, <3>3, <3>4, GoingOn, BatchMoves DEF StepMove
  <2>5. CASE Continue(h, [old EXCEPT !.ids = old.ids \ {b}, !.ver = 1]) /\ UNCHANGED batch
    <3> DEFINE ids  == old.ids \ {b}
               next == [old EXCEPT !.ids = ids, !.ver = 1]
    <3>1. Continue(h, next)
      BY <2>5
    <3>2. /\ next \in JobType /\ next.topic = old.topic /\ next.msg = old.msg /\ next.ids = ids
      <4>1. ids \in SUBSET Nat
        BY <1>1
      <4> HIDE DEF old, ids
      <4> QED BY <1>1, <4>1 DEF JobType
    <3>3. ids \subseteq Batch
      BY <1>1
    <3> HIDE DEF next, ids
    <3>4. JobsMove /\ TopicsMove
      BY <1>1, <3>1, <3>2, <3>3, GoingOn
    <3> QED BY <2>1, <2>5, <3>4, BatchesStay, BatchMoves DEF StepMove, Types
  <2> QED BY <2>1, <2>4, <2>5
<1>5. CASE CancelHandOff(h)
  <2>1. PICK b \in old.ids :
          /\ records' = RecordMoved(old.was, "cancelling", b)
          /\ announced' = announced \cup {b}
          /\ Continue(h, [old EXCEPT !.at = "batches", !.ids = old.ids \ {b}])
          /\ UNCHANGED <<request, batch, assoc, index, claims>>
    BY <1>5 DEF CancelHandOff
  <2> DEFINE ids  == old.ids \ {b}
             next == [old EXCEPT !.at = "batches", !.ids = ids]
  <2>2. Continue(h, next)
    BY <2>1
  <2>3. /\ next \in JobType /\ next.topic = old.topic /\ next.msg = old.msg /\ next.ids = ids
    <3>1. ids \in SUBSET Nat /\ "batches" \in Point
      BY <1>1 DEF Point
    <3> HIDE DEF old, ids
    <3> QED BY <1>1, <3>1 DEF JobType
  <2>4. ids \subseteq Batch
    BY <1>1
  <2> HIDE DEF next, ids
  <2>5. JobsMove /\ TopicsMove
    BY <1>1, <2>2, <2>3, <2>4, GoingOn
  <2>6. records' \subseteq BatchState \X Batch
    BY <1>1, <2>1 DEF RecordMoved, Types, Sets, BatchState, HaltedBatch
  <2>7. announced' \subseteq Batch
    BY <1>1, <2>1 DEF Types, Sets
  <2> QED BY <2>1, <2>5, <2>6, <2>7, SetMoves DEF StepMove, Types, Sets
<1>6. CASE CancelReturn(h)
  <2>1. UNCHANGED <<rows, announced>> /\ (Retry(h) \/ Return(h, {}))
    BY <1>6 DEF CancelReturn
  <2>2. CASE Retry(h)
    BY <1>1, <2>1, <2>2, Retrying, OneSlot, RowsStay DEF StepMove, Types
  <2>3. CASE Return(h, {})
    BY <1>1, <2>1, <2>3, Returning, OneSlot, RowsStay DEF Return, StepMove, Types
  <2> QED BY <2>1, <2>2, <2>3
<1> QED BY <1>2, <1>3, <1>4, <1>5, <1>6 DEF CancelStage

(* The dead-letter reconcilers.                                             *)

LEMMA DeadRequests ==
    ASSUME Types, NEW r \in Request, NEW t \in Topic, DLQRequest(t, r) \/ DLQCheck(r)
    PROVE  StepMove
<1>1. "dlq" \in Topic \cap Slot /\ "signal" \in Topic /\ "fail" \in Point /\ <<t, r>> \in Message
  BY DEF Topic, Slot, Point, Message
<1>2. CASE DLQCheck(r)
  <2>1. ReturnNil("dlq", "dlq", <<"check", r>>, {<<"signal", <<r, FALSE, "dlq">>>>})
        /\ UNCHANGED <<rows, announced>>
    BY <1>2 DEF DLQCheck
  <2> QED BY <1>1, <2>1, Passing, OneSlot, RowsStay DEF StepMove, Types
<1>3. CASE DLQRequest(t, r)
  <2> DEFINE m    == <<t, r>>
             next == Opened("dlq", m, "fail")
  <2>1. next \in JobType /\ next.topic = "dlq" /\ next.ids = {} /\ next.at = "fail"
    BY <1>1, Openings
  <2>2. /\ ReturnNil("dlq", "dlq", m, {}) \/ Continue("dlq", next)
        /\ UNCHANGED <<rows, announced>>
    BY <1>3 DEF DLQRequest
  <2> HIDE DEF next, m
  <2>3. CASE ReturnNil("dlq", "dlq", m, {})
    BY <1>1, <2>2, <2>3, Returning, OneSlot, RowsStay DEF StepMove, Types
  <2>4. CASE Continue("dlq", next)
    <3>1. Puts("dlq", next) /\ TopicsMove
      BY <1>1, <2>1, <2>4, Continuing DEF Types
    <3>2. JobMove("dlq")
      BY <2>1, <3>1 DEF Puts, JobMove, Opens
    <3> QED BY <2>2, <3>1, <3>2, OneSlot, RowsStay DEF StepMove
  <2> QED BY <2>2, <2>3, <2>4
<1> QED BY <1>2, <1>3

LEMMA DeadSignals ==
    ASSUME Types, NEW m \in Request \X BOOLEAN \X {"live", "dlq"}, DLQSignal(m)
    PROVE  StepMove
<1>1. "dlq" \in Topic \cap Slot
  BY DEF Topic, Slot
<1>2. RequestsMove
  BY Terminating DEF DLQSignal, Types, TerminalRequest
<1>3. ReturnNil("dlq", "dlq", <<"signal", m>>, {})
  BY DEF DLQSignal
<1>4. RowsMove /\ ClaimsMove
  BY <1>2, RequestMoves DEF DLQSignal
<1> QED BY <1>1, <1>3, <1>4, Returning, OneSlot DEF StepMove, Types

LEMMA DeadBatches ==
    ASSUME Types, NEW b \in Batch, NEW t \in Topic, DLQBatch(t, b)
    PROVE  StepMove
<1>1. "dlq" \in Topic \cap Slot /\ "fanOut" \in Point /\ <<t, b>> \in Message
  BY BatchKeys DEF Types, Topic, Slot, Point, Message
<1> DEFINE m    == <<t, b>>
           was  == batch[b].state
           base == Opened("dlq", m, "fanOut")
           next == [base EXCEPT !.was = was]
<1>2. was \in BatchState /\ batch[b].deps \subseteq Batch
  <2>1. batch[b] \in BatchRow(Len(batch))
    BY BatchKeys DEF Types
  <2> QED BY <2>1, BatchKeys DEF BatchRow, Types
<1>3. /\ UNCHANGED <<request, assoc, records, index, claims, announced>>
      /\ \/ ReturnNil("dlq", "dlq", m, {}) /\ UNCHANGED batch
         \/ /\ batch[b].state \notin {"succeeded", "cancelled"}
            /\ batch' = BatchUpdated(b, "failed", batch[b].deps)
            /\ Continue("dlq", next)
  BY DEF DLQBatch
<1>4. base \in JobType /\ base.topic = "dlq" /\ base.msg = m /\ base.ids = {}
  BY <1>1, Openings
<1>5. m[2] = b
  OBVIOUS
<1> HIDE DEF m
<1>6. CASE ReturnNil("dlq", "dlq", m, {}) /\ UNCHANGED batch
  BY <1>1, <1>3, <1>6, Returning, BatchesStay, BatchMoves, OneSlot DEF StepMove, Types
<1>7. CASE /\ batch[b].state \notin {"succeeded", "cancelled"}
           /\ batch' = BatchUpdated(b, "failed", batch[b].deps)
           /\ Continue("dlq", next)
  <2>1. "failed" \in BatchState
    BY DEF BatchState, HaltedBatch, TerminalBatch
  <2>2. BatchesMove
    BY <1>2, <1>7, <2>1, BatchUpdating DEF Types
  <2>3. next \in JobType /\ next.topic = "dlq" /\ next.msg = m /\ next.ids = {}
    <3> HIDE DEF base, was
    <3> QED BY <1>2, <1>4 DEF JobType
  <2> HIDE DEF next
  <2>4. Puts("dlq", next) /\ TopicsMove
    BY <1>1, <1>7, <2>3, Continuing DEF Types
  <2>5. JobMove("dlq")
    BY <1>5, <2>3, <2>4 DEF Puts, JobMove, Opens
  <2> QED BY <1>3, <2>2, <2>4, <2>5, OneSlot, BatchMoves DEF StepMove
<1> QED BY <1>3, <1>6, <1>7

LEMMA DeadEnds ==
    ASSUME Types, DLQFail \/ DLQFanOut
    PROVE  StepMove
<1>1. "dlq" \in Topic \cap Slot
  BY DEF Topic, Slot
<1>2. job["dlq"].topic = "dlq"
  <2>1. job["dlq"].at # "idle" /\ job["dlq"].topic \in {"none", "dlq"}
    BY <1>1 DEF DLQFail, DLQFanOut, Types, Jobs, InSlot
  <2> QED BY <1>1, <2>1 DEF Types, Jobs, Holds
<1>3. \E r : request' = Terminated(r, "error")
  BY DEF DLQFail, DLQFanOut
<1>4. RequestsMove
  BY <1>3, Terminating DEF Types, TerminalRequest
<1>5. Return("dlq", {})
  BY DEF DLQFail, DLQFanOut
<1>6. RowsMove /\ ClaimsMove
  <2>1. CASE DLQFail
    BY <1>4, <2>1, RequestMoves DEF DLQFail
  <2>2. CASE DLQFanOut
    <3>1. job["dlq"].msg[2] \in Batch
      BY <1>1, <2>2 DEF DLQFanOut, Types, Jobs, Holds
    <3>2. records' \subseteq BatchState \X Batch
      BY <2>2, <3>1 DEF DLQFanOut, RecordMoved, Types, Sets, BatchState, HaltedBatch, TerminalBatch
    <3>3. BatchesMove /\ Batch' = Batch
      BY <2>2, BatchesStay DEF DLQFanOut, Types, Batch
    <3> QED BY <1>4, <2>2, <3>2, <3>3 DEF DLQFanOut, RowsMove, ClaimsMove, Types, Sets
  <2> QED BY <2>1, <2>2
<1> QED BY <1>1, <1>2, <1>5, <1>6, Returning, OneSlot DEF Return, StepMove, Types

LEMMA Steps ==
    ASSUME Types, ToldWhenOver, ClaimIsFresh, Next
    PROVE  StepMove
<1>1. CASE Stage
  BY <1>1, IntakeDeliveries, SignalDelivery, CancelDelivery, AnalysisDelivery,
     SpeculateDelivery, ConcludeDelivery, IntakeSteps, AnalysisReads, AnalysisClaims,
     AnalysisEnds, CancelSteps, SpeculateSteps DEF Stage, Step, Analysis
<1>2. CASE DeadLetter
  BY <1>2, DeadRequests, DeadBatches, DeadSignals, DeadEnds DEF DeadLetter, Topic
<1> QED BY <1>1, <1>2, UserSteps, FaultSteps DEF Next, Fault

(* The invariants, one by one.                                              *)

LEMMA TypesInit == Init => Types
<1> SUFFICES ASSUME Init PROVE Types
  OBVIOUS
<1>1. Requests
  BY DEF Init, Requests, RequestRow, RequestState
<1>2. Batches /\ Sets
  BY DEF Init, Batches, Batch, Sets
<1>3. Queues
  BY EnrolmentAssumption DEF Init, Queues, Topic
<1>4. Jobs
  <2>1. job \in [Slot -> JobType] /\ \A h \in Slot : job[h] = Idle
    BY IdleIsJob DEF Init
  <2>2. /\ Idle.topic = "none" /\ Idle.at = "idle" /\ Idle.ids = {}
    BY DEF Idle
  <2> QED BY <2>1, <2>2 DEF Jobs, InSlot, Holds
<1> QED BY <1>1, <1>2, <1>3, <1>4 DEF Types

LEMMA QueuesStep == Types /\ StepMove => Queues'
<1> SUFFICES ASSUME Types, StepMove PROVE Queues'
  OBVIOUS
<1> DEFINE old == topic["conclude"]
           new == topic'["conclude"]
<1>1. old \in Seq(Batch)
  BY DEF Types, Queues
<1>2. \/ new = old
      \/ old # <<>> /\ new = Tail(old)
      \/ \E b \in Batch : new = Append(old, b)
  BY DEF StepMove, TopicsMove, Told
<1> HIDE DEF old, new
<1>3. new \in Seq(Batch)
  BY <1>1, <1>2
<1>4. Batch \subseteq Batch'
  BY Widening DEF StepMove, RowsMove, Types
<1>5. new \in Seq(Batch')
  BY <1>3, <1>4
<1> QED BY <1>5 DEF new, StepMove, TopicsMove, Queues

LEMMA IdleHolds == Idle.topic = "none" /\ Idle.at = "idle" /\ Idle.ids = {}
  BY DEF Idle

LEMMA JobsStep == Types /\ StepMove => Jobs'
<1> SUFFICES ASSUME Types, StepMove, NEW h \in Slot PROVE InSlot(h)' /\ Holds(h)'
  BY DEF Jobs, StepMove, JobsMove
<1>1. Batch \subseteq Batch'
  BY Widening DEF StepMove, RowsMove, Types
<1>2. JobMove(h)
  BY DEF StepMove, JobsMove
<1>3. InSlot(h) /\ Holds(h)
  BY DEF Types, Jobs
<1>4. CASE job'[h] = job[h]
  BY <1>1, <1>3, <1>4 DEF InSlot, Holds
<1>5. CASE job'[h] = Idle
  BY <1>5, IdleHolds DEF InSlot, Holds
<1>6. CASE Late(h)
  <2>1. PICK t \in Topic \cap Slow : job'[h] = job[t]
    BY <1>6 DEF Late
  <2>2. t \in Slot /\ t # "late"
    BY DEF Slot, Topic
  <2>3. InSlot(t) /\ Holds(t)
    BY <2>2 DEF Types, Jobs
  <2>4. job[t].topic \in {"none", t}
    BY <2>2, <2>3 DEF InSlot
  <2> QED BY <1>1, <1>6, <2>1, <2>3, <2>4 DEF Late, InSlot, Holds
<1>7. CASE Opens(h)
  <2>1. h # "none"
    BY DEF Slot, Topic
  <2> QED BY <1>1, <1>7, <2>1 DEF Opens, InSlot, Holds
<1>8. CASE Goes(h)
  BY <1>1, <1>3, <1>8 DEF Goes, InSlot, Holds
<1> QED BY <1>2, <1>4, <1>5, <1>6, <1>7, <1>8 DEF JobMove

LEMMA TypesStep == Types /\ StepMove => Types'
  BY QueuesStep, JobsStep DEF Types, StepMove, RowsMove, RequestsMove, BatchesMove

LEMMA OverStaysOver ==
    ASSUME StepMove, NEW b \in Batch, batch[b].state \in TerminalBatch
    PROVE  batch'[b].state \in TerminalBatch
<1>1. StateMove(b)
  BY DEF StepMove, RowsMove, BatchesMove
<1>2. /\ batch[b].state \notin Live /\ batch[b].state # "creating"
      /\ "failed" \in TerminalBatch
  BY DEF TerminalBatch, Live, DependencyStates
<1> QED BY <1>1, <1>2 DEF StateMove, Promotes

LEMMA ToldStep == Types /\ ToldWhenOver /\ StepMove => ToldWhenOver'
<1> SUFFICES ASSUME Types, ToldWhenOver, StepMove PROVE ToldWhenOver'
  OBVIOUS
<1> DEFINE old == topic["conclude"]
           new == topic'["conclude"]
<1>1. old \in Seq(Batch)
  BY DEF Types, Queues
<1>2. \/ new = old
      \/ old # <<>> /\ new = Tail(old)
      \/ \E b \in Batch : batch[b].state \in TerminalBatch /\ new = Append(old, b)
  BY DEF StepMove, TopicsMove, Told
<1>3. \A i \in 1..Len(old) : old[i] \in Batch /\ batch[old[i]].state \in TerminalBatch
  BY <1>1 DEF ToldWhenOver
<1> HIDE DEF old, new
<1>4. \A i \in 1..Len(new) : new[i] \in Batch /\ batch[new[i]].state \in TerminalBatch
  <2>1. CASE new = old
    BY <1>3, <2>1
  <2>2. CASE old # <<>> /\ new = Tail(old)
    BY <1>1, <1>3, <2>2
  <2>3. CASE \E b \in Batch : batch[b].state \in TerminalBatch /\ new = Append(old, b)
    BY <1>1, <1>3, <2>3
  <2> QED BY <1>2, <2>1, <2>2, <2>3
<1>5. \A i \in 1..Len(new) : batch'[new[i]].state \in TerminalBatch
  BY <1>4, OverStaysOver
<1> QED BY <1>5 DEF new, ToldWhenOver

LEMMA FreshStep == Types /\ ClaimIsFresh /\ StepMove => ClaimIsFresh'
<1> SUFFICES ASSUME Types, ClaimIsFresh, StepMove, NEW h \in Slot,
                    job'[h].topic = "analysis", job'[h].at = "claimWrite"
             PROVE  LET now == request'[batch'[job'[h].msg].req] IN
                      /\ job'[h].ver =< now.ver
                      /\ job'[h].ver = now.ver => now.state \notin HaltedRequest
  BY DEF ClaimIsFresh
<1>1. JobMove(h)
  BY DEF StepMove, JobsMove
<1>2. ASSUME NEW g \in Slot, job'[h] = job[g]
      PROVE  LET now == request'[batch'[job'[h].msg].req] IN
               /\ job'[h].ver =< now.ver
               /\ job'[h].ver = now.ver => now.state \notin HaltedRequest
  <2> DEFINE b == job[g].msg
             r == batch[b].req
  <2>1. /\ job[g].ver =< request[r].ver
        /\ job[g].ver = request[r].ver => request[r].state \notin HaltedRequest
    BY <1>2 DEF ClaimIsFresh
  <2>2. b \in Batch /\ job[g].ver \in Nat
    BY <1>2 DEF Types, Jobs, Holds, JobType
  <2>3. r \in Request /\ batch'[b].req = r
    BY <2>2, BatchKeys DEF Types, BatchRow, StepMove, RowsMove, BatchesMove
  <2>4. RowMove(r) /\ request[r].ver \in Nat /\ request'[r].ver \in Nat
    BY <2>3 DEF StepMove, RowsMove, RequestsMove, Types, Requests, RequestRow
  <2>5. batch'[job'[h].msg].req = r /\ job'[h].ver = job[g].ver
    BY <1>2, <2>3
  <2>6. /\ job[g].ver =< request'[r].ver
        /\ job[g].ver = request'[r].ver => request'[r].state \notin HaltedRequest
    <3> HIDE DEF b, r
    <3> QED BY <2>1, <2>2, <2>4 DEF RowMove
  <2> QED BY <2>5, <2>6
<1>3. CASE Goes(h)
  <2>1. /\ job[h].topic = "analysis" /\ job'[h].msg = job[h].msg
        /\ UNCHANGED <<request, batch>>
        /\ job'[h].ver = request[batch[job[h].msg].req].ver
        /\ request[batch[job[h].msg].req].state \notin HaltedRequest
    BY <1>3 DEF Goes, AnalysisGoes
  <2>2. job[h].msg \in Batch
    BY <2>1 DEF Types, Jobs, Holds
  <2>3. batch[job[h].msg].req \in Request
    BY <2>2, BatchKeys DEF Types, BatchRow
  <2>4. request[batch[job[h].msg].req].ver \in Nat
    BY <2>3 DEF Types, Requests, RequestRow
  <2> QED BY <2>1, <2>4
<1>4. CASE job'[h] = Idle
  BY <1>4, IdleHolds
<1>5. CASE Opens(h)
  BY <1>5 DEF Opens
<1>6. CASE Late(h)
  <2>1. Topic \subseteq Slot
    BY DEF Slot
  <2> QED BY <1>2, <1>6, <2>1 DEF Late
<1> QED BY <1>1, <1>2, <1>3, <1>4, <1>5, <1>6 DEF JobMove

CoreInv == Types /\ ToldWhenOver /\ ClaimIsFresh

LEMMA CoreInit == Init => CoreInv
<1> SUFFICES ASSUME Init PROVE CoreInv
  OBVIOUS
<1>1. ToldWhenOver
  BY DEF Init, ToldWhenOver, Topic
<1>2. ClaimIsFresh
  BY IdleHolds DEF Init, ClaimIsFresh
<1> QED BY <1>1, <1>2, TypesInit DEF CoreInv

LEMMA Moves1 == CoreInv /\ [Next]_vars => StepMove /\ UNCHANGED sharing
<1> SUFFICES ASSUME CoreInv, [Next]_vars PROVE StepMove /\ UNCHANGED sharing
  OBVIOUS
<1>1. CASE Next
  BY <1>1, Steps DEF CoreInv, Next
<1>2. CASE UNCHANGED vars
  <2>1. UNCHANGED <<rows, announced, topic, faults, job, sharing>>
    BY <1>2 DEF vars, rows
  <2> QED BY <2>1, RowsStay, TopicsStay, NoSlot DEF CoreInv, StepMove, Types
<1> QED BY <1>1, <1>2

LEMMA CoreStep == CoreInv /\ StepMove => CoreInv'
  BY TypesStep, ToldStep, FreshStep DEF CoreInv

LEMMA CoreHolds == Spec => []CoreInv
<1>1. CoreInv /\ [Next]_vars => CoreInv'
  BY Moves1, CoreStep
<1> QED BY <1>1, CoreInit, PTL DEF Spec

\* The rows, indexes and handlers of the enrolment stages keep their shape
\* (the entity types, and the stages' read and write sequences).
THEOREM EnrolmentTypes == Spec => []TypeOK
<1>1. CoreInv => TypeOK
  <2> SUFFICES ASSUME Types PROVE TypeOK
    BY DEF CoreInv
  <2>1. request \in [Request -> [state : RequestState, ver : Nat]]
    BY DEF Types, Requests, RequestRow
  <2>2. batch \in Seq([req : Request, state : BatchState, deps : SUBSET Batch])
    BY BatchKeys DEF Types, Batches, BatchRow
  <2> QED BY <2>1, <2>2 DEF Types, Sets, Queues, Jobs, TypeOK
<1> QED BY <1>1, CoreHolds, PTL

\* A request that landed, failed or was cancelled is never written again,
\* whatever a claim, a signal, a cancel or a dead letter read of it before
\* (request/terminate.go, dependencyanalysis.go).
THEOREM TerminalStands == Spec => TerminalIsFinal
<1>1. CoreInv /\ [Next]_vars =>
        [\A r \in Request : request[r].state \in TerminalRequest
                            => request'[r] = request[r]]_request
  BY Moves1 DEF StepMove, RowsMove, RequestsMove, RowMove
<1> QED BY <1>1, CoreHolds, PTL DEF Spec, TerminalIsFinal

(* One claimant of a change in progress: under the lease that the comment   *)
(* in checkDuplicate relies on.                                             *)

HoldsLease(t) == t \notin Slow \/ "expiry" \notin FaultKinds

\* What validate read of the other claimants stands until it claims.
ClaimsChecked == \A h \in Slot :
    job[h].topic = "validate" /\ job[h].at = "claim" =>
      \A q \in claims : q # job[h].msg /\ SameChange(job[h].msg, q)
                        => request[q].state \in TerminalRequest

LEMMA OnlySlot ==
    ASSUME Types, NEW t \in Topic, HoldsLease(t), NEW h \in Slot, job[h].topic = t
    PROVE  h = t
  BY DEF Types, Jobs, InSlot, HoldsLease, Topic

LEMMA TerminalStays ==
    ASSUME StepMove, NEW q \in Request, request[q].state \in TerminalRequest
    PROVE  request'[q] = request[q]
  BY DEF StepMove, RowsMove, RequestsMove, RowMove

LEMMA CheckedStep ==
    ASSUME CoreInv, CoreInv', StepMove, UNCHANGED sharing, HoldsLease("validate"), ClaimsChecked
    PROVE  ClaimsChecked'
<1> SUFFICES ASSUME NEW h \in Slot, job'[h].topic = "validate", job'[h].at = "claim",
                    NEW q \in claims', q # job'[h].msg, SameChange(job'[h].msg, q)
             PROVE  request'[q].state \in TerminalRequest
  BY DEF ClaimsChecked, SameChange
<1>1. "validate" \in Topic
  BY DEF Topic
<1>2. h = "validate"
  <2>1. HoldsLease("validate")'
    BY DEF HoldsLease
  <2> QED BY <1>1, <2>1 DEF CoreInv, Types, Jobs, InSlot, HoldsLease, Topic
<1>3. JobMove(h)
  BY DEF StepMove, JobsMove
<1>4. CASE job'[h] = job[h]
  <2>1. UNCHANGED claims
    <3>1. SUFFICES ASSUME NEW g \in Slot, job[g].topic = "validate", job'[g] = Idle
                   PROVE  FALSE
      BY DEF StepMove, ClaimsMove
    <3>2. g = h
      BY <1>1, <1>2, <3>1, OnlySlot DEF CoreInv
    <3> QED BY <3>1, <3>2, IdleHolds
  <2>2. request[q].state \in TerminalRequest /\ q \in Request
    BY <1>4, <2>1 DEF ClaimsChecked, CoreInv, Types, Sets
  <2> QED BY <2>2, TerminalStays
<1>5. CASE Opens(h)
  BY <1>2, <1>5 DEF Opens, Duplicates, Claimants
<1> QED BY <1>2, <1>3, <1>4, <1>5, IdleHolds DEF JobMove, Late, Goes

LEMMA OneClaimantStep ==
    ASSUME CoreInv, StepMove, UNCHANGED sharing, ClaimsChecked, OneClaimant
    PROVE  OneClaimant'
<1> SUFFICES ASSUME NEW q \in claims', NEW r \in claims', q # r, SameChange(q, r),
                    request'[q].state \notin TerminalRequest,
                    request'[r].state \notin TerminalRequest
             PROVE  FALSE
  BY DEF OneClaimant, SameChange
<1>1. q \in Request /\ r \in Request
  BY DEF StepMove, RowsMove, Sets
<1>2. request[q].state \notin TerminalRequest /\ request[r].state \notin TerminalRequest
  BY <1>1, TerminalStays
<1>3. SameChange(r, q)
  BY DEF SameChange
<1>4. CASE UNCHANGED claims
  BY <1>2, <1>4 DEF OneClaimant
<1>5. CASE \E h \in Slot : /\ job[h].topic = "validate" /\ job[h].at = "claim"
                           /\ claims' = claims \cup {job[h].msg}
  BY <1>2, <1>3, <1>5 DEF OneClaimant, ClaimsChecked
<1> QED BY <1>4, <1>5 DEF StepMove, ClaimsMove

\* Of the requests in progress that claimed one change there is one, if the
\* lease on validate's partition outlives its handler: then the read of the
\* change store and the claim are race-free, as checkDuplicate's comment says
\* (validate.go).
THEOREM ClaimantIsOne == ASSUME HoldsLease("validate") PROVE Spec => []OneClaimant
<1> DEFINE Inv == CoreInv /\ ClaimsChecked /\ OneClaimant
<1>1. Init => Inv
  BY CoreInit, IdleHolds DEF Init, ClaimsChecked, OneClaimant
<1>2. Inv /\ [Next]_vars => Inv'
  BY Moves1, CoreStep, CheckedStep, OneClaimantStep
<1> QED BY <1>1, <1>2, PTL DEF Spec

(* One batch enrols a request.                                              *)

Enrolling == DependencyStates \cup {"resolve", "claim", "claimWrite", "promote"}

\* A batch is associated with its request before it gets past Creating.
Associates ==
    /\ \A b \in Batch : batch[b].state \in Live => <<batch[b].req, b>> \in assoc
    /\ \A h \in Slot :
         job[h].topic = "analysis" /\ job[h].at \in {"claim", "claimWrite", "promote"} =>
           <<batch[job[h].msg].req, job[h].msg>> \in assoc

\* While a batch is being enrolled no other batch of its request is.
Alone == \A h \in Slot :
    job[h].topic = "analysis" /\ job[h].at \in Enrolling =>
      \A x \in Batch : x # job[h].msg /\ batch[x].req = batch[job[h].msg].req
                       => batch[x].state \notin Live

LEMMA GettingAlive ==
    ASSUME Types, StepMove, NEW x \in Batch', batch'[x].state \in Live
    PROVE  /\ x \in Batch /\ batch'[x].req = batch[x].req /\ batch[x].req \in Request
           /\ batch[x].state \in Live \/ Promotes(x)
<1>1. x \in Batch
  <2>1. "creating" \notin Live
    BY DEF Live, DependencyStates
  <2> QED BY <2>1 DEF StepMove, RowsMove, BatchesMove
<1>2. StateMove(x) /\ batch'[x].req = batch[x].req
  BY <1>1 DEF StepMove, RowsMove, BatchesMove
<1>3. "failed" \notin Live
  BY DEF Live, DependencyStates
<1>4. batch[x].req \in Request
  BY <1>1, BatchKeys DEF Types, BatchRow
<1> QED BY <1>1, <1>2, <1>3, <1>4 DEF StateMove

LEMMA PromotingSlot ==
    ASSUME Types, HoldsLease("analysis"), NEW x, Promotes(x)
    PROVE  /\ "analysis" \in Slot /\ job["analysis"].topic = "analysis"
           /\ job["analysis"].at = "promote" /\ job["analysis"].msg = x
<1>1. "analysis" \in Topic /\ Topic \cup {"late"} \subseteq Slot
  BY DEF Topic, Slot
<1> QED BY <1>1, OnlySlot DEF Promotes

LEMMA AssociatesStep ==
    ASSUME CoreInv, CoreInv', StepMove, Associates
    PROVE  Associates'
<1>1. assoc \subseteq assoc'
  BY DEF StepMove, RowsMove
<1>2. ASSUME NEW b \in Batch', batch'[b].state \in Live
      PROVE  <<batch'[b].req, b>> \in assoc'
  <2>1. /\ b \in Batch /\ batch'[b].req = batch[b].req
        /\ batch[b].state \in Live \/ Promotes(b)
    BY <1>2, GettingAlive DEF CoreInv
  <2>2. Topic \cup {"late"} \subseteq Slot
    BY DEF Slot
  <2> QED BY <1>1, <2>1, <2>2 DEF Associates, Promotes
<1>3. ASSUME NEW h \in Slot, job'[h].topic = "analysis",
             job'[h].at \in {"claim", "claimWrite", "promote"}
      PROVE  <<batch'[job'[h].msg].req, job'[h].msg>> \in assoc'
  <2>1. JobMove(h)
    BY DEF StepMove, JobsMove
  <2>2. ASSUME NEW g \in Slot, job'[h].topic = job[g].topic, job'[h].msg = job[g].msg,
               <<batch[job[g].msg].req, job[g].msg>> \in assoc'
        PROVE  <<batch'[job'[h].msg].req, job'[h].msg>> \in assoc'
    <3>1. job[g].msg \in Batch
      BY <1>3, <2>2 DEF CoreInv, Types, Jobs, Holds
    <3>2. batch'[job[g].msg].req = batch[job[g].msg].req
      BY <3>1 DEF StepMove, RowsMove, BatchesMove
    <3> QED BY <2>2, <3>2
  <2>3. ASSUME NEW g \in Slot, job'[h] = job[g]
        PROVE  <<batch'[job'[h].msg].req, job'[h].msg>> \in assoc'
    BY <1>1, <1>3, <2>2, <2>3 DEF Associates
  <2>4. CASE Goes(h)
    <3>1. /\ job'[h].topic = job[h].topic /\ job'[h].msg = job[h].msg
          /\ AnalysisGoes(h)
      BY <1>3, <2>4 DEF Goes
    <3>2. <<batch[job[h].msg].req, job[h].msg>> \in assoc'
      BY <1>1, <1>3, <3>1 DEF AnalysisGoes, Associates
    <3> QED BY <2>2, <3>1, <3>2
  <2>5. CASE Late(h)
    <3>1. Topic \subseteq Slot
      BY DEF Slot
    <3> QED BY <2>3, <2>5, <3>1 DEF Late
  <2>6. CASE Opens(h)
    BY <1>3, <2>6 DEF Opens
  <2> QED BY <1>3, <2>1, <2>3, <2>4, <2>5, <2>6, IdleHolds DEF JobMove
<1> QED BY <1>2, <1>3 DEF Associates

LEMMA AloneStep ==
    ASSUME CoreInv, CoreInv', StepMove, HoldsLease("analysis"), Associates, Alone
    PROVE  Alone'
<1> SUFFICES ASSUME NEW h \in Slot, job'[h].topic = "analysis", job'[h].at \in Enrolling,
                    NEW x \in Batch', x # job'[h].msg,
                    batch'[x].req = batch'[job'[h].msg].req, batch'[x].state \in Live
             PROVE  FALSE
  BY DEF Alone
<1> DEFINE b == job'[h].msg
<1>1. "analysis" \in Topic /\ HoldsLease("analysis")'
  BY DEF Topic, HoldsLease
<1>2. h = "analysis"
  BY <1>1 DEF CoreInv, Types, Jobs, InSlot, HoldsLease, Topic
<1>3. /\ x \in Batch /\ batch'[x].req = batch[x].req
      /\ batch[x].state \in Live \/ Promotes(x)
  BY GettingAlive DEF CoreInv
<1>4. JobMove(h)
  BY DEF StepMove, JobsMove
<1>5. CASE job'[h] = job[h]
  <2>1. b \in Batch
    BY <1>5 DEF CoreInv, Types, Jobs, Holds
  <2>2. batch'[b].req = batch[b].req
    BY <2>1 DEF StepMove, RowsMove, BatchesMove
  <2>3. batch[x].state \notin Live
    BY <1>3, <1>5, <2>2 DEF Alone
  <2>4. job["analysis"].msg = x
    BY <1>3, <2>3, PromotingSlot DEF CoreInv
  <2> QED BY <1>2, <1>5, <2>4
<1>6. CASE Opens(h)
  <2>1. UNCHANGED batch /\ ~EnrolledElsewhere(b)
    BY <1>2, <1>6 DEF Opens, Enrolling, DependencyStates
  <2>2. batch[x].state \in Live /\ batch[x].req = batch[b].req
    BY <2>1
  <2>3. x \in FindByRequestID(batch[b].req) \ {b}
    BY <1>3, <2>2 DEF Associates, FindByRequestID
  <2>4. batch[x].state # "creating"
    BY <2>2 DEF Live, DependencyStates
  <2> QED BY <2>1, <2>3, <2>4 DEF EnrolledElsewhere
<1>7. CASE Goes(h)
  <2>1. /\ job[h].topic = "analysis" /\ job[h].msg = b /\ AnalysisGoes(h)
    BY <1>7 DEF Goes
  <2>2. UNCHANGED batch /\ job[h].at \in Enrolling
    BY <2>1 DEF AnalysisGoes, Enrolling, DependencyStates
  <2> QED BY <1>3, <2>1, <2>2 DEF Alone
<1> QED BY <1>2, <1>4, <1>5, <1>6, <1>7, IdleHolds DEF JobMove, Late

LEMMA EnrolledStep ==
    ASSUME CoreInv, StepMove, HoldsLease("analysis"), Alone, EnrolledOnce
    PROVE  EnrolledOnce'
<1> SUFFICES ASSUME NEW x \in Batch', NEW y \in Batch', x # y,
                    batch'[x].req = batch'[y].req,
                    batch'[x].state \in Live, batch'[y].state \in Live
             PROVE  FALSE
  BY DEF EnrolledOnce
<1>1. /\ x \in Batch /\ y \in Batch /\ batch[x].req = batch[y].req
      /\ batch[x].state \in Live \/ Promotes(x)
      /\ batch[y].state \in Live \/ Promotes(y)
  BY GettingAlive DEF CoreInv
<1>2. ASSUME NEW u \in Batch, NEW v \in Batch, u # v, batch[u].req = batch[v].req, Promotes(u)
      PROVE  batch[v].state \notin Live /\ ~Promotes(v)
  <2>1. /\ "analysis" \in Slot /\ job["analysis"].topic = "analysis"
        /\ job["analysis"].at = "promote" /\ job["analysis"].msg = u
    BY <1>2, PromotingSlot DEF CoreInv
  <2>2. batch[v].state \notin Live
    BY <1>2, <2>1 DEF Alone, Enrolling
  <2>3. ~Promotes(v)
    BY <1>2, <2>1, PromotingSlot DEF CoreInv
  <2> QED BY <2>2, <2>3
<1>3. batch[x].state \in Live /\ batch[y].state \in Live
  BY <1>1, <1>2
<1> QED BY <1>1, <1>3 DEF EnrolledOnce

\* A request is carried by one batch at most past Creating, however often its
\* batch message is delivered, if the lease on the analysis topic's partition
\* outlives its handler: the check for another batch and the promotion are
\* apart (dependencyanalysis.go).
THEOREM EnrolmentIsOnce == ASSUME HoldsLease("analysis") PROVE Spec => []EnrolledOnce
<1> DEFINE Inv == CoreInv /\ Associates /\ Alone /\ EnrolledOnce
<1>1. Init => Inv
  BY CoreInit, IdleHolds DEF Init, Associates, Alone, EnrolledOnce, Batch
<1>2. Inv /\ [Next]_vars => Inv'
  BY Moves1, CoreStep, AssociatesStep, AloneStep, EnrolledStep
<1> QED BY <1>1, <1>2, PTL DEF Spec
-----------------------------------------------------------------------------
(* Serialised, under the lease on the analysis partition.                   *)

OnItsWay(b)  == /\ batch[b].state \in DependencyStates
                /\ \E s \in Live : <<s, b>> \in records
Behind(y, x) == x \in batch[y].deps /\ <<x, y>> \in index
Serial(x, y) == Behind(y, x) \/ Behind(x, y)

\* The order in which a batch meets the buckets, and a scan visits them.
Rank == [created |-> 1, speculating |-> 2, landing |-> 3]

Queue == topic["analysis"]
Knows(b) == <<"analysis", b>> \in sent

\* A batch is in the analysis topic at most once, the one in hand is the first,
\* and only the first can have been promoted.
Lined ==
    /\ Queue \in Seq(Batch)
    /\ \A i, k \in 1..Len(Queue) : Queue[i] = Queue[k] => i = k
    /\ \A i \in 1..Len(Queue) : Knows(Queue[i])
    /\ \A i \in 2..Len(Queue) : batch[Queue[i]].state \notin DependencyStates
    /\ \A b \in Batch : batch[b].state \in DependencyStates => Knows(b)
    /\ job["analysis"].at # "idle" => Queue # <<>> /\ job["analysis"].msg = Head(Queue)
    /\ \A h \in Slot : job[h].topic = "batch" /\ job[h].at = "publish" => job[h].ver \in Batch

\* A batch that left its way to the trunk never returns to it.
Aside(b) == batch[b].state \notin DependencyStates \cup {"creating"}

\* The speculate stage puts the record of the new state before it deletes the old
\* one, and the new state comes later in the order of the scan.
SpeculateFollows ==
    LET b   == job["speculate"].msg
        was == job["speculate"].was
    IN job["speculate"].at # "idle" =>
         /\ job["speculate"].at \in {"put", "delete"} /\ batch[b].state # "creating"
         /\ batch[b].state \in DependencyStates =>
              /\ OnItsWay(b) /\ was \in DependencyStates /\ Rank[was] < Rank[batch[b].state]
              /\ job["speculate"].at = "delete" => <<batch[b].state, b>> \in records

\* A handler that will take a record away does it to a batch that is aside, or
\* after it has put a later one.
Followed ==
    /\ \A b \in Batch : batch[b].state = "creating" => \A s \in BatchState : <<s, b>> \notin records
    /\ \A b \in Batch : OnItsWay(b) => \E s \in DependencyStates : <<s, b>> \in records
    /\ \A h \in Slot : job[h].topic = "cancel" /\ job[h].at = "handOff" =>
         \A b \in job[h].ids : FirstOf(job[h].ids, b) => Aside(b)
    /\ job["dlq"].at = "fanOut" => Aside(job["dlq"].msg[2])
    /\ job["analysis"].at = "file" => batch[job["analysis"].msg].state # "creating"
    /\ SpeculateFollows

\* What the scan of the buckets knows, and what it leaves behind.
Scanned ==
    LET now == job["analysis"]
        others == {x \in Batch \ {now.msg} : OnItsWay(x)}
    IN /\ now.at \in DependencyStates =>
            \A x \in others : \/ x \in now.ids
                              \/ \E s \in DependencyStates : Rank[s] >= Rank[now.at] /\ <<s, x>> \in records
       /\ now.at \in {"resolve", "claim", "claimWrite", "promote"} => others \subseteq now.ids
       /\ now.at \in {"claim", "claimWrite", "promote"} => \A x \in others : <<x, now.msg>> \in index

\* A promoted batch that may still be filed is behind all that are on their way.
Pending ==
    Queue # <<>> /\ batch[Head(Queue)].state \in DependencyStates =>
        \A x \in Batch : x # Head(Queue) /\ OnItsWay(x) => Serial(x, Head(Queue))

SerialInv == Lined /\ Followed /\ Scanned /\ Pending /\ Serialised

(* What a step does, as far as the invariant can see.                       *)

QueueMove ==
    /\ sent \subseteq sent'
    /\ \/ Queue' = Queue
       \/ Queue # <<>> /\ Queue' = Tail(Queue) /\ job'["analysis"].at = "idle"
       \/ \E n \in Batch : ~Knows(n) /\ Knows(n)' /\ Queue' = Append(Queue, n)

AnalysisMove ==
    LET now  == job["analysis"]
        next == job'["analysis"]
        still == UNCHANGED <<batch, records>>
    IN \/ next = now \/ next.at = "idle"
       \/ /\ Queue # <<>> /\ Queue' = Queue /\ next.msg = Head(Queue)
          /\ \/ next.at = "announce"
             \/ next.at = "created" /\ next.ids = {} /\ still
       \/ /\ now.at # "idle" /\ next.msg = now.msg
          /\ \/ /\ now.at \in DependencyStates /\ next.at = NextBucket[now.at]
                /\ next.ids = now.ids \cup RecordsIn(now.at) /\ still
             \/ /\ now.at = "resolve" /\ next.at = "claim" /\ next.ids = Hydrated(now.ids)
                /\ index' = index \cup (next.ids \X {now.msg}) /\ still
             \/ /\ <<now.at, next.at>> \in {<<"claim", "claimWrite">>, <<"claimWrite", "promote">>}
                /\ next.ids = now.ids /\ still
             \/ next.at = "file" /\ batch'[now.msg].state = "created"
             \/ next.at = "announce"

SpeculateMove ==
    LET now  == job["speculate"]
        next == job'["speculate"]
        b == next.msg
    IN \/ next = now \/ next.at = "idle"
       \/ /\ now.at = "put" /\ next.at = "delete" /\ b = now.msg /\ next.was = now.was
          /\ records' = records \cup {<<batch[b].state, b>>} /\ UNCHANGED batch
       \/ /\ next.at = "put" /\ b \in Batch /\ batch'[b].state # "creating"
          /\ UNCHANGED records /\ \E s \in Live : <<s, b>> \in records
          /\ batch'[b].state \in DependencyStates =>
               next.was \in DependencyStates /\ Rank[next.was] < Rank[batch'[b].state]

OthersMove ==
    /\ \A g \in Slot : job'[g].topic = "batch" /\ job'[g].at = "publish" =>
          (\E k \in Slot : job'[g] = job[k]) \/ job'[g].ver \in Batch'
    /\ \A g \in Slot : job'[g].topic = "cancel" /\ job'[g].at = "handOff" =>
          \/ \E k \in Slot : job'[g] = job[k]
          \/ \A b \in job'[g].ids : FirstOf(job'[g].ids, b) => batch'[b].state = "cancelling"
    /\ job'["dlq"].at = "fanOut" =>
          job'["dlq"] = job["dlq"] \/ batch'[job'["dlq"].msg[2]].state = "failed"

DepsMove(b) ==
    \/ /\ batch'[b].deps = batch[b].deps
       /\ batch'[b].state \in DependencyStates \cup {"creating"} => batch'[b].state = batch[b].state
    \/ /\ batch'[b].deps = batch[b].deps /\ batch'[b].state \in DependencyStates
       /\ OnItsWay(b) /\ job["speculate"].at = "idle"
    \/ /\ batch'[b].deps = job["analysis"].ids /\ batch'[b].state = "created"
       /\ batch[b].state = "creating"
       /\ job["analysis"].at = "promote" /\ job["analysis"].msg = b

Filing(s, b) ==
    /\ batch[b].state # "creating"
    /\ batch[b].state \in DependencyStates =>
         \/ s \in DependencyStates /\ OnItsWay(b)
         \/ s = "created" /\ Queue # <<>> /\ b = Head(Queue)
Unfiling(s, b) ==
    \/ Aside(b)
    \/ job["speculate"].at = "delete" /\ job["speculate"].msg = b /\ job["speculate"].was = s
RecordsMove ==
    \/ UNCHANGED records
    \/ /\ UNCHANGED batch
       /\ \A b \in Batch, s \in BatchState :
            /\ <<s, b>> \in records' /\ <<s, b>> \notin records => Filing(s, b)
            /\ <<s, b>> \in records /\ <<s, b>> \notin records' => Unfiling(s, b)

StoresMove == index \subseteq index' /\ RecordsMove /\ \A b \in Batch : DepsMove(b)
HandlersMove == AnalysisMove /\ SpeculateMove /\ OthersMove
SerialMove == QueueMove /\ HandlersMove /\ StoresMove

(* The slot a step is about.                                                *)

Only(h, next) == job'[h] = next /\ \A g \in Slot \ {h} : job'[g] = job[g]

LEMMA OneSlotSet ==
    ASSUME Types, NEW h \in Slot, NEW next, job' = [job EXCEPT ![h] = next]
    PROVE  Only(h, next)
  BY DEF Types, Jobs, Only

LEMMA Slots == /\ {"analysis", "batch", "cancel", "dlq", "start", "validate", "check", "signal", "conclude"} = Topic
               /\ Topic \cup {"late", "speculate"} = Slot
  BY DEF Topic, Slot

LEMMA Elsewhere ==
    ASSUME NEW h \in Slot, NEW next, Only(h, next),
           h \in {"analysis", "speculate"} => next.at = "idle",
           next.topic = "batch" /\ next.at = "publish" => next.ver \in Batch',
           next.topic = "cancel" /\ next.at = "handOff" =>
             \A b \in next.ids : FirstOf(next.ids, b) => batch'[b].state = "cancelling",
           h = "dlq" /\ next.at = "fanOut" => batch'[next.msg[2]].state = "failed"
    PROVE  HandlersMove
<1>1. {"analysis", "speculate", "dlq"} \subseteq Slot
  BY Slots
<1>2. AnalysisMove /\ SpeculateMove
  BY <1>1 DEF AnalysisMove, SpeculateMove, Only
<1>3. \A g \in Slot : g # h => job'[g] = job[g]
  BY DEF Only
<1> QED BY <1>1, <1>2, <1>3 DEF HandlersMove, OthersMove, Only

LEMMA Ended ==
    ASSUME NEW h \in Slot, Only(h, Idle)
    PROVE  HandlersMove
  BY Elsewhere, IdleHolds DEF Idle

LEMMA InAnalysis ==
    ASSUME NEW next, Only("analysis", next), next.topic = "analysis", AnalysisMove
    PROVE  HandlersMove
<1>1. SpeculateMove /\ OthersMove
  BY Slots DEF SpeculateMove, OthersMove, Only
<1> QED BY <1>1 DEF HandlersMove

LEMMA InSpeculate ==
    ASSUME NEW next, Only("speculate", next), next.topic = "speculate", SpeculateMove
    PROVE  HandlersMove
<1>1. AnalysisMove /\ OthersMove
  BY Slots DEF AnalysisMove, OthersMove, Only
<1> QED BY <1>1 DEF HandlersMove

(* The topic.                                                               *)

LEMMA QueueStays ==
    ASSUME UNCHANGED <<topic, sent>>
    PROVE  QueueMove
  BY DEF QueueMove, Queue

LEMMA Ending ==
    ASSUME Types, NEW h \in Slot, NEW t \in Topic, NEW m, ReturnNil(h, t, m, {}),
           t = "analysis" => h = "analysis"
    PROVE  QueueMove /\ HandlersMove
<1>1. Only(h, Idle) /\ sent \subseteq sent'
  BY OneSlotSet DEF ReturnNil
<1>2. topic' = Without(t, m) \/ topic' = topic
  BY DEF ReturnNil
<1>3. \/ Queue' = Queue
      \/ t = "analysis" /\ Queue # <<>> /\ Queue' = Tail(Queue)
  BY <1>2, Slots DEF Without, Queue, Types, Queues
<1>4. t = "analysis" => job'["analysis"].at = "idle"
  BY <1>1 DEF Only, Idle
<1> QED BY <1>1, <1>3, <1>4, Ended DEF QueueMove

LEMMA Handing ==
    ASSUME Types, NEW h \in Slot, NEW t \in Topic \ {"analysis"}, NEW m,
           NEW u \in Topic \ {"analysis"}, NEW o, ReturnNil(h, t, m, {<<u, o>>})
    PROVE  QueueMove /\ HandlersMove
<1>1. Only(h, Idle) /\ sent \subseteq sent'
  BY OneSlotSet DEF ReturnNil
<1>2. (CHOOSE x \in {<<u, o>>} : TRUE) = <<u, o>> /\ {<<u, o>>} # {}
  OBVIOUS
<1>3. topic' = Publish(Without(t, m), u, o) \/ topic' = Publish(topic, u, o)
  BY <1>2 DEF ReturnNil
<1>4. Queue' = Queue
  BY <1>3, Slots DEF Without, Publish, Queue, Types, Queues
<1> QED BY <1>1, <1>4, Ended DEF QueueMove

LEMMA Staying ==
    ASSUME UNCHANGED <<batch, records, index>>
    PROVE  StoresMove
  BY DEF StoresMove, RecordsMove, DepsMove

(* Every step is such a move. Users and faults.                             *)

LEMMA UserSerial ==
    ASSUME Types, User
    PROVE  SerialMove
<1>1. UNCHANGED <<batch, records, index, job>> /\ sent \subseteq sent'
  BY DEF User, Land, Cancel, rows
<1>2. \E t \in {"start", "cancel"} : \E r : topic' = Publish(topic, t, r)
  BY DEF User, Land, Cancel
<1>3. Queue' = Queue
  BY <1>2, Slots DEF Publish, Queue, Types, Queues
<1>4. HandlersMove
  BY <1>1 DEF HandlersMove, AnalysisMove, SpeculateMove, OthersMove
<1> QED BY <1>1, <1>3, <1>4, Staying DEF SerialMove, QueueMove

LEMMA FaultSerial ==
    ASSUME Types, HoldsLease("analysis"), NEW t \in Topic, Crash(t) \/ Expire(t) \/ GiveUp(t)
    PROVE  SerialMove
<1>1. UNCHANGED <<batch, records, index, sent>>
  BY DEF Crash, Expire, GiveUp, rows
<1>2. t \in Slot /\ t # "late" /\ "late" \in Slot
  BY Slots
<1>3. CASE Crash(t)
  BY <1>1, <1>2, <1>3, Staying, QueueStays, OneSlotSet, Ended DEF Crash, SerialMove
<1>4. CASE Expire(t)
  <2>1. t # "analysis"
    BY <1>4 DEF Expire, CanFault, HoldsLease
  <2>2. /\ job'["late"] = job[t] /\ job'[t] = Idle
        /\ \A g \in Slot \ {"late", t} : job'[g] = job[g]
    BY <1>2, <1>4 DEF Expire, Types, Jobs
  <2>3. {"analysis", "speculate", "dlq"} \subseteq Slot \ {"late"} /\ t # "speculate"
    BY Slots DEF Topic
  <2>4. AnalysisMove /\ SpeculateMove
    BY <2>1, <2>2, <2>3 DEF AnalysisMove, SpeculateMove
  <2>5. \A g \in Slot : job'[g] = Idle \/ \E k \in Slot : job'[g] = job[k]
    BY <1>2, <2>2
  <2>6. OthersMove
    BY <2>2, <2>3, <2>5 DEF OthersMove, Idle
  <2> QED BY <1>1, <1>4, <2>4, <2>6, Staying, QueueStays DEF Expire, SerialMove, HandlersMove
<1>5. CASE GiveUp(t)
  <2>1. Only(t, Idle)
    BY <1>2, <1>5, OneSlotSet DEF GiveUp
  <2>2. IF t = "analysis" THEN Queue # <<>> /\ Queue' = Tail(Queue) ELSE Queue' = Queue
    BY <1>5, Slots DEF GiveUp, Queue, Types, Queues, Topic
  <2>3. t = "analysis" => job'["analysis"].at = "idle"
    BY <2>1 DEF Only, Idle
  <2> QED BY <1>1, <1>2, <2>1, <2>2, <2>3, Staying, Ended DEF SerialMove, QueueMove
<1> QED BY <1>3, <1>4, <1>5

(* Deliveries and steps of the intake stages.                               *)

\* The handler in slot h goes on as next.
LEMMA GoesOn ==
    ASSUME Types, NEW h \in Slot, NEW next, Continue(h, next)
    PROVE  Only(h, next) /\ QueueMove /\ UNCHANGED <<topic, sent>>
  BY OneSlotSet, QueueStays DEF Continue

LEMMA OpenedIs ==
    ASSUME NEW t, NEW m, NEW pc
    PROVE  LET o == Opened(t, m, pc) IN
           o.topic = t /\ o.msg = m /\ o.at = pc /\ o.ids = {}
  BY DEF Opened

LEMMA IntakeSerial ==
    ASSUME Types, NEW r \in Request,
           StartCreate(r) \/ ValidateRead(r) \/ RunwayCheck(r) \/ BatchRead(r)
    PROVE  SerialMove
<1>1. StoresMove
  BY Staying DEF StartCreate, ValidateRead, RunwayCheck, BatchRead, rows
<1>2. {"start", "validate", "check", "signal", "batch"} \subseteq (Topic \ {"analysis", "dlq", "speculate"}) \cap Slot
  BY Slots
<1>3. ASSUME NEW t \in {"start", "validate", "batch"}, NEW pc \in {"publish", "claim", "mint"},
             t = "batch" => pc = "mint", Continue(t, Opened(t, r, pc))
      PROVE  SerialMove
  <2> DEFINE next == Opened(t, r, pc)
  <2>1. next.topic = t /\ next.at = pc /\ Continue(t, next)
    BY <1>3, OpenedIs
  <2> HIDE DEF next
  <2>2. Only(t, next) /\ QueueMove
    BY <1>2, <2>1, GoesOn
  <2>3. HandlersMove
    BY <1>2, <1>3, <2>1, <2>2, Elsewhere
  <2> QED BY <1>1, <2>2, <2>3 DEF SerialMove
<1>4. CASE StartCreate(r)
  BY <1>3, <1>4 DEF StartCreate
<1>5. CASE ValidateRead(r)
  <2>1. \/ ReturnNil("validate", "validate", r, {})
        \/ Continue("validate", Opened("validate", r, "claim"))
    BY <1>5 DEF ValidateRead
  <2> QED BY <1>1, <1>2, <1>3, <2>1, Ending DEF SerialMove
<1>6. CASE BatchRead(r)
  <2>1. \/ ReturnNil("batch", "batch", r, {})
        \/ Continue("batch", Opened("batch", r, "mint"))
    BY <1>6 DEF BatchRead
  <2> QED BY <1>1, <1>2, <1>3, <2>1, Ending DEF SerialMove
<1>7. CASE RunwayCheck(r)
  <2>1. \E l : ReturnNil("check", "check", r, {<<"signal", l>>})
    BY <1>7 DEF RunwayCheck
  <2> QED BY <1>1, <1>2, <2>1, Handing DEF SerialMove
<1> QED BY <1>4, <1>5, <1>6, <1>7

LEMMA SignalSerial ==
    ASSUME Types, NEW r \in Request, SignalRead(r)
    PROVE  SerialMove
<1>1. StoresMove
  BY Staying DEF SignalRead
<1>2. "signal" \in (Topic \ {"analysis", "dlq", "speculate"}) \cap Slot
  BY Slots
<1>3. PICK m : \/ ReturnNil("signal", "signal", m, {})
               \/ Continue("signal", Opened("signal", m, "publish"))
  <2>1. PICK landable \in BOOLEAN, origin \in {"live", "dlq"} :
          \/ ReturnNil("signal", "signal", <<r, landable, origin>>, {})
          \/ Continue("signal", Opened("signal", <<r, landable, origin>>, "publish"))
    BY DEF SignalRead
  <2> QED BY <2>1
<1>4. CASE ReturnNil("signal", "signal", m, {})
  BY <1>1, <1>2, <1>4, Ending DEF SerialMove
<1>5. CASE Continue("signal", Opened("signal", m, "publish"))
  <2> DEFINE next == Opened("signal", m, "publish")
  <2>1. next.topic = "signal" /\ Continue("signal", next)
    BY <1>5, OpenedIs
  <2> HIDE DEF next
  <2>2. Only("signal", next) /\ QueueMove
    BY <1>2, <2>1, GoesOn
  <2> QED BY <1>1, <1>2, <2>1, <2>2, Elsewhere DEF SerialMove
<1> QED BY <1>3, <1>4, <1>5

LEMMA CancelMarkSerial ==
    ASSUME Types, NEW r \in Request, CancelMark(r)
    PROVE  SerialMove
<1>1. StoresMove
  BY Staying DEF CancelMark
<1>2. "cancel" \in (Topic \ {"analysis", "dlq", "speculate"}) \cap Slot
  BY Slots
<1> DEFINE next == Opened("cancel", r, "find")
           none == request[r].state = "none"
           over == request[r].state \in TerminalRequest
<1>3. next.topic = "cancel" /\ next.at = "find"
  BY OpenedIs
<1>4. \/ /\ topic' = [topic EXCEPT !["cancel"] = Tail(@), !["dlq"] = Append(@, <<"cancel", r>>)]
         /\ UNCHANGED <<job, sent>>
      \/ over /\ ReturnNil("cancel", "cancel", r, {})
      \/ ~none /\ ~over /\ Continue("cancel", next)
  BY DEF CancelMark
<1> HIDE DEF next, none, over
<1>5. CASE /\ topic' = [topic EXCEPT !["cancel"] = Tail(@), !["dlq"] = Append(@, <<"cancel", r>>)]
           /\ UNCHANGED <<job, sent>>
  <2>1. Queue' = Queue
    BY <1>5, Slots DEF Queue, Types, Queues
  <2>2. HandlersMove
    BY <1>5 DEF HandlersMove, AnalysisMove, SpeculateMove, OthersMove
  <2> QED BY <1>1, <1>5, <2>1, <2>2 DEF SerialMove, QueueMove
<1>6. CASE ReturnNil("cancel", "cancel", r, {})
  BY <1>1, <1>2, <1>6, Ending DEF SerialMove
<1>7. CASE Continue("cancel", next)
  <2>1. Only("cancel", next) /\ QueueMove
    BY <1>2, <1>7, GoesOn
  <2> QED BY <1>1, <1>2, <1>3, <2>1, Elsewhere DEF SerialMove
<1> QED BY <1>4, <1>5, <1>6, <1>7

LEMMA ConcludeSerial ==
    ASSUME Types, NEW b \in Batch, Conclude(b)
    PROVE  SerialMove
<1>1. StoresMove
  BY Staying DEF Conclude
<1>2. "conclude" \in (Topic \ {"analysis"}) \cap Slot
  BY Slots
<1> QED BY <1>1, <1>2, Ending DEF Conclude, SerialMove

\* Where a handler of a topic runs.
LEMMA Where ==
    ASSUME Types, NEW h \in Topic \cup {"late"}, job[h].topic # "none"
    PROVE  /\ h \in Slot /\ h # "speculate" /\ h \in {"late", job[h].topic}
           /\ job[h].topic = "analysis" /\ HoldsLease("analysis") => h = "analysis"
<1>1. h \in Slot /\ h # "speculate"
  BY Slots DEF Topic
<1>2. h = "late" \/ h = job[h].topic
  BY <1>1 DEF Types, Jobs, InSlot
<1>3. job[h].topic = "analysis" /\ HoldsLease("analysis") => h = "analysis"
  BY <1>1, Slots, OnlySlot
<1> QED BY <1>1, <1>2, <1>3

LEMMA PublishSerial ==
    ASSUME Types, NEW h \in Topic \cup {"late"},
           StartPublish(h) \/ ValidateClaim(h) \/ ValidateReject(h) \/ SignalPublish(h)
    PROVE  SerialMove
<1>1. StoresMove
  BY Staying DEF StartPublish, ValidateClaim, ValidateReject, SignalPublish, rows
<1>2. {"start", "validate", "check", "signal", "batch"} \subseteq Topic \ {"analysis"}
  BY Slots
<1>3. h \in Slot
  BY Slots
<1>4. CASE StartPublish(h)
  BY <1>1, <1>2, <1>3, <1>4, Handing DEF StartPublish, Return, SerialMove
<1>5. CASE ValidateClaim(h)
  BY <1>1, <1>2, <1>3, <1>5, Handing DEF ValidateClaim, Return, SerialMove
<1>6. CASE ValidateReject(h)
  BY <1>1, <1>2, <1>3, <1>6, Ending DEF ValidateReject, Return, SerialMove
<1>7. CASE SignalPublish(h)
  BY <1>1, <1>2, <1>3, <1>7, Handing DEF SignalPublish, Return, SerialMove
<1> QED BY <1>4, <1>5, <1>6, <1>7

\* The one message for the analysis topic.
LEMMA BatchPublishSerial ==
    ASSUME Types, Lined, NEW h \in Topic \cup {"late"}, BatchPublish(h)
    PROVE  SerialMove
<1>0. PICK n, m : n = job[h].ver /\ m = job[h].msg
  OBVIOUS
<1>1. StoresMove
  BY Staying DEF BatchPublish, rows
<1>2. h \in Slot /\ "batch" \in Topic
  BY Slots
<1>3. n \in Batch
  BY <1>0, <1>2 DEF BatchPublish, Lined
<1>4. ReturnNil(h, "batch", m, {<<"analysis", n>>})
  BY <1>0 DEF BatchPublish, Return
<1>5. Only(h, Idle)
  BY <1>2, <1>4, OneSlotSet DEF ReturnNil
<1>6. (CHOOSE x \in {<<"analysis", n>>} : TRUE) = <<"analysis", n>> /\ {<<"analysis", n>>} # {}
  OBVIOUS
<1>7. /\ \/ topic' = Publish(Without("batch", m), "analysis", n)
         \/ topic' = Publish(topic, "analysis", n)
      /\ sent \subseteq sent'
  BY <1>4, <1>6 DEF ReturnNil
<1>8. Knows(n)'
  <2>1. sent' = sent \cup {IntentID(o[1], o[2]) : o \in {<<"analysis", n>>}}
    BY <1>4 DEF ReturnNil
  <2>2. IntentID("analysis", n) = <<"analysis", n>>
    BY DEF IntentID
  <2>3. <<"analysis", n>> \in sent'
    BY <2>1, <2>2
  <2> QED BY <2>3 DEF Knows
<1>9. IF Knows(n) THEN Queue' = Queue ELSE Queue' = Append(Queue, n)
  <2>1. Without("batch", m)["analysis"] = Queue /\ DOMAIN Without("batch", m) = Topic
    BY <1>2, Slots DEF Without, Queue, Types, Queues
  <2>2. topic["analysis"] = Queue /\ DOMAIN topic = Topic /\ "analysis" \in Topic
    BY Slots DEF Queue, Types, Queues
  <2>3. IntentID("analysis", n) \in sent <=> Knows(n)
    BY DEF IntentID, Knows
  <2> HIDE DEF Queue
  <2>4. topic'["analysis"] = IF Knows(n) THEN Queue ELSE Append(Queue, n)
    BY <1>7, <2>1, <2>2, <2>3 DEF Publish
  <2> QED BY <2>4 DEF Queue
<1>10. QueueMove
  BY <1>3, <1>7, <1>8, <1>9 DEF QueueMove
<1> QED BY <1>1, <1>2, <1>5, <1>10, Ended DEF SerialMove

LEMMA BatchMintSerial ==
    ASSUME Types, NEW h \in Topic \cup {"late"}, BatchMint(h)
    PROVE  SerialMove
<1> DEFINE n    == Len(batch) + 1
           old  == job[h]
           next == [old EXCEPT !.at = "publish", !.ver = n]
<1>1. /\ Continue(h, next) /\ UNCHANGED <<records, index>> /\ batch' = BatchCreated(old.msg)
      /\ old.topic = "batch"
  BY DEF BatchMint
<1>2. old \in JobType /\ h \in Slot /\ h # "dlq" /\ h \notin {"analysis", "speculate"}
  BY <1>1, Where, Slots DEF Types, Jobs
<1>3. next.topic = "batch" /\ next.ver = n /\ next.at = "publish"
  <2> HIDE DEF old, n
  <2> QED BY <1>1, <1>2 DEF JobType
<1>4. /\ n \in Nat /\ Len(batch) \in Nat
      /\ \A b \in Batch : batch'[b] = batch[b]
      /\ Len(batch') = n
  BY <1>1, BatchKeys DEF BatchCreated, Types, Batches
<1>5. n \in Batch'
  BY <1>4 DEF Batch
<1> HIDE DEF next, n
<1>6. Only(h, next) /\ QueueMove
  BY <1>1, <1>2, GoesOn
<1>7. HandlersMove
  BY <1>2, <1>3, <1>5, <1>6, Elsewhere
<1>8. StoresMove
  BY <1>1, <1>4 DEF StoresMove, RecordsMove, DepsMove
<1> QED BY <1>6, <1>7, <1>8 DEF SerialMove

(* Changes of a batch row.                                                  *)

LEMMA UpdatedIs ==
    ASSUME Types, NEW b \in Batch, NEW s, NEW d, batch' = BatchUpdated(b, s, d)
    PROVE  /\ batch'[b].state = s /\ batch'[b].deps = d
           /\ \A x \in Batch \ {b} : batch'[x] = batch[x]
<1> DEFINE row == [[batch[b] EXCEPT !.state = s] EXCEPT !.deps = d]
<1>1. row.state = s /\ row.deps = d
  <2> DEFINE old == batch[b]
  <2>1. old \in BatchRow(Len(batch))
    BY BatchKeys DEF Types
  <2> HIDE DEF old
  <2> QED BY <2>1 DEF BatchRow, old
<1>2. batch' = [batch EXCEPT ![b] = row] /\ DOMAIN batch = Batch
  BY BatchKeys DEF BatchUpdated, Types
<1> HIDE DEF row
<1>3. batch'[b] = row /\ \A x \in Batch \ {b} : batch'[x] = batch[x]
  BY <1>2
<1> QED BY <1>1, <1>3

LEMMA SpeculateSerial ==
    ASSUME Types, NEW b \in Batch, Speculate(b)
    PROVE  SerialMove
<1> DEFINE was  == batch[b].state
           base == Opened("speculate", b, "put")
           next == [base EXCEPT !.was = was]
<1>1. PICK s \in Moves[was] : batch' = BatchUpdated(b, s, batch[b].deps) /\ Continue("speculate", next)
  BY DEF Speculate
<1>2. /\ was \in Live /\ (\E k \in Live : <<k, b>> \in records) /\ job["speculate"].at = "idle"
      /\ UNCHANGED <<records, index>> /\ "speculate" \in Slot
  BY Slots DEF Speculate
<1>3. next.topic = "speculate" /\ next.msg = b /\ next.at = "put" /\ next.was = was
  BY DEF Opened
<1>4. /\ s # "creating"
      /\ s \in DependencyStates => was \in DependencyStates /\ Rank[was] < Rank[s]
  <2> HIDE DEF was
  <2> QED BY <1>1, <1>2 DEF Moves, Live, DependencyStates, Rank
<1>5. /\ batch'[b].state = s /\ batch'[b].deps = batch[b].deps
      /\ \A x \in Batch \ {b} : batch'[x] = batch[x]
  BY <1>1, UpdatedIs
<1>6. \A x \in Batch : DepsMove(x)
  <2>1. DepsMove(b)
    <3>1. CASE s \in DependencyStates
      BY <1>2, <1>4, <1>5, <3>1 DEF DepsMove, OnItsWay
    <3>2. CASE s \notin DependencyStates
      BY <1>4, <1>5, <3>2 DEF DepsMove
    <3> QED BY <3>1, <3>2
  <2>2. ASSUME NEW x \in Batch \ {b} PROVE DepsMove(x)
    BY <1>5 DEF DepsMove
  <2> QED BY <2>1, <2>2
<1>7. StoresMove
  BY <1>2, <1>6 DEF StoresMove, RecordsMove
<1> HIDE DEF next
<1>8. Only("speculate", next) /\ QueueMove
  BY <1>1, <1>2, GoesOn
<1>9. SpeculateMove
  BY <1>2, <1>3, <1>4, <1>5, <1>8 DEF SpeculateMove, Only
<1> QED BY <1>3, <1>7, <1>8, <1>9, InSpeculate DEF SerialMove

LEMMA SpeculateRecordsSerial ==
    ASSUME Types, Followed, SpeculatePut \/ SpeculateDelete
    PROVE  SerialMove
<1> DEFINE old == job["speculate"]
           b   == old.msg
           was == old.was
<1>1. "speculate" \in Slot /\ old \in JobType /\ old.at # "idle"
  BY Slots DEF Types, Jobs, SpeculatePut, SpeculateDelete
<1>2. b \in Batch /\ old.topic = "speculate"
  <2>1. old.topic \in {"speculate", "none"}
    BY <1>1 DEF Types, Jobs, InSlot
  <2> QED BY <1>1, <2>1 DEF Types, Jobs, Holds
<1>3. UNCHANGED <<batch, index>> /\ \A x \in Batch : DepsMove(x)
  BY DEF SpeculatePut, SpeculateDelete, DepsMove
<1>4. CASE SpeculatePut
  <2> DEFINE next == [old EXCEPT !.at = "delete"]
  <2>1. /\ Continue("speculate", next) /\ records' = records \cup {<<batch[b].state, b>>}
        /\ old.at = "put"
    BY <1>4 DEF SpeculatePut, GoTo, RecordPut
  <2>2. next.topic = "speculate" /\ next.at = "delete" /\ next.msg = b /\ next.was = was
    <3> HIDE DEF old
    <3> QED BY <1>1, <1>2 DEF JobType
  <2> HIDE DEF next
  <2>3. Only("speculate", next) /\ QueueMove
    BY <1>1, <2>1, GoesOn
  <2>4. SpeculateMove
    BY <1>3, <2>1, <2>2, <2>3 DEF SpeculateMove, Only
  <2>5. Filing(batch[b].state, b)
    BY <1>1 DEF Followed, SpeculateFollows, Filing
  <2>6. RecordsMove
    BY <1>3, <2>1, <2>5 DEF RecordsMove
  <2> QED BY <1>3, <2>2, <2>3, <2>4, <2>6, InSpeculate DEF SerialMove, StoresMove
<1>5. CASE SpeculateDelete
  <2>1. /\ records' = records \ {<<was, b>>} /\ old.at = "delete" /\ job' = [job EXCEPT !["speculate"] = Idle]
        /\ \/ topic' = Publish(topic, "conclude", b) /\ sent' = sent \cup {<<"conclude", b>>}
           \/ UNCHANGED <<topic, sent>>
    BY <1>5 DEF SpeculateDelete
  <2>2. Queue' = Queue /\ sent \subseteq sent'
    BY <2>1, Slots DEF Queue, Publish, Types, Queues
  <2>3. HandlersMove
    BY <1>1, <2>1, OneSlotSet, Ended
  <2>4. Unfiling(was, b)
    BY <2>1 DEF Unfiling
  <2>5. RecordsMove
    BY <1>3, <2>1, <2>4 DEF RecordsMove
  <2> QED BY <1>3, <2>2, <2>3, <2>5 DEF SerialMove, StoresMove, QueueMove
<1> QED BY <1>4, <1>5

(* The analysis handler.                                                    *)

LEMMA AnalysisReadSerial ==
    ASSUME Types, NEW b \in Batch, AnalysisRead(b)
    PROVE  SerialMove
<1>1. "analysis" \in Topic \cap Slot
  BY Slots
<1>2. UNCHANGED <<batch, index>> /\ (\A x \in Batch : DepsMove(x))
      /\ Queue # <<>> /\ b = Head(Queue)
  BY DEF AnalysisRead, DepsMove, Delivered, Queue
<1>3. \/ /\ batch[b].state = "created" /\ records' = records \cup {<<"created", b>>}
         /\ Continue("analysis", Opened("analysis", b, "announce"))
      \/ Continue("analysis", Opened("analysis", b, "created")) /\ UNCHANGED records
      \/ ReturnNil("analysis", "analysis", b, {}) /\ UNCHANGED records
  BY DEF AnalysisRead, RecordPut
<1>4. RecordsMove
  <2>1. batch[b].state = "created" => Filing("created", b)
    BY <1>2 DEF Filing
  <2> QED BY <1>2, <1>3, <2>1 DEF RecordsMove
<1>5. StoresMove
  BY <1>2, <1>4 DEF StoresMove
<1>6. ASSUME NEW pc \in {"announce", "created"}, Continue("analysis", Opened("analysis", b, pc)),
             pc = "created" => UNCHANGED records
      PROVE  SerialMove
  <2> DEFINE next == Opened("analysis", b, pc)
  <2>1. next.topic = "analysis" /\ next.msg = b /\ next.at = pc /\ next.ids = {} /\ Continue("analysis", next)
    BY <1>6, OpenedIs
  <2> HIDE DEF next
  <2>2. Only("analysis", next) /\ QueueMove /\ Queue' = Queue
    BY <1>1, <2>1, GoesOn DEF Queue
  <2>3. AnalysisMove
    BY <1>2, <1>6, <2>1, <2>2 DEF AnalysisMove, Only
  <2> QED BY <1>5, <2>1, <2>2, <2>3, InAnalysis DEF SerialMove
<1>7. CASE ReturnNil("analysis", "analysis", b, {})
  BY <1>1, <1>5, <1>7, Ending DEF SerialMove
<1> QED BY <1>3, <1>6, <1>7

LEMMA AnalysisGoesOn ==
    ASSUME Types, NEW next, Continue("analysis", next), StoresMove, next.topic = "analysis",
           next = job'["analysis"] => AnalysisMove
    PROVE  SerialMove
<1>1. Only("analysis", next) /\ QueueMove
  BY GoesOn, Slots
<1> QED BY <1>1, InAnalysis DEF SerialMove, Only

LEMMA AnalysisSerial ==
    ASSUME Types, Lined, Followed, HoldsLease("analysis"), NEW h \in Topic \cup {"late"}, Analysis(h)
    PROVE  SerialMove
<1> DEFINE old == job["analysis"]
           b   == old.msg
<1>1. job[h].topic = "analysis"
  BY DEF Analysis, AnalysisScan, AnalysisResolve, AnalysisClaimRead, AnalysisClaimWrite,
         AnalysisPromote, AnalysisFile, AnalysisAnnounce
<1>2. h = "analysis" /\ old.topic = "analysis" /\ "analysis" \in Topic \cap Slot
  BY <1>1, Where, Slots
<1>3. old \in JobType /\ b \in Batch
  BY <1>2, AtWork DEF Types
<1>4. CASE AnalysisScan(h)
  <2> DEFINE i == old.ids \cup RecordsIn(old.at)
             pc == NextBucket[old.at]
             next == [old EXCEPT !.at = pc, !.ids = i]
  <2>1. Continue("analysis", next) /\ UNCHANGED <<batch, records, index>> /\ old.at \in DependencyStates
    BY <1>2, <1>4 DEF AnalysisScan, rows
  <2>2. next.topic = "analysis" /\ next.msg = b /\ next.at = pc /\ next.ids = i
    <3> HIDE DEF old, i, pc
    <3> QED BY <1>2, <1>3 DEF JobType
  <2> HIDE DEF next
  <2>3. next = job'["analysis"] => AnalysisMove
    BY <2>1, <2>2 DEF AnalysisMove, DependencyStates
  <2> QED BY <2>1, <2>2, <2>3, AnalysisGoesOn, Staying
<1>5. CASE AnalysisResolve(h)
  <2> DEFINE i == Hydrated(old.ids)
             next == [old EXCEPT !.at = "claim", !.ids = i]
  <2>1. /\ Continue("analysis", next) /\ UNCHANGED <<batch, records>> /\ old.at = "resolve"
        /\ index' = index \cup (i \X {b})
    BY <1>2, <1>5 DEF AnalysisResolve, Conflicts, DependentsUpdated
  <2>2. next.topic = "analysis" /\ next.msg = b /\ next.at = "claim" /\ next.ids = i
    <3> HIDE DEF old, i
    <3> QED BY <1>2, <1>3 DEF JobType
  <2>3. StoresMove
    BY <2>1 DEF StoresMove, RecordsMove, DepsMove
  <2> HIDE DEF next, i
  <2>4. next = job'["analysis"] => AnalysisMove
    BY <2>1, <2>2 DEF AnalysisMove, i
  <2> QED BY <2>1, <2>2, <2>3, <2>4, AnalysisGoesOn
<1>6. CASE AnalysisClaimRead(h)
  <2> DEFINE now  == request[batch[b].req]
             next == [old EXCEPT !.at = "claimWrite", !.ver = now.ver]
  <2>1. /\ UNCHANGED <<batch, records, index>> /\ old.at = "claim"
        /\ \/ ReturnNil(h, "analysis", b, {})
           \/ Continue("analysis", next)
    BY <1>2, <1>6 DEF AnalysisClaimRead, Return, rows
  <2>2. next.topic = "analysis" /\ next.msg = b /\ next.at = "claimWrite" /\ next.ids = old.ids
    <3> HIDE DEF old, now
    <3> QED BY <1>2, <1>3 DEF JobType
  <2> HIDE DEF next
  <2>3. CASE ReturnNil(h, "analysis", b, {})
    BY <1>2, <2>1, <2>3, Ending, Staying DEF SerialMove
  <2>4. next = job'["analysis"] => AnalysisMove
    BY <2>1, <2>2 DEF AnalysisMove
  <2> QED BY <2>1, <2>2, <2>3, <2>4, AnalysisGoesOn, Staying
<1>7. CASE AnalysisClaimWrite(h)
  <2> DEFINE next == [old EXCEPT !.at = "promote"]
  <2>1. /\ UNCHANGED <<batch, records, index>> /\ old.at = "claimWrite"
        /\ \/ ReturnNil(h, "analysis", b, {})
           \/ Continue("analysis", next)
    BY <1>2, <1>7 DEF AnalysisClaimWrite, Return, GoTo
  <2>2. next.topic = "analysis" /\ next.msg = b /\ next.at = "promote" /\ next.ids = old.ids
    <3> HIDE DEF old
    <3> QED BY <1>2, <1>3 DEF JobType
  <2> HIDE DEF next
  <2>3. CASE ReturnNil(h, "analysis", b, {})
    BY <1>2, <2>1, <2>3, Ending, Staying DEF SerialMove
  <2>4. next = job'["analysis"] => AnalysisMove
    BY <2>1, <2>2 DEF AnalysisMove
  <2> QED BY <2>1, <2>2, <2>3, <2>4, AnalysisGoesOn, Staying
<1>8. CASE AnalysisPromote(h)
  <2> DEFINE next == [old EXCEPT !.at = "file"]
  <2>1. /\ UNCHANGED <<records, index>> /\ old.at = "promote"
        /\ \/ /\ batch[b].state = "creating" /\ batch' = BatchUpdated(b, "created", old.ids)
              /\ Continue("analysis", next)
           \/ Retry(h) /\ UNCHANGED batch
    BY <1>2, <1>8 DEF AnalysisPromote, GoTo
  <2>2. next.topic = "analysis" /\ next.msg = b /\ next.at = "file" /\ next.ids = old.ids
    <3> HIDE DEF old
    <3> QED BY <1>2, <1>3 DEF JobType
  <2> HIDE DEF next
  <2>3. CASE Retry(h) /\ UNCHANGED batch
    <3>1. Only(h, Idle)
      BY <1>2, <2>3, OneSlotSet DEF Retry
    <3> QED BY <1>2, <2>1, <2>3, <3>1, Ended, QueueStays, Staying DEF Retry, SerialMove
  <2>4. CASE /\ batch[b].state = "creating" /\ batch' = BatchUpdated(b, "created", old.ids)
             /\ Continue("analysis", next)
    <3>1. /\ batch'[b].state = "created" /\ batch'[b].deps = old.ids
          /\ \A x \in Batch \ {b} : batch'[x] = batch[x]
      BY <1>3, <2>4, UpdatedIs
    <3>2. \A x \in Batch : DepsMove(x)
      BY <2>1, <2>4, <3>1 DEF DepsMove
    <3>3. StoresMove
      BY <2>1, <3>2 DEF StoresMove, RecordsMove
    <3>4. next = job'["analysis"] => AnalysisMove
      BY <2>1, <2>2, <3>1 DEF AnalysisMove
    <3> QED BY <2>2, <2>4, <3>3, <3>4, AnalysisGoesOn
  <2> QED BY <2>1, <2>3, <2>4
<1>9. CASE AnalysisFile(h)
  <2> DEFINE next == [old EXCEPT !.at = "announce"]
  <2>1. /\ Continue("analysis", next) /\ UNCHANGED <<batch, index>> /\ old.at = "file"
        /\ records' = records \cup {<<"created", b>>}
    BY <1>2, <1>9 DEF AnalysisFile, GoTo, RecordPut
  <2>2. next.topic = "analysis" /\ next.msg = b /\ next.at = "announce"
    <3> HIDE DEF old
    <3> QED BY <1>2, <1>3 DEF JobType
  <2>3. Filing("created", b)
    BY <2>1 DEF Filing, Followed, Lined
  <2>4. StoresMove
    BY <2>1, <2>3 DEF StoresMove, RecordsMove, DepsMove
  <2> HIDE DEF next
  <2>5. next = job'["analysis"] => AnalysisMove
    BY <2>1, <2>2 DEF AnalysisMove
  <2> QED BY <2>1, <2>2, <2>4, <2>5, AnalysisGoesOn
<1>10. CASE AnalysisAnnounce(h)
  <2>1. UNCHANGED <<batch, records, index>> /\ ReturnNil(h, "analysis", b, {})
    BY <1>2, <1>10 DEF AnalysisAnnounce, Return, rows
  <2> QED BY <1>2, <2>1, Ending, Staying DEF SerialMove
<1> QED BY <1>4, <1>5, <1>6, <1>7, <1>8, <1>9, <1>10 DEF Analysis

(* The cancel stage.                                                        *)

LEMMA CancelGoesOn ==
    ASSUME Types, NEW h \in {"late", "cancel"}, NEW next, Continue(h, next), StoresMove,
           next.topic = "cancel",
           next.at = "handOff" =>
             \A b \in next.ids : FirstOf(next.ids, b) => batch'[b].state = "cancelling"
    PROVE  SerialMove
<1>1. h \in Slot /\ h \notin {"analysis", "speculate", "dlq"}
  BY Slots
<1>2. Only(h, next) /\ QueueMove
  BY <1>1, GoesOn
<1> QED BY <1>1, <1>2, Elsewhere DEF SerialMove

LEMMA CancelSerial ==
    ASSUME Types, Followed, NEW h \in Topic \cup {"late"}, CancelStage(h)
    PROVE  SerialMove
<1> DEFINE old == job[h]
<1>1. /\ old \in JobType /\ old.ids \subseteq Batch /\ old.topic = "cancel"
      /\ "cancel" \in Topic \ {"analysis"} /\ h \in Slot /\ Batch \subseteq Nat
  BY AtWork, BatchKeys, Slots DEF Types, CancelStage, CancelFind, CancelRequest, CancelBatch,
                                  CancelHandOff, CancelReturn
<1>2. h \in {"late", "cancel"}
  BY <1>1, Where
<1>3. CASE CancelFind(h)
  <2> DEFINE found == {b \in FindByRequestID(old.msg) : batch[b].state # "creating"}
             pc    == IF found = {} THEN "terminate" ELSE "batches"
             ids   == {b \in found : batch[b].state \in Cancellable}
             next  == [old EXCEPT !.at = pc, !.ids = ids]
  <2>1. UNCHANGED <<batch, records, index>> /\ Continue(h, next)
    BY <1>3 DEF CancelFind, rows
  <2>2. pc # "handOff"
    OBVIOUS
  <2>3. next.topic = "cancel" /\ next.at = pc
    <3> HIDE DEF old, pc, ids
    <3> QED BY <1>1 DEF JobType
  <2> HIDE DEF next, pc
  <2> QED BY <1>2, <2>1, <2>2, <2>3, CancelGoesOn, Staying
<1>4. CASE CancelRequest(h)
  BY <1>1, <1>4, Ending, Staying DEF CancelRequest, Return, SerialMove
<1>5. CASE CancelBatch(h)
  <2>1. PICK b \in old.ids :
          /\ FirstOf(old.ids, b) /\ old.at = "batches" /\ UNCHANGED <<records, index>>
          /\ \/ /\ batch[b].state \in Cancellable
                /\ batch' = BatchUpdated(b, "cancelling", batch[b].deps)
                /\ Continue(h, [old EXCEPT !.at = "handOff", !.was = batch[b].state])
             \/ /\ Continue(h, [old EXCEPT !.ids = old.ids \ {b}, !.ver = 1])
                /\ UNCHANGED batch
    BY <1>5 DEF CancelBatch
  <2>2. CASE /\ batch' = BatchUpdated(b, "cancelling", batch[b].deps)
             /\ Continue(h, [old EXCEPT !.at = "handOff", !.was = batch[b].state])
    <3> DEFINE was  == batch[b].state
               next == [old EXCEPT !.at = "handOff", !.was = was]
    <3>1. next.topic = "cancel" /\ next.ids = old.ids
      <4> HIDE DEF old, was
      <4> QED BY <1>1 DEF JobType
    <3>2. /\ batch'[b].state = "cancelling" /\ batch'[b].deps = batch[b].deps
          /\ \A x \in Batch \ {b} : batch'[x] = batch[x]
      BY <1>1, <2>2, UpdatedIs
    <3>3. \A x \in old.ids : FirstOf(old.ids, x) => x = b
      <4> SUFFICES ASSUME NEW x \in old.ids, FirstOf(old.ids, x) PROVE x = b
        OBVIOUS
      <4>1. x =< b /\ b =< x /\ x \in Nat /\ b \in Nat
        BY <1>1, <2>1 DEF FirstOf
      <4> QED BY <4>1
    <3>4. \A x \in Batch : DepsMove(x)
      BY <3>2 DEF DepsMove, DependencyStates
    <3>5. StoresMove
      BY <2>1, <3>4 DEF StoresMove, RecordsMove
    <3>6. Continue(h, next)
      BY <2>2
    <3> HIDE DEF next
    <3> QED BY <1>2, <3>1, <3>2, <3>3, <3>5, <3>6, CancelGoesOn
  <2>3. CASE Continue(h, [old EXCEPT !.ids = old.ids \ {b}, !.ver = 1]) /\ UNCHANGED batch
    <3> DEFINE ids  == old.ids \ {b}
               next == [old EXCEPT !.ids = ids, !.ver = 1]
    <3>1. next.topic = "cancel" /\ next.at = "batches"
      <4> HIDE DEF old, ids
      <4> QED BY <1>1, <2>1 DEF JobType
    <3>2. Continue(h, next)
      BY <2>3
    <3> HIDE DEF next
    <3> QED BY <1>2, <2>1, <2>3, <3>1, <3>2, CancelGoesOn, Staying
  <2> QED BY <2>1, <2>2, <2>3
<1>6. CASE CancelHandOff(h)
  <2>1. PICK b \in old.ids :
          /\ FirstOf(old.ids, b) /\ old.at = "handOff"
          /\ records' = (records \ {<<old.was, b>>}) \cup {<<"cancelling", b>>}
          /\ Continue(h, [old EXCEPT !.at = "batches", !.ids = old.ids \ {b}])
          /\ UNCHANGED <<batch, index>>
    BY <1>6 DEF CancelHandOff, RecordMoved
  <2> DEFINE ids  == old.ids \ {b}
             next == [old EXCEPT !.at = "batches", !.ids = ids]
  <2>2. next.topic = "cancel" /\ next.at = "batches"
    <3> HIDE DEF old, ids
    <3> QED BY <1>1 DEF JobType
  <2>3. Aside(b)
    BY <1>1, <2>1 DEF Followed
  <2>4. StoresMove
    BY <2>1, <2>3 DEF StoresMove, RecordsMove, DepsMove, Filing, Unfiling, Aside
  <2>5. Continue(h, next)
    BY <2>1
  <2> HIDE DEF next
  <2> QED BY <1>2, <2>2, <2>4, <2>5, CancelGoesOn
<1>7. CASE CancelReturn(h)
  <2>1. UNCHANGED <<batch, records, index>> /\ (Retry(h) \/ ReturnNil(h, "cancel", old.msg, {}))
    BY <1>1, <1>7 DEF CancelReturn, Return, rows
  <2>2. CASE Retry(h)
    <3>1. Only(h, Idle)
      BY <1>1, <2>2, OneSlotSet DEF Retry
    <3> QED BY <1>1, <2>1, <2>2, <3>1, Ended, QueueStays, Staying DEF Retry, SerialMove
  <2> QED BY <1>1, <2>1, <2>2, Ending, Staying DEF SerialMove
<1> QED BY <1>3, <1>4, <1>5, <1>6, <1>7 DEF CancelStage

(* The dead-letter reconcilers.                                             *)

LEMMA DeadRequestSerial ==
    ASSUME Types, NEW r \in Request, NEW t \in Topic, DLQRequest(t, r) \/ DLQCheck(r)
    PROVE  SerialMove
<1>1. {"dlq", "signal"} \subseteq Topic \ {"analysis", "speculate"} /\ "dlq" \in Slot
  BY Slots DEF Topic
<1>2. CASE DLQCheck(r)
  BY <1>1, <1>2, Handing, Staying DEF DLQCheck, SerialMove, rows
<1>3. CASE DLQRequest(t, r)
  <2> DEFINE m    == <<t, r>>
             next == Opened("dlq", m, "fail")
  <2>1. next.topic = "dlq" /\ next.at = "fail"
    BY OpenedIs
  <2>2. /\ ReturnNil("dlq", "dlq", m, {}) \/ Continue("dlq", next)
        /\ UNCHANGED <<batch, records, index>>
    BY <1>3 DEF DLQRequest, rows
  <2> HIDE DEF next, m
  <2>3. CASE ReturnNil("dlq", "dlq", m, {})
    BY <1>1, <2>2, <2>3, Ending, Staying DEF SerialMove
  <2>4. CASE Continue("dlq", next)
    <3>1. Only("dlq", next) /\ QueueMove
      BY <1>1, <2>4, GoesOn
    <3> QED BY <1>1, <2>1, <2>2, <3>1, Elsewhere, Staying DEF SerialMove
  <2> QED BY <2>2, <2>3, <2>4
<1> QED BY <1>2, <1>3

LEMMA DeadSignalSerial ==
    ASSUME Types, NEW m, DLQSignal(m)
    PROVE  SerialMove
<1>1. "dlq" \in Topic \ {"analysis", "speculate"} /\ "dlq" \in Slot
  BY Slots DEF Topic
<1> QED BY <1>1, Ending, Staying DEF DLQSignal, SerialMove

LEMMA DeadBatchSerial ==
    ASSUME Types, NEW b \in Batch, NEW t \in Topic, DLQBatch(t, b)
    PROVE  SerialMove
<1>1. "dlq" \in Topic \ {"analysis", "speculate"} /\ "dlq" \in Slot
  BY Slots DEF Topic
<1> DEFINE m    == <<t, b>>
           was  == batch[b].state
           next == [Opened("dlq", m, "fanOut") EXCEPT !.was = was]
<1>2. /\ UNCHANGED <<records, index>>
      /\ \/ ReturnNil("dlq", "dlq", m, {}) /\ UNCHANGED batch
         \/ /\ batch' = BatchUpdated(b, "failed", batch[b].deps)
            /\ Continue("dlq", next)
  BY DEF DLQBatch
<1>3. next.topic = "dlq" /\ next.msg[2] = b
  BY DEF Opened
<1> HIDE DEF m, next
<1>4. CASE ReturnNil("dlq", "dlq", m, {}) /\ UNCHANGED batch
  BY <1>1, <1>2, <1>4, Ending, Staying DEF SerialMove
<1>5. CASE /\ batch' = BatchUpdated(b, "failed", batch[b].deps)
           /\ Continue("dlq", next)
  <2>1. /\ batch'[b].state = "failed" /\ batch'[b].deps = batch[b].deps
        /\ \A x \in Batch \ {b} : batch'[x] = batch[x]
    BY <1>5, UpdatedIs
  <2>2. \A x \in Batch : DepsMove(x)
    BY <2>1 DEF DepsMove, DependencyStates
  <2>3. StoresMove
    BY <1>2, <2>2 DEF StoresMove, RecordsMove
  <2>4. Only("dlq", next) /\ QueueMove
    BY <1>1, <1>5, GoesOn
  <2>5. HandlersMove
    BY <1>1, <1>3, <2>1, <2>4, Elsewhere
  <2> QED BY <2>3, <2>4, <2>5 DEF SerialMove
<1> QED BY <1>2, <1>4, <1>5

LEMMA DeadEndSerial ==
    ASSUME Types, Followed, DLQFail \/ DLQFanOut
    PROVE  SerialMove
<1>1. "dlq" \in Topic \ {"analysis", "speculate"} /\ "dlq" \in Slot
  BY Slots DEF Topic
<1>2. job["dlq"].topic = "dlq"
  <2>1. job["dlq"].at # "idle" /\ job["dlq"].topic \in {"none", "dlq"}
    BY <1>1 DEF DLQFail, DLQFanOut, Types, Jobs, InSlot
  <2> QED BY <1>1, <2>1 DEF Types, Jobs, Holds
<1>3. CASE DLQFail
  BY <1>1, <1>2, <1>3, Ending, Staying DEF DLQFail, Return, SerialMove
<1>4. CASE DLQFanOut
  <2> DEFINE b == job["dlq"].msg[2]
  <2>1. /\ UNCHANGED <<batch, index>> /\ ReturnNil("dlq", "dlq", job["dlq"].msg, {})
        /\ records' = (records \ {<<job["dlq"].was, b>>}) \cup {<<"failed", b>>}
    BY <1>2, <1>4 DEF DLQFanOut, Return, RecordMoved
  <2>2. Aside(b)
    BY <1>4 DEF Followed, DLQFanOut
  <2>3. StoresMove
    BY <2>1, <2>2 DEF StoresMove, RecordsMove, DepsMove, Filing, Unfiling, Aside
  <2> QED BY <1>1, <2>1, <2>3, Ending DEF SerialMove
<1> QED BY <1>3, <1>4

LEMMA StepSerial ==
    ASSUME Types, Lined, Followed, HoldsLease("analysis"), [Next]_vars
    PROVE  SerialMove
<1>1. CASE UNCHANGED vars
  <2>1. UNCHANGED <<batch, records, index, topic, sent, job>>
    BY <1>1 DEF vars
  <2> QED BY <2>1, Staying, QueueStays
          DEF SerialMove, HandlersMove, AnalysisMove, SpeculateMove, OthersMove
<1>2. CASE User
  BY <1>2, UserSerial
<1>3. CASE Fault
  BY <1>3, FaultSerial DEF Fault
<1>4. CASE Stage
  <2>1. ASSUME NEW r \in Request, \/ StartCreate(r) \/ ValidateRead(r) \/ RunwayCheck(r)
                                  \/ SignalRead(r) \/ BatchRead(r) \/ CancelMark(r)
        PROVE  SerialMove
    BY <2>1, IntakeSerial, SignalSerial, CancelMarkSerial
  <2>2. ASSUME NEW b \in Batch, AnalysisRead(b) \/ Speculate(b) \/ Conclude(b)
        PROVE  SerialMove
    BY <2>2, AnalysisReadSerial, SpeculateSerial, ConcludeSerial
  <2>3. ASSUME NEW h \in Topic \cup {"late"}, Step(h)
        PROVE  SerialMove
    BY <2>3, PublishSerial, BatchPublishSerial, BatchMintSerial, AnalysisSerial, CancelSerial DEF Step
  <2> QED BY <1>4, <2>1, <2>2, <2>3, SpeculateRecordsSerial DEF Stage
<1>5. CASE DeadLetter
  <2>1. ASSUME NEW t \in Topic, \/ \E r \in Request : DLQRequest(t, r)
                                \/ \E b \in Batch : DLQBatch(t, b)
        PROVE  SerialMove
    BY <2>1, DeadRequestSerial, DeadBatchSerial
  <2>2. ASSUME NEW r \in Request, DLQCheck(r)
        PROVE  SerialMove
    BY <2>2, Slots, DeadRequestSerial
  <2>3. ASSUME NEW m, DLQSignal(m)
        PROVE  SerialMove
    BY <2>3, DeadSignalSerial
  <2> QED BY <1>5, <2>1, <2>2, <2>3, DeadEndSerial DEF DeadLetter
<1> QED BY <1>1, <1>2, <1>3, <1>4, <1>5 DEF Next

(* What the moves keep.                                                     *)

LEMMA LiveStates ==
    /\ DependencyStates \subseteq Live /\ Live \subseteq BatchState
    /\ "creating" \notin Live /\ "created" \in DependencyStates
    /\ \A s \in DependencyStates : Rank[s] \in 1..3
    /\ \A s, k \in DependencyStates : Rank[s] = Rank[k] => s = k
<1>1. /\ DependencyStates \subseteq Live /\ Live \subseteq BatchState
      /\ "creating" \notin Live /\ "created" \in DependencyStates
  BY DEF Live, DependencyStates, BatchState, HaltedBatch
<1>2. Rank["created"] = 1 /\ Rank["speculating"] = 2 /\ Rank["landing"] = 3
  BY DEF Rank
<1> QED BY <1>1, <1>2 DEF DependencyStates

LEMMA Growing ==
    ASSUME Types, StepMove
    PROVE  Batch \subseteq Batch' /\ \A b \in Batch' : b \notin Batch => batch'[b].state = "creating"
  BY Widening DEF Types, StepMove, RowsMove, BatchesMove

\* Only the batch in hand comes to be on its way.
LEMMA WayBack ==
    ASSUME Types, StepMove, Followed, StoresMove, NEW x \in Batch', OnItsWay(x)'
    PROVE  /\ x \in Batch
           /\ \/ OnItsWay(x)
              \/ Queue # <<>> /\ x = Head(Queue) /\ batch[x].state \in DependencyStates
<1>1. batch'[x].state \in DependencyStates
  BY DEF OnItsWay
<1>2. PICK s \in Live : <<s, x>> \in records'
  BY DEF OnItsWay
<1>3. x \in Batch
  BY <1>1, Growing, LiveStates
<1>4. DepsMove(x) /\ RecordsMove
  BY <1>3 DEF StoresMove
<1>5. CASE batch'[x].state = batch[x].state
  <2>1. CASE <<s, x>> \in records
    BY <1>1, <1>3, <1>5, <2>1 DEF OnItsWay
  <2>2. CASE <<s, x>> \notin records
    <3>1. Filing(s, x)
      BY <1>2, <1>3, <1>4, <2>2, LiveStates DEF RecordsMove
    <3> QED BY <1>1, <1>3, <1>5, <3>1 DEF Filing
  <2> QED BY <2>1, <2>2
<1>6. CASE batch'[x].state # batch[x].state /\ batch[x].state = "creating"
  <2>1. UNCHANGED records
    BY <1>4, <1>6 DEF RecordsMove
  <2> QED BY <1>2, <1>3, <1>6, <2>1, LiveStates DEF Followed
<1>7. CASE OnItsWay(x)
  BY <1>3, <1>7
<1> QED BY <1>1, <1>4, <1>5, <1>6, <1>7 DEF DepsMove

\* The record of a batch on its way is only replaced by a later one.
LEMMA RecordKept ==
    ASSUME Followed, StoresMove, NEW x \in Batch, batch[x].state \in DependencyStates,
           NEW s \in DependencyStates, <<s, x>> \in records
    PROVE  \E k \in DependencyStates : Rank[k] >= Rank[s] /\ <<k, x>> \in records'
<1>1. Rank[s] \in 1..3 /\ s \in BatchState
  BY LiveStates
<1>2. CASE <<s, x>> \in records'
  BY <1>1, <1>2
<1>3. CASE <<s, x>> \notin records'
  <2> DEFINE k == batch[x].state
  <2>1. Unfiling(s, x)
    BY <1>1, <1>3 DEF StoresMove, RecordsMove
  <2>2. /\ job["speculate"].at = "delete" /\ job["speculate"].msg = x
        /\ job["speculate"].was = s
    BY <2>1 DEF Unfiling, Aside
  <2>3. Rank[s] < Rank[k] /\ <<k, x>> \in records /\ k \in BatchState
    BY <2>2, LiveStates DEF Followed, SpeculateFollows
  <2>4. k # s /\ Rank[k] >= Rank[s]
    BY <1>1, <2>3, LiveStates
  <2>5. <<k, x>> \in records'
    <3>1. SUFFICES ASSUME <<k, x>> \notin records' PROVE FALSE
      OBVIOUS
    <3>2. Unfiling(k, x)
      BY <2>3, <3>1 DEF StoresMove, RecordsMove
    <3> QED BY <2>2, <2>4, <3>2 DEF Unfiling, Aside
  <2> QED BY <2>4, <2>5
<1> QED BY <1>2, <1>3

LEMMA PastKept ==
    ASSUME StoresMove, NEW b \in Batch
    PROVE  /\ batch[b].state # "creating" => batch'[b].state # "creating"
           /\ Aside(b) => Aside(b)'
  BY LiveStates DEF StoresMove, DepsMove, Aside, OnItsWay

LEMMA SerialKept ==
    ASSUME StoresMove, NEW x \in Batch, NEW y \in Batch, Serial(x, y),
           batch[x].state # "creating", batch[y].state # "creating"
    PROVE  Serial(x, y)'
<1>1. batch'[x].deps = batch[x].deps /\ batch'[y].deps = batch[y].deps /\ index \subseteq index'
  BY DEF StoresMove, DepsMove
<1> QED BY <1>1 DEF Serial, Behind

\* Only the first of the topic is promoted.
LEMMA PromotedIsFirst ==
    ASSUME Lined, StoresMove, NEW b \in Batch, batch'[b].state \in DependencyStates,
           batch[b].state \notin DependencyStates
    PROVE  /\ Queue # <<>> /\ b = Head(Queue) /\ Knows(b) /\ job["analysis"].at = "promote"
           /\ batch'[b].deps = job["analysis"].ids
<1>1. /\ job["analysis"].at = "promote" /\ job["analysis"].msg = b
      /\ batch'[b].deps = job["analysis"].ids
  BY DEF StoresMove, DepsMove, OnItsWay
<1>2. Queue # <<>> /\ b = Head(Queue) /\ Queue \in Seq(Batch)
  BY <1>1 DEF Lined
<1>3. 1 \in 1..Len(Queue) /\ b = Queue[1]
  BY <1>2
<1> QED BY <1>1, <1>2, <1>3 DEF Lined

LEMMA LinedStep ==
    ASSUME Types, Lined, StepMove, SerialMove
    PROVE  Lined'
<1>1. Queue \in Seq(Batch) /\ Batch \subseteq Batch'
  BY Growing DEF Lined
<1>2. \A b : Knows(b) => Knows(b)'
  BY DEF SerialMove, QueueMove, Knows
<1>3. \A b \in Batch' : batch'[b].state \in DependencyStates => b \in Batch /\ Knows(b)
  <2> SUFFICES ASSUME NEW b \in Batch', batch'[b].state \in DependencyStates
               PROVE  b \in Batch /\ Knows(b)
    OBVIOUS
  <2>1. b \in Batch
    BY Growing, LiveStates
  <2> QED BY <2>1, PromotedIsFirst DEF SerialMove, Lined
<1>4. \A i \in 2..Len(Queue) : batch'[Queue[i]].state \notin DependencyStates
  <2> SUFFICES ASSUME NEW i \in 2..Len(Queue), batch'[Queue[i]].state \in DependencyStates
               PROVE  FALSE
    OBVIOUS
  <2>1. i \in 1..Len(Queue) /\ 1 \in 1..Len(Queue) /\ Queue[i] \in Batch /\ i # 1
        /\ Head(Queue) = Queue[1]
    BY <1>1
  <2>2. batch[Queue[i]].state \notin DependencyStates
    BY DEF Lined
  <2>3. Queue[i] = Queue[1]
    BY <2>1, <2>2, PromotedIsFirst DEF SerialMove
  <2> QED BY <2>1, <2>3 DEF Lined
<1> DEFINE Row(q) ==
      /\ q \in Seq(Batch)
      /\ \A i, k \in 1..Len(q) : q[i] = q[k] => i = k
      /\ \A i \in 1..Len(q) : Knows(q[i])'
      /\ \A i \in 2..Len(q) : batch'[q[i]].state \notin DependencyStates
<1>0. PICK q, new : q = Queue /\ new = Queue'
  OBVIOUS
<1>5. Row(new)
  <2>1. /\ q \in Seq(Batch)
        /\ \A i, k \in 1..Len(q) : q[i] = q[k] => i = k
        /\ \A i \in 1..Len(q) : Knows(q[i])
        /\ \A i \in 1..Len(q) : Knows(q[i])'
        /\ \A i \in 2..Len(q) : batch'[q[i]].state \notin DependencyStates
    BY <1>0, <1>1, <1>2, <1>4 DEF Lined
  <2>2. CASE new = q
    BY <2>1, <2>2
  <2>3. CASE q # <<>> /\ new = Tail(q)
    <3>1. /\ Tail(q) \in Seq(Batch) /\ Len(Tail(q)) = Len(q) - 1 /\ Len(q) \in Nat
          /\ \A i \in 1..Len(Tail(q)) : Tail(q)[i] = q[i + 1] /\ i + 1 \in 2..Len(q) /\ i + 1 \in 1..Len(q)
      BY <2>1, <2>3
    <3>2. \A i, k \in 1..Len(Tail(q)) : Tail(q)[i] = Tail(q)[k] => i = k
      <4> SUFFICES ASSUME NEW i \in 1..Len(Tail(q)), NEW k \in 1..Len(Tail(q)),
                          Tail(q)[i] = Tail(q)[k]
                   PROVE  i = k
        OBVIOUS
      <4>1. i + 1 = k + 1
        BY <2>1, <3>1
      <4> QED BY <3>1, <4>1
    <3>3. \A i \in 1..Len(Tail(q)) : Knows(Tail(q)[i])' /\ batch'[Tail(q)[i]].state \notin DependencyStates
      BY <2>1, <3>1
    <3>4. \A i \in 2..Len(Tail(q)) : i \in 1..Len(Tail(q))
      BY <3>1
    <3> QED BY <2>3, <3>1, <3>2, <3>3, <3>4
  <2>4. CASE \E n \in Batch : ~Knows(n) /\ Knows(n)' /\ new = Append(q, n)
    <3>1. PICK n \in Batch : ~Knows(n) /\ Knows(n)' /\ new = Append(q, n)
      BY <2>4
    <3>2. batch'[n].state \notin DependencyStates
      BY <1>1, <1>3, <3>1
    <3>3. \A i \in 1..Len(q) : q[i] # n
      BY <2>1, <3>1
    <3> DEFINE z == Append(q, n)
    <3>4. /\ z \in Seq(Batch) /\ Len(z) = Len(q) + 1 /\ Len(q) \in Nat
          /\ \A i \in 1..Len(z) : (i \in 1..Len(q) /\ z[i] = q[i]) \/ (i = Len(q) + 1 /\ z[i] = n)
      BY <2>1, <3>1
    <3> HIDE DEF z
    <3>5. \A i, k \in 1..Len(z) : z[i] = z[k] => i = k
      BY <2>1, <3>3, <3>4
    <3>6. \A i \in 1..Len(z) : Knows(z[i])'
      BY <2>1, <3>1, <3>4
    <3>7. \A i \in 2..Len(z) : batch'[z[i]].state \notin DependencyStates
      <4> SUFFICES ASSUME NEW i \in 2..Len(z) PROVE batch'[z[i]].state \notin DependencyStates
        OBVIOUS
      <4>1. i \in 1..Len(z)
        BY <3>4
      <4>2. CASE i \in 1..Len(q) /\ z[i] = q[i]
        <5>1. i \in 2..Len(q)
          BY <3>4, <4>2
        <5> QED BY <2>1, <4>2, <5>1
      <4> QED BY <3>2, <3>4, <4>1, <4>2
    <3>8. new = z
      BY <3>1 DEF z
    <3> QED BY <3>4, <3>5, <3>6, <3>7, <3>8
  <2> QED BY <1>0, <2>2, <2>3, <2>4 DEF SerialMove, QueueMove
<1>6. job'["analysis"].at # "idle" => Queue' # <<>> /\ job'["analysis"].msg = Head(Queue')
  <2> SUFFICES ASSUME job'["analysis"].at # "idle"
               PROVE  Queue' # <<>> /\ job'["analysis"].msg = Head(Queue')
    OBVIOUS
  <2>1. CASE Queue # <<>> /\ Queue' = Queue /\ job'["analysis"].msg = Head(Queue)
    BY <2>1
  <2>2. CASE job["analysis"].at # "idle" /\ job'["analysis"].msg = job["analysis"].msg
    <3>1. Queue # <<>> /\ job["analysis"].msg = Head(Queue)
      BY <2>2 DEF Lined
    <3>2. Queue' = Queue \/ \E n \in Batch : Queue' = Append(Queue, n)
      BY DEF SerialMove, QueueMove
    <3>3. Queue' # <<>> /\ Head(Queue') = Head(Queue)
      BY <1>1, <3>1, <3>2
    <3> QED BY <2>2, <3>1, <3>3
  <2> QED BY <2>1, <2>2 DEF SerialMove, HandlersMove, AnalysisMove
<1>7. ASSUME NEW h \in Slot, job'[h].topic = "batch", job'[h].at = "publish"
      PROVE  job'[h].ver \in Batch'
  BY <1>1, <1>7 DEF SerialMove, HandlersMove, OthersMove, Lined
<1>8. Row(new) => Lined'
  <2>1. Seq(Batch) \subseteq Seq(Batch')
    BY <1>1
  <2>2. \A b \in Batch' : batch'[b].state \in DependencyStates => Knows(b)'
    BY <1>2, <1>3
  <2> QED BY <1>0, <1>6, <1>7, <2>1, <2>2 DEF Lined
<1> QED BY <1>5, <1>8

LEMMA FollowedStep ==
    ASSUME Types, Types', Lined, Followed, StepMove, SerialMove
    PROVE  Followed'
<1>1. StoresMove /\ Batch \subseteq Batch'
  BY Growing DEF SerialMove
<1>2. ASSUME NEW b \in Batch', batch'[b].state = "creating", NEW s \in BatchState,
             <<s, b>> \in records'
      PROVE  FALSE
  <2>1. b \in Batch
    <3>1. CASE UNCHANGED records
      BY <1>2, <3>1 DEF Types, Sets
    <3>2. CASE UNCHANGED batch
      BY <1>2, <3>2 DEF Batch
    <3> QED BY <1>1, <3>1, <3>2 DEF StoresMove, RecordsMove
  <2>2. batch[b].state = "creating"
    BY <1>1, <1>2, <2>1, PastKept
  <2>3. <<s, b>> \notin records
    BY <1>2, <2>1, <2>2 DEF Followed
  <2>4. Filing(s, b)
    BY <1>1, <1>2, <2>1, <2>3 DEF StoresMove, RecordsMove
  <2> QED BY <2>2, <2>4 DEF Filing
<1>3. ASSUME NEW b \in Batch', OnItsWay(b)'
      PROVE  \E s \in DependencyStates : <<s, b>> \in records'
  <2>1. /\ b \in Batch /\ batch[b].state \in DependencyStates
    BY <1>1, <1>3, WayBack DEF OnItsWay
  <2>2. CASE OnItsWay(b)
    <3>1. PICK s \in DependencyStates : <<s, b>> \in records
      BY <2>1, <2>2 DEF Followed
    <3> QED BY <1>1, <2>1, <3>1, RecordKept
  <2>3. CASE ~OnItsWay(b)
    <3>1. PICK s \in Live : <<s, b>> \in records'
      BY <1>3 DEF OnItsWay
    <3>2. <<s, b>> \notin records
      BY <2>1, <2>3 DEF OnItsWay
    <3>3. Filing(s, b)
      BY <1>1, <2>1, <3>1, <3>2, LiveStates DEF StoresMove, RecordsMove
    <3> QED BY <2>1, <2>3, <3>1, <3>3, LiveStates DEF Filing
  <2> QED BY <2>2, <2>3
<1>4. ASSUME NEW h \in Slot, job'[h].topic = "cancel", job'[h].at = "handOff",
             NEW b \in job'[h].ids, FirstOf(job'[h].ids, b)
      PROVE  Aside(b)'
  <2>1. CASE batch'[b].state = "cancelling"
    BY <2>1 DEF Aside, DependencyStates
  <2>2. CASE \E k \in Slot : job'[h] = job[k]
    <3>1. PICK k \in Slot : job'[h] = job[k]
      BY <2>2
    <3>2. b \in Batch /\ Aside(b)
      BY <1>4, <3>1 DEF Types, Jobs, Holds, Followed
    <3> QED BY <1>1, <3>2, PastKept
  <2> QED BY <1>4, <2>1, <2>2 DEF SerialMove, HandlersMove, OthersMove
<1>5. ASSUME job'["dlq"].at = "fanOut"
      PROVE  Aside(job["dlq"].msg[2])'
  <2>0. PICK b : b = job'["dlq"].msg[2]
    OBVIOUS
  <2>1. CASE batch'[b].state = "failed"
    BY <2>0, <2>1 DEF Aside, DependencyStates
  <2>2. CASE job'["dlq"] = job["dlq"]
    <3>1. b \in Batch /\ Aside(b)
      BY <1>5, <2>0, <2>2, Slots DEF Types, Jobs, Holds, Followed
    <3>2. Aside(b)'
      BY <1>1, <3>1, PastKept
    <3> QED BY <2>0, <3>2 DEF Aside
  <2> QED BY <1>5, <2>0, <2>1, <2>2 DEF SerialMove, HandlersMove, OthersMove
<1>6. ASSUME job'["analysis"].at = "file"
      PROVE  batch'[job'["analysis"].msg].state # "creating"
  <2>1. CASE job'["analysis"] = job["analysis"]
    <3>1. job["analysis"].msg \in Batch
      BY <1>6, <2>1 DEF Lined
    <3> QED BY <1>1, <1>6, <2>1, <3>1, PastKept DEF Followed
  <2>2. CASE job'["analysis"].msg = job["analysis"].msg /\ batch'[job["analysis"].msg].state = "created"
    BY <2>2
  <2> QED BY <1>6, <2>1, <2>2
          DEF SerialMove, HandlersMove, AnalysisMove, NextBucket, DependencyStates
<1>7. ASSUME job'["speculate"].at # "idle"
      PROVE  SpeculateFollows'
  <2>0. PICK b, was, at : b = job'["speculate"].msg /\ was = job'["speculate"].was /\ at = job'["speculate"].at
    OBVIOUS
  <2> SUFFICES /\ at \in {"put", "delete"} /\ batch'[b].state # "creating"
               /\ batch'[b].state \in DependencyStates =>
                     /\ \E s \in Live : <<s, b>> \in records'
                     /\ was \in DependencyStates /\ Rank[was] < Rank[batch'[b].state]
                     /\ at = "delete" => <<batch'[b].state, b>> \in records'
    BY <2>0 DEF SpeculateFollows, OnItsWay
  <2>1. CASE job'["speculate"] = job["speculate"]
    <3>1. /\ job["speculate"].at = at /\ job["speculate"].msg = b /\ job["speculate"].was = was
          /\ at # "idle"
      BY <1>7, <2>0, <2>1
    <3>2. b \in Batch
      <4>1. "speculate" \in Slot
        BY Slots
      <4>2. job["speculate"].topic = "speculate"
        BY <3>1, <4>1 DEF Types, Jobs, Holds, InSlot
      <4> QED BY <3>1, <4>1, <4>2 DEF Types, Jobs, Holds
    <3>3. at \in {"put", "delete"} /\ batch'[b].state # "creating"
      BY <1>1, <3>1, <3>2, PastKept DEF Followed, SpeculateFollows
    <3>4. ASSUME batch'[b].state \in DependencyStates
          PROVE  /\ \E s \in Live : <<s, b>> \in records'
                 /\ was \in DependencyStates /\ Rank[was] < Rank[batch'[b].state]
                 /\ at = "delete" => <<batch'[b].state, b>> \in records'
      <4>1. batch'[b].state = batch[b].state
        BY <1>1, <3>1, <3>2, <3>4 DEF StoresMove, DepsMove, Followed, SpeculateFollows
      <4>2. /\ OnItsWay(b) /\ was \in DependencyStates /\ Rank[was] < Rank[batch[b].state]
            /\ at = "delete" => <<batch[b].state, b>> \in records
        BY <3>1, <3>4, <4>1 DEF Followed, SpeculateFollows
      <4>3. \E s \in Live : <<s, b>> \in records'
        <5>1. PICK s \in DependencyStates : <<s, b>> \in records
          BY <3>2, <4>2 DEF Followed
        <5> QED BY <1>1, <3>2, <3>4, <4>1, <5>1, RecordKept, LiveStates
      <4>4. ASSUME at = "delete" PROVE <<batch[b].state, b>> \in records'
        <5>1. SUFFICES ASSUME <<batch[b].state, b>> \notin records' PROVE FALSE
          OBVIOUS
        <5>2. Unfiling(batch[b].state, b)
          BY <1>1, <3>2, <3>4, <4>1, <4>2, <4>4, <5>1, LiveStates DEF StoresMove, RecordsMove
        <5>3. was = batch[b].state
          BY <3>1, <3>4, <4>1, <5>2 DEF Unfiling, Aside
        <5> QED BY <4>2, <5>3, LiveStates
      <4> QED BY <4>1, <4>2, <4>3, <4>4
    <3> QED BY <3>3, <3>4
  <2>2. CASE /\ job["speculate"].at = "put" /\ at = "delete" /\ job["speculate"].msg = b
             /\ job["speculate"].was = was
             /\ records' = records \cup {<<batch[b].state, b>>} /\ UNCHANGED batch
    BY <2>2, LiveStates DEF Followed, SpeculateFollows, OnItsWay
  <2>3. CASE /\ at = "put" /\ b \in Batch /\ batch'[b].state # "creating"
             /\ UNCHANGED records /\ \E s \in Live : <<s, b>> \in records
             /\ batch'[b].state \in DependencyStates =>
                  was \in DependencyStates /\ Rank[was] < Rank[batch'[b].state]
    BY <2>3
  <2> QED BY <1>7, <2>0, <2>1, <2>2, <2>3 DEF SerialMove, HandlersMove, SpeculateMove
<1>8. SpeculateFollows'
  BY <1>7 DEF SpeculateFollows
<1> QED BY <1>2, <1>3, <1>4, <1>5, <1>6, <1>8 DEF Followed

LEMMA ScannedStep ==
    ASSUME Types, Lined, Followed, Scanned, StepMove, SerialMove
    PROVE  Scanned'
<1> DEFINE now  == job["analysis"]
           next == job'["analysis"]
<1>1. StoresMove /\ index \subseteq index'
  BY DEF SerialMove, StoresMove
<1>2. ASSUME now.at # "idle" \/ next.msg = Head(Queue), Queue # <<>>,
             now.at # "idle" => next.msg = now.msg,
             NEW x \in Batch' \ {next.msg}, OnItsWay(x)'
      PROVE  x \in Batch \ {next.msg} /\ OnItsWay(x)
  <2>1. next.msg = Head(Queue)
    BY <1>2 DEF Lined
  <2> QED BY <1>1, <1>2, <2>1, WayBack
<1>3. CASE next = now /\ now.at # "idle"
  <2>1. Queue # <<>>
    BY <1>3 DEF Lined
  <2>2. ASSUME NEW x \in Batch' \ {next.msg}, OnItsWay(x)'
        PROVE  x \in Batch \ {now.msg} /\ OnItsWay(x)
    BY <1>2, <1>3, <2>1, <2>2
  <2>3. ASSUME now.at \in DependencyStates, NEW x \in Batch' \ {next.msg}, OnItsWay(x)', x \notin next.ids
        PROVE  \E s \in DependencyStates : Rank[s] >= Rank[next.at] /\ <<s, x>> \in records'
    <3>1. x \in Batch \ {now.msg} /\ OnItsWay(x)
      BY <2>2, <2>3
    <3>2. PICK s \in DependencyStates : Rank[s] >= Rank[now.at] /\ <<s, x>> \in records
      BY <1>3, <2>3, <3>1 DEF Scanned
    <3>3. PICK k \in DependencyStates : Rank[k] >= Rank[s] /\ <<k, x>> \in records'
      BY <1>1, <3>1, <3>2, RecordKept DEF OnItsWay
    <3>4. {Rank[s], Rank[k], Rank[now.at]} \subseteq 1..3
      BY <2>3, LiveStates
    <3>5. Rank[k] >= Rank[now.at]
      BY <3>2, <3>3, <3>4
    <3> QED BY <1>3, <3>3, <3>5
  <2>4. ASSUME now.at \in {"resolve", "claim", "claimWrite", "promote"},
               NEW x \in Batch' \ {next.msg}, OnItsWay(x)'
        PROVE  /\ x \in next.ids
               /\ now.at # "resolve" => <<x, next.msg>> \in index'
    BY <1>1, <1>3, <2>2, <2>4 DEF Scanned
  <2> QED BY <1>3, <2>3, <2>4 DEF Scanned
<1>4. CASE next.at = "idle"
  BY <1>4 DEF Scanned, DependencyStates
<1>5. CASE next.at \in {"announce", "file"}
  BY <1>5 DEF Scanned, DependencyStates
<1>6. CASE /\ Queue # <<>> /\ next.msg = Head(Queue) /\ next.at = "created"
           /\ UNCHANGED <<batch, records>>
  <2>1. ASSUME NEW x \in Batch' \ {next.msg}, OnItsWay(x)'
        PROVE  \E s \in DependencyStates : Rank[s] >= Rank["created"] /\ <<s, x>> \in records'
    <3>1. x \in Batch /\ OnItsWay(x)
      BY <1>6, <2>1 DEF Batch, OnItsWay
    <3>2. PICK s \in DependencyStates : <<s, x>> \in records
      BY <3>1 DEF Followed
    <3>3. Rank[s] \in 1..3 /\ Rank["created"] = 1
      BY LiveStates DEF Rank
    <3> QED BY <1>6, <3>2, <3>3
  <2> QED BY <1>6, <2>1 DEF Scanned, DependencyStates
<1>7. ASSUME now.at # "idle", next.msg = now.msg, UNCHANGED <<batch, records>>,
             NEW x \in Batch' \ {next.msg}, OnItsWay(x)'
      PROVE  x \in Batch \ {now.msg} /\ OnItsWay(x)
  BY <1>7 DEF Batch, OnItsWay
<1>8. CASE /\ now.at \in DependencyStates /\ next.msg = now.msg /\ next.at = NextBucket[now.at]
           /\ next.ids = now.ids \cup RecordsIn(now.at) /\ UNCHANGED <<batch, records>>
  <2>1. now.at # "idle"
    BY <1>8 DEF DependencyStates
  <2>2. ASSUME NEW x \in Batch' \ {next.msg}, OnItsWay(x)', x \notin next.ids
        PROVE  \E s \in DependencyStates : Rank[s] > Rank[now.at] /\ <<s, x>> \in records'
    <3>1. x \in Batch \ {now.msg} /\ OnItsWay(x)
      BY <1>7, <1>8, <2>1, <2>2
    <3>2. PICK s \in DependencyStates : Rank[s] >= Rank[now.at] /\ <<s, x>> \in records
      BY <1>8, <2>2, <3>1 DEF Scanned
    <3>3. s # now.at
      BY <1>8, <2>2, <3>1, <3>2 DEF RecordsIn
    <3>4. Rank[s] # Rank[now.at] /\ Rank[s] \in 1..3 /\ Rank[now.at] \in 1..3
      BY <1>8, <3>3, LiveStates
    <3> QED BY <1>8, <3>2, <3>4
  <2>3. CASE now.at \in {"created", "speculating"}
    <3>1. next.at \in DependencyStates /\ Rank[next.at] = Rank[now.at] + 1 /\ Rank[now.at] \in 1..3
      BY <1>8, <2>3 DEF NextBucket, DependencyStates, Rank
    <3>2. \A s \in DependencyStates : Rank[s] > Rank[now.at] => Rank[s] >= Rank[next.at]
      BY <3>1, LiveStates
    <3>3. \A x \in Batch' \ {next.msg} : OnItsWay(x)' /\ x \notin next.ids =>
            \E s \in DependencyStates : Rank[s] >= Rank[next.at] /\ <<s, x>> \in records'
      BY <2>2, <3>2
    <3> QED BY <3>1, <3>3 DEF Scanned, DependencyStates
  <2>4. CASE now.at = "landing"
    <3>1. next.at = "resolve" /\ Rank[now.at] = 3
      BY <1>8, <2>4 DEF NextBucket, Rank
    <3>2. \A x \in Batch' \ {next.msg} : OnItsWay(x)' => x \in next.ids
      <4> SUFFICES ASSUME NEW x \in Batch' \ {next.msg}, OnItsWay(x)', x \notin next.ids
                   PROVE  FALSE
        OBVIOUS
      <4>1. PICK s \in DependencyStates : Rank[s] > Rank[now.at]
        BY <2>2
      <4> QED BY <3>1, <4>1, LiveStates
    <3> QED BY <3>1, <3>2 DEF Scanned, DependencyStates
  <2> QED BY <1>8, <2>3, <2>4 DEF DependencyStates
<1>9. CASE /\ now.at = "resolve" /\ next.msg = now.msg /\ next.at = "claim"
           /\ next.ids = Hydrated(now.ids)
           /\ index' = index \cup (next.ids \X {now.msg}) /\ UNCHANGED <<batch, records>>
  <2>1. \A x \in Batch' \ {next.msg} : OnItsWay(x)' => x \in next.ids
    <3> SUFFICES ASSUME NEW x \in Batch' \ {next.msg}, OnItsWay(x)' PROVE x \in next.ids
      OBVIOUS
    <3>1. x \in Batch \ {now.msg} /\ OnItsWay(x)
      BY <1>7, <1>9
    <3>2. x \in now.ids
      BY <1>9, <3>1 DEF Scanned
    <3> QED BY <1>9, <3>1, <3>2 DEF Hydrated, OnItsWay
  <2> QED BY <1>9, <2>1 DEF Scanned, DependencyStates
<1>10. CASE /\ <<now.at, next.at>> \in {<<"claim", "claimWrite">>, <<"claimWrite", "promote">>}
            /\ next.msg = now.msg /\ next.ids = now.ids /\ UNCHANGED <<batch, records>>
  <2>1. /\ now.at \in {"claim", "claimWrite"} /\ next.at \in {"claimWrite", "promote"}
        /\ now.at # "idle"
    BY <1>10
  <2>2. \A x \in Batch' \ {next.msg} : OnItsWay(x)' => x \in next.ids /\ <<x, next.msg>> \in index'
    BY <1>1, <1>7, <1>10, <2>1 DEF Scanned
  <2> QED BY <2>1, <2>2 DEF Scanned, DependencyStates
<1> QED BY <1>3, <1>4, <1>5, <1>6, <1>8, <1>9, <1>10 DEF SerialMove, HandlersMove, AnalysisMove

LEMMA PendingStep ==
    ASSUME Types, Lined, Followed, Scanned, Pending, StepMove, SerialMove
    PROVE  Pending'
<1> SUFFICES ASSUME Queue' # <<>>, NEW y, y = Head(Queue'), batch'[y].state \in DependencyStates,
                    NEW x \in Batch', x # y, OnItsWay(x)'
             PROVE  Serial(x, y)'
  <2>1. ASSUME NEW y, y = Head(Queue'), NEW x, Serial(x, y)'
        PROVE  Serial(x, Head(Queue))'
    BY <2>1 DEF Serial, Behind
  <2> QED BY <2>1 DEF Pending
<1>1. StoresMove /\ Queue \in Seq(Batch)
  BY DEF SerialMove, Lined
<1>2. Queue # <<>> /\ y = Head(Queue) /\ y \in Batch
  <2>0. PICK q, new : q = Queue /\ new = Queue'
    OBVIOUS
  <2>1. CASE new = q
    BY <1>1, <2>0, <2>1
  <2>2. CASE q # <<>> /\ new = Tail(q)
    <3>1. 2 \in 2..Len(q) /\ 2 \in 1..Len(q) /\ 1 \in 1..Len(q) /\ y = q[2] /\ y \in Batch
          /\ Head(q) = q[1]
      BY <1>1, <2>0, <2>2
    <3>2. batch[y].state \notin DependencyStates
      BY <2>0, <3>1 DEF Lined
    <3>3. y = Head(Queue)
      BY <1>1, <3>1, <3>2, PromotedIsFirst
    <3> QED BY <2>0, <3>1, <3>3 DEF Lined
  <2>3. CASE \E n \in Batch : ~Knows(n) /\ new = Append(q, n)
    <3>1. PICK n \in Batch : ~Knows(n) /\ new = Append(q, n)
      BY <2>3
    <3>2. CASE q # <<>>
      BY <1>1, <2>0, <3>1, <3>2
    <3>3. CASE q = <<>>
      <4>1. y = n
        BY <2>0, <3>1, <3>3
      <4>2. batch[n].state \notin DependencyStates
        BY <3>1 DEF Lined
      <4> QED BY <1>1, <3>1, <4>1, <4>2, PromotedIsFirst
    <3> QED BY <3>2, <3>3
  <2> QED BY <2>0, <2>1, <2>2, <2>3 DEF SerialMove, QueueMove
<1>3. x \in Batch /\ OnItsWay(x)
  BY <1>1, <1>2, WayBack
<1>4. CASE batch[y].state \in DependencyStates
  <2>1. Serial(x, y)
    BY <1>2, <1>3, <1>4 DEF Pending
  <2> QED BY <1>1, <1>2, <1>3, <1>4, <2>1, SerialKept, LiveStates DEF OnItsWay
<1>5. CASE batch[y].state \notin DependencyStates
  <2>1. job["analysis"].at = "promote" /\ batch'[y].deps = job["analysis"].ids
    BY <1>1, <1>2, <1>5, PromotedIsFirst
  <2>2. job["analysis"].msg = y
    BY <1>2, <2>1 DEF Lined
  <2>3. x \in job["analysis"].ids /\ <<x, y>> \in index
    BY <1>3, <2>1, <2>2 DEF Scanned
  <2> QED BY <1>1, <2>1, <2>3 DEF Serial, Behind, StoresMove
<1> QED BY <1>4, <1>5

LEMMA SerialisedStep ==
    ASSUME Types, Lined, Followed, Pending, Serialised, StepMove, SerialMove
    PROVE  Serialised'
<1> SUFFICES ASSUME NEW x \in Batch', NEW y \in Batch', x < y, OnItsWay(x)', OnItsWay(y)'
             PROVE  Serial(x, y)'
  BY DEF Serialised, OnItsWay, Serial, Behind
<1>1. StoresMove
  BY DEF SerialMove
<1>2. x \in Batch /\ y \in Batch /\ x # y
  <2>1. x \in Batch /\ y \in Batch /\ Batch \subseteq Nat
    BY <1>1, WayBack, BatchKeys DEF Types
  <2> QED BY <2>1
<1>3. /\ \/ OnItsWay(x)
         \/ Queue # <<>> /\ x = Head(Queue) /\ batch[x].state \in DependencyStates
      /\ \/ OnItsWay(y)
         \/ Queue # <<>> /\ y = Head(Queue) /\ batch[y].state \in DependencyStates
  BY <1>1, WayBack
<1>4. Serial(x, y)
  <2>1. CASE OnItsWay(x) /\ OnItsWay(y)
    BY <1>2, <2>1 DEF Serialised, OnItsWay, Serial, Behind
  <2>2. CASE ~OnItsWay(x)
    <3>1. Serial(y, x)
      BY <1>2, <1>3, <2>2 DEF Pending
    <3> QED BY <3>1 DEF Serial
  <2>3. CASE ~OnItsWay(y)
    BY <1>2, <1>3, <2>3 DEF Pending
  <2> QED BY <2>1, <2>2, <2>3
<1>5. batch[x].state # "creating" /\ batch[y].state # "creating"
  BY <1>3, LiveStates DEF OnItsWay
<1> QED BY <1>1, <1>2, <1>4, <1>5, SerialKept

\* Two batches on their way to the trunk are serialized: one is in the other's
\* dependencies and the reverse index says so, although the buckets are listed
\* one at a time while batches move between them and a crash or a dead letter
\* may come anywhere, if the lease on the analysis partition outlives its
\* handler (dependencyanalysis.go, core/batch/list.go, transition.go).
THEOREM BatchesSerialised == ASSUME HoldsLease("analysis") PROVE Spec => []Serialised
<1> DEFINE Inv == CoreInv /\ SerialInv
<1>1. Init => Inv
  <2> SUFFICES ASSUME Init PROVE SerialInv
    BY CoreInit
  <2>1. Batch = {} /\ Queue = <<>>
    BY Slots DEF Init, Batch, Queue
  <2>2. \A h \in Slot : job[h] = Idle
    BY DEF Init
  <2>3. {"analysis", "speculate", "dlq"} \subseteq Slot
    BY Slots
  <2>4. Lined
    BY <2>1, <2>2, <2>3, IdleHolds DEF Lined, Idle
  <2>5. Followed /\ Scanned
    BY <2>1, <2>2, <2>3 DEF Followed, SpeculateFollows, Scanned, Idle, DependencyStates
  <2> QED BY <2>1, <2>4, <2>5 DEF SerialInv, Pending, Serialised
<1>2. Inv /\ [Next]_vars => Inv'
  <2> SUFFICES ASSUME Inv, [Next]_vars PROVE Inv'
    OBVIOUS
  <2>1. StepMove /\ CoreInv' /\ Types /\ Types'
    BY Moves1, CoreStep DEF CoreInv
  <2>2. SerialMove
    BY <2>1, StepSerial DEF SerialInv
  <2> QED BY <2>1, <2>2, LinedStep, FollowedStep, ScannedStep, PendingStep, SerialisedStep DEF SerialInv
<1>3. Inv => Serialised
  BY DEF SerialInv
<1> QED BY <1>1, <1>2, <1>3, PTL DEF Spec
=============================================================================
