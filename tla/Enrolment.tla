------------------------------ MODULE Enrolment ------------------------------
(***************************************************************************)
(* The front half of the orchestrator: the stages that take a land request  *)
(* from the gateway to a batch the speculate stage may build.               *)
(*                                                                         *)
(*   start -> validate -> (runway) -> landconflictsignal -> batch           *)
(*         -> dependency analysis -> speculate -> conclude                  *)
(*                                                                         *)
(* with the cancel stage running beside them and a dead-letter reconciler   *)
(* behind them. Every stage reads rows, decides, and writes under a version *)
(* check; no step of two stages is atomic with the other.                   *)
(*                                                                         *)
(* A message stays at the head of its topic until its handler acks it.      *)
(* A handler that reads, checks and writes under the version it read, and   *)
(* whose lost race is a retryable error, is one step: a lost race leaves    *)
(* nothing behind and the retry is the step taken later. Where a lost race  *)
(* means something else, or where other writes follow, the steps are apart. *)
(***************************************************************************)
EXTENDS Integers, Sequences, FiniteSets

CONSTANTS
    Request,        \* the requests users submit ...
    Arrivals,       \* ... as a sequence, in the order the gateway accepts them
    Cancels,        \* the requests whose users ask to cancel
    MaxBatch,       \* bound: batch rows ever minted
    MaxFaults,      \* bound: faults per behaviour
    FaultKinds,     \* SUBSET {"crash", "expiry", "deadletter"}
    DeadLetters,    \* the stages whose message may exhaust its retries
    Slow            \* the stages whose handler may outlive its lease

ASSUME EnrolmentAssumption ==
    /\ Arrivals \in Seq(Request)
    /\ Cancels \subseteq Request
    /\ MaxBatch \in Nat
    /\ MaxFaults \in Nat
    /\ FaultKinds \subseteq {"crash", "expiry", "deadletter"}

VARIABLES
    sharing,    \* BOOLEAN: the requests carry the same change URI; never changes
    request,    \* [Request -> [state, ver]], the request store
    batch,      \* sequence of [req, state, deps], the batch store, by minted ID
    assoc,      \* request-to-batch associations
    records,    \* queue membership records <<state, batch>>
    index,      \* reverse index: <<dependency, dependent>>
    claims,     \* requests with a change record
    topic,      \* [Topic -> Seq(message)], unacked messages in order
    sent,       \* message IDs the queue deduplicates against
    announced,  \* batches the speculate stage has been told of
    job,        \* [Slot -> handler in flight]
    asked,      \* users' acts done: <<"land", r>>, <<"cancel", r>>
    faults      \* faults so far

rows == <<request, batch, assoc, records, index, claims>>
vars == <<sharing, request, batch, assoc, records, index, claims,
          topic, sent, announced, job, asked, faults>>

Topic == {"start", "validate", "check", "signal", "batch", "analysis",
          "cancel", "conclude", "dlq"}

(* A handler runs in its topic's slot; "late" holds one whose lease expired *)
(* under it; "speculate" is the speculate stage's own.                      *)
Slot == Topic \cup {"late", "speculate"}

Idle == [topic |-> "none", msg |-> <<>>, at |-> "idle", ver |-> 0,
         ids |-> {}, was |-> "none"]

TerminalRequest == {"landed", "error", "cancelled"}
HaltedRequest   == TerminalRequest \cup {"cancelling"}
TerminalBatch   == {"succeeded", "failed", "cancelled"}
HaltedBatch     == TerminalBatch \cup {"cancelling"}
DependencyStates == {"created", "speculating", "landing"}
Cancellable     == {"created", "speculating", "cancelling"}
Live            == DependencyStates \cup {"cancelling"}

RequestState == {"none", "started", "validated", "batched"} \cup HaltedRequest
BatchState   == {"creating"} \cup DependencyStates \cup HaltedBatch

Batch == 1..Len(batch)
-----------------------------------------------------------------------------
(* The queue and the handlers in flight.                                    *)

CanFault(kind) == kind \in FaultKinds /\ faults < MaxFaults

(* A message's ID: the entity, and the cause where the publisher names one. *)
IntentID(t, m) == IF t = "signal" THEN <<t, m[1], m[3]>> ELSE <<t, m>>

(* A publish whose message ID the queue has seen writes nothing.            *)
Publish(topics, t, m) ==
    IF IntentID(t, m) \in sent THEN topics
    ELSE [topics EXCEPT ![t] = Append(@, m)]

(* A message is in its topic once, as sent sees to, and at its head from    *)
(* the first delivery on: an ack that finds another there comes after one.  *)
Without(t, m) == IF topic[t] # <<>> /\ m = Head(topic[t])
                 THEN [topic EXCEPT ![t] = Tail(@)] ELSE topic

(* A delivery of m at the head of t is open to t's slot.                    *)
Delivered(t, m) == job[t].at = "idle" /\ topic[t] # <<>> /\ m = Head(topic[t])

(* Its handler, in flight at step pc.                                       *)
Opened(t, m, pc) == [topic |-> t, msg |-> m, at |-> pc, ver |-> 0,
                     ids |-> {}, was |-> "none"]

(* The handler returns nil: its message is acked, unless the process dies   *)
(* first and the message is delivered again. "out" is its last publish, if  *)
(* any.                                                                     *)
ReturnNil(h, t, m, out) ==
    LET put(topics) == IF out = {} THEN topics
                       ELSE LET o == CHOOSE o \in out : TRUE
                            IN Publish(topics, o[1], o[2])
    IN /\ job' = [job EXCEPT ![h] = Idle]
       /\ sent' = sent \cup {IntentID(o[1], o[2]) : o \in out}
       /\ \/ topic' = put(Without(t, m)) /\ UNCHANGED faults
          \/ /\ CanFault("crash")
             /\ faults' = faults + 1
             /\ topic' = put(topic)

Return(h, out) == ReturnNil(h, job[h].topic, job[h].msg, out)

(* The handler returns a retryable error: the message is delivered again.   *)
Retry(h) == job' = [job EXCEPT ![h] = Idle] /\ UNCHANGED <<topic, sent, faults>>

(* The handler goes on, nothing published yet.                              *)
Continue(h, next) == job' = [job EXCEPT ![h] = next]
                     /\ UNCHANGED <<topic, sent, faults>>
GoTo(h, pc) == Continue(h, [job[h] EXCEPT !.at = pc])

(* The stores. A row is created once; an update moves its version on.       *)
RequestCreated(r) ==
    IF request[r].state # "none" THEN request
    ELSE [request EXCEPT ![r] = [state |-> "started", ver |-> 1]]
RequestUpdated(r, s) == [request EXCEPT ![r] = [state |-> s, ver |-> @.ver + 1]]
BatchCreated(r) == Append(batch, [req |-> r, state |-> "creating", deps |-> {}])
BatchUpdated(b, s, deps) == [batch EXCEPT ![b].state = s, ![b].deps = deps]
RecordPut(s, b) == records \cup {<<s, b>>}
RecordMoved(from, to, b) == (records \ {<<from, b>>}) \cup {<<to, b>>}
RecordsIn(s) == {b \in Batch : <<s, b>> \in records}
Associated(r, b) == assoc \cup {<<r, b>>}
DependentsUpdated(deps, b) == index \cup (deps \X {b})
ChangeClaimed(r) == claims \cup {r}

(* core/request/terminate.go: a terminal state is never overwritten.        *)
Terminated(r, s) ==
    IF request[r].state \in TerminalRequest \cup {"none"} THEN request
    ELSE RequestUpdated(r, s)

(* core/batch/find.go: the batches associated with a request.               *)
FindByRequestID(r) == {b \in Batch : <<r, b>> \in assoc}
-----------------------------------------------------------------------------
(* Users, through the gateway.                                              *)

Land(i) ==
    LET r == Arrivals[i] IN
    /\ Cardinality({x \in asked : x[1] = "land"}) = i - 1
    /\ asked' = asked \cup {<<"land", r>>}
    /\ topic' = Publish(topic, "start", r)
    /\ sent' = sent \cup {<<"start", r>>}
    /\ UNCHANGED <<rows, announced, job, faults>>

Cancel(r) ==
    /\ r \in Cancels /\ <<"land", r>> \in asked /\ <<"cancel", r>> \notin asked
    /\ asked' = asked \cup {<<"cancel", r>>}
    /\ topic' = Publish(topic, "cancel", r)
    /\ sent' = sent \cup {<<"cancel", r>>}
    /\ UNCHANGED <<rows, announced, job, faults>>
-----------------------------------------------------------------------------
(* start: persist the request, then hand it to validate.                    *)

StartCreate(r) ==
    /\ Delivered("start", r)
    /\ request' = RequestCreated(r)
    /\ Continue("start", Opened("start", r, "publish"))
    /\ UNCHANGED <<batch, assoc, records, index, claims, announced, asked>>

StartPublish(h) ==
    /\ job[h].topic = "start" /\ job[h].at = "publish"
    /\ Return(h, {<<"validate", job[h].msg>>})
    /\ UNCHANGED <<rows, announced, asked>>

(* validate: duplicate detection, the custom validator, the change claim    *)
(* and the question to runway.                                              *)

SameChange(r, q) == sharing \/ r = q

\* Mutant: the change's records are looked up by request.
ClaimantsOwn(r) == {q \in claims : q = r}

(* The owners of the change's records.                                      *)
Claimants(r) == {q \in claims : SameChange(r, q)}

Duplicates(r) == {q \in Claimants(r) \ {r} :
    request[q].state \notin TerminalRequest}

ValidateRead(r) ==
    /\ Delivered("validate", r)
    /\ IF request[r].state \in HaltedRequest
       THEN /\ ReturnNil("validate", "validate", r, {})
            /\ UNCHANGED request
       ELSE IF Duplicates(r) # {}
       THEN /\ request' = Terminated(r, "error")
            /\ ReturnNil("validate", "validate", r, {})
       ELSE /\ Continue("validate", Opened("validate", r, "claim"))
            /\ UNCHANGED request
    /\ UNCHANGED <<batch, assoc, records, index, claims, announced, asked>>

(* The custom validator rejects the request.                                *)
ValidateReject(h) ==
    /\ job[h].topic = "validate" /\ job[h].at = "claim"
    /\ request' = Terminated(job[h].msg, "error")
    /\ Return(h, {})
    /\ UNCHANGED <<batch, assoc, records, index, claims, announced, asked>>

ValidateClaim(h) ==
    /\ job[h].topic = "validate" /\ job[h].at = "claim"
    /\ claims' = ChangeClaimed(job[h].msg)
    /\ Return(h, {<<"check", job[h].msg>>})
    /\ UNCHANGED <<request, batch, assoc, records, index, announced, asked>>

(* runway answers the merge-conflict check, once per question.              *)
RunwayCheck(r) ==
    /\ Delivered("check", r)
    /\ \E landable \in BOOLEAN :
        ReturnNil("check", "check", r, {<<"signal", <<r, landable, "live">>>>})
    /\ UNCHANGED <<rows, announced, asked>>

(* landconflictsignal: a halted request is left alone, a rejected one is    *)
(* failed, and any other is written Validated and handed to batch.          *)
SignalRead(r) ==
    \E landable \in BOOLEAN, origin \in {"live", "dlq"} :
      LET m == <<r, landable, origin>>
          halted == request[r].state \in HaltedRequest
      IN /\ Delivered("signal", m)
         /\ \/ /\ halted
               /\ ReturnNil("signal", "signal", m, {})
               /\ UNCHANGED request
            \/ /\ ~halted /\ ~landable
               /\ request' = RequestUpdated(r, "error")
               /\ ReturnNil("signal", "signal", m, {})
            \/ /\ ~halted /\ landable
               /\ request' = RequestUpdated(r, "validated")
               /\ Continue("signal", Opened("signal", m, "publish"))
         /\ UNCHANGED <<batch, assoc, records, index, claims, announced, asked>>

SignalPublish(h) ==
    /\ job[h].topic = "signal" /\ job[h].at = "publish"
    /\ Return(h, {<<"batch", job[h].msg[1]>>})
    /\ UNCHANGED <<rows, announced, asked>>

(* batch: one batch row per delivery for a request that is not halted.      *)
BatchRead(r) ==
    /\ Delivered("batch", r)
    /\ IF request[r].state \in HaltedRequest
       THEN ReturnNil("batch", "batch", r, {})
       ELSE Continue("batch", Opened("batch", r, "mint"))
    /\ UNCHANGED <<rows, announced, asked>>

BatchMint(h) ==
    /\ job[h].topic = "batch" /\ job[h].at = "mint"
    /\ Len(batch) < MaxBatch
    /\ batch' = BatchCreated(job[h].msg)
    /\ Continue(h, [job[h] EXCEPT !.at = "publish", !.ver = Len(batch) + 1])
    /\ UNCHANGED <<request, assoc, records, index, claims, announced, asked>>

BatchPublish(h) ==
    /\ job[h].topic = "batch" /\ job[h].at = "publish"
    /\ Return(h, {<<"analysis", job[h].ver>>})
    /\ UNCHANGED <<rows, announced, asked>>
-----------------------------------------------------------------------------
(* dependency analysis: decide whether this batch enrols its request, find  *)
(* what it serializes behind, claim the request, promote the batch.         *)

\* Mutant: a redundant batch is not noticed.
EnrolledNowhere(b) == FALSE

(* Another batch of the request got past Creating.                          *)
EnrolledElsewhere(b) ==
    \E x \in FindByRequestID(batch[b].req) \ {b} : batch[x].state # "creating"

AnalysisRead(b) ==
    /\ Delivered("analysis", b)
    /\ LET abandon == batch[b].state = "creating"
                      /\ \/ EnrolledElsewhere(b)
                         \/ request[batch[b].req].state \in HaltedRequest
       IN CASE batch[b].state = "created" ->
                 /\ records' = RecordPut("created", b)
                 /\ Continue("analysis", Opened("analysis", b, "announce"))
            [] batch[b].state = "creating" /\ ~abandon ->
                 /\ Continue("analysis", Opened("analysis", b, "created"))
                 /\ UNCHANGED records
            [] OTHER ->
                 /\ ReturnNil("analysis", "analysis", b, {})
                 /\ UNCHANGED records
    /\ UNCHANGED <<request, batch, assoc, index, claims, announced, asked>>

\* Mutant: the buckets are listed in another order than batches move.
NextBucketShuffled == [created |-> "landing", landing |-> "speculating",
                       speculating |-> "resolve"]

(* core/batch/list.go: one bucket of membership records per step, in the    *)
(* order of DependencyBatchStates.                                          *)
NextBucket == [created |-> "speculating", speculating |-> "landing",
               landing |-> "resolve"]

AnalysisScan(h) ==
    /\ job[h].topic = "analysis" /\ job[h].at \in DependencyStates
    /\ Continue(h, [job[h] EXCEPT
            !.at = NextBucket[job[h].at],
            !.ids = @ \cup RecordsIn(job[h].at)])
    /\ UNCHANGED <<rows, announced, asked>>

(* Hydrate the candidates and keep those still in flight.                   *)
Hydrated(ids) == {x \in ids : batch[x].state \in DependencyStates}

(* The "all" conflict analyzer: the batch conflicts with everything.        *)
Conflicts(b, inFlight) == inFlight

(* Ask the analyzer, then write the reverse indexes and the association.    *)
AnalysisResolve(h) ==
    LET b == job[h].msg
        deps == Conflicts(b, Hydrated(job[h].ids))
    IN /\ job[h].topic = "analysis" /\ job[h].at = "resolve"
       /\ index' = DependentsUpdated(deps, b)
       /\ assoc' = Associated(batch[b].req, b)
       /\ Continue(h, [job[h] EXCEPT !.at = "claim", !.ids = deps])
       /\ UNCHANGED <<request, batch, records, claims, announced, asked>>

(* The claim: read the request, give up on a halted one ...                 *)
AnalysisClaimRead(h) ==
    LET now == request[batch[job[h].msg].req]
    IN /\ job[h].topic = "analysis" /\ job[h].at = "claim"
       /\ IF now.state \in HaltedRequest THEN Return(h, {})
          ELSE Continue(h, [job[h] EXCEPT !.at = "claimWrite", !.ver = now.ver])
       /\ UNCHANGED <<rows, announced, asked>>

\* Mutant: the claim is written without the version it read.
AnalysisClaimWriteBlind(h) ==
    LET r == batch[job[h].msg].req
    IN /\ job[h].topic = "analysis" /\ job[h].at = "claimWrite"
       /\ request' = RequestUpdated(r, "batched")
       /\ GoTo(h, "promote")
       /\ UNCHANGED <<batch, assoc, records, index, claims, announced, asked>>

(* ... and write Batched under the version read; a lost race abandons the   *)
(* batch with an ack, not a retry.                                          *)
AnalysisClaimWrite(h) ==
    LET r == batch[job[h].msg].req
    IN /\ job[h].topic = "analysis" /\ job[h].at = "claimWrite"
       /\ IF request[r].ver = job[h].ver
          THEN /\ request' = RequestUpdated(r, "batched")
               /\ GoTo(h, "promote")
          ELSE Return(h, {}) /\ UNCHANGED request
       /\ UNCHANGED <<batch, assoc, records, index, claims, announced, asked>>

(* core/batch/transition.go: the batch row first, under its version, then   *)
(* the record under the new state, then the old record goes.                *)
AnalysisPromote(h) ==
    LET b == job[h].msg
    IN /\ job[h].topic = "analysis" /\ job[h].at = "promote"
       /\ IF batch[b].state = "creating"
          THEN /\ batch' = BatchUpdated(b, "created", job[h].ids)
               /\ GoTo(h, "file")
          ELSE Retry(h) /\ UNCHANGED batch
       /\ UNCHANGED <<request, assoc, records, index, claims, announced, asked>>

AnalysisFile(h) ==
    /\ job[h].topic = "analysis" /\ job[h].at = "file"
    /\ records' = RecordPut("created", job[h].msg)
    /\ GoTo(h, "announce")
    /\ UNCHANGED <<request, batch, assoc, index, claims, announced, asked>>

AnalysisAnnounce(h) ==
    /\ job[h].topic = "analysis" /\ job[h].at = "announce"
    /\ announced' = announced \cup {job[h].msg}
    /\ Return(h, {})
    /\ UNCHANGED <<rows, asked>>

Analysis(h) ==
    \/ AnalysisScan(h) \/ AnalysisResolve(h) \/ AnalysisClaimRead(h)
    \/ AnalysisClaimWrite(h) \/ AnalysisPromote(h) \/ AnalysisFile(h)
    \/ AnalysisAnnounce(h)
-----------------------------------------------------------------------------
(* cancel: record the intent on the request, then cancel what carries it.   *)

(* A request that is not in the store is no retryable error: the message    *)
(* goes straight to the dead letters.                                       *)
CancelMark(r) ==
    /\ Delivered("cancel", r)
    /\ LET state == request[r].state
       IN CASE state = "none" ->
                 /\ topic' = [topic EXCEPT !["cancel"] = Tail(@),
                                           !["dlq"] = Append(@, <<"cancel", r>>)]
                 /\ UNCHANGED <<request, job, sent, faults>>
            [] state \in TerminalRequest ->
                 /\ ReturnNil("cancel", "cancel", r, {})
                 /\ UNCHANGED request
            [] OTHER ->
                 /\ request' = IF state = "cancelling" THEN request
                               ELSE RequestUpdated(r, "cancelling")
                 /\ Continue("cancel", Opened("cancel", r, "find"))
    /\ UNCHANGED <<batch, assoc, records, index, claims, announced, asked>>

(* Creating batches do not count; a Landing or finished one settles the     *)
(* request by itself.                                                       *)
CancelFind(h) ==
    LET found == {b \in FindByRequestID(job[h].msg) : batch[b].state # "creating"}
    IN /\ job[h].topic = "cancel" /\ job[h].at = "find"
       /\ Continue(h, [job[h] EXCEPT
              !.at = IF found = {} THEN "terminate" ELSE "batches",
              !.ids = {b \in found : batch[b].state \in Cancellable}])
       /\ UNCHANGED <<rows, announced, asked>>

CancelRequest(h) ==
    /\ job[h].topic = "cancel" /\ job[h].at = "terminate"
    /\ request' = Terminated(job[h].msg, "cancelled")
    /\ Return(h, {})
    /\ UNCHANGED <<batch, assoc, records, index, claims, announced, asked>>

FirstOf(ids, b) == \A x \in ids : b =< x

(* One batch after the other, in ID order; a failure does not stop the rest *)
(* and is returned at the end.                                              *)
CancelBatch(h) ==
    \E b \in job[h].ids :
       /\ job[h].topic = "cancel" /\ job[h].at = "batches" /\ FirstOf(job[h].ids, b)
       /\ IF batch[b].state \in Cancellable
          THEN /\ batch' = BatchUpdated(b, "cancelling", batch[b].deps)
               /\ Continue(h, [job[h] EXCEPT !.at = "handOff", !.was = batch[b].state])
          ELSE /\ Continue(h, [job[h] EXCEPT !.ids = @ \ {b}, !.ver = 1])
               /\ UNCHANGED batch
       /\ UNCHANGED <<request, assoc, records, index, claims, announced, asked>>

CancelHandOff(h) ==
    \E b \in job[h].ids :
       /\ job[h].topic = "cancel" /\ job[h].at = "handOff" /\ FirstOf(job[h].ids, b)
       /\ records' = RecordMoved(job[h].was, "cancelling", b)
       /\ announced' = announced \cup {b}
       /\ Continue(h, [job[h] EXCEPT !.at = "batches", !.ids = @ \ {b}])
       /\ UNCHANGED <<request, batch, assoc, index, claims, asked>>

CancelReturn(h) ==
    /\ job[h].topic = "cancel" /\ job[h].at = "batches" /\ job[h].ids = {}
    /\ IF job[h].ver = 1 THEN Retry(h) ELSE Return(h, {})
    /\ UNCHANGED <<rows, announced, asked>>

CancelStage(h) ==
    \/ CancelFind(h) \/ CancelRequest(h) \/ CancelBatch(h)
    \/ CancelHandOff(h) \/ CancelReturn(h)
-----------------------------------------------------------------------------
(* The speculate stage as this front half sees it: a woken run takes any    *)
(* filed batch through its life, moving its record behind it, and hands a   *)
(* finished one to conclude. Speculation models the stage itself.           *)

Moves == [created |-> {"speculating"}, speculating |-> {"landing", "failed"},
          landing |-> {"succeeded", "failed"}, cancelling |-> {"cancelled"}]

Speculate(b) ==
    /\ job["speculate"].at = "idle"
    /\ announced # {} /\ batch[b].state \in Live
    /\ \E s \in Live : <<s, b>> \in records
    /\ \E s \in Moves[batch[b].state] :
        /\ batch' = BatchUpdated(b, s, batch[b].deps)
        /\ Continue("speculate", [Opened("speculate", b, "put")
                                    EXCEPT !.was = batch[b].state])
    /\ UNCHANGED <<request, assoc, records, index, claims, announced, asked>>

SpeculatePut ==
    LET b == job["speculate"].msg
    IN /\ job["speculate"].at = "put"
       /\ records' = RecordPut(batch[b].state, b)
       /\ GoTo("speculate", "delete")
       /\ UNCHANGED <<request, batch, assoc, index, claims, announced, asked>>

SpeculateDelete ==
    LET b == job["speculate"].msg
    IN /\ job["speculate"].at = "delete"
       /\ records' = records \ {<<job["speculate"].was, b>>}
       /\ job' = [job EXCEPT !["speculate"] = Idle]
       /\ IF batch[b].state \in TerminalBatch
          THEN /\ topic' = Publish(topic, "conclude", b)
               /\ sent' = sent \cup {<<"conclude", b>>}
          ELSE UNCHANGED <<topic, sent>>
       /\ UNCHANGED <<request, batch, assoc, index, claims, announced, asked, faults>>

\* Mutant: the batch's state is written on the request as it is.
RequestOutcomeRaw == [succeeded |-> "landed", failed |-> "failed",
                      cancelled |-> "cancelled"]

(* conclude: the request takes its batch's outcome.                         *)
RequestOutcome == [succeeded |-> "landed", failed |-> "error",
                   cancelled |-> "cancelled"]

Conclude(b) ==
    /\ Delivered("conclude", b)
    /\ request' = Terminated(batch[b].req, RequestOutcome[batch[b].state])
    /\ ReturnNil("conclude", "conclude", b, {})
    /\ UNCHANGED <<batch, assoc, records, index, claims, announced, asked>>
-----------------------------------------------------------------------------
(* The dead-letter reconcilers.                                             *)


(* dlq/request.go: the batch that owns the request's outcome, if any.       *)
Owned(r) ==
    \E b \in FindByRequestID(r) :
        \/ batch[b].state \in Live
        \/ batch[b].state = "creating" /\ request[r].state = "batched"

DLQRequest(t, r) ==
    /\ t \in {"start", "cancel", "validate", "batch"}
    /\ Delivered("dlq", <<t, r>>)
    /\ IF Owned(r) THEN ReturnNil("dlq", "dlq", <<t, r>>, {})
       ELSE Continue("dlq", Opened("dlq", <<t, r>>, "fail"))
    /\ UNCHANGED <<rows, announced, asked>>

DLQFail ==
    /\ job["dlq"].at = "fail"
    /\ request' = Terminated(job["dlq"].msg[2], "error")
    /\ Return("dlq", {})
    /\ UNCHANGED <<batch, assoc, records, index, claims, announced, asked>>

(* dlq/landconflictsignal.go asks no batch.                                 *)
DLQSignal(m) ==
    /\ Delivered("dlq", <<"signal", m>>)
    /\ request' = Terminated(m[1], "error")
    /\ ReturnNil("dlq", "dlq", <<"signal", m>>, {})
    /\ UNCHANGED <<batch, assoc, records, index, claims, announced, asked>>

(* runway's reconciler answers a check that could not be answered.          *)
DLQCheck(r) ==
    /\ Delivered("dlq", <<"check", r>>)
    /\ ReturnNil("dlq", "dlq", <<"check", r>>,
                 {<<"signal", <<r, FALSE, "dlq">>>>})
    /\ UNCHANGED <<rows, announced, asked>>

(* dlq/dlq.go failBatch: fail the batch, then its request, unless the batch *)
(* ended otherwise.                                                         *)
DLQBatch(t, b) ==
    /\ t \in {"analysis", "conclude"}
    /\ Delivered("dlq", <<t, b>>)
    /\ IF batch[b].state \in {"succeeded", "cancelled"}
       THEN ReturnNil("dlq", "dlq", <<t, b>>, {}) /\ UNCHANGED batch
       ELSE /\ batch' = BatchUpdated(b, "failed", batch[b].deps)
            /\ Continue("dlq", [Opened("dlq", <<t, b>>, "fanOut")
                                  EXCEPT !.was = batch[b].state])
    /\ UNCHANGED <<request, assoc, records, index, claims, announced, asked>>

DLQFanOut ==
    LET b == job["dlq"].msg[2]
    IN /\ job["dlq"].at = "fanOut"
       /\ records' = RecordMoved(job["dlq"].was, "failed", b)
       /\ request' = Terminated(batch[b].req, "error")
       /\ Return("dlq", {})
       /\ UNCHANGED <<batch, assoc, index, claims, announced, asked>>
-----------------------------------------------------------------------------
(* Faults.                                                                  *)

InFlight(t) == job[t].at # "idle"

(* The process dies in the middle of a handler.                             *)
Crash(t) ==
    /\ CanFault("crash") /\ InFlight(t)
    /\ faults' = faults + 1
    /\ job' = [job EXCEPT ![t] = Idle]
    /\ UNCHANGED <<rows, topic, sent, announced, asked>>

(* The partition's lease expires under a handler that is only slow: another *)
(* worker takes the message while the first goes on.                        *)
Expire(t) ==
    /\ CanFault("expiry") /\ t \in Slow /\ InFlight(t) /\ job["late"].at = "idle"
    /\ faults' = faults + 1
    /\ job' = [job EXCEPT !["late"] = job[t], ![t] = Idle]
    /\ UNCHANGED <<rows, topic, sent, announced, asked>>

(* A message's retries are exhausted, at whatever step its handler fails.   *)
GiveUp(t) ==
    /\ CanFault("deadletter") /\ t \in DeadLetters /\ topic[t] # <<>>
    /\ faults' = faults + 1
    /\ job' = [job EXCEPT ![t] = Idle]
    /\ topic' = [topic EXCEPT ![t] = Tail(@),
                              !["dlq"] = Append(@, <<t, Head(topic[t])>>)]
    /\ UNCHANGED <<rows, sent, announced, asked>>
-----------------------------------------------------------------------------
Init ==
    /\ sharing \in BOOLEAN
    /\ request = [r \in Request |-> [state |-> "none", ver |-> 0]]
    /\ batch = <<>>
    /\ assoc = {} /\ records = {} /\ index = {} /\ claims = {}
    /\ topic = [t \in Topic |-> <<>>]
    /\ sent = {} /\ announced = {} /\ asked = {}
    /\ job = [h \in Slot |-> Idle]
    /\ faults = 0

(* One step of the handler in flight in slot h.                             *)
Step(h) ==
    \/ StartPublish(h) \/ ValidateClaim(h) \/ ValidateReject(h)
    \/ SignalPublish(h) \/ BatchMint(h) \/ BatchPublish(h)
    \/ Analysis(h) \/ CancelStage(h)

Stage ==
    \/ \E r \in Request :
        \/ StartCreate(r) \/ ValidateRead(r) \/ RunwayCheck(r)
        \/ SignalRead(r) \/ BatchRead(r) \/ CancelMark(r)
    \/ \E b \in Batch : AnalysisRead(b) \/ Speculate(b) \/ Conclude(b)
    \/ \E h \in Topic \cup {"late"} : Step(h)
    \/ SpeculatePut \/ SpeculateDelete

DeadLetter ==
    \/ \E t \in Topic : \/ \E r \in Request : DLQRequest(t, r)
                        \/ \E b \in Batch : DLQBatch(t, b)
    \/ \E r \in Request : DLQCheck(r)
    \/ \E m \in Request \X BOOLEAN \X {"live", "dlq"} : DLQSignal(m)
    \/ DLQFail \/ DLQFanOut

User == \/ \E i \in DOMAIN Arrivals : Land(i)
        \/ \E r \in Request : Cancel(r)

Fault == \E t \in Topic : Crash(t) \/ Expire(t) \/ GiveUp(t)

Next == UNCHANGED sharing /\ (User \/ Stage \/ DeadLetter \/ Fault)

Spec == Init /\ [][Next]_vars

(* Consumers poll for as long as they run: a delivery is picked up and a    *)
(* handler in flight goes on. Faults and users are not obliged to act.      *)
Fairness == WF_vars(UNCHANGED sharing /\ Stage) /\ WF_vars(UNCHANGED sharing /\ DeadLetter)
FairSpec == Spec /\ Fairness
-----------------------------------------------------------------------------
(* Every row, message and handler has the shape the code gives it.          *)
TypeOK ==
    /\ request \in [Request -> [state : RequestState, ver : Nat]]
    /\ batch \in Seq([req : Request, state : BatchState, deps : SUBSET Batch])
    /\ assoc \subseteq Request \X Batch
    /\ records \subseteq BatchState \X Batch
    /\ index \subseteq Batch \X Batch
    /\ claims \subseteq Request
    /\ DOMAIN topic = Topic /\ DOMAIN job = Slot
    /\ announced \subseteq Batch
    /\ faults \in 0..MaxFaults

(* A request is carried by at most one batch past Creating and not yet      *)
(* finished, however often its batch message is delivered: "without the     *)
(* check the same change would end up in two live batches, both admitted,   *)
(* both landed" (dependencyanalysis.go).                                    *)
EnrolledOnce ==
    \A x, y \in Batch : /\ x # y /\ batch[x].req = batch[y].req
                        /\ batch[x].state \in Live
                        => batch[y].state \notin Live

(* Two batches on their way to the trunk that conflict are serialized: one  *)
(* is in the other's dependencies, and the reverse index says so. Analysis  *)
(* reads the buckets one at a time while the speculate stage moves records  *)
(* between them, and a promotion files its record after the row is written. *)
(* A promoted batch without a record is on its way once it is filed.        *)
Serialised ==
    LET onItsWay(b) == batch[b].state \in DependencyStates
                       /\ \E s \in Live : <<s, b>> \in records
    IN \A x, y \in Batch : x < y /\ onItsWay(x) /\ onItsWay(y)
                           => \/ x \in batch[y].deps /\ <<x, y>> \in index
                              \/ y \in batch[x].deps /\ <<y, x>> \in index

(* Of the requests in progress that claimed one change, there is one: the   *)
(* read of the change store and the claim are two steps, and the comment in *)
(* checkDuplicate says they are race-free.                                  *)
OneClaimant ==
    \A q, r \in claims : /\ q # r /\ SameChange(q, r)
                         /\ request[q].state \notin TerminalRequest
                         => request[r].state \in TerminalRequest

(* A request's terminal state is its last: no claim, signal, cancel or dead *)
(* letter that read the request earlier writes over it.                     *)
TerminalIsFinal ==
    [][\A r \in Request : request[r].state \in TerminalRequest
                          => request'[r] = request[r]]_request

(* What the user is told is what happened: the request of a batch that      *)
(* landed is not reported as failed or cancelled.                           *)
ReportedIsTrue ==
    \A b \in Batch : batch[b].state = "succeeded"
                     => request[batch[b].req].state \notin {"error", "cancelled"}

(* The claim of r's batch lost its write to a landconflictsignal that was    *)
(* delivered again and wrote Validated between the claim's read and write;   *)
(* the loss is acked, and the batch message that signal publishes again is a *)
(* duplicate, so nothing is left to claim r.                                 *)
ClaimLost(r) ==
    /\ request[r].state = "validated" /\ request[r].ver > 2
    /\ \E b \in FindByRequestID(r) : batch[b].state = "creating"
    /\ \A i \in DOMAIN topic["batch"] : topic["batch"][i] # r
    /\ \A i \in DOMAIN topic["analysis"] : batch[topic["analysis"][i]].req # r
    /\ job["late"].at = "idle"

=============================================================================
