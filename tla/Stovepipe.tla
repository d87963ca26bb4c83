------------------------------ MODULE Stovepipe ------------------------------
(***************************************************************************)
(* Stovepipe: trunk validation of one queue. Ingest mints a request for the *)
(* head of trunk, process admits the newest one when a build slot is free,  *)
(* build triggers it, buildsignal turns the build's end into the request's  *)
(* verdict and moves the last-green bookmark, record writes the fact and    *)
(* promotes the commit. Dead letters fail the request.                      *)
(*                                                                         *)
(* Every store write a handler makes is a step. A compare-and-swap that is  *)
(* read again until it lands is one step; the ones that are not are split.  *)
(* A message is kept until its handler is done, so a crash delivers it      *)
(* again; a hold is a step not taken yet.                                   *)
(***************************************************************************)
EXTENDS Integers, Sequences, FiniteSets

CONSTANTS
    Caller,         \* concurrent callers of Ingest
    Watches,        \* who may call at which heads: functions [Caller -> commits]
    MaxConcurrent,  \* the queue's build slots
    MaxCommit,      \* bound: commits on trunk
    MaxId,          \* bound: request IDs minted
    MaxBuild,       \* bound: builds triggered
    MaxEvents,      \* bound: faults per behaviour
    EventKinds,     \* the faults that may happen
    Dying           \* the stages whose handler may exhaust its retries

ASSUME StovepipeAssumption ==
    /\ Watches \subseteq [Caller -> SUBSET (1..MaxCommit)]
    /\ MaxConcurrent \in Nat \ {0} /\ MaxCommit \in Nat \ {0} /\ MaxId \in Nat \ {0}
    /\ MaxBuild \in Nat \ {0} /\ MaxEvents \in Nat
    /\ EventKinds \subseteq {"crash", "redeliver", "abandon", "late"}
    /\ Dying \subseteq {"process", "build", "poll", "record"}

VARIABLES
    watch,      \* the heads each caller calls at, fixed
    trunk,      \* the newest commit
    uri,        \* [commits -> request ID, or 0], the request-URI store
    minted,     \* the last request ID of the counter
    req,        \* [IDs -> request], the request store
    queue,      \* the queue row
    run,        \* the runner's builds: sequence of statuses
    builds,     \* [builds -> [request, status]], the build store
    fact,       \* [commits -> degree, or "none"], the validation facts
    projects,   \* commits whose project facts are written
    promoted,   \* the commit the promotion ref points at
    line,       \* process topic, one partition: request IDs in order
    inbox,      \* the other topics' messages <<stage, id>>
    sent,       \* message IDs ever published
    dead,       \* dead letters <<stage, id>>
    call,       \* [Caller -> Ingest call in flight]
    job,        \* [stages and IDs -> handler in flight]
    gone,       \* messages ever dead-lettered; Late, Again: handlers that overlapped
    events      \* faults so far

vars == <<watch, trunk, uri, minted, req, queue, run, builds, fact, projects, promoted, line, inbox,
          sent, dead, call, job, gone, events>>
topics == <<line, inbox, sent, dead>>

Commit == 1..MaxCommit
Id     == 1..MaxId
BuildId == 1..MaxBuild
Job == {<<"process", 0>>, <<"process", 1>>, <<"dlq", 0>>}
         \cup {"build", "record"} \X Id \cup {"poll"} \X BuildId
Now  == <<"process", 0>>
Late == <<"process", 1>>
Again == <<"process", 2>>

Outcome  == {"succeeded", "failed", "cancelled"}
Terminal == Outcome \cup {"superseded"}

NoRequest == [state |-> "none", commit |-> 0, base |-> 0, build |-> 0, by |-> 0]
NoCall    == [at |-> "idle", commit |-> 0, id |-> 0, accepted |-> FALSE]
NoJob     == [at |-> "idle", id |-> 0, version |-> 0, base |-> 0, build |-> 0, seen |-> "none"]

Init ==
    /\ watch \in Watches /\ trunk = 1
    /\ uri = [c \in Commit |-> 0] /\ minted = 0
    /\ req = [r \in Id |-> NoRequest]
    /\ queue = [latest |-> 0, inFlight |-> 0, green |-> 0, version |-> 1]
    /\ run = <<>>
    /\ builds = [b \in BuildId |-> [request |-> 0, status |-> "none"]]
    /\ fact = [c \in Commit |-> "none"] /\ projects = {} /\ promoted = 0
    /\ line = <<>> /\ inbox = {} /\ sent = {} /\ dead = {}
    /\ call = [c \in Caller |-> NoCall]
    /\ job = [j \in Job |-> NoJob]
    /\ gone = {} /\ events = 0

CanHappen(kind) == kind \in EventKinds /\ events < MaxEvents
Processing == {r \in Id : req[r].state = "processing"}
-----------------------------------------------------------------------------
(* Source control and the build runner (external).                          *)

NewCommit ==
    /\ \E c \in Caller : trunk + 1 \in watch[c]
    /\ trunk' = trunk + 1
    /\ UNCHANGED <<watch, uri, minted, req, queue, run, builds, fact, projects, promoted, topics,
                   call, job, gone, events>>

BuildEnds(b, status) ==
    /\ run[b] = "running"
    /\ run' = [run EXCEPT ![b] = status]
    /\ UNCHANGED <<watch, trunk, uri, minted, req, queue, builds, fact, projects, promoted, topics,
                   call, job, gone, events>>

(* Trunk's history is a line: a commit's ancestors are the older ones.      *)
IsAncestor(c, d) == c <= d
-----------------------------------------------------------------------------
(* The stores: an insert happens once per key, an update needs the version  *)
(* that was read and leaves the next one.                                   *)

WriteQueue(row) == queue' = [row EXCEPT !.version = queue.version + 1]
WriteRequest(r, row) == req' = [req EXCEPT ![r] = row]
WriteBuild(b, row) == builds' = [builds EXCEPT ![b] = row]
CreateRequest(r, u) ==
    IF req[r].state # "none" THEN UNCHANGED req
    ELSE WriteRequest(r, [NoRequest EXCEPT !.state = "accepted", !.commit = u])
CreateFact(u, degree) == fact' = IF fact[u] = "none" THEN [fact EXCEPT ![u] = degree] ELSE fact

(* Mutant: a second mapping replaces the first.                             *)
CreateURIOver(u, r) == uri' = [uri EXCEPT ![u] = r]

(* The request of a commit: the first mapping stays.                        *)
CreateURI(u, r) == uri' = IF uri[u] = 0 THEN [uri EXCEPT ![u] = r] ELSE uri
GetIDByURI(u) == uri[u]

(* The queue drops the repeat of a message whose row it still has. A row    *)
(* goes when its message is dead-lettered, and is collected some time after *)
(* the message was handled: a repeat is then a message again.               *)
MayHold(m) == m \in sent \ dead
Publish(m, rest) ==
    /\ inbox' \in {rest \cup {m}} \cup (IF MayHold(m) THEN {rest} ELSE {})
    /\ sent' = sent \cup {m}
Ack(stage, id) == inbox \ {<<stage, id>>}
-----------------------------------------------------------------------------
(* Ingest, an idempotent call.                                              *)

ingestRest == <<watch, trunk, run, builds, fact, projects, promoted, inbox, dead, job, events>>

InLine(r) == \E i \in DOMAIN line : line[i] = r

(* The head of trunk is read before anything is stored. A call for a head   *)
(* whose request is past accepted, or is in line for process, would change  *)
(* nothing: none is made.                                                   *)
Ingest(c) ==
    /\ call[c].at = "idle" /\ trunk \in watch[c]
    /\ uri[trunk] # 0 => req[uri[trunk]].state \in {"none", "accepted"} /\ ~InLine(uri[trunk])
    /\ call' = [call EXCEPT ![c] = [NoCall EXCEPT !.at = "resolve", !.commit = trunk]]
    /\ UNCHANGED <<uri, minted, req, queue, line, sent, gone, ingestRest>>

(* The request the commit already has, or a new ID.                         *)
MintID(c) ==
    /\ call[c].at = "resolve"
    /\ LET known == GetIDByURI(call[c].commit)
       IN \/ /\ known # 0
             /\ call' = [call EXCEPT ![c].at = "ensure", ![c].id = known]
             /\ UNCHANGED minted
          \/ /\ known = 0 /\ minted < MaxId
             /\ call' = [call EXCEPT ![c].at = "map", ![c].id = minted + 1]
             /\ minted' = minted + 1
    /\ UNCHANGED <<uri, req, queue, line, sent, gone, ingestRest>>

(* The mapping's insert decides: the loser takes the winner's ID.           *)
MapURI(c) ==
    /\ call[c].at = "map"
    /\ CreateURI(call[c].commit, call[c].id)
    /\ call' = [call EXCEPT ![c].at = "ensure", ![c].id = uri'[call[c].commit]]
    /\ UNCHANGED <<minted, req, queue, line, sent, gone, ingestRest>>

EnsureRequest(c) ==
    /\ call[c].at = "ensure"
    /\ CreateRequest(call[c].id, call[c].commit)
    /\ call' = [call EXCEPT ![c].at = "advance",
                            ![c].accepted = req'[call[c].id].state = "accepted"]
    /\ UNCHANGED <<uri, minted, queue, line, sent, gone, ingestRest>>

(* The queue's newest request only ever moves to a newer ID.                *)
AdvanceQueueLatestRequestID(c) ==
    /\ call[c].at = "advance"
    /\ IF call[c].id > queue.latest
       THEN WriteQueue([queue EXCEPT !.latest = call[c].id]) ELSE UNCHANGED queue
    /\ call' = [call EXCEPT ![c].at = "publish"]
    /\ UNCHANGED <<uri, minted, req, line, sent, gone, ingestRest>>

(* A request that was accepted when it was read goes to process, also when  *)
(* its message was dead-lettered: another handler is then at work on it.    *)
PublishProcess(c) ==
    /\ call[c].at = "publish"
    /\ LET r == call[c].id
           m == <<"process", r>>
       IN \/ /\ ~call[c].accepted \/ InLine(r) \/ MayHold(m)
             /\ UNCHANGED <<line, sent, gone>>
          \/ /\ call[c].accepted /\ ~InLine(r)
             /\ line' = Append(line, r)
             /\ sent' = sent \cup {m}
             /\ gone' = IF m \in dead THEN gone \cup {Again} ELSE gone
    /\ call' = [call EXCEPT ![c] = NoCall]
    /\ UNCHANGED <<uri, minted, req, queue, ingestRest>>

(* The caller gives up, or its server dies; a later call starts over.       *)
Abandon(c) ==
    /\ CanHappen("abandon") /\ call[c].at # "idle"
    /\ call' = [call EXCEPT ![c] = NoCall]
    /\ events' = events + 1
    /\ UNCHANGED <<watch, trunk, uri, minted, req, queue, run, builds, fact, projects, promoted, topics, job, gone>>
-----------------------------------------------------------------------------
(* Process: one delivery at a time, unless one outlives its lease.          *)

processRest == <<watch, trunk, uri, minted, run, builds, fact, projects, promoted, dead, call, gone, events>>

(* The delivery is done with its message; a late one's is not its own.      *)
Acked(j) == IF j = Now THEN Tail(line) ELSE line

(* Incremental since the last green commit when that is an ancestor.        *)
DeriveBuildStrategy(row, r) ==
    LET base == IF row.green = 0 THEN 0 ELSE req[row.green].commit
    IN IF base # 0 /\ IsAncestor(base, req[r].commit) THEN base ELSE 0

(* The delivery waits, and is made again, while every slot is taken.        *)
SlotFree(row) == row.inFlight < MaxConcurrent

(* Only a request still waiting is superseded.                              *)
Supersede(r) == WriteRequest(r, [req[r] EXCEPT !.state = "superseded"])

(* A request that is processing goes to build again, since its first        *)
(* delivery may have died on the way; a final one is done.                  *)
ProcessAgain ==
    /\ job[Now].at = "idle" /\ line # <<>>
    /\ LET r == Head(line)
       IN \/ /\ req[r].state = "processing"
             /\ job' = [job EXCEPT ![Now] = [NoJob EXCEPT !.at = "publish", !.id = r]]
             /\ UNCHANGED line
          \/ /\ req[r].state \in Terminal
             /\ line' = Tail(line)
             /\ UNCHANGED job
    /\ UNCHANGED <<req, queue, inbox, sent, processRest>>

(* A request with a newer head is superseded, slot or no slot.              *)
Coalesce ==
    /\ job[Now].at = "idle" /\ line # <<>>
    /\ req[Head(line)].state = "accepted" /\ Head(line) < queue.latest
    /\ Supersede(Head(line))
    /\ line' = Tail(line)
    /\ UNCHANGED <<job, queue, inbox, sent, processRest>>

(* The newest request gets a free slot, and is planned from the row as read.*)
AdmitLatestHead ==
    /\ job[Now].at = "idle" /\ line # <<>>
    /\ req[Head(line)].state = "accepted" /\ Head(line) >= queue.latest
    /\ SlotFree(queue)
    /\ job' = [job EXCEPT ![Now] =
                 [NoJob EXCEPT !.at = "plan", !.id = Head(line), !.version = queue.version,
                               !.base = DeriveBuildStrategy(queue, Head(line))]]
    /\ UNCHANGED <<req, line, queue, inbox, sent, processRest>>

(* The row must not have moved since it was read: its version is bumped, or *)
(* the delivery is held and starts over. Its issue tracking is registered.  *)
ConfirmAdmission(j) ==
    /\ job[j].at = "plan"
    /\ \/ /\ queue.version = job[j].version
          /\ WriteQueue(queue)
          /\ job' = [job EXCEPT ![j].at = "mark"]
       \/ /\ queue.version # job[j].version
          /\ job' = [job EXCEPT ![j] = NoJob]
          /\ UNCHANGED queue
    /\ UNCHANGED <<req, line, inbox, sent, processRest>>

(* Mutant: the request is admitted, whatever has become of it.              *)
MarkProcessingBlind(j) ==
    /\ job[j].at = "mark"
    /\ LET r == job[j].id
       IN WriteRequest(r, [req[r] EXCEPT !.state = "processing", !.base = job[j].base])
    /\ job' = [job EXCEPT ![j] = [@ EXCEPT !.at = "claim"]]
    /\ UNCHANGED <<line, queue, inbox, sent, processRest>>

(* The admission itself; whoever finds the request admitted is done.        *)
MarkProcessing(j) ==
    /\ job[j].at = "mark"
    /\ LET r == job[j].id
       IN IF req[r].state = "accepted"
          THEN /\ WriteRequest(r, [req[r] EXCEPT !.state = "processing", !.base = job[j].base])
               /\ job' = [job EXCEPT ![j] = [NoJob EXCEPT !.at = "claim", !.id = r]]
               /\ UNCHANGED line
          ELSE /\ job' = [job EXCEPT ![j] = NoJob]
               /\ line' = Acked(j)
               /\ UNCHANGED req
    /\ UNCHANGED <<queue, inbox, sent, processRest>>

(* The slot is counted after the admission, so that a crash counts low.     *)
ClaimBuildSlot(j) ==
    /\ job[j].at = "claim"
    /\ WriteQueue([queue EXCEPT !.inFlight = @ + 1])
    /\ job' = [job EXCEPT ![j].at = "publish"]
    /\ UNCHANGED <<req, line, inbox, sent, processRest>>

PublishBuild(j) ==
    /\ job[j].at = "publish" /\ j \in {Now, Late}
    /\ Publish(<<"build", job[j].id>>, inbox)
    /\ line' = Acked(j)
    /\ job' = [job EXCEPT ![j] = NoJob]
    /\ UNCHANGED <<req, queue, processRest>>

ProcessStep ==
    \/ ProcessAgain \/ Coalesce \/ AdmitLatestHead
    \/ \E j \in {Now, Late} :
          ConfirmAdmission(j) \/ MarkProcessing(j) \/ ClaimBuildSlot(j) \/ PublishBuild(j)
-----------------------------------------------------------------------------
(* Build.                                                                   *)

buildRest == <<watch, trunk, uri, minted, queue, fact, projects, promoted, line, dead, call, gone, events>>

(* A request with no build yet triggers one; a final one needs none.        *)
BuildTrigger(r) ==
    /\ <<"build", r>> \in inbox /\ job[<<"build", r>>].at = "idle"
    /\ \/ /\ req[r].state \in Terminal
          /\ inbox' = Ack("build", r)
          /\ UNCHANGED <<run, job>>
       \/ /\ req[r].state \notin Terminal /\ req[r].build # 0
          /\ job' = [job EXCEPT ![<<"build", r>>].at = "signal"]
          /\ UNCHANGED <<run, inbox>>
       \/ /\ req[r].state \notin Terminal /\ req[r].build = 0 /\ Len(run) < MaxBuild
          /\ run' = Append(run, "running")
          /\ job' = [job EXCEPT ![<<"build", r>>] = [NoJob EXCEPT !.at = "associate", !.build = Len(run) + 1]]
          /\ UNCHANGED inbox
    /\ UNCHANGED <<req, builds, sent, buildRest>>

(* The build is recorded, then becomes the request's unless it has another. *)
AssociateBuild(r) ==
    /\ job[<<"build", r>>].at = "associate"
    /\ LET b == job[<<"build", r>>].build
       IN /\ WriteBuild(b, [request |-> r, status |-> "running"])
          /\ IF req[r].build = 0 THEN WriteRequest(r, [req[r] EXCEPT !.build = b]) ELSE UNCHANGED req
    /\ job' = [job EXCEPT ![<<"build", r>>] = [NoJob EXCEPT !.at = "signal"]]
    /\ UNCHANGED <<run, inbox, sent, buildRest>>

PublishBuildSignal(r) ==
    /\ job[<<"build", r>>].at = "signal"
    /\ Publish(<<"poll", req[r].build>>, Ack("build", r))
    /\ job' = [job EXCEPT ![<<"build", r>>] = NoJob]
    /\ UNCHANGED <<req, run, builds, buildRest>>

BuildStep(r) == BuildTrigger(r) \/ AssociateBuild(r) \/ PublishBuildSignal(r)
-----------------------------------------------------------------------------
(* Buildsignal: polls a build until it ends.                                *)

pollRest == <<watch, trunk, uri, minted, run, fact, projects, promoted, line, dead, call, gone, events>>

(* Mutant: a build that did not fail has passed.                            *)
OutcomeStateLenient(status) == IF status = "failed" THEN "failed" ELSE "succeeded"

(* The request state a build's end stands for.                              *)
OutcomeState(status) ==
    CASE status = "succeeded" -> "succeeded"
      [] status = "cancelled" -> "cancelled"
      [] OTHER -> "failed"

(* A build's end is written once and never again.                           *)
Reconcile(b) ==
    IF builds[b].status = "running" THEN WriteBuild(b, [builds[b] EXCEPT !.status = run[b]])
    ELSE UNCHANGED builds

(* The build and the request are read, the runner is asked, and the build's *)
(* end is written once; until then the delivery is held. A request that     *)
(* never held a slot is none of its business.                               *)
PollBuild(b) ==
    /\ <<"poll", b>> \in inbox /\ job[<<"poll", b>>].at = "idle" /\ run[b] # "running"
    /\ LET s == req[builds[b].request].state
           relevant == s = "processing" \/ s \in Outcome
       IN /\ inbox' = IF relevant THEN inbox ELSE Ack("poll", b)
          /\ IF relevant THEN Reconcile(b) ELSE UNCHANGED builds
          /\ job' = IF relevant
                    THEN [job EXCEPT ![<<"poll", b>>] = [NoJob EXCEPT !.seen = s,
                                       !.at = IF s \in Outcome THEN "green" ELSE "release"]]
                    ELSE job
    /\ UNCHANGED <<req, queue, sent, pollRest>>

(* Mutant: the slot is kept.                                                *)
ReleaseNoSlot(row) == row

(* One slot less, and never fewer than none.                                *)
ReleaseSlot(row) == [row EXCEPT !.inFlight = IF @ <= 0 THEN @ ELSE @ - 1]

ReleaseBuildSlot(b) ==
    /\ job[<<"poll", b>>].at = "release"
    /\ IF queue.inFlight > 0 THEN WriteQueue(ReleaseSlot(queue)) ELSE UNCHANGED queue
    /\ job' = [job EXCEPT ![<<"poll", b>>].at = "mark"]
    /\ UNCHANGED <<req, builds, inbox, sent, pollRest>>

(* The first verdict stands: only a processing request takes one.           *)
MarkOutcome(b) ==
    /\ job[<<"poll", b>>].at = "mark"
    /\ LET r == builds[b].request
       IN IF req[r].state = "processing"
          THEN WriteRequest(r, [req[r] EXCEPT !.state = OutcomeState(builds[b].status), !.by = b])
          ELSE UNCHANGED req
    /\ job' = [job EXCEPT ![<<"poll", b>>] = [NoJob EXCEPT !.at = "green"]]
    /\ UNCHANGED <<queue, builds, inbox, sent, pollRest>>

(* Mutant: the last green request takes the bookmark.                       *)
CompareToBookmarkLoose(candidate, current) == 1

CompareToBookmark(candidate, current) ==
    IF current = 0 THEN 1 ELSE candidate - current

(* A request that succeeded moves the bookmark, never back.                 *)
AdvanceLastGreen(b) ==
    /\ job[<<"poll", b>>].at = "green"
    /\ LET r == builds[b].request
       IN IF req[r].state = "succeeded" /\ CompareToBookmark(r, queue.green) > 0
          THEN WriteQueue([queue EXCEPT !.green = r]) ELSE UNCHANGED queue
    /\ job' = [job EXCEPT ![<<"poll", b>>] = [NoJob EXCEPT !.at = "publish"]]
    /\ UNCHANGED <<req, builds, inbox, sent, pollRest>>

(* Mutant: the signal is acknowledged and nobody is told.                   *)
PublishNothing(b) ==
    /\ job[<<"poll", b>>].at = "publish"
    /\ inbox' = Ack("poll", b)
    /\ job' = [job EXCEPT ![<<"poll", b>>] = NoJob]
    /\ UNCHANGED <<sent, req, queue, builds, pollRest>>

PublishRecord(b) ==
    /\ job[<<"poll", b>>].at = "publish"
    /\ Publish(<<"record", builds[b].request>>, Ack("poll", b))
    /\ job' = [job EXCEPT ![<<"poll", b>>] = NoJob]
    /\ UNCHANGED <<req, queue, builds, pollRest>>

PollStep(b) == PollBuild(b) \/ ReleaseBuildSlot(b) \/ MarkOutcome(b) \/ AdvanceLastGreen(b)
                 \/ PublishRecord(b)
-----------------------------------------------------------------------------
(* Record.                                                                  *)

recordRest == <<watch, trunk, uri, minted, req, queue, run, builds, line, sent, dead, call, gone, events>>

(* A commit's fact is created once; a repeat reads the one that is there.   *)
RecordValidationFact(u, degree) == CreateFact(u, degree)

(* Mutant: the state of the request is taken for the degree.                *)
DegreeForRaw(state) == state

(* What the whole repository's fact says of a request's outcome.            *)
DegreeFor(state) == IF state = "succeeded" THEN "green" ELSE "broken"

(* A verdict becomes a fact; a cancelled build establishes none.            *)
RecordFact(r) ==
    /\ <<"record", r>> \in inbox /\ job[<<"record", r>>].at = "idle"
    /\ IF req[r].state \in {"succeeded", "failed"}
       THEN RecordValidationFact(req[r].commit, DegreeFor(req[r].state)) ELSE UNCHANGED fact
    /\ IF req[r].state \in {"succeeded", "failed"}
       THEN /\ job' = [job EXCEPT ![<<"record", r>>].at = "projects"]
            /\ UNCHANGED inbox
       ELSE /\ inbox' = Ack("record", r)
            /\ UNCHANGED job
    /\ UNCHANGED <<projects, promoted, recordRest>>

(* Mutant: project facts are written for broken commits only.               *)
PersistProjectFactsBroken(r) ==
    /\ job[<<"record", r>>].at = "projects"
    /\ IF req[r].state = "succeeded"
       THEN /\ job' = [job EXCEPT ![<<"record", r>>].at = "bookmark"]
            /\ UNCHANGED <<inbox, projects>>
       ELSE /\ inbox' = Ack("record", r)
            /\ projects' = projects \cup {req[r].commit}
            /\ job' = [job EXCEPT ![<<"record", r>>] = NoJob]
    /\ UNCHANGED <<fact, promoted, recordRest>>

(* Each project's fact is created once as well; only green goes further.    *)
PersistProjectFacts(r) ==
    /\ job[<<"record", r>>].at = "projects"
    /\ projects' = projects \cup {req[r].commit}
    /\ IF req[r].state = "succeeded"
       THEN /\ job' = [job EXCEPT ![<<"record", r>>].at = "bookmark"]
            /\ UNCHANGED inbox
       ELSE /\ inbox' = Ack("record", r)
            /\ job' = [job EXCEPT ![<<"record", r>>] = NoJob]
    /\ UNCHANGED <<fact, promoted, recordRest>>

(* Only the request that holds the bookmark promotes its commit.            *)
HoldsBookmark(r) ==
    /\ job[<<"record", r>>].at = "bookmark"
    /\ \/ /\ queue.green = r
          /\ job' = [job EXCEPT ![<<"record", r>>].at = "promote"]
          /\ UNCHANGED inbox
       \/ /\ queue.green # r
          /\ job' = [job EXCEPT ![<<"record", r>>] = NoJob]
          /\ inbox' = Ack("record", r)
    /\ UNCHANGED <<fact, projects, promoted, recordRest>>

(* The ref has no version: it points where it was last told to.             *)
Promote(r) ==
    /\ job[<<"record", r>>].at = "promote"
    /\ promoted' = req[r].commit
    /\ job' = [job EXCEPT ![<<"record", r>>] = NoJob]
    /\ inbox' = Ack("record", r)
    /\ UNCHANGED <<fact, projects, recordRest>>

RecordStep(r) == RecordFact(r) \/ PersistProjectFacts(r) \/ HoldsBookmark(r) \/ Promote(r)
-----------------------------------------------------------------------------
(* Dead letters.                                                            *)

dlqRest == <<watch, trunk, uri, minted, run, builds, projects, promoted, line, inbox, sent, call, gone, events>>
DLQ == <<"dlq", 0>>

(* The request a dead letter is about: a poll's names the build.            *)
RequestOf(d) == IF d[1] = "poll" THEN builds[d[2]].request ELSE d[2]

(* A slot back to the queue, if it has one out.                             *)
ReleaseOne == IF queue.inFlight > 0 THEN WriteQueue(ReleaseSlot(queue)) ELSE UNCHANGED queue

(* A final request is left alone. One that is processing gives its slot     *)
(* back first, so that no final request holds one.                          *)
FailRequestRelease(d) ==
    /\ d \in dead /\ job[DLQ].at = "idle"
    /\ LET r == RequestOf(d)
       IN IF req[r].state \in Terminal
          THEN dead' = dead \ {d} /\ UNCHANGED <<queue, job>>
          ELSE /\ IF req[r].state = "processing" THEN ReleaseOne ELSE UNCHANGED queue
               /\ job' = [job EXCEPT ![DLQ] = [NoJob EXCEPT !.at = d[1], !.id = d[2],
                            !.seen = req[r].state, !.build = req[r].build]]
               /\ UNCHANGED dead
    /\ UNCHANGED <<req, fact, dlqRest>>

(* The request fails, unless it changed since it was read: then the dead    *)
(* letter is delivered again.                                               *)
FailRequest ==
    /\ job[DLQ].at # "idle"
    /\ LET d == <<job[DLQ].at, job[DLQ].id>>
           r == RequestOf(d)
       IN IF req[r].state = job[DLQ].seen /\ req[r].build = job[DLQ].build
          THEN req' = [req EXCEPT ![r].state = "failed"] /\ dead' = dead \ {d}
          ELSE UNCHANGED <<req, dead>>
    /\ job' = [job EXCEPT ![DLQ] = NoJob]
    /\ UNCHANGED <<queue, fact, dlqRest>>

(* Record work is abandoned; only a failure still becomes a fact.           *)
AbandonRecord(d) ==
    /\ d \in dead /\ d[1] = "record"
    /\ IF req[d[2]].state = "failed"
       THEN RecordValidationFact(req[d[2]].commit, "broken") ELSE UNCHANGED fact
    /\ dead' = dead \ {d}
    /\ UNCHANGED <<req, queue, job, dlqRest>>

(* One reconciler per stage.                                                *)
DLQProcess(d) == d[1] = "process" /\ FailRequestRelease(d)
DLQBuild(d) == d[1] = "build" /\ FailRequestRelease(d)
DLQBuildSignal(d) == d[1] = "poll" /\ FailRequestRelease(d)

DlqStep ==
    \/ FailRequest
    \/ \E d \in dead : DLQProcess(d) \/ DLQBuild(d) \/ DLQBuildSignal(d) \/ AbandonRecord(d)
-----------------------------------------------------------------------------
(* Faults.                                                                  *)

faultRest == <<watch, trunk, uri, minted, req, queue, run, builds, fact, projects, promoted, sent, call>>

(* A handler's process dies at any write; its message comes again.          *)
Crash(j) ==
    /\ CanHappen("crash") /\ job[j].at # "idle"
    /\ job' = [job EXCEPT ![j] = NoJob]
    /\ events' = events + 1
    /\ UNCHANGED <<line, inbox, dead, gone, faultRest>>

(* An ack is lost: a message that was handled is delivered once more.       *)
Redeliver(m) ==
    /\ CanHappen("redeliver") /\ m \in sent /\ m \notin inbox /\ m \notin dead
    /\ IF m[1] = "process"
       THEN /\ job[Now].at = "idle" /\ \A i \in DOMAIN line : line[i] # m[2]
            /\ line' = <<m[2]>> \o line
            /\ UNCHANGED inbox
       ELSE inbox' = inbox \cup {m} /\ UNCHANGED line
    /\ events' = events + 1
    /\ UNCHANGED <<job, dead, gone, faultRest>>

(* A process handler outlives its lease, and its message is delivered again.*)
ExpireProcess ==
    /\ CanHappen("late") /\ job[Now].at # "idle" /\ job[Late].at = "idle"
    /\ job' = [job EXCEPT ![Late] = job[Now], ![Now] = NoJob]
    /\ gone' = gone \cup {Late}
    /\ events' = events + 1
    /\ UNCHANGED <<line, inbox, dead, faultRest>>

(* A handler's retries are used up, wherever it got to: the message moves   *)
(* to the dead letters, which hold one of each ID.                          *)
DeadLetter(j) ==
    /\ j[1] \in Dying /\ events < MaxEvents /\ j # Late
    /\ IF j = Now THEN line # <<>> /\ <<"process", Head(line)>> \notin dead ELSE j \in inbox \ dead
    /\ job' = [job EXCEPT ![j] = NoJob]
    /\ LET m == IF j = Now THEN <<"process", Head(line)>> ELSE j
       IN dead' = dead \cup {m} /\ gone' = gone \cup {m}
    /\ line' = IF j = Now THEN Tail(line) ELSE line
    /\ inbox' = inbox \ {j}
    /\ events' = events + 1
    /\ UNCHANGED faultRest
-----------------------------------------------------------------------------
IngestStep(c) == Ingest(c) \/ MintID(c) \/ MapURI(c) \/ EnsureRequest(c)
                   \/ AdvanceQueueLatestRequestID(c) \/ PublishProcess(c)

JobStep == ProcessStep \/ DlqStep
             \/ \E r \in Id : BuildStep(r) \/ RecordStep(r)
             \/ \E b \in BuildId : PollStep(b)

RunnerStep == \E b \in DOMAIN run, status \in Outcome : BuildEnds(b, status)

Fault == (\E c \in Caller : Abandon(c)) \/ ExpireProcess
           \/ (\E j \in Job : Crash(j) \/ DeadLetter(j)) \/ \E m \in sent : Redeliver(m)

Next == NewCommit \/ (\E c \in Caller : IngestStep(c)) \/ JobStep \/ RunnerStep \/ Fault

Spec == Init /\ [][Next]_vars

(* Callers ingest again and again, the queue delivers what it holds and a   *)
(* build ends.                                                              *)
FairSpec == Spec /\ (\A c \in Caller : WF_vars(IngestStep(c)))
                 /\ WF_vars(JobStep) /\ WF_vars(RunnerStep)
-----------------------------------------------------------------------------
RequestType == [state : {"none", "accepted", "processing"} \cup Terminal, commit : 0..MaxCommit,
                base : 0..MaxCommit, build : 0..MaxBuild, by : 0..MaxBuild]

(* Type invariant; the count of slots is never negative.                    *)
TypeOK ==
    /\ trunk \in Commit /\ uri \in [Commit -> 0..MaxId] /\ minted \in 0..MaxId
    /\ req \in [Id -> RequestType]
    /\ queue \in [latest : 0..MaxId, inFlight : Nat, green : 0..MaxId, version : Nat]
    /\ run \in Seq(Outcome \cup {"running"}) /\ Len(run) <= MaxBuild
    /\ builds \in [BuildId -> [request : 0..MaxId, status : Outcome \cup {"none", "running"}]]
    /\ fact \in [Commit -> {"none", "green", "broken"}] /\ promoted \in 0..MaxCommit
    /\ line \in Seq(Id)
    /\ inbox \subseteq Job /\ dead \subseteq {"process", "build", "poll", "record"} \X Nat
    /\ events \in 0..MaxEvents

(* Two handlers of one request were at work: a process handler outlived its *)
(* lease, or the commit was ingested again while the dead letter of its     *)
(* request was still to be read.                                            *)
Overlapped == gone \cap {Late, Again} # {}

(* The count of slots is a lower bound on the validations in flight: no     *)
(* crash and no dead letter leaves a slot that nobody owns and that would   *)
(* close the gate for good. The code does leak one when two handlers of one *)
(* request overlap: what ends the request between the other's two writes    *)
(* finds no slot to give back, and the slot is counted for a final request. *)
SlotsAreOwned == queue.inFlight <= Cardinality(Processing) \/ Overlapped

Passed(r) == req[r].state = "succeeded" /\ req[r].by # 0 /\ run[req[r].by] = "succeeded"

(* Whatever says that a commit is green (the bookmark, the base of an       *)
(* incremental build, a fact, the promotion ref) names a commit whose own   *)
(* request was closed by a build that really passed; and a promoted commit  *)
(* has its facts on record.                                                 *)
GreenIsEarned ==
    LET green == {uri[u] : u \in {u \in Commit : fact[u] = "green"}}
                   \cup ({queue.green} \ {0})
                   \cup {uri[req[r].base] : r \in {r \in Id : req[r].base # 0}}
                   \cup {uri[u] : u \in {promoted} \ {0}}
    IN /\ \A r \in green : r # 0 /\ Passed(r)
       /\ promoted # 0 => fact[promoted] = "green" /\ promoted \in projects

(* Racing calls for one head make one request.                              *)
OneRequestPerCommit ==
    \A r, q \in Id : req[r].commit # 0 /\ req[r].commit = req[q].commit => r = q

(* A final request never changes its state, nor a fact its degree, however  *)
(* often its messages are delivered.                                        *)
VerdictIsFinal ==
    [][/\ \A r \in Id : req[r].state \in Terminal => req'[r].state = req[r].state
       /\ \A u \in Commit : fact[u] # "none" => fact'[u] = fact[u]]_vars

(* The bookmark and the newest request never move to an older request.      *)
BookmarksMoveForward ==
    [][queue'.green >= queue.green /\ queue'.latest >= queue.latest]_vars

(* The newest request is judged, or a newer one comes: no fault leaves it   *)
(* waiting for ever, but the two that leak a slot.  And a commit whose      *)
(* build passed gets its green fact, unless the poll that closed the        *)
(* request or the request's record was dead-lettered.                       *)
CommitsAreJudged ==
    \A r \in Id :
        /\ queue.latest = r ~> (queue.latest # r \/ req[r].state \in Terminal \/ Overlapped)
        /\ \A u \in Commit :
              (Passed(r) /\ req[r].commit = u) ~>
                  \/ fact[u] = "green"
                  \/ gone \cap {<<"poll", req[r].by>>, <<"record", r>>} # {}

(* The promotion ref, a cache of the bookmark, never moves to an older      *)
(* commit.                                                                  *)
PromotesForward == [][promoted' >= promoted]_vars

(* The newest request is the newest commit's: a head is only superseded by  *)
(* a commit that follows it.                                                *)
NewestIsHead ==
    \A r \in Id : req[r].state = "superseded" =>
        \E q \in Id : req[q].commit > req[r].commit
=============================================================================
