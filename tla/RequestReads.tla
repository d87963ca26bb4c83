---------------------------- MODULE RequestReads ----------------------------
(***************************************************************************)
(* The read side of one validation request of stovepipe: its log of        *)
(* occurrences, the summary and the acceptance mapping projected from the  *)
(* log, its validation facts with their lookup by degree, and the calls    *)
(* that read them.                                                         *)
(*                                                                         *)
(* The writers are the stages the request passes and their dead-letter     *)
(* consumers.  Each writes the request, then persists a log, then hands    *)
(* the request on; it may stop after any step and be delivered again.  A   *)
(* stage's own read and compare-and-swap of the request is one step.       *)
(***************************************************************************)
EXTENDS Integers, Sequences, FiniteSets, SequencesExt

CONSTANTS
    Call,          \* the Ingest calls for the commit
    MaxProject,    \* the projects of the commit are 1 .. MaxProject, in bytewise order
    Resolutions,   \* what the resolver may return, at each attempt anew: project -> degree,
                   \* 0 green, of the projects it names
    PageSize,      \* page_size of GetProjectStatus
    MaxFaults,     \* bound: failures of a step of a writer
    DeadLettered   \* the stages whose retries may be exhausted

Project == 1 .. MaxProject
Stage  == {"process", "signal", "record"}
Dlq(k) == CASE k = "process" -> "process_dlq" [] k = "signal" -> "signal_dlq"
            [] k = "record" -> "record_dlq"
Writer == Call \cup Stage \cup {Dlq(k) : k \in Stage}

Outcome  == {"succeeded", "failed", "cancelled"}
Terminal == Outcome \cup {"superseded"}
State    == {"none", "accepted", "processing"} \cup Terminal
Reason   == {"none", "superseded_by_newer_head", "build_succeeded", "build_failed",
             "build_cancelled", "processing_failed", "build_polling_exhausted"}
NoFact   == -1
None     == <<"none", 0>>

VARIABLES
    uri,      \* the commit's URI is mapped to the request
    request,  \* the durable row: its state, version and base
    build,    \* how the build ended; "none" before
    logs,     \* the retained occurrences
    summary,  \* the summary row, or NoSummary
    listed,   \* the acceptance mappings: times at which the request is listed
    fact,     \* project -> degree of its fact, NoFact; 0 is the whole repository
    index,    \* the lookup by degree: [degree, project] entries
    inbox,    \* the calls and messages that are not finished
    job,      \* writer -> the work on its call or message
    reader,   \* a client that pages through GetProjectStatus
    past,     \* what happened: the projects the first attempt of record resolved and
              \* whether another resolved others, and whether a stage was dead-lettered
              \* once the request had ended
    faults

readVars == <<uri, request, build, logs, summary, listed, fact, index, past, inbox, job, reader, faults>>

NoRequest == [state |-> "none", version |-> 0, base |-> FALSE]
NoSummary == [state |-> "none", version |-> 0, at |-> 0, accepted |-> 0, completed |-> 0,
              count |-> 0, broken |-> 0, reason |-> "none", base |-> FALSE, lock |-> 0]

Idle == [at |-> "idle", log |-> [id |-> None], then |-> "idle", seen |-> NoSummary,
         row |-> NoRequest, results |-> <<>>, done |-> {}]

ReadsInit ==
    /\ uri = FALSE /\ build = "none" /\ logs = {} /\ listed = {} /\ index = {} /\ faults = 0
    /\ request = NoRequest
    /\ summary = NoSummary
    /\ fact = [p \in 0 .. MaxProject |-> NoFact]
    /\ inbox = Call
    /\ job = [k \in Writer |-> Idle]
    /\ reader = [at |-> "idle"]
    /\ past = [named |-> {}, differ |-> FALSE, cut |-> FALSE]

\* Failures take time: what is stamped after one carries a later time.
Now == faults + 1

-----------------------------------------------------------------------------
(* Logs.                                                                    *)

NewRequestStateLog(row, reason) ==
    [id |-> <<"state", row.version>>, state |-> row.state, version |-> row.version,
     reason |-> reason, base |-> row.base, count |-> 0, broken |-> 0, at |-> 0]

NewRequestEventLog(event) ==
    [id |-> <<event, 0>>, state |-> "none", version |-> 0, reason |-> "none", base |-> FALSE,
     count |-> 0, broken |-> 0, at |-> 0]

Valid(log) ==
    CASE log.state = "none"       -> log.version = 0 /\ log.reason = "none"
      [] log.state = "superseded" -> log.reason = "superseded_by_newer_head"
      [] log.state = "succeeded"  -> log.reason = "build_succeeded"
      [] log.state = "cancelled"  -> log.reason = "build_cancelled"
      [] log.state = "failed"     -> log.reason \in {"build_failed", "processing_failed",
                                                     "build_polling_exhausted"}
      [] OTHER                    -> log.reason = "none"

SameOccurrence(stored, log) == [stored EXCEPT !.at = 0] = [log EXCEPT !.at = 0]

(* Mutant: an occurrence that is already retained is taken for projected.   *)
ProjectedOnce(log) ==
    /\ log.state # "none" \/ log.id[1] \in {"project_facts_recorded", "record_abandoned"}
    /\ \A l \in logs : l.id # log.id

(* The occurrences that move the summary: state logs and the end of project *)
(* results.                                                                 *)
Projected(log) == log.state # "none" \/ log.id[1] \in {"project_facts_recorded", "record_abandoned"}

-----------------------------------------------------------------------------
(* The projection of a log onto the summary.                                *)

FromRequestAndLog(log) ==
    [NoSummary EXCEPT !.state = log.state, !.version = log.version, !.at = log.at,
                      !.reason = log.reason, !.base = log.base, !.lock = 1,
                      !.accepted = IF log.state = "accepted" THEN log.at ELSE 0]

ProjectFacts(s, log) ==
    CASE log.id[1] = "project_facts_recorded" ->
             [s EXCEPT !.completed = IF @ = 0 THEN log.at ELSE @,
                       !.count = log.count, !.broken = log.broken]
      [] log.id[1] = "record_abandoned" -> [s EXCEPT !.completed = IF @ = 0 THEN log.at ELSE @]
      [] log.state = "accepted" -> [s EXCEPT !.accepted = log.at]
      [] OTHER -> s

(* Mutant: a log of an older version is projected too.                      *)
ProjectStateAlways(s, log) ==
    IF log.state = "none" THEN s
    ELSE [s EXCEPT !.state = log.state, !.version = log.version, !.at = log.at,
                   !.reason = log.reason, !.base = @ \/ log.base]

ProjectState(s, log) ==
    IF log.state = "none" \/ log.version < s.version THEN s
    ELSE [s EXCEPT !.state = log.state, !.version = log.version, !.at = log.at,
                   !.reason = log.reason, !.base = @ \/ log.base]

(* What the summary already says and the log contradicts.                   *)
Contradicts(s, log) ==
    \/ log.state = "accepted" /\ s.accepted \notin {0, log.at}
    \/ /\ log.state # "none" /\ log.version = s.version
       /\ ~(s.state = log.state /\ s.at = log.at /\ s.reason \in {"none", log.reason}
            /\ (log.base => s.base))

ProjectSummary(s, log) == ProjectState(ProjectFacts(s, log), log)

-----------------------------------------------------------------------------
(* Steps of a writer.                                                       *)

Work(k, at) == k \in inbox /\ job[k].at = at
Do(k, rec) == job' = [job EXCEPT ![k] = rec]
Go(k, at) == Do(k, [job[k] EXCEPT !.at = at])

(* PersistLog is over: its working copies are dropped.                      *)
Return(k) == Do(k, [job[k] EXCEPT !.at = job[k].then, !.log = Idle.log, !.seen = NoSummary])

(* Begin PersistLog of a log and go on at a step.                           *)
PersistThen(k, log, then) ==
    Do(k, [job[k] EXCEPT !.at = "retain", !.log = log, !.then = then,
                        !.row = NoRequest, !.results = <<>>, !.done = {}])

Hand(k, next) == inbox' = (inbox \ {k}) \cup next
Finish(k, next) == Hand(k, next) /\ Do(k, Idle)

Stored(id) == CHOOSE l \in logs : l.id = id
IsStored(id) == \E l \in logs : l.id = id

(* Mutant: a redelivery goes on with its own copy.                          *)
KeptLogFresh(k) == [job[k].log EXCEPT !.at = Now]

(* The retained occurrence is the one a redelivery goes on with.            *)
KeptLog(k) == IF IsStored(job[k].log.id) THEN Stored(job[k].log.id) ELSE [job[k].log EXCEPT !.at = Now]

Rejected(k) ==
    LET log == job[k].log IN
    \/ job[k].at = "retain" /\ (~Valid(log) \/ (IsStored(log.id) /\ ~SameOccurrence(Stored(log.id), log)))
    \/ job[k].at = "read" /\ log.state = "none" /\ summary = NoSummary
    \/ job[k].at = "write" /\ job[k].seen # NoSummary /\ Contradicts(job[k].seen, log)
    \/ job[k].at = "outcome" /\ job[k].row.version # request.version

RetainRequestLog(k) ==
    /\ Work(k, "retain") /\ ~Rejected(k)
    /\ logs' = IF IsStored(job[k].log.id) THEN logs ELSE logs \cup {[job[k].log EXCEPT !.at = Now]}
    /\ IF Projected(job[k].log) THEN Do(k, [job[k] EXCEPT !.log = KeptLog(k), !.at = "read"])
       ELSE Return(k)
    /\ UNCHANGED <<uri, request, build, summary, listed, fact, index, past, inbox, reader, faults>>

GetRequestSummary(k) ==
    /\ Work(k, "read") /\ ~Rejected(k)
    /\ Do(k, [job[k] EXCEPT !.at = "write", !.seen = summary])
    /\ UNCHANGED <<uri, request, build, logs, summary, listed, fact, index, past, inbox, reader, faults>>

(* Mutant: the summary is written over without its version.                 *)
CurrentBlind(seen) == TRUE

Current(seen) == summary.lock = seen.lock

UpdateRequestSummary(k) ==
    LET seen == job[k].seen
        log  == job[k].log
        next == IF seen = NoSummary THEN FromRequestAndLog(log) ELSE ProjectSummary(seen, log)
    IN  /\ Work(k, "write") /\ ~Rejected(k)
        /\ IF ~Current(seen) /\ next # seen
           THEN Go(k, "read") /\ UNCHANGED summary
           ELSE IF next = seen
           THEN Go(k, "map") /\ UNCHANGED summary   \* an earlier attempt may have stopped here
           ELSE /\ summary' = [next EXCEPT !.lock = seen.lock + 1]
                /\ Do(k, [job[k] EXCEPT !.at = "map", !.seen = next])
        /\ UNCHANGED <<uri, request, build, logs, listed, fact, index, past, inbox, reader, faults>>

(* Mutant: the mapping carries the time of the log at hand.                 *)
AcceptanceTimeOfLog(k) == job[k].log.at

AcceptanceTime(k) == job[k].seen.accepted

EnsureAcceptanceMapping(k) ==
    /\ Work(k, "map")
    /\ listed' = IF AcceptanceTime(k) = 0 THEN listed ELSE listed \cup {AcceptanceTime(k)}
    /\ Return(k)
    /\ UNCHANGED <<uri, request, build, logs, summary, fact, index, past, inbox, reader, faults>>

Persist(k) == RetainRequestLog(k) \/ GetRequestSummary(k) \/ UpdateRequestSummary(k)
              \/ EnsureAcceptanceMapping(k)

NextStage(k) == CASE k \in Call -> {"process"} [] k = "process" -> {"signal"} [] k = "signal" -> {"record"}

(* A step fails, or a consistency error ends the attempt: the message is    *)
(* delivered again, or dead-lettered when its retries are exhausted.  A     *)
(* failure after the request was handed on only loses the acknowledgement.  *)
Fails(k) ==
    /\ k \in inbox /\ job[k].at # "idle"
    /\ \/ faults < MaxFaults /\ faults' = faults + 1
       \/ Rejected(k) /\ UNCHANGED faults
    /\ \/ UNCHANGED inbox
       \/ k \in DeadLettered /\ Hand(k, {Dlq(k)})
       \/ job[k].at = "publish" /\ inbox' = inbox \cup NextStage(k)
    /\ past' = [past EXCEPT !.cut = @ \/ (k \in {"process", "signal"} /\ k \notin inbox'
                                           /\ request.state \in Terminal)]
    /\ Do(k, Idle)
    /\ UNCHANGED <<uri, request, build, logs, summary, listed, fact, index, reader>>

-----------------------------------------------------------------------------
(* What each writer does to the request before and after its log.           *)

WriteRequest(state, base) ==
    request' = [state |-> state, version |-> request.version + 1, base |-> request.base \/ base]

(* Ingest: map the URI, create the request, log it while it is accepted,    *)
(* hand it to process.                                                      *)
ResolveID(k) ==
    /\ k \in Call /\ Work(k, "idle")
    /\ uri' = TRUE /\ Go(k, "row")
    /\ UNCHANGED <<request, build, logs, summary, listed, fact, index, past, inbox, reader, faults>>

EnsureRequest(k) ==
    /\ k \in Call /\ Work(k, "row")
    /\ IF request.state = "none" THEN WriteRequest("accepted", FALSE) ELSE UNCHANGED request
    /\ IF request'.state = "accepted"
       THEN PersistThen(k, NewRequestStateLog(request', "none"), "publish") /\ UNCHANGED inbox
       ELSE Finish(k, {})
    /\ UNCHANGED <<uri, build, logs, summary, listed, fact, index, past, reader, faults>>

(* Process: admit or supersede an accepted request; log again what an       *)
(* earlier delivery did.                                                    *)
ProcessRequest(k) ==
    /\ k = "process" /\ Work(k, "idle")
    /\ \/ /\ request.state = "accepted"
          /\ \/ /\ WriteRequest("processing", TRUE)
                /\ PersistThen(k, NewRequestStateLog(request', "none"), "publish")
             \/ /\ WriteRequest("superseded", FALSE)
                /\ PersistThen(k, NewRequestStateLog(request', "superseded_by_newer_head"), "ack")
          /\ UNCHANGED inbox
       \/ /\ request.state = "processing"
          /\ PersistThen(k, NewRequestStateLog(request, "none"), "publish")
          /\ UNCHANGED <<request, inbox>>
       \/ /\ request.state = "superseded"
          /\ PersistThen(k, NewRequestStateLog(request, "superseded_by_newer_head"), "ack")
          /\ UNCHANGED <<request, inbox>>
       \/ request.state \in Outcome /\ Finish(k, {}) /\ UNCHANGED request
    /\ UNCHANGED <<uri, build, logs, summary, listed, fact, index, past, reader, faults>>

(* Buildsignal: the build has ended.  Its end is logged, then the outcome   *)
(* is written and logged, then record is told.                              *)
BuildFinished(k) ==
    /\ k = "signal" /\ Work(k, "idle")
    /\ inbox \cap Call = {}     \* the bound: a build outlasts the calls of Ingest
    /\ build' \in (IF build = "none" THEN Outcome ELSE {build})
    /\ IF request.state = "processing" \/ request.state \in Outcome
       THEN /\ Do(k, [Idle EXCEPT !.at = "retain", !.log = NewRequestEventLog("build_finished"),
                                 !.then = "outcome", !.row = request])
            /\ UNCHANGED inbox
       ELSE Finish(k, {})
    /\ UNCHANGED <<uri, request, logs, summary, listed, fact, index, past, reader, faults>>

OutcomeReason(state) ==
    CASE state = "succeeded" -> "build_succeeded"
      [] state = "failed"    -> "build_failed"
      [] state = "cancelled" -> "build_cancelled"

FinishRequest(k) ==
    /\ k = "signal" /\ Work(k, "outcome")
    /\ IF job[k].row.state \in Outcome THEN UNCHANGED request
       ELSE ~Rejected(k) /\ WriteRequest(build, FALSE)
    /\ LET row == IF job[k].row.state \in Outcome THEN job[k].row ELSE request'
       IN  PersistThen(k, NewRequestStateLog(row, OutcomeReason(row.state)), "publish")
    /\ UNCHANGED <<uri, build, logs, summary, listed, fact, index, past, inbox, reader, faults>>

(* The dead-letter consumers of process and buildsignal fail the request,   *)
(* or log again that it failed, with the reason of their stage.             *)
DlqReason(k) == IF k = "process_dlq" THEN "processing_failed" ELSE "build_polling_exhausted"

FailRequest(k) ==
    /\ k \in {"process_dlq", "signal_dlq"} /\ Work(k, "idle")
    /\ IF request.state \in Terminal THEN UNCHANGED request ELSE WriteRequest("failed", FALSE)
    /\ IF request'.state = "failed"
       THEN PersistThen(k, NewRequestStateLog(request', DlqReason(k)), "ack") /\ UNCHANGED inbox
       ELSE Finish(k, {})
    /\ UNCHANGED <<uri, build, logs, summary, listed, fact, index, past, reader, faults>>

(* Hand the request to the next stage, or acknowledge.                      *)
Publish(k) ==
    /\ \/ Work(k, "publish") /\ Finish(k, NextStage(k))
       \/ Work(k, "ack") /\ Finish(k, {})
    /\ UNCHANGED <<uri, request, build, logs, summary, listed, fact, index, past, reader, faults>>

-----------------------------------------------------------------------------
(* Record: the facts of the request.                                        *)

(* Facts are immutable: a later attempt adopts the one that is stored.      *)
RecordValidationFact(p, degree) ==
    fact' = IF fact[p] = NoFact THEN [fact EXCEPT ![p] = degree] ELSE fact

(* Green; of a failure, partial when the resolver named projects, else broken. *)
DegreeFor(state, results) == IF state = "succeeded" THEN 0 ELSE IF results # <<>> THEN 1 ELSE 2

FactLog(degree) == [NewRequestEventLog("validation_fact_recorded") EXCEPT !.count = degree]

RecordRequest(k) ==
    /\ k = "record" /\ Work(k, "idle")
    /\ IF request.state \in {"succeeded", "failed"}
       THEN /\ \E results \in Resolutions :
                  /\ RecordValidationFact(0, DegreeFor(request.state, results))
                  /\ Do(k, [job[k] EXCEPT !.at = "retain", !.then = "facts", !.results = results,
                                          !.log = FactLog(fact'[0])])
                  /\ past' = IF fact[0] = NoFact THEN [past EXCEPT !.named = DOMAIN results]
                             ELSE [past EXCEPT !.differ = @ \/ DOMAIN results # past.named]
            /\ UNCHANGED inbox
       ELSE Finish(k, {}) /\ UNCHANGED <<fact, past>>
    /\ UNCHANGED <<uri, request, build, logs, summary, listed, index, reader, faults>>

Resolved(k) == DOMAIN job[k].results

(* The next project: its fact, and in a later step its place in the lookup. *)
RecordProjectFact(k) ==
    /\ Work(k, "facts")
    /\ \E p \in Resolved(k) \ job[k].done :
          /\ \A q \in Resolved(k) \ job[k].done : p <= q
          /\ RecordValidationFact(p, job[k].results[p])
          /\ Do(k, [job[k] EXCEPT !.at = "index", !.done = @ \cup {p}])
    /\ UNCHANGED <<uri, request, build, logs, summary, listed, index, past, inbox, reader, faults>>

(* Mutant: the entry carries the degree just resolved, not the stored one.  *)
NewProjectFactByDegreeResolved(k, p) == [degree |-> job[k].results[p], project |-> p]

NewProjectFactByDegree(k, p) == [degree |-> fact[p], project |-> p]

IndexProjectFact(k) ==
    /\ Work(k, "index")
    /\ index' = index \cup {NewProjectFactByDegree(k, p) : p \in job[k].done}   \* the others are there
    /\ Go(k, "facts")
    /\ UNCHANGED <<uri, request, build, logs, summary, listed, fact, past, inbox, reader, faults>>

(* Mutant: the broken projects are counted as they were just resolved.      *)
BrokenResolved(k) == Cardinality({p \in Resolved(k) : job[k].results[p] > 0})

Broken(k) == Cardinality({p \in Resolved(k) : fact[p] > 0})

ProjectFactsRecorded(k) ==
    /\ Work(k, "facts") /\ job[k].done = Resolved(k)
    /\ PersistThen(k, [NewRequestEventLog("project_facts_recorded") EXCEPT
                          !.count = Cardinality(Resolved(k)), !.broken = Broken(k)], "ack")
    /\ UNCHANGED <<uri, request, build, logs, summary, listed, fact, index, past, inbox, reader, faults>>

(* The dead-letter consumer of record: the abandonment is logged, and a     *)
(* failed request gets its repository fact.                                 *)
AbandonRecord(k) ==
    /\ k = "record_dlq" /\ Work(k, "idle")
    /\ PersistThen(k, NewRequestEventLog("record_abandoned"),
                   IF request.state = "failed" THEN "abandoned" ELSE "ack")
    /\ UNCHANGED <<uri, request, build, logs, summary, listed, fact, index, past, inbox, reader, faults>>

AbandonedFact(k) ==
    /\ Work(k, "abandoned")
    /\ RecordValidationFact(0, 2)                           \* broken
    /\ PersistThen(k, FactLog(fact'[0]), "ack")
    /\ UNCHANGED <<uri, request, build, logs, summary, listed, index, past, inbox, reader, faults>>

Writes(k) ==
    \/ Persist(k) \/ Publish(k)
    \/ ResolveID(k) \/ EnsureRequest(k) \/ ProcessRequest(k) \/ BuildFinished(k)
    \/ FinishRequest(k) \/ FailRequest(k) \/ RecordRequest(k) \/ RecordProjectFact(k)
    \/ IndexProjectFact(k) \/ ProjectFactsRecorded(k) \/ AbandonRecord(k) \/ AbandonedFact(k)

-----------------------------------------------------------------------------
(* The calls that read.                                                     *)

(* List: the mappings of a window, newest first, each with its summary.     *)
ReadListSummary(at) ==
    IF summary = NoSummary \/ summary.accepted # at THEN "inconsistent" ELSE "listed"

ListRequests(from, before) ==
    {ReadListSummary(at) : at \in {a \in listed : from <= a /\ a < before}}

(* GetRequestHistory by ID, and by URI.                                     *)
ReadRequestHistory ==
    CASE logs = {}           -> "not_found"
      [] logs # {} /\ summary = NoSummary -> "retry"
      [] OTHER               -> "found"

HistoryByURI == CASE ~uri      -> "not_found"
                  [] uri /\ logs = {} -> "error"
                  [] OTHER     -> ReadRequestHistory

(* GetProjectStatus by URI: the status first, then a page of project facts, *)
(* either of all projects in the order of the lookup, or of those named.    *)
ReadStatus(named) ==
    /\ reader.at = "idle"
    /\ summary # NoSummary
    /\ inbox = {"record"} /\ faults = 0   \* the bound: a client asks while facts are recorded
    /\ reader' = [at |-> "page", named |-> named, cursor |-> 0, got |-> <<>>, promised |-> summary.count,
                  due |-> index, known |-> {p \in Project : fact[p] # NoFact}]
    /\ UNCHANGED <<uri, request, build, logs, summary, listed, fact, index, past, inbox, job, faults>>

Before(a, b) == a.degree > b.degree \/ (a.degree = b.degree /\ a.project < b.project)

(* Mutant: the cursor compares degrees only.                                *)
AfterCursorByDegree(e, cursor) == cursor = 0 \/ e.degree < fact[cursor]

AfterCursor(e, cursor) ==
    cursor = 0 \/ e.degree < fact[cursor] \/ (e.degree = fact[cursor] /\ e.project > cursor)

AtMost(n, s) == SubSeq(s, 1, IF n < Len(s) THEN n ELSE Len(s))

ListByDegree(cursor, limit) ==
    AtMost(limit, SetToSortSeq({e \in index : AfterCursor(e, cursor)}, Before))

ListPage ==
    LET found == ListByDegree(reader.cursor, PageSize + 1)
        page  == AtMost(PageSize, found)
        projects == [i \in 1 .. Len(page) |-> page[i].project]
    IN  /\ reader.at = "page" /\ reader.named = <<>>
        /\ reader' = [reader EXCEPT
               !.got = @ \o projects,
               !.cursor = IF page = <<>> THEN 0 ELSE Last(projects),
               !.at = IF \E i \in 1 .. Len(page) : page[i].degree # fact[page[i].project] THEN "error"
                      ELSE IF Len(found) > PageSize THEN "page" ELSE "done"]
        /\ UNCHANGED <<uri, request, build, logs, summary, listed, fact, index, past, inbox, job, faults>>

(* Mutant: the project at the page's end is skipped.                        *)
NextIndexPast(end) == end + 1

(* The first index of the next page of named projects.                      *)
NextIndex(end) == end

RequestedPage ==
    LET named == reader.named
        end   == IF reader.cursor + PageSize < Len(named) THEN reader.cursor + PageSize ELSE Len(named)
        asked == SubSeq(named, reader.cursor + 1, end)
    IN  /\ reader.at = "page" /\ named # <<>>
        /\ reader' = [reader EXCEPT !.got = @ \o SelectSeq(asked, LAMBDA p : fact[p] # NoFact),
                                    !.cursor = NextIndex(end),
                                    !.at = IF end < Len(named) THEN "page" ELSE "done"]
        /\ UNCHANGED <<uri, request, build, logs, summary, listed, fact, index, past, inbox, job, faults>>

GetProjectStatus ==
    \/ \E named \in {<<>>, [p \in Project |-> MaxProject + 1 - p]} : ReadStatus(named)
    \/ ListPage \/ RequestedPage

-----------------------------------------------------------------------------

ReadsNext == GetProjectStatus \/ \E k \in Writer : Writes(k) \/ Fails(k)

(* A caller of Ingest repeats a call that failed; messages are delivered    *)
(* again until they are acknowledged or dead-lettered.                      *)
ReadsFairness == \A k \in Writer : WF_readVars(Writes(k)) /\ WF_readVars(Rejected(k) /\ Fails(k))

ReadsSpec == ReadsInit /\ [][ReadsNext]_readVars /\ ReadsFairness
-----------------------------------------------------------------------------
(* Every row, log and job has the shape the writers give it.                *)
ReadsTypeOK ==
    /\ uri \in BOOLEAN /\ build \in Outcome \cup {"none"} /\ inbox \subseteq Writer
    /\ request.state \in State /\ request.version \in 0 .. 3
    /\ \A l \in logs : Valid(l) /\ l.at \in 1 .. MaxFaults + 1 /\ l.reason \in Reason
    /\ summary.version \in 0 .. 3 /\ summary.completed \in 0 .. MaxFaults + 1
    /\ listed \subseteq 1 .. MaxFaults + 1
    /\ \A e \in index : e.degree \in 0 .. 2 /\ e.project \in Project
    /\ faults \in 0 .. MaxFaults

(* List never meets a mapping whose summary is missing or tells another     *)
(* time of acceptance, whatever was retried or interrupted.                 *)
ListIsConsistent ==
    \A from, before \in 0 .. MaxFaults + 2 : from < before => ListRequests(from, before) \subseteq {"listed"}

(* The summary repeats the retained log of the version it shows: its time   *)
(* and its reason are the history's, also when a redelivery projected it.   *)
SummaryTellsHistory ==
    summary # NoSummary =>
        \E l \in logs : /\ l.state = summary.state /\ l.version = summary.version
                        /\ l.at = summary.at /\ l.reason = summary.reason

(* The counts of a summary are those of stored facts, whatever degrees a    *)
(* retry of record resolved: of all of them, as long as every attempt       *)
(* resolved the same projects, and of some otherwise.  The resolver          *)
(* promises nothing of the kind (projectstatus.go:43-50): a retry that       *)
(* names fewer projects counts those (record.go:208-238).                   *)
CountsFollowFacts ==
    LET facts == {p \in Project : fact[p] # NoFact} IN
    summary.count # 0 =>
        /\ \E counted \in SUBSET facts :
              /\ past.differ \/ counted = facts
              /\ summary.count = Cardinality(counted)
              /\ summary.broken = Cardinality({p \in counted : fact[p] > 0})

(* A client that read the status and then its pages has every project that  *)
(* was there at the start, once, however many were added meanwhile; and no  *)
(* fewer than the status said were recorded.                                *)
PagesAreWhole ==
    /\ reader.at # "error"
    /\ reader.at = "done" =>
          LET got == {reader.got[i] : i \in DOMAIN reader.got} IN
          /\ Cardinality(got) = Len(reader.got)
          /\ IF reader.named = <<>> THEN \A e \in reader.due : e.project \in got
             ELSE reader.known \subseteq got
          /\ Cardinality(got) >= reader.promised

(* The summary never falls back to an older version of the request, and its *)
(* times of acceptance and completion never change once they are set.       *)
SummaryMovesForward ==
    [][/\ summary'.version >= summary.version
       /\ summary.accepted # 0 => summary'.accepted = summary.accepted
       /\ summary.completed # 0 => summary'.completed = summary.completed]_readVars

(* In the end the request is listed and its history can be read, and its    *)
(* summary shows the state and version of its row, whichever step of        *)
(* whichever writer failed and was repeated.  Not so the summary when       *)
(* process or buildsignal is dead-lettered after the request was stamped    *)
(* and before its log is retained and projected: the dead-letter consumer   *)
(* skips a request that has ended (dlq.go:103-113), or is refused for ever  *)
(* when it would log a build's failure as its own, and the summary shows    *)
(* the request at work for good.                                            *)
Settled ==
    /\ listed # {} /\ HistoryByURI = "found"
    /\ past.cut \/ (summary.state = request.state /\ summary.version = request.version)

ReadsSettle == <>[]Settled
=============================================================================
