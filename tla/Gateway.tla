------------------------------- MODULE Gateway -------------------------------
(***************************************************************************)
(* The gateway of one queue: Land and Cancel, the request log, and the     *)
(* summary, URI and receipt read models that Materializer.PersistLog       *)
(* projects from it.  Listing pages through the receipts.                  *)
(*                                                                         *)
(* A request is the number the queue's counter gave it.  Persisting a log  *)
(* entry is several writes: append, read the summary, replace it if the    *)
(* entry wins, then create the mappings.  A Land call, a Cancel call and   *)
(* the consumer of the log topic may all be at it for one request; the     *)
(* consumer retries a delivery that failed, the calls do not.  Timestamps  *)
(* come from the clocks of several hosts, so any entry may carry any.      *)
(***************************************************************************)
EXTENDS Integers, Sequences, FiniteSets

CONSTANTS
    MaxRequest,  \* bound: Land calls
    MaxTime,     \* bound: the clock readings
    Outcomes,    \* the terminal statuses the orchestrator may report
    Reports,     \* what else it reports: "validating" (no version), "event"
    Cancellers,  \* "known": Cancel names requests Land returned; "any": any sqid
    MaxBacklog,  \* bound: entries of a request waiting on the log topic
    MaxFaults    \* bound: publishes and persist attempts that fail

Request == 1 .. MaxRequest
Time == 1 .. MaxTime

(* The three writers of request logs.                                       *)
Writer == {"land", "cancel", "log"}

TerminalStatus == {"landed", "error", "cancelled"}
PublicStatus == {"accepted", "started", "validating", "cancelling"} \cup TerminalStatus

(* A log entry.  An event carries no status and no version.                 *)
Log == [type : {"status", "event"}, status : PublicStatus \cup {""}, version : 0 .. 2, at : Time]
StatusLog(status, version, at) ==
    [type |-> "status", status |-> status, version |-> version, at |-> at]
EventLog(at) == [type |-> "event", status |-> "", version |-> 0, at |-> at]

(* A summary row, and its absence.                                          *)
Summary == [status : PublicStatus \cup {"accepting"}, version : 0 .. 2, at : Time, row : Nat]
NoSummary == [status |-> "none", version |-> 0, at |-> 0, row |-> 0]

Idle == [pc |-> "idle"]

VARIABLES
    counter,     \* the last sqid minted
    paused,      \* does the queue refuse lands?
    received,    \* request -> when its Land call arrived
    summary,     \* request -> its summary row, or NoSummary
    uris,        \* the requests with their URI mappings
    receipts,    \* the requests with a receipt
    logs,        \* request -> the log entries stored
    landing,     \* request -> where its Land call is
    published,   \* the requests whose start message was published
    cancels,     \* the requests whose cancel message was published
    reported,    \* request -> what the orchestrator has reported of it
    topic,       \* request -> its entries on the log topic, in order
    persist,     \* request -> writer -> its PersistLog under way
    projected,   \* request -> entries whose PersistLog returned without error
    accepted,    \* request -> times its acceptance was counted
    terminated,  \* request -> times its end was counted
    faults

vars == <<counter, paused, received, summary, uris, receipts, logs, landing, published, cancels, reported,
          topic, persist, projected, accepted, terminated, faults>>
mappings == <<uris, receipts>>
counts == <<accepted, terminated>>

TypeOK ==
    /\ counter \in 0 .. MaxRequest
    /\ paused \in BOOLEAN
    /\ received \in [Request -> 0 .. MaxTime]
    /\ summary \in [Request -> Summary \cup {NoSummary}]
    /\ uris \subseteq Request /\ receipts \subseteq Request
    /\ logs \in [Request -> SUBSET Log] /\ projected \in [Request -> SUBSET Log]
    /\ landing \in [Request -> {"new", "created", "published", "returned", "failed"}]
    /\ published \subseteq Request /\ cancels \subseteq Request
    /\ topic \in [Request -> Seq(Log)]
    /\ \A r \in Request, w \in Writer :
          persist[r][w].pc \in {"idle", "get", "update", "uris", "receipt"}
    /\ accepted \in [Request -> Nat] /\ terminated \in [Request -> Nat]
    /\ faults \in 0 .. MaxFaults

Init ==
    /\ counter = 0 /\ paused = FALSE
    /\ received = [r \in Request |-> 0]
    /\ summary = [r \in Request |-> NoSummary]
    /\ uris = {} /\ receipts = {}
    /\ logs = [r \in Request |-> {}] /\ projected = [r \in Request |-> {}]
    /\ landing = [r \in Request |-> "new"]
    /\ published = {} /\ cancels = {}
    /\ reported = [r \in Request |-> {}]
    /\ topic = [r \in Request |-> <<>>]
    /\ persist = [r \in Request |-> [w \in Writer |-> Idle]]
    /\ accepted = [r \in Request |-> 0] /\ terminated = [r \in Request |-> 0]
    /\ faults = 0

-----------------------------------------------------------------------------
(* Which entry of the log is the request's public state.                    *)

IsVersionedTerminal(e) == e.version > 0 /\ e.status \in TerminalStatus

(* Mutant: an event may become the public state.                            *)
LogWinsAnyType(e, s) == s.status = "accepting" \/ e.at > s.at

(* Mutant: the newest timestamp wins.                                       *)
LogWinsByTime(e, s) == e.type = "status" /\ (s.status = "accepting" \/ e.at > s.at)

(* "accepting" yields to anything, "accepted" to nothing but itself; then a
   versioned terminal status, the higher version, the later timestamp.      *)
LogWins(e, s) ==
    /\ e.type = "status"
    /\ \/ s.status = "accepting"
       \/ /\ e.status = "accepted" => s.status = "accepted"
          /\ IF IsVersionedTerminal(e) # IsVersionedTerminal(s)
             THEN IsVersionedTerminal(e)
             ELSE IF IsVersionedTerminal(e) /\ e.version # s.version
                  THEN e.version > s.version
                  ELSE e.at > s.at

(* The state GetCurrentStateFromRequestLog reads off a whole log: the versioned
   terminal entries of the highest version, else the latest status entries.  *)
CurrentState(L) ==
    LET status == {e \in L : e.type = "status"}
        terminal == {e \in status : IsVersionedTerminal(e)}
        highest == {e \in terminal : \A f \in terminal : e.version >= f.version}
        latest == IF terminal # {} THEN highest ELSE status
    IN  {e.status : e \in {e \in latest : \A f \in latest : f.at <= e.at}}

-----------------------------------------------------------------------------
(* The stores.                                                              *)

(* The queue's counter hands out each number once.                          *)
NextID == counter' = counter + 1

CreateSummary(r, at) ==
    summary' = [summary EXCEPT ![r] = [status |-> "accepting", version |-> 0, at |-> at, row |-> 1]]

AppendLog(r, e) == logs' = [logs EXCEPT ![r] = @ \cup {e}]

(* A mapping that exists already is no error.                               *)
CreateURI(r) == uris' = uris \cup {r}
CreateReceipt(r) == receipts' = receipts \cup {r}

(* Mutant: the row is replaced whatever its version.                        *)
UpdateSummaryBlind(r, seen, e) ==
    summary' = [summary EXCEPT ![r] = [status |-> e.status, version |-> e.version,
                                       at |-> e.at, row |-> seen.row + 1]]

(* Update(summary, oldVersion, newVersion): the row is replaced only if nobody
   replaced it since it was read.                                           *)
UpdateSummary(r, seen, e) ==
    /\ summary[r].row = seen.row
    /\ summary' = [summary EXCEPT ![r] = [status |-> e.status, version |-> e.version,
                                          at |-> e.at, row |-> seen.row + 1]]

(* Mutant: an update to a terminal status is counted each time.             *)
RecordTerminations(r, before, e) ==
    /\ accepted' = [accepted EXCEPT ![r] = @ + IF before.status = "accepting" THEN 1 ELSE 0]
    /\ terminated' = [terminated EXCEPT ![r] = @ + IF e.status \in TerminalStatus THEN 1 ELSE 0]

(* The milestones an update crosses.                                        *)
RecordLifecycleTransition(r, before, e) ==
    /\ accepted' = [accepted EXCEPT ![r] = @ + IF before.status = "accepting" THEN 1 ELSE 0]
    /\ terminated' = [terminated EXCEPT ![r] =
          @ + IF before.status \notin TerminalStatus /\ e.status \in TerminalStatus THEN 1 ELSE 0]

-----------------------------------------------------------------------------
(* PersistLog, step by step.                                                *)

(* Begin: the entry is appended to the log.                                 *)
InsertLog(r, w, e) ==
    /\ persist[r][w] = Idle
    /\ persist' = [persist EXCEPT ![r][w] = [pc |-> "get", log |-> e]]
    /\ AppendLog(r, e)

(* What the caller of PersistLog does once it returns without error: a Land
   call returns the sqid, a Cancel call publishes to the cancel topic, the
   consumer acks its delivery.                                              *)
Returned(r, w) ==
    /\ persist' = [persist EXCEPT ![r][w] = Idle]
    /\ projected' = [projected EXCEPT ![r] = @ \cup {persist[r][w].log}]
    /\ landing' = IF w = "land" THEN [landing EXCEPT ![r] = "returned"] ELSE landing
    /\ cancels' = IF w = "cancel" THEN cancels \cup {r} ELSE cancels
    /\ topic' = IF w = "log" THEN [topic EXCEPT ![r] = Tail(@)] ELSE topic

GoTo(r, w, pc) == persist' = [persist EXCEPT ![r][w].pc = pc]

(* Mutant: only the entry that changed the summary creates the mappings.    *)
AfterLosing(status) == "done"

(* An entry that does not win still retries the mappings, unless the request
   is to stay internal.                                                     *)
AfterReading(status) == IF status = "accepting" THEN "done" ELSE "uris"

(* Read the summary and decide.                                             *)
GetSummary(r, w) ==
    LET e == persist[r][w].log IN
    /\ persist[r][w].pc = "get"
    /\ IF LogWins(e, summary[r])
       THEN /\ persist' = [persist EXCEPT ![r][w] = [pc |-> "update", log |-> e, seen |-> summary[r]]]
            /\ UNCHANGED <<projected, landing, cancels, topic>>
       ELSE IF AfterReading(summary[r].status) = "done"
            THEN Returned(r, w)
            ELSE GoTo(r, w, "uris") /\ UNCHANGED <<projected, landing, cancels, topic>>
    /\ UNCHANGED <<counter, paused, received, summary, mappings, logs, published, reported, counts, faults>>

(* Replace the summary; a version mismatch reads it again.                  *)
Update(r, w) ==
    LET t == persist[r][w] IN
    /\ t.pc = "update"
    /\ \/ /\ UpdateSummary(r, t.seen, t.log)
          /\ RecordLifecycleTransition(r, t.seen, t.log)
          /\ GoTo(r, w, "uris")
       \/ /\ summary[r].row # t.seen.row
          /\ GoTo(r, w, "get")
          /\ UNCHANGED <<summary, counts>>
    /\ UNCHANGED <<counter, paused, received, mappings, logs, landing, published, cancels, reported,
                   topic, projected, faults>>

(* The immutable mappings: one that exists already is fine.                 *)
EnsureURIMappings(r, w) ==
    /\ persist[r][w].pc = "uris"
    /\ CreateURI(r)
    /\ GoTo(r, w, "receipt")
    /\ UNCHANGED <<counter, paused, received, summary, receipts, logs, landing, published, cancels,
                   reported, topic, projected, counts, faults>>

EnsureReceiptMapping(r, w) ==
    /\ persist[r][w].pc = "receipt"
    /\ CreateReceipt(r)
    /\ Returned(r, w)
    /\ UNCHANGED <<counter, paused, received, summary, uris, logs, published, reported, counts, faults>>

(* An access fails, or the process dies.  A Land call has published by now and
   returns the sqid all the same; a Cancel call fails without publishing; the
   delivery of a log entry is retried.                                      *)
PersistFails(r, w) ==
    /\ faults < MaxFaults
    /\ persist[r][w] # Idle
    /\ persist' = [persist EXCEPT ![r][w] = Idle]
    /\ landing' = IF w = "land" THEN [landing EXCEPT ![r] = "returned"] ELSE landing
    /\ faults' = faults + 1
    /\ UNCHANGED <<counter, paused, received, summary, mappings, logs, published, cancels, reported,
                   topic, projected, counts>>

-----------------------------------------------------------------------------
(* The calls and the log topic.                                             *)

(* Land: the queue accepts lands, a sqid is minted, the summary is created as
   an internal receipt.                                                     *)
Land ==
    /\ ~paused
    /\ counter < MaxRequest
    /\ NextID
    /\ landing' = [landing EXCEPT ![counter'] = "created"]
    /\ \E at \in Time :
          /\ received' = [received EXCEPT ![counter'] = at]
          /\ CreateSummary(counter', at)
    /\ UNCHANGED <<paused, mappings, logs, published, cancels, reported, topic, persist,
                   projected, counts, faults>>

(* Its start message is published, or the call fails and the receipt stays
   internal.                                                                *)
PublishStart(r) ==
    /\ landing[r] = "created"
    /\ \/ /\ landing' = [landing EXCEPT ![r] = "published"]
          /\ published' = published \cup {r}
          /\ UNCHANGED faults
       \/ /\ faults < MaxFaults
          /\ landing' = [landing EXCEPT ![r] = "failed"]
          /\ faults' = faults + 1
          /\ UNCHANGED published
    /\ UNCHANGED <<counter, paused, received, summary, mappings, logs, cancels, reported, topic, persist,
                   projected, counts>>

(* It logs "accepted", at the time the call was received.                   *)
LogAccepted(r) ==
    /\ landing[r] = "published"
    /\ InsertLog(r, "land", StatusLog("accepted", 0, received[r]))
    /\ UNCHANGED <<counter, paused, received, summary, mappings, landing, published, cancels, reported,
                   topic, projected, counts, faults>>

(* Cancel: the sqid has a summary, whatever its status; the intent is logged
   without a version, then published (Returned).                            *)
Cancel(r) ==
    /\ summary[r] # NoSummary
    /\ Cancellers = "known" => landing[r] = "returned"
    /\ r \notin cancels
    /\ \A e \in logs[r] : e.status # "cancelling"
    /\ \E at \in Time : InsertLog(r, "cancel", StatusLog("cancelling", 0, at))
    /\ UNCHANGED <<counter, paused, received, summary, mappings, landing, published, cancels, reported,
                   topic, projected, counts, faults>>

(* The orchestrator publishes log entries of a request it was sent: "started"
   first, then what happens, and the outcome at version 2, possibly stated
   again later.  It cancels only what the cancel topic names.               *)
Report(r) ==
    /\ r \in published
    /\ Len(topic[r]) < MaxBacklog
    /\ \E at \in Time, kind \in {"started", "again"} \cup Reports \cup Outcomes :
          /\ kind \notin reported[r]
          /\ kind # "started" => "started" \in reported[r]
          /\ kind = "cancelled" => r \in cancels
          /\ kind \in Outcomes => reported[r] \cap Outcomes = {}
          /\ kind = "again" => reported[r] \cap Outcomes # {}
          /\ reported' = [reported EXCEPT ![r] = @ \cup {kind}]
          /\ topic' = [topic EXCEPT ![r] = Append(@,
                CASE kind = "event" -> EventLog(at)
                  [] kind = "started" -> StatusLog("started", 1, at)
                  [] kind = "again" -> StatusLog(CHOOSE o \in Outcomes : o \in reported[r], 2, at)
                  [] kind \in Outcomes -> StatusLog(kind, 2, at)
                  [] OTHER -> StatusLog(kind, 0, at))]
    /\ UNCHANGED <<counter, paused, received, summary, mappings, logs, landing, published, cancels,
                   persist, projected, counts, faults>>

(* The log consumer takes the next entry of the request's partition.        *)
ConsumeLog(r) ==
    /\ topic[r] # <<>>
    /\ InsertLog(r, "log", Head(topic[r]))
    /\ UNCHANGED <<counter, paused, received, summary, mappings, landing, published, cancels, reported,
                   topic, projected, counts, faults>>

(* An operator pauses or resumes the queue.                                 *)
SetPause ==
    /\ counter < MaxRequest
    /\ paused' = ~paused
    /\ UNCHANGED <<counter, received, summary, mappings, logs, landing, published, cancels,
                   reported, topic, persist, projected, counts, faults>>

Persist(r, w) == GetSummary(r, w) \/ Update(r, w) \/ EnsureURIMappings(r, w) \/ EnsureReceiptMapping(r, w)

Next ==
    \/ Land \/ SetPause
    \/ \E r \in Request :
          \/ PublishStart(r) \/ LogAccepted(r) \/ Cancel(r) \/ Report(r) \/ ConsumeLog(r)
          \/ \E w \in Writer : Persist(r, w) \/ PersistFails(r, w)

Spec == Init /\ [][Next]_vars

(* The consumers and the calls go on once started; the orchestrator starts what
   it was sent.  Nobody has to call Land or Cancel.                         *)
Fairness ==
    \A r \in Request :
       /\ WF_vars(PublishStart(r) \/ LogAccepted(r) \/ ConsumeLog(r))
       /\ WF_vars("started" \notin reported[r] /\ Report(r))
       /\ \A w \in Writer : WF_vars(Persist(r, w))

FairSpec == Spec /\ Fairness

-----------------------------------------------------------------------------
(* The reads.                                                               *)

SummaryByID(r) == IF summary[r].status \in {"none", "accepting"} THEN "not found" ELSE "found"

SummaryByChangeURI(r) ==
    IF r \notin uris THEN "not found" ELSE IF summary[r] = NoSummary THEN "inconsistent" ELSE "found"

HistoryByID(r) == IF logs[r] = {} THEN "not found" ELSE "found"

HistoryByChangeURI(r) == IF r \notin uris THEN "not found" ELSE HistoryByID(r)

(* What a page makes of the receipt of the request.                         *)
Listed(r) ==
    IF r \notin receipts THEN "not found"
    ELSE IF summary[r].status \in {"none", "accepting"} THEN "inconsistent" ELSE "found"

-----------------------------------------------------------------------------
(* Properties                                                               *)

AtRest(r) == \A w \in Writer : persist[r][w] = Idle

(* Once every entry of a request's log has been projected, its summary is what
   reading the whole log would give (GetCurrentStateFromRequestLog), whatever
   the order the three writers came in and however their updates met.  An
   "accepted" entry is the lowest of states, so it may be left out.         *)
AgreesWithLog ==
    \A r \in Request :
       AtRest(r) /\ projected[r] = logs[r] /\ (\E e \in logs[r] : e.type = "status")
          => summary[r].status \in CurrentState(logs[r])
                \cup CurrentState({e \in logs[r] : e.status # "accepted"})

(* The reads never contradict each other: a request found by its change or in a
   list is found by its sqid, no read fails on a half-made request, and once the
   entries of its log are projected every read finds it.                    *)
ReadsAgree ==
    \A r \in Request :
       /\ "inconsistent" \notin {SummaryByChangeURI(r), Listed(r)}
       /\ "found" \in {SummaryByChangeURI(r), Listed(r), HistoryByChangeURI(r)} => SummaryByID(r) = "found"
       /\ AtRest(r) /\ projected[r] = logs[r] /\ (\E e \in logs[r] : e.type = "status") =>
             {SummaryByID(r), SummaryByChangeURI(r), Listed(r), HistoryByChangeURI(r)} = {"found"}

(* However often an outcome is stated and whoever updates the summary, a
   request's acceptance and its end are counted once.                       *)
CountedOnce == \A r \in Request : accepted[r] <= 1 /\ terminated[r] <= 1

(* The outcome shown to the user is never taken back: neither a late status, a
   cancel of a request that has ended, nor a restatement changes it.        *)
OutcomeStands ==
    \A r \in Request : IsVersionedTerminal(summary[r]) => summary'[r].status = summary[r].status
OutcomeIsFinal == [][OutcomeStands]_vars

(* A request in the pipeline comes to be listed and found by its change, even
   if the call that published it died before recording it and a writer died
   between the summary and the mappings.                                    *)
PublishedIsListed == \A r \in Request : (r \in published) ~> (r \in receipts /\ r \in uris)

(* What the reads expose was published to the pipeline.  Land leaves a request
   it could not publish "accepting" for this; Cancel does not look.         *)
ExposedIsPublished ==
    \A r \in Request : summary[r].status \notin {"none", "accepting"} => r \in published
=============================================================================
