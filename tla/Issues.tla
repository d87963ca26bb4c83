------------------------------- MODULE Issues -------------------------------
(***************************************************************************)
(* Stovepipe's issue tracking in one queue.  Build analysis stores what the *)
(* detector finds in a build; the tracker applies it to the queue's issues, *)
(* a batch of keys at a time: a refresh opens what a build reports, and     *)
(* once its analysis is complete a finalization closes what it no longer    *)
(* reports.  Dead letters abandon the pass.  The fix consumer submits one   *)
(* repair per build for an issue the build opened.                          *)
(*                                                                         *)
(* A request has one build, so one number names both.  An issue is the      *)
(* rank of its key.  Every read and every write of the tracker is a step: a *)
(* handler whose lease expires goes on beside the one that took over.  A    *)
(* version is modelled by who holds the current one: a write makes every    *)
(* other copy stale.                                                        *)
(***************************************************************************)
EXTENDS Integers, FiniteSets

CONSTANTS
    MaxTracked,   \* bound: requests
    MaxIssue,     \* bound: issue keys
    TaskWide,     \* the keys without a unit
    Scenarios,    \* what may happen: [finds, ends, upsets], see the variable scenario
    Slots,        \* the queue's build slots
    BatchSize,    \* _issueBatchSize
    Repairer,     \* the processes that may run the fix consumer
    MaxUpsets     \* bound: upsets

Tracked == 1 .. MaxTracked
Issue == 1 .. MaxIssue

ASSUME TrackingAssumption ==
    /\ MaxTracked \in Nat /\ MaxIssue \in Nat /\ BatchSize \in Nat \ {0}
    /\ \A s \in Scenarios : /\ s.ends \subseteq {"passed", "cancelled"}
                            /\ \A r \in Tracked : s.finds[r] \subseteq Issue
Tracker == {"now", "late"}   \* the tracker, and one that lost its lease and goes on
Actor == Tracker \cup {"recovery"}

NoIssue == [status |-> "none", first |-> 0, last |-> 0, changed |-> 0]
NoProgress == [of |-> 0, cursor |-> 0, finalize |-> FALSE, taskWide |-> FALSE, phase |-> "none"]
NoIssueSummary == [status |-> "none", first |-> 0, of |-> 0]
AtRest == [at |-> "idle", of |-> 0, pass |-> NoProgress,
           current |-> FALSE, key |-> 0, reported |-> FALSE, issue |-> NoIssue, fresh |-> FALSE,
           keys |-> {}, room |-> 0, need |-> FALSE, back |-> "none", then |-> "none",
           entry |-> NoIssue, row |-> 0, shown |-> NoIssueSummary]

VARIABLES
    scenario,      \* fixed: finds, request -> the keys its build reports when it ends;
                   \* fixing, does the fix consumer run; ends, how builds may end: "passed" (or failed), "cancelled"; upsets,
                   \* of "crash", "expiry", "analysis", "tracker", "request", "fix", "fix_expiry";
                   \* stalls, the steps before which a handler may crash or lose its lease
    validation,    \* request -> where its validation is
    verdict,       \* request -> its build: "none", "running", or how it ended
    observed,      \* request -> the keys of the build-issue store
    analyst,       \* request -> its analysis message: "none", "ready", "gone"
    events,        \* request -> analysis and tracking events of its request log
    progress,      \* the queue's issue-tracking row
    issue,         \* key -> issue state
    issueLog,      \* the issue log: [key, of, status]
    issueSummary,  \* key -> issue summary
    openIssue,     \* key -> the opening build of its open-issue row, or 0
    mail,          \* request -> its tracking message: "none", "ready", "dead", "gone"
    actor,         \* who is where
    repairs,       \* the builds with a repair message
    repairer,      \* repairer -> what it is about to submit
    fixOf,         \* request -> the keys of its build with a fix ID
    upsets

issueVars == <<scenario, validation, verdict, observed, analyst, events, progress, issue, issueLog,
               issueSummary, openIssue, mail, actor, repairs, repairer, fixOf, upsets>>
pipeline == <<scenario, validation, verdict>>
readModels == <<issueLog, issueSummary, openIssue>>
fixes == <<repairs, repairer, fixOf>>

NoRepair == [at |-> "idle", of |-> 0, key |-> 0]

IssuesInit ==
    /\ scenario \in Scenarios
    /\ validation = [r \in Tracked |-> "none"] /\ verdict = [r \in Tracked |-> "none"]
    /\ observed = [r \in Tracked |-> {}] /\ analyst = [r \in Tracked |-> "none"]
    /\ events = [r \in Tracked |-> {}]
    /\ progress = NoProgress /\ issue = [i \in Issue |-> NoIssue]
    /\ issueLog = {} /\ issueSummary = [i \in Issue |-> NoIssueSummary]
    /\ openIssue = [i \in Issue |-> 0]
    /\ mail = [r \in Tracked |-> "none"] /\ actor = [a \in Actor |-> AtRest]
    /\ repairs = {} /\ repairer = [f \in Repairer |-> NoRepair] /\ fixOf = [r \in Tracked |-> {}]
    /\ upsets = 0

Upset(kind) == kind \in scenario.upsets /\ upsets < MaxUpsets /\ upsets' = upsets + 1
Ended(v) == v \in {"passed", "cancelled"}
-----------------------------------------------------------------------------
(* The validation pipeline, as far as issue tracking sees it (Stovepipe).   *)

(* process registers a request for tracking when a build slot is free, before
   it admits it; the one before has been admitted or superseded by then.    *)
Register(r) ==
    /\ validation[r] = "none" /\ (r > 1 => validation[r - 1] \notin {"none", "accepted"})
    /\ Cardinality({q \in Tracked : verdict[q] = "running"}) < Slots
    /\ validation' = [validation EXCEPT ![r] = "accepted"]
    /\ mail' = [mail EXCEPT ![r] = "ready"]
    /\ UNCHANGED <<scenario, verdict, observed, analyst, events, progress, issue, readModels, actor,
                   fixes, upsets>>

(* build links the build it triggered and asks for its analysis.            *)
StartBuild(r) ==
    /\ validation[r] = "accepted"
    /\ validation' = [validation EXCEPT ![r] = "building"]
    /\ verdict' = [verdict EXCEPT ![r] = "running"]
    /\ analyst' = [analyst EXCEPT ![r] = "ready"]
    /\ UNCHANGED <<scenario, observed, events, progress, issue, readModels, mail, actor, fixes, upsets>>

EndBuild(r) ==
    /\ verdict[r] = "running"
    /\ \E v \in scenario.ends : verdict' = [verdict EXCEPT ![r] = v]
    /\ UNCHANGED <<scenario, validation, observed, analyst, events, progress, issue, readModels, mail,
                   actor, fixes, upsets>>

(* buildsignal records the winning build.                                   *)
EndValidation(r) ==
    /\ validation[r] = "building" /\ Ended(verdict[r])
    /\ validation' = [validation EXCEPT ![r] = "ended"]
    /\ UNCHANGED <<scenario, verdict, observed, analyst, events, progress, issue, readModels, mail,
                   actor, fixes, upsets>>

(* A head is superseded before it is admitted, or a dead letter fails the
   request: it ends without the outcome of a build.                         *)
EndWithoutBuild(r) ==
    /\ \/ /\ validation[r] = "accepted" /\ r < MaxTracked
          /\ validation' = [validation EXCEPT ![r] = "superseded"] /\ UNCHANGED upsets
       \/ /\ validation[r] \in {"accepted", "building"} /\ Upset("request")
          /\ validation' = [validation EXCEPT ![r] = "failed"]
    /\ UNCHANGED <<scenario, verdict, observed, analyst, events, progress, issue, readModels, mail,
                   actor, fixes>>
-----------------------------------------------------------------------------
(* Build analysis.                                                          *)

(* An observation is kept once, with what its first report said.           *)
CreateBuildIssue(r, found) == observed' = [observed EXCEPT ![r] = @ \cup found]

NoteEvent(r, event) == events' = [events EXCEPT ![r] = @ \cup {event}]

(* What the detector reports so far is stored, all of it once the build has
   ended.  The analysis is complete when the request names this build as its
   outcome, and is repeated until then; a request that is over while its build
   is not has it abandoned.                                                 *)
Analyse(r) ==
    LET over == Ended(verdict[r])
        complete == over /\ validation[r] = "ended"
        failed == validation[r] = "failed"
    IN  /\ analyst[r] = "ready"
        /\ \E found \in SUBSET scenario.finds[r] :
              /\ over => found = scenario.finds[r]
              /\ failed /\ ~over => found = {}
              /\ CreateBuildIssue(r, found)
        /\ IF complete THEN NoteEvent(r, "build_analysis_completed")
           ELSE IF failed /\ ~over THEN NoteEvent(r, "build_analysis_abandoned") ELSE UNCHANGED events
        /\ analyst' = [analyst EXCEPT ![r] = IF complete \/ failed THEN "gone" ELSE "ready"]
        /\ UNCHANGED <<pipeline, progress, issue, readModels, mail, actor, fixes, upsets>>

(* The dead letter of an analysis.                                          *)
AbandonAnalysis(r) ==
    /\ analyst[r] = "ready" /\ Upset("analysis")
    /\ NoteEvent(r, "build_analysis_abandoned")
    /\ analyst' = [analyst EXCEPT ![r] = "gone"]
    /\ UNCHANGED <<pipeline, observed, progress, issue, readModels, mail, actor, fixes>>

(* Completion is looked up before abandonment.                              *)
TerminalAnalysisEvent(r) ==
    IF "build_analysis_completed" \in events[r] THEN "completed"
    ELSE IF "build_analysis_abandoned" \in events[r] THEN "abandoned" ELSE "none"
-----------------------------------------------------------------------------
(* The stores the tracker writes, and what becomes of a delivery.           *)

Goto(a, next) == actor' = [actor EXCEPT ![a] = next]

(* Write the tracking row: the other copies are stale from now on.          *)
WriteProgress(row) == progress' = row
SaveProgress(a, row, next) ==
    /\ WriteProgress(row)
    /\ actor' = [b \in Actor |->
                   IF b = a THEN [next EXCEPT !.pass = row, !.current = TRUE]
                   ELSE [actor[b] EXCEPT !.current = FALSE]]

(* Write an issue; a copy that was read before can no longer replace it.    *)
GetIssue(i) == issue[i]
WriteIssue(a, i, row, next) ==
    /\ issue' = [issue EXCEPT ![i] = row]
    /\ actor' = [b \in Actor |->
                   IF b = a THEN next
                   ELSE [actor[b] EXCEPT !.fresh = @ /\ actor[b].key # i]]

Settle(a, state) ==
    /\ Goto(a, AtRest)
    /\ mail' = [mail EXCEPT ![actor[a].of] = IF @ = "gone" THEN "gone" ELSE state]
Ack(a) == Settle(a, "gone")

(* A hold leaves the message for later, as does an error worth a retry; any
   other error, or one retry too many, makes a dead letter.                 *)
Hold(a) == Goto(a, AtRest) /\ UNCHANGED mail
Reject(a) == Settle(a, "dead")
-----------------------------------------------------------------------------
(* trackRequest                                                             *)

(* Read the request and the queue's progress.  A finished pass has its history
   completed first; an older request is dropped, a newer one waits for the
   pass.                                                                    *)
FinishedHistory(p) == IF p.phase = "finalized" THEN NoteEvent(p.of, "issues_reconciled") ELSE UNCHANGED events

TrackRequest(a, r) ==
    LET over == progress.phase \in {"finalized", "abandoned"}
        started == [AtRest EXCEPT !.at = "start", !.of = r, !.pass = progress, !.current = TRUE]
        Drop(state) == Goto(a, AtRest) /\ mail' = [mail EXCEPT ![r] = state]
    IN  /\ FinishedHistory(progress)
        /\ \/ /\ progress.phase # "none" /\ (r < progress.of \/ (over /\ r = progress.of))
              /\ Drop("gone")
           \/ /\ progress.phase # "none" /\ r >= progress.of /\ ~over
              /\ progress.phase = "abandoning" \/ r > progress.of
              /\ Drop("ready")
           \/ /\ \/ progress.phase = "none"
                 \/ r > progress.of /\ over
                 \/ r = progress.of /\ ~over /\ progress.phase # "abandoning"
              /\ CASE validation[r] = "superseded" -> Drop("gone")
                   [] validation[r] = "accepted" -> Drop("ready")
                   [] validation[r] = "failed" -> Drop("dead")
                   [] OTHER -> Goto(a, started) /\ UNCHANGED mail
        /\ UNCHANGED <<pipeline, observed, analyst, progress, issue, readModels, fixes, upsets>>

Receive(r) == mail[r] = "ready" /\ actor["now"].at = "idle" /\ TrackRequest("now", r)

(* Resume the saved pass, or save a new one: a refresh, that finalizes if the
   analysis is complete.  A saved pass that changed is read again.          *)
StartPass(a) ==
    LET me == actor[a]
        r == me.of
        event == TerminalAnalysisEvent(r)
    IN  /\ me.at = "start"
        /\ \/ /\ event = "abandoned" /\ Reject(a) /\ UNCHANGED progress
           \/ /\ event # "abandoned" /\ me.pass.phase \in {"refreshing", "finalizing"}
              /\ Goto(a, [me EXCEPT !.at = "batch"]) /\ UNCHANGED <<progress, mail>>
           \/ /\ event # "abandoned" /\ me.pass.phase \notin {"refreshing", "finalizing"} /\ me.current
              /\ SaveProgress(a, [NoProgress EXCEPT !.of = r, !.phase = "refreshing",
                                                    !.finalize = event = "completed"],
                              [me EXCEPT !.at = "batch"])
              /\ UNCHANGED mail
           \/ /\ event # "abandoned" /\ me.pass.phase \notin {"refreshing", "finalizing"} /\ ~me.current
              /\ Goto(a, [AtRest EXCEPT !.at = "again", !.of = r]) /\ UNCHANGED <<progress, mail>>
        /\ UNCHANGED <<pipeline, observed, analyst, events, issue, readModels, fixes, upsets>>

StartAgain(a) == actor[a].at = "again" /\ mail[actor[a].of] # "gone" /\ TrackRequest(a, actor[a].of)
-----------------------------------------------------------------------------
(* reconcileBatch                                                           *)

(* A refresh remembers that it was reported something task-wide.            *)
Remember(p, i, reported) ==
    [p EXCEPT !.taskWide = @ \/ (reported /\ i \in TaskWide /\ p.phase = "refreshing")]

(* processIssue reads the issue before it moves the cursor: a takeover writes
   the row again before it moves on, and this copy can no longer be written. *)
Take(me, i, reported, back) ==
    [me EXCEPT !.at = "key", !.key = i, !.reported = reported, !.issue = GetIssue(i), !.fresh = TRUE,
               !.back = back, !.pass = Remember(me.pass, i, reported)]

(* The keys after the cursor: those the build reports, or, to close, those the
   queue has.                                                               *)
BuildIssuesAfter(r, cursor) == {i \in observed[r] : i > cursor}
IssuesAfter(cursor) == {i \in Issue : i > cursor /\ issue[i] # NoIssue}
KeysAfter(p) ==
    IF p.phase = "finalizing" THEN IssuesAfter(p.cursor) ELSE BuildIssuesAfter(p.of, p.cursor)
Page(keys, n) == {i \in keys : Cardinality({j \in keys : j < i}) < n}   \* the n lowest, or all

(* A batch starts over at the cursor, whose issue may be half written.      *)
BeginBatch(a) ==
    LET me == actor[a] IN
    /\ me.at = "batch"
    /\ Goto(a, IF me.pass.cursor = 0 THEN [me EXCEPT !.at = "list", !.room = BatchSize]
               ELSE [Take(me, me.pass.cursor, me.pass.cursor \in observed[me.pass.of], "list")
                        EXCEPT !.room = BatchSize - 1])
    /\ UNCHANGED <<pipeline, observed, analyst, events, progress, issue, readModels, mail, fixes, upsets>>

ListKeys(a) ==
    LET me == actor[a]
        keys == KeysAfter(me.pass)
    IN  /\ me.at = "list"
        /\ Goto(a, [me EXCEPT !.at = "next", !.need = FALSE, !.keys = Page(keys, me.room),
                              !.room = IF Cardinality(keys) < me.room THEN 1 ELSE 0])
        /\ UNCHANGED <<pipeline, observed, analyst, events, progress, issue, readModels, mail, fixes, upsets>>

NextKey(a) ==
    LET me == actor[a] IN
    /\ me.at = "next"
    /\ \E i \in me.keys :
          /\ \A j \in me.keys : i <= j
          /\ Goto(a, [Take(me, i, me.pass.phase = "refreshing" \/ i \in observed[me.pass.of], "next")
                         EXCEPT !.keys = @ \ {i}])
    /\ UNCHANGED <<pipeline, observed, analyst, events, progress, issue, readModels, mail, fixes, upsets>>

Desired(me) == IF me.reported THEN "open" ELSE "closed"
Applied(me) == me.issue.last = me.pass.of /\ me.issue.status = Desired(me)

(* What persistIssueHistory is asked to retain, and where to go on from there. *)
Retain(me, row, then) == [me EXCEPT !.at = "log", !.entry = row, !.then = then]

(* Back to the batch: what was read of the key is forgotten.                *)
Forget(me) == [me EXCEPT !.key = 0, !.reported = FALSE, !.issue = NoIssue, !.fresh = FALSE, !.back = "none"]
Return(me, at) ==
    [IF at = "write" THEN me ELSE Forget(me)
        EXCEPT !.at = at, !.then = "none", !.row = 0, !.shown = NoIssueSummary]

(* Mutant: a key with nothing to change is passed over, the cursor's too.   *)
SkipKeyOver(a) ==
    LET me == actor[a] IN
    /\ me.at = "key" /\ Applied(me)
    /\ Goto(a, Return([me EXCEPT !.pass.cursor = me.key, !.need = TRUE], me.back))
    /\ UNCHANGED <<pipeline, observed, analyst, events, progress, issue, readModels, mail, fixes, upsets>>

(* Nothing to change: at the cursor its history is completed.               *)
SkipKey(a) ==
    LET me == actor[a]
        on == [me EXCEPT !.pass = [me.pass EXCEPT !.cursor = me.key], !.need = TRUE]
    IN  /\ me.at = "key" /\ Applied(me)
        /\ Goto(a, IF me.key = me.pass.cursor THEN Retain(on, me.issue, me.back)
                   ELSE Return(on, me.back))
        /\ UNCHANGED <<pipeline, observed, analyst, events, progress, issue, readModels, mail, fixes, upsets>>

(* The cursor is saved before the issue is written; an issue that a newer
   request has processed is left alone.  (That only a finalization closes, and
   only what exists, the code checks here too; it is never otherwise.)      *)
SaveCursor(a) ==
    LET me == actor[a]
        behind == ~me.current \/ me.issue.last > me.pass.of
        next == [me EXCEPT !.need = FALSE, !.at = "write"]
    IN  /\ me.at = "key" /\ ~Applied(me)
        /\ \/ behind /\ Hold(a) /\ UNCHANGED progress
           \/ /\ ~behind /\ UNCHANGED mail
              /\ SaveProgress(a, [me.pass EXCEPT !.cursor = me.key],
                              IF me.issue.last = me.pass.of THEN Retain(next, me.issue, "write") ELSE next)
        /\ UNCHANGED <<pipeline, observed, analyst, events, issue, readModels, fixes, upsets>>

(* The issue after the pass: an opening and a closing name the build.       *)
Target(me) ==
    LET changes == me.issue.status # Desired(me) IN
    [status |-> Desired(me), last |-> me.pass.of,
     first |-> IF changes /\ me.reported THEN me.pass.of ELSE me.issue.first,
     changed |-> IF changes THEN me.pass.of ELSE me.issue.changed]

(* Mutant: the issue is written whatever its version.                       *)
ApplyKeyBlind(a) ==
    LET me == actor[a] IN
    /\ me.at = "write" /\ a \in Tracker
    /\ WriteIssue(a, me.key, Target(me),
                  IF Target(me).status # me.issue.status THEN Retain(me, Target(me), me.back)
                  ELSE Return(me, me.back))
    /\ UNCHANGED <<pipeline, observed, analyst, events, progress, readModels, fixes, upsets, mail>>

ApplyKey(a) ==
    LET me == actor[a] IN
    /\ me.at = "write" /\ a \in Tracker
    /\ IF me.fresh
       THEN WriteIssue(a, me.key, Target(me),
                       IF Target(me).status # me.issue.status THEN Retain(me, Target(me), me.back)
                       ELSE Return(me, me.back))
       ELSE Hold(a) /\ UNCHANGED issue
    /\ UNCHANGED <<pipeline, observed, analyst, events, progress, readModels, fixes, upsets, mail>>

(* Mutant: a task-wide failure does not keep a pass from closing.           *)
EndOfPhaseTaskWide(p) ==
    IF p.phase = "finalizing" THEN [p EXCEPT !.phase = "finalized"]
    ELSE IF ~p.finalize THEN [p EXCEPT !.phase = "refreshed"]
    ELSE IF verdict[p.of] = "cancelled" THEN [p EXCEPT !.phase = "finalized"]
    ELSE [p EXCEPT !.phase = "finalizing", !.cursor = 0]

(* Mutant: a cancelled build does not keep a pass from closing.             *)
EndOfPhaseCancelled(p) ==
    IF p.phase = "finalizing" THEN [p EXCEPT !.phase = "finalized"]
    ELSE IF ~p.finalize THEN [p EXCEPT !.phase = "refreshed"]
    ELSE IF p.taskWide THEN [p EXCEPT !.phase = "finalized"]
    ELSE [p EXCEPT !.phase = "finalizing", !.cursor = 0]

(* How a phase ends.  A refresh is over, or turns into the finalization, which
   a task-wide issue or a cancelled build forgoes.                          *)
EndOfPhase(p) ==
    IF p.phase = "finalizing" THEN [p EXCEPT !.phase = "finalized"]
    ELSE IF ~p.finalize THEN [p EXCEPT !.phase = "refreshed"]
    ELSE IF p.taskWide \/ verdict[p.of] = "cancelled" THEN [p EXCEPT !.phase = "finalized"]
    ELSE [p EXCEPT !.phase = "finalizing", !.cursor = 0]

(* The end of a batch.  A short page ends the phase, and that of a refresh asks
   for a repair; a full page leaves the cursor.                             *)
EndBatch(a) ==
    LET me == actor[a]
        short == me.room = 1
        row == IF short THEN EndOfPhase(me.pass) ELSE me.pass
    IN  /\ me.at = "next" /\ me.keys = {}
        /\ repairs' = IF short /\ me.pass.phase = "refreshing" /\ me.pass.cursor # 0
                      THEN repairs \cup {me.pass.of} ELSE repairs
        /\ \/ (short \/ me.need) /\ me.current /\ SaveProgress(a, row, [me EXCEPT !.at = "end"])
           \/ (short \/ me.need) /\ ~me.current /\ Hold(a) /\ UNCHANGED progress
           \/ ~short /\ ~me.need /\ Goto(a, [me EXCEPT !.at = "end"]) /\ UNCHANGED progress
        /\ UNCHANGED <<pipeline, observed, analyst, events, issue, readModels, repairer, fixOf, upsets, mail>>

(* A finalized request is done; the others come back.                       *)
EndDelivery(a) ==
    LET me == actor[a] IN
    /\ me.at = "end" /\ a \in Tracker
    /\ FinishedHistory(me.pass)
    /\ IF me.pass.phase = "finalized" THEN Ack(a) ELSE Hold(a)
    /\ UNCHANGED <<pipeline, observed, analyst, progress, issue, readModels, fixes, upsets>>
-----------------------------------------------------------------------------
(* The issue-log materializer.                                              *)

(* An entry that is there already is kept as it is.                        *)
RetainIssueLog(i, entry) ==
    issueLog' = issueLog \cup {[key |-> i, of |-> entry.changed, status |-> entry.status]}

(* The later request wins, and within one its closing.                      *)
Superseded(new, old) ==
    /\ old.status # "none"
    /\ new.of < old.of \/ (new.of = old.of /\ old.status = "closed") \/ new = old

UpdateIssueSummary(i, new) == issueSummary' = [issueSummary EXCEPT ![i] = new]

(* The summary is read again until its replacement lands.                   *)
MaterializeIssueSummary(i, entry) ==
    LET new == [status |-> entry.status, first |-> entry.first, of |-> entry.changed] IN
    IF Superseded(new, issueSummary[i]) THEN UNCHANGED issueSummary ELSE UpdateIssueSummary(i, new)

PersistIssueLog(a) ==
    LET me == actor[a] IN
    /\ me.at = "log"
    /\ RetainIssueLog(me.key, me.entry)
    /\ MaterializeIssueSummary(me.key, me.entry)
    /\ Goto(a, [me EXCEPT !.at = "row", !.entry = NoIssue])
    /\ UNCHANGED <<pipeline, observed, analyst, events, progress, issue, openIssue, mail, fixes, upsets>>

(* The open-issue row is read before the summary.                           *)
ReadOpenIssue(a) ==
    LET me == actor[a] IN
    /\ me.at = "row"
    /\ Goto(a, [me EXCEPT !.at = "shown", !.row = openIssue[me.key]])
    /\ UNCHANGED <<pipeline, observed, analyst, events, progress, issue, readModels, mail, fixes, upsets>>

ReadIssueSummary(a) ==
    LET me == actor[a] IN
    /\ me.at = "shown"
    /\ Goto(a, [me EXCEPT !.at = "open", !.shown = issueSummary[me.key]])
    /\ UNCHANGED <<pipeline, observed, analyst, events, progress, issue, readModels, mail, fixes, upsets>>

(* A row is created if there is none, and replaced or deleted if it is the one
   that was read: the opening build takes the place of a version.           *)
CreateOpenIssue(i, first) ==
    openIssue' = IF openIssue[i] = 0 THEN [openIssue EXCEPT ![i] = first] ELSE openIssue
ReplaceOpenIssue(i, old, first) ==
    openIssue' = IF openIssue[i] = old THEN [openIssue EXCEPT ![i] = first] ELSE openIssue
DeleteOpenIssue(i, old) ==
    openIssue' = IF openIssue[i] = old THEN [openIssue EXCEPT ![i] = 0] ELSE openIssue

(* Bring the row in line with the summary, and look again; done when it agrees. *)
MaterializeOpenIssue(a) ==
    LET me == actor[a]
        want == IF me.shown.status = "open" THEN me.shown.first ELSE 0
        done == me.row = want
    IN  /\ me.at = "open"
        /\ CASE done -> UNCHANGED openIssue
             [] ~done /\ me.row = 0 -> CreateOpenIssue(me.key, want)
             [] ~done /\ want = 0 -> DeleteOpenIssue(me.key, me.row)
             [] OTHER -> ReplaceOpenIssue(me.key, me.row, want)
        /\ Goto(a, IF done THEN Return(me, me.then) ELSE [me EXCEPT !.at = "row"])
        /\ UNCHANGED <<pipeline, observed, analyst, events, progress, issue, issueLog, issueSummary, mail,
                       fixes, upsets>>
-----------------------------------------------------------------------------
(* The dead letters of tracking.                                            *)

(* Mutant: the dead letter is dropped.                                      *)
AbandonPassDropped(r) ==
    /\ mail[r] = "dead" /\ actor["recovery"].at = "idle"
    /\ FinishedHistory(progress)
    /\ mail' = [mail EXCEPT ![r] = "gone"] /\ UNCHANGED <<progress, actor>>
    /\ UNCHANGED <<pipeline, observed, analyst, issue, readModels, fixes, upsets>>

(* Nothing to do for an older request or a finished one; any other, and the
   unfinished pass of an earlier one, is marked.                            *)
AbandonPass(r) ==
    LET p == progress
        over == p.phase \in {"finalized", "abandoned"}
        mine == [NoProgress EXCEPT !.of = r]
        base == IF p.phase = "none" \/ over THEN mine ELSE p
    IN  /\ mail[r] = "dead" /\ actor["recovery"].at = "idle"
        /\ FinishedHistory(p)
        /\ IF p.phase # "none" /\ (r < p.of \/ (over /\ r = p.of))
           THEN mail' = [mail EXCEPT ![r] = "gone"] /\ UNCHANGED <<progress, actor>>
           ELSE /\ SaveProgress("recovery", [base EXCEPT !.phase = "abandoning", !.finalize = TRUE],
                                [AtRest EXCEPT !.of = r, !.at = "fence"])
                /\ UNCHANGED mail
        /\ UNCHANGED <<pipeline, observed, analyst, issue, readModels, fixes, upsets>>

(* The issue at the cursor is read, the pass saved again, and the issue then
   written as it is, so that nobody else can: a missing one was being opened. *)
ReadFence(a) ==
    LET me == actor[a] IN
    /\ me.at = "fence"
    /\ Goto(a, IF me.pass.cursor = 0 THEN [me EXCEPT !.at = "abandon"]
               ELSE [me EXCEPT !.at = "guard", !.key = me.pass.cursor, !.issue = GetIssue(me.pass.cursor),
                               !.fresh = TRUE])
    /\ UNCHANGED <<pipeline, observed, analyst, events, progress, issue, readModels, mail, fixes, upsets>>

GuardFence(a) ==
    LET me == actor[a] IN
    /\ me.at = "guard"
    /\ IF me.current THEN SaveProgress(a, me.pass, [me EXCEPT !.at = "refence"])
       ELSE Goto(a, AtRest) /\ UNCHANGED progress
    /\ UNCHANGED <<pipeline, observed, analyst, events, issue, readModels, mail, fixes, upsets>>

WriteFence(a) ==
    LET me == actor[a]
        opened == [status |-> "open", first |-> me.pass.of, last |-> me.pass.of, changed |-> me.pass.of]
        row == IF me.issue = NoIssue THEN opened ELSE me.issue
    IN  /\ me.at = "refence"
        /\ IF me.fresh THEN WriteIssue(a, me.key, row, Retain(me, row, "abandon"))
           ELSE Goto(a, AtRest) /\ UNCHANGED issue
        /\ UNCHANGED <<pipeline, observed, analyst, events, progress, readModels, mail, fixes, upsets>>

(* The abandonment is recorded; a message that abandoned an earlier request's
   pass comes back for its own.                                             *)
FinishAbandonment(a) ==
    LET me == actor[a]
        next == IF me.pass.of = me.of THEN "gone" ELSE "dead"
    IN  /\ me.at = "abandon"
        /\ NoteEvent(me.pass.of, "issue_tracking_abandoned")
        /\ IF me.current
           THEN /\ SaveProgress(a, [me.pass EXCEPT !.phase = "abandoned"], AtRest)
                /\ mail' = [mail EXCEPT ![me.of] = next]
           ELSE Goto(a, AtRest) /\ UNCHANGED <<progress, mail>>
        /\ UNCHANGED <<pipeline, observed, analyst, issue, readModels, fixes, upsets>>
-----------------------------------------------------------------------------
(* The fix consumer.                                                        *)

(* A build with a fix has had its repair; else the first of its issues that is
   open since this build is eligible.                                       *)
Eligible(r) == {i \in observed[r] : issue[i].status = "open" /\ issue[i].first = r}

(* Mutant: nothing to repair is not recorded.                               *)
FindIssueToFixQuietly(f, r) ==
    /\ scenario.fixing /\ r \in repairs /\ repairer[f].at = "idle"
    /\ \A g \in Repairer : repairer[g].at # "submit"
    /\ repairs' = repairs \ {r}
    /\ UNCHANGED <<pipeline, observed, analyst, events, progress, issue, readModels, mail, actor, repairer,
                   fixOf, upsets>>

FindIssueToFix(f, r) ==
    /\ scenario.fixing /\ r \in repairs /\ repairer[f].at = "idle"
    /\ \A g \in Repairer : repairer[g].at # "submit"
    /\ IF fixOf[r] # {} THEN /\ NoteEvent(r, "fix_submitted") /\ repairs' = repairs \ {r} /\ UNCHANGED repairer
       ELSE IF Eligible(r) = {} THEN /\ NoteEvent(r, "fix_submission_skipped") /\ repairs' = repairs \ {r} /\ UNCHANGED repairer
       ELSE /\ repairer' = [repairer EXCEPT ![f] =
                  [at |-> "submit", of |-> r, key |-> CHOOSE i \in Eligible(r) : \A j \in Eligible(r) : i <= j]]
            /\ UNCHANGED <<events, repairs>>
    /\ UNCHANGED <<pipeline, observed, analyst, progress, issue, readModels, mail, actor, fixOf, upsets>>

(* The repair is submitted and its ID kept with the observation it is for,
   unless that has one by now.                                              *)
UpdateBuildIssue(r, i) == fixOf' = [fixOf EXCEPT ![r] = @ \cup {i}]
AssociateFix(f) ==
    LET me == repairer[f] IN
    /\ me.at \in {"submit", "late"}
    /\ UpdateBuildIssue(me.of, me.key)
    /\ NoteEvent(me.of, "fix_submitted")
    /\ repairs' = repairs \ {me.of} /\ repairer' = [repairer EXCEPT ![f] = NoRepair]
    /\ UNCHANGED <<pipeline, observed, analyst, progress, issue, readModels, mail, actor, upsets>>

(* The dead letter of a repair submits nothing: what is durable decides.    *)
AbandonFix(r) ==
    /\ r \in repairs /\ \A f \in Repairer : repairer[f].at = "idle"
    /\ Upset("fix")
    /\ NoteEvent(r, IF fixOf[r] # {} THEN "fix_submitted"
                    ELSE IF Eligible(r) = {} THEN "fix_submission_skipped" ELSE "fix_submission_abandoned")
    /\ repairs' = repairs \ {r}
    /\ UNCHANGED <<pipeline, observed, analyst, progress, issue, readModels, mail, actor, repairer, fixOf>>
-----------------------------------------------------------------------------
(* Upsets.                                                                  *)

CrashTracker(a) ==
    /\ actor[a].at \in scenario.stalls /\ Upset("crash")
    /\ Goto(a, AtRest)
    /\ UNCHANGED <<pipeline, observed, analyst, events, progress, issue, readModels, mail, fixes>>

ExpireTracker ==
    /\ actor["now"].at \in scenario.stalls /\ actor["late"].at = "idle" /\ Upset("expiry")
    /\ actor' = [actor EXCEPT !["late"] = actor["now"], !["now"] = AtRest]
    /\ UNCHANGED <<pipeline, observed, analyst, events, progress, issue, readModels, mail, fixes>>

(* The retries of a message run out.                                        *)
LoseTracking(r) ==
    /\ mail[r] = "ready" /\ Upset("tracker")
    /\ actor["now"].of # r
    /\ mail' = [mail EXCEPT ![r] = "dead"]
    /\ UNCHANGED <<pipeline, observed, analyst, events, progress, issue, readModels, actor, fixes>>

ExpireRepairer(f) ==
    /\ repairer[f].at = "submit" /\ Upset("fix_expiry")
    /\ repairer' = [repairer EXCEPT ![f].at = "late"]
    /\ UNCHANGED <<pipeline, observed, analyst, events, progress, issue, readModels, mail, actor, repairs, fixOf>>

Validate(r) == Register(r) \/ StartBuild(r) \/ EndBuild(r) \/ EndValidation(r)
History(a) == \/ PersistIssueLog(a) \/ ReadOpenIssue(a) \/ ReadIssueSummary(a) \/ MaterializeOpenIssue(a)
Track(a) == \/ StartPass(a) \/ StartAgain(a) \/ BeginBatch(a) \/ ListKeys(a) \/ NextKey(a) \/ SkipKey(a)
            \/ SaveCursor(a) \/ ApplyKey(a) \/ EndBatch(a) \/ EndDelivery(a) \/ History(a)
Recover == \/ \E r \in Tracked : AbandonPass(r)
           \/ \E a \in {"recovery"} : \/ ReadFence(a) \/ GuardFence(a) \/ WriteFence(a)
                                      \/ FinishAbandonment(a) \/ History(a)
Fix(f) == AssociateFix(f) \/ \E r \in Tracked : FindIssueToFix(f, r)

IssuesNext ==
    \/ \E r \in Tracked : \/ Validate(r) \/ EndWithoutBuild(r) \/ Analyse(r) \/ AbandonAnalysis(r)
                          \/ LoseTracking(r) \/ AbandonFix(r)
                          \/ Receive(r)
    \/ \E a \in Tracker : Track(a)
    \/ ExpireTracker
    \/ Recover
    \/ \E f \in Repairer : Fix(f) \/ ExpireRepairer(f)
    \/ \E a \in Actor : CrashTracker(a)

(* The consumers go on, builds end, and buildsignal hears of it.  Nothing has
   to be registered, fail or be superseded.                                 *)
IssuesFairness ==
    /\ \A r \in Tracked : /\ WF_issueVars(StartBuild(r)) /\ WF_issueVars(EndBuild(r))
                          /\ WF_issueVars(EndValidation(r)) /\ WF_issueVars(Analyse(r))
                          /\ SF_issueVars(Receive(r))
    /\ \A a \in Tracker : WF_issueVars(Track(a))
    /\ WF_issueVars(Recover)
    /\ \A f \in Repairer : WF_issueVars(Fix(f))

IssuesSpec == IssuesInit /\ [][IssuesNext]_issueVars /\ IssuesFairness
-----------------------------------------------------------------------------
(* Properties                                                               *)

Statuses == {"none", "open", "closed"}
IssueRow == [status : Statuses, first : 0 .. MaxTracked, last : 0 .. MaxTracked, changed : 0 .. MaxTracked]
ProgressRow == [of : 0 .. MaxTracked, cursor : 0 .. MaxIssue, finalize : BOOLEAN, taskWide : BOOLEAN,
                phase : {"none", "refreshing", "refreshed", "finalizing", "finalized", "abandoning", "abandoned"}]

(* Types, and what IssueTrackingState.Validate asks of the row: a refresh that
   is over had no terminal intent, only a terminal pass closes, and not after
   a task-wide failure.                                                     *)
IssuesTypeOK ==
    /\ issue \in [Issue -> IssueRow] /\ progress \in ProgressRow
    /\ progress.phase = "refreshed" => ~progress.finalize
    /\ progress.phase \in {"finalizing", "finalized"} => progress.finalize
    /\ progress.phase = "finalizing" => ~progress.taskWide
    /\ progress.cursor # 0 => verdict[progress.of] # "none"
    /\ \A r \in Tracked : observed[r] \subseteq scenario.finds[r]

(* An issue is closed only by a build that is over, was not cancelled, whose
   analysis is complete, and that reports neither the issue nor anything
   task-wide: whoever took over from whom, and whatever was abandoned.      *)
ClosedIsGone ==
    \A i \in Issue : issue[i].status = "closed" =>
       LET r == issue[i].changed IN
       /\ verdict[r] = "passed" /\ "build_analysis_completed" \in events[r]
       /\ i \notin scenario.finds[r] /\ scenario.finds[r] \cap TaskWide = {}

(* An issue changes only in the name of the pass that is under way: a handler
   that lost its lease changes nothing once another has moved past its key,
   finished or abandoned the pass, or started a newer request's.            *)
IssueChangesAreCurrent ==
    \A i \in Issue : issue'[i] # issue[i] =>
       /\ issue'[i].last = progress.of /\ i = progress.cursor
       /\ progress.phase \in {"refreshing", "finalizing", "abandoning"}
ChangesAreCurrent == [][IssueChangesAreCurrent]_issueVars

(* Whenever no pass is under way, ListOpenIssues shows the open issues, with
   their openings: history is complete before the cursor moves on.          *)
OpenIssueRows == {i \in Issue : openIssue[i] # 0}
Shown == {i \in OpenIssueRows : issueSummary[i].status = "open" /\ issueSummary[i].first = openIssue[i]}
ListedIsOpen ==
    progress.phase \in {"refreshed", "finalized", "abandoned"} =>
       /\ Shown = {i \in Issue : issue[i].status = "open"}
       /\ \A i \in Shown : issueSummary[i].first = issue[i].first

(* Every registered request has its tracking ended: it is superseded, too old,
   finalized, or abandoned.  A repair that was asked for is decided, and the
   decision recorded.                                                       *)
TrackingEnds ==
    \A r \in Tracked :
        /\ (mail[r] = "ready") ~> (mail[r] = "gone")
        /\ (scenario.fixing /\ r \in repairs) ~>
              (events[r] \cap {"fix_submitted", "fix_submission_skipped", "fix_submission_abandoned"} # {})

(* A build has at most one repair.                                          *)
OneRepairPerBuild == \A r \in Tracked : \A i, j \in fixOf[r] : i = j
=============================================================================
