-------------------------------- MODULE Build --------------------------------
(***************************************************************************)
(* The build and buildsignal stages of one speculating head: how a funded   *)
(* path becomes a build of the CI system, how the build's result comes back *)
(* to the path, and how a build nothing wants is stopped.                   *)
(*                                                                         *)
(* The build stage triggers, records, links and signals, one write at a     *)
(* time, and never writes the path set. The poll loop owns the build        *)
(* records. The speculate run owns the path set; its own races are module   *)
(* Speculation's, so here a run is one step. Dead letters fail the head.    *)
(***************************************************************************)
EXTENDS Integers, Sequences, FiniteSets

CONSTANTS
    Path,           \* the paths the head may be built along
    Reporting,      \* the builds seen running between accepted and their end
    MaxAttempt,     \* bound: attempts per path
    MaxBuild,       \* bound: builds the runner ever starts
    MaxQueued,      \* bound: build messages queued at once
    MaxEvents,      \* bound: events per behaviour
    EventKinds      \* what may happen to it: faults, a cancel, news from elsewhere

ASSUME BuildAssumption ==
    /\ Reporting \subseteq Nat
    /\ MaxAttempt \in Nat \ {0} /\ MaxBuild \in Nat \ {0}
    /\ MaxQueued \in Nat \ {0} /\ MaxEvents \in Nat
    /\ EventKinds \subseteq {"crash", "lateBuild", "latePoll", "deadletter", "collect", "nudge",
                      "cancel"}

VARIABLES
    head,       \* state of the head batch
    entry,      \* [Path -> [status, attempt]], the head's path set
    run,        \* the runner's builds: sequence of [path, attempt, status, stop]
    record,     \* [1..MaxBuild -> build status, or "none"], the build store
    link,       \* [Path \X attempts -> build, or 0], the path-build store
    dispatches, \* build topic: per message, has it been delivered before
    signals,    \* buildsignal topic: builds with an unacked signal
    sent,       \* signal IDs the queue still deduplicates against
    woken,      \* wake-up IDs <<build, status>> ever published to speculate
    wake,       \* BOOLEAN: a wake-up waits on the speculate topic
    starter,    \* ["now", "late" -> a build handler in flight]
    poll,       \* [1..MaxBuild \X {"now","late"} -> a poll in flight]
    lost,       \* builds whose dispatch lost the link's insert
    outlived,   \* BOOLEAN: a poll has outlived its lease
    events      \* events so far

vars == <<head, entry, run, record, link, dispatches, signals, sent, woken, wake,
          starter, poll, lost, outlived, events>>

TerminalStatus == {"succeeded", "failed", "cancelled"}
BuildStatus    == {"accepted", "running"} \cup TerminalStatus
LivePath       == {"pending", "building", "cancelling"}
TerminalPath   == {"passed", "failed", "cancelled"}
Halted         == {"cancelling", "cancelled", "failed"}

Attempt  == 1..MaxAttempt
BuildIDs == 1..MaxBuild
Slot     == {"now", "late"}
Idle     == [at |-> "idle", todo |-> {}, halted |-> FALSE, recovering |-> FALSE,
             path |-> CHOOSE p \in Path : TRUE, attempt |-> 0, id |-> 0]
NoPoll   == [at |-> "idle", was |-> "none", status |-> "none", halted |-> FALSE]

Init ==
    /\ head = "speculating"
    /\ entry = [p \in Path |-> [status |-> "none", attempt |-> 0]]
    /\ run = <<>>
    /\ record = [b \in BuildIDs |-> "none"]
    /\ link = [pa \in Path \X Attempt |-> 0]
    /\ dispatches = <<>> /\ signals = {} /\ sent = {} /\ woken = {} /\ lost = {}
    /\ wake = TRUE
    /\ starter = [s \in Slot |-> Idle]
    /\ poll = [bs \in BuildIDs \X Slot |-> NoPoll]
    /\ outlived = FALSE /\ events = 0

stores == <<head, entry, record, link>>
CanHappen(kind) == kind \in EventKinds /\ events < MaxEvents
Builds == DOMAIN run
-----------------------------------------------------------------------------
(* The runner (external): builds run and end when they like; a request to   *)
(* cancel is honoured unless the build ends first.                          *)

RunnerMoves(b, status) ==
    /\ run[b].status \notin TerminalStatus
    /\ \/ status = "running" /\ run[b].status = "accepted" /\ b \in Reporting
       \/ status \in {"succeeded", "failed"}
       \/ status = "cancelled" /\ run[b].stop
    /\ run' = [run EXCEPT ![b].status = status]
    /\ UNCHANGED <<stores, dispatches, signals, sent, woken, wake, starter, poll, lost, outlived, events>>
-----------------------------------------------------------------------------
(* The speculate run, as one step.                                          *)

(* Mutant: the build's status is copied onto the path.                      *)
TerminalPathStatusCopied(status) == status

(* What a build's record says of its path.                                  *)
TerminalPathStatus(status) == IF status = "succeeded" THEN "passed" ELSE status

(* Mutant: any finished build of the path speaks for it.                    *)
UpdatePathFromAnyBuild(p) ==
    LET done == {b \in Builds : run[b].path = p /\ record[b] \in TerminalStatus}
    IN IF entry[p].status \in LivePath /\ done # {}
       THEN TerminalPathStatus(record[CHOOSE b \in done : TRUE]) ELSE entry[p].status

(* The status a live path takes from the build its attempt is linked to.    *)
UpdatePathFromBuild(p) ==
    LET s == entry[p].status
        b == IF entry[p].attempt = 0 THEN 0 ELSE link[<<p, entry[p].attempt>>]
    IN CASE s \notin LivePath \/ (b = 0 /\ s # "cancelling") -> s
         [] b = 0 /\ s = "cancelling" -> "cancelled"
         [] s \in LivePath /\ b # 0 /\ record[b] \in TerminalStatus -> TerminalPathStatus(record[b])
         [] OTHER -> IF s = "pending" THEN "building" ELSE s

CancelLive(es) == [p \in Path |-> IF es[p].status \in {"pending", "building"}
                                  THEN [es[p] EXCEPT !.status = "cancelling"] ELSE es[p]]

(* A proposal to build starts an absent path, or a finished one again under *)
(* a new attempt; a proposal to stop marks a live path.                     *)
ApplyProposals(es, fund, stop) ==
    [p \in Path |->
        CASE p \in fund /\ es[p].status \notin LivePath ->
                [status |-> "pending", attempt |-> es[p].attempt + 1]
          [] p \in stop /\ es[p].status \in LivePath -> [es[p] EXCEPT !.status = "cancelling"]
          [] OTHER -> es[p]]

(* Any pending path sends the head to the build stage again.                *)
Dispatch(es) ==
    IF \E p \in Path : es[p].status = "pending"
    THEN Len(dispatches) < MaxQueued /\ dispatches' = Append(dispatches, FALSE)
    ELSE UNCHANGED dispatches

(* One run: read the paths' builds, finish what is decided, else plan.      *)
Speculate ==
    /\ wake
    /\ wake' = FALSE
    /\ LET seen == [p \in Path |-> [entry[p] EXCEPT !.status = UpdatePathFromBuild(p)]]
           passed == \E p \in Path : seen[p].status = "passed"
           settled(es) == \A p \in Path : es[p].status \notin LivePath
       IN \/ /\ head \in {"cancelled", "failed"}
             /\ UNCHANGED <<head, entry, dispatches>>
          \/ /\ head = "cancelling"
             /\ entry' = CancelLive(seen)
             /\ head' = IF settled(seen) THEN "cancelled" ELSE head
             /\ UNCHANGED dispatches
          \/ /\ (head = "landing" \/ (head = "speculating" /\ passed))
             /\ entry' = CancelLive(seen)
             /\ head' = "landing"
             /\ UNCHANGED dispatches
          \/ /\ head = "speculating" /\ ~passed
             /\ \E fund, stop \in SUBSET Path :
                   /\ fund \cap stop = {}
                   /\ \A p \in fund : /\ seen[p].attempt < MaxAttempt
                                      /\ seen[p].status \notin LivePath
                   /\ \A p \in stop : seen[p].status \in {"pending", "building"}
                   /\ entry' = ApplyProposals(seen, fund, stop)
             /\ Dispatch(entry')
             /\ UNCHANGED head
    /\ UNCHANGED <<run, record, link, signals, sent, woken, starter, poll, lost, outlived, events>>

(* The cancel stage marks the head and wakes the queue's run.               *)
CancelBatch ==
    /\ CanHappen("cancel") /\ head = "speculating"
    /\ head' = "cancelling" /\ wake' = TRUE
    /\ events' = events + 1
    /\ UNCHANGED <<entry, run, record, link, dispatches, signals, sent, woken, starter,
                   poll, lost, outlived>>
-----------------------------------------------------------------------------
(* The build stage.                                                         *)

(* A signal's ID is its build: a repeat is dropped while the queue still    *)
(* holds the first.                                                         *)
PublishBuildSignals(bs) ==
    /\ signals' = signals \cup (bs \ sent)
    /\ sent' = sent \cup bs

NoSignal == UNCHANGED <<signals, sent>>

Redeliver == dispatches' = <<TRUE>> \o Tail(dispatches)

(* A delivery at the head of the topic: load the batch and the path set.    *)
ReceiveDispatch ==
    /\ starter["now"].at = "idle" /\ dispatches # <<>>
    /\ starter' = [starter EXCEPT !["now"] =
         [Idle EXCEPT !.at = "loop", !.halted = head \in Halted,
            !.recovering = Head(dispatches),
            !.todo = {[path |-> p, status |-> entry[p].status, attempt |-> entry[p].attempt] :
                      p \in {q \in Path : entry[q].status \in LivePath}}]]
    /\ UNCHANGED <<stores, run, dispatches, signals, sent, woken, wake, poll, lost, outlived, events>>

(* A pending path of a live head with no link yet: trigger its build.       *)
StartPath(s, e) ==
    /\ starter[s].at = "loop" /\ e \in starter[s].todo
    /\ e.status = "pending" /\ ~starter[s].halted
    /\ link[<<e.path, e.attempt>>] = 0
    /\ Len(run) < MaxBuild
    /\ run' = Append(run, [path |-> e.path, attempt |-> e.attempt,
                           status |-> "accepted", stop |-> FALSE])
    /\ starter' = [starter EXCEPT ![s] = [@ EXCEPT !.at = "link", !.todo = starter[s].todo \ {e},
                     !.path = e.path, !.attempt = e.attempt, !.id = Len(run) + 1]]
    /\ UNCHANGED <<stores, dispatches, signals, sent, woken, wake, poll, lost, outlived, events>>

(* A pending path already linked: only its signal can be missing.           *)
AlreadyDispatched(s, e) ==
    /\ starter[s].at = "loop" /\ e \in starter[s].todo
    /\ e.status = "pending" /\ ~starter[s].halted
    /\ link[<<e.path, e.attempt>>] # 0
    /\ PublishBuildSignals({link[<<e.path, e.attempt>>]})
    /\ starter' = [starter EXCEPT ![s].todo = @ \ {e}]
    /\ UNCHANGED <<stores, run, dispatches, woken, wake, poll, lost, outlived, events>>

(* Mutant: a redelivery repairs nothing.                                    *)
EnsureNoSignal(s, e) ==
    /\ starter[s].at = "loop" /\ e \in starter[s].todo
    /\ e.status # "pending" \/ starter[s].halted
    /\ NoSignal
    /\ starter' = [starter EXCEPT ![s].todo = @ \ {e}]
    /\ UNCHANGED <<stores, run, dispatches, woken, wake, poll, lost, outlived, events>>

(* Any other live path: a redelivery signals its build again, if it has one.*)
EnsureSignal(s, e) ==
    /\ starter[s].at = "loop" /\ e \in starter[s].todo
    /\ e.status # "pending" \/ starter[s].halted
    /\ LET b == link[<<e.path, e.attempt>>]
       IN IF starter[s].recovering /\ b # 0 THEN PublishBuildSignals({b}) ELSE NoSignal
    /\ starter' = [starter EXCEPT ![s].todo = @ \ {e}]
    /\ UNCHANGED <<stores, run, dispatches, woken, wake, poll, lost, outlived, events>>

(* Mutant: only the winner of the insert is handed over.                    *)
HandedOverWinner(b, winner) == {winner}

(* The builds whose signals a dispatch sends once its link is decided.      *)
HandedOver(b, winner) == {b, winner}

(* Record the build, insert its link, publish its signal. The loser of the  *)
(* insert hands both builds to the poll loop. The process may die with the  *)
(* link written and the signal not.                                         *)
LinkBuild(s) ==
    /\ starter[s].at = "link"
    /\ LET b  == starter[s].id
           pa == <<starter[s].path, starter[s].attempt>>
       IN /\ record' = [record EXCEPT ![b] = "accepted"]
          /\ link' = IF link[pa] = 0 THEN [link EXCEPT ![pa] = b] ELSE link
          /\ lost' = IF link[pa] = 0 THEN lost ELSE lost \cup {b}
          /\ \/ /\ PublishBuildSignals(HandedOver(b, link'[pa]))
                /\ starter' = [starter EXCEPT ![s] = [@ EXCEPT !.at = "loop", !.path = Idle.path,
                                                     !.attempt = 0, !.id = 0]]
                /\ UNCHANGED <<dispatches, events>>
             \/ /\ link[pa] = 0 /\ s = "now" /\ CanHappen("crash")
                /\ NoSignal /\ Redeliver /\ events' = events + 1
                /\ starter' = [starter EXCEPT !["now"] = Idle]
    /\ UNCHANGED <<head, entry, run, woken, wake, poll, outlived>>

(* The loop is done: ack. A handler that lost its lease acks nothing that   *)
(* counts: its message is another delivery's by now.                        *)
FinishDispatch(s) ==
    /\ starter[s].at = "loop" /\ starter[s].todo = {}
    /\ starter' = [starter EXCEPT ![s] = Idle]
    /\ dispatches' = IF s = "now" THEN Tail(dispatches) ELSE dispatches
    /\ UNCHANGED <<stores, run, signals, sent, woken, wake, poll, lost, outlived, events>>

(* The handler's process dies; its message is delivered again.              *)
CrashDispatch ==
    /\ CanHappen("crash") /\ starter["now"].at # "idle"
    /\ starter' = [starter EXCEPT !["now"] = Idle]
    /\ Redeliver
    /\ events' = events + 1
    /\ UNCHANGED <<stores, run, signals, sent, woken, wake, poll, lost, outlived>>

(* The handler outlives its lease; its message is delivered again beside it.*)
ExpireDispatch ==
    /\ CanHappen("lateBuild") /\ starter["now"].at # "idle" /\ starter["late"].at = "idle"
    /\ starter' = [starter EXCEPT !["late"] = starter["now"], !["now"] = Idle]
    /\ Redeliver
    /\ events' = events + 1
    /\ UNCHANGED <<stores, run, signals, sent, woken, wake, poll, lost, outlived>>
-----------------------------------------------------------------------------
(* The poll loop: one signal per build, held and delivered again until the  *)
(* build ends.                                                              *)

(* Load the record and the batch, and ask the runner.                       *)
PollStatus(b) ==
    /\ b \in signals /\ poll[<<b, "now">>].at = "idle"
    /\ poll' = [poll EXCEPT ![<<b, "now">>] =
                  [at |-> IF run[b].status \in TerminalStatus THEN "write" ELSE "stop",
                   was |-> record[b], status |-> run[b].status, halted |-> head \in Halted]]
    /\ UNCHANGED <<stores, run, dispatches, signals, sent, woken, wake, starter, lost, outlived, events>>

(* Mutant: the kill list compares with the path's first link.               *)
UnwantedByFirstLink(b, halted) ==
    LET e == entry[run[b].path]
    IN halted \/ e.status \in {"cancelling", "cancelled"} \/ e.attempt # run[b].attempt
              \/ link[<<run[b].path, 1>>] # b

(* Nothing wants the build: its batch has halted, its path was called off   *)
(* or has moved to another attempt, or the attempt's link names another.    *)
Unwanted(b, halted) ==
    LET e == entry[run[b].path]
        l == link[<<run[b].path, run[b].attempt>>]
    IN \/ halted
       \/ e.status \in {"cancelling", "cancelled"}
       \/ e.attempt # run[b].attempt
       \/ l # 0 /\ l # b

(* A build that is still running and unwanted is asked to stop; the request *)
(* may fail, and the next poll makes it again.                              *)
PollStop(b, s) ==
    /\ poll[<<b, s>>].at = "stop"
    /\ \/ Unwanted(b, poll[<<b, s>>].halted) /\ run' = [run EXCEPT ![b].stop = TRUE]
       \/ ~Unwanted(b, poll[<<b, s>>].halted) /\ UNCHANGED run
    /\ poll' = [poll EXCEPT ![<<b, s>>].at = "write"]
    /\ UNCHANGED <<stores, dispatches, signals, sent, woken, wake, starter, lost, outlived, events>>

(* A row the dead-letter reconciler of the stage acts on: the head fails    *)
(* unless it is final. Nothing polls the build any more.                    *)
FailBatch == head' = IF head \in {"cancelled", "failed"} THEN head ELSE "failed"

(* Mutant: the wake-up names only the build.                                *)
WakeIDOfBuild(b, status) == <<b, "any">>

(* A wake-up is named by the build at this status.                          *)
WakeID(b, status) == <<b, status>>

(* An update that changes no column counts no row, and is taken for a       *)
(* missing record: the poll is rejected and its dead letter fails the head. *)
PollRejected(b, s) ==
    /\ poll[<<b, s>>].at = "write"
    /\ poll[<<b, s>>].status # poll[<<b, s>>].was /\ poll[<<b, s>>].status = record[b]
    /\ FailBatch
    /\ signals' = signals \ {b}
    /\ poll' = [poll EXCEPT ![<<b, s>>] = NoPoll]
    /\ UNCHANGED <<entry, run, record, link, dispatches, sent, woken, wake, starter, lost, outlived, events>>

(* A status that changed is written over whatever the record holds; the     *)
(* speculate run is woken; a finished build's signal is acked, a running    *)
(* one's held for the next poll. The process may die after the write.       *)
PollWrite(b, s) ==
    /\ poll[<<b, s>>].at = "write"
    /\ LET p  == poll[<<b, s>>]
           id == WakeID(b, p.status)
       IN /\ p.status = p.was \/ p.status # record[b]
          /\ record' = IF p.status = p.was THEN record ELSE [record EXCEPT ![b] = p.status]
          /\ \/ /\ wake' = (wake \/ id \notin woken) /\ woken' = woken \cup {id}
                /\ signals' = IF p.status \in TerminalStatus THEN signals \ {b} ELSE signals
                /\ UNCHANGED events
             \/ /\ CanHappen("crash") /\ s = "now" /\ p.status # p.was
                /\ events' = events + 1
                /\ UNCHANGED <<wake, woken, signals>>
    /\ poll' = [poll EXCEPT ![<<b, s>>] = NoPoll]
    /\ UNCHANGED <<head, entry, run, link, dispatches, sent, starter, lost, outlived>>

CrashPoll(b) ==
    /\ CanHappen("crash") /\ poll[<<b, "now">>].at # "idle"
    /\ poll' = [poll EXCEPT ![<<b, "now">>] = NoPoll]
    /\ events' = events + 1
    /\ UNCHANGED <<stores, run, dispatches, signals, sent, woken, wake, starter, lost, outlived>>

ExpirePoll(b) ==
    /\ CanHappen("latePoll") /\ poll[<<b, "now">>].at # "idle" /\ poll[<<b, "late">>].at = "idle"
    /\ poll' = [poll EXCEPT ![<<b, "late">>] = poll[<<b, "now">>], ![<<b, "now">>] = NoPoll]
    /\ outlived' = TRUE /\ events' = events + 1
    /\ UNCHANGED <<stores, run, dispatches, signals, sent, woken, wake, starter, lost>>

(* A poll that cannot read its rows or reach the runner is rejected; a      *)
(* dispatch that exhausts its retries ends the same way.                    *)
DeadLetterPoll(b) ==
    /\ CanHappen("deadletter") /\ poll[<<b, "now">>].at = "stop"
    /\ FailBatch
    /\ signals' = signals \ {b}
    /\ poll' = [poll EXCEPT ![<<b, "now">>] = NoPoll]
    /\ events' = events + 1
    /\ UNCHANGED <<entry, run, record, link, dispatches, sent, woken, wake, starter, lost, outlived>>

DeadLetterDispatch ==
    /\ CanHappen("deadletter") /\ starter["now"].at # "idle"
    /\ FailBatch
    /\ dispatches' = Tail(dispatches)
    /\ starter' = [starter EXCEPT !["now"] = Idle]
    /\ events' = events + 1
    /\ UNCHANGED <<entry, run, record, link, signals, sent, woken, wake, poll, lost, outlived>>

(* The queue collects a consumed signal and forgets its ID (external).      *)
Collect(b) ==
    /\ CanHappen("collect") /\ b \in sent \ signals
    /\ sent' = sent \ {b}
    /\ events' = events + 1
    /\ UNCHANGED <<stores, run, dispatches, signals, woken, wake, starter, poll, lost, outlived>>

(* Another batch of the queue has news: the run is woken without cause here.*)
Nudge ==
    /\ CanHappen("nudge") /\ ~wake
    /\ wake' = TRUE
    /\ events' = events + 1
    /\ UNCHANGED <<stores, run, dispatches, signals, sent, woken, starter, poll, lost, outlived>>
-----------------------------------------------------------------------------
StartStep(s) ==
    \/ \E e \in starter[s].todo : StartPath(s, e) \/ AlreadyDispatched(s, e) \/ EnsureSignal(s, e)
    \/ LinkBuild(s) \/ FinishDispatch(s)

PollStep(b, s) == PollStop(b, s) \/ PollWrite(b, s) \/ PollRejected(b, s)

Event ==
    \/ CrashDispatch \/ ExpireDispatch \/ DeadLetterDispatch \/ Nudge \/ CancelBatch
    \/ \E b \in Builds : CrashPoll(b) \/ ExpirePoll(b) \/ DeadLetterPoll(b) \/ Collect(b)

Next ==
    \/ Speculate \/ ReceiveDispatch
    \/ \E s \in Slot : StartStep(s)
    \/ \E b \in Builds : \/ PollStatus(b)
                         \/ \E s \in Slot : PollStep(b, s)
                         \/ \E status \in BuildStatus : RunnerMoves(b, status)
    \/ Event

Spec == Init /\ [][Next]_vars

(* Consumers deliver what is queued and handlers go on; the run answers its *)
(* wake-ups; the runner ends its builds.                                    *)
Fairness ==
    /\ WF_vars(Speculate)
    /\ WF_vars(ReceiveDispatch \/ StartStep("now"))
    /\ WF_vars(StartStep("late"))
    /\ \A b \in BuildIDs :
          /\ WF_vars(b \in Builds /\ (PollStatus(b) \/ PollStep(b, "now")))
          /\ WF_vars(b \in Builds /\ \E t \in BuildStatus : RunnerMoves(b, t))

FairSpec == Spec /\ Fairness
-----------------------------------------------------------------------------
(* Every variable keeps its shape.                                          *)
TypeOK ==
    /\ head \in {"speculating", "landing"} \cup Halted
    /\ \A p \in Path : /\ entry[p].status \in {"none"} \cup LivePath \cup TerminalPath
                       /\ entry[p].attempt \in 0..MaxAttempt
    /\ \A b \in Builds : run[b].status \in BuildStatus
    /\ record \in [BuildIDs -> {"none"} \cup BuildStatus]
    /\ link \in [Path \X Attempt -> 0..MaxBuild]
    /\ signals \subseteq BuildIDs /\ sent \subseteq BuildIDs
    /\ events \in 0..MaxEvents

(* A path counts as passed only when the build its current attempt is       *)
(* linked to really succeeded in CI: no surplus build, no build of an       *)
(* earlier attempt and no stale record speaks for it.                       *)
PassedIsReal ==
    \A p \in Path : entry[p].status = "passed" =>
        LET b == link[<<p, entry[p].attempt>>]
        IN b # 0 /\ run[b].status = "succeeded"

(* The kill list errs only towards keeping: a build the poll loop has asked *)
(* the runner to stop is never the linked build of a path that still wants  *)
(* it, however stale the rows were that the decision read.                  *)
WantedIsKept ==
    \A b \in Builds : run[b].stop =>
        ~ /\ head \in {"speculating", "landing"}
          /\ entry[run[b].path].status \in {"pending", "building"}
          /\ entry[run[b].path].attempt = run[b].attempt
          /\ link[<<run[b].path, run[b].attempt>>] = b

(* A live path whose attempt has a build is settled by it, unless the head  *)
(* is failed or a poll outlives its lease (see TerminalRecordIsFinal): a crash between the link and the signal, and a lost dispatch  *)
(* race, leave no build unwatched and no result unread.                     *)
Watched(p) == /\ entry[p].status \in LivePath
              /\ link[<<p, entry[p].attempt>>] # 0
LinkedSettles == \A p \in Path : Watched(p) ~> (~Watched(p) \/ head = "failed" \/ outlived)

(* A build that lost the dispatch race is not left alone: the runner is      *)
(* asked to stop it, or its end is recorded, or its head has failed.         *)
LookedAfter(b) == run[b].stop \/ record[b] \in TerminalStatus \/ head = "failed"
LoserIsStopped == \A b \in BuildIDs : (b \in lost) ~> (b \in lost => LookedAfter(b))

(* A finished build's record never changes again.                           *)
TerminalRecordIsFinal ==
    [][\A b \in BuildIDs : record[b] \in TerminalStatus => record'[b] = record[b]]_record
=============================================================================
