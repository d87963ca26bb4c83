---------------------------- MODULE Speculation ----------------------------
(***************************************************************************)
(* The speculate stage of the orchestrator                                  *)
(* (submitqueue/orchestrator/controller/speculate), with the stages that    *)
(* write the state it reads: build and buildsignal (builds), cancel (the    *)
(* user's intent), land, Runway and landsignal (the push) and the           *)
(* dead-letter consumers.                                                   *)
(*                                                                          *)
(* A message names a batch and wakes a worker.  The worker re-plans the     *)
(* whole queue from a snapshot it reads batch by batch and path set by path *)
(* set, enacts the outcomes the snapshot implies, asks the Speculator (an   *)
(* untrusted extension: any proposal may come back) and saves the rest.     *)
(* Workers overlap when a message's visibility lapses or a partition moves; *)
(* every write they make is a compare-and-swap.  The store compares         *)
(* versions; here the contents are compared, which is the same thing: a     *)
(* batch state and a path set only ever advance, so no content recurs.      *)
(***************************************************************************)
EXTENDS Outcome

CONSTANTS
    Ahead,      \* batches already with the land stage when the behaviour starts
    Worker,     \* consumers that may hold a message of the speculate topic
    Cancels,    \* batches a user may ask to cancel
    CIReports,  \* the final statuses CI may report for a build
    Merges,     \* what Runway may make of a batch it is asked to push
    Speculator, \* "any" proposals, "sticky": never a cancel, "eager": every build
    FaultKinds, \* which of "crash", "expiry" and "deadletter" may happen ...
    MaxFaults   \* ... and how many of them in all

ASSUME AheadAssumption  == /\ Ahead \subseteq Batch
                           /\ \A h \in Ahead : Deps[h] = {} /\ [{} -> Assumption] \subseteq Path
ASSUME InputAssumption  == /\ Cancels \subseteq Batch
                           /\ CIReports \subseteq {"Succeeded", "Failed", "Cancelled"}
                           /\ Merges \subseteq {"merged", "rejected"}
                           /\ Speculator \in {"any", "sticky", "eager"}
ASSUME FaultsAssumption == /\ FaultKinds \subseteq {"crash", "expiry", "deadletter"}
                           /\ MaxFaults \in Nat

RunwayStatus == {"none", "requested", "merged", "rejected"}

Phase == {"idle", "batches", "paths", "finalize", "recover", "transition",
          "enact", "dispatch", "publish"}

VARIABLES
    state,      \* [Batch -> BatchState]: the batch store
    paths,      \* [Batch -> PathSet]: the speculation path set store
    build,      \* [Batch -> [Path -> BuildStatus]]: the build linked to a path's attempt
    msgs,       \* batches named by a message waiting on the speculate topic
    work,       \* <<head, path>> a build message announces as pending
    land,       \* batches dispatched to the land stage (stable message ID)
    runway,     \* [Batch -> RunwayStatus]: what Runway was asked, and did
    signals,    \* batches whose merge result waits for landsignal
    dead,       \* batches a dead-lettered speculate message is blamed on
    conclude,   \* batches whose requests have been, or will be, reconciled
    faults      \* faults so far

VARIABLES
    pc,         \* [Worker -> Phase]
    owned,      \* [Worker -> BOOLEAN]: the worker still owns its message
    trigger,    \* [Worker -> Batch]: the batch its message names
    snap,       \* [Worker -> [Batch -> state read, or "Unread"]]
    inflight,   \* [Worker -> SUBSET Batch]: batches read in an active state
    orig,       \* [Worker -> [Batch -> PathSet]]: stored copy the worker holds
    sets,       \* [Worker -> [Batch -> PathSet]]: its in-memory copy
    dirty,      \* [Worker -> SUBSET Batch]: heads whose copy must be persisted
    open,       \* [Worker -> SUBSET Batch]: heads open to new work
    todo,       \* [Worker -> SUBSET Batch]: what is left of the current loop
    head,       \* [Worker -> Batch]: the head being committed or published
    verdict     \* [Worker -> Verdict]: the outcome decided for it

store  == <<state, paths, build, msgs, work, land, runway, signals, dead, conclude, faults>>
local  == <<pc, owned, trigger, snap, inflight, orig, sets, dirty, open, todo, head, verdict>>
vars   == <<store, local>>

----------------------------------------------------------------------------
Unread == [b \in Batch |-> "Unread"]

Init ==
    /\ state    = [b \in Batch |-> IF b \in Ahead THEN "Landing" ELSE "Creating"]
    /\ paths    = [b \in Batch |-> [p \in Path |->
                     IF b \in Ahead /\ WellFormed(p, b) THEN "Passed" ELSE "Absent"]]
    /\ build    = [b \in Batch |-> [p \in Path |->
                     IF b \in Ahead /\ WellFormed(p, b) THEN "Succeeded" ELSE "None"]]
    /\ msgs     = {}
    /\ work     = {}
    /\ land     = Ahead
    /\ runway   = [b \in Batch |-> IF b \in Ahead THEN "requested" ELSE "none"]
    /\ signals  = {}
    /\ dead     = {}
    /\ conclude = {}
    /\ faults   = 0
    /\ pc       = [w \in Worker |-> "idle"]
    /\ owned    = [w \in Worker |-> FALSE]
    /\ trigger  = [w \in Worker |-> "none"]
    /\ snap     = [w \in Worker |-> Unread]
    /\ inflight = [w \in Worker |-> {}]
    /\ orig     = [w \in Worker |-> [b \in Batch |-> NoPaths]]
    /\ sets     = [w \in Worker |-> [b \in Batch |-> NoPaths]]
    /\ dirty    = [w \in Worker |-> {}]
    /\ open     = [w \in Worker |-> {}]
    /\ todo     = [w \in Worker |-> {}]
    /\ head     = [w \in Worker |-> "none"]
    /\ verdict  = [w \in Worker |-> "wait"]

\* The Speculator (an extension) proposes some of what the filter lets through;
\* what it proposes beyond that changes nothing.
FundProposals(kept) == IF Speculator = "eager" THEN {kept} ELSE SUBSET kept
StopProposals(kept) == IF Speculator = "any" THEN SUBSET kept ELSE {{}}

\* One of the faults the instance allows.
Fault(kind) ==
    /\ kind \in FaultKinds
    /\ faults < MaxFaults
    /\ faults' = faults + 1

----------------------------------------------------------------------------
(* The other stages.                                                        *)

\* dependencyanalysis promotes the batch and hands it to speculate; it has
\* listed the batches it depends on by then.
Promote(b) ==
    /\ state[b] = "Creating"
    /\ \A d \in Deps[b] : state[d] # "Creating"
    /\ state' = [state EXCEPT ![b] = "Created"]
    /\ msgs' = msgs \cup {b}
    /\ UNCHANGED <<paths, build, work, land, runway, signals, dead, conclude, faults, local>>

\* cancel records the user's intent and hands the batch to speculate.
CancelBatch(b) ==
    /\ b \in Cancels
    /\ state[b] \in Cancellable \ {"Cancelling"}
    /\ state' = [state EXCEPT ![b] = "Cancelling"]
    /\ msgs' = msgs \cup {b}
    /\ UNCHANGED <<paths, build, work, land, runway, signals, dead, conclude, faults, local>>

\* build triggers and links a pending path of the head its message names.  It
\* read the set some time after the publish, so the path may have moved on by
\* the time the build starts.  The first poll wakes speculate.
StartPath(h, p) ==
    /\ <<h, p>> \in work
    /\ build[h][p] = "None"
    /\ work' = work \ {<<h, p>>}
    /\ build' = [build EXCEPT ![h][p] = "Running"]
    /\ msgs' = msgs \cup {h}
    /\ UNCHANGED <<state, paths, land, runway, signals, dead, conclude, faults, local>>

\* ... or starts nothing: the path is no longer pending, it has a build
\* already, or the batch is halted.
SkipPath(h, p) ==
    /\ <<h, p>> \in work
    /\ paths[h][p] # "Pending" \/ build[h][p] # "None" \/ state[h] \in Halted
    /\ work' = work \ {<<h, p>>}
    /\ UNCHANGED <<state, paths, build, msgs, land, runway, signals, dead, conclude, faults, local>>

\* Mutant: a finished build wakes nobody.
BuildSignalSilent(h, p, status) ==
    /\ build[h][p] = "Running"
    /\ build' = [build EXCEPT ![h][p] = status]
    /\ UNCHANGED <<state, paths, msgs, work, land, runway, signals, dead, conclude, faults, local>>

\* buildsignal records what CI reports (CI may also cancel of its own accord)
\* and wakes speculate.
BuildSignal(h, p, status) ==
    /\ build[h][p] = "Running"
    /\ build' = [build EXCEPT ![h][p] = status]
    /\ msgs' = msgs \cup {h}
    /\ UNCHANGED <<state, paths, work, land, runway, signals, dead, conclude, faults, local>>

\* land sends a batch that is not halted to Runway, once: the request carries
\* the batch ID, which Runway and the topic dedupe on.
LandBatch(b) ==
    /\ b \in land
    /\ runway[b] = "none"
    /\ state[b] \notin Halted
    /\ runway' = [runway EXCEPT ![b] = "requested"]
    /\ UNCHANGED <<state, paths, build, msgs, work, land, signals, dead, conclude, faults, local>>

\* Runway merges it or not, and answers.
RunwayMerge(b, res) ==
    /\ runway[b] = "requested"
    /\ runway' = [runway EXCEPT ![b] = res]
    /\ signals' = signals \cup {b}
    /\ UNCHANGED <<state, paths, build, msgs, work, land, dead, conclude, faults, local>>

\* Mutant: Runway's answer overrides a batch that is final already.
LandSignalBlind(b) ==
    /\ b \in signals
    /\ signals' = signals \ {b}
    /\ state' = [state EXCEPT ![b] = IF runway[b] = "merged" THEN "Succeeded" ELSE "Failed"]
    /\ conclude' = conclude \cup {b}
    /\ msgs' = msgs \cup {b}
    /\ UNCHANGED <<paths, build, work, land, runway, dead, faults, local>>

\* landsignal records Runway's answer, unless the batch is final already, and
\* wakes conclude and speculate.  (It would leave a cancelling batch alone, but
\* what was sent to Runway is no longer cancellable.)
LandSignal(b) ==
    /\ b \in signals
    /\ state[b] # "Cancelling"
    /\ signals' = signals \ {b}
    /\ state' = [state EXCEPT ![b] = IF @ \in Final THEN @
                                     ELSE IF runway[b] = "merged" THEN "Succeeded" ELSE "Failed"]
    /\ conclude' = conclude \cup {b}
    /\ msgs' = msgs \cup {b}
    /\ UNCHANGED <<paths, build, work, land, runway, dead, faults, local>>

\* failBatch: a batch that is not final fails; one that failed has its requests
\* reconciled once more, and any other final batch is left alone.
FailBatch(b) ==
    /\ state' = [state EXCEPT ![b] = IF @ \in Final THEN @ ELSE "Failed"]
    /\ conclude' = IF state'[b] = "Failed" THEN conclude \cup {b} ELSE conclude

\* A dependencyanalysis, build, buildsignal, land, landsignal or conclude message
\* about b ran out of retries: its dead-letter consumer fails the batch and its
\* requests, and wakes nobody.
DeadLetter(b) ==
    /\ Fault("deadletter")
    /\ FailBatch(b)
    /\ UNCHANGED <<paths, build, msgs, work, land, runway, signals, dead, local>>

\* The batch a dead-lettered speculate message is blamed on is failed and, if
\* that moved it, the queue woken through a batch still live.
DeadLetterSpeculate(b) ==
    /\ b \in dead
    /\ dead' = dead \ {b}
    /\ FailBatch(b)
    /\ LET live == {c \in Batch : state'[c] \in Active}
       IN  \/ (state[b] \in Final \/ live = {}) /\ UNCHANGED msgs
           \/ state[b] \notin Final /\ \E c \in live : msgs' = msgs \cup {c}
    /\ UNCHANGED <<paths, build, work, land, runway, signals, faults, local>>

----------------------------------------------------------------------------
(* One run of a worker.                                                     *)

\* Mutant: the worker drops its message and everything it read, and goes on.
ForgetWithoutReturn(w) ==
    /\ owned'    = [owned EXCEPT ![w] = FALSE]
    /\ trigger'  = [trigger EXCEPT ![w] = "none"]
    /\ snap'     = [snap EXCEPT ![w] = Unread]
    /\ UNCHANGED <<pc, inflight, orig, sets, dirty, open, todo, head, verdict>>

\* The worker forgets its run.
Forget(w) ==
    /\ pc'       = [pc EXCEPT ![w] = "idle"]
    /\ owned'    = [owned EXCEPT ![w] = FALSE]
    /\ trigger'  = [trigger EXCEPT ![w] = "none"]
    /\ snap'     = [snap EXCEPT ![w] = Unread]
    /\ inflight' = [inflight EXCEPT ![w] = {}]
    /\ orig'     = [orig EXCEPT ![w] = [b \in Batch |-> NoPaths]]
    /\ sets'     = [sets EXCEPT ![w] = [b \in Batch |-> NoPaths]]
    /\ dirty'    = [dirty EXCEPT ![w] = {}]
    /\ open'     = [open EXCEPT ![w] = {}]
    /\ todo'     = [todo EXCEPT ![w] = {}]
    /\ head'     = [head EXCEPT ![w] = "none"]
    /\ verdict'  = [verdict EXCEPT ![w] = "wait"]

\* The message goes back to the topic unless another delivery has replaced it.
Requeue(w) == msgs' = IF owned[w] THEN msgs \cup {trigger[w]} ELSE msgs

\* The worker dies or returns an error; the message is redelivered.
Abandon(w) ==
    /\ Fault("crash")
    /\ pc[w] # "idle"
    /\ Requeue(w)
    /\ Forget(w)
    /\ UNCHANGED <<state, paths, build, work, land, runway, signals, dead, conclude>>

\* The run fails for the last time its message may be retried: the message is
\* dead-lettered, and the failure blames a batch the run was working on.
GiveUp(w, culprit) ==
    /\ Fault("deadletter")
    /\ pc[w] # "idle"
    /\ owned[w]
    /\ dead' = dead \cup {culprit}
    /\ Forget(w)
    /\ UNCHANGED <<state, paths, build, msgs, work, land, runway, signals, conclude>>

\* The message's visibility, or the partition's lease, lapses under a run that
\* goes on: the message is delivered again.
Expire(w) ==
    /\ Fault("expiry")
    /\ pc[w] # "idle"
    /\ owned[w]
    /\ owned' = [owned EXCEPT ![w] = FALSE]
    /\ msgs' = msgs \cup {trigger[w]}
    /\ UNCHANGED <<state, paths, build, work, land, runway, signals, dead, conclude,
                   pc, trigger, snap, inflight, orig, sets, dirty, open, todo, head, verdict>>

\* Process: a message is taken and the batch it names looked at before the run
\* starts.  A queue is one partition, whose messages are processed one at a
\* time: only a run whose message expired can still be under way.
Receive(w, b) ==
    /\ pc[w] = "idle"
    /\ \A v \in Worker : ~owned[v]
    /\ b \in msgs
    /\ msgs' = msgs \ {b}
    /\ pc' = [pc EXCEPT ![w] = "batches"]
    /\ owned' = [owned EXCEPT ![w] = TRUE]
    /\ trigger' = [trigger EXCEPT ![w] = b]
    /\ UNCHANGED <<paths, build, work, runway, signals, dead, faults,
                   snap, inflight, orig, sets, dirty, open, todo, head, verdict>>

\* Mutants: without the self-heal branches.
ReceiveTerminalIdle(w, b) ==
    state[b] \in Final /\ Receive(w, b) /\ UNCHANGED <<state, land, conclude>>
ReceiveLandingIdle(w, b) ==
    state[b] = "Landing" /\ Receive(w, b) /\ UNCHANGED <<state, land, conclude>>

\* A finished batch is concluded again, in case that publish was lost.
ReceiveTerminal(w, b) ==
    /\ state[b] \in Final
    /\ conclude' = conclude \cup {b}
    /\ Receive(w, b)
    /\ UNCHANGED <<state, land>>

\* A landing batch is dispatched again: nothing else will look at it.
ReceiveLanding(w, b) ==
    /\ state[b] = "Landing"
    /\ land' = land \cup {b}
    /\ Receive(w, b)
    /\ UNCHANGED <<state, conclude>>

\* A created batch is admitted; were that write lost, the message would be
\* nacked and taken again.
ReceiveCreated(w, b) ==
    /\ state[b] = "Created"
    /\ state' = [state EXCEPT ![b] = "Speculating"]
    /\ Receive(w, b)
    /\ UNCHANGED <<land, conclude>>

ReceiveOther(w, b) ==
    /\ state[b] \in {"Speculating", "Cancelling"}
    /\ Receive(w, b)
    /\ UNCHANGED <<state, land, conclude>>

\* The batches finalize walks: created ones to admit, cancelling ones to
\* finish, and then the heads open to new work.
Sweep(st, flying) == {b \in flying : st[b] \in {"Created", "Cancelling"}}
OpenHeads(st, flying) == {b \in flying : st[b] = "Speculating"}

EnterFinalize(w, st, flying) ==
    /\ pc' = [pc EXCEPT ![w] = "finalize"]
    /\ open' = [open EXCEPT ![w] = OpenHeads(st, flying)]
    /\ todo' = [todo EXCEPT ![w] = Sweep(st, flying)]

\* read: the batches one by one, in any order ...
ReadBatch(w, b) ==
    /\ pc[w] = "batches"
    /\ snap[w][b] = "Unread"
    /\ snap' = [snap EXCEPT ![w][b] = state[b]]
    /\ LET flying == {c \in Batch : snap'[w][c] \in Active}
           last   == \A c \in Batch : snap'[w][c] # "Unread"
       IN  \/ ~last /\ UNCHANGED <<pc, inflight, todo, open>>
           \/ /\ last /\ flying = {}
              /\ EnterFinalize(w, snap'[w], flying)
              /\ UNCHANGED inflight
           \/ /\ last /\ flying # {}
              /\ pc' = [pc EXCEPT ![w] = "paths"]
              /\ inflight' = [inflight EXCEPT ![w] = flying]
              /\ todo' = [todo EXCEPT ![w] = flying]
              /\ UNCHANGED open
    /\ UNCHANGED <<store, owned, trigger, orig, sets, dirty, head, verdict>>

\* ... then the path sets of the batches in flight, folding in the builds.
ReadPathSet(w, h) ==
    /\ pc[w] = "paths"
    /\ h \in todo[w]
    /\ orig' = [orig EXCEPT ![w][h] = paths[h]]
    /\ sets' = [sets EXCEPT ![w][h] = UpdatePathsFromBuilds(paths[h], build[h])]
    /\ dirty' = IF UpdatePathsFromBuilds(paths[h], build[h]) # paths[h]
                THEN [dirty EXCEPT ![w] = @ \cup {h}] ELSE dirty
    /\ IF todo[w] = {h}
       THEN EnterFinalize(w, snap[w], inflight[w])
       ELSE /\ todo' = [todo EXCEPT ![w] = @ \ {h}]
            /\ UNCHANGED <<pc, open>>
    /\ UNCHANGED <<store, owned, trigger, snap, inflight, head, verdict>>

\* admitCreated: best effort, a lost write leaves the batch to the next run.
AdmitCreated(w, b) ==
    /\ pc[w] = "finalize"
    /\ b \in todo[w]
    /\ snap[w][b] = "Created"
    /\ todo' = [todo EXCEPT ![w] = @ \ {b}]
    /\ IF state[b] = "Created"
       THEN /\ state' = [state EXCEPT ![b] = "Speculating"]
            /\ snap' = [snap EXCEPT ![w][b] = "Speculating"]
            /\ open' = [open EXCEPT ![w] = @ \cup {b}]
       ELSE UNCHANGED <<state, snap, open>>
    /\ UNCHANGED <<paths, build, msgs, work, land, runway, signals, dead, conclude, faults,
                   pc, owned, trigger, inflight, orig, sets, dirty, head, verdict>>

\* Mutant: the outcome is dispatched before the state is written.
CommitDispatchesFirst(w, b, set, outcome) ==
    /\ paths' = [paths EXCEPT ![b] = set]
    /\ orig' = [orig EXCEPT ![w][b] = set]
    /\ pc' = [pc EXCEPT ![w] = "enact"]
    /\ head' = [head EXCEPT ![w] = b]
    /\ verdict' = [verdict EXCEPT ![w] = outcome]

\* commitOutcome, first write: the path set the outcome was read from, if the
\* run changed it, goes to the store.  Then the state moves, after a recovery
\* message unless b is the batch the run's own message names.
Commit(w, b, set, outcome) ==
    LET changed == b \in dirty[w] \/ set # sets[w][b]
    IN  /\ changed => paths[b] = orig[w][b]
        /\ paths' = [paths EXCEPT ![b] = IF changed THEN set ELSE @]
        /\ orig' = [orig EXCEPT ![w][b] = IF changed THEN set ELSE @]
        /\ pc' = [pc EXCEPT ![w] = IF trigger[w] = b THEN "transition" ELSE "recover"]
        /\ head' = [head EXCEPT ![w] = b]
        /\ verdict' = [verdict EXCEPT ![w] = outcome]

\* Another run wrote the set: the outcome is dropped, and the copy abandoned.
CommitLost(w, b, set) ==
    /\ b \in dirty[w] \/ set # sets[w][b]
    /\ paths[b] # orig[w][b]
    /\ UNCHANGED <<paths, orig, pc, head, verdict>>

\* finalizeCancellations: stop every path; cancel the batch once they stopped.
FinalizeCancellation(w, b) ==
    LET set == CancelAll(sets[w][b])
    IN  /\ pc[w] = "finalize"
        /\ b \in todo[w]
        /\ \A c \in todo[w] : snap[w][c] = "Cancelling"
        /\ todo' = [todo EXCEPT ![w] = @ \ {b}]
        /\ sets' = [sets EXCEPT ![w][b] = set]
        /\ IF AllStopped(set)
           THEN /\ Commit(w, b, set, "cancel") \/ CommitLost(w, b, set)
                /\ dirty' = [dirty EXCEPT ![w] = @ \ {b}]
           ELSE /\ dirty' = [dirty EXCEPT ![w] = IF set # sets[w][b] THEN @ \cup {b} ELSE @]
                /\ UNCHANGED <<paths, orig, pc, head, verdict>>
        /\ UNCHANGED <<state, build, msgs, work, land, runway, signals, dead, conclude, faults,
                       owned, trigger, snap, inflight, open>>

\* An open head's paths once its broken ones are asked to stop.
Folded(w, h) == IF h \in open[w] THEN CancelBroken(sets[w][h], snap[w]) ELSE sets[w][h]

\* finalize: a head the snapshot decides is committed and leaves the open ones.
FinalizeHead(w, h) ==
    LET decision == Decide(h, Folded(w, h), snap[w])
        set      == IF decision = "land" THEN Supersede(Folded(w, h)) ELSE Folded(w, h)
    IN  /\ pc[w] = "finalize"
        /\ todo[w] = {}
        /\ h \in open[w]
        /\ decision # "wait"
        /\ Commit(w, h, set, decision) \/ CommitLost(w, h, set)
        /\ sets' = [sets EXCEPT ![w][h] = set]
        /\ dirty' = [dirty EXCEPT ![w] = @ \ {h}]
        /\ open' = [open EXCEPT ![w] = @ \ {h}]
        /\ UNCHANGED <<state, build, msgs, work, land, runway, signals, dead, conclude, faults,
                       owned, trigger, snap, inflight, todo>>

\* recoverable: the batch gets a message of its own before its state moves.
Recoverable(w) ==
    /\ pc[w] = "recover"
    /\ msgs' = msgs \cup {head[w]}
    /\ pc' = [pc EXCEPT ![w] = "transition"]
    /\ UNCHANGED <<state, paths, build, work, land, runway, signals, dead, conclude, faults,
                   owned, trigger, snap, inflight, orig, sets, dirty, open, todo, head, verdict>>

TargetState(v) == IF v = "land" THEN "Landing" ELSE IF v = "fail" THEN "Failed" ELSE "Cancelled"

\* Mutants: the state is written without comparing; a head just sent to land
\* counts as landed for the heads stacked on it.
TransitionBlind(w) ==
    /\ pc[w] = "transition"
    /\ state' = [state EXCEPT ![head[w]] = TargetState(verdict[w])]
    /\ pc' = [pc EXCEPT ![w] = "enact"]
    /\ UNCHANGED <<paths, build, msgs, work, land, runway, signals, dead, conclude, faults,
                   owned, trigger, snap, inflight, orig, sets, dirty, open, todo, head, verdict>>
TransitionOptimistic(w) ==
    /\ pc[w] = "transition"
    /\ state[head[w]] = snap[w][head[w]]
    /\ state' = [state EXCEPT ![head[w]] = TargetState(verdict[w])]
    /\ snap' = [snap EXCEPT ![w][head[w]] =
                   IF verdict[w] = "land" THEN "Succeeded" ELSE TargetState(verdict[w])]
    /\ pc' = [pc EXCEPT ![w] = "enact"]
    /\ UNCHANGED <<paths, build, msgs, work, land, runway, signals, dead, conclude, faults,
                   owned, trigger, inflight, orig, sets, dirty, open, todo, head, verdict>>

\* applyOutcome: the state moves if the batch is still what the run read.  A
\* terminal outcome enters the snapshot; a land resolves nothing for others.
Transition(w) ==
    /\ pc[w] = "transition"
    /\ state[head[w]] = snap[w][head[w]]
    /\ state' = [state EXCEPT ![head[w]] = TargetState(verdict[w])]
    /\ snap' = IF verdict[w] = "land" THEN snap
               ELSE [snap EXCEPT ![w][head[w]] = TargetState(verdict[w])]
    /\ pc' = [pc EXCEPT ![w] = "enact"]
    /\ UNCHANGED <<paths, build, msgs, work, land, runway, signals, dead, conclude, faults,
                   owned, trigger, inflight, orig, sets, dirty, open, todo, head, verdict>>

\* The commit is over, one way or the other.
Resume(w) ==
    /\ pc' = [pc EXCEPT ![w] = "finalize"]
    /\ head' = [head EXCEPT ![w] = "none"]
    /\ verdict' = [verdict EXCEPT ![w] = "wait"]
    /\ UNCHANGED <<owned, trigger, snap, inflight, orig, sets, dirty, open, todo>>

\* Mutant: a lost write is taken for one another run made with the same outcome.
TransitionAssumed(w) ==
    /\ pc[w] = "transition"
    /\ state[head[w]] # snap[w][head[w]]
    /\ pc' = [pc EXCEPT ![w] = "enact"]
    /\ UNCHANGED <<store, owned, trigger, snap, inflight, orig, sets, dirty, open, todo, head, verdict>>

\* Another writer moved the batch: the outcome is dropped.
TransitionLost(w) ==
    /\ pc[w] = "transition"
    /\ state[head[w]] # snap[w][head[w]]
    /\ Resume(w)
    /\ UNCHANGED store

\* What follows the write: dispatch to land, or to conclude.
Enact(w) ==
    /\ pc[w] = "enact"
    /\ land' = IF verdict[w] = "land" THEN land \cup {head[w]} ELSE land
    /\ conclude' = IF verdict[w] = "land" THEN conclude ELSE conclude \cup {head[w]}
    /\ Resume(w)
    /\ UNCHANGED <<state, paths, build, msgs, work, runway, signals, dead, faults>>

\* The fixed point: no open head is decided any more.
Quiescent(w) ==
    /\ todo[w] = {}
    /\ \A h \in open[w] : Decide(h, Folded(w, h), snap[w]) = "wait"

\* The heads the dispatch loop has yet to walk.
Undispatched(w) ==
    IF pc[w] = "dispatch" THEN todo[w]
    ELSE IF pc[w] = "finalize" /\ Quiescent(w) THEN inflight[w]
    ELSE {}

\* The loop goes on with the heads in rest; when none is left the run is over
\* and its message acked.
GoOn(w, rest) ==
    \/ rest = {} /\ Forget(w)
    \/ /\ rest # {}
       /\ pc' = [pc EXCEPT ![w] = "dispatch"]
       /\ todo' = [todo EXCEPT ![w] = rest]
       /\ head' = [head EXCEPT ![w] = "none"]
       /\ UNCHANGED <<owned, trigger, snap, inflight, orig, sets, dirty, open, verdict>>

\* dispatch, one head: the surviving proposals are folded in, the set is saved,
\* and a build message is due if some path is pending.  The Speculator is asked
\* only when some head is open to new work.
Dispatch(w, h) ==
    LET before == Folded(w, h)
        rest   == Undispatched(w) \ {h}
    IN  /\ h \in Undispatched(w)
        /\ \E fund \in FundProposals({p \in Path : open[w] # {} /\ KeepBuild(h, p, before, snap[w])}),
              stop \in StopProposals({p \in Path : open[w] # {} /\ KeepCancel(h, p, before, snap[w])}) :
             LET set     == ApplyProposals(before, fund, stop)
                 changed == h \in dirty[w] \/ set # sets[w][h]
                 lost    == changed /\ paths[h] # orig[w][h]
             IN  /\ paths' = [paths EXCEPT ![h] = IF changed /\ ~lost THEN set ELSE @]
                 \* a resurrected path starts a new attempt, linked to no build
                 /\ build' = [build EXCEPT ![h] = [p \in Path |->
                        IF ~lost /\ p \in fund /\ before[p] \in PathFinal THEN "None" ELSE @[p]]]
                 /\ IF lost \/ ~HasActionablePaths(set)
                    THEN GoOn(w, rest)
                    ELSE /\ pc' = [pc EXCEPT ![w] = "publish"]
                         /\ head' = [head EXCEPT ![w] = h]
                         /\ todo' = [todo EXCEPT ![w] = rest]
                         /\ UNCHANGED <<owned, trigger, snap, inflight, orig, sets,
                                        dirty, open, verdict>>
        /\ UNCHANGED <<state, msgs, work, land, runway, signals, dead, conclude, faults>>

\* ... and the message sent.  Of the pending paths the build stage finds, it
\* acts on those linked to no build.
PublishBuild(w) ==
    /\ pc[w] = "publish"
    /\ work' = work \cup {<<head[w], p>> : p \in {q \in Path : /\ paths[head[w]][q] = "Pending"
                                                             /\ build[head[w]][q] = "None"}}
    /\ GoOn(w, todo[w])
    /\ UNCHANGED <<state, paths, build, msgs, land, runway, signals, dead, conclude, faults>>

\* A run over an empty queue has nothing to save.
Finish(w) ==
    /\ pc[w] = "finalize"
    /\ inflight[w] = {}
    /\ Forget(w)
    /\ UNCHANGED store

----------------------------------------------------------------------------
RunStep(w) ==
    \/ \E b \in Batch : \/ ReadBatch(w, b)
                        \/ ReadPathSet(w, b)
                        \/ AdmitCreated(w, b)
                        \/ FinalizeCancellation(w, b)
                        \/ FinalizeHead(w, b)
                        \/ Dispatch(w, b)
    \/ Recoverable(w) \/ Transition(w) \/ TransitionLost(w) \/ Enact(w)
    \/ PublishBuild(w) \/ Finish(w)

Deliver(w, b) == \/ ReceiveTerminal(w, b) \/ ReceiveLanding(w, b)
                 \/ ReceiveCreated(w, b)  \/ ReceiveOther(w, b)

StageStep ==
    \/ \E b \in Batch : \/ Promote(b) \/ CancelBatch(b) \/ LandBatch(b) \/ LandSignal(b)
                        \/ DeadLetter(b) \/ DeadLetterSpeculate(b)
    \/ \E b \in Batch, res \in Merges : RunwayMerge(b, res)
    \/ \E h \in Batch, p \in Path : StartPath(h, p) \/ SkipPath(h, p)
    \/ \E h \in Batch, p \in Path, status \in CIReports : BuildSignal(h, p, status)

Next ==
    \/ StageStep
    \/ \E w \in Worker : Abandon(w) \/ Expire(w) \/ RunStep(w)
    \/ \E w \in Worker, b \in Batch : Deliver(w, b) \/ GiveUp(w, b)

Spec == Init /\ [][Next]_vars

\* A worker goes on with its run, a waiting message gets its turn (the topic is
\* consumed in order), and the other stages process what they were sent: CI
\* reports on every build, Runway answers every request.  Faults, and what
\* users do, are not fair.
Fairness ==
    /\ \A w \in Worker : WF_vars(RunStep(w))
    /\ \A b \in Batch : /\ SF_vars(\E w \in Worker : Deliver(w, b))
                        /\ WF_vars(\E res \in Merges : RunwayMerge(b, res))
                        /\ WF_vars(LandBatch(b))
                        /\ WF_vars(LandSignal(b))
    /\ \A h \in Batch, p \in Path :
          /\ WF_vars(StartPath(h, p))
          /\ WF_vars(\E status \in CIReports : BuildSignal(h, p, status))

FairSpec == Spec /\ Fairness

----------------------------------------------------------------------------
(* Properties.                                                              *)

StoreTypeOK ==
    /\ state \in [Batch -> BatchState]
    /\ paths \in [Batch -> PathSet]
    /\ build \in [Batch -> [Path -> BuildStatus]]
    /\ msgs \subseteq Batch
    /\ work \subseteq Batch \X Path
    /\ land \subseteq Batch /\ conclude \subseteq Batch
    /\ runway \in [Batch -> RunwayStatus]
    /\ signals \subseteq Batch /\ dead \subseteq Batch
    /\ faults \in 0..MaxFaults

ControlTypeOK ==
    /\ pc \in [Worker -> Phase]
    /\ owned \in [Worker -> BOOLEAN]
    /\ trigger \in [Worker -> Batch \cup {"none"}]
    /\ head \in [Worker -> Batch \cup {"none"}]
    /\ verdict \in [Worker -> Verdict]
    /\ \A w \in Worker : /\ pc[w] # "idle" => trigger[w] \in Batch
                         /\ pc[w] \in {"recover", "transition", "enact", "publish"} => head[w] \in Batch

CopyTypeOK ==
    /\ snap \in [Worker -> [Batch -> BatchState \cup {"Unread"}]]
    /\ orig \in [Worker -> [Batch -> PathSet]]
    /\ sets \in [Worker -> [Batch -> PathSet]]

LoopTypeOK ==
    /\ inflight \in [Worker -> SUBSET Batch]
    /\ dirty \in [Worker -> SUBSET Batch]
    /\ open \in [Worker -> SUBSET Batch]
    /\ todo \in [Worker -> SUBSET Batch]

TypeOK == StoreTypeOK /\ ControlTypeOK /\ CopyTypeOK /\ LoopTypeOK

\* A batch handed to the land stage carries a passed build for every way its
\* dependencies can still turn out: whatever happens to them, the combination
\* that reaches the trunk is one a build validated (outcome.go, landablePath
\* and bypass.go, bypassablePath, under overlapping runs).
LandedIsValidated ==
    \A h \in Batch : state[h] \in {"Landing", "Succeeded"} =>
        \A p \in [Deps[h] -> Assumption] :
            ~Broken(p, state) => p \in Path /\ build[h][p] = "Succeeded"

\* The moves a batch may make.
Moves ==
    {<<"Creating", "Created">>, <<"Created", "Speculating">>, <<"Speculating", "Landing">>,
     <<"Created", "Cancelling">>, <<"Speculating", "Cancelling">>,
     <<"Cancelling", "Cancelled">>, <<"Landing", "Succeeded">>}
    \cup ((BatchState \ Final) \X {"Failed"})

\* No write of a stale run, of the cancel stage, of landsignal or of a
\* dead-letter consumer takes a batch off its lifecycle: a final state is never
\* left, and a landing batch is no longer cancelled (every state write is a
\* compare-and-swap, core/batch Transition).  Of a cancelling batch entity/batch.go
\* says that it may still succeed if a concurrent land wins the race.  The code
\* never takes that move: a batch is cancelled only before it lands, nothing
\* sends a cancelling one to Runway and landsignal leaves it alone, so it ends
\* cancelled or failed.
Lifecycle == [][\A b \in Batch : state'[b] # state[b] => <<state[b], state'[b]>> \in Moves]_vars

\* Nothing downstream acts on an outcome the store refused: a batch the land
\* stage is given is landing or was, and one conclude is given is final
\* (applyOutcome dispatches only after the state write).
DispatchedIsDurable ==
    /\ \A b \in land : state[b] \in {"Landing", "Succeeded", "Failed"}
    /\ \A b \in conclude : state[b] \in Final

\* The assumptions that match how the dependencies of h turned out.
ActualPath(h) == [d \in Deps[h] |-> IF state[d] = "Succeeded" THEN "succeeds" ELSE "fails"]

\* A run fails a head only when every dependency is final and CI rejected the
\* very combination they left, even when the run's snapshot is stale
\* (hasNoViableFuture errs toward waiting).
FailIsJustified ==
    [][\A w \in Worker :
          (pc[w] = "transition" /\ pc'[w] = "enact" /\ verdict[w] = "fail") =>
              /\ \A d \in Deps[head[w]] : state[d] \in Final
              /\ build[head[w]][ActualPath(head[w])] = "Failed"]_vars

\* Once a head is handed to the land stage no new path of it is funded: the
\* snapshot of the run that decided it still says Speculating, so the filter
\* lets proposals for it through, but only for paths that have passed already.
\* For runs that do not overlap.
DecidedHeadIsClosed ==
    [][\A h \in Batch : state[h] \in {"Landing", "Succeeded"} =>
          \A p \in Path : paths'[h][p] = "Pending" => paths[h][p] = "Pending"]_vars

\* A batch moved to landing reaches the land stage and one moved to a final
\* state reaches conclude, whatever crash comes between the two (recoverable and
\* the self-heal branches of Process).
OutcomesAreActedOn ==
    /\ \A b \in Batch : state[b] = "Landing" ~> (b \in land \/ state[b] \in Final)
    /\ \A b \in Batch : state[b] \in Final ~> b \in conclude

\* CI cancelled, of its own accord, the build of the only path that is left of
\* h.  Nobody may fund that path again (rejectPathTerminal), and a cancelled path
\* is not a failed one (hasNoViableFuture): so it stays.
CIGaveUp(h) == /\ \A d \in Deps[h] : state[d] \in Final
               /\ build[h][ActualPath(h)] = "Cancelled"

\* With a Speculator that funds every path it may, a batch handed to speculate
\* is decided: no admission, wake-up or build dispatch is lost for good.  The
\* code leaves one batch undecided for ever: one whose last path, or the last
\* path of a batch it is stacked on, CI cancelled.
HeadsAreDecided ==
    \A b \in Batch : state[b] \in {"Created", "Speculating"} ~>
        \/ state[b] \notin {"Created", "Speculating"}
        \/ \E h \in {b} \cup Deps[b] : CIGaveUp(h)

\* A batch the user cancelled ends.
CancellingEnds == \A b \in Batch : state[b] = "Cancelling" ~> state[b] \in Final

\* What Runway merged was validated on top of the dependencies Runway merged.
TrunkIsValidated ==
    \A h \in Batch : runway[h] = "merged" /\ (\A d \in Deps[h] : state[d] \in Final) =>
        LET onTrunk == [d \in Deps[h] |-> IF runway[d] = "merged" THEN "succeeds" ELSE "fails"]
        IN  build[h][onTrunk] = "Succeeded"
============================================================================
