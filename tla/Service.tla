------------------------------- MODULE Service -------------------------------
(***************************************************************************)
(* A service process from its main function's point of view: the consumers  *)
(* it registers and starts, the consume loops and partition workers they    *)
(* run, the signal or the server error that ends it, and the order in which *)
(* everything is stopped, closed and left.                                  *)
(*   platform/consumer, platform/lifecycle, platform/pipeline,              *)
(*   service/{runway,stovepipe,submitqueue/*}/server/main.go                *)
(* The main function is a list of the operations it has still to do; an     *)
(* operation that fails replaces the rest of the list.                      *)
(***************************************************************************)
EXTENDS Naturals, Sequences, FiniteSets, SequencesExt

CONSTANTS
    Kinds,          \* the services run
    Sample,         \* the topics whose traffic is followed
    Feed,           \* topic -> the deliveries its queue holds, <<partition, number>>
    Misfit,         \* deliveries whose tenant metadata is inconsistent
    BatchSize,      \* room of a partition's channel; the subscription's is twice that
    MaxTrouble,     \* operations of main that may fail
    MaxSkipped      \* settlements that may fail

VARIABLES
    kind,           \* which service this is
    todo,           \* what main has still to do
    failed,         \* the operations that failed
    signalled,      \* a SIGINT or SIGTERM has arrived
    cancelled,      \* topics whose subscription context is cancelled
    late,           \* topics a Stop gave up waiting for
    subscription,   \* topic -> the queue subscriber's side of the subscription
    sent,           \* topic -> how many of its deliveries the subscriber has sent
    deliveryCh,     \* topic -> deliveries on their way to the consume loop
    loop,           \* topic -> the consume loop
    worker,         \* topic -> partition -> its worker
    settled,        \* deliveries acked, nacked, postponed or rejected, in order
    skipped,        \* topic -> deliveries whose settlement failed under a live context
    database        \* "open" until the deferred Close

serviceVars == <<kind, todo, failed, signalled, cancelled, late, subscription, sent, deliveryCh, loop,
                 worker, settled, skipped, database>>

Partition(t) == {Feed[t][i][1] : i \in DOMAIN Feed[t]}
-----------------------------------------------------------------------------
(* The topics of each service, by consumer, in the order of registration.   *)
Subscribed(topics, side) == [i \in DOMAIN topics |-> <<topics[i], side>>]

RunwayTopics == <<"merge-conflict-check", "runway-merge">>
(* Mutant: the name of the topic's key, where the name was meant.           *)
RunwaySignalsByKey == {"runway-merge-conflict-check-signal", "runway-merge-signal"}
RunwaySignals == {"merge-conflict-check-signal", "merge-signal"}
StovepipeTopics ==
    <<"process", "build", "buildsignal", "buildanalysis", "issuetrack", "fix", "record", "stovepipe-hook">>
GatewayPublishes == {"start", "cancel"}
GatewayTopics == <<"log">>
OrchestratorStages ==
    <<"start", "cancel", "validate", "merge-conflict-check-signal", "batch", "dependency-analysis",
      "speculate", "build", "buildsignal", "submitqueue-land", "merge-signal", "conclude",
      "submitqueue-hook">>
OrchestratorPublishOnly == {"log", "merge-conflict-check", "runway-merge"}

Topics(k) == CASE k = "runway" -> RunwayTopics [] k = "stovepipe" -> StovepipeTopics
               [] k = "gateway" -> GatewayTopics [] OTHER -> OrchestratorStages
Publishes(k) == CASE k = "runway" -> RunwaySignals [] k = "stovepipe" -> Range(StovepipeTopics)
                  [] k = "gateway" -> GatewayPublishes
                  [] OTHER -> Range(OrchestratorStages) \cup OrchestratorPublishOnly

(* The two consumers of a service.                                          *)
Primary(k) == SelectSeq(Subscribed(Topics(k), "main"), LAMBDA t : t \in Sample)
DLQ(k) == SelectSeq(Subscribed(Topics(k), "dlq"), LAMBDA t : t \in Sample)
-----------------------------------------------------------------------------
(* What main does, service by service.                                      *)
Each(op, topics) == [i \in DOMAIN topics |-> <<op, topics[i]>>]
Start(topics) == Each("subscribe", topics)
(* Stop cancels every context first, then waits for one loop after another. *)
Stop(topics) == <<<<"cancel", topics>>>> \o Each("await", topics)

RunwayOpening == <<<<"open">>>>
RunwayStart(k) == Start(Primary(k)) \o Start(DLQ(k))
RunwayStop(k) == Stop(Primary(k)) \o Stop(DLQ(k))
StovepipeOpening == <<<<"open">>>>
StovepipeStart(k) == Start(DLQ(k)) \o Start(Primary(k))
StovepipeStop(k) == Stop(Primary(k)) \o Stop(DLQ(k))
GatewayOpening == <<<<"open">>>>
GatewayStart(k) == Start(Primary(k))
GatewayStop(k) == Stop(Primary(k))
OrchestratorOpening == <<<<"open">>>>
(* Construct's group: the primary consumer, then the DLQ consumer.          *)
Group(k) == Start(Primary(k)) \o Start(DLQ(k))
StopGroup(k) == Stop(DLQ(k)) \o Stop(Primary(k))

(* The deferred closes, in the reverse of the order they were deferred.     *)
SubscriberClose(k) == <<<<"end", Primary(k) \o DLQ(k)>>, <<"awaitEnd">>>>
CloseQueue(k) == SubscriberClose(k) \o <<<<"closeDatabase">>, <<"exit">>>>

Serving == <<<<"listen">>, <<"serve">>, <<"gracefulStop">>>>

Program(k) ==
    (CASE k = "runway" -> RunwayOpening \o RunwayStart(k) \o Serving \o RunwayStop(k)
       [] k = "stovepipe" -> StovepipeOpening \o StovepipeStart(k) \o Serving \o StovepipeStop(k)
       [] k = "gateway" -> GatewayOpening \o GatewayStart(k) \o Serving \o GatewayStop(k)
       [] OTHER -> OrchestratorOpening \o Group(k) \o Serving \o StopGroup(k)) \o CloseQueue(k)

(* Mutant: an error of one controller is returned at once.                  *)
UnsubscribeNone(k, t) == <<>>
(* The consumer a topic's failed subscription belongs to is unwound by Start;
   what was started before it is stopped only where main rolls back.        *)
Unsubscribe(k, t) == IF Contains(Primary(k), t) THEN Stop(Primary(k)) ELSE Stop(DLQ(k))
(* Mutant: a group that does not stop the members it had started.           *)
RollbackNone(k, t) == <<>>
Rollback(k, t) ==
    IF k = "stovepipe" /\ Contains(Primary(k), t) THEN Stop(DLQ(k))
    ELSE IF k = "orchestrator" /\ Contains(DLQ(k), t) THEN Stop(Primary(k))
    ELSE <<>>

OnFailure(k, op) ==
    CASE op[1] = "open" -> <<<<"exit">>>>
      [] op[1] = "subscribe" -> Unsubscribe(k, op[2]) \o Rollback(k, op[2]) \o CloseQueue(k)
      [] OTHER -> CloseQueue(k)
-----------------------------------------------------------------------------
NoWorker == [buffer |-> <<>>, busy |-> 0, up |-> FALSE, started |-> FALSE]

ServiceInit ==
    /\ kind \in Kinds
    /\ todo = Program(kind)
    /\ failed = <<>>
    /\ signalled = FALSE
    /\ cancelled = {}
    /\ late = {}
    /\ subscription = [t \in Sample |-> "none"]
    /\ sent = [t \in Sample |-> 0]
    /\ deliveryCh = [t \in Sample |-> <<>>]
    /\ loop = [t \in Sample |-> "none"]
    /\ worker = [t \in Sample |-> [p \in Partition(t) |-> NoWorker]]
    /\ settled = [t \in Sample |-> <<>>]
    /\ skipped = [t \in Sample |-> {}]
    /\ database = "open"

Running == todo # <<>>
Doing(name) == Running /\ todo[1][1] = name
Topic == todo[1][2]
GoOn == todo' = Tail(todo)
mainVars == <<todo, failed, signalled, cancelled, late, database>>
flowVars == <<subscription, sent, deliveryCh, loop, worker, settled, skipped>>

(* An operation of main that can fail: the queue's creation, a subscription,
   the listener.                                                            *)
Fail(name) ==
    /\ Doing(name)
    /\ Len(failed) < MaxTrouble
    /\ failed' = Append(failed, todo[1])
    /\ todo' = OnFailure(kind, todo[1])
    /\ UNCHANGED <<kind, signalled, cancelled, late, flowVars, database>>

Open == Doing("open") /\ GoOn /\ UNCHANGED <<kind, failed, signalled, cancelled, late, flowVars, database>>

(* consumer.subscribe: the subscriber opens the subscription under a context
   detached from the signal's, and the consume loop starts.                 *)
Subscribe ==
    /\ Doing("subscribe")
    /\ subscription' = [subscription EXCEPT ![Topic] = "open"]
    /\ loop' = [loop EXCEPT ![Topic] = "running"]
    /\ GoOn
    /\ UNCHANGED <<kind, failed, signalled, cancelled, late, sent, deliveryCh, worker, settled, skipped, database>>

Listen == Doing("listen") /\ GoOn /\ UNCHANGED <<kind, failed, signalled, cancelled, late, flowVars, database>>

(* The select: a signal, or the server's own error, which skips the graceful
   stop. A signal during start-up waits for the select: what Start subscribes
   is detached from it.                                                     *)
Signal ==
    /\ Doing("serve")
    /\ signalled' = TRUE
    /\ GoOn
    /\ UNCHANGED <<kind, failed, cancelled, late, flowVars, database>>
ServerError ==
    /\ Doing("serve")
    /\ Len(failed) < MaxTrouble
    /\ failed' = Append(failed, <<"serve">>)
    /\ todo' = Tail(Tail(todo))
    /\ UNCHANGED <<kind, signalled, cancelled, late, flowVars, database>>
(* GracefulStop waits for the calls the server is in without a time limit:
   that they end is taken for granted.                                      *)
GracefulStop ==
    /\ Doing("gracefulStop")
    /\ GoOn
    /\ UNCHANGED <<kind, failed, signalled, cancelled, late, flowVars, database>>

(* unsubscribeAll: cancel, then wait for the loop or for the time that is
   left. A topic that was never subscribed has no entry to wait for.        *)
CancelSubscription ==
    /\ Doing("cancel")
    /\ cancelled' = cancelled \cup {t \in Range(Topic) : loop[t] # "none"}
    /\ GoOn
    /\ UNCHANGED <<kind, failed, signalled, late, flowVars, database>>
AwaitLoop ==
    /\ Doing("await")
    /\ loop[Topic] \in {"none", "done"}
    /\ GoOn
    /\ UNCHANGED <<kind, failed, signalled, cancelled, late, flowVars, database>>
(* Mutant: Stop waits for as long as it takes.                              *)
AwaitForever ==
    /\ Doing("await")
    /\ loop[Topic] = "done"
    /\ GoOn
    /\ UNCHANGED <<kind, failed, signalled, cancelled, late, flowVars, database>>
AwaitTimeout ==
    /\ Doing("await")
    /\ loop[Topic] \notin {"none", "done"}
    /\ late' = late \cup {Topic}
    /\ GoOn
    /\ UNCHANGED <<kind, failed, signalled, cancelled, flowVars, database>>

(* queue.Close: every subscription is cancelled and given a while to end.   *)
EndSubscription ==
    /\ Doing("end")
    /\ subscription' = [t \in Sample |-> IF t \in Range(Topic) /\ subscription[t] = "open"
                                        THEN "ending" ELSE subscription[t]]
    /\ GoOn
    /\ UNCHANGED <<kind, failed, signalled, cancelled, late, sent, deliveryCh, loop, worker, settled, skipped, database>>
AwaitEnd ==
    /\ Doing("awaitEnd")
    /\ GoOn
    /\ UNCHANGED <<kind, failed, signalled, cancelled, late, flowVars, database>>
CloseDatabase ==
    /\ Doing("closeDatabase")
    /\ database' = "closed"
    /\ GoOn
    /\ UNCHANGED <<kind, failed, signalled, cancelled, late, flowVars>>
Exit == Doing("exit") /\ GoOn /\ UNCHANGED <<kind, failed, signalled, cancelled, late, flowVars, database>>
-----------------------------------------------------------------------------
(* The subscriber's side (external to the consumer): the deliveries of a
   topic come in order, and a subscription that ends closes its channel.    *)
Deliver(t) ==
    /\ Running /\ subscription[t] = "open"
    /\ sent[t] < Len(Feed[t])
    /\ Len(deliveryCh[t]) < 2 * BatchSize
    /\ sent' = [sent EXCEPT ![t] = @ + 1]
    /\ deliveryCh' = [deliveryCh EXCEPT ![t] = Append(@, Feed[t][sent[t] + 1])]
    /\ UNCHANGED <<kind, mainVars, subscription, loop, worker, settled, skipped>>
SubscriptionEnds(t) ==
    /\ Running /\ subscription[t] = "ending"
    /\ subscription' = [subscription EXCEPT ![t] = "closed"]
    /\ UNCHANGED <<kind, mainVars, sent, deliveryCh, loop, worker, settled, skipped>>

(* A delivery that was not settled is visible again after a while.           *)
Redeliver(t) ==
    /\ Running /\ subscription[t] = "open"
    /\ Len(deliveryCh[t]) < 2 * BatchSize
    /\ \E d \in skipped[t] :
          /\ ~Contains(settled[t], d) /\ ~Contains(deliveryCh[t], d)
          /\ ~Contains(worker[t][d[1]].buffer, d) /\ worker[t][d[1]].busy # d[2]
          /\ deliveryCh' = [deliveryCh EXCEPT ![t] = Append(@, d)]
    /\ UNCHANGED <<kind, mainVars, subscription, sent, loop, worker, settled, skipped>>

(* What is written to the queue needs a live context and an open database, and
   may fail all the same: that is logged, and the worker goes on.           *)
CanSettle(t) == t \notin cancelled /\ database = "open"
Settle(t, d) ==
    \/ settled' = [settled EXCEPT ![t] = IF CanSettle(t) THEN Append(@, d) ELSE @] /\ UNCHANGED skipped
    \/ /\ CanSettle(t) /\ \A u \in Sample : Cardinality(skipped[u]) < MaxSkipped
       /\ skipped' = [skipped EXCEPT ![t] = @ \cup {d}]
       /\ UNCHANGED settled

(* consumeLoop: a misfit is rejected at once; any other delivery goes to its
   partition's channel, whose worker is started by the first one. A full
   channel holds the loop back.                                             *)
RejectMisfit(t) ==
    /\ Running /\ loop[t] = "running" /\ deliveryCh[t] # <<>>
    /\ deliveryCh[t][1] \in Misfit
    /\ deliveryCh' = [deliveryCh EXCEPT ![t] = Tail(@)]
    /\ Settle(t, deliveryCh[t][1])
    /\ UNCHANGED <<kind, mainVars, sent, subscription, loop, worker>>
(* Mutant: a delivery its partition has no room for is let go.              *)
DispatchOrDrop(t) ==
    LET d == Head(deliveryCh[t])
        p == d[1]
    IN  /\ Running /\ loop[t] = "running" /\ deliveryCh[t] # <<>>
        /\ d \notin Misfit
        /\ deliveryCh' = [deliveryCh EXCEPT ![t] = Tail(@)]
        /\ worker' = IF Len(worker[t][p].buffer) = BatchSize THEN worker
                     ELSE [worker EXCEPT ![t][p] =
                             [buffer |-> Append(@.buffer, d), busy |-> @.busy,
                              up |-> @.up \/ ~@.started, started |-> TRUE]]
        /\ UNCHANGED <<kind, mainVars, sent, subscription, loop, settled, skipped>>
Dispatch(t) ==
    LET d == Head(deliveryCh[t])
        p == d[1]
    IN  /\ Running /\ loop[t] = "running" /\ deliveryCh[t] # <<>>
        /\ d \notin Misfit
        /\ Len(worker[t][p].buffer) < BatchSize
        /\ deliveryCh' = [deliveryCh EXCEPT ![t] = Tail(@)]
        /\ worker' = [worker EXCEPT ![t][p] =
                         [buffer |-> Append(@.buffer, d), busy |-> @.busy,
                          up |-> @.up \/ ~@.started, started |-> TRUE]]
        /\ UNCHANGED <<kind, mainVars, sent, subscription, loop, settled, skipped>>
(* The loop ends on its cancelled context, or on the closed channel once it
   is empty; then the partition channels are closed (shutdownPartitions).   *)
LoopEnds(t) ==
    /\ Running /\ loop[t] = "running"
    /\ \/ t \in cancelled
       \/ subscription[t] = "closed" /\ deliveryCh[t] = <<>>
    /\ loop' = [loop EXCEPT ![t] = "draining"]
    /\ UNCHANGED <<kind, mainVars, sent, subscription, deliveryCh, worker, settled, skipped>>
(* Mutant: the loop reports itself done without waiting for its workers.    *)
LoopDoneEarly(t) ==
    /\ Running /\ loop[t] = "draining"
    /\ loop' = [loop EXCEPT ![t] = "done"]
    /\ UNCHANGED <<kind, mainVars, sent, subscription, deliveryCh, worker, settled, skipped>>
LoopDone(t) ==
    /\ Running /\ loop[t] = "draining"
    /\ \A p \in Partition(t) : ~worker[t][p].up
    /\ loop' = [loop EXCEPT ![t] = "done"]
    /\ UNCHANGED <<kind, mainVars, sent, subscription, deliveryCh, worker, settled, skipped>>

(* processPartition: the next delivery is taken when the last is over; a
   cancelled context drops what was taken and ends the worker, a closed and
   empty channel ends it too.                                               *)
TakeNext(t, p) ==
    LET w == worker[t][p]
    IN  /\ Running /\ w.up /\ w.busy = 0 /\ w.buffer # <<>>
        /\ worker' = [worker EXCEPT ![t][p] =
                         IF t \in cancelled
                         THEN [w EXCEPT !.buffer = Tail(@), !.up = FALSE]
                         ELSE [w EXCEPT !.buffer = Tail(@), !.busy = Head(w.buffer)[2]]]
        /\ UNCHANGED <<kind, mainVars, sent, subscription, deliveryCh, loop, settled, skipped>>
WorkerEnds(t, p) ==
    LET w == worker[t][p]
    IN  /\ Running /\ w.up /\ w.busy = 0 /\ w.buffer = <<>> /\ loop[t] = "draining"
        /\ worker' = [worker EXCEPT ![t][p].up = FALSE]
        /\ UNCHANGED <<kind, mainVars, sent, subscription, deliveryCh, loop, settled, skipped>>
(* The controller returns, in its own time or never, and the delivery is
   acked, nacked, rejected or postponed.                                    *)
Finish(t, p) ==
    /\ Running /\ worker[t][p].busy # 0
    /\ worker' = [worker EXCEPT ![t][p].busy = 0]
    /\ Settle(t, <<p, worker[t][p].busy>>)
    /\ UNCHANGED <<kind, mainVars, sent, subscription, deliveryCh, loop>>

(* The exit code: 143 for an error that is the cancelled context's, 1 for any
   other. A failed shutdown takes the place of the context's error, except in
   Stovepipe's main, which joins the two.                                   *)
Troubled == failed # <<>> \/ late # {}
RunwayExit == IF Troubled THEN 1 ELSE 143
GatewayExit == IF Troubled THEN 1 ELSE 143
OrchestratorExit == IF Troubled THEN 1 ELSE 143
StovepipeExit == IF signalled THEN 143 ELSE 1
(* Mutant: the error of the last consumer stopped is the one returned.      *)
ExitCodeOfServer(k) == IF signalled THEN 143 ELSE 1
ExitCode(k) == CASE k = "runway" -> RunwayExit [] k = "gateway" -> GatewayExit
                 [] k = "stovepipe" -> StovepipeExit [] OTHER -> OrchestratorExit

Main ==
    \/ Open \/ Subscribe \/ Listen \/ GracefulStop \/ CancelSubscription \/ AwaitLoop
    \/ AwaitTimeout \/ EndSubscription \/ AwaitEnd \/ CloseDatabase \/ Exit
Trouble == Fail("open") \/ Fail("subscribe") \/ Fail("listen") \/ ServerError
Flow(t) ==
    \/ Deliver(t) \/ Redeliver(t) \/ SubscriptionEnds(t) \/ RejectMisfit(t) \/ Dispatch(t) \/ LoopEnds(t) \/ LoopDone(t)
    \/ \E p \in Partition(t) : TakeNext(t, p) \/ WorkerEnds(t, p) \/ Finish(t, p)

ServiceNext == Main \/ Trouble \/ Signal \/ \E t \in Sample : Flow(t)
(* The main goroutine is scheduled, and its timers fire; a controller need
   not ever return.                                                         *)
ServiceSpec == ServiceInit /\ [][ServiceNext]_serviceVars /\ WF_serviceVars(Main)
-----------------------------------------------------------------------------
ServiceTypeOK ==
    /\ kind \in Kinds
    /\ cancelled \subseteq Sample /\ late \subseteq Sample
    /\ \A t \in Sample :
          /\ subscription[t] \in {"none", "open", "ending", "closed"}
          /\ loop[t] \in {"none", "running", "draining", "done"}
          /\ Len(deliveryCh[t]) =< 2 * BatchSize
          /\ \A p \in Partition(t) : Len(worker[t][p].buffer) =< BatchSize

Busy(t) == \E p \in Partition(t) : worker[t][p].busy # 0

(* What a stop leaves of a partition is a suffix: the deliveries settled by
   its worker are the first ones it was sent, never one behind a delivery
   that was dropped, and none twice.  The exception is a delivery whose Ack,
   Nack, Reject or Postpone failed under a live context: that is logged and
   the next one is settled ahead of it, and it is settled, if at all, after
   it was delivered again (consumer.go:493-505, 528-540, 551-561, 576-586).  *)
SettledInOrder ==
    \A t \in Sample : \A p \in Partition(t) :
        LET Mine(d) == d[1] = p /\ d \notin Misfit \cup skipped[t]
        IN  /\ IsPrefix(SelectSeq(settled[t], Mine), SelectSeq(Feed[t], Mine))
            /\ Cardinality(Range(settled[t])) = Len(settled[t])

Failures(name) == {i \in DOMAIN failed : failed[i][1] = name}
(* A service that came up closes its databases over a working controller
   only if a Stop ran out of time: Stop returns when the loops are done, and
   a loop is done when its workers are.                                     *)
QuietClose ==
    database = "closed" /\ Failures("subscribe") = {} /\ Failures("listen") = {} /\ late = {}
        => \A t \in Sample : ~Busy(t)

(* "no half-started state": where start-up rolls back (the lifecycle group,
   Stovepipe's main), a failed subscription leaves no loop running when the
   queue is closed, whichever consumer it was in; Start itself leaves none
   of its own anywhere.                                                     *)
NoHalfStart ==
    \A i \in Failures("subscribe") :
        LET own == IF Contains(Primary(kind), failed[i][2]) THEN Primary(kind) ELSE DLQ(kind)
            all == IF kind \in {"stovepipe", "orchestrator"} THEN Sample ELSE Range(own)
        IN  Doing("end") \/ Doing("awaitEnd") \/ Doing("closeDatabase")
                => \A t \in all : loop[t] \in {"none", "done"} \/ t \in late

(* Every topic a service of the submit queue publishes to is consumed by one
   of them, and a service's own topics each by one consumer: the names in
   the gateway's, the orchestrator's and Runway's tables fit together.      *)
Wired ==
    LET domain == IF kind = "stovepipe" THEN {"stovepipe"} ELSE {"gateway", "orchestrator", "runway"}
    IN  \A t \in Publishes(kind) :
            \E k \in domain : Contains(Topics(k), t) /\ \A j \in domain \ {k} : ~Contains(Topics(j), t)

(* A signal, or a failure of main's, ends the process, however long a
   controller takes.                                                        *)
StopsInTheEnd == (signalled \/ failed # <<>>) ~> ~Running

(* A supervisor can tell a shutdown that failed from one that was asked for:
   the process says 143 only if every Stop came to its end. Stovepipe's main
   does not keep to this; the rest do.                                      *)
ExitSaysSo(k) == ~Running /\ late # {} => ExitCode(k) = 1
ExitTellsFailure == kind # "stovepipe" => ExitSaysSo(kind)
(* The same of Stovepipe, whose main says the signal's error "may be
   overridden".                                                             *)
StovepipeExitTellsFailure == kind = "stovepipe" => ExitSaysSo(kind)

(* What lifecycle.Component asks of its hosts: what was started is stopped
   before what it runs on is closed.                                        *)
StartedIsStopped == database = "closed" /\ late = {} => \A t \in Sample : ~Busy(t)
=============================================================================
