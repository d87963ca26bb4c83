----------------------------- MODULE MCPlatform -----------------------------
(***************************************************************************)
(* Smaller parts of the system, side by side: the life of a service         *)
(* process, the enablement of a queue and the records of a validation       *)
(* request.  A behaviour is one of a single part, and the variables of the  *)
(* others are not used (0).                                                 *)
(***************************************************************************)
EXTENDS Integers, Sequences, Cases

VARIABLES part,
    (* Service *)
    kind, todo, failed, signalled, cancelled, late, subscription, sent, deliveryCh, loop, worker,
    settled, skipped, database,
    (* QueueState *)
    plan, qrow, qlog, qsum, head, caller, stage, staged, status, qfaults,
    (* RequestReads *)
    uri, request, build, logs, summary, listed, fact, index, past, inbox, job, reader, faults

service == <<kind, todo, failed, signalled, cancelled, late, subscription, sent, deliveryCh, loop,
             worker, settled, skipped, database>>
enablement == <<plan, qrow, qlog, qsum, head, caller, stage, staged, status, qfaults>>
records == <<uri, request, build, logs, summary, listed, fact, index, past, inbox, job, reader, faults>>
all == <<part, service, enablement, records>>

S == INSTANCE Service WITH
        Kinds <- {"runway", "stovepipe", "gateway", "orchestrator"}, Sample <- Followed,
        Feed <- Deliveries, Misfit <- Strays, BatchSize <- 1, MaxTrouble <- 1, MaxSkipped <- 1
Q == INSTANCE QueueState WITH
        Call <- {"p", "q"}, Commit <- {"a", "b", "x"}, Ancestors <- Forked, MaxStamp <- 1,
        Plans <- QueuePlans
ASSUME EnablementPlans == Q!QueueStateAssumed

R == INSTANCE RequestReads WITH
        Call <- {"ingest", "again"}, MaxProject <- 2, Resolutions <- Named, PageSize <- 1, MaxFaults <- 1,
        DeadLettered <- {"process", "signal", "record"}

Unused ==
    /\ part # "service" => /\ kind = 0 /\ todo = 0 /\ failed = 0 /\ signalled = 0 /\ cancelled = 0
                           /\ late = 0 /\ subscription = 0 /\ sent = 0 /\ deliveryCh = 0 /\ loop = 0
                           /\ worker = 0 /\ settled = 0 /\ skipped = 0 /\ database = 0
    /\ part # "enablement" => /\ plan = 0 /\ qrow = 0 /\ qlog = 0 /\ qsum = 0 /\ head = 0 /\ caller = 0
                              /\ stage = 0 /\ staged = 0 /\ status = 0 /\ qfaults = 0
    /\ part # "records" => /\ uri = 0 /\ request = 0 /\ build = 0 /\ logs = 0 /\ summary = 0 /\ listed = 0
                           /\ fact = 0 /\ index = 0 /\ past = 0 /\ inbox = 0 /\ job = 0 /\ reader = 0 /\ faults = 0

Init ==
    /\ part \in {"service", "enablement", "records"}
    /\ Unused
    /\ part = "service" => S!ServiceInit
    /\ part = "enablement" => Q!QueueStateInit
    /\ part = "records" => R!ReadsInit

(* A step of one part.                                                      *)
InService(A) == part = "service" /\ A /\ UNCHANGED <<part, enablement, records>>
InEnablement(A) == part = "enablement" /\ A /\ UNCHANGED <<part, service, records>>
InRecords(A) == part = "records" /\ A /\ UNCHANGED <<part, service, enablement>>

Next ==
    \/ InService(S!ServiceNext) \/ InEnablement(Q!QueueStateNext) \/ InRecords(R!ReadsNext)

(* Each part's own fairness.                                                *)
Fairness ==
    /\ WF_all(InService(S!Main))
    /\ \A p \in {"p", "q"} : WF_all(InEnablement(Q!IngestStep(p)))
    /\ \A k \in R!Writer : WF_all(InRecords(R!Writes(k))) /\ WF_all(InRecords(R!Rejected(k) /\ R!Fails(k)))

Spec == Init /\ [][Next]_all /\ Fairness
-----------------------------------------------------------------------------
(* A process starts whole or not at all and stops clean: a failed subscription
   leaves nothing running, what a stop leaves of a partition is a suffix of
   what it was sent but for deliveries whose own settlement failed, a database
   is closed under a working controller only after a Stop that ran out of time,
   every topic published to is consumed by one service, and the exit code tells
   a failure from a stop that was asked for (the mains, lifecycle, consumer.go). *)
ProcessIsOrderly ==
    part = "service" => /\ S!ServiceTypeOK /\ S!NoHalfStart /\ S!SettledInOrder /\ S!QuietClose
                        /\ S!Wired /\ S!ExitTellsFailure

(* A queue's enablement is moved at most once by a call, whether its answer is
   lost or says that it failed, and told alike by row, log and summary: no
   change below the row's version is missing, what a call answered can be read,
   the pipeline's part of the shared row survives, and a commit's status is that
   of the newest change that covers it (queuestate.go, materializer, the status
   walk).                                                                   *)
EnablementIsTrue ==
    part = "enablement" => /\ Q!QueueStateTypeOK /\ Q!DecidedOnce /\ Q!HistoryIsWhole
                           /\ Q!NeverInconsistent /\ Q!AnsweredIsVisible /\ Q!StageIsKept /\ Q!StatusIsTrue

(* What is read of a validation request agrees: a listed request has its
   summary, of the time it is listed under, the summary repeats the log of the
   version it shows, its counts are of stored facts, of all of them unless an
   attempt resolved other projects than one before, and status pages hold every
   project of the start once (PersistLog, persistProjectFacts, the page tokens). *)
RecordsAreTrue ==
    part = "records" => /\ R!ReadsTypeOK /\ R!ListIsConsistent /\ R!SummaryTellsHistory
                        /\ R!CountsFollowFacts /\ R!PagesAreWhole

(* What was begun ends: a signal or a failure of main's ends the process (a
   graceful stop of the server, which has no limit of its own, is taken to end),
   the compare-and-swap loops of an Ingest do not starve, and a request is
   listed and shown in the state and version of its row whichever step of
   whichever writer was repeated, unless the message that would have told it was
   dead-lettered after the request had ended (see RequestReads!Settled).    *)
EverythingEnds ==
    /\ <>[](part = "service" /\ (signalled \/ failed # <<>>) => todo = <<>>)
    /\ \A p \in {"p", "q"} : []<>(part = "enablement" => Q!Ended(p))
    /\ <>[](part = "records" => R!Settled)
=============================================================================
