----------------------------- MODULE MCConsuming -----------------------------
(***************************************************************************)
(* What consuming from the MySQL queue comes to in the end, in its two      *)
(* parts: the deliveries of one partition, and the leases on partitions of  *)
(* one consumer group.  A behaviour is one of a single part, and the        *)
(* variables of the other are not used (0).                                 *)
(***************************************************************************)
EXTENDS Integers, TLC

VARIABLES part,
    (* SqlQueue *)
    rows, txs, next, dlq, marked, mark, ds, grip, out, phase, inited, batch, target, log, settled, faults,
    (* Leases *)
    stored, lease, beat, pc, workers, seen, mine, todo, room, idle, graced, lost, trouble

delivering == <<rows, txs, next, dlq, marked, mark, ds, grip, out, phase, inited, batch, target, log,
                settled, faults>>
leasing == <<stored, lease, beat, pc, workers, seen, mine, todo, room, idle, graced, lost, trouble>>
all == <<part, delivering, leasing>>

\* One subscriber, two messages, two attempts at each.
D == INSTANCE SqlQueue WITH
        lease <- grip, pc <- phase,
        Id <- {"m1", "m2"}, Group <- {"g"}, Worker <- {"w"}, GroupOf <- ("w" :> "g"),
        BatchSize <- 1, MaxAttempts <- 1, DLQEnabled <- TRUE, Overlapping <- FALSE, Started <- {},
        Outcomes <- {"ack", "nack", "extend", "drop"}, Drains <- FALSE, MaxOffset <- 2, MaxFaults <- 0
\* Two subscribers and three partitions.
L == INSTANCE Leases WITH Sub <- 1..2, Partition <- 1..3, Filled <- {1..3}, MaxTrouble <- 1

Unused ==
    /\ part # "delivering" => /\ rows = 0 /\ txs = 0 /\ next = 0 /\ dlq = 0 /\ marked = 0 /\ mark = 0
                              /\ ds = 0 /\ grip = 0 /\ out = 0 /\ phase = 0 /\ inited = 0 /\ batch = 0
                              /\ target = 0 /\ log = 0 /\ settled = 0 /\ faults = 0
    /\ part # "leasing" => /\ stored = 0 /\ lease = 0 /\ beat = 0 /\ pc = 0 /\ workers = 0 /\ seen = 0
                           /\ mine = 0 /\ todo = 0 /\ room = 0 /\ idle = 0 /\ graced = 0 /\ lost = 0
                           /\ trouble = 0

Init ==
    /\ part \in {"delivering", "leasing"}
    /\ Unused
    /\ part = "delivering" => D!Init
    /\ part = "leasing" => L!LeasesInit

\* A step of one part.
Delivering(A) == part = "delivering" /\ A /\ UNCHANGED <<part, leasing>>
Leasing(A) == part = "leasing" /\ A /\ UNCHANGED <<part, delivering>>

Next == Delivering(D!Next) \/ Leasing(L!LeasesNext)

\* Each part's own fairness.
Fairness ==
    /\ SF_all(Delivering(D!GarbageCollect("w")))
    /\ WF_all(Delivering(D!PollStep("w"))) /\ WF_all(Delivering(D!TryAcquireLease("w")))
    /\ WF_all(Delivering(D!StopPartitionWorker("w")))
    /\ \A o \in 1..2 : WF_all(Delivering(D!Lapse("g", o)))
    /\ \A d \in D!Delivery : WF_all(Delivering(d \in out /\ D!Finish(d)))
    /\ \A id \in {"m1", "m2"} : WF_all(Delivering(D!DrainDLQ(id)))
    /\ \A s \in 1..2 :
          /\ SF_all(Leasing(L!Discover(s, FALSE))) /\ SF_all(Leasing(L!LeaseTick(s)))
          /\ WF_all(Leasing(L!Supervise(s))) /\ WF_all(Leasing(\E p \in 1..3 : L!GracePasses(s, p)))

Spec == Init /\ [][Next]_all /\ Fairness
-----------------------------------------------------------------------------
\* A partition's worker runs without its subscriber's lease only when the lease
\* lapsed under it or is just being given up (processLeases).
WorkersHoldLeases == part = "leasing" => L!LeasesTypeOK /\ L!WorkersHoldLeases

\* No message stays in the log for ever: each is settled and collected
\* (MarkDelivered, AdvanceWatermark, GarbageCollect), with a consumer that does
\* not postpone it for ever; and a group settles on fair shares once troubles
\* end (fairShareCap, acquireUnowned, rebalance).
ConsumptionSettles ==
    /\ \A r \in D!Row : []<>(part = "delivering" => r \notin rows)
    /\ <>[](part = "leasing" => L!Settled)
=============================================================================
