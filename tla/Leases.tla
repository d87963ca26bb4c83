------------------------------- MODULE Leases -------------------------------
(***************************************************************************)
(* How the subscribers of one consumer group share the partitions of a      *)
(* topic (platform/extension/messagequeue/mysql/subscriber.go): each runs   *)
(* one supervisor, managePartitions, which discovers partitions, acquires   *)
(* leases up to its fair share, starts and stops a worker per lease, sheds  *)
(* what exceeds its share, renews the rest and heartbeats.                  *)
(*                                                                          *)
(* The reads of a tick are one step and every statement that writes is a    *)
(* step of its own.  Time is the staleness of a lease and of a heartbeat,   *)
(* and the grace of a drained partition; those of a subscriber that is      *)
(* running lapse only as a counted fault (a pause longer than a lease).     *)
(* Tenants are independent of each other and one is modelled.               *)
(***************************************************************************)
EXTENDS Naturals, FiniteSets, FiniteSetsExt

CONSTANTS
    Sub,         \* subscribers, numbered in the order of their names
    Partition,   \* partition keys, numbered in their order
    Filled,      \* the sets of partitions that may hold messages at first
    MaxTrouble   \* bound on failed calls, lapses, stops, crashes, orphan sweeps
                 \* and partitions filled or drained

VARIABLES
    stored,      \* partitions with rows in the messages table
    lease,       \* [Partition -> [by : subscriber or 0, fresh : BOOLEAN]]
    beat,        \* [Sub -> the row of its heartbeat: none, fresh or stale]
    pc,          \* [Sub -> where its supervisor is]
    workers,     \* [Sub -> partitions it runs a worker for]
    seen,        \* [Sub -> lastDiscoveredPartitions]
    mine,        \* [Sub -> partitions the tick took as its own]
    todo,        \* [Sub -> partitions left to acquire or to shed]
    room,        \* [Sub -> the cap of the tick, 0 for none]
    idle,        \* [Sub -> keys of drainedSince]
    graced,      \* [Sub -> those drained for longer than the grace]
    lost,        \* pairs whose lease lapsed since the subscriber last renewed it
    trouble      \* how many of the bounded events have happened

shared   == <<stored, lease, beat>>
tick     == <<mine, todo, room>>
local    == <<pc, workers, seen, tick, idle, graced>>
leaseVars == <<shared, local, lost, trouble>>

NoLease == [by |-> 0, fresh |-> FALSE]

----------------------------------------------------------------------------
(* The lease and heartbeat stores.                                          *)

DiscoverPartitions == stored
GetLeasedPartitions(s) == {p \in Partition : lease[p].by = s}
ActiveSubscribers == {s \in Sub : beat[s] = "fresh"}

\* Mutant: a lease is taken over whether or not it is stale.
TryAcquireAny(s, p) == [lease EXCEPT ![p] = [by |-> s, fresh |-> TRUE]]

\* One INSERT ... ON DUPLICATE KEY UPDATE: a free or stale lease changes hands.
TryAcquireLease(s, p) ==
    [lease EXCEPT ![p] = IF @.by = 0 \/ ~@.fresh THEN [by |-> s, fresh |-> TRUE] ELSE @]

ReleaseLeases(s, ps) ==
    [p \in Partition |-> IF p \in ps /\ lease[p].by = s THEN NoLease ELSE lease[p]]

\* Renewal does not look at the age: a stale lease still held is renewed.
RenewOwnedLeases(s) ==
    [p \in Partition |-> IF lease[p].by = s THEN [lease[p] EXCEPT !.fresh = TRUE] ELSE lease[p]]

PurgeStaleLeases == [p \in Partition |-> IF lease[p].fresh THEN lease[p] ELSE NoLease]
PurgeStaleBeats(b) == [s \in Sub |-> IF b[s] = "stale" THEN "none" ELSE b[s]]

----------------------------------------------------------------------------
(* Fair share.                                                              *)

PartitionUniverse(owned, discovered) == owned \cup discovered

\* Zero is no cap.  A subscriber that does not see its own heartbeat counts
\* itself as one more contender.
FairShareCap(s, owned, discovered) ==
    LET P    == Cardinality(PartitionUniverse(owned, discovered))
        n    == Cardinality(ActiveSubscribers)
        rank == Cardinality({x \in ActiveSubscribers : x < s})
        part == IF s \notin ActiveSubscribers THEN (P + n) \div (n + 1)
                ELSE (P \div n) + (IF rank < P % n THEN 1 ELSE 0)
    IN IF n <= 1 THEN 0 ELSE Max({1, part})

\* rebalance: the owned partitions past the cap, in key order.
Excess(owned, cap) ==
    IF cap = 0 THEN {}
    ELSE {p \in owned : Cardinality({q \in owned : q < p}) >= cap}

----------------------------------------------------------------------------
(* Starting and stopping a subscription.                                    *)

Trouble == trouble < MaxTrouble /\ trouble' = trouble + 1
Smooth  == UNCHANGED trouble

LeasesInit ==
    /\ stored \in Filled
    /\ lease = [p \in Partition |-> NoLease]
    /\ beat = [s \in Sub |-> "none"]
    /\ pc = [s \in Sub |-> "down"]
    /\ workers = [s \in Sub |-> {}] /\ seen = [s \in Sub |-> {}]
    /\ mine = [s \in Sub |-> {}] /\ todo = [s \in Sub |-> {}]
    /\ room = [s \in Sub |-> 0]
    /\ idle = [s \in Sub |-> {}] /\ graced = [s \in Sub |-> {}]
    /\ lost = {} /\ trouble = 0

\* The supervisor starts with a heartbeat, whose failure is only logged.
Subscribe(s) ==
    /\ pc[s] = "down"
    /\ pc' = [pc EXCEPT ![s] = "idle"]
    /\ \/ beat' = [beat EXCEPT ![s] = "fresh"] /\ Smooth
       \/ Trouble /\ UNCHANGED beat
    /\ UNCHANGED <<stored, lease, workers, seen, tick, idle, graced, lost>>

\* What a supervisor knows ends with it.
Forget(s) ==
    /\ workers' = [workers EXCEPT ![s] = {}]
    /\ seen' = [seen EXCEPT ![s] = {}]
    /\ mine' = [mine EXCEPT ![s] = {}]
    /\ todo' = [todo EXCEPT ![s] = {}]
    /\ room' = [room EXCEPT ![s] = 0]
    /\ idle' = [idle EXCEPT ![s] = {}]
    /\ graced' = [graced EXCEPT ![s] = {}]

\* ctx.Done: the workers are stopped first, then the leases are released and
\* the heartbeat deleted, each as well as it goes.
Shutdown(s) ==
    /\ pc[s] = "idle"
    /\ Trouble
    /\ pc' = [pc EXCEPT ![s] = "closing"]
    /\ Forget(s)
    /\ UNCHANGED <<shared, lost>>

ReleaseAllLeases(s) ==
    /\ pc[s] = "closing"
    /\ pc' = [pc EXCEPT ![s] = "down"]
    /\ \/ /\ lease' = ReleaseLeases(s, Partition)
          /\ beat' = [beat EXCEPT ![s] = "none"]
          /\ Smooth
       \/ Trouble /\ UNCHANGED <<lease, beat>>
    /\ UNCHANGED <<stored, workers, seen, tick, idle, graced, lost>>

Crash(s) ==
    /\ pc[s] # "down"
    /\ Trouble
    /\ pc' = [pc EXCEPT ![s] = "down"]
    /\ Forget(s)
    /\ UNCHANGED <<shared, lost>>

----------------------------------------------------------------------------
(* A discovery tick.                                                        *)

\* The first reads fail: the tick reconciles against no leases at all and
\* stops every worker; the leases stay.
DiscoverFails(s) ==
    /\ pc[s] = "idle"
    /\ Trouble
    /\ workers' = [workers EXCEPT ![s] = {}]
    /\ UNCHANGED <<shared, pc, seen, tick, idle, graced, lost>>

\* Partitions neither ours nor held by another, in the order of their keys.
Unowned(s, discovered) ==
    {p \in discovered : lease[p].by # s /\ (lease[p].by = 0 \/ ~lease[p].fresh)}

\* Uncapped, the tick is an orphan sweep.  The later reads may fail, and then
\* the tick acquires nothing.
Discover(s, uncapped) ==
    /\ pc[s] = "idle"
    /\ pc' = [pc EXCEPT ![s] = "acquire"]
    /\ seen' = [seen EXCEPT ![s] = DiscoverPartitions]
    /\ mine' = [mine EXCEPT ![s] = GetLeasedPartitions(s)]
    /\ room' = [room EXCEPT ![s] = IF uncapped THEN 0
                   ELSE FairShareCap(s, GetLeasedPartitions(s), DiscoverPartitions)]
    /\ \/ /\ todo' = [todo EXCEPT ![s] = Unowned(s, DiscoverPartitions)]
          /\ IF uncapped THEN Trouble ELSE Smooth
       \/ todo' = [todo EXCEPT ![s] = {}] /\ Trouble
    /\ UNCHANGED <<shared, workers, idle, graced, lost>>

\* acquireUnownedPartitions takes the partitions in order until the cap.
AcquireUnowned(s) ==
    /\ pc[s] = "acquire" /\ todo[s] # {}
    /\ LET p == Min(todo[s])
           full == room[s] > 0 /\ Cardinality(mine[s]) >= room[s]
       IN IF full
          THEN /\ todo' = [todo EXCEPT ![s] = {}]
               /\ Smooth /\ UNCHANGED <<lease, mine>>
          ELSE /\ todo' = [todo EXCEPT ![s] = @ \ {p}]
               /\ \/ /\ lease' = TryAcquireLease(s, p)
                     /\ mine' = IF lease'[p].by = s THEN [mine EXCEPT ![s] = @ \cup {p}] ELSE mine
                     /\ Smooth
                  \/ Trouble /\ UNCHANGED <<lease, mine>>
    /\ lost' = lost \ {<<s, p>> : p \in {q \in Partition : lease'[q] # lease[q]}}
    /\ UNCHANGED <<stored, beat, pc, workers, seen, room, idle, graced>>

\* updateDrainedTracking: owned and not discovered; its clock carries over.
Drained(s) == mine[s] \ seen[s]
Expired(s) == Drained(s) \cap graced[s]

\* A partition seen with messages, or no longer owned, is not tracked.
Grace(s, released) == (graced[s] \cap Drained(s)) \ released

\* reconcilePartitionWorkers: the workers become those of the leases.  The
\* drained ones are released before that, or keep their lease when it fails.
Reconcile(s) ==
    /\ pc[s] = "acquire" /\ todo[s] = {}
    /\ pc' = [pc EXCEPT ![s] = "idle"]
    /\ \E released \in {Expired(s), {}} :
          /\ IF released = Expired(s) THEN Smooth ELSE Trouble
          /\ lease' = ReleaseLeases(s, released)
          /\ workers' = [workers EXCEPT ![s] = mine[s] \ released]
          /\ idle' = [idle EXCEPT ![s] = Drained(s) \ released]
          /\ graced' = [graced EXCEPT ![s] = Grace(s, released)]
          /\ lost' = {l \in lost : l[1] # s \/ l[2] \in mine[s] \ released}
    /\ mine' = [mine EXCEPT ![s] = {}]
    /\ room' = [room EXCEPT ![s] = 0]
    /\ UNCHANGED <<stored, beat, seen, todo>>

----------------------------------------------------------------------------
(* A lease tick.                                                            *)

\* The reads may fail, and then nothing is shed.
LeaseTick(s) ==
    /\ pc[s] = "idle"
    /\ pc' = [pc EXCEPT ![s] = "shed"]
    /\ LET owned == GetLeasedPartitions(s)
       IN \/ /\ todo' = [todo EXCEPT ![s] = Excess(owned, FairShareCap(s, owned, seen[s]))]
             /\ Smooth
          \/ todo' = [todo EXCEPT ![s] = {}] /\ Trouble
    /\ UNCHANGED <<shared, workers, seen, mine, room, idle, graced, lost>>

\* The lease is given up before its worker is stopped.
Shed(s) ==
    /\ pc[s] = "shed" /\ todo[s] # {}
    /\ LET p == Min(todo[s])
       IN \/ /\ lease' = ReleaseLeases(s, {p})
             /\ pc' = [pc EXCEPT ![s] = "stop"]
             /\ Smooth /\ UNCHANGED todo
          \/ /\ Trouble
             /\ todo' = [todo EXCEPT ![s] = {}]
             /\ UNCHANGED <<lease, pc>>
    /\ UNCHANGED <<stored, beat, workers, seen, mine, room, idle, graced, lost>>

\* Mutant: the worker of a shed partition runs on.
StopPartitionWorkerNever(s, p) == workers

StopPartitionWorker(s, p) == [workers EXCEPT ![s] = @ \ {p}]

StopShed(s) ==
    /\ pc[s] = "stop"
    /\ pc' = [pc EXCEPT ![s] = "shed"]
    /\ LET p == Min(todo[s])
       IN /\ workers' = StopPartitionWorker(s, p)
          /\ todo' = [todo EXCEPT ![s] = @ \ {p}]
          /\ lost' = lost \ {<<s, p>>}
    /\ Smooth
    /\ UNCHANGED <<shared, seen, mine, room, idle, graced>>

Renew(s) ==
    /\ pc[s] = "shed" /\ todo[s] = {}
    /\ pc' = [pc EXCEPT ![s] = "beat"]
    /\ \/ /\ lease' = RenewOwnedLeases(s)
          /\ lost' = {l \in lost : l[1] # s \/ lease[l[2]].by # s}
          /\ Smooth
       \/ Trouble /\ UNCHANGED <<lease, lost>>
    /\ UNCHANGED <<stored, beat, workers, seen, tick, idle, graced>>

\* Mutant: the heartbeat is written once, when the subscription starts.
HeartbeatNever(s) == beat

Heartbeat(s) == [beat EXCEPT ![s] = "fresh"]

\* The heartbeat, then the purge of rows stale for ten lease durations.
SendHeartbeats(s) ==
    /\ pc[s] = "beat"
    /\ pc' = [pc EXCEPT ![s] = "idle"]
    /\ \E old \in BOOLEAN :
          /\ lease' = IF old THEN PurgeStaleLeases ELSE lease
          /\ \/ /\ beat' = IF old THEN PurgeStaleBeats(Heartbeat(s)) ELSE Heartbeat(s)
                /\ Smooth
             \/ /\ Trouble
                /\ beat' = IF old THEN PurgeStaleBeats(beat) ELSE beat
    /\ UNCHANGED <<stored, workers, seen, tick, idle, graced, lost>>

----------------------------------------------------------------------------
(* Time and messages.                                                       *)

Running(s) == pc[s] # "down"

\* A lease no running subscriber renews lapses in the end.
LeaseLapses(p) ==
    /\ lease[p].fresh
    /\ IF Running(lease[p].by) THEN Trouble ELSE Smooth
    /\ lease' = [lease EXCEPT ![p].fresh = FALSE]
    /\ lost' = lost \cup {<<lease[p].by, p>>}
    /\ UNCHANGED <<stored, beat, local>>

HeartbeatLapses(s) ==
    /\ beat[s] = "fresh"
    /\ IF Running(s) THEN Trouble ELSE Smooth
    /\ beat' = [beat EXCEPT ![s] = "stale"]
    /\ UNCHANGED <<stored, lease, local, lost>>

GracePasses(s, p) ==
    /\ p \in idle[s] \ graced[s]
    /\ graced' = [graced EXCEPT ![s] = @ \cup {p}]
    /\ UNCHANGED <<shared, pc, workers, seen, tick, idle, lost, trouble>>

\* A message is published into an empty partition, or the last one of a
\* partition is garbage-collected.
Refill(p) ==
    /\ Trouble
    /\ stored' = (stored \cup {p}) \ (stored \cap {p})
    /\ UNCHANGED <<lease, beat, local, lost>>

LeasesNext ==
    \/ \E s \in Sub :
          \/ Subscribe(s) \/ Shutdown(s) \/ ReleaseAllLeases(s) \/ Crash(s)
          \/ DiscoverFails(s) \/ Discover(s, TRUE) \/ Discover(s, FALSE)
          \/ AcquireUnowned(s) \/ Reconcile(s)
          \/ LeaseTick(s) \/ Shed(s) \/ StopShed(s) \/ Renew(s) \/ SendHeartbeats(s)
          \/ HeartbeatLapses(s)
          \/ \E p \in Partition : GracePasses(s, p)
    \/ \E p \in Partition : LeaseLapses(p) \/ Refill(p)

\* Both tickers keep firing, so neither kind of tick is passed over for ever;
\* a started tick ends, time passes, and a stopped subscriber is restarted.
Supervise(s) ==
    \/ Subscribe(s) \/ AcquireUnowned(s) \/ Reconcile(s) \/ Shed(s) \/ StopShed(s)
    \/ Renew(s) \/ SendHeartbeats(s) \/ ReleaseAllLeases(s)

LeasesFairness ==
    \A s \in Sub :
        /\ SF_leaseVars(Discover(s, FALSE)) /\ SF_leaseVars(LeaseTick(s))
        /\ WF_leaseVars(Supervise(s)) /\ WF_leaseVars(\E p \in Partition : GracePasses(s, p))

LeasesSpec == LeasesInit /\ [][LeasesNext]_leaseVars /\ LeasesFairness

----------------------------------------------------------------------------
(* Properties.                                                              *)

LeasesTypeOK ==
    /\ stored \subseteq Partition
    /\ lease \in [Partition -> [by : Sub \cup {0}, fresh : BOOLEAN]]
    /\ beat \in [Sub -> {"none", "fresh", "stale"}]
    /\ pc \in [Sub -> {"down", "idle", "acquire", "shed", "stop", "beat", "closing"}]
    /\ {workers, seen, mine, todo, idle, graced} \subseteq [Sub -> SUBSET Partition]
    /\ room \in [Sub -> 0..Cardinality(Partition)]
    /\ lost \subseteq Sub \X Partition

\* A worker runs without its subscriber holding the lease only when the lease
\* lapsed under it, or in the moment between giving the lease up and stopping
\* the worker: so two subscribers work on a partition only then.
WorkersHoldLeases ==
    \A s \in Sub : \A p \in workers[s] :
        \/ lease[p].by = s
        \/ <<s, p>> \in lost
        \/ pc[s] = "stop" /\ p = Min(todo[s])

\* What the fair share is for (fairShareCap: "neither a starved subscriber nor
\* a leftover partition is a stable state"): every partition with messages has
\* a worker whose subscriber holds a fresh lease, no subscriber holds more than
\* its share, and a drained partition holds neither lease nor worker.
Settled ==
    /\ \A p \in stored : \E s \in Sub : p \in workers[s] /\ lease[p] = [by |-> s, fresh |-> TRUE]
    /\ \A s \in Sub : Cardinality(GetLeasedPartitions(s)) * Cardinality(Sub)
                          < Cardinality(stored) + Cardinality(Sub)
    /\ \A p \in Partition \ stored : lease[p].by = 0 /\ \A s \in Sub : p \notin workers[s]

\* Once crashes, pauses, sweeps and new partitions end, the group settles and
\* stays settled.
LeasesSettle == <>[]Settled
=============================================================================
