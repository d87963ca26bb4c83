---------------------------- MODULE LeasesProofs ----------------------------
(***************************************************************************)
(* Proofs about Leases, for any subscribers, partitions and troubles: the   *)
(* types, the fair share among them, and that a worker runs without its     *)
(* subscriber's lease only where the lease lapsed or is being given up.     *)
(***************************************************************************)
EXTENDS Leases, Integers, FiniteSetTheorems, WellFoundedInduction, TLAPS

\* Subscribers and partition keys are numbered, zero is no subscriber, a topic
\* has a partition, and what is stored is stored in partitions.
Numbered ==
    /\ Sub \subseteq Nat \ {0} /\ IsFiniteSet(Sub)
    /\ Partition \subseteq Nat /\ IsFiniteSet(Partition) /\ Partition # {}
    /\ Filled \subseteq SUBSET Partition

Point == {"down", "idle", "acquire", "shed", "stop", "beat", "closing"}

LeaseRow == [by : Sub \cup {0}, fresh : BOOLEAN]

StoreTypes ==
    /\ stored \subseteq Partition
    /\ lease \in [Partition -> LeaseRow]
    /\ beat \in [Sub -> {"none", "fresh", "stale"}]
    /\ lost \subseteq Sub \X Partition

TickTypes ==
    /\ pc \in [Sub -> Point]
    /\ mine \in [Sub -> SUBSET Partition] /\ todo \in [Sub -> SUBSET Partition]
    /\ room \in [Sub -> 0..Cardinality(Partition)]

WorkTypes ==
    /\ workers \in [Sub -> SUBSET Partition] /\ seen \in [Sub -> SUBSET Partition]
    /\ idle \in [Sub -> SUBSET Partition] /\ graced \in [Sub -> SUBSET Partition]

Types == StoreTypes /\ TickTypes /\ WorkTypes

\* Nobody's lease is not fresh, and a stale one has lapsed since its holder
\* last renewed it.
StaleIsLost ==
    \A p \in Partition : IF lease[p].by = 0 THEN ~lease[p].fresh
                         ELSE lease[p].fresh \/ <<lease[p].by, p>> \in lost

\* Of one subscriber: what a discovery tick took as its own was its own, and the
\* tick misses nothing that is; a worker is stopped after its lease is given up; a
\* subscriber that is not running has no workers; and workers hold their leases.
TickIsOwn(s) ==
    pc[s] = "acquire" =>
        /\ GetLeasedPartitions(s) \subseteq mine[s]
        /\ \A p \in mine[s] : lease[p].by = s \/ <<s, p>> \in lost

StopFollows(s) ==
    /\ pc[s] = "stop" => todo[s] # {} /\ lease[Min(todo[s])].by # s
    /\ pc[s] \in {"down", "closing"} => workers[s] = {}

WorkersHold(s) ==
    \A p \in workers[s] : \/ lease[p].by = s
                          \/ <<s, p>> \in lost
                          \/ pc[s] = "stop" /\ p = Min(todo[s])

Orderly(s) == TickIsOwn(s) /\ StopFollows(s) /\ WorkersHold(s)

IInv == Types /\ StaleIsLost /\ \A s \in Sub : Orderly(s)

-----------------------------------------------------------------------------
(* Least keys and fair shares.                                              *)

LEMMA MinOfKeys ==
    ASSUME NEW S \in SUBSET Nat, S # {}
    PROVE  Min(S) \in S
<1> DEFINE R == {ss \in Nat \X Nat : ss[1] < ss[2]}
<1>1. IsWellFoundedOn(R, Nat)
  BY NatLessThanWellFounded DEF OpToRel
<1>2. PICK x \in S : \A y \in S : ~(<<y, x>> \in R)
  <2> HIDE DEF R
  <2> QED BY <1>1, WFMin
<1>3. \A y \in S : x <= y
  <2> TAKE y \in S
  <2>1. <<y, x>> \notin R BY <1>2
  <2>2. x \in Nat /\ y \in Nat OBVIOUS
  <2> QED BY <2>1, <2>2
<1> QED BY <1>3 DEF Min

LEMMA MaxOfTwo ==
    ASSUME NEW n \in Nat
    PROVE  Max({1, n}) \in {1, n} /\ \A x \in {1, n} : x <= Max({1, n})
<1>1. \E x \in {1, n} : \A y \in {1, n} : x >= y
  <2>1. CASE n >= 1 BY <2>1
  <2>2. CASE n < 1 BY <2>2
  <2> QED BY <2>1, <2>2
<1> QED BY <1>1 DEF Max

\* A part of k things shared by n is not more than k, rounded up or not.
LEMMA ShareIsPart ==
    ASSUME NEW k \in Nat, NEW n \in Nat, n >= 2
    PROVE  /\ k \div n \in Nat /\ k % n \in 0..(n - 1)
           /\ k \div n <= k /\ (k % n > 0 => (k \div n) + 1 <= k)
           /\ (k + n) \div (n + 1) \in Nat
           /\ k >= 1 => (k + n) \div (n + 1) <= k
           /\ k = 0 => (k + n) \div (n + 1) = 0
<1>1. /\ k \div n \in Nat /\ k % n \in 0..(n - 1) /\ k = n * (k \div n) + (k % n)
  OBVIOUS
<1>2. /\ (k + n) \div (n + 1) \in Nat /\ (k + n) % (n + 1) \in 0..n
      /\ k + n = (n + 1) * ((k + n) \div (n + 1)) + ((k + n) % (n + 1))
  <2>1. \A a \in Nat, d \in Nat \ {0} : /\ a \div d \in Nat /\ a % d \in 0..(d - 1)
                                        /\ a = d * (a \div d) + (a % d)
    OBVIOUS
  <2>2. k + n \in Nat /\ n + 1 \in Nat \ {0} /\ (n + 1) - 1 = n
    OBVIOUS
  <2> QED BY <2>1, <2>2
<1>3. ASSUME NEW a \in Nat, NEW b \in Nat, NEW q \in Nat, a <= b
      PROVE  a * q <= b * q
  BY <1>3
<1>4. 2 * (k \div n) <= n * (k \div n)
  BY <1>1, <1>3
<1>5. k \div n <= k /\ (k % n > 0 => (k \div n) + 1 <= k)
  BY <1>1, <1>4
<1>6. k >= 1 => (k + n) \div (n + 1) <= k
  <2> DEFINE q == (k + n) \div (n + 1)
  <2> SUFFICES ASSUME k >= 1, q >= k + 1 PROVE FALSE
    BY <1>2
  <2>1. (n + 1) * (k + 1) <= (n + 1) * q
    BY <1>2
  <2>2. (n + 1) * (k + 1) = n * k + n + k + 1
    OBVIOUS
  <2>3. n * k \in Nat
    OBVIOUS
  <2>4. (n + 1) * q <= k + n
    BY <1>2
  <2> QED BY <2>1, <2>2, <2>3, <2>4
<1>7. k = 0 => (k + n) \div (n + 1) = 0
  BY <1>2
<1> QED BY <1>1, <1>2, <1>5, <1>6, <1>7

LEMMA FairShareIsPart ==
    ASSUME Numbered, Types, NEW s \in Sub, NEW owned \in SUBSET Partition,
           NEW discovered \in SUBSET Partition
    PROVE  FairShareCap(s, owned, discovered) \in 0..Cardinality(Partition)
<1> DEFINE P == Cardinality(PartitionUniverse(owned, discovered))
           n == Cardinality(ActiveSubscribers)
           rank == Cardinality({x \in ActiveSubscribers : x < s})
           part == IF s \notin ActiveSubscribers THEN (P + n) \div (n + 1)
                   ELSE (P \div n) + (IF rank < P % n THEN 1 ELSE 0)
<1>1. P \in Nat /\ P <= Cardinality(Partition) /\ Cardinality(Partition) \in Nat \ {0}
  <2>1. PartitionUniverse(owned, discovered) \in SUBSET Partition
    BY DEF PartitionUniverse
  <2> QED BY <2>1, FS_Subset, FS_CardinalityType, FS_EmptySet DEF Numbered
<1>2. n \in Nat
  <2>1. ActiveSubscribers \in SUBSET Sub
    BY DEF ActiveSubscribers
  <2> QED BY <2>1, FS_Subset, FS_CardinalityType DEF Numbered
<1>3. rank \in Nat
  <2>1. {x \in ActiveSubscribers : x < s} \in SUBSET Sub
    BY DEF ActiveSubscribers
  <2> QED BY <2>1, FS_Subset, FS_CardinalityType DEF Numbered
<1>4. FairShareCap(s, owned, discovered) = IF n <= 1 THEN 0 ELSE Max({1, part})
  BY DEF FairShareCap
<1>5. CASE n <= 1
  BY <1>1, <1>4, <1>5
<1>6. CASE n >= 2
  <2> HIDE DEF P, n, rank
  <2>0. /\ P \div n \in Nat /\ P % n \in 0..(n - 1) /\ P \div n <= P
        /\ P % n > 0 => (P \div n) + 1 <= P
        /\ (P + n) \div (n + 1) \in Nat
        /\ P >= 1 => (P + n) \div (n + 1) <= P
        /\ P = 0 => (P + n) \div (n + 1) = 0
    BY <1>1, <1>2, <1>6, ShareIsPart
  <2>1. part \in Nat /\ (part <= P \/ part <= 1)
    <3>1. CASE s \notin ActiveSubscribers
      BY <1>1, <2>0, <3>1
    <3>2. CASE s \in ActiveSubscribers /\ rank < P % n
      <4>1. part = (P \div n) + 1
        BY <3>2
      <4>2. P % n > 0
        BY <1>3, <2>0, <3>2
      <4> QED BY <1>1, <2>0, <4>1, <4>2
    <3>3. CASE s \in ActiveSubscribers /\ ~(rank < P % n)
      <4>1. part = (P \div n) + 0
        BY <3>3
      <4> QED BY <1>1, <2>0, <4>1
    <3> QED BY <3>1, <3>2, <3>3
  <2>2. Max({1, part}) \in {1, part}
    BY <2>1, MaxOfTwo
  <2> HIDE DEF part
  <2> QED BY <1>1, <1>2, <1>4, <1>6, <2>1, <2>2
<1> QED BY <1>2, <1>5, <1>6

-----------------------------------------------------------------------------
(* The types.                                                               *)

LEMMA KeyToDo ==
    ASSUME Numbered, Types, NEW s \in Sub, todo[s] # {}
    PROVE  Min(todo[s]) \in todo[s] /\ Min(todo[s]) \in Partition
<1>1. todo[s] \in SUBSET Partition
  BY DEF Types, TickTypes
<1>2. todo[s] \in SUBSET Nat
  BY <1>1 DEF Numbered
<1> QED BY <1>1, <1>2, MinOfKeys

LEMMA SomePartitions ==
    ASSUME Numbered
    PROVE  Cardinality(Partition) \in Nat /\ 0 \in 0..Cardinality(Partition)
BY FS_CardinalityType DEF Numbered

LEMMA Freshened ==
    ASSUME NEW r \in LeaseRow, NEW b \in BOOLEAN
    PROVE  [r EXCEPT !.fresh = b] = [by |-> r.by, fresh |-> b]
<1>1. r = [by |-> r.by, fresh |-> r.fresh]
  BY DEF LeaseRow
<1> QED BY <1>1

LEMMA NoLeaseIsNobodys ==
    ASSUME Numbered, NEW t \in Sub
    PROVE  NoLease.by # t /\ NoLease.by = 0 /\ NoLease.fresh = FALSE /\ t # 0
BY DEF Numbered, NoLease

\* The statements on the lease table, row by row.
LEMMA ReleaseWrites ==
    ASSUME Types, NEW s \in Sub, NEW ps
    PROVE  /\ ReleaseLeases(s, ps) \in [Partition -> LeaseRow]
           /\ \A p \in Partition : ReleaseLeases(s, ps)[p] =
                 IF p \in ps /\ lease[p].by = s THEN NoLease ELSE lease[p]
<1>1. NoLease \in LeaseRow
  BY DEF NoLease, LeaseRow
<1> QED BY <1>1 DEF ReleaseLeases, Types, StoreTypes

LEMMA AcquireWrites ==
    ASSUME Types, NEW s \in Sub, NEW k \in Partition
    PROVE  /\ TryAcquireLease(s, k) \in [Partition -> LeaseRow]
           /\ \A p \in Partition : TryAcquireLease(s, k)[p] =
                 IF p = k /\ (lease[p].by = 0 \/ ~lease[p].fresh)
                 THEN [by |-> s, fresh |-> TRUE] ELSE lease[p]
<1>1. [by |-> s, fresh |-> TRUE] \in LeaseRow
  BY DEF LeaseRow
<1> QED BY <1>1 DEF TryAcquireLease, Types, StoreTypes

LEMMA RenewWrites ==
    ASSUME Types, NEW s \in Sub
    PROVE  /\ RenewOwnedLeases(s) \in [Partition -> LeaseRow]
           /\ \A p \in Partition : RenewOwnedLeases(s)[p] =
                 IF lease[p].by = s THEN [by |-> s, fresh |-> TRUE] ELSE lease[p]
<1>1. \A p \in Partition : lease[p] \in LeaseRow
  BY DEF Types, StoreTypes
<1>2. ASSUME NEW p \in Partition, lease[p].by = s
      PROVE  [lease[p] EXCEPT !.fresh = TRUE] = [by |-> s, fresh |-> TRUE]
  BY <1>1, <1>2, Freshened
<1>3. [by |-> s, fresh |-> TRUE] \in LeaseRow
  BY DEF LeaseRow
<1> QED BY <1>1, <1>2, <1>3 DEF RenewOwnedLeases

LEMMA PurgeWrites ==
    ASSUME Types
    PROVE  /\ PurgeStaleLeases \in [Partition -> LeaseRow]
           /\ \A p \in Partition : PurgeStaleLeases[p] = IF lease[p].fresh THEN lease[p] ELSE NoLease
<1>1. NoLease \in LeaseRow
  BY DEF NoLease, LeaseRow
<1> QED BY <1>1 DEF PurgeStaleLeases, Types, StoreTypes

LEMMA LapseWrites ==
    ASSUME Types, NEW k \in Partition, lease' = [lease EXCEPT ![k].fresh = FALSE]
    PROVE  /\ lease' \in [Partition -> LeaseRow]
           /\ \A p \in Partition : lease'[p] = IF p = k THEN [by |-> lease[k].by, fresh |-> FALSE]
                                               ELSE lease[p]
<1>1. \A p \in Partition : lease[p] \in LeaseRow
  BY DEF Types, StoreTypes
<1>2. [lease[k] EXCEPT !.fresh = FALSE] = [by |-> lease[k].by, fresh |-> FALSE]
  BY <1>1, Freshened
<1>3. lease' = [p \in Partition |-> IF p = k THEN [by |-> lease[k].by, fresh |-> FALSE] ELSE lease[p]]
  BY <1>2 DEF Types, StoreTypes
<1>4. [by |-> lease[k].by, fresh |-> FALSE] \in LeaseRow
  BY <1>1 DEF LeaseRow
<1> QED BY <1>1, <1>3, <1>4

LEMMA TypesStep ==
    ASSUME Numbered, Types, StaleIsLost, [LeasesNext]_leaseVars
    PROVE  Types'
<1> USE DEF Point, shared, tick, local, leaseVars
<1>1. ASSUME NEW s \in Sub, Subscribe(s) PROVE Types'
  <2>1. StoreTypes'
    BY <1>1 DEF Types, StoreTypes, Subscribe
  <2>2. TickTypes'
    BY <1>1 DEF Types, TickTypes, Subscribe
  <2>3. WorkTypes'
    BY <1>1 DEF Types, WorkTypes, Subscribe
  <2> QED BY <2>1, <2>2, <2>3 DEF Types
<1>2. ASSUME NEW s \in Sub, Shutdown(s) PROVE Types'
  <2>1. StoreTypes'
    BY <1>2 DEF Types, StoreTypes, Shutdown
  <2>2. TickTypes'
    BY <1>2, SomePartitions DEF Types, TickTypes, Shutdown, Forget
  <2>3. WorkTypes'
    BY <1>2 DEF Types, WorkTypes, Shutdown, Forget
  <2> QED BY <2>1, <2>2, <2>3 DEF Types
<1>3. ASSUME NEW s \in Sub, ReleaseAllLeases(s) PROVE Types'
  <2>1. StoreTypes'
    BY <1>3, ReleaseWrites DEF Types, StoreTypes, ReleaseAllLeases
  <2>2. TickTypes'
    BY <1>3 DEF Types, TickTypes, ReleaseAllLeases
  <2>3. WorkTypes'
    BY <1>3 DEF Types, WorkTypes, ReleaseAllLeases
  <2> QED BY <2>1, <2>2, <2>3 DEF Types
<1>4. ASSUME NEW s \in Sub, Crash(s) PROVE Types'
  <2>1. StoreTypes'
    BY <1>4 DEF Types, StoreTypes, Crash
  <2>2. TickTypes'
    BY <1>4, SomePartitions DEF Types, TickTypes, Crash, Forget
  <2>3. WorkTypes'
    BY <1>4 DEF Types, WorkTypes, Crash, Forget
  <2> QED BY <2>1, <2>2, <2>3 DEF Types
<1>5. ASSUME NEW s \in Sub, DiscoverFails(s) PROVE Types'
  <2>1. StoreTypes'
    BY <1>5 DEF Types, StoreTypes, DiscoverFails
  <2>2. TickTypes'
    BY <1>5 DEF Types, TickTypes, DiscoverFails
  <2>3. WorkTypes'
    BY <1>5 DEF Types, WorkTypes, DiscoverFails
  <2> QED BY <2>1, <2>2, <2>3 DEF Types
<1>6. ASSUME NEW s \in Sub, \E u \in BOOLEAN : Discover(s, u) PROVE Types'
  <2>1. StoreTypes'
    BY <1>6 DEF Types, StoreTypes, Discover
  <2>2. TickTypes'
    <3>1. PICK u \in BOOLEAN : Discover(s, u)
      BY <1>6
    <3>2. stored \in SUBSET Partition /\ GetLeasedPartitions(s) \in SUBSET Partition
      BY DEF Types, StoreTypes, GetLeasedPartitions
    <3>3. FairShareCap(s, GetLeasedPartitions(s), stored) \in 0..Cardinality(Partition)
      BY <3>2, FairShareIsPart
    <3>4. room' \in [Sub -> 0..Cardinality(Partition)]
      BY <3>1, <3>3, SomePartitions DEF Discover, DiscoverPartitions, Types, TickTypes
    <3>5. Unowned(s, stored) \in SUBSET Partition
      BY <3>2 DEF Unowned
    <3> QED BY <3>1, <3>2, <3>4, <3>5 DEF Discover, DiscoverPartitions, Types, TickTypes
  <2>3. WorkTypes'
    BY <1>6 DEF Types, WorkTypes, StoreTypes, Discover, DiscoverPartitions
  <2> QED BY <2>1, <2>2, <2>3 DEF Types
<1>7. ASSUME NEW s \in Sub, AcquireUnowned(s) PROVE Types'
  <2>1. StoreTypes'
    BY <1>7, AcquireWrites, KeyToDo DEF Types, StoreTypes, AcquireUnowned
  <2>2. TickTypes'
    BY <1>7, KeyToDo DEF Types, TickTypes, AcquireUnowned
  <2>3. WorkTypes'
    BY <1>7, KeyToDo DEF Types, WorkTypes, AcquireUnowned
  <2> QED BY <2>1, <2>2, <2>3 DEF Types
<1>8. ASSUME NEW s \in Sub, Reconcile(s) PROVE Types'
  <2>1. StoreTypes'
    BY <1>8, ReleaseWrites DEF Types, StoreTypes, Reconcile
  <2>2. TickTypes'
    BY <1>8, SomePartitions DEF Types, TickTypes, Reconcile
  <2>3. WorkTypes'
    BY <1>8 DEF Types, WorkTypes, TickTypes, Reconcile, Drained, Grace
  <2> QED BY <2>1, <2>2, <2>3 DEF Types
<1>9. ASSUME NEW s \in Sub, LeaseTick(s) PROVE Types'
  <2>1. StoreTypes'
    BY <1>9 DEF Types, StoreTypes, LeaseTick
  <2>2. TickTypes'
    BY <1>9 DEF Types, TickTypes, LeaseTick, GetLeasedPartitions, Excess
  <2>3. WorkTypes'
    BY <1>9 DEF Types, WorkTypes, LeaseTick
  <2> QED BY <2>1, <2>2, <2>3 DEF Types
<1>10. ASSUME NEW s \in Sub, Shed(s) PROVE Types'
  <2>1. StoreTypes'
    BY <1>10, ReleaseWrites DEF Types, StoreTypes, Shed
  <2>2. TickTypes'
    BY <1>10 DEF Types, TickTypes, Shed
  <2>3. WorkTypes'
    BY <1>10 DEF Types, WorkTypes, Shed
  <2> QED BY <2>1, <2>2, <2>3 DEF Types
<1>11. ASSUME NEW s \in Sub, StopShed(s) PROVE Types'
  <2>1. StoreTypes'
    BY <1>11 DEF Types, StoreTypes, StopShed
  <2>2. TickTypes'
    BY <1>11 DEF Types, TickTypes, StopShed
  <2>3. WorkTypes'
    BY <1>11 DEF Types, WorkTypes, StopShed, StopPartitionWorker
  <2> QED BY <2>1, <2>2, <2>3 DEF Types
<1>12. ASSUME NEW s \in Sub, Renew(s) PROVE Types'
  <2>1. StoreTypes'
    BY <1>12, RenewWrites DEF Types, StoreTypes, Renew
  <2>2. TickTypes'
    BY <1>12 DEF Types, TickTypes, Renew
  <2>3. WorkTypes'
    BY <1>12 DEF Types, WorkTypes, Renew
  <2> QED BY <2>1, <2>2, <2>3 DEF Types
<1>13. ASSUME NEW s \in Sub, SendHeartbeats(s) PROVE Types'
  <2>1. StoreTypes'
    BY <1>13, PurgeWrites DEF Types, StoreTypes, SendHeartbeats, Heartbeat, PurgeStaleBeats
  <2>2. TickTypes'
    BY <1>13 DEF Types, TickTypes, SendHeartbeats
  <2>3. WorkTypes'
    BY <1>13 DEF Types, WorkTypes, SendHeartbeats
  <2> QED BY <2>1, <2>2, <2>3 DEF Types
<1>14. ASSUME NEW s \in Sub, HeartbeatLapses(s) PROVE Types'
  <2>1. StoreTypes'
    BY <1>14 DEF Types, StoreTypes, HeartbeatLapses
  <2>2. TickTypes'
    BY <1>14 DEF Types, TickTypes, HeartbeatLapses
  <2>3. WorkTypes'
    BY <1>14 DEF Types, WorkTypes, HeartbeatLapses
  <2> QED BY <2>1, <2>2, <2>3 DEF Types
<1>15. ASSUME NEW s \in Sub, \E p \in Partition : GracePasses(s, p) PROVE Types'
  <2>1. StoreTypes'
    BY <1>15 DEF Types, StoreTypes, GracePasses
  <2>2. TickTypes'
    BY <1>15 DEF Types, TickTypes, GracePasses
  <2>3. WorkTypes'
    BY <1>15 DEF Types, WorkTypes, GracePasses
  <2> QED BY <2>1, <2>2, <2>3 DEF Types
<1>16. ASSUME NEW p \in Partition, LeaseLapses(p) PROVE Types'
  <2>1. lease[p].by \in Sub
    BY <1>16 DEF LeaseLapses, StaleIsLost, Types, StoreTypes, LeaseRow
  <2>2. StoreTypes'
    <3>1. lease' = [lease EXCEPT ![p].fresh = FALSE]
      BY <1>16 DEF LeaseLapses
    <3>2. lease' \in [Partition -> LeaseRow]
      BY <3>1, LapseWrites
    <3>3. lost' \subseteq Sub \X Partition
      BY <1>16, <2>1 DEF LeaseLapses, Types, StoreTypes
    <3> QED BY <1>16, <3>2, <3>3 DEF LeaseLapses, Types, StoreTypes
  <2>3. TickTypes' /\ WorkTypes'
    BY <1>16 DEF LeaseLapses, Types, TickTypes, WorkTypes
  <2> QED BY <2>2, <2>3 DEF Types
<1>17. ASSUME NEW p \in Partition, Refill(p) PROVE Types'
  BY <1>17 DEF Refill, Types, StoreTypes, TickTypes, WorkTypes
<1>18. CASE UNCHANGED leaseVars
  BY <1>18 DEF Types, StoreTypes, TickTypes, WorkTypes
<1> QED BY <1>1, <1>2, <1>3, <1>4, <1>5, <1>6, <1>7, <1>8, <1>9, <1>10,
           <1>11, <1>12, <1>13, <1>14, <1>15, <1>16, <1>17, <1>18 DEF LeasesNext

-----------------------------------------------------------------------------
(* What a step leaves of a subscriber that does not take it: its tick, its  *)
(* workers, what it knows to be lost, and its leases unless they are stale. *)

Stands(t) ==
    /\ pc'[t] = pc[t] /\ mine'[t] = mine[t] /\ todo'[t] = todo[t] /\ workers'[t] = workers[t]
    /\ \A p \in Partition :
          /\ <<t, p>> \in lost => <<t, p>> \in lost'
          /\ lease'[p].by = t => lease[p].by = t
          /\ lease[p].by = t /\ lease[p].fresh => lease'[p].by = t

LEMMA OrderlyStands ==
    ASSUME Numbered, IInv, NEW t \in Sub, Stands(t)
    PROVE  Orderly(t)'
<1>1. ASSUME NEW p \in Partition, lease[p].by = t PROVE lease'[p].by = t \/ <<t, p>> \in lost'
  <2>1. t # 0
    BY DEF Numbered
  <2> QED BY <1>1, <2>1 DEF IInv, StaleIsLost, Stands
<1>2. ASSUME NEW p \in Partition, lease[p].by = t \/ <<t, p>> \in lost
      PROVE  lease'[p].by = t \/ <<t, p>> \in lost'
  BY <1>1, <1>2 DEF Stands
<1>3. mine[t] \subseteq Partition /\ workers[t] \subseteq Partition
  BY DEF IInv, Types, TickTypes, WorkTypes
<1>4. TickIsOwn(t)'
  BY <1>2, <1>3 DEF IInv, Orderly, TickIsOwn, Stands, GetLeasedPartitions
<1>5. StopFollows(t)'
  <2>1. todo[t] # {} => Min(todo[t]) \in Partition
    BY KeyToDo DEF IInv
  <2>2. ASSUME pc[t] = "stop"
        PROVE  todo'[t] # {} /\ lease'[Min(todo'[t])].by # t
    <3>1. todo[t] # {} /\ lease[Min(todo[t])].by # t
      BY <2>2 DEF IInv, Orderly, StopFollows
    <3> QED BY <2>1, <3>1 DEF Stands
  <2>3. pc[t] \in {"down", "closing"} => workers'[t] = {}
    BY DEF IInv, Orderly, StopFollows, Stands
  <2> QED BY <2>2, <2>3 DEF StopFollows, Stands
<1>6. WorkersHold(t)'
  BY <1>2, <1>3 DEF IInv, Orderly, WorkersHold, Stands
<1> QED BY <1>4, <1>5, <1>6 DEF Orderly

LEMMA SubscribeOrderly ==
    ASSUME Numbered, IInv, NEW s \in Sub, Subscribe(s)
    PROVE  StaleIsLost' /\ \A t \in Sub : Orderly(t)'
<1> USE DEF shared, tick, local
<1>1. StaleIsLost'
  BY DEF IInv, StaleIsLost, Subscribe
<1>2. ASSUME NEW t \in Sub, t # s PROVE Stands(t)
  BY <1>2 DEF Stands, Subscribe
<1>3. Orderly(s)'
  <2>1. TickIsOwn(s)'
    BY DEF TickIsOwn, Subscribe
  <2>2. StopFollows(s)'
    BY DEF IInv, Orderly, StopFollows, Subscribe
  <2>3. WorkersHold(s)'
    BY DEF IInv, Orderly, WorkersHold, Subscribe
  <2> QED BY <2>1, <2>2, <2>3 DEF Orderly
<1> QED BY <1>1, <1>2, <1>3, OrderlyStands

LEMMA ShutdownOrderly ==
    ASSUME Numbered, IInv, NEW s \in Sub, Shutdown(s)
    PROVE  StaleIsLost' /\ \A t \in Sub : Orderly(t)'
<1> USE DEF shared, tick, local
<1>1. StaleIsLost'
  BY DEF IInv, StaleIsLost, Shutdown
<1>2. ASSUME NEW t \in Sub, t # s PROVE Stands(t)
  BY <1>2 DEF Stands, Shutdown, Forget
<1>3. Orderly(s)'
  <2>1. TickIsOwn(s)'
    BY DEF TickIsOwn, Shutdown
  <2>2. StopFollows(s)'
    BY DEF IInv, Types, WorkTypes, StopFollows, Shutdown, Forget
  <2>3. WorkersHold(s)'
    BY DEF IInv, Orderly, WorkersHold, Shutdown, Forget
  <2> QED BY <2>1, <2>2, <2>3 DEF Orderly
<1> QED BY <1>1, <1>2, <1>3, OrderlyStands

LEMMA ReleaseAllLeasesOrderly ==
    ASSUME Numbered, IInv, NEW s \in Sub, ReleaseAllLeases(s)
    PROVE  StaleIsLost' /\ \A t \in Sub : Orderly(t)'
<1> USE DEF shared, tick, local
<1>1. \A p \in Partition : lease'[p] = lease[p] \/ (lease[p].by = s /\ lease'[p] = NoLease)
  <2>1. lease' = lease \/ lease' = ReleaseLeases(s, Partition)
    BY DEF ReleaseAllLeases
  <2>2. ASSUME NEW p \in Partition
        PROVE  ReleaseLeases(s, Partition)[p] = IF lease[p].by = s THEN NoLease ELSE lease[p]
    BY ReleaseWrites DEF IInv
  <2> QED BY <2>1, <2>2
<1>2. StaleIsLost'
  BY <1>1, NoLeaseIsNobodys DEF IInv, StaleIsLost, ReleaseAllLeases
<1>3. ASSUME NEW t \in Sub, t # s PROVE Stands(t)
  <2>1. \A p \in Partition : lease'[p].by = t <=> lease[p].by = t
    <3> TAKE p \in Partition
    <3>1. NoLease.by # t
      BY NoLeaseIsNobodys
    <3> QED BY <1>1, <1>3, <3>1
  <2> QED BY <1>3, <2>1 DEF Stands, ReleaseAllLeases
<1>4. Orderly(s)'
  <2>1. pc'[s] = "down" /\ workers'[s] = {}
    BY DEF IInv, Types, TickTypes, Orderly, StopFollows, ReleaseAllLeases
  <2> QED BY <2>1 DEF Orderly, TickIsOwn, StopFollows, WorkersHold
<1> QED BY <1>2, <1>3, <1>4, OrderlyStands

LEMMA CrashOrderly ==
    ASSUME Numbered, IInv, NEW s \in Sub, Crash(s)
    PROVE  StaleIsLost' /\ \A t \in Sub : Orderly(t)'
<1> USE DEF shared, tick, local
<1>1. StaleIsLost'
  BY DEF IInv, StaleIsLost, Crash
<1>2. ASSUME NEW t \in Sub, t # s PROVE Stands(t)
  BY <1>2 DEF Stands, Crash, Forget
<1>3. Orderly(s)'
  <2>1. TickIsOwn(s)'
    BY DEF IInv, Types, TickTypes, TickIsOwn, Crash
  <2>2. StopFollows(s)'
    BY DEF IInv, Types, TickTypes, WorkTypes, StopFollows, Crash, Forget
  <2>3. WorkersHold(s)'
    BY DEF IInv, Types, WorkTypes, WorkersHold, Crash, Forget
  <2> QED BY <2>1, <2>2, <2>3 DEF Orderly
<1> QED BY <1>1, <1>2, <1>3, OrderlyStands

LEMMA DiscoverFailsOrderly ==
    ASSUME Numbered, IInv, NEW s \in Sub, DiscoverFails(s)
    PROVE  StaleIsLost' /\ \A t \in Sub : Orderly(t)'
<1> USE DEF shared, tick, local
<1>1. StaleIsLost'
  BY DEF IInv, StaleIsLost, DiscoverFails
<1>2. ASSUME NEW t \in Sub, t # s PROVE Stands(t)
  BY <1>2 DEF Stands, DiscoverFails
<1>3. Orderly(s)'
  <2>1. TickIsOwn(s)'
    BY DEF TickIsOwn, DiscoverFails
  <2>2. StopFollows(s)'
    BY DEF StopFollows, DiscoverFails
  <2>3. WorkersHold(s)'
    BY DEF IInv, Orderly, WorkersHold, DiscoverFails
  <2> QED BY <2>1, <2>2, <2>3 DEF Orderly
<1> QED BY <1>1, <1>2, <1>3, OrderlyStands

LEMMA DiscoverOrderly ==
    ASSUME Numbered, IInv, NEW s \in Sub, \E u \in BOOLEAN : Discover(s, u)
    PROVE  StaleIsLost' /\ \A t \in Sub : Orderly(t)'
<1> USE DEF shared, tick, local
<1>1. StaleIsLost'
  BY DEF IInv, StaleIsLost, Discover
<1>2. ASSUME NEW t \in Sub, t # s PROVE Stands(t)
  BY <1>2 DEF IInv, Types, TickTypes, Stands, Discover
<1>3. Orderly(s)'
  <2>1. TickIsOwn(s)'
    BY DEF IInv, Types, TickTypes, TickIsOwn, Discover, GetLeasedPartitions
  <2>2. StopFollows(s)'
    BY DEF StopFollows, Discover
  <2>3. WorkersHold(s)'
    BY DEF IInv, Orderly, WorkersHold, Discover
  <2> QED BY <2>1, <2>2, <2>3 DEF Orderly
<1> QED BY <1>1, <1>2, <1>3, OrderlyStands

LEMMA AcquireUnownedOrderly ==
    ASSUME Numbered, IInv, NEW s \in Sub, AcquireUnowned(s)
    PROVE  StaleIsLost' /\ \A t \in Sub : Orderly(t)'
<1> USE DEF shared, tick, local
<1> DEFINE k == Min(todo[s])
<1>1. k \in Partition /\ s # 0
  BY KeyToDo, NoLeaseIsNobodys DEF IInv, AcquireUnowned
<1>2. /\ pc' = pc /\ workers' = workers
      /\ lost' = lost \ {<<s, p>> : p \in {q \in Partition : lease'[q] # lease[q]}}
  BY DEF AcquireUnowned
<1>3. /\ \/ lease' = lease /\ mine' = mine
         \/ /\ lease' = TryAcquireLease(s, k)
            /\ mine' = IF lease'[k].by = s THEN [mine EXCEPT ![s] = @ \cup {k}] ELSE mine
      /\ \E T : todo' = [todo EXCEPT ![s] = T]
  BY DEF AcquireUnowned
<1> HIDE DEF k
<1>4. \A p \in Partition : \/ lease'[p] = lease[p]
                           \/ /\ lease[p].by = 0 \/ ~lease[p].fresh
                              /\ lease'[p] = [by |-> s, fresh |-> TRUE]
  BY <1>1, <1>3, AcquireWrites DEF IInv
<1>5. \A p \in Partition : \/ lease'[p] = lease[p]
                           \/ lease'[p].by = s /\ lease'[p].fresh
  BY <1>4
<1>6. \A p \in Partition, t \in Sub : <<t, p>> \in lost => <<t, p>> \in lost' \/ (t = s /\ lease'[p].by = s)
  <2> TAKE p \in Partition, t \in Sub
  <2>1. ASSUME <<t, p>> \in {<<s, q>> : q \in {x \in Partition : lease'[x] # lease[x]}}
        PROVE  t = s /\ lease'[p] # lease[p]
    BY <2>1
  <2> QED BY <1>2, <1>5, <2>1
<1>7. StaleIsLost'
  <2> SUFFICES ASSUME NEW p \in Partition
               PROVE  IF lease'[p].by = 0 THEN ~lease'[p].fresh
                      ELSE lease'[p].fresh \/ <<lease'[p].by, p>> \in lost'
    BY DEF StaleIsLost
  <2>1. CASE lease'[p] = lease[p]
    BY <1>2, <2>1 DEF IInv, StaleIsLost
  <2>2. CASE lease'[p].by = s /\ lease'[p].fresh
    BY <1>1, <2>2
  <2> QED BY <1>5, <2>1, <2>2
<1>8. ASSUME NEW t \in Sub, t # s PROVE Stands(t)
  <2>1. \A p \in Partition : lease'[p].by = t => lease[p].by = t
    BY <1>5, <1>8
  <2>2. \A p \in Partition : lease[p].by = t /\ lease[p].fresh => lease'[p].by = t
    BY <1>4, NoLeaseIsNobodys DEF IInv
  <2>3. mine'[t] = mine[t] /\ todo'[t] = todo[t]
    BY <1>3, <1>8 DEF IInv, Types, TickTypes
  <2> QED BY <1>2, <1>6, <1>8, <2>1, <2>2, <2>3 DEF Stands
<1>9. Orderly(s)'
  <2>1. pc[s] = "acquire" /\ TickIsOwn(s) /\ WorkersHold(s)
    BY DEF IInv, Orderly, AcquireUnowned
  <2>2. \A p \in Partition : lease[p].by = s \/ <<s, p>> \in lost
                             => lease'[p].by = s \/ <<s, p>> \in lost'
    BY <1>5, <1>6
  <2>3. mine[s] \subseteq Partition /\ workers[s] \subseteq Partition
    BY DEF IInv, Types, TickTypes, WorkTypes
  <2>4. mine'[s] = mine[s] \/ (lease'[k].by = s /\ mine'[s] = mine[s] \cup {k})
    BY <1>3 DEF IInv, Types, TickTypes
  <2>5. \A p \in Partition : lease'[p].by = s => p \in mine'[s]
    <3>1. CASE lease' = lease
      BY <2>1, <2>4, <3>1 DEF TickIsOwn, GetLeasedPartitions
    <3>2. CASE /\ lease' = TryAcquireLease(s, k)
               /\ mine' = IF lease'[k].by = s THEN [mine EXCEPT ![s] = @ \cup {k}] ELSE mine
      <4>1. lease'[k].by = s => k \in mine'[s]
        BY <3>2 DEF IInv, Types, TickTypes
      <4>2. \A p \in Partition \ {k} : lease'[p] = lease[p]
        BY <1>1, <3>2, AcquireWrites DEF IInv
      <4> QED BY <2>1, <2>4, <4>1, <4>2 DEF TickIsOwn, GetLeasedPartitions
    <3> QED BY <1>3, <3>1, <3>2
  <2>6. TickIsOwn(s)'
    BY <1>1, <2>1, <2>2, <2>3, <2>4, <2>5 DEF TickIsOwn, GetLeasedPartitions
  <2>7. StopFollows(s)'
    BY <1>2, <2>1 DEF StopFollows
  <2>8. WorkersHold(s)'
    BY <1>2, <2>1, <2>2, <2>3 DEF WorkersHold
  <2> QED BY <2>6, <2>7, <2>8 DEF Orderly
<1> QED BY <1>7, <1>8, <1>9, OrderlyStands

LEMMA ReconcileOrderly ==
    ASSUME Numbered, IInv, NEW s \in Sub, Reconcile(s)
    PROVE  StaleIsLost' /\ \A t \in Sub : Orderly(t)'
<1> USE DEF shared, tick, local
<1>1. PICK released \in {Expired(s), {}} :
        /\ lease' = ReleaseLeases(s, released)
        /\ workers' = [workers EXCEPT ![s] = mine[s] \ released]
        /\ lost' = {l \in lost : l[1] # s \/ l[2] \in mine[s] \ released}
  BY DEF Reconcile
<1>2. \A p \in Partition : lease'[p] = IF p \in released /\ lease[p].by = s THEN NoLease ELSE lease[p]
  BY <1>1, ReleaseWrites DEF IInv
<1>3. /\ pc[s] = "acquire" /\ pc' = [pc EXCEPT ![s] = "idle"]
      /\ mine' = [mine EXCEPT ![s] = {}] /\ todo' = todo
  BY DEF Reconcile
<1>4. TickIsOwn(s) /\ mine[s] \subseteq Partition
  BY DEF IInv, Orderly, Types, TickTypes
<1>5. \A p \in Partition : lease[p].by = s => p \in mine[s]
  BY <1>3, <1>4 DEF TickIsOwn, GetLeasedPartitions
<1>6. \A t \in Sub, p \in Partition : t # s => (<<t, p>> \in lost <=> <<t, p>> \in lost')
  BY <1>1
<1>7. \A p \in Partition : <<s, p>> \in lost /\ p \in mine[s] \ released => <<s, p>> \in lost'
  BY <1>1
<1>8. StaleIsLost'
  <2> SUFFICES ASSUME NEW p \in Partition
               PROVE  IF lease'[p].by = 0 THEN ~lease'[p].fresh
                      ELSE lease'[p].fresh \/ <<lease'[p].by, p>> \in lost'
    BY DEF StaleIsLost
  <2>1. lease[p].by \in Sub \cup {0}
    BY DEF IInv, Types, StoreTypes, LeaseRow
  <2>2. CASE p \in released /\ lease[p].by = s
    BY <1>2, <2>2, NoLeaseIsNobodys
  <2>3. CASE ~(p \in released /\ lease[p].by = s)
    BY <1>2, <1>5, <1>6, <1>7, <2>1, <2>3 DEF IInv, StaleIsLost
  <2> QED BY <2>2, <2>3
<1>9. ASSUME NEW t \in Sub, t # s PROVE Stands(t)
  <2>1. \A p \in Partition : lease'[p].by = t <=> lease[p].by = t
    <3> TAKE p \in Partition
    <3>1. NoLease.by # t
      BY NoLeaseIsNobodys
    <3> QED BY <1>2, <1>9, <3>1
  <2> QED BY <1>1, <1>3, <1>6, <1>9, <2>1 DEF Stands
<1>10. Orderly(s)'
  <2>1. pc'[s] = "idle" /\ workers'[s] = mine[s] \ released
    BY <1>1, <1>3 DEF IInv, Types, TickTypes, WorkTypes
  <2>2. \A p \in mine[s] \ released : lease'[p].by = s \/ <<s, p>> \in lost'
    BY <1>2, <1>3, <1>4, <1>7 DEF TickIsOwn
  <2> QED BY <2>1, <2>2 DEF Orderly, TickIsOwn, StopFollows, WorkersHold
<1> QED BY <1>8, <1>9, <1>10, OrderlyStands

LEMMA LeaseTickOrderly ==
    ASSUME Numbered, IInv, NEW s \in Sub, LeaseTick(s)
    PROVE  StaleIsLost' /\ \A t \in Sub : Orderly(t)'
<1> USE DEF shared, tick, local
<1>1. StaleIsLost'
  BY DEF IInv, StaleIsLost, LeaseTick
<1>2. ASSUME NEW t \in Sub, t # s PROVE Stands(t)
  BY <1>2 DEF IInv, Types, TickTypes, Stands, LeaseTick
<1>3. Orderly(s)'
  <2>1. TickIsOwn(s)'
    BY DEF TickIsOwn, LeaseTick
  <2>2. StopFollows(s)'
    BY DEF StopFollows, LeaseTick
  <2>3. WorkersHold(s)'
    BY DEF IInv, Orderly, WorkersHold, LeaseTick
  <2> QED BY <2>1, <2>2, <2>3 DEF Orderly
<1> QED BY <1>1, <1>2, <1>3, OrderlyStands

LEMMA ShedOrderly ==
    ASSUME Numbered, IInv, NEW s \in Sub, Shed(s)
    PROVE  StaleIsLost' /\ \A t \in Sub : Orderly(t)'
<1> USE DEF shared, tick, local
<1> DEFINE k == Min(todo[s])
<1>1. k \in Partition
  BY KeyToDo DEF IInv, Shed
<1>2. /\ pc[s] = "shed" /\ workers' = workers /\ mine' = mine /\ lost' = lost
      /\ \/ lease' = ReleaseLeases(s, {k}) /\ pc' = [pc EXCEPT ![s] = "stop"] /\ todo' = todo
         \/ lease' = lease /\ pc' = pc /\ todo' = [todo EXCEPT ![s] = {}]
  BY DEF Shed
<1>3. todo[s] # {}
  BY DEF Shed
<1> HIDE DEF k
<1>4. \A p \in Partition : ReleaseLeases(s, {k})[p] = IF p = k /\ lease[p].by = s THEN NoLease ELSE lease[p]
  BY ReleaseWrites DEF IInv
<1>5. \A p \in Partition : lease'[p] = lease[p] \/ (p = k /\ lease[p].by = s /\ lease'[p] = NoLease)
  BY <1>2, <1>4
<1>6. StaleIsLost'
  BY <1>2, <1>5, NoLeaseIsNobodys DEF IInv, StaleIsLost
<1>7. ASSUME NEW t \in Sub, t # s PROVE Stands(t)
  <2>1. \A p \in Partition : lease'[p].by = t <=> lease[p].by = t
    <3> TAKE p \in Partition
    <3>1. NoLease.by # t
      BY NoLeaseIsNobodys
    <3> QED BY <1>5, <1>7, <3>1
  <2> QED BY <1>2, <1>7, <2>1 DEF IInv, Types, TickTypes, Stands
<1>8. Orderly(s)'
  <2>1. WorkersHold(s) /\ workers[s] \subseteq Partition
    BY DEF IInv, Orderly, Types, WorkTypes
  <2>2. CASE lease' = ReleaseLeases(s, {k}) /\ pc' = [pc EXCEPT ![s] = "stop"] /\ todo' = todo
    <3>1. pc'[s] = "stop" /\ todo'[s] = todo[s] /\ Min(todo'[s]) = k
      BY <2>2 DEF k, IInv, Types, TickTypes
    <3>2. lease'[k].by # s
      BY <1>1, <1>4, <2>2, NoLeaseIsNobodys
    <3>3. StopFollows(s)' /\ TickIsOwn(s)'
      BY <1>3, <3>1, <3>2 DEF StopFollows, TickIsOwn
    <3>4. WorkersHold(s)'
      BY <1>2, <1>5, <2>1, <3>1 DEF WorkersHold
    <3> QED BY <3>3, <3>4 DEF Orderly
  <2>3. CASE lease' = lease /\ pc' = pc /\ todo' = [todo EXCEPT ![s] = {}]
    BY <1>2, <2>1, <2>3 DEF Orderly, TickIsOwn, StopFollows, WorkersHold
  <2> QED BY <1>2, <2>2, <2>3
<1> QED BY <1>6, <1>7, <1>8, OrderlyStands

LEMMA StopShedOrderly ==
    ASSUME Numbered, IInv, NEW s \in Sub, StopShed(s)
    PROVE  StaleIsLost' /\ \A t \in Sub : Orderly(t)'
<1> USE DEF shared, tick, local
<1>1. StaleIsLost'
  <2> DEFINE k == Min(todo[s])
  <2>1. k \in Partition /\ lease[k].by # s
    BY KeyToDo DEF IInv, Orderly, StopFollows, StopShed
  <2>2. lease' = lease /\ lost' = lost \ {<<s, k>>}
    BY DEF StopShed
  <2> HIDE DEF k
  <2>3. \A p \in Partition : <<lease[p].by, p>> \in lost => <<lease[p].by, p>> \in lost'
    BY <2>1, <2>2
  <2> QED BY <2>2, <2>3 DEF IInv, StaleIsLost
<1>2. ASSUME NEW t \in Sub, t # s PROVE Stands(t)
  BY <1>2, KeyToDo DEF Stands, StopShed, StopPartitionWorker
<1>3. Orderly(s)'
  <2>1. TickIsOwn(s)'
    BY KeyToDo DEF TickIsOwn, StopShed
  <2>2. StopFollows(s)'
    BY KeyToDo DEF IInv, Types, TickTypes, StopFollows, StopShed
  <2>3. WorkersHold(s)'
    BY KeyToDo DEF IInv, Types, WorkTypes, Orderly, WorkersHold, StopShed, StopPartitionWorker
  <2> QED BY <2>1, <2>2, <2>3 DEF Orderly
<1> QED BY <1>1, <1>2, <1>3, OrderlyStands

LEMMA RenewOrderly ==
    ASSUME Numbered, IInv, NEW s \in Sub, Renew(s)
    PROVE  StaleIsLost' /\ \A t \in Sub : Orderly(t)'
<1> USE DEF shared, tick, local
<1>1. \A p \in Partition : lease'[p] = lease[p] \/ (lease[p].by = s /\ lease'[p] = [by |-> s, fresh |-> TRUE])
  <2>1. lease' = lease \/ lease' = RenewOwnedLeases(s)
    BY DEF Renew
  <2> QED BY <2>1, RenewWrites DEF IInv
<1>2. \A p \in Partition : lease'[p].by = lease[p].by /\ (lease[p].by # s => lease'[p] = lease[p])
  BY <1>1
<1>3. /\ pc[s] = "shed" /\ pc' = [pc EXCEPT ![s] = "beat"]
      /\ mine' = mine /\ todo' = todo /\ workers' = workers
  BY DEF Renew
<1>4. \/ lost' = lost /\ lease' = lease
      \/ lost' = {l \in lost : l[1] # s \/ lease[l[2]].by # s} /\ lease' = RenewOwnedLeases(s)
  BY DEF Renew
<1>5. \A t \in Sub, p \in Partition : <<t, p>> \in lost => <<t, p>> \in lost' \/ (t = s /\ lease[p].by = s)
  BY <1>4
<1>6. StaleIsLost'
  <2>1. CASE lost' = lost /\ lease' = lease
    BY <2>1 DEF IInv, StaleIsLost
  <2>2. CASE lost' = {l \in lost : l[1] # s \/ lease[l[2]].by # s} /\ lease' = RenewOwnedLeases(s)
    <3> SUFFICES ASSUME NEW p \in Partition
                 PROVE  IF lease'[p].by = 0 THEN ~lease'[p].fresh
                        ELSE lease'[p].fresh \/ <<lease'[p].by, p>> \in lost'
      BY DEF StaleIsLost
    <3>1. CASE lease[p].by = s
      <4>1. lease'[p] = [by |-> s, fresh |-> TRUE] /\ s # 0
        BY <2>2, <3>1, RenewWrites, NoLeaseIsNobodys DEF IInv
      <4> QED BY <4>1
    <3>2. CASE lease[p].by # s
      <4>1. <<lease[p].by, p>> \in lost => <<lease[p].by, p>> \in lost'
        BY <2>2, <3>2
      <4> QED BY <1>2, <3>2, <4>1 DEF IInv, StaleIsLost
    <3> QED BY <3>1, <3>2
  <2> QED BY <1>4, <2>1, <2>2
<1>7. ASSUME NEW t \in Sub, t # s PROVE Stands(t)
  BY <1>2, <1>3, <1>5, <1>7 DEF Stands
<1>8. Orderly(s)'
  <2>1. WorkersHold(s) /\ workers[s] \subseteq Partition
    BY DEF IInv, Orderly, Types, WorkTypes
  <2>2. pc'[s] = "beat"
    BY <1>3 DEF IInv, Types, TickTypes
  <2>3. WorkersHold(s)'
    BY <1>2, <1>3, <1>5, <2>1 DEF WorkersHold
  <2> QED BY <2>2, <2>3 DEF Orderly, TickIsOwn, StopFollows
<1> QED BY <1>6, <1>7, <1>8, OrderlyStands

LEMMA SendHeartbeatsOrderly ==
    ASSUME Numbered, IInv, NEW s \in Sub, SendHeartbeats(s)
    PROVE  StaleIsLost' /\ \A t \in Sub : Orderly(t)'
<1> USE DEF shared, tick, local
<1>1. \A p \in Partition : lease'[p] = lease[p] \/ (~lease[p].fresh /\ lease'[p] = NoLease)
  <2>1. lease' = lease \/ lease' = PurgeStaleLeases
    BY DEF SendHeartbeats
  <2> QED BY <2>1, PurgeWrites DEF IInv
<1>2. pc[s] = "beat" /\ pc' = [pc EXCEPT ![s] = "idle"] /\ UNCHANGED <<mine, todo, workers, lost>>
  BY DEF SendHeartbeats
<1>3. StaleIsLost'
  BY <1>1, <1>2, NoLeaseIsNobodys DEF IInv, StaleIsLost
<1>4. ASSUME NEW t \in Sub
      PROVE \A p \in Partition : /\ lease'[p].by = t => lease[p].by = t
                                 /\ lease[p].by = t /\ lease[p].fresh => lease'[p].by = t
                                 /\ lease[p].by = t => lease'[p].by = t \/ <<t, p>> \in lost
  BY <1>1, NoLeaseIsNobodys DEF IInv, StaleIsLost
<1>5. ASSUME NEW t \in Sub, t # s PROVE Stands(t)
  BY <1>2, <1>4, <1>5 DEF Stands
<1>6. Orderly(s)'
  <2>1. pc'[s] = "idle" /\ WorkersHold(s) /\ workers[s] \subseteq Partition
    BY <1>2 DEF IInv, Types, TickTypes, WorkTypes, Orderly
  <2>2. WorkersHold(s)'
    BY <1>2, <1>4, <2>1 DEF WorkersHold
  <2> QED BY <2>1, <2>2 DEF Orderly, TickIsOwn, StopFollows
<1> QED BY <1>3, <1>5, <1>6, OrderlyStands

LEMMA HeartbeatLapsesOrderly ==
    ASSUME Numbered, IInv, NEW s \in Sub, HeartbeatLapses(s)
    PROVE  StaleIsLost' /\ \A t \in Sub : Orderly(t)'
<1> USE DEF shared, tick, local
<1>1. StaleIsLost'
  BY DEF IInv, StaleIsLost, HeartbeatLapses
<1>2. ASSUME NEW t \in Sub PROVE Stands(t)
  BY DEF Stands, HeartbeatLapses
<1> QED BY <1>1, <1>2, OrderlyStands

LEMMA GracePassesOrderly ==
    ASSUME Numbered, IInv, NEW s \in Sub, \E p \in Partition : GracePasses(s, p)
    PROVE  StaleIsLost' /\ \A t \in Sub : Orderly(t)'
<1> USE DEF shared, tick, local
<1>1. StaleIsLost'
  BY DEF IInv, StaleIsLost, GracePasses
<1>2. ASSUME NEW t \in Sub PROVE Stands(t)
  BY DEF Stands, GracePasses
<1> QED BY <1>1, <1>2, OrderlyStands

\* Steps of no subscriber.
LEMMA LeaseLapsesOrderly ==
    ASSUME Numbered, IInv, NEW k \in Partition, LeaseLapses(k)
    PROVE  StaleIsLost' /\ \A t \in Sub : Orderly(t)'
<1>1. /\ lease' = [lease EXCEPT ![k].fresh = FALSE]
      /\ lost' = lost \cup {<<lease[k].by, k>>}
      /\ UNCHANGED local
  BY DEF LeaseLapses
<1>2. \A p \in Partition : lease'[p] = IF p = k THEN [by |-> lease[k].by, fresh |-> FALSE] ELSE lease[p]
  BY <1>1, LapseWrites DEF IInv
<1>3. \A p \in Partition : lease'[p].by = lease[p].by
  BY <1>2
<1>4. StaleIsLost'
  BY <1>1, <1>2 DEF IInv, StaleIsLost
<1>5. ASSUME NEW t \in Sub PROVE Stands(t)
  BY <1>1, <1>3 DEF Stands, local, tick
<1> QED BY <1>4, <1>5, OrderlyStands

LEMMA RefillOrderly ==
    ASSUME Numbered, IInv, NEW k \in Partition, Refill(k)
    PROVE  StaleIsLost' /\ \A t \in Sub : Orderly(t)'
<1>1. UNCHANGED <<lease, lost, local>>
  BY DEF Refill
<1>2. StaleIsLost'
  BY <1>1 DEF IInv, StaleIsLost
<1>3. ASSUME NEW t \in Sub PROVE Stands(t)
  BY <1>1 DEF Stands, local, tick
<1> QED BY <1>2, <1>3, OrderlyStands

-----------------------------------------------------------------------------
(* The theorems.                                                            *)

LEMMA IInvInit ==
    ASSUME Numbered, LeasesInit
    PROVE  IInv
<1> USE DEF LeasesInit
<1>1. StoreTypes
  BY DEF StoreTypes, LeaseRow, NoLease, Numbered
<1>2. TickTypes
  BY SomePartitions DEF TickTypes, Point
<1>3. WorkTypes
  BY DEF WorkTypes
<1>4. StaleIsLost
  BY DEF StaleIsLost, NoLease
<1>5. ASSUME NEW s \in Sub PROVE Orderly(s)
  BY DEF Orderly, TickIsOwn, StopFollows, WorkersHold
<1> QED BY <1>1, <1>2, <1>3, <1>4, <1>5 DEF IInv, Types

LEMMA IInvStep ==
    ASSUME Numbered, IInv, [LeasesNext]_leaseVars
    PROVE  IInv'
<1>1. Types'
  BY TypesStep DEF IInv
<1>2. StaleIsLost' /\ \A t \in Sub : Orderly(t)'
  <2>1. CASE UNCHANGED leaseVars
    <3>1. StaleIsLost'
      BY <2>1 DEF IInv, StaleIsLost, leaseVars, shared
    <3>2. ASSUME NEW t \in Sub PROVE Stands(t)
      BY <2>1 DEF Stands, leaseVars, shared, local, tick
    <3> QED BY <3>1, <3>2, OrderlyStands
  <2>2. ASSUME NEW s \in Sub,
               \/ Subscribe(s) \/ Shutdown(s) \/ ReleaseAllLeases(s) \/ Crash(s)
               \/ DiscoverFails(s) \/ Discover(s, TRUE) \/ Discover(s, FALSE)
        PROVE  StaleIsLost' /\ \A t \in Sub : Orderly(t)'
    BY <2>2, SubscribeOrderly, ShutdownOrderly, ReleaseAllLeasesOrderly, CrashOrderly,
       DiscoverFailsOrderly, DiscoverOrderly
  <2>3. ASSUME NEW s \in Sub,
               \/ AcquireUnowned(s) \/ Reconcile(s)
               \/ LeaseTick(s) \/ Shed(s) \/ StopShed(s) \/ Renew(s) \/ SendHeartbeats(s)
        PROVE  StaleIsLost' /\ \A t \in Sub : Orderly(t)'
    BY <2>3, AcquireUnownedOrderly, ReconcileOrderly, LeaseTickOrderly, ShedOrderly,
       StopShedOrderly, RenewOrderly, SendHeartbeatsOrderly
  <2>4. ASSUME NEW s \in Sub, HeartbeatLapses(s) \/ \E p \in Partition : GracePasses(s, p)
        PROVE  StaleIsLost' /\ \A t \in Sub : Orderly(t)'
    BY <2>4, HeartbeatLapsesOrderly, GracePassesOrderly
  <2>5. ASSUME NEW p \in Partition, LeaseLapses(p) \/ Refill(p)
        PROVE  StaleIsLost' /\ \A t \in Sub : Orderly(t)'
    BY <2>5, LeaseLapsesOrderly, RefillOrderly
  <2> QED BY <2>1, <2>2, <2>3, <2>4, <2>5 DEF LeasesNext
<1> QED BY <1>1, <1>2 DEF IInv

LEMMA IInvAlways == ASSUME Numbered PROVE LeasesSpec => []IInv
<1>1. LeasesInit => IInv
  BY IInvInit
<1>2. IInv /\ [LeasesNext]_leaseVars => IInv'
  BY IInvStep
<1> QED BY <1>1, <1>2, PTL DEF LeasesSpec

\* The rows and what every supervisor keeps hold what the types of the code say;
\* the cap of a tick (fairShareCap) is never above the number of partitions.
THEOREM LeasesTypes == ASSUME Numbered PROVE LeasesSpec => []LeasesTypeOK
<1>1. IInv => LeasesTypeOK
  BY DEF IInv, Types, StoreTypes, TickTypes, WorkTypes, LeasesTypeOK, LeaseRow, Point
<1> QED BY <1>1, IInvAlways, PTL

\* A worker runs without its subscriber's lease only when the lease lapsed under
\* it, or between the release of a shed lease and the stop of its worker
\* (processLeases): two workers are on one partition only then.
THEOREM WorkersAreHolders == ASSUME Numbered PROVE LeasesSpec => []WorkersHoldLeases
<1>1. IInv => WorkersHoldLeases
  BY DEF IInv, Orderly, WorkersHold, WorkersHoldLeases
<1> QED BY <1>1, IInvAlways, PTL
=============================================================================
