--------------------------- MODULE SqlQueueProofs ---------------------------
(***************************************************************************)
(* The MySQL queue, for any number of messages, groups, workers, faults and *)
(* operators' commands: the types, the order of deliveries, that nothing is *)
(* lost, and what consumer-lag shows.                                       *)
(*                                                                          *)
(* Publishing transactions do not overlap here.  Where they may, a row can  *)
(* commit below a watermark (SqlQueueCommit.cfg shows one lost), so every   *)
(* result but the types assumes ~Overlapping.                               *)
(***************************************************************************)
EXTENDS QueueAdmin, FiniteSetTheorems, WellFoundedInduction, TLAPS

(* Least and greatest offsets.                                              *)

LEMMA LeastExists ==
    ASSUME NEW S \in SUBSET Nat, S # {}
    PROVE  \E x \in S : \A y \in S : x <= y
<1> DEFINE R == {ss \in Nat \X Nat : ss[1] < ss[2]}
<1>1. IsWellFoundedOn(R, Nat)
  BY NatLessThanWellFounded DEF OpToRel
<1>2. PICK x \in S : \A y \in S : ~(<<y, x>> \in R)
  <2> HIDE DEF R
  <2> QED BY <1>1, WFMin
<1>3. \A y \in S : x <= y
  <2> TAKE y \in S
  <2>1. <<y, x>> \notin R BY <1>2
  <2>2. x \in Nat /\ y \in Nat OBVIOUS
  <2> QED BY <2>1, <2>2
<1> QED BY <1>3

LEMMA MaxOfBounded ==
    ASSUME NEW S \in SUBSET Nat, S # {}, NEW n \in Nat, \A x \in S : x <= n
    PROVE  Max(S) \in S /\ \A x \in S : x <= Max(S)
<1> DEFINE T == {n - x : x \in S}
<1>1. T \in SUBSET Nat /\ T # {}
  <2>1. \A x \in S : x \in Nat /\ x <= n
    OBVIOUS
  <2>2. \A x \in S : n - x \in Nat
    BY <2>1
  <2> QED BY <2>2
<1>2. PICK m \in T : \A y \in T : m <= y
  BY <1>1, LeastExists
<1>3. PICK x \in S : m = n - x
  BY <1>2
<1>4. \A y \in S : x >= y
  <2>1. ASSUME NEW y \in S PROVE x >= y
    <3>1. n - y \in T
      OBVIOUS
    <3>2. n - x <= n - y
      BY <1>2, <1>3, <3>1
    <3> QED BY <3>2
  <2> QED BY <2>1
<1> QED BY <1>3, <1>4 DEF Max

\* The row a walk comes to next is one it fetched, and the lowest of them.
LEMMA FirstIsLowest ==
    ASSUME NEW rs \in SUBSET Row, rs # {}
    PROVE  First(rs) \in rs /\ \A q \in rs : First(rs).offset <= q.offset
<1> DEFINE S == {r.offset : r \in rs}
<1>1. S \in SUBSET Nat /\ S # {}
  BY BoundAssumption DEF Row, Offset
<1>2. PICK n \in S : \A m \in S : n <= m
  BY <1>1, LeastExists
<1>3. PICK r \in rs : r.offset = n
  BY <1>2
<1>4. \A q \in rs : r.offset <= q.offset
  BY <1>2, <1>3
<1> QED BY <1>3, <1>4 DEF First

\* Offsets tell stored rows apart, so there are finitely many.
LEMMA RowsAreFinite ==
    ASSUME NEW rs \in SUBSET Row, \A p, q \in rs : p.offset = q.offset => p = q
    PROVE  IsFiniteSet(rs)
<1> DEFINE f == [r \in rs |-> r.offset]
<1>1. f \in Injection(rs, Offset)
  BY DEF Injection, IsInjective, Row
<1>2. IsFiniteSet(Offset)
  BY FS_Interval, BoundAssumption DEF Offset
<1> HIDE DEF f
<1> QED BY <1>1, <1>2, FS_Injection

\* A poll fetches rows above the watermark, and with a batch size of one only
\* the lowest.
LEMMA FetchedRows ==
    ASSUME NEW n \in Nat, rows \subseteq Row,
           \A p, q \in rows : p.offset = q.offset => p = q
    PROVE  /\ FetchByOffset(n) \subseteq rows
           /\ \A r \in FetchByOffset(n) : r.offset > n
           /\ BatchSize = 1 =>
                 \A r \in FetchByOffset(n), q \in rows : q.offset < r.offset => q.offset <= n
<1>1. FetchByOffset(n) \subseteq rows /\ \A r \in FetchByOffset(n) : r.offset > n
  BY DEF FetchByOffset, Above
<1>2. ASSUME BatchSize = 1, NEW r \in FetchByOffset(n), NEW q \in rows, q.offset < r.offset, q.offset > n
      PROVE  FALSE
  <2> DEFINE S == {p \in Above(n) : p.offset <= r.offset}
  <2>1. r \in S /\ q \in S /\ r # q
    BY <1>2 DEF FetchByOffset, Above, Row, Offset
  <2>2. Cardinality(S) <= 1
    BY <1>2 DEF FetchByOffset
  <2>3. IsFiniteSet(S)
    <3>1. IsFiniteSet(rows)
      BY RowsAreFinite
    <3>2. S \in SUBSET rows
      BY DEF Above
    <3> QED BY <3>1, <3>2, FS_Subset
  <2>4. {r, q} \in SUBSET S
    BY <2>1
  <2>5. Cardinality({r, q}) = 2
    <3>1. IsFiniteSet({r}) /\ Cardinality({r}) = 1
      BY FS_Singleton
    <3>2. Cardinality({r} \cup {q}) = Cardinality({r}) + 1
      BY <2>1, <3>1, FS_AddElement
    <3>3. {r} \cup {q} = {r, q}
      OBVIOUS
    <3> QED BY <3>1, <3>2, <3>3
  <2>6. Cardinality({r, q}) <= Cardinality(S)
    BY <2>3, <2>4, FS_Subset
  <2>7. Cardinality(S) \in Nat
    BY <2>3, FS_CardinalityType
  <2> QED BY <2>2, <2>5, <2>6, <2>7
<1> QED BY <1>1, <1>2 DEF Row, Offset

\* What a consumer or a poll does to a delivery state leaves a delivery state,
\* and none of it takes an ack back.
LEMMA StateOperations ==
    ASSUME NEW s \in State
    PROVE  /\ MarkDelivered(s) \in State /\ MarkAcked(s) \in State /\ MarkNacked(s) \in State
           /\ MarkPostponed(s) \in State /\ ExtendVisibility(s) \in State
           /\ [s EXCEPT !.hidden = FALSE] \in State
           /\ NoState \in State /\ ~NoState.acked
           /\ MarkDelivered(s).acked => s.acked
           /\ MarkNacked(s).acked => s.acked
           /\ MarkPostponed(s).acked => s.acked
           /\ ExtendVisibility(s).acked => s.acked
<1>1. /\ s.found \in BOOLEAN /\ s.acked \in BOOLEAN /\ s.hidden \in BOOLEAN
      /\ s.postponed \in BOOLEAN /\ s.retry \in 0..MaxAttempts /\ MaxAttempts \in Nat
  BY ConfigAssumption DEF State
<1>2. NoState \in State /\ ~NoState.acked
  BY <1>1 DEF State, NoState
<1>3. MarkDelivered(s) \in State /\ (MarkDelivered(s).acked => s.acked)
  <2>1. CASE ~s.found
    <3>1. MarkDelivered(s) = [found |-> TRUE, acked |-> FALSE, hidden |-> TRUE, postponed |-> FALSE, retry |-> 0]
      BY <2>1 DEF NoState, MarkDelivered
    <3>2. 0 \in 0..MaxAttempts
      BY <1>1
    <3> QED BY <3>1, <3>2 DEF State
  <2>2. CASE s.found /\ s.acked
    BY <2>2 DEF MarkDelivered
  <2>3. CASE s.found /\ ~s.acked
    <3>1. (IF s.postponed \/ s.retry = MaxAttempts THEN s.retry ELSE s.retry + 1) \in 0..MaxAttempts
      BY <1>1
    <3> QED BY <1>1, <2>3, <3>1 DEF State, MarkDelivered
  <2> QED BY <2>1, <2>2, <2>3
<1>4. MarkAcked(s) \in State
  BY DEF State, MarkAcked
<1>5. MarkNacked(s) \in State /\ (MarkNacked(s).acked => s.acked)
  BY DEF State, MarkNacked
<1>6. MarkPostponed(s) \in State /\ (MarkPostponed(s).acked => s.acked)
  <2>1. CASE s.acked
    BY <2>1 DEF MarkPostponed
  <2>2. CASE ~s.acked
    <3>1. MarkPostponed(s) = [found |-> TRUE, acked |-> FALSE, hidden |-> TRUE, postponed |-> TRUE, retry |-> 0]
      BY <2>2 DEF NoState, MarkPostponed
    <3>2. 0 \in 0..MaxAttempts
      BY <1>1
    <3> QED BY <3>1, <3>2 DEF State
  <2> QED BY <2>1, <2>2
<1>7. ExtendVisibility(s) \in State /\ (ExtendVisibility(s).acked => s.acked)
  BY DEF State, ExtendVisibility
<1>8. [s EXCEPT !.hidden = FALSE] \in State
  BY DEF State
<1> QED BY <1>2, <1>3, <1>4, <1>5, <1>6, <1>7, <1>8

\* The new watermark is the old one or a stored offset, and every stored row it
\* passes is acked.
LEMMA ContiguousIsAcked ==
    ASSUME TypeOK, NEW g \in Group
    PROVE  /\ Contiguous(g) \in 0..MaxOffset
           /\ Contiguous(g) = mark[g] \/ \E r \in rows : r.offset = Contiguous(g)
           /\ \A r \in rows : mark[g] < r.offset /\ r.offset <= Contiguous(g) => ds[g][r.offset].acked
<1> DEFINE A == {r \in Above(mark[g]) : \A q \in Above(mark[g]) :
                     q.offset <= r.offset => ds[g][q.offset].acked}
           S == {r.offset : r \in A} \cup {mark[g]}
<1>1. mark[g] \in 0..MaxOffset /\ rows \subseteq Row /\ MaxOffset \in Nat
  BY BoundAssumption DEF TypeOK
<1>2. \A r \in rows : r.offset \in 1..MaxOffset
  BY <1>1 DEF Row, Offset
<1>3. A \subseteq rows
  BY DEF Above
<1>4. S \in SUBSET Nat /\ S # {} /\ \A n \in S : n <= MaxOffset
  BY <1>1, <1>2, <1>3
<1>5. Max(S) \in S /\ \A n \in S : n <= Max(S)
  <2> HIDE DEF S
  <2> QED BY <1>1, <1>4, MaxOfBounded
<1>6. Contiguous(g) = Max(S)
  BY DEF Contiguous
<1> HIDE DEF A
<1>7. Contiguous(g) \in 0..MaxOffset
  BY <1>1, <1>2, <1>3, <1>5, <1>6
<1>8. Contiguous(g) = mark[g] \/ \E r \in A : r.offset = Contiguous(g)
  BY <1>5, <1>6
<1>9. ASSUME NEW r \in rows, mark[g] < r.offset, r.offset <= Contiguous(g)
      PROVE  ds[g][r.offset].acked
  <2>1. PICK a \in A : a.offset = Contiguous(g)
    BY <1>1, <1>2, <1>7, <1>8, <1>9
  <2>2. r \in Above(mark[g])
    BY <1>9 DEF Above
  <2> QED BY <1>9, <2>1, <2>2 DEF A
<1> QED BY <1>3, <1>7, <1>8, <1>9

----------------------------------------------------------------------------
(* Types.                                                                   *)

\* A loop that is about to deliver or to dead-letter has a message to do it to.
Visiting == \A w \in Worker : pc[w] \in {"mark", "exhausted"} => batch[w] # {}

\* What a dead-lettering leaves has its type.
LEMMA DeadLetterTypes ==
    ASSUME TypeOK, NEW g \in Group, NEW o \in Offset, NEW id \in Id, DeadLetter(g, o, id)
    PROVE  /\ rows' \subseteq Row /\ dlq' \subseteq Id
           /\ ds' \in [Group -> [Offset -> State]]
           /\ settled' \in [Group -> SUBSET Offset]
<1>1. rows' \subseteq rows /\ dlq' \subseteq Id
  BY DEF DeadLetter, MoveToDLQ, TypeOK
<1>2. {r.offset : r \in rows \ rows'} \subseteq Offset
  BY DEF TypeOK, Row
<1>3. MarkAcked(ds[g][o]) \in State
  <2>1. ds[g][o] \in State BY DEF TypeOK
  <2> QED BY <2>1, StateOperations
<1>4. rows' \subseteq Row /\ settled' \in [Group -> SUBSET Offset]
  BY <1>1, <1>2 DEF DeadLetter, TypeOK
<1>5. ds' \in [Group -> [Offset -> State]]
  BY <1>3 DEF DeadLetter, TypeOK
<1> QED BY <1>1, <1>4, <1>5

LEMMA MovedOnlyTypes ==
    ASSUME TypeOK, NEW g \in Group, NEW o \in Offset, NEW id \in Id, MovedOnly(g, o, id)
    PROVE  /\ rows' \subseteq Row /\ dlq' \subseteq Id
           /\ settled' \in [Group -> SUBSET Offset]
           /\ faults' \in 0..MaxFaults
<1>1. rows' \subseteq rows /\ dlq' \subseteq Id
  BY DEF MovedOnly, MoveToDLQ, TypeOK
<1>2. {r.offset : r \in rows \ rows'} \subseteq Offset
  BY DEF TypeOK, Row
<1>3. faults' \in 0..MaxFaults
  BY BoundAssumption DEF MovedOnly, TypeOK
<1> QED BY <1>1, <1>2, <1>3 DEF MovedOnly, TypeOK

\* An update of one delivery state.
LEMMA StateUpdate ==
    ASSUME TypeOK, NEW g \in Group, NEW o \in Offset, NEW s \in State,
           ds' = [ds EXCEPT ![g][o] = s]
    PROVE  ds' \in [Group -> [Offset -> State]]
  BY DEF TypeOK

TypeInv == TypeOK /\ Visiting

LEMMA TypeInit == Init => TypeInv
<1>1. NoState \in State
  BY ConfigAssumption DEF State, NoState
<1>2. 0 \in 0..MaxOffset /\ 0 \in 0..MaxFaults /\ 1 \in 1..(MaxOffset + 1)
  BY BoundAssumption
<1> QED BY <1>1, <1>2, GroupAssumption DEF Init, TypeInv, TypeOK, Visiting

LoopTypes ==
    /\ pc \in [Worker -> {"down", "ready", "walk", "mark", "exhausted", "save", "collect", "forget"}]
    /\ inited \in [Worker -> BOOLEAN]
    /\ batch \in [Worker -> SUBSET Row]
    /\ target \in [Worker -> 0..MaxOffset]
    /\ Visiting

\* A loop that ends for now, or for good, has nothing left to visit.
LEMMA StopLoopTypes ==
    ASSUME TypeInv, NEW w \in Worker, NEW phase \in {"down", "forget"},
           pc' = [pc EXCEPT ![w] = phase], inited' = [inited EXCEPT ![w] = FALSE],
           batch' = [batch EXCEPT ![w] = {}], target' = [target EXCEPT ![w] = 0]
    PROVE  LoopTypes'
<1>1. 0 \in 0..MaxOffset
  BY BoundAssumption
<1> QED BY <1>1 DEF TypeInv, TypeOK, Visiting, LoopTypes

Lease == [owner : Worker \cup {"none"}, stale : BOOLEAN]

LEMMA LeaseUpdate ==
    ASSUME TypeOK, NEW g \in Group, NEW l \in Lease, lease' = [lease EXCEPT ![g] = l]
    PROVE  lease' \in [Group -> Lease]
  BY DEF TypeOK, Lease

\* The steps of publishers and leases.
LEMMA TypesOutsidePolls ==
    ASSUME TypeInv,
           \/ \E id \in Id : Insert(id) \/ DrainDLQ(id)
           \/ \E r \in txs : Commit(r) \/ Rollback(r)
           \/ \E g \in Group : LeaseLapses(g)
           \/ \E w \in Worker : \/ TryAcquireLease(w) \/ RenewOwnedLeases(w) \/ StopPartitionWorker(w)
                                \/ Crash(w) \/ ReleaseLease(w) \/ ReleaseDrained(w) \/ DeleteOffset(w)
    PROVE  TypeInv'
<1> USE DEF TypeInv
<1>1. ASSUME NEW id \in Id, Insert(id) PROVE TypeInv'
  <2>1. next \in Offset /\ next + 1 \in 1..(MaxOffset + 1)
    BY <1>1, BoundAssumption DEF Insert, TypeOK, Offset
  <2> QED BY <1>1, <2>1 DEF Insert, TypeOK, Visiting, Row, loop, history
<1>2. ASSUME NEW id \in Id, DrainDLQ(id) PROVE TypeInv'
  BY <1>2 DEF DrainDLQ, TypeOK, Visiting, loop, history
<1>3. ASSUME NEW r \in txs, Commit(r) PROVE TypeInv'
  BY <1>3 DEF Commit, TypeOK, Visiting, loop
<1>4. ASSUME NEW r \in txs, Rollback(r) PROVE TypeInv'
  BY <1>4 DEF Rollback, TypeOK, Visiting, loop, history
<1>5. ASSUME NEW g \in Group, LeaseLapses(g) PROVE TypeInv'
  <2>1. faults' \in 0..MaxFaults
    BY <1>5, BoundAssumption DEF LeaseLapses, TypeOK
  <2> QED BY <1>5, <2>1 DEF LeaseLapses, TypeOK, Visiting, loop
<1>6. ASSUME NEW w \in Worker, TryAcquireLease(w) PROVE TypeInv'
  BY <1>6, GroupAssumption DEF TryAcquireLease, TypeOK, Visiting, history
<1>7. ASSUME NEW w \in Worker, RenewOwnedLeases(w) PROVE TypeInv'
  BY <1>7, GroupAssumption DEF RenewOwnedLeases, TypeOK, Visiting, loop, history
<1>8. ASSUME NEW w \in Worker, StopPartitionWorker(w) PROVE TypeInv'
  <2>1. LoopTypes'
    BY <1>8, StopLoopTypes DEF StopPartitionWorker, StopLoop
  <2> QED BY <1>8, <2>1 DEF StopPartitionWorker, TypeOK, LoopTypes, table, history
<1>9. ASSUME NEW w \in Worker, Crash(w) PROVE TypeInv'
  <2>1. faults' \in 0..MaxFaults
    BY <1>9, BoundAssumption DEF Crash, TypeOK
  <2>2. GroupOf[w] \in Group /\ lease[GroupOf[w]] \in Lease
    BY GroupAssumption DEF TypeOK, Lease
  <2> DEFINE l == [lease[GroupOf[w]] EXCEPT !.stale = @ \/ lease[GroupOf[w]].owner = w]
  <2>3. l \in Lease
    BY <2>2 DEF Lease
  <2>4. lease' = [lease EXCEPT ![GroupOf[w]] = l]
    BY <1>9, <2>2 DEF Crash, TypeOK
  <2>5. lease' \in [Group -> Lease]
    <3> HIDE DEF l
    <3> QED BY <2>2, <2>3, <2>4, LeaseUpdate
  <2>6. LoopTypes'
    BY <1>9, StopLoopTypes DEF Crash, StopLoop
  <2> QED BY <1>9, <2>1, <2>5, <2>6 DEF Crash, TypeOK, LoopTypes, Lease
<1>10. ASSUME NEW w \in Worker, ReleaseLease(w) PROVE TypeInv'
  <2>1. faults' \in 0..MaxFaults
    BY <1>10, BoundAssumption DEF ReleaseLease, TypeOK
  <2>2. lease' \in [Group -> Lease]
    BY <1>10, GroupAssumption, LeaseUpdate DEF ReleaseLease, Lease
  <2>3. LoopTypes'
    BY <1>10, StopLoopTypes DEF ReleaseLease, StopLoop
  <2> QED BY <1>10, <2>1, <2>2, <2>3 DEF ReleaseLease, TypeOK, LoopTypes, Lease
<1>11. ASSUME NEW w \in Worker, ReleaseDrained(w) PROVE TypeInv'
  <2>1. lease' \in [Group -> Lease]
    BY <1>11, GroupAssumption, LeaseUpdate DEF ReleaseDrained, Lease
  <2>2. LoopTypes'
    BY <1>11, StopLoopTypes DEF ReleaseDrained
  <2> QED BY <1>11, <2>1, <2>2 DEF ReleaseDrained, TypeOK, LoopTypes, Lease, history
<1>12. ASSUME NEW w \in Worker, DeleteOffset(w) PROVE TypeInv'
  <2>1. mark' \in [Group -> 0..MaxOffset] /\ marked' \subseteq Group
    BY <1>12, GroupAssumption, BoundAssumption DEF DeleteOffset, TypeOK
  <2>2. LoopTypes'
    BY <1>12, StopLoopTypes DEF DeleteOffset, StopLoop
  <2> QED BY <1>12, <2>1, <2>2 DEF DeleteOffset, TypeOK, LoopTypes, history
<1> HIDE DEF TypeInv
<1> QED BY <1>1, <1>2, <1>3, <1>4, <1>5, <1>6, <1>7, <1>8, <1>9, <1>10, <1>11, <1>12

\* The steps of a poll.
LEMMA TypesInPolls ==
    ASSUME TypeInv, NEW w \in Worker, PollStep(w)
    PROVE  TypeInv'
<1> DEFINE g == GroupOf[w]
           r == First(batch[w])
<1> USE DEF TypeInv
<1>g. g \in Group
  BY GroupAssumption
<1>r. ASSUME batch[w] # {}
      PROVE  r \in batch[w] /\ r \in Row /\ r.offset \in Offset /\ r.id \in Id
  <2>1. batch[w] \in SUBSET Row
    BY DEF TypeOK
  <2>2. r \in batch[w]
    BY <1>r, <2>1, FirstIsLowest
  <2> QED BY <2>1, <2>2 DEF Row
<1>1. CASE Fetch(w)
  <2>1. FetchByOffset(mark[g]) \subseteq Row
    BY DEF FetchByOffset, Above, TypeOK
  <2>2. batch' \in [Worker -> SUBSET Row]
    BY <1>1, <2>1 DEF Fetch, TypeOK
  <2>3. marked' \subseteq Group
    BY <1>1, <1>g DEF Fetch, TypeOK
  <2> QED BY <1>1, <2>2, <2>3 DEF Fetch, TypeOK, Visiting, history
<1>2. CASE Look(w)
  <2>1. batch[w] # {} /\ pc[w] = "walk" /\ UNCHANGED <<table, inited, target, history>>
    BY <1>2 DEF Look
  <2>2. \/ pc' = pc /\ \E b \in {{}, batch[w] \ {r}} : batch' = [batch EXCEPT ![w] = b]
        \/ pc' = [pc EXCEPT ![w] = "mark"] /\ batch' = batch
    <3> HIDE DEF TypeInv, r
    <3> QED BY <1>2 DEF Look, r
  <2>3. LoopTypes'
    <3> HIDE DEF r, g
    <3>1. CASE pc' = pc /\ \E b \in {{}, batch[w] \ {r}} : batch' = [batch EXCEPT ![w] = b]
      <4>1. PICK b \in {{}, batch[w] \ {r}} : batch' = [batch EXCEPT ![w] = b]
        BY <3>1
      <4>2. b \subseteq batch[w] /\ batch \in [Worker -> SUBSET Row]
        BY <4>1 DEF TypeOK
      <4>3. batch' \in [Worker -> SUBSET Row]
        BY <4>1, <4>2
      <4>4. Visiting'
        BY <2>1, <3>1, <4>1, <4>2 DEF Visiting
      <4> QED BY <2>1, <3>1, <4>3, <4>4 DEF LoopTypes, TypeOK
    <3>2. CASE pc' = [pc EXCEPT ![w] = "mark"] /\ batch' = batch
      BY <2>1, <3>2 DEF LoopTypes, TypeOK, Visiting
    <3> QED BY <2>2, <3>1, <3>2
  <2> HIDE DEF r, g
  <2> QED BY <2>1, <2>3 DEF LoopTypes, TypeOK, table, history
<1>3. CASE Deliver(w)
  <2>1. r \in batch[w] /\ r.offset \in Offset /\ r.id \in Id
    BY <1>3, <1>r DEF Deliver, Visiting
  <2> DEFINE s == MarkDelivered(ds[g][r.offset])
  <2>2. s \in State
    <3>1. ds[g][r.offset] \in State BY <1>g, <2>1 DEF TypeOK
    <3> QED BY <3>1, StateOperations
  <2>3. ds' \in [Group -> [Offset -> State]]
    BY <1>3, <1>g, <2>1, <2>2, StateUpdate DEF Deliver
  <2>4. [group |-> g, id |-> r.id, offset |-> r.offset, attempt |-> s.retry + 1] \in Delivery
    <3>1. s.retry + 1 \in 1..(MaxAttempts + 1)
      BY <2>2, ConfigAssumption DEF State
    <3> QED BY <1>g, <2>1, <3>1 DEF Delivery
  <2>5. out' \subseteq Delivery
    <3> HIDE DEF r, s, g
    <3> QED BY <1>3, <2>4 DEF Deliver, TypeOK, r, s, g
  <2>6. pc[w] = "mark" /\ batch[w] # {}
    BY <1>3 DEF Deliver, Visiting
  <2>7. LoopTypes'
    <3>1. /\ UNCHANGED <<inited, target>>
          /\ \/ pc' = [pc EXCEPT ![w] = "exhausted"] /\ batch' = batch
             \/ pc' = [pc EXCEPT ![w] = "walk"] /\ batch' = [batch EXCEPT ![w] = @ \ {r}]
      <4> HIDE DEF r, s, g
      <4> QED BY <1>3 DEF Deliver, r, s, g
    <3> HIDE DEF r, s, g
    <3>2. CASE pc' = [pc EXCEPT ![w] = "exhausted"] /\ batch' = batch
      BY <2>6, <3>1, <3>2 DEF TypeOK, LoopTypes, Visiting
    <3>3. CASE pc' = [pc EXCEPT ![w] = "walk"] /\ batch' = [batch EXCEPT ![w] = @ \ {r}]
      BY <3>1, <3>3 DEF TypeOK, LoopTypes, Visiting
    <3> QED BY <3>1, <3>2, <3>3
  <2> QED BY <1>3, <2>3, <2>5, <2>7 DEF Deliver, TypeOK, LoopTypes, history
<1>4. CASE Exhausted(w)
  <2>1. r.offset \in Offset /\ r.id \in Id
    BY <1>4, <1>r DEF Exhausted, Visiting
  <2>2. /\ rows' \subseteq Row /\ dlq' \subseteq Id
        /\ ds' \in [Group -> [Offset -> State]] /\ settled' \in [Group -> SUBSET Offset]
    BY <1>4, <1>g, <2>1, DeadLetterTypes DEF Exhausted
  <2> QED BY <1>4, <2>2 DEF Exhausted, TypeOK, Visiting
<1>5. CASE PollFails(w)
  <2>1. r.offset \in Offset /\ r.id \in Id
    BY <1>5, <1>r DEF PollFails, Visiting
  <2>2. /\ rows' \subseteq Row /\ dlq' \subseteq Id
        /\ settled' \in [Group -> SUBSET Offset] /\ faults' \in 0..MaxFaults
    <3>1. CASE UNCHANGED <<rows, dlq, settled, faults>>
      BY <3>1 DEF TypeOK
    <3>2. CASE MovedOnly(g, r.offset, r.id)
      BY <1>g, <2>1, <3>2, MovedOnlyTypes
    <3> QED BY <1>5, <3>1, <3>2 DEF PollFails
  <2> QED BY <1>5, <2>2 DEF PollFails, TypeOK, Visiting
<1>6. CASE AdvanceWatermark(w)
  <2>1. Contiguous(g) \in 0..MaxOffset
    BY <1>g, ContiguousIsAcked
  <2>2. NoState \in State
    BY ConfigAssumption DEF State, NoState
  <2>3. ds' \in [Group -> [Offset -> State]]
    <3> DEFINE f == [o \in Offset |-> IF o <= Contiguous(g) THEN NoState ELSE ds[g][o]]
    <3>1. f \in [Offset -> State]
      BY <1>g, <2>2 DEF TypeOK
    <3>2. ds' = [ds EXCEPT ![g] = f] \/ ds' = ds
      BY <1>6, <1>g DEF AdvanceWatermark, TypeOK
    <3> HIDE DEF f
    <3> QED BY <3>1, <3>2 DEF TypeOK
  <2>4. LoopTypes'
    <3>1. /\ UNCHANGED <<inited, batch>>
          /\ \E phase \in {"save", "collect"} : pc' = [pc EXCEPT ![w] = phase]
          /\ target' = target \/ target' = [target EXCEPT ![w] = Contiguous(g)]
      BY <1>6 DEF AdvanceWatermark
    <3>2. target' \in [Worker -> 0..MaxOffset]
      <4> HIDE DEF g
      <4> QED BY <2>1, <3>1 DEF TypeOK
    <3> HIDE DEF g, r
    <3> QED BY <3>1, <3>2 DEF TypeOK, LoopTypes, Visiting
  <2> QED BY <1>6, <2>3, <2>4 DEF AdvanceWatermark, TypeOK, LoopTypes, history
<1>7. CASE UpdateAckedOffset(w)
  <2>1. mark' \in [Group -> 0..MaxOffset]
    BY <1>7, <1>g DEF UpdateAckedOffset, TypeOK
  <2>2. LoopTypes'
    BY <1>7, BoundAssumption DEF UpdateAckedOffset, TypeOK, LoopTypes, Visiting
  <2> QED BY <1>7, <2>1, <2>2 DEF UpdateAckedOffset, TypeOK, LoopTypes, history
<1>8. CASE GarbageCollect(w)
  BY <1>8 DEF GarbageCollect, TypeOK, Visiting, history
<1>9. CASE SkipCollect(w)
  BY <1>9 DEF SkipCollect, TypeOK, Visiting, table, history
<1>10. CASE DeleteOffset(w)
  BY <1>10, TypesOutsidePolls
<1> HIDE DEF TypeInv
<1> QED BY <1>1, <1>2, <1>3, <1>4, <1>5, <1>6, <1>7, <1>8, <1>9, <1>10 DEF PollStep

\* The steps of consumers.
LEMMA TypesOfConsumers ==
    ASSUME TypeInv,
           \/ \E g \in Group, o \in Offset : Lapse(g, o)
           \/ \E d \in out : Finish(d) \/ Extend(d)
    PROVE  TypeInv'
<1> USE DEF TypeInv
<1>1. ASSUME NEW g \in Group, NEW o \in Offset, Lapse(g, o) PROVE TypeInv'
  <2>1. [ds[g][o] EXCEPT !.hidden = FALSE] \in State
    <3>1. ds[g][o] \in State BY DEF TypeOK
    <3> QED BY <3>1, StateOperations
  <2>2. ds' = [ds EXCEPT ![g][o] = [ds[g][o] EXCEPT !.hidden = FALSE]]
    BY <1>1 DEF Lapse, TypeOK
  <2>3. ds' \in [Group -> [Offset -> State]]
    BY <2>1, <2>2, StateUpdate
  <2> QED BY <1>1, <2>3 DEF Lapse, TypeOK, Visiting, loop, history
<1>2. ASSUME NEW d \in out, Finish(d) \/ Extend(d) PROVE TypeInv'
  <2>1. d.group \in Group /\ d.offset \in Offset /\ d.id \in Id
    BY DEF TypeOK, Delivery
  <2> DEFINE s == ds[d.group][d.offset]
  <2>2. /\ MarkAcked(s) \in State /\ MarkNacked(s) \in State
        /\ MarkPostponed(s) \in State /\ ExtendVisibility(s) \in State
    <3>1. s \in State BY <2>1 DEF TypeOK
    <3> HIDE DEF s
    <3> QED BY <3>1, StateOperations
  <2>3. CASE Ack(d)
    <3>1. ds' \in [Group -> [Offset -> State]]
      BY <2>1, <2>2, <2>3, StateUpdate DEF Ack
    <3> QED BY <2>1, <2>3, <3>1 DEF Ack, TypeOK, Visiting, loop
  <2>4. CASE Nack(d)
    <3>1. ds' \in [Group -> [Offset -> State]]
      BY <2>1, <2>2, <2>4, StateUpdate DEF Nack
    <3> QED BY <2>4, <3>1 DEF Nack, TypeOK, Visiting, loop, history
  <2>5. CASE Reject(d)
    <3>1. /\ rows' \subseteq Row /\ dlq' \subseteq Id
          /\ ds' \in [Group -> [Offset -> State]] /\ settled' \in [Group -> SUBSET Offset]
      BY <2>1, <2>5, DeadLetterTypes DEF Reject
    <3> QED BY <2>5, <3>1 DEF Reject, TypeOK, Visiting, loop
  <2>6. CASE Postpone(d)
    <3>1. ds' \in [Group -> [Offset -> State]]
      BY <2>1, <2>2, <2>6, StateUpdate DEF Postpone
    <3> QED BY <2>6, <3>1 DEF Postpone, TypeOK, Visiting, loop, history
  <2>7. CASE Extend(d)
    <3>1. ds' \in [Group -> [Offset -> State]]
      BY <2>1, <2>2, <2>7, StateUpdate DEF Extend
    <3> QED BY <2>7, <3>1 DEF Extend, TypeOK, Visiting, loop, history
  <2>8. CASE Drop(d)
    <3>1. /\ rows' \subseteq Row /\ dlq' \subseteq Id
          /\ settled' \in [Group -> SUBSET Offset] /\ faults' \in 0..MaxFaults
      <4>1. CASE UNCHANGED <<rows, dlq, settled, faults>>
        BY <4>1 DEF TypeOK
      <4>2. CASE MovedOnly(d.group, d.offset, d.id)
        BY <2>1, <4>2, MovedOnlyTypes
      <4> QED BY <2>8, <4>1, <4>2 DEF Drop
    <3> QED BY <2>8, <3>1 DEF Drop, TypeOK, Visiting, loop
  <2> QED BY <1>2, <2>3, <2>4, <2>5, <2>6, <2>7, <2>8 DEF Finish
<1> HIDE DEF TypeInv
<1> QED BY <1>1, <1>2

\* The operator's commands.
LEMMA TypesOfCommands ==
    ASSUME TypeInv, Admin
    PROVE  TypeInv'
<1> USE DEF TypeInv
<1>f. ASSUME Command PROVE faults' \in 0..MaxFaults
  BY <1>f, BoundAssumption DEF Command, TypeOK
<1>1. ASSUME NEW rs \in SUBSET rows, Command, Deletes(rs) PROVE TypeInv'
  <2>1. {r.offset : r \in rs} \subseteq Offset
    BY DEF TypeOK, Row
  <2> QED BY <1>1, <1>f, <2>1 DEF Deletes, TypeOK, Visiting, loop
<1>2. ASSUME NEW id \in Id, DeleteMessage(id) PROVE TypeInv'
  <2>1. Named(id) \in SUBSET rows
    BY DEF Named
  <2> QED BY <1>1, <1>2, <2>1 DEF DeleteMessage
<1>3. CASE PurgeTopic
  BY <1>1, <1>3 DEF PurgeTopic
<1>4. CASE PurgeDLQ
  BY <1>4, <1>f DEF PurgeDLQ, TypeOK, Visiting, loop
<1>5. ASSUME NEW id \in Id, RequeueDLQ(id) PROVE TypeInv'
  <2>1. next \in Offset /\ next + 1 \in 1..(MaxOffset + 1)
    BY <1>5, BoundAssumption DEF RequeueDLQ, TypeOK, Offset
  <2>2. [id |-> id, offset |-> next] \in Row
    BY <2>1 DEF Row
  <2> QED BY <1>5, <1>f, <2>1, <2>2 DEF RequeueDLQ, TypeOK, Visiting, loop
<1>6. ASSUME NEW g \in Group, NEW n \in 0..MaxOffset, ResetOffset(g, n) PROVE TypeInv'
  <2>1. {r.offset : r \in {q \in log : q.offset <= n}} \subseteq Offset
    BY DEF TypeOK, Row
  <2>2. settled' \in [Group -> SUBSET Offset]
    BY <1>6, <2>1 DEF ResetOffset, TypeOK
  <2> QED BY <1>6, <1>f, <2>2 DEF ResetOffset, TypeOK, Visiting, loop
<1>7. ASSUME NEW g \in Group, ReleaseStuckLease(g) PROVE TypeInv'
  <2>1. lease' \in [Group -> Lease]
    BY <1>7, LeaseUpdate DEF ReleaseStuckLease, Lease
  <2> QED BY <1>7, <1>f, <2>1 DEF ReleaseStuckLease, TypeOK, Visiting, loop, Lease
<1> HIDE DEF TypeInv
<1> QED BY <1>2, <1>3, <1>4, <1>5, <1>6, <1>7 DEF Admin

LEMMA TypeIsInductive == TypeInv /\ [Next \/ Admin]_vars => TypeInv'
<1> SUFFICES ASSUME TypeInv, [Next \/ Admin]_vars PROVE TypeInv'
  OBVIOUS
<1>1. CASE UNCHANGED vars
  BY <1>1 DEF TypeInv, TypeOK, Visiting, vars, table, loop, history
<1>2. CASE Admin
  BY <1>2, TypesOfCommands
<1>3. CASE Next
  BY <1>3, TypesOutsidePolls, TypesInPolls, TypesOfConsumers DEF Next
<1> QED BY <1>1, <1>2, <1>3

\* The tables and the loops keep their shape whatever workers, consumers and
\* operators do, and a delivery never counts past the retry budget
\* (queue_delivery_state, pollAndDeliver, ctl).
THEOREM QueueTypes == AdminSpec => []TypeOK
<1>1. TypeInv => TypeOK
  BY DEF TypeInv
<1> QED BY <1>1, TypeInit, TypeIsInductive, PTL DEF AdminSpec

----------------------------------------------------------------------------
(* Order and loss.                                                          *)

\* Offsets are handed out in the order in which rows commit: one publishing
\* transaction at a time.
LogInOrder ==
    /\ rows \subseteq log
    /\ \A r \in log \cup txs : r.offset < next
    /\ \A r, q \in log \cup txs : r.offset = q.offset => r = q
    /\ \A r \in log, t \in txs : r.offset < t.offset
    /\ \A t, u \in txs : t = u

\* An ack on record is an ack the group gave.
AckedIsSettled == \A g \in Group, o \in Offset : ds[g][o].acked => o \in settled[g]

\* n is a place a watermark may stand at, with every row it passes settled.
Stands(l, rs, done, n) ==
    /\ n = 0 \/ \E r \in l : r.offset = n
    /\ \A r \in rs : r.offset <= n => r.offset \in done

Watermarks ==
    /\ \A g \in Group : Stands(log, rows, settled[g], mark[g])
    /\ \A w \in Worker : Stands(log, rows, settled[GroupOf[w]], target[w])

\* What a poll fetched one at a time has nothing unsettled before it.
InOrder(rs, done, b) == \A r \in rs : r.offset < b.offset => r.offset \in done

Batches ==
    \A w \in Worker : \A b \in batch[w] :
        b \in log /\ (BatchSize = 1 => InOrder(rows, settled[GroupOf[w]], b))

QInv == TypeInv /\ LogInOrder /\ AckedIsSettled /\ Watermarks /\ Batches

\* What a step may do to what the invariant relates.
Shrinks == rows' \subseteq rows /\ UNCHANGED <<txs, next, log>>
SettlesMore == \A g \in Group : settled[g] \subseteq settled'[g]
MarkStep ==
    \A g \in Group :
        \/ mark'[g] = mark[g] \/ mark'[g] = 0
        \/ /\ \E w \in Worker : GroupOf[w] = g /\ mark'[g] = target[w]
           /\ UNCHANGED <<rows, log, settled>>
        \/ /\ \E r \in rows : r.offset = mark'[g]
           /\ \A q \in log : q.offset <= mark'[g] => q.offset \in settled'[g]
           /\ UNCHANGED <<rows, log>>
LoopStep ==
    \A w \in Worker :
        /\ \/ target'[w] = target[w] \/ target'[w] = 0
           \/ target'[w] = Contiguous(GroupOf[w]) /\ UNCHANGED <<rows, log, settled>>
        /\ \/ batch'[w] \subseteq batch[w]
           \/ batch'[w] = FetchByOffset(mark[GroupOf[w]]) /\ UNCHANGED <<rows, log, settled>>
AckStep ==
    \A g \in Group, o \in Offset : ds'[g][o].acked => ds[g][o].acked \/ o \in settled'[g]

StepShape == Shrinks /\ SettlesMore /\ MarkStep /\ LoopStep /\ AckStep

\* Each step but an insertion, a commit and a rollback, and a message put back
\* by the operator, has that shape.
LEMMA DeadLetterShape ==
    ASSUME TypeOK, NEW g \in Group, NEW o \in Offset, NEW id \in Id,
           DeadLetter(g, o, id)
    PROVE  /\ rows' \subseteq rows /\ SettlesMore /\ AckStep
<1>1. rows' \subseteq rows
  BY DEF DeadLetter, MoveToDLQ
<1>2. SettlesMore /\ o \in settled'[g]
  BY DEF DeadLetter, SettlesMore, TypeOK
<1>3. ds' = [ds EXCEPT ![g][o] = MarkAcked(ds[g][o])]
  BY DEF DeadLetter, TypeOK
<1>4. AckStep
  BY <1>2, <1>3 DEF AckStep, TypeOK
<1> QED BY <1>1, <1>2, <1>4

LEMMA MovedOnlyShape ==
    ASSUME TypeOK, NEW g \in Group, NEW o \in Offset, NEW id \in Id,
           MovedOnly(g, o, id)
    PROVE  /\ rows' \subseteq rows /\ SettlesMore
  BY DEF MovedOnly, MoveToDLQ, SettlesMore, TypeOK

LEMMA QuietShape ==
    ASSUME TypeOK, UNCHANGED <<rows, txs, next, log, settled>>, UNCHANGED <<mark, ds>>,
           \A w \in Worker : target'[w] \in {target[w], 0} /\ batch'[w] \subseteq batch[w]
    PROVE  StepShape
  BY DEF StepShape, Shrinks, SettlesMore, MarkStep, LoopStep, AckStep

LEMMA ShapeOutsidePolls ==
    ASSUME TypeInv,
           \/ \E id \in Id : DrainDLQ(id)
           \/ \E g \in Group : LeaseLapses(g)
           \/ \E w \in Worker : \/ TryAcquireLease(w) \/ RenewOwnedLeases(w) \/ StopPartitionWorker(w)
                                \/ Crash(w) \/ ReleaseLease(w) \/ ReleaseDrained(w) \/ DeleteOffset(w)
    PROVE  StepShape
<1> USE DEF TypeInv
<1>1. ASSUME NEW id \in Id, DrainDLQ(id) PROVE StepShape
  BY <1>1, QuietShape DEF DrainDLQ, loop, history
<1>2. ASSUME NEW g \in Group, LeaseLapses(g) PROVE StepShape
  BY <1>2, QuietShape DEF LeaseLapses, loop
<1>3. ASSUME NEW w \in Worker, TryAcquireLease(w) PROVE StepShape
  BY <1>3, QuietShape DEF TryAcquireLease, history
<1>4. ASSUME NEW w \in Worker, RenewOwnedLeases(w) PROVE StepShape
  BY <1>4, QuietShape DEF RenewOwnedLeases, loop, history
<1>s. ASSUME NEW w \in Worker, batch' = [batch EXCEPT ![w] = {}], target' = [target EXCEPT ![w] = 0]
      PROVE  \A v \in Worker : target'[v] \in {target[v], 0} /\ batch'[v] \subseteq batch[v]
  BY <1>s DEF TypeOK
<1>5. ASSUME NEW w \in Worker, StopPartitionWorker(w) PROVE StepShape
  BY <1>5, <1>s, QuietShape DEF StopPartitionWorker, StopLoop, table, history
<1>6. ASSUME NEW w \in Worker, Crash(w) PROVE StepShape
  BY <1>6, <1>s, QuietShape DEF Crash, StopLoop
<1>7. ASSUME NEW w \in Worker, ReleaseLease(w) PROVE StepShape
  BY <1>7, <1>s, QuietShape DEF ReleaseLease, StopLoop
<1>8. ASSUME NEW w \in Worker, ReleaseDrained(w) PROVE StepShape
  BY <1>8, <1>s, QuietShape DEF ReleaseDrained, history
<1>9. ASSUME NEW w \in Worker, DeleteOffset(w) PROVE StepShape
  <2>1. MarkStep
    BY <1>9 DEF DeleteOffset, MarkStep, TypeOK
  <2>2. LoopStep
    BY <1>9, <1>s DEF DeleteOffset, StopLoop, LoopStep
  <2> QED BY <1>9, <2>1, <2>2 DEF DeleteOffset, StepShape, Shrinks, SettlesMore, AckStep, history
<1> HIDE DEF TypeInv
<1> QED BY <1>1, <1>2, <1>3, <1>4, <1>5, <1>6, <1>7, <1>8, <1>9

LEMMA ShapeOfPolls ==
    ASSUME TypeInv, NEW w \in Worker, PollStep(w)
    PROVE  StepShape
<1> DEFINE g == GroupOf[w]
           r == First(batch[w])
<1> USE DEF TypeInv
<1>g. g \in Group
  BY GroupAssumption
<1>r. ASSUME pc[w] \in {"mark", "exhausted"}
      PROVE  r \in Row /\ r.offset \in Offset /\ r.id \in Id
  <2>1. batch[w] \in SUBSET Row /\ batch[w] # {}
    BY <1>r DEF TypeOK, Visiting
  <2>2. r \in batch[w]
    BY <2>1, FirstIsLowest
  <2> QED BY <2>1, <2>2 DEF Row
<1>1. CASE Fetch(w)
  BY <1>1 DEF Fetch, StepShape, Shrinks, SettlesMore, MarkStep, LoopStep, AckStep, TypeOK, history
<1>2. CASE Look(w)
  BY <1>2, QuietShape DEF Look, TypeOK, table, history
<1>3. CASE Deliver(w)
  <2>1. r.offset \in Offset
    BY <1>3, <1>r DEF Deliver
  <2>2. ds[g][r.offset] \in State
    BY <1>g, <2>1 DEF TypeOK
  <2>3. MarkDelivered(ds[g][r.offset]).acked => ds[g][r.offset].acked
    BY <2>2, StateOperations
  <2>4. AckStep
    BY <1>3, <1>g, <2>1, <2>3 DEF Deliver, AckStep, TypeOK
  <2> QED BY <1>3, <2>4 DEF Deliver, StepShape, Shrinks, SettlesMore, MarkStep, LoopStep, TypeOK, history
<1>4. CASE Exhausted(w)
  <2>1. rows' \subseteq rows /\ SettlesMore /\ AckStep
    BY <1>4, <1>g, <1>r, DeadLetterShape DEF Exhausted
  <2> QED BY <1>4, <2>1 DEF Exhausted, StepShape, Shrinks, MarkStep, LoopStep, TypeOK
<1>5. CASE PollFails(w)
  <2>1. rows' \subseteq rows /\ SettlesMore
    <3>1. CASE UNCHANGED <<rows, dlq, settled, faults>>
      BY <3>1 DEF SettlesMore
    <3>2. CASE MovedOnly(g, r.offset, r.id)
      BY <1>5, <1>g, <1>r, <3>2, MovedOnlyShape DEF PollFails
    <3> QED BY <1>5, <3>1, <3>2 DEF PollFails
  <2> QED BY <1>5, <2>1 DEF PollFails, StepShape, Shrinks, MarkStep, LoopStep, AckStep, TypeOK
<1>6. CASE AdvanceWatermark(w)
  <2>1. AckStep
    <3> SUFFICES ASSUME NEW k \in Group, NEW o \in Offset, ds'[k][o].acked
                 PROVE  ds[k][o].acked
      BY DEF AckStep
    <3>1. ds'[k][o] = ds[k][o] \/ ds'[k][o] = NoState
      <4> DEFINE f == [q \in Offset |-> IF q <= Contiguous(g) THEN NoState ELSE ds[g][q]]
      <4>1. ds' = [ds EXCEPT ![g] = f] \/ ds' = ds
        BY <1>6, <1>g DEF AdvanceWatermark, TypeOK
      <4>2. f[o] = NoState \/ f[o] = ds[g][o]
        OBVIOUS
      <4> HIDE DEF f
      <4> QED BY <4>1, <4>2 DEF TypeOK
    <3> QED BY <3>1 DEF NoState
  <2>2. LoopStep
    BY <1>6 DEF AdvanceWatermark, LoopStep, TypeOK, history
  <2> QED BY <1>6, <2>1, <2>2 DEF AdvanceWatermark, StepShape, Shrinks, SettlesMore, MarkStep, history
<1>7. CASE UpdateAckedOffset(w)
  <2>1. MarkStep
    BY <1>7 DEF UpdateAckedOffset, MarkStep, TypeOK, history
  <2> QED BY <1>7, <2>1 DEF UpdateAckedOffset, StepShape, Shrinks, SettlesMore, LoopStep, AckStep, TypeOK, history
<1>8. CASE GarbageCollect(w)
  BY <1>8 DEF GarbageCollect, StepShape, Shrinks, SettlesMore, MarkStep, LoopStep, AckStep, history
<1>9. CASE SkipCollect(w)
  BY <1>9, QuietShape DEF SkipCollect, table, history
<1>10. CASE DeleteOffset(w)
  BY <1>10, ShapeOutsidePolls
<1> HIDE DEF TypeInv
<1> QED BY <1>1, <1>2, <1>3, <1>4, <1>5, <1>6, <1>7, <1>8, <1>9, <1>10 DEF PollStep

LEMMA ShapeOfConsumers ==
    ASSUME TypeInv,
           \/ \E g \in Group, o \in Offset : Lapse(g, o)
           \/ \E d \in out : Finish(d) \/ Extend(d)
    PROVE  StepShape
<1> USE DEF TypeInv
<1>1. ASSUME NEW g \in Group, NEW o \in Offset, Lapse(g, o) PROVE StepShape
  <2>1. AckStep
    BY <1>1 DEF Lapse, AckStep, TypeOK
  <2> QED BY <1>1, <2>1 DEF Lapse, StepShape, Shrinks, SettlesMore, MarkStep, LoopStep, loop, history
<1>2. ASSUME NEW d \in out, Finish(d) \/ Extend(d) PROVE StepShape
  <2> DEFINE g == d.group
             o == d.offset
  <2>1. g \in Group /\ o \in Offset /\ d.id \in Id
    BY DEF TypeOK, Delivery
  <2>2. ds[g][o] \in State
    BY <2>1 DEF TypeOK
  <2>3. /\ MarkNacked(ds[g][o]).acked => ds[g][o].acked
        /\ MarkPostponed(ds[g][o]).acked => ds[g][o].acked
        /\ ExtendVisibility(ds[g][o]).acked => ds[g][o].acked
    BY <2>2, StateOperations
  <2> HIDE DEF g, o
  <2>4. ASSUME NEW s, ds' = [ds EXCEPT ![g][o] = s], s.acked => ds[g][o].acked \/ o \in settled'[g]
        PROVE  AckStep
    BY <2>1, <2>4 DEF AckStep, TypeOK
  <2>5. CASE Ack(d)
    <3>1. SettlesMore /\ o \in settled'[g]
      BY <2>1, <2>5 DEF Ack, SettlesMore, TypeOK, g, o
    <3>2. AckStep
      BY <2>4, <2>5, <3>1 DEF Ack, g, o
    <3> QED BY <2>5, <3>1, <3>2 DEF Ack, StepShape, Shrinks, MarkStep, LoopStep, loop
  <2>6. CASE Nack(d)
    <3>1. AckStep
      BY <2>3, <2>4, <2>6 DEF Nack, g, o
    <3> QED BY <2>6, <3>1 DEF Nack, StepShape, Shrinks, SettlesMore, MarkStep, LoopStep, loop, history
  <2>7. CASE Reject(d)
    <3>1. rows' \subseteq rows /\ SettlesMore /\ AckStep
      BY <2>1, <2>7, DeadLetterShape DEF Reject, g, o
    <3> QED BY <2>7, <3>1 DEF Reject, StepShape, Shrinks, MarkStep, LoopStep, loop
  <2>8. CASE Postpone(d)
    <3>1. AckStep
      BY <2>3, <2>4, <2>8 DEF Postpone, g, o
    <3> QED BY <2>8, <3>1 DEF Postpone, StepShape, Shrinks, SettlesMore, MarkStep, LoopStep, loop, history
  <2>9. CASE Extend(d)
    <3>1. AckStep
      BY <2>3, <2>4, <2>9 DEF Extend, g, o
    <3> QED BY <2>9, <3>1 DEF Extend, StepShape, Shrinks, SettlesMore, MarkStep, LoopStep, loop, history
  <2>10. CASE Drop(d)
    <3>1. rows' \subseteq rows /\ SettlesMore
      <4>1. CASE UNCHANGED <<rows, dlq, settled, faults>>
        BY <4>1 DEF SettlesMore
      <4>2. CASE MovedOnly(d.group, d.offset, d.id)
        BY <2>1, <4>2, MovedOnlyShape DEF g, o
      <4> QED BY <2>10, <4>1, <4>2 DEF Drop
    <3> QED BY <2>10, <3>1 DEF Drop, StepShape, Shrinks, MarkStep, LoopStep, AckStep, loop
  <2> QED BY <1>2, <2>5, <2>6, <2>7, <2>8, <2>9, <2>10 DEF Finish
<1> HIDE DEF TypeInv
<1> QED BY <1>1, <1>2

\* The operator's commands, but for the one that puts a message back.
LEMMA ShapeOfCommands ==
    ASSUME TypeInv, Admin
    PROVE  StepShape \/ \E id \in Id : RequeueDLQ(id)
<1> USE DEF TypeInv
<1>1. ASSUME NEW rs \in SUBSET rows, Command, Deletes(rs) PROVE StepShape
  <2>1. SettlesMore
    BY <1>1 DEF Deletes, SettlesMore, TypeOK
  <2> QED BY <1>1, <2>1 DEF Deletes, StepShape, Shrinks, MarkStep, LoopStep, AckStep, loop
<1>2. ASSUME NEW id \in Id, DeleteMessage(id) PROVE StepShape
  <2>1. Named(id) \in SUBSET rows
    BY DEF Named
  <2> QED BY <1>1, <1>2, <2>1 DEF DeleteMessage
<1>3. CASE PurgeTopic
  BY <1>1, <1>3 DEF PurgeTopic
<1>4. CASE PurgeDLQ
  BY <1>4, QuietShape DEF PurgeDLQ, loop
<1>5. ASSUME NEW g \in Group, NEW n \in 0..MaxOffset, ResetOffset(g, n) PROVE StepShape
  <2>1. SettlesMore
    BY <1>5 DEF ResetOffset, SettlesMore, TypeOK
  <2>2. MarkStep
    <3> SUFFICES ASSUME NEW k \in Group, mark'[k] # mark[k], mark'[k] # 0
                 PROVE  /\ \E r \in rows : r.offset = mark'[k]
                        /\ \A q \in log : q.offset <= mark'[k] => q.offset \in settled'[k]
      BY <1>5 DEF ResetOffset, MarkStep
    <3>1. k = g /\ mark'[k] = n
      BY <1>5 DEF ResetOffset, TypeOK
    <3>2. \E r \in rows : r.offset = n
      BY <1>5, <3>1 DEF ResetOffset
    <3>3. \A q \in log : q.offset <= n => q.offset \in settled'[g]
      BY <1>5 DEF ResetOffset, TypeOK
    <3> QED BY <3>1, <3>2, <3>3
  <2> QED BY <1>5, <2>1, <2>2 DEF ResetOffset, StepShape, Shrinks, LoopStep, AckStep, loop
<1>6. ASSUME NEW g \in Group, ReleaseStuckLease(g) PROVE StepShape
  BY <1>6, QuietShape DEF ReleaseStuckLease, loop
<1> HIDE DEF TypeInv
<1> QED BY <1>2, <1>3, <1>4, <1>5, <1>6 DEF Admin

LEMMA StepsHaveShape ==
    ASSUME TypeInv, [Next \/ Admin]_vars
    PROVE  \/ StepShape
           \/ \E id \in Id : Insert(id) \/ RequeueDLQ(id)
           \/ \E r \in txs : Commit(r) \/ Rollback(r)
<1>1. CASE UNCHANGED vars
  BY <1>1, QuietShape DEF TypeInv, vars, table, loop, history
<1>2. CASE Admin
  BY <1>2, ShapeOfCommands
<1>3. CASE Next
  BY <1>3, ShapeOutsidePolls, ShapeOfPolls, ShapeOfConsumers DEF Next
<1> QED BY <1>1, <1>2, <1>3

\* What is published, or put back, comes after all there was.
Grows ==
    /\ log \subseteq log' /\ SettlesMore
    /\ rows' \ rows \subseteq log' \ log
    /\ log' \ log \subseteq rows'
    /\ \A r \in log' \ log, q \in log : q.offset < r.offset

LEMMA LogGrows ==
    ASSUME ~Overlapping, TypeInv, LogInOrder, [Next \/ Admin]_vars
    PROVE  LogInOrder' /\ Grows
<1>1. CASE StepShape
  BY <1>1 DEF StepShape, Shrinks, LogInOrder, Grows
<1>2. ASSUME NEW id \in Id, Insert(id) PROVE LogInOrder' /\ Grows
  <2> DEFINE r == [id |-> id, offset |-> next]
  <2>1. txs = {} /\ txs' = {r} /\ next' = next + 1 /\ UNCHANGED <<rows, log, settled>>
    BY <1>2 DEF Insert, history
  <2>2. next \in Nat /\ log \subseteq Row /\ \A q \in log : q.offset \in Nat
    BY BoundAssumption DEF TypeInv, TypeOK, Row, Offset
  <2>3. r.offset = next
    OBVIOUS
  <2> HIDE DEF r
  <2>4. \A q \in log : q.offset < next
    BY DEF LogInOrder
  <2>5. \A q \in log \cup {r} : q.offset < next + 1
    BY <2>2, <2>3, <2>4
  <2>6. \A p, q \in log \cup {r} : p.offset = q.offset => p = q
    BY <2>2, <2>3, <2>4 DEF LogInOrder
  <2> QED BY <2>1, <2>3, <2>4, <2>5, <2>6 DEF LogInOrder, Grows, SettlesMore
<1>3. ASSUME NEW id \in Id, RequeueDLQ(id) PROVE LogInOrder' /\ Grows
  <2> DEFINE r == [id |-> id, offset |-> next]
  <2>1. /\ txs = {} /\ txs' = {} /\ next' = next + 1
        /\ rows' = rows \cup {r} /\ log' = log \cup {r} /\ settled' = settled
    BY <1>3 DEF RequeueDLQ
  <2>2. next \in Nat /\ \A q \in log : q.offset \in Nat
    BY BoundAssumption DEF TypeInv, TypeOK, Row, Offset
  <2>3. r.offset = next
    OBVIOUS
  <2> HIDE DEF r
  <2>4. \A q \in log : q.offset < next
    BY DEF LogInOrder
  <2>5. \A q \in log \cup {r} : q.offset < next + 1
    BY <2>2, <2>3, <2>4
  <2>6. \A p, q \in log \cup {r} : p.offset = q.offset => p = q
    BY <2>2, <2>3, <2>4 DEF LogInOrder
  <2>7. rows' \subseteq log'
    BY <2>1 DEF LogInOrder
  <2>8. r \notin log
    BY <2>2, <2>3, <2>4
  <2> QED BY <2>1, <2>3, <2>4, <2>5, <2>6, <2>7, <2>8 DEF LogInOrder, Grows, SettlesMore
<1>4. ASSUME NEW r \in txs, Commit(r) PROVE LogInOrder' /\ Grows
  <2>1. /\ txs' = {} /\ rows' = rows \cup {r} /\ log' = log \cup {r} /\ next' = next
        /\ settled' = settled
    BY <1>4 DEF Commit, LogInOrder
  <2>2. \A q \in log : q.offset < r.offset
    BY DEF LogInOrder
  <2>3. r \notin log
    BY <2>2 DEF TypeInv, TypeOK, Row, Offset
  <2>4. \A q \in log \cup {r} : q.offset < next
    BY DEF LogInOrder
  <2>5. \A p, q \in log \cup {r} : p.offset = q.offset => p = q
    BY DEF LogInOrder
  <2>6. rows' \subseteq log'
    BY <2>1 DEF LogInOrder
  <2> QED BY <2>1, <2>2, <2>3, <2>4, <2>5, <2>6 DEF LogInOrder, Grows, SettlesMore
<1>5. ASSUME NEW r \in txs, Rollback(r) PROVE LogInOrder' /\ Grows
  BY <1>5 DEF Rollback, LogInOrder, Grows, SettlesMore, history
<1> QED BY <1>1, <1>2, <1>3, <1>4, <1>5, StepsHaveShape

\* A watermark that stood still stands; a message with nothing unsettled before
\* it keeps its place.
LEMMA StandsStill ==
    ASSUME TypeInv, TypeInv', Grows, NEW g \in Group, NEW n \in Nat,
           Stands(log, rows, settled[g], n)
    PROVE  Stands(log', rows', settled'[g], n)
<1>1. n = 0 \/ \E r \in log' : r.offset = n
  BY DEF Stands, Grows
<1>2. ASSUME NEW r \in rows', r.offset <= n PROVE r.offset \in settled'[g]
  <2>1. CASE r \in rows
    BY <1>2, <2>1 DEF Stands, Grows, SettlesMore
  <2>2. CASE r \notin rows
    <3>1. r.offset \in Nat \ {0} /\ \A q \in log : q.offset \in Nat
      BY BoundAssumption DEF TypeInv, TypeOK, Row, Offset
    <3>2. \A q \in log : q.offset < r.offset
      BY <2>2 DEF Grows
    <3> QED BY <1>2, <3>1, <3>2 DEF Stands
  <2> QED BY <2>1, <2>2
<1> QED BY <1>1, <1>2 DEF Stands

LEMMA OrderStays ==
    ASSUME TypeInv, TypeInv', Grows, NEW g \in Group, NEW b \in log,
           InOrder(rows, settled[g], b)
    PROVE  InOrder(rows', settled'[g], b)
<1> SUFFICES ASSUME NEW r \in rows', r.offset < b.offset
             PROVE  r.offset \in settled'[g]
  BY DEF InOrder
<1>1. CASE r \in rows
  BY <1>1 DEF InOrder, Grows, SettlesMore
<1>2. CASE r \notin rows
  <2>1. b.offset < r.offset
    BY <1>2 DEF Grows
  <2>2. b.offset \in Nat /\ r.offset \in Nat
    BY BoundAssumption DEF TypeInv, TypeOK, Row, Offset
  <2> QED BY <2>1, <2>2
<1> QED BY <1>1, <1>2

LEMMA QueueInit == Init => QInv
<1>1. ASSUME Init PROVE LogInOrder
  BY <1>1 DEF Init, LogInOrder
<1>2. ASSUME Init PROVE AckedIsSettled /\ Watermarks /\ Batches
  BY <1>2, GroupAssumption DEF Init, NoState, AckedIsSettled, Watermarks, Stands, Batches
<1> QED BY <1>1, <1>2, TypeInit DEF QInv

LEMMA QueueInductive ==
    ASSUME ~Overlapping, QInv, [Next \/ Admin]_vars
    PROVE  QInv'
<1>1. TypeInv' /\ LogInOrder' /\ Grows
  BY TypeIsInductive, LogGrows DEF QInv
<1>t. /\ \A w \in Worker : GroupOf[w] \in Group /\ target[w] \in Nat
      /\ \A g \in Group : mark[g] \in Nat
      /\ 0 \in Nat
  BY GroupAssumption, BoundAssumption DEF QInv, TypeInv, TypeOK
<1>m. /\ \A g \in Group : Stands(log', rows', settled'[g], mark[g]) /\ Stands(log', rows', settled'[g], 0)
      /\ \A w \in Worker : Stands(log', rows', settled'[GroupOf[w]], target[w])
  <2>1. \A g \in Group : Stands(log, rows, settled[g], 0)
    BY BoundAssumption DEF Stands, QInv, TypeInv, TypeOK, Row, Offset
  <2> QED BY <1>1, <1>t, <2>1, StandsStill DEF QInv, Watermarks
<1>b. \A w \in Worker : \A b \in batch[w] :
          b \in log' /\ (BatchSize = 1 => InOrder(rows', settled'[GroupOf[w]], b))
  BY <1>1, <1>t, OrderStays DEF QInv, Batches, Grows
<1>2. CASE StepShape
  <2>1. AckedIsSettled'
    BY <1>2 DEF StepShape, SettlesMore, AckStep, QInv, AckedIsSettled
  <2>2. \A g \in Group : Stands(log, rows, settled[g], mark[g])'
    <3> SUFFICES ASSUME NEW g \in Group PROVE Stands(log', rows', settled'[g], mark'[g])
      OBVIOUS
    <3>1. CASE mark'[g] = mark[g] \/ mark'[g] = 0
      BY <1>m, <3>1
    <3>2. CASE \E w \in Worker : GroupOf[w] = g /\ mark'[g] = target[w]
      BY <1>m, <3>2
    <3>3. CASE /\ \E r \in rows : r.offset = mark'[g]
               /\ \A q \in log : q.offset <= mark'[g] => q.offset \in settled'[g]
               /\ UNCHANGED <<rows, log>>
      BY <3>3 DEF Stands, QInv, LogInOrder
    <3> QED BY <1>2, <3>1, <3>2, <3>3 DEF StepShape, MarkStep
  <2>3. \A w \in Worker : Stands(log, rows, settled[GroupOf[w]], target[w])'
    <3> SUFFICES ASSUME NEW w \in Worker PROVE Stands(log', rows', settled'[GroupOf[w]], target'[w])
      OBVIOUS
    <3>1. CASE target'[w] = target[w] \/ target'[w] = 0
      BY <1>m, <1>t, <3>1
    <3>2. CASE target'[w] = Contiguous(GroupOf[w]) /\ UNCHANGED <<rows, log, settled>>
      <4> DEFINE g == GroupOf[w]
      <4>1. Stands(log, rows, settled[g], mark[g])
        BY <1>t DEF QInv, Watermarks
      <4>2. /\ Contiguous(g) \in 0..MaxOffset
            /\ Contiguous(g) = mark[g] \/ \E r \in rows : r.offset = Contiguous(g)
            /\ \A r \in rows : mark[g] < r.offset /\ r.offset <= Contiguous(g) => ds[g][r.offset].acked
        BY <1>t, ContiguousIsAcked DEF QInv, TypeInv
      <4>3. \A r \in rows : r.offset \in Offset /\ r.offset \in Nat
        BY BoundAssumption DEF QInv, TypeInv, TypeOK, Row, Offset
      <4>4. \A r \in rows : r.offset <= Contiguous(g) => r.offset \in settled[g]
        <5> TAKE r \in rows
        <5> HAVE r.offset <= Contiguous(g)
        <5>1. CASE r.offset <= mark[g]
          BY <4>1, <5>1 DEF Stands
        <5>2. CASE mark[g] < r.offset
          BY <1>t, <4>2, <4>3, <5>2 DEF QInv, AckedIsSettled
        <5> QED BY <1>t, <4>3, <5>1, <5>2
      <4>5. Contiguous(g) = 0 \/ \E r \in log : r.offset = Contiguous(g)
        BY <4>1, <4>2 DEF Stands, QInv, LogInOrder
      <4> QED BY <3>2, <4>4, <4>5 DEF Stands
    <3> QED BY <1>2, <3>1, <3>2 DEF StepShape, LoopStep
  <2>4. Batches'
    <3> SUFFICES ASSUME NEW w \in Worker, NEW b \in batch'[w]
                 PROVE  b \in log' /\ (BatchSize = 1 => InOrder(rows', settled'[GroupOf[w]], b))
      BY DEF Batches
    <3>1. CASE batch'[w] \subseteq batch[w]
      BY <1>b, <3>1
    <3>2. CASE batch'[w] = FetchByOffset(mark[GroupOf[w]]) /\ UNCHANGED <<rows, log, settled>>
      <4> DEFINE n == mark[GroupOf[w]]
      <4>1. /\ FetchByOffset(n) \subseteq rows
            /\ BatchSize = 1 =>
                  \A r \in FetchByOffset(n), q \in rows : q.offset < r.offset => q.offset <= n
        BY <1>t, FetchedRows DEF QInv, TypeInv, TypeOK, LogInOrder
      <4>2. Stands(log, rows, settled[GroupOf[w]], n)
        BY <1>t DEF QInv, Watermarks
      <4> HIDE DEF n
      <4> QED BY <3>2, <4>1, <4>2 DEF Stands, InOrder, QInv, LogInOrder, n
    <3> QED BY <1>2, <3>1, <3>2 DEF StepShape, LoopStep
  <2> QED BY <1>1, <2>1, <2>2, <2>3, <2>4 DEF QInv, Watermarks
<1>3. CASE UNCHANGED <<mark, target, batch, ds>> /\ settled' = settled
  <2>1. AckedIsSettled'
    BY <1>3 DEF QInv, AckedIsSettled
  <2>2. Watermarks' /\ Batches'
    BY <1>3, <1>m, <1>b DEF Watermarks, Batches
  <2> QED BY <1>1, <2>1, <2>2 DEF QInv
<1>4. \/ StepShape
      \/ UNCHANGED <<mark, target, batch, ds>> /\ settled' = settled
  BY StepsHaveShape DEF QInv, Insert, RequeueDLQ, Commit, Rollback, loop, history
<1> QED BY <1>2, <1>3, <1>4

\* With a batch size of one, a message reaches a consumer only when every
\* message before it is settled for the group: whatever lapses, crashes, changes
\* of lease and commands come in between (pollAndDeliver, advanceWatermark).
THEOREM InOrderDelivery == ~Overlapping /\ BatchSize = 1 => (AdminSpec => StrictOrder)
<1> SUFFICES ASSUME ~Overlapping, BatchSize = 1 PROVE AdminSpec => StrictOrder
  OBVIOUS
<1>1. QInv /\ [Next \/ Admin]_vars => QInv'
  BY QueueInductive
<1>2. QInv /\ [Next \/ Admin]_vars =>
        [\A d \in out' \ out : \A r \in rows : r.offset < d.offset => r.offset \in settled[d.group]]_vars
  <2> SUFFICES ASSUME QInv, Next \/ Admin, NEW d \in out' \ out, NEW r \in rows, r.offset < d.offset
               PROVE  r.offset \in settled[d.group]
    OBVIOUS
  <2>1. PICK w \in Worker : Deliver(w)
    <3>1. ASSUME NEW w \in Worker, PollStep(w), ~Deliver(w) PROVE out' \subseteq out
      BY <3>1 DEF PollStep, Fetch, Look, Exhausted, PollFails, AdvanceWatermark, UpdateAckedOffset,
                  GarbageCollect, SkipCollect, DeleteOffset, table
    <3>2. ASSUME NEW w \in Worker,
                 \/ TryAcquireLease(w) \/ RenewOwnedLeases(w) \/ StopPartitionWorker(w)
                 \/ Crash(w) \/ ReleaseLease(w) \/ ReleaseDrained(w)
          PROVE  out' \subseteq out
      BY <3>2 DEF TryAcquireLease, RenewOwnedLeases, StopPartitionWorker, Crash, ReleaseLease, ReleaseDrained, table
    <3>3. ASSUME NEW e \in out, Finish(e) \/ Extend(e) PROVE out' \subseteq out
      BY <3>3 DEF Finish, Ack, Nack, Reject, Postpone, Drop, Extend
    <3>4. ASSUME Admin PROVE out' \subseteq out
      BY <3>4 DEF Admin, DeleteMessage, PurgeTopic, Deletes, PurgeDLQ, RequeueDLQ, ResetOffset, ReleaseStuckLease
    <3>5. CASE Next
      <4>1. \/ \E w \in Worker : PollStep(w) /\ Deliver(w)
            \/ out' \subseteq out
        BY <3>1, <3>2, <3>3, <3>5 DEF Next, Insert, DrainDLQ, Commit, Rollback, LeaseLapses, Lapse
      <4> QED BY <4>1
    <3> QED BY <3>4, <3>5
  <2> DEFINE b == First(batch[w])
  <2>2. d.group = GroupOf[w] /\ d.offset = b.offset
    BY <2>1 DEF Deliver
  <2>3. b \in batch[w]
    <3>1. batch[w] \in SUBSET Row /\ batch[w] # {}
      BY <2>1 DEF Deliver, QInv, TypeInv, TypeOK, Visiting
    <3> QED BY <3>1, FirstIsLowest
  <2>4. InOrder(rows, settled[GroupOf[w]], b)
    BY <2>3 DEF QInv, Batches
  <2> QED BY <2>2, <2>4 DEF InOrder
<1> QED BY <1>1, <1>2, QueueInit, PTL DEF AdminSpec, StrictOrder

----------------------------------------------------------------------------
(* Loss.                                                                    *)

\* Nothing is lost to a partition with one group; nor to one whose groups have
\* all started and whose offset rows stay, where no group's dead-lettering
\* takes a row from the others.
Shared == Started = Group /\ ~DLQEnabled /\ ~Drains
NothingLostAssumed == (\E g \in Group : Group = {g}) \/ Shared

\* A row that is gone is settled for every group; where groups share the rows,
\* collection waits for all of them.
Gone ==
    /\ \A r \in log \ rows, g \in Group : r.offset \in settled[g]
    /\ Shared => marked = Group /\ \A w \in Worker : pc[w] # "forget"

LossInv == QInv /\ Gone

LEMMA DeadLetterSettles ==
    ASSUME NothingLostAssumed, TypeOK, NEW k \in Group, NEW o \in Offset, NEW id \in Id,
           DeadLetter(k, o, id) \/ MovedOnly(k, o, id)
    PROVE  \A r \in rows \ rows', g \in Group : r.offset \in settled'[g]
<1>1. \A r \in rows \ rows' : r.offset \in settled'[k]
  BY DEF DeadLetter, MovedOnly, TypeOK
<1>2. rows' # rows => DLQEnabled
  BY DEF DeadLetter, MovedOnly
<1>3. rows' # rows => Group = {k}
  BY <1>2 DEF NothingLostAssumed, Shared
<1> QED BY <1>1, <1>3

\* No step takes a row some group still has to settle.
LEMMA RowsLeaveSettled ==
    ASSUME ~Overlapping, NothingLostAssumed, LossInv, Next \/ Admin
    PROVE  \A r \in rows \ rows', g \in Group : r.offset \in settled'[g]
<1> USE DEF LossInv, QInv, TypeInv
<1>1. ASSUME NEW w \in Worker, Exhausted(w) \/ PollFails(w), NEW r \in rows \ rows', NEW g \in Group
      PROVE  r.offset \in settled'[g]
  <2> DEFINE b == First(batch[w])
  <2>1. GroupOf[w] \in Group /\ b.offset \in Offset /\ b.id \in Id
    <3>1. batch[w] \in SUBSET Row /\ batch[w] # {}
      BY <1>1 DEF Exhausted, PollFails, TypeOK, Visiting
    <3>2. b \in Row
      BY <3>1, FirstIsLowest
    <3> QED BY <3>2, GroupAssumption DEF Row
  <2>2. DeadLetter(GroupOf[w], b.offset, b.id) \/ MovedOnly(GroupOf[w], b.offset, b.id)
    BY <1>1 DEF Exhausted, PollFails
  <2> HIDE DEF b
  <2> QED BY <1>1, <2>1, <2>2, DeadLetterSettles
<1>2. ASSUME NEW d \in out, Reject(d) \/ Drop(d), NEW r \in rows \ rows', NEW g \in Group
      PROVE  r.offset \in settled'[g]
  <2>1. d.group \in Group /\ d.offset \in Offset /\ d.id \in Id
    BY DEF TypeOK, Delivery
  <2>2. DeadLetter(d.group, d.offset, d.id) \/ MovedOnly(d.group, d.offset, d.id)
    BY <1>2 DEF Reject, Drop
  <2> QED BY <1>2, <2>1, <2>2, DeadLetterSettles
<1>3. ASSUME NEW w \in Worker, GarbageCollect(w), NEW r \in rows \ rows', NEW g \in Group
      PROVE  r.offset \in settled'[g]
  <2>1. marked # {} /\ \A k \in marked : ~(mark[k] < r.offset)
    BY <1>3 DEF GarbageCollect
  <2>2. g \in marked
    BY <2>1 DEF NothingLostAssumed, Gone, TypeOK
  <2>3. mark[g] \in Nat /\ r.offset \in Nat
    BY BoundAssumption DEF TypeOK, Row, Offset
  <2>4. r.offset \in settled[g]
    BY <2>1, <2>2, <2>3 DEF Watermarks, Stands
  <2> QED BY <1>3, <2>4 DEF GarbageCollect, history
<1>4. ASSUME NEW rs \in SUBSET rows, Deletes(rs), NEW r \in rows \ rows', NEW g \in Group
      PROVE  r.offset \in settled'[g]
  BY <1>4 DEF Deletes
<1>5. ASSUME NEW id \in Id, DeleteMessage(id), NEW r \in rows \ rows', NEW g \in Group
      PROVE  r.offset \in settled'[g]
  <2>1. Named(id) \in SUBSET rows
    BY DEF Named
  <2> QED BY <1>4, <1>5, <2>1 DEF DeleteMessage
<1>6. ASSUME PurgeTopic, NEW r \in rows \ rows', NEW g \in Group
      PROVE  r.offset \in settled'[g]
  BY <1>4, <1>6 DEF PurgeTopic
<1>7. \/ rows \subseteq rows'
      \/ \E w \in Worker : Exhausted(w) \/ PollFails(w) \/ GarbageCollect(w)
      \/ \E d \in out : Reject(d) \/ Drop(d)
      \/ \E id \in Id : DeleteMessage(id)
      \/ PurgeTopic
  <2>1. ASSUME NEW w \in Worker, PollStep(w), rows' # rows
        PROVE  Exhausted(w) \/ PollFails(w) \/ GarbageCollect(w)
    BY <2>1 DEF PollStep, Fetch, Look, Deliver, AdvanceWatermark, UpdateAckedOffset, SkipCollect, DeleteOffset,
                table
  <2>2. ASSUME NEW d \in out, Finish(d) \/ Extend(d), rows' # rows
        PROVE  Reject(d) \/ Drop(d)
    BY <2>2 DEF Finish, Ack, Nack, Postpone, Extend
  <2>3. ASSUME NEW w \in Worker,
               \/ TryAcquireLease(w) \/ RenewOwnedLeases(w) \/ StopPartitionWorker(w)
               \/ Crash(w) \/ ReleaseLease(w) \/ ReleaseDrained(w)
        PROVE  rows' = rows
    BY <2>3 DEF TryAcquireLease, RenewOwnedLeases, StopPartitionWorker, Crash, ReleaseLease, ReleaseDrained, table
  <2>4. ASSUME NEW id \in Id, Insert(id) \/ DrainDLQ(id) PROVE rows \subseteq rows'
    BY <2>4 DEF Insert, DrainDLQ
  <2>5. ASSUME NEW r \in txs, Commit(r) \/ Rollback(r) PROVE rows \subseteq rows'
    BY <2>5 DEF Commit, Rollback
  <2>6. ASSUME NEW g \in Group PROVE /\ LeaseLapses(g) => rows' = rows
                                     /\ \A o \in Offset : Lapse(g, o) => rows' = rows
    BY DEF LeaseLapses, Lapse
  <2>7. CASE Next
    BY <2>1, <2>2, <2>3, <2>4, <2>5, <2>6, <2>7 DEF Next
  <2>8. CASE Admin
    BY <2>8 DEF Admin, PurgeDLQ, RequeueDLQ, ResetOffset, ReleaseStuckLease, table
  <2> QED BY <2>7, <2>8
<1> HIDE DEF LossInv, QInv, TypeInv
<1> QED BY <1>1, <1>2, <1>3, <1>5, <1>6, <1>7

\* Only a drained partition loses its offset row.
LEMMA MarkedStays ==
    ASSUME LossInv, Shared, [Next \/ Admin]_vars
    PROVE  marked' = Group /\ \A w \in Worker : pc'[w] # "forget"
<1> USE DEF LossInv, QInv, TypeInv
<1>1. marked = Group /\ (\A w \in Worker : pc[w] # "forget" /\ GroupOf[w] \in Group) /\ ~Drains
  BY GroupAssumption DEF Gone, Shared
<1>2. ASSUME NEW w \in Worker PROVE ~DeleteOffset(w) /\ ~ReleaseDrained(w)
  BY <1>1 DEF DeleteOffset, ReleaseDrained
<1>3. marked' = marked
  <2>1. ASSUME NEW w \in Worker, Fetch(w) PROVE marked' = marked
    BY <1>1, <2>1 DEF Fetch
  <2>2. ASSUME NEW w \in Worker, PollStep(w) PROVE marked' = marked
    BY <1>2, <2>1, <2>2 DEF PollStep, Look, Deliver, Exhausted, PollFails, AdvanceWatermark, UpdateAckedOffset,
                            GarbageCollect, SkipCollect, table
  <2>3. ASSUME Admin PROVE marked' = marked
    BY <2>3 DEF Admin, DeleteMessage, PurgeTopic, Deletes, PurgeDLQ, RequeueDLQ, ResetOffset, ReleaseStuckLease
  <2>4. ASSUME NEW w \in Worker,
               \/ TryAcquireLease(w) \/ RenewOwnedLeases(w) \/ StopPartitionWorker(w)
               \/ Crash(w) \/ ReleaseLease(w)
        PROVE  marked' = marked
    BY <2>4 DEF TryAcquireLease, RenewOwnedLeases, StopPartitionWorker, Crash, ReleaseLease, table
  <2>5. ASSUME NEW d \in out, Finish(d) \/ Extend(d) PROVE marked' = marked
    BY <2>5 DEF Finish, Ack, Nack, Reject, Postpone, Drop, Extend
  <2>6. ASSUME NEW g \in Group, LeaseLapses(g) PROVE marked' = marked
    BY <2>6 DEF LeaseLapses
  <2>7. CASE Next
    BY <1>2, <2>2, <2>4, <2>5, <2>6, <2>7 DEF Next, Insert, DrainDLQ, Commit, Rollback, Lapse
  <2> QED BY <2>3, <2>7 DEF vars, table
<1>4. ASSUME NEW w \in Worker PROVE pc'[w] # "forget"
  <2> USE <1>1 DEF TypeOK
  <2>1. ASSUME NEW v \in Worker, PollStep(v) PROVE pc'[w] # "forget"
    BY <1>2, <2>1 DEF PollStep, Fetch, Look, Deliver, Exhausted, PollFails, AdvanceWatermark,
                      UpdateAckedOffset, GarbageCollect, SkipCollect
  <2>2. ASSUME NEW v \in Worker,
               TryAcquireLease(v) \/ RenewOwnedLeases(v) \/ StopPartitionWorker(v) \/ Crash(v) \/ ReleaseLease(v)
        PROVE  pc'[w] # "forget"
    BY <2>2 DEF TryAcquireLease, RenewOwnedLeases, StopPartitionWorker, Crash, ReleaseLease, StopLoop, loop
  <2>3. \/ pc' = pc
        \/ \E v \in Worker : PollStep(v)
        \/ \E v \in Worker :
              TryAcquireLease(v) \/ RenewOwnedLeases(v) \/ StopPartitionWorker(v) \/ Crash(v) \/ ReleaseLease(v)
    BY <1>2 DEF Next, Admin, Finish, Insert, DrainDLQ, Commit, Rollback, LeaseLapses, Lapse, Ack, Nack,
         Reject, Postpone, Drop, Extend, DeleteMessage, PurgeTopic, Deletes, PurgeDLQ, RequeueDLQ, ResetOffset,
         ReleaseStuckLease, vars, loop
  <2> QED BY <2>1, <2>2, <2>3
<1> QED BY <1>1, <1>3, <1>4

LEMMA GoneStays ==
    ASSUME ~Overlapping, NothingLostAssumed, LossInv, [Next \/ Admin]_vars
    PROVE  LossInv'
<1>1. QInv' /\ Grows
  BY QueueInductive, LogGrows DEF LossInv, QInv
<1>2. CASE Next \/ Admin
  <2>1. \A r \in log' \ rows', g \in Group : r.offset \in settled'[g]
    BY <1>1, <1>2, RowsLeaveSettled DEF LossInv, Gone, Grows, SettlesMore
  <2> QED BY <1>1, <2>1, MarkedStays DEF LossInv, Gone
<1>3. CASE UNCHANGED vars
  BY <1>1, <1>3 DEF LossInv, Gone, vars, table, loop, history
<1> QED BY <1>2, <1>3

\* A message that was published stays where a group will find it until the group
\* acked it or it was dead-lettered, deleted or skipped for the group by name:
\* no watermark passes it and no collection takes it (advanceWatermark,
\* garbageCollect, MoveToDLQ, ctl).
THEOREM QueueLosesNothing ==
    ~Overlapping /\ NothingLostAssumed => (AdminSpec => []NothingLost)
<1> SUFFICES ASSUME ~Overlapping, NothingLostAssumed PROVE AdminSpec => []NothingLost
  OBVIOUS
<1>1. Init => LossInv
  <2>1. Init => Gone
    BY DEF Init, Gone, Shared
  <2> QED BY <2>1, QueueInit DEF LossInv
<1>2. LossInv /\ [Next \/ Admin]_vars => LossInv'
  BY GoneStays
<1>3. LossInv => NothingLost
  <2> SUFFICES ASSUME LossInv, NEW r \in log, NEW g \in Group, r.offset \notin settled[g]
               PROVE  r \in rows /\ r.offset > mark[g]
    BY DEF NothingLost
  <2>1. r \in rows
    BY DEF LossInv, Gone
  <2>2. ~(r.offset <= mark[g])
    BY <2>1 DEF LossInv, QInv, Watermarks, Stands
  <2>3. r.offset \in Nat /\ mark[g] \in Nat
    BY BoundAssumption DEF LossInv, QInv, TypeInv, TypeOK, Row, Offset
  <2> QED BY <2>1, <2>2, <2>3
<1> QED BY <1>1, <1>2, <1>3, PTL DEF AdminSpec

----------------------------------------------------------------------------
(* Lag.                                                                     *)

\* consumer-lag shows at least what a group has to do (ctl, consumer-lag).
THEOREM LagIsEnough == ~Overlapping => (AdminSpec => []LagCoversBacklog)
<1> SUFFICES ASSUME ~Overlapping PROVE AdminSpec => []LagCoversBacklog
  OBVIOUS
<1>1. QInv /\ [Next \/ Admin]_vars => QInv'
  BY QueueInductive
<1>2. QInv => LagCoversBacklog
  <2> SUFFICES ASSUME QInv, NEW g \in marked
               PROVE  ConsumerLag(g) >= Cardinality({r \in rows : r.offset \notin settled[g]})
    BY DEF LagCoversBacklog
  <2> DEFINE B == {r \in rows : r.offset \notin settled[g]}
             S == {r.offset : r \in rows} \cup {0}
             latest == Max(S)
  <2>1. g \in Group /\ mark[g] \in 0..MaxOffset /\ MaxOffset \in Nat /\ rows \subseteq Row
    BY BoundAssumption DEF QInv, TypeInv, TypeOK
  <2>2. \A r \in rows : r.offset \in 1..MaxOffset
    BY <2>1 DEF Row, Offset
  <2>3. S \in SUBSET Nat /\ S # {} /\ \A n \in S : n <= MaxOffset
    BY <2>1, <2>2
  <2>4. latest \in S /\ \A n \in S : n <= latest
    <3> HIDE DEF S
    <3> QED BY <2>1, <2>3, MaxOfBounded
  <2>5. latest \in Nat /\ \A r \in rows : r.offset <= latest
    BY <2>3, <2>4
  <2>6. \A r \in B : r.offset \in (mark[g] + 1)..latest
    <3>1. \A r \in B : ~(r.offset <= mark[g])
      BY <2>1 DEF QInv, Watermarks, Stands
    <3> HIDE DEF latest
    <3> QED BY <2>1, <2>2, <2>5, <3>1
  <2> DEFINE f == [r \in B |-> r.offset]
             T == (mark[g] + 1)..latest
  <2>7. f \in Injection(B, T)
    <3>1. \A p, q \in B : p.offset = q.offset => p = q
      BY DEF QInv, LogInOrder
    <3> HIDE DEF T, B
    <3> QED BY <2>6, <3>1 DEF Injection, IsInjective, T
  <2> HIDE DEF B, S, f, latest
  <2>8. IsFiniteSet(T) /\ Cardinality(T) = IF mark[g] + 1 > latest THEN 0 ELSE latest - (mark[g] + 1) + 1
    <3>1. mark[g] + 1 \in Int /\ latest \in Int
      BY <2>1, <2>5
    <3> QED BY <3>1, FS_Interval
  <2>9. IsFiniteSet(B) /\ Cardinality(B) <= Cardinality(T)
    <3> HIDE DEF T
    <3> QED BY <2>7, <2>8, FS_Injection
  <2>10. Cardinality(B) \in Nat
    BY <2>9, FS_CardinalityType
  <2>11. ConsumerLag(g) = IF latest < mark[g] THEN 0 ELSE latest - mark[g]
    BY DEF ConsumerLag, latest, S
  <2>12. ConsumerLag(g) >= Cardinality(B)
    BY <2>1, <2>5, <2>8, <2>9, <2>10, <2>11
  <2> QED BY <2>12 DEF B
<1> QED BY <1>1, <1>2, QueueInit, PTL DEF AdminSpec
=============================================================================
