------------------------------ MODULE SqlQueue ------------------------------
(***************************************************************************)
(* One partition of one topic of the MySQL message queue                    *)
(* (platform/extension/messagequeue/mysql): the message log with its        *)
(* publishing transactions, the offsets and delivery states of the consumer *)
(* groups, the partition lease, the poll loop and what a consumer makes of  *)
(* a delivery (platform/consumer).                                          *)
(*                                                                          *)
(* A worker stands for one subscriber and the poll loop it runs for the     *)
(* partition.  Every statement sent to the database by a poll is a step, so *)
(* that acks, publishes and other workers fall in between; the reads a poll *)
(* makes in one go, with no write of its own between them, are one step.    *)
(* Time is left out: a hidden message may come back, and a lease may go     *)
(* stale, at any moment.                                                    *)
(***************************************************************************)
EXTENDS Naturals, FiniteSets, FiniteSetsExt

CONSTANTS
    Id,          \* message IDs a publisher may use
    Group,       \* consumer groups subscribed to the topic
    Worker,      \* subscribers
    GroupOf,     \* [Worker -> Group]
    BatchSize,   \* rows fetched per poll
    MaxAttempts, \* Retry.MaxAttempts, 0 for no limit
    DLQEnabled,  \* DLQ.Enabled
    Overlapping, \* publishing transactions may overlap
    Started,     \* groups whose offset row exists when the behaviour starts
    Outcomes,    \* what a consumer may do with a delivery
    Drains,      \* an idle partition's lease and offset may be dropped
    MaxOffset,   \* bound on the offsets handed out
    MaxFaults    \* bound on crashes, lapsed leases and handovers

ASSUME GroupAssumption == /\ GroupOf \in [Worker -> Group]
                          /\ Started \subseteq Group
                          /\ IsFiniteSet(Group)
ASSUME ConfigAssumption == /\ BatchSize \in Nat \ {0}
                           /\ MaxAttempts \in Nat
                           /\ {DLQEnabled, Overlapping, Drains} \subseteq BOOLEAN
                           /\ Outcomes \subseteq {"ack", "nack", "postpone", "reject", "extend", "drop"}
ASSUME BoundAssumption == MaxOffset \in Nat /\ MaxFaults \in Nat

Offset   == 1..MaxOffset
Row      == [id : Id, offset : Offset]
Delivery == [group : Group, id : Id, offset : Offset, attempt : 1..(MaxAttempts + 1)]
State    == [found : BOOLEAN, acked : BOOLEAN, hidden : BOOLEAN,
             postponed : BOOLEAN, retry : 0..MaxAttempts]

VARIABLES
    rows,       \* committed rows of the topic
    txs,        \* rows of publishing transactions not yet committed
    next,       \* the next AUTO_INCREMENT value
    dlq,        \* IDs stored under the dead-letter topic
    marked,     \* groups with an offset row
    mark,       \* [Group -> its offset_acked, zero when there is no row]
    ds,         \* [Group -> [Offset -> State]]: queue_delivery_state
    lease,      \* [Group -> [owner : worker or "none", stale : BOOLEAN]]
    out         \* deliveries a consumer has yet to finish

VARIABLES
    pc,         \* [Worker -> phase of its poll loop]
    inited,     \* [Worker -> BOOLEAN]: the loop has initialised the offset row
    batch,      \* [Worker -> SUBSET Row]: fetched and not yet visited
    target      \* [Worker -> the watermark it is about to save]

\* What happened, for the properties only.
VARIABLES
    log,        \* every row ever committed
    settled,    \* [Group -> offsets the group acked or dead-lettered]
    faults

table   == <<rows, txs, next, dlq, marked, mark, ds, lease, out>>
loop    == <<pc, inited, batch, target>>
history == <<log, settled, faults>>
vars    == <<table, loop, history>>

----------------------------------------------------------------------------
(* The delivery state of a message for one group.                           *)

NoState == [found |-> FALSE, acked |-> FALSE, hidden |-> FALSE, postponed |-> FALSE, retry |-> 0]

\* Mutant: a redelivery does not count.
MarkDeliveredUncounted(s) ==
    IF ~s.found THEN [NoState EXCEPT !.found = TRUE, !.hidden = TRUE]
    ELSE IF s.acked THEN s
    ELSE [s EXCEPT !.hidden = TRUE, !.postponed = FALSE]

\* Counts past the budget are all alike to the code and stay at the bound.
MarkDelivered(s) ==
    IF ~s.found THEN [NoState EXCEPT !.found = TRUE, !.hidden = TRUE]
    ELSE IF s.acked THEN s
    ELSE [s EXCEPT !.hidden = TRUE, !.postponed = FALSE,
                   !.retry = IF s.postponed \/ @ = MaxAttempts THEN @ ELSE @ + 1]

MarkAcked(s)  == [s EXCEPT !.found = TRUE, !.acked = TRUE]
MarkNacked(s) == IF s.acked THEN s ELSE [s EXCEPT !.found = TRUE, !.hidden = TRUE]
MarkPostponed(s) ==
    IF s.acked THEN s
    ELSE [NoState EXCEPT !.found = TRUE, !.hidden = TRUE, !.postponed = TRUE]
ExtendVisibility(s) == IF s.found /\ ~s.acked THEN [s EXCEPT !.hidden = TRUE] ELSE s

RetryBudgetExhausted(n) == MaxAttempts > 0 /\ n >= MaxAttempts

Above(n) == {r \in rows : r.offset > n}

\* Mutant: one row too many.
FetchOneMore(n) ==
    {r \in Above(n) : Cardinality({q \in Above(n) : q.offset < r.offset}) <= BatchSize}

\* The first BatchSize rows above the watermark.
FetchByOffset(n) ==
    {r \in Above(n) : Cardinality({q \in Above(n) : q.offset <= r.offset}) <= BatchSize}

----------------------------------------------------------------------------
Init ==
    /\ rows = {} /\ txs = {} /\ next = 1 /\ dlq = {} /\ out = {}
    /\ marked = Started
    /\ mark = [g \in Group |-> 0]
    /\ ds = [g \in Group |-> [o \in Offset |-> NoState]]
    /\ lease = [g \in Group |-> [owner |-> "none", stale |-> FALSE]]
    /\ pc = [w \in Worker |-> "down"]
    /\ inited = [w \in Worker |-> FALSE]
    /\ batch = [w \in Worker |-> {}]
    /\ target = [w \in Worker |-> 0]
    /\ log = {} /\ faults = 0
    /\ settled = [g \in Group |-> {}]

(* Publishing.                                                              *)

\* Insert: the row takes its offset inside the transaction.  An ID already in
\* the log is not inserted again; one another transaction holds is waited for.
Insert(id) ==
    /\ next <= MaxOffset
    /\ \A r \in rows \cup txs : r.id # id
    /\ Overlapping \/ txs = {}
    /\ txs' = txs \cup {[id |-> id, offset |-> next]}
    /\ next' = next + 1
    /\ UNCHANGED <<rows, dlq, marked, mark, ds, lease, out, loop, history>>

Commit(r) ==
    /\ r \in txs
    /\ txs' = txs \ {r}
    /\ rows' = rows \cup {r}
    /\ log' = log \cup {r}
    /\ UNCHANGED <<next, dlq, marked, mark, ds, lease, out, loop, settled, faults>>

Rollback(r) ==
    /\ r \in txs
    /\ txs' = txs \ {r}
    /\ UNCHANGED <<rows, next, dlq, marked, mark, ds, lease, out, loop, history>>

(* Leases.                                                                  *)

\* The worker's loop ends and forgets what it fetched.
StopLoop(w) ==
    /\ pc' = [pc EXCEPT ![w] = "down"]
    /\ inited' = [inited EXCEPT ![w] = FALSE]
    /\ batch' = [batch EXCEPT ![w] = {}]
    /\ target' = [target EXCEPT ![w] = 0]

\* Discovery finds the partition through its rows, or through the lease the
\* subscriber still has; a free or stale lease is taken and a loop started.
TryAcquireLease(w) ==
    /\ pc[w] = "down"
    /\ LET l == lease[GroupOf[w]]
       IN  l.owner = w \/ (rows # {} /\ (l.owner = "none" \/ l.stale))
    /\ lease' = [lease EXCEPT ![GroupOf[w]] = [owner |-> w, stale |-> FALSE]]
    /\ pc' = [pc EXCEPT ![w] = "ready"]
    /\ UNCHANGED <<rows, txs, next, dlq, marked, mark, ds, out, inited, batch, target, history>>

\* The owner renews too late; its loop runs on.
LeaseLapses(g) ==
    /\ faults < MaxFaults
    /\ faults' = faults + 1
    /\ lease[g].owner # "none" /\ ~lease[g].stale
    /\ lease' = [lease EXCEPT ![g].stale = TRUE]
    /\ UNCHANGED <<rows, txs, next, dlq, marked, mark, ds, out, loop, log, settled>>

\* RenewOwnedLeases asks who owns the lease, not whether it is stale.
RenewOwnedLeases(w) ==
    /\ lease[GroupOf[w]] = [owner |-> w, stale |-> TRUE]
    /\ lease' = [lease EXCEPT ![GroupOf[w]].stale = FALSE]
    /\ UNCHANGED <<rows, txs, next, dlq, marked, mark, ds, out, loop, history>>

\* Reconciliation stops the loop of a worker that lost the lease.
StopPartitionWorker(w) ==
    /\ pc[w] \notin {"down", "forget"}
    /\ lease[GroupOf[w]].owner # w
    /\ StopLoop(w)
    /\ UNCHANGED <<table, history>>

\* The process dies; its lease goes stale in time, its deliveries are dropped
\* one by one.
Crash(w) ==
    /\ faults < MaxFaults
    /\ faults' = faults + 1
    /\ pc[w] # "down"
    /\ StopLoop(w)
    /\ lease' = [lease EXCEPT ![GroupOf[w]].stale = @ \/ lease[GroupOf[w]].owner = w]
    /\ UNCHANGED <<rows, txs, next, dlq, marked, mark, ds, out, log, settled>>

\* Rebalancing, or an orderly shutdown: the lease is given up, the loop stopped.
ReleaseLease(w) ==
    /\ faults < MaxFaults
    /\ faults' = faults + 1
    /\ pc[w] \notin {"down", "forget"}
    /\ lease[GroupOf[w]].owner = w
    /\ lease' = [lease EXCEPT ![GroupOf[w]] = [owner |-> "none", stale |-> FALSE]]
    /\ StopLoop(w)
    /\ UNCHANGED <<rows, txs, next, dlq, marked, mark, ds, out, log, settled>>

\* A partition without rows for long enough is given up: the lease first ...
ReleaseDrained(w) ==
    /\ Drains
    /\ pc[w] \notin {"down", "forget"}
    /\ lease[GroupOf[w]].owner = w
    /\ rows = {}
    /\ lease' = [lease EXCEPT ![GroupOf[w]] = [owner |-> "none", stale |-> FALSE]]
    /\ pc' = [pc EXCEPT ![w] = "forget"]
    /\ inited' = [inited EXCEPT ![w] = FALSE]
    /\ batch' = [batch EXCEPT ![w] = {}]
    /\ target' = [target EXCEPT ![w] = 0]
    /\ UNCHANGED <<rows, txs, next, dlq, marked, mark, ds, out, history>>

\* ... then the offset row, whoever may have come to use it.
DeleteOffset(w) ==
    /\ pc[w] = "forget"
    /\ marked' = marked \ {GroupOf[w]}
    /\ mark' = [mark EXCEPT ![GroupOf[w]] = 0]
    /\ StopLoop(w)
    /\ UNCHANGED <<rows, txs, next, dlq, ds, lease, out, history>>

(* The poll loop.                                                           *)

\* The offset row is created once per loop; then rows above the watermark are
\* fetched.
Fetch(w) ==
    LET g == GroupOf[w]
    IN  /\ pc[w] = "ready"
        /\ marked' = IF inited[w] THEN marked ELSE marked \cup {g}
        /\ inited' = [inited EXCEPT ![w] = TRUE]
        /\ batch' = [batch EXCEPT ![w] = FetchByOffset(mark[g])]
        /\ pc' = [pc EXCEPT ![w] = "walk"]
        /\ UNCHANGED <<rows, txs, next, dlq, mark, ds, lease, out, target, history>>

First(rs) == CHOOSE r \in rs : \A q \in rs : r.offset <= q.offset

\* GetDeliveryState: a message acked or hidden is passed over, a postponed one
\* ends the walk.
Look(w) ==
    LET r == First(batch[w])
        s == ds[GroupOf[w]][r.offset]
    IN  /\ pc[w] = "walk"
        /\ batch[w] # {}
        /\ IF s.found /\ (s.acked \/ s.hidden)
           THEN /\ batch' = [batch EXCEPT ![w] = IF ~s.acked /\ s.postponed THEN {} ELSE @ \ {r}]
                /\ UNCHANGED pc
           ELSE /\ pc' = [pc EXCEPT ![w] = "mark"]
                /\ UNCHANGED batch
        /\ UNCHANGED <<table, inited, target, history>>

\* MarkDelivered, and the message goes to the consumer while its budget lasts.
Deliver(w) ==
    LET g == GroupOf[w]
        r == First(batch[w])
        s == MarkDelivered(ds[g][r.offset])
    IN  /\ pc[w] = "mark"
        /\ ds' = [ds EXCEPT ![g][r.offset] = s]
        /\ IF RetryBudgetExhausted(s.retry)
           THEN /\ pc' = [pc EXCEPT ![w] = "exhausted"]
                /\ UNCHANGED <<out, batch>>
           ELSE /\ out' = out \cup {[group |-> g, id |-> r.id, offset |-> r.offset, attempt |-> s.retry + 1]}
                /\ pc' = [pc EXCEPT ![w] = "walk"]
                /\ batch' = [batch EXCEPT ![w] = @ \ {r}]
        /\ UNCHANGED <<rows, txs, next, dlq, marked, mark, lease, inited, target, history>>

\* MoveToDLQ, one transaction.  It goes by ID, and inserts under the dead-letter
\* topic without minding duplicates, so an ID that is there already makes it
\* fail; a row that is gone makes it do nothing.
Named(id) == {r \in rows : r.id = id}

MoveToDLQ(id) ==
    /\ Named(id) = {} \/ id \notin dlq
    /\ rows' = rows \ Named(id)
    /\ dlq' = IF Named(id) = {} THEN dlq ELSE dlq \cup {id}

MoveFails(id) == DLQEnabled /\ id \in dlq /\ Named(id) # {}

\* What ends a message for its group: dead-lettered if that is configured, and
\* acked.
DeadLetter(g, o, id) ==
    /\ IF DLQEnabled THEN MoveToDLQ(id) ELSE UNCHANGED <<rows, dlq>>
    /\ ds' = [ds EXCEPT ![g][o] = MarkAcked(@)]
    /\ settled' = [settled EXCEPT ![g] = @ \cup {o} \cup {r.offset : r \in rows \ rows'}]

\* The move went through, the write after it did not.
MovedOnly(g, o, id) ==
    /\ DLQEnabled
    /\ faults < MaxFaults
    /\ faults' = faults + 1
    /\ MoveToDLQ(id)
    /\ settled' = [settled EXCEPT ![g] = @ \cup {o} \cup {r.offset : r \in rows \ rows'}]

\* A message found with its budget spent is dead-lettered by the poll itself.
Exhausted(w) ==
    LET r == First(batch[w])
    IN  /\ pc[w] = "exhausted"
        /\ DeadLetter(GroupOf[w], r.offset, r.id)
        /\ pc' = [pc EXCEPT ![w] = "walk"]
        /\ batch' = [batch EXCEPT ![w] = @ \ {r}]
        /\ UNCHANGED <<txs, next, marked, mark, lease, out, inited, target, log, faults>>

\* A poll whose dead-lettering fails is dropped, and starts afresh at the next
\* tick.
PollFails(w) ==
    LET r == First(batch[w])
    IN  /\ pc[w] = "exhausted"
        /\ \/ MoveFails(r.id) /\ UNCHANGED <<rows, dlq, settled, faults>>
           \/ MovedOnly(GroupOf[w], r.offset, r.id)
        /\ pc' = [pc EXCEPT ![w] = "ready"]
        /\ batch' = [batch EXCEPT ![w] = {}]
        /\ UNCHANGED <<txs, next, marked, mark, ds, lease, out, inited, target, log>>

\* Mutants: the watermark is the offset to read next; the highest acked offset,
\* whatever is missing below it.
ContiguousNext(g) ==
    LET acked == {r \in Above(mark[g]) : \A q \in Above(mark[g]) :
                      q.offset <= r.offset => ds[g][q.offset].acked}
    IN  Max({r.offset + 1 : r \in acked} \cup {mark[g]})
Highest(g) ==
    Max({r.offset : r \in {q \in Above(mark[g]) : ds[g][q.offset].acked}} \cup {mark[g]})

\* The highest offset such that every row up to it is acked by the group.
Contiguous(g) ==
    LET acked == {r \in Above(mark[g]) : \A q \in Above(mark[g]) :
                      q.offset <= r.offset => ds[g][q.offset].acked}
    IN  Max({r.offset : r \in acked} \cup {mark[g]})

\* AdvanceWatermark: the states up to the new watermark are deleted ...
AdvanceWatermark(w) ==
    LET g == GroupOf[w]
        n == Contiguous(g)
    IN  /\ pc[w] = "walk"
        /\ batch[w] = {}
        /\ IF n > mark[g]
           THEN /\ ds' = [ds EXCEPT ![g] = [o \in Offset |-> IF o <= n THEN NoState ELSE @[o]]]
                /\ target' = [target EXCEPT ![w] = n]
                /\ pc' = [pc EXCEPT ![w] = "save"]
           ELSE /\ pc' = [pc EXCEPT ![w] = "collect"]
                /\ UNCHANGED <<ds, target>>
        /\ UNCHANGED <<rows, txs, next, dlq, marked, mark, lease, out, inited, batch, history>>

\* Mutant: the comparison is the wrong way round.
UpdateAckedOffsetDown(w) ==
    LET g == GroupOf[w]
    IN  /\ pc[w] = "save"
        /\ mark' = IF g \in marked /\ mark[g] > target[w]
                   THEN [mark EXCEPT ![g] = target[w]] ELSE mark
        /\ target' = [target EXCEPT ![w] = 0]
        /\ pc' = [pc EXCEPT ![w] = "collect"]
        /\ UNCHANGED <<rows, txs, next, dlq, marked, ds, lease, out, inited, batch, history>>

\* ... and then the watermark is saved, if there is a row to save it in.
UpdateAckedOffset(w) ==
    LET g == GroupOf[w]
    IN  /\ pc[w] = "save"
        /\ mark' = IF g \in marked /\ mark[g] < target[w]
                   THEN [mark EXCEPT ![g] = target[w]] ELSE mark
        /\ target' = [target EXCEPT ![w] = 0]
        /\ pc' = [pc EXCEPT ![w] = "collect"]
        /\ UNCHANGED <<rows, txs, next, dlq, marked, ds, lease, out, inited, batch, history>>

\* GarbageCollect, every so many ticks: up to the lowest watermark there is.
GarbageCollect(w) ==
    /\ pc[w] = "collect"
    /\ rows' = {r \in rows : marked = {} \/ \E g \in marked : mark[g] < r.offset}
    /\ pc' = [pc EXCEPT ![w] = "ready"]
    /\ UNCHANGED <<txs, next, dlq, marked, mark, ds, lease, out, inited, batch, target, history>>

SkipCollect(w) ==
    /\ pc[w] = "collect"
    /\ pc' = [pc EXCEPT ![w] = "ready"]
    /\ UNCHANGED <<table, inited, batch, target, history>>

(* Consumers.                                                               *)

\* A message hidden for a delivery, a retry delay or a postponement comes back.
Lapse(g, o) ==
    /\ ds[g][o].hidden /\ ~ds[g][o].acked
    /\ ds' = [ds EXCEPT ![g][o].hidden = FALSE]
    /\ UNCHANGED <<rows, txs, next, dlq, marked, mark, lease, out, loop, history>>

Ack(d) ==
    /\ "ack" \in Outcomes
    /\ ds' = [ds EXCEPT ![d.group][d.offset] = MarkAcked(@)]
    /\ settled' = [settled EXCEPT ![d.group] = @ \cup {d.offset}]
    /\ out' = out \ {d}
    /\ UNCHANGED <<rows, txs, next, dlq, marked, mark, lease, loop, log, faults>>

\* Nack hides the message for its retry delay, or dead-letters it when this
\* attempt spent the budget.
Nack(d) ==
    /\ "nack" \in Outcomes
    /\ ~RetryBudgetExhausted(d.attempt)
    /\ ds' = [ds EXCEPT ![d.group][d.offset] = MarkNacked(@)]
    /\ out' = out \ {d}
    /\ UNCHANGED <<rows, txs, next, dlq, marked, mark, lease, loop, history>>

Reject(d) ==
    /\ "reject" \in Outcomes \/ ("nack" \in Outcomes /\ RetryBudgetExhausted(d.attempt))
    /\ DeadLetter(d.group, d.offset, d.id)
    /\ out' = out \ {d}
    /\ UNCHANGED <<txs, next, marked, mark, lease, loop, log, faults>>

Postpone(d) ==
    /\ "postpone" \in Outcomes
    /\ ds' = [ds EXCEPT ![d.group][d.offset] = MarkPostponed(@)]
    /\ out' = out \ {d}
    /\ UNCHANGED <<rows, txs, next, dlq, marked, mark, lease, loop, history>>

Extend(d) ==
    /\ "extend" \in Outcomes
    /\ ds' = [ds EXCEPT ![d.group][d.offset] = ExtendVisibility(@)]
    /\ UNCHANGED <<rows, txs, next, dlq, marked, mark, lease, out, loop, history>>

\* Mutant: acked although the move to the dead-letter topic failed.
DropAcking(d) ==
    /\ MoveFails(d.id)
    /\ ds' = [ds EXCEPT ![d.group][d.offset] = MarkAcked(@)]
    /\ out' = out \ {d}
    /\ UNCHANGED <<rows, txs, next, dlq, marked, mark, lease, loop, history>>

\* The consumer dies, or what it wrote is refused: the message stays hidden
\* until it lapses.
Drop(d) ==
    /\ \/ ("drop" \in Outcomes \/ MoveFails(d.id)) /\ UNCHANGED <<rows, dlq, settled, faults>>
       \/ "reject" \in Outcomes /\ MovedOnly(d.group, d.offset, d.id)
    /\ out' = out \ {d}
    /\ UNCHANGED <<txs, next, marked, mark, ds, lease, loop, log>>

\* The dead-letter topic's own consumer is done with a message and its row
\* collected.
DrainDLQ(id) ==
    /\ id \in dlq
    /\ dlq' = dlq \ {id}
    /\ UNCHANGED <<rows, txs, next, marked, mark, ds, lease, out, loop, history>>

----------------------------------------------------------------------------
\* The poll loop goes on.
PollStep(w) ==
    \/ Fetch(w) \/ Look(w) \/ Deliver(w) \/ Exhausted(w) \/ PollFails(w)
    \/ AdvanceWatermark(w) \/ UpdateAckedOffset(w)
    \/ GarbageCollect(w) \/ SkipCollect(w)
    \/ DeleteOffset(w)

\* The consumer is done with a delivery.
Finish(d) == Ack(d) \/ Nack(d) \/ Reject(d) \/ Postpone(d) \/ Drop(d)

Next ==
    \/ \E id \in Id : Insert(id) \/ DrainDLQ(id)
    \/ \E r \in txs : Commit(r) \/ Rollback(r)
    \/ \E g \in Group : LeaseLapses(g)
    \/ \E w \in Worker : \/ TryAcquireLease(w) \/ RenewOwnedLeases(w) \/ StopPartitionWorker(w)
                         \/ Crash(w) \/ ReleaseLease(w) \/ ReleaseDrained(w)
                         \/ PollStep(w)
    \/ \E g \in Group, o \in Offset : Lapse(g, o)
    \/ \E d \in out : Finish(d) \/ Extend(d)

Spec == Init /\ [][Next]_vars

\* Tickers run the poll loop, discovery and reconciliation; collection has its
\* turn every so many polls; a hidden message comes back; a consumer is done
\* with a delivery at some time, and the dead-letter topic's with a message.
\* Publishing, faults, renewals and extensions are not fair.
Fairness ==
    /\ \A w \in Worker : /\ WF_vars(PollStep(w)) /\ SF_vars(GarbageCollect(w))
                         /\ WF_vars(TryAcquireLease(w)) /\ WF_vars(StopPartitionWorker(w))
    /\ \A g \in Group, o \in Offset : WF_vars(Lapse(g, o))
    /\ \A d \in Delivery : WF_vars(d \in out /\ Finish(d))
    /\ \A id \in Id : WF_vars(DrainDLQ(id))

FairSpec == Spec /\ Fairness

----------------------------------------------------------------------------
(* Properties.                                                              *)

\* The tables and the loops keep their shape; a retry count stays within the
\* budget (queue_delivery_state, pollAndDeliver).
TypeOK ==
    /\ rows \subseteq Row /\ txs \subseteq Row /\ log \subseteq Row
    /\ next \in 1..(MaxOffset + 1)
    /\ dlq \subseteq Id
    /\ marked \subseteq Group
    /\ mark \in [Group -> 0..MaxOffset]
    /\ ds \in [Group -> [Offset -> State]]
    /\ lease \in [Group -> [owner : Worker \cup {"none"}, stale : BOOLEAN]]
    /\ out \subseteq Delivery
    /\ pc \in [Worker -> {"down", "ready", "walk", "mark", "exhausted", "save", "collect", "forget"}]
    /\ inited \in [Worker -> BOOLEAN]
    /\ batch \in [Worker -> SUBSET Row]
    /\ target \in [Worker -> 0..MaxOffset]
    /\ settled \in [Group -> SUBSET Offset]
    /\ faults \in 0..MaxFaults

\* A message that was published stays where a group will find it until the
\* group has acked it or it was dead-lettered for the group: no watermark
\* passes it and no collection takes it, whatever acks, retries, lapses,
\* crashes and changes of lease come in between (advanceWatermark,
\* garbageCollect, MoveToDLQ).
NothingLost ==
    \A r \in log, g \in Group : r.offset \in settled[g] \/ (r \in rows /\ r.offset > mark[g])

\* With a batch size of one a message goes to a consumer only after every
\* message before it is settled, even if leases change hands and visibility
\* lapses (FetchByOffset against the watermark).
StrictOrder ==
    [][\A d \in out' \ out : \A r \in rows : r.offset < d.offset => r.offset \in settled[d.group]]_vars

\* A message in the log is settled and collected in the end, with a consumer
\* that does not postpone it for ever.
Retired == \A r \in Row : r \in rows ~> r \notin rows

\* A group's acks are on record, as a watermark, a delivery state or a save
\* under way, so that no later poll takes an acked message for a new one.  For
\* loops that do not crash: the states behind the watermark are deleted before
\* it is saved (AdvanceWatermark, UpdateAckedOffset).
AckIsRemembered ==
    \A g \in Group, r \in rows : r.offset \in settled[g] =>
        \/ r.offset <= mark[g]
        \/ ds[g][r.offset].acked
        \/ \E w \in Worker : GroupOf[w] = g /\ pc[w] = "save" /\ r.offset <= target[w]

\* What is moved to the dead-letter topic was delivered (MoveToDLQ, by ID).
DeadWasDelivered ==
    [][\A r \in rows \ rows' : r.id \in dlq' \ dlq => \E g \in Group : ds[g][r.offset].found]_vars

\* No message is delivered to a group after the group acked it (pollAndDeliver,
\* between GetDeliveryState and MarkDelivered).
AckedIsNotRedelivered == [][\A d \in out' \ out : d.offset \notin settled[d.group]]_vars
============================================================================
