----------------------------- MODULE QueueAdmin -----------------------------
(***************************************************************************)
(* queue-admin, the operator's tool for the MySQL queue                     *)
(* (platform/extension/messagequeue/mysql/ctl), at work on a partition      *)
(* whose publishers and consumers keep running.  The operator picks what to *)
(* change from what a read command showed, by which time the queue may have *)
(* moved on, so a write command may name anything; a row that is gone makes *)
(* it change nothing, as does an operator who does not confirm.  A command  *)
(* counts against the bound on faults.                                      *)
(***************************************************************************)
EXTENDS SqlQueue

----------------------------------------------------------------------------
(* Write commands.                                                          *)

Command ==
    /\ faults < MaxFaults
    /\ faults' = faults + 1

\* Rows the operator deletes are settled for every group.
Deletes(rs) ==
    /\ rs # {}
    /\ rows' = rows \ rs
    /\ settled' = [g \in Group |-> settled[g] \cup {r.offset : r \in rs}]
    /\ UNCHANGED <<txs, next, dlq, marked, mark, ds, lease, out, loop, log>>

DeleteMessage(id) == Command /\ Deletes(Named(id))
PurgeTopic        == Command /\ Deletes(rows)

PurgeDLQ ==
    /\ Command
    /\ dlq # {} /\ dlq' = {}
    /\ UNCHANGED <<rows, txs, next, marked, mark, ds, lease, out, loop, log, settled>>

\* One transaction.  The message takes a new offset; an ID that is in the topic
\* again, or no longer under the dead-letter topic, makes the command fail.
RequeueDLQ(id) ==
    /\ Command
    /\ id \in dlq /\ Named(id) = {} /\ next <= MaxOffset /\ txs = {}
    /\ LET r == [id |-> id, offset |-> next]
       IN  rows' = rows \cup {r} /\ log' = log \cup {r}
    /\ next' = next + 1
    /\ dlq' = dlq \ {id}
    /\ UNCHANGED <<txs, marked, mark, ds, lease, out, loop, settled>>

\* The watermark becomes what the operator says, the beginning or the offset of
\* a stored message; messages it moves past are settled for the group.
ResetOffset(g, n) ==
    /\ Command
    /\ g \in marked /\ n \in {0} \cup {r.offset : r \in rows}
    /\ mark' = [mark EXCEPT ![g] = n]
    /\ settled' = [settled EXCEPT ![g] = @ \cup {r.offset : r \in {q \in log : q.offset <= n}}]
    /\ UNCHANGED <<rows, txs, next, dlq, marked, ds, lease, out, loop, log>>

\* The lease is deleted whoever holds it by now; the holder's loop runs on.
ReleaseStuckLease(g) ==
    /\ Command
    /\ lease[g].owner # "none"
    /\ lease' = [lease EXCEPT ![g] = [owner |-> "none", stale |-> FALSE]]
    /\ UNCHANGED <<rows, txs, next, dlq, marked, mark, ds, out, loop, log, settled>>

Admin ==
    \/ \E id \in Id : DeleteMessage(id) \/ RequeueDLQ(id)
    \/ PurgeTopic \/ PurgeDLQ
    \/ \E g \in Group : ReleaseStuckLease(g) \/ \E n \in 0..MaxOffset : ResetOffset(g, n)

AdminSpec == Init /\ [][Next \/ Admin]_vars

----------------------------------------------------------------------------
(* Read commands.                                                           *)

\* Mutant: the watermark is taken for the next offset to read.
ConsumerLagBelow(g) ==
    LET latest == Max({r.offset : r \in rows} \cup {0})
    IN  IF latest < mark[g] + 1 THEN 0 ELSE latest - mark[g] - 1

\* consumer-lag: the newest offset less the watermark, for a group with an
\* offset row.
ConsumerLag(g) ==
    LET latest == Max({r.offset : r \in rows} \cup {0})
    IN  IF latest < mark[g] THEN 0 ELSE latest - mark[g]

\* consumer-lag never shows less than there is to do: the lag of a group is at
\* least the number of stored messages it has yet to settle, whatever acks out
\* of order, redeliveries, requeues, resets and lost leases come before.
LagCoversBacklog ==
    \A g \in marked : ConsumerLag(g) >= Cardinality({r \in rows : r.offset \notin settled[g]})

\* ctl/README.md: "LAG (unprocessed count)".  It is a difference of offsets,
\* which counts acked messages behind a gap.
LagIsBacklog ==
    \A g \in marked : ConsumerLag(g) <= Cardinality({r \in rows : r.offset \notin settled[g]})
=============================================================================
