----------------------------- MODULE QueueState -----------------------------
(***************************************************************************)
(* The enablement of a Stovepipe queue: the row the pipeline shares, the     *)
(* history of its changes and the summary clients read.  An ingest call      *)
(* registers the queue, prepares the decision it was given and applies it;   *)
(* a status call resolves what was in force at a commit.  Each step is one   *)
(* call to a store or to source control.                                     *)
(***************************************************************************)
EXTENDS Integers, Sequences

CONSTANTS
    Call,       \* the ingest calls
    Commit,     \* the commits of the repository
    Ancestors,  \* Ancestors[c]: c and the commits below it
    MaxStamp,   \* the clock's readings
    Plans       \* what happens besides: see Plan

(* What the constants are: commits are named, and a plan asks what a client
   can ask for, of a trunk that shows some commit.                          *)
QueueStateAssumed ==
    /\ "none" \notin Commit /\ MaxStamp \in Nat
    /\ \A pl \in Plans :
          /\ pl.wants \in [Call -> {"none", "ENABLED", "DISABLED"}]
          /\ pl.stages \in Nat /\ pl.faults \in Nat /\ pl.legacy \in BOOLEAN
          /\ pl.asks \subseteq Commit
          /\ pl.tips \in Seq(Commit) \ {<<>>}

VARIABLES
    plan,      \* [wants: the decision of each call ("none": it carries none),
               \*  stages: the pipeline's updates of the row, faults: crashes and failed
               \*  writes, asks: the commits a client asks about, legacy: the row is older
               \*  than enablement, tips: what the trunk shows, in turn]
    qrow,      \* the queue row: [v, pipe, ena]; v = 0 when there is none
    qlog,      \* state version -> retained state
    qsum,      \* the summary: [v, ena]; v = 0 when there is none
    head,      \* the tip shown now
    caller,    \* the ingest calls
    stage,     \* the row a pipeline stage has read
    staged,    \* the updates the pipeline has made
    status,    \* the status call
    qfaults

qvars == <<plan, qrow, qlog, qsum, head, caller, stage, staged, status, qfaults>>

IsAncestor(c, d) == c \in Ancestors[d]
Latest == plan.tips[head]

Unset == [v |-> 0, state |-> "UNKNOWN", from |-> "none", at |-> 0]
NoRow == [v |-> 0, pipe |-> 0, ena |-> Unset]
NoCall == [pc |-> "idle", want |-> "none", uri |-> "none", prev |-> Unset, next |-> Unset,
           row |-> NoRow, sum |-> 0, back |-> "none", why |-> "none", moves |-> 0, got |-> Unset]
NoStatus == [pc |-> "idle", uri |-> "none", seen |-> Unset, cur |-> Unset]

QueueStateInit ==
    /\ plan \in Plans
    /\ qrow = IF plan.legacy THEN [NoRow EXCEPT !.v = 1] ELSE NoRow
    /\ qlog = << >>
    /\ qsum = [v |-> 0, ena |-> Unset]
    /\ head = 1
    /\ caller = [p \in Call |-> NoCall]
    /\ stage = NoRow /\ staged = 0
    /\ status = NoStatus
    /\ qfaults = 0

Goto(p, pc) == caller' = [caller EXCEPT ![p].pc = pc]
(* The call returns, with the state it leaves the queue in.                 *)
Return(p, pc, got) ==
    caller' = [caller EXCEPT ![p] = [NoCall EXCEPT !.pc = pc, !.want = caller[p].want, !.got = got, !.moves = caller[p].moves]]
(* The decision is taken again on what is stored now.                       *)
PrepareAgain(p) == caller' = [caller EXCEPT ![p] =
    [NoCall EXCEPT !.pc = "prepare", !.want = caller[p].want, !.uri = caller[p].uri, !.moves = caller[p].moves]]
othersOfCall == <<plan, head, stage, staged, status, qfaults>>

(***************************************************************************)
(* The stores.                                                              *)
(***************************************************************************)
(* Mutant: the row is written whatever its version.                         *)
UpdateQueueBlind(old, row) == qrow' = [row EXCEPT !.v = qrow.v + 1]
(* Update compares the version it was given with the stored one.            *)
UpdateQueue(old, row) == qrow.v = old /\ qrow' = [row EXCEPT !.v = old + 1]
CreateLog(ena) == qlog' = [w \in DOMAIN qlog \cup {ena.v} |-> IF w \in DOMAIN qlog THEN qlog[w] ELSE ena]
GetLog(v) == IF v \in DOMAIN qlog THEN qlog[v] ELSE Unset
GetQueue == qrow
GetQueueSummary == qsum
CreateSummary(ena) == qsum.v = 0 /\ qsum' = [v |-> 1, ena |-> ena]
UpdateSummaryRow(old, ena) == qsum.v = old /\ qsum' = [v |-> old + 1, ena |-> ena]
(* The state of a version, from the history.                                *)
LoadVersion(v) == GetLog(v)
-----------------------------------------------------------------------------
(* PersistLog: retain the state read or written, then project it.           *)

(* Mutant: a change is projected before it is retained.                     *)
RetainLater(p) ==
    /\ caller[p].pc = "log"
    /\ qsum' = IF qsum.ena.v < caller[p].row.ena.v THEN [v |-> qsum.v + 1, ena |-> caller[p].row.ena] ELSE qsum
    /\ Goto(p, "late_log")
    /\ UNCHANGED <<qrow, qlog, othersOfCall>>

RetainLog(p) ==
    /\ caller[p].pc = "log"
    /\ LET ena == caller[p].row.ena
       IN IF GetLog(ena.v) \notin {Unset, ena}
          THEN Goto(p, "inconsistent") /\ UNCHANGED qlog
          ELSE CreateLog(ena) /\ Goto(p, "sum")
    /\ UNCHANGED <<qrow, qsum, othersOfCall>>

(* Mutant: the last writer wins.                                            *)
BehindAlways(log, current) == log # current
Behind(log, current) == log.v > current.v

ReadQueueSummary(p) ==
    /\ caller[p].pc = "sum"
    /\ LET ena == caller[p].row.ena
       IN caller' = [caller EXCEPT ![p].sum = qsum.v,
                        ![p].pc = IF qsum.v = 0 \/ Behind(ena, qsum.ena) THEN "project"
                                  ELSE IF ena.v = qsum.ena.v /\ ena # qsum.ena THEN "inconsistent"
                                  ELSE caller[p].back]
    /\ UNCHANGED <<qrow, qlog, qsum, othersOfCall>>

(* Mutant: the update is tried again without reading the summary again.     *)
MaterializeWithoutRead(p) ==
    /\ caller[p].pc = "project"
    /\ LET ena == caller[p].row.ena
           old == caller[p].sum
       IN /\ IF old = 0 THEN CreateSummary(ena) ELSE UpdateSummaryRow(old, ena)
          /\ Goto(p, caller[p].back)
    /\ UNCHANGED <<qrow, qlog, othersOfCall>>

MaterializeSummary(p) ==
    /\ caller[p].pc = "project"
    /\ LET ena == caller[p].row.ena
           old == caller[p].sum
       IN \/ /\ IF old = 0 THEN CreateSummary(ena) ELSE UpdateSummaryRow(old, ena)
             /\ Goto(p, caller[p].back)
          \/ qsum.v # old /\ Goto(p, "sum") /\ UNCHANGED qsum
    /\ UNCHANGED <<qrow, qlog, othersOfCall>>

(* Whatever was read is repaired before it is used.                         *)
RepairThen(p, row, back) ==
    caller' = [caller EXCEPT ![p].row = row, ![p].pc = "log", ![p].back = back]
-----------------------------------------------------------------------------
(* Ingest resolves the head and registers the queue; a client whose call was
   lost may ask again.                                                      *)

BeginIngest(p) ==
    /\ caller[p].pc \in {"idle", "lost"}
    /\ caller' = [caller EXCEPT ![p] = [NoCall EXCEPT !.pc = "init", !.want = plan.wants[p], !.uri = Latest]]
    /\ UNCHANGED <<qrow, qlog, qsum, othersOfCall>>

AfterInitialize(p) == IF caller[p].want = "none" THEN "registered" ELSE "prepare"

InitializeRead(p) ==
    /\ caller[p].pc = "init"
    /\ IF GetQueue.ena = Unset
       THEN caller' = [caller EXCEPT ![p].row = qrow, ![p].pc = "register"]
       ELSE RepairThen(p, GetQueue, AfterInitialize(p))
    /\ UNCHANGED <<qrow, qlog, qsum, othersOfCall>>

(* Create or Update with version 1, disabled and without a boundary.        *)
InitializeWrite(p, t) ==
    /\ caller[p].pc = "register"
    /\ LET old == caller[p].row
           new == [old EXCEPT !.ena = [v |-> 1, state |-> "DISABLED", from |-> "none", at |-> t]]
       IN \/ UpdateQueue(old.v, new) /\ RepairThen(p, qrow', AfterInitialize(p))
          \/ qrow.v # old.v /\ Goto(p, "init") /\ UNCHANGED qrow
    /\ UNCHANGED <<qlog, qsum, othersOfCall>>
-----------------------------------------------------------------------------
(* Prepare pins the state the decision was taken on.                        *)

LoadForPrepare(p) ==
    /\ caller[p].pc = "prepare"
    /\ RepairThen(p, GetQueue, "decide")
    /\ UNCHANGED <<qrow, qlog, qsum, othersOfCall>>

(* Mutant: any boundary will do.                                            *)
ForwardAlways(old, new) == TRUE
Forward(old, new) == old = "none" \/ IsAncestor(old, new)

Prepare(p, t) ==
    /\ caller[p].pc = "decide"
    /\ LET current == caller[p].row.ena
           c == caller[p]
       IN IF current.state = c.want
          THEN caller' = [caller EXCEPT ![p].prev = current, ![p].next = current, ![p].pc = "apply",
                                      ![p].row = NoRow]
          ELSE IF ~Forward(current.from, c.uri) THEN Return(p, "refused", Unset)
          ELSE caller' = [caller EXCEPT ![p].prev = current, ![p].pc = "apply", ![p].row = NoRow,
                  ![p].next = [current EXCEPT !.state = c.want, !.from = c.uri, !.at = t]]
    /\ UNCHANGED <<qrow, qlog, qsum, othersOfCall>>
-----------------------------------------------------------------------------
(* Apply.                                                                   *)

LoadForApply(p) ==
    /\ caller[p].pc = "apply"
    /\ RepairThen(p, GetQueue, "check")
    /\ UNCHANGED <<qrow, qlog, qsum, othersOfCall>>

Changed(c) == [c.next EXCEPT !.v = c.prev.v + 1]

(* Mutant: only the current state is compared with the change.              *)
ReconcileCurrent(c, current) == current = Changed(c)

(* The version after the one the change was prepared on is this change: the
   current state, or the one retained for that version.                     *)
ReconcileChange(c, current) ==
    /\ current.v > c.prev.v
    /\ (IF current.v = c.prev.v + 1 THEN current ELSE LoadVersion(c.prev.v + 1)) = Changed(c)

(* A change whose target is already set is over if what it was prepared on
   is, or was, the state of that version.                                   *)
NothingToChange(c, current) == c.prev = (IF current.v = c.prev.v THEN current ELSE LoadVersion(c.prev.v))

BoundaryHolds(c) == IsAncestor(c.next.from, Latest) /\ Forward(c.prev.from, c.next.from)

ApplyCheck(p) ==
    /\ caller[p].pc = "check"
    /\ LET c == caller[p]
           current == c.row.ena
       IN \/ /\ c.next = c.prev
             /\ IF NothingToChange(c, current) THEN Return(p, "answered", c.prev) ELSE PrepareAgain(p)
          \/ /\ c.next # c.prev /\ current.v # c.prev.v
             /\ IF ReconcileChange(c, current) THEN Return(p, "answered", Changed(c)) ELSE PrepareAgain(p)
          \/ /\ c.next # c.prev /\ current.v = c.prev.v
             /\ IF current # c.prev THEN PrepareAgain(p)
                ELSE IF BoundaryHolds(c) THEN Goto(p, "write") ELSE Return(p, "refused", Unset)
    /\ UNCHANGED <<qrow, qlog, qsum, othersOfCall>>

ApplyWrite(p) ==
    /\ caller[p].pc = "write"
    /\ LET c == caller[p]
       IN \/ /\ UpdateQueue(c.row.v, [c.row EXCEPT !.ena = Changed(c)])
             /\ caller' = [caller EXCEPT ![p].row = qrow', ![p].pc = "log", ![p].back = "applied",
                                         ![p].moves = @ + 1]
          \/ /\ qrow.v # c.row.v
             /\ caller' = [caller EXCEPT ![p].pc = "observe", ![p].why = "mismatch"]
             /\ UNCHANGED qrow
    /\ UNCHANGED <<qlog, qsum, othersOfCall>>

(* The store answers with an error, whether or not the row was written.     *)
ApplyWriteError(p, done) ==
    /\ caller[p].pc = "write" /\ qfaults < plan.faults
    /\ LET c == caller[p]
       IN IF done THEN UpdateQueue(c.row.v, [c.row EXCEPT !.ena = Changed(c)]) ELSE UNCHANGED qrow
    /\ caller' = [caller EXCEPT ![p].pc = "observe", ![p].why = "error",
                                ![p].moves = IF done THEN @ + 1 ELSE @]
    /\ qfaults' = qfaults + 1
    /\ UNCHANGED <<plan, qlog, qsum, head, stage, staged, status>>

LoadToObserve(p) ==
    /\ caller[p].pc = "observe"
    /\ RepairThen(p, GetQueue, "observed")
    /\ UNCHANGED <<qrow, qlog, qsum, othersOfCall>>

(* A write that failed may have been made: the row and the history tell.    *)
ApplyObserve(p) ==
    /\ caller[p].pc = "observed"
    /\ LET c == caller[p]
           current == c.row.ena
       IN IF current = c.prev /\ c.why = "mismatch" THEN Goto(p, "apply")
          ELSE IF ReconcileChange(c, current) THEN Return(p, "answered", Changed(c))
          ELSE IF c.why = "mismatch" THEN PrepareAgain(p) ELSE Return(p, "failed", Unset)
    /\ UNCHANGED <<qrow, qlog, qsum, othersOfCall>>

(* Registered without a decision, or applied, and the read models repaired. *)
AnswerIngest(p) ==
    /\ caller[p].pc \in {"registered", "applied"}
    /\ Return(p, "answered", caller[p].row.ena)
    /\ UNCHANGED <<qrow, qlog, qsum, othersOfCall>>

(* A call to a store or to source control fails, or the process dies: what was
   written stays.  Only a mismatch that could not be observed is still taken as
   one, and the decision prepared again.                                    *)
FailIngest(p) ==
    /\ caller[p].pc \notin {"idle", "answered", "refused", "failed", "lost", "inconsistent"}
    /\ qfaults < plan.faults /\ qfaults' = qfaults + 1
    /\ LET c == caller[p]
           observing == c.pc = "observe" \/ (c.pc \in {"log", "sum", "project"} /\ c.back = "observed")
       IN \/ Return(p, "lost", IF c.moves = 1 THEN Changed(c) ELSE Unset)
          \/ observing /\ c.why = "mismatch" /\ PrepareAgain(p)
    /\ UNCHANGED <<plan, qrow, qlog, qsum, head, stage, staged, status>>

IngestStep(p) ==
    \/ RetainLog(p) \/ ReadQueueSummary(p) \/ MaterializeSummary(p)
    \/ InitializeRead(p) \/ LoadForPrepare(p) \/ LoadForApply(p) \/ LoadToObserve(p)
    \/ ApplyCheck(p) \/ ApplyWrite(p) \/ ApplyObserve(p) \/ AnswerIngest(p)
    \/ \E t \in 1..MaxStamp : InitializeWrite(p, t) \/ Prepare(p, t)
-----------------------------------------------------------------------------
(* The pipeline shares the row: it reads it, and writes its own part.       *)

StageRead ==
    /\ stage = NoRow /\ qrow # NoRow /\ staged < plan.stages
    /\ stage' = qrow
    /\ UNCHANGED <<plan, qrow, qlog, qsum, head, caller, staged, status, qfaults>>

StageWrite ==
    /\ stage # NoRow
    /\ \/ UpdateQueue(stage.v, [stage EXCEPT !.pipe = @ + 1]) /\ staged' = staged + 1
       \/ qrow.v # stage.v /\ UNCHANGED <<qrow, staged>>
    /\ stage' = NoRow
    /\ UNCHANGED <<plan, qlog, qsum, head, caller, status, qfaults>>

(* The trunk moves on, or is rewritten.                                     *)
MoveTip ==
    /\ head < Len(plan.tips)
    /\ head' = head + 1
    /\ UNCHANGED <<plan, qrow, qlog, qsum, caller, stage, staged, status, qfaults>>
-----------------------------------------------------------------------------
(* GetQueueStatus.                                                          *)

othersOfStatus == <<plan, qrow, qlog, qsum, head, caller, stage, staged, qfaults>>

LoadSummary(c) ==
    /\ status.pc = "idle" /\ qsum.v # 0
    /\ status' = [pc |-> "load", uri |-> c, seen |-> GetQueueSummary.ena, cur |-> GetQueueSummary.ena]
    /\ UNCHANGED othersOfStatus

(* The summary must match the history.                                      *)
LoadRetained ==
    /\ status.pc = "load"
    /\ status' = [status EXCEPT !.pc = IF LoadVersion(status.seen.v) = status.seen
                                       THEN "resolve" ELSE "inconsistent"]
    /\ UNCHANGED othersOfStatus

ResolveTip ==
    /\ status.pc = "resolve"
    /\ status' = [status EXCEPT !.pc =
          IF IsAncestor(status.uri, Latest) /\ (status.cur.from # "none" => IsAncestor(status.cur.from, Latest))
          THEN "walk" ELSE "unresolved"]
    /\ UNCHANGED othersOfStatus

(* Mutant: the arguments swapped.                                           *)
CoversSwapped(ena, c) == ena.v = 1 \/ IsAncestor(c, ena.from)
Covers(ena, c) == ena.v = 1 \/ IsAncestor(ena.from, c)

(* Back from the newest change to the one that covers the commit.           *)
WalkHistory ==
    /\ status.pc = "walk"
    /\ LET cur == status.cur
       IN IF Covers(cur, status.uri)
          THEN status' = [status EXCEPT !.pc = "answered"]
          ELSE IF ~IsAncestor(status.uri, cur.from)
          THEN status' = [status EXCEPT !.pc = "unresolved"]
          ELSE LET prev == LoadVersion(cur.v - 1)
               IN IF prev = Unset \/ prev.state = cur.state \/ ~Forward(prev.from, cur.from)
                  THEN status' = [status EXCEPT !.pc = "inconsistent"]
                  ELSE status' = [status EXCEPT !.cur = prev]
    /\ UNCHANGED othersOfStatus

StatusStep == LoadRetained \/ ResolveTip \/ WalkHistory
-----------------------------------------------------------------------------
QueueStateNext ==
    \/ \E p \in Call : \/ BeginIngest(p) \/ IngestStep(p) \/ FailIngest(p)
                       \/ \E done \in BOOLEAN : ApplyWriteError(p, done)
    \/ StageRead \/ StageWrite \/ MoveTip
    \/ \E c \in plan.asks : LoadSummary(c)
    \/ StatusStep

QueueStateSpec == QueueStateInit /\ [][QueueStateNext]_qvars
QueueStateFair == /\ QueueStateSpec
                  /\ \A p \in Call : WF_qvars(IngestStep(p))
-----------------------------------------------------------------------------
Ena == [v : Nat, state : {"UNKNOWN", "ENABLED", "DISABLED"}, from : Commit \cup {"none"}, at : 0..MaxStamp]
Row == [v : Nat, pipe : Nat, ena : Ena]
(* The types of the state.                                                  *)
QueueStateTypeOK ==
    /\ qrow \in Row /\ qlog \in [DOMAIN qlog -> Ena] /\ qsum \in [v : Nat, ena : Ena]
    /\ head \in DOMAIN plan.tips /\ stage \in Row /\ staged \in 0..plan.stages /\ qfaults \in 0..plan.faults
    /\ \A p \in Call : caller[p].row \in Row /\ caller[p].prev \in Ena /\ caller[p].next \in Ena
    /\ status.seen \in Ena /\ status.cur \in Ena

(* What the read models say of one another is never contradictory, to a
   writer that repairs them or to a client in the middle of reading: a change
   is retained before it is projected and before the next one is made.      *)
NeverInconsistent ==
    /\ status.pc # "inconsistent"
    /\ \A p \in Call : caller[p].pc # "inconsistent"

(* The change of one version below the row's is retained, enablement
   alternates and boundaries move forward, whoever raced and whatever crashed
   between the row's write and the repair of the read models.               *)
HistoryIsWhole ==
    \A v \in 1..qrow.ena.v - 1 :
        /\ v \in DOMAIN qlog
        /\ LET next == IF v + 1 = qrow.ena.v THEN qrow.ena ELSE qlog[v + 1]
           IN qlog[v].state # next.state /\ (v > 1 => IsAncestor(qlog[v].from, next.from))

(* One call moves the enablement at most once.  One that was refused, or whose
   write is reported as failed after the row was read back, did not move it: a
   write whose reply was lost is found in the row or in the history, even when
   another call has changed the queue since.  An error of the other kind says
   nothing: a call whose repair or whose reading back failed may have moved it
   (queuestate.go:206-208, 223, queuestate_test.go:263-271, 499-508), and the
   change it made is then found where a write of lost reply is.              *)
DecidedOnce ==
    \A p \in Call :
        LET c == caller[p]
        IN /\ c.moves <= 1
           /\ c.pc \in {"failed", "refused"} => c.moves = 0
           /\ c.pc = "lost" /\ c.moves = 1 =>
                 c.got = qrow.ena \/ (c.got.v \in DOMAIN qlog /\ qlog[c.got.v] = c.got)

(* A call that was answered can be read: what it was answered with is what it
   asked for, is retained, and the summary shows it or a later change.      *)
AnsweredIsVisible ==
    \A p \in Call : caller[p].pc = "answered" =>
        LET got == caller[p].got
        IN /\ got.v \in DOMAIN qlog /\ qlog[got.v] = got
           /\ qsum.ena.v >= got.v
           /\ caller[p].want \in {"none", got.state}

(* The pipeline's updates to the row survive a change of enablement.        *)
StageIsKept == qrow.pipe = staged

(* The status of a commit is what the newest change that covers it says, of
   the changes the summary knew when the call began.                        *)
StatusIsTrue ==
    status.pc = "answered" =>
        LET covering == {v \in 1..status.seen.v : v = 1 \/ IsAncestor(qlog[v].from, status.uri)}
        IN status.cur.v = CHOOSE v \in covering : \A w \in covering : w <= v

Ended(p) == caller[p].pc \in {"idle", "answered", "refused", "failed", "lost"}
(* Every call comes to an end: the compare-and-swap loops do not starve.    *)
IngestEnds == \A p \in Call : []<>Ended(p)
=============================================================================
