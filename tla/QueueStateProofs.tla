-------------------------- MODULE QueueStateProofs --------------------------
(***************************************************************************)
(* Proofs about QueueState, for any repository, any number of calls and any *)
(* plan: the history of a queue's enablement is whole, and row, log and     *)
(* summary never contradict one another to a caller or a client.            *)
(*                                                                         *)
(* The row, the history and the summary are seen as one record that only    *)
(* grows; what a call or a client holds was read from it, and stays true of *)
(* whatever it grows to.                                                    *)
(***************************************************************************)
EXTENDS QueueState, TLAPS
-----------------------------------------------------------------------------
(* The stores, the state that callers and the status call share.            *)
Stores == [row |-> qrow, log |-> qlog, sum |-> qsum]
EnaLog == UNION {[D -> Ena] : D \in SUBSET Nat}
StoreRow == [row : Row, log : EnaLog, sum : [v : Nat, ena : Ena]]

\* A state retained in the history, one that also is in the summary or has a
\* later one there, and one read from the row before it is retained.
Retained(h, e) == e.v \in DOMAIN h.log /\ h.log[e.v] = e
Visible(h, e) == Retained(h, e) /\ e.v <= h.sum.ena.v
Told(h, e) == Retained(h, e) \/ (e = h.row.ena /\ e.v # 0)

\* The first state is disabled and without a boundary, every other has one.
EnaSound(e) ==
    /\ e.v = 0 => e = Unset
    /\ e.v = 1 => e.state = "DISABLED" /\ e.from = "none"
    /\ e.v > 1 => e.state \in {"ENABLED", "DISABLED"} /\ e.from \in Commit
Follows(old, new) == old.state # new.state /\ (old.v > 1 => IsAncestor(old.from, new.from))

\* The history holds every state before the row's and nothing else, but for the
\* row's own; a change follows the one before; the summary is of the history.
Version(h, v) == IF v = h.row.ena.v THEN h.row.ena ELSE h.log[v]
StoreSound(h) ==
    /\ EnaSound(h.row.ena) /\ (h.row.v = 0 => h.row = NoRow)
    /\ \A v \in DOMAIN h.log : /\ v \in 1 .. h.row.ena.v /\ h.log[v].v = v /\ EnaSound(h.log[v])
                               /\ v = h.row.ena.v => h.log[v] = h.row.ena
    /\ \A v \in 1 .. h.row.ena.v - 1 : v \in DOMAIN h.log /\ Follows(Version(h, v), Version(h, v + 1))
    /\ IF h.sum.v = 0 THEN h.sum.ena = Unset ELSE Retained(h, h.sum.ena)

\* What no step takes back: the history is only added to, the row's state is
\* retained before it is replaced, and a version of a row has one content.
Grows(h, g) ==
    /\ \A v \in DOMAIN h.log : v \in DOMAIN g.log /\ g.log[v] = h.log[v]
    /\ \/ g.row.ena = h.row.ena
       \/ h.row.ena.v < g.row.ena.v /\ (h.row.ena.v = 0 \/ Retained(g, h.row.ena))
    /\ h.row.v <= g.row.v /\ (h.row.v = g.row.v => h.row = g.row)
    /\ h.sum.v <= g.sum.v /\ (h.sum.v = g.sum.v => h.sum = g.sum)
    /\ h.sum.ena.v <= g.sum.ena.v
-----------------------------------------------------------------------------
(* One ingest call.                                                         *)
Repairing == {"log", "sum", "project"}
Back == {"registered", "prepare", "decide", "check", "observed", "applied"}
Over == {"answered", "refused", "failed", "lost"}
Pc == {"idle", "init", "register", "apply", "write", "observe"} \cup Repairing \cup Back \cup Over
CallRow == [pc : Pc \cup {"inconsistent"}, want : {"none", "ENABLED", "DISABLED"}, uri : Commit \cup {"none"},
            prev : Ena, next : Ena, row : Row, sum : Nat, back : Back \cup {"none"},
            why : {"none", "mismatch", "error"}, moves : Nat, got : Ena]

\* Where a call is, or goes on once what it read is repaired.
On(c) == IF c.pc \in Repairing THEN c.back ELSE c.pc
Observing == {"observe", "observed"}
Applying == {"apply", "check", "write", "applied"} \cup Observing
Deciding == {"prepare", "decide"} \cup Applying

\* The copy of the row: told of by the row, then retained, then shown.
CopySound(h, c) ==
    /\ c.row.v <= h.row.v /\ (c.row.v = h.row.v => c.row = h.row)
    /\ c.pc = "register" => c.row.ena = Unset
    /\ c.pc \in Repairing => c.back \in Back /\ Told(h, c.row.ena)
    /\ c.pc \in {"sum", "project"} => Retained(h, c.row.ena)
    /\ c.pc = "project" => c.sum <= h.sum.v /\ (c.sum = h.sum.v => h.sum.ena.v < c.row.ena.v)
    /\ c.pc \in {"registered", "decide", "check", "write", "observed", "applied"} => Visible(h, c.row.ena)

\* The decision: taken on a state that is shown, and a change of it if any.
DecisionSound(h, c) ==
    /\ On(c) = "registered" => c.want = "none"
    /\ On(c) \in {"init", "register"} \cup Deciding => c.uri # "none"
    /\ On(c) \in Deciding => c.want # "none" /\ h.row.ena.v # 0
    /\ On(c) \in Applying => /\ Visible(h, c.prev) /\ c.next.state = c.want
                             /\ c.next = c.prev \/ (Follows(c.prev, c.next) /\ c.next.from # "none")
    /\ On(c) \in {"write", "applied"} \cup Observing => c.next # c.prev
    /\ On(c) = "write" => c.row.ena = c.prev
    /\ On(c) = "applied" => c.row.ena = Changed(c)
    /\ On(c) \in Observing => c.why # "none"

\* The row was written at most once, and a call that does not know whether it
\* was can tell from what it reads next; so could one that was lost.
MoveSound(h, c) ==
    /\ c.moves \in {0, 1}
    /\ c.moves = 1 =>
          \/ c.pc = "answered" \/ On(c) = "applied"
          \/ On(c) \in Observing /\ c.why = "error" /\ Told(h, Changed(c))
          \/ c.pc = "lost" /\ Told(h, c.got)
    /\ c.moves = 1 /\ On(c) = "observed" => c.prev.v < c.row.ena.v

AnswerSound(h, c) == c.pc = "answered" => Visible(h, c.got) /\ c.want \in {"none", c.got.state}

CallSound(h, c) ==
    /\ c.pc # "inconsistent" /\ CopySound(h, c) /\ DecisionSound(h, c) /\ MoveSound(h, c) /\ AnswerSound(h, c)
-----------------------------------------------------------------------------
(* The status call and the pipeline.                                        *)
StatusRow == [pc : {"idle", "load", "resolve", "walk", "answered", "unresolved", "inconsistent"},
              uri : Commit \cup {"none"}, seen : Ena, cur : Ena]

\* The walk has passed over changes that do not cover the commit.
StatusSound(h, s) ==
    /\ s.pc # "inconsistent"
    /\ s.pc # "idle" => Retained(h, s.seen)
    /\ s.pc \in {"load", "resolve"} => s.cur = s.seen
    /\ s.pc \in {"walk", "answered"} =>
          /\ Retained(h, s.cur) /\ s.cur.v <= s.seen.v
          /\ \A v \in s.cur.v + 1 .. s.seen.v : v # 1 /\ ~IsAncestor(h.log[v].from, s.uri)
    /\ s.pc = "answered" => Covers(s.cur, s.uri)

StageSound(h, r) == r.v <= h.row.v /\ (r.v = h.row.v => r = h.row)

Types ==
    /\ QueueStateAssumed
    /\ plan \in Plans /\ Stores \in StoreRow /\ head \in DOMAIN plan.tips
    /\ caller \in [Call -> CallRow] /\ status \in StatusRow
    /\ stage \in Row /\ staged \in 0 .. plan.stages /\ (stage # NoRow => staged < plan.stages)
    /\ qfaults \in 0 .. plan.faults

IInv ==
    /\ Types /\ StoreSound(Stores) /\ qrow.pipe = staged
    /\ \A p \in Call : CallSound(Stores, caller[p])
    /\ StatusSound(Stores, status) /\ StageSound(Stores, stage)
-----------------------------------------------------------------------------
(* What was said of the stores holds on as they grow.                       *)

LEMMA Fields ==
    ASSUME NEW h \in StoreRow
    PROVE  /\ h.row \in Row /\ h.row.v \in Nat /\ h.row.pipe \in Nat /\ h.row.ena \in Ena /\ h.row.ena.v \in Nat
           /\ DOMAIN h.log \subseteq Nat /\ \A v \in DOMAIN h.log : h.log[v] \in Ena /\ h.log[v].v \in Nat
           /\ h.sum.v \in Nat /\ h.sum.ena \in Ena /\ h.sum.ena.v \in Nat
<1>1. h.log \in EnaLog BY DEF StoreRow
<1>2. PICK D \in SUBSET Nat : h.log \in [D -> Ena] BY <1>1 DEF EnaLog
<1> QED BY <1>2 DEF StoreRow, Row, Ena

LEMMA CallFields ==
    ASSUME NEW c \in CallRow
    PROVE  /\ c.pc \in Pc \cup {"inconsistent"} /\ c.want \in {"none", "ENABLED", "DISABLED"}
           /\ c.uri \in Commit \cup {"none"} /\ c.row \in Row /\ c.row.v \in Nat /\ c.row.ena \in Ena
           /\ c.row.ena.v \in Nat /\ c.prev \in Ena /\ c.prev.v \in Nat /\ c.next \in Ena /\ c.sum \in Nat
           /\ c.back \in Back \cup {"none"} /\ c.why \in {"none", "mismatch", "error"} /\ c.moves \in Nat
           /\ c.got \in Ena /\ c.got.v \in Nat /\ Changed(c) \in Ena /\ Changed(c).v = c.prev.v + 1
BY DEF CallRow, Row, Ena, Changed

LEMMA GrowsNot == ASSUME NEW h \in StoreRow PROVE Grows(h, h)
BY Fields DEF Grows

LEMMA KnownGrows ==
    ASSUME NEW h, NEW g, NEW e, Grows(h, g), h \in StoreRow, g \in StoreRow, e \in Ena
    PROVE  /\ Retained(h, e) => Retained(g, e)
           /\ Visible(h, e) => Visible(g, e)
           /\ Told(h, e) => Told(g, e)
<1>1. Retained(h, e) => Retained(g, e) BY DEF Retained, Grows
<1>2. e.v \in Nat /\ h.sum.ena.v \in Nat /\ g.sum.ena.v \in Nat BY Fields DEF Ena
<1>3. Visible(h, e) => Visible(g, e) BY <1>1, <1>2 DEF Visible, Grows
<1>4. Told(h, e) => Told(g, e) BY <1>1 DEF Told, Grows
<1> QED BY <1>1, <1>3, <1>4

LEMMA CallGrows ==
    ASSUME NEW h \in StoreRow, NEW g \in StoreRow, Grows(h, g), NEW c \in CallRow, CallSound(h, c)
    PROVE  CallSound(g, c)
<1>1. \A e \in Ena : /\ Retained(h, e) => Retained(g, e)
                     /\ Visible(h, e) => Visible(g, e)
                     /\ Told(h, e) => Told(g, e)
  BY KnownGrows
<1> USE CallFields, Fields
<1>2. CopySound(g, c)
  <2>1. c.row.v <= g.row.v /\ (c.row.v = g.row.v => c.row = g.row)
    BY DEF CallSound, CopySound, Grows
  <2>2. c.pc = "project" => c.sum <= g.sum.v /\ (c.sum = g.sum.v => g.sum.ena.v < c.row.ena.v)
    BY DEF CallSound, CopySound, Grows
  <2> QED BY <1>1, <2>1, <2>2 DEF CallSound, CopySound
<1>3. DecisionSound(g, c)
  <2>1. h.row.ena.v # 0 => g.row.ena.v # 0 BY DEF Grows
  <2> QED BY <1>1, <2>1 DEF CallSound, DecisionSound
<1>4. MoveSound(g, c) BY <1>1 DEF CallSound, MoveSound
<1>5. AnswerSound(g, c) BY <1>1 DEF CallSound, AnswerSound
<1> QED BY <1>2, <1>3, <1>4, <1>5 DEF CallSound

LEMMA StatusGrows ==
    ASSUME NEW h \in StoreRow, NEW g \in StoreRow, Grows(h, g), StoreSound(h), NEW s \in StatusRow,
           StatusSound(h, s)
    PROVE  StatusSound(g, s)
<1>1. s.seen \in Ena /\ s.cur \in Ena /\ s.seen.v \in Nat /\ s.cur.v \in Nat BY DEF StatusRow, Ena
<1>2. /\ Retained(h, s.seen) => Retained(g, s.seen)
      /\ Retained(h, s.cur) => Retained(g, s.cur)
  BY <1>1, KnownGrows
<1>3. ASSUME s.pc \in {"walk", "answered"}, NEW v \in s.cur.v + 1 .. s.seen.v
      PROVE  v # 1 /\ ~IsAncestor(g.log[v].from, s.uri)
  <2>1. v # 1 /\ ~IsAncestor(h.log[v].from, s.uri) BY <1>3 DEF StatusSound
  <2>2. s.seen.v \in DOMAIN h.log BY <1>3 DEF StatusSound, Retained
  <2>3. s.seen.v \in 1 .. h.row.ena.v BY <2>2 DEF StoreSound
  <2>4. v \in DOMAIN h.log
    <3>1. v \in 1 .. s.seen.v BY <1>1
    <3> QED BY <2>2, <2>3, <3>1, Fields DEF StoreSound
  <2> QED BY <2>1, <2>4 DEF Grows
<1> QED BY <1>2, <1>3 DEF StatusSound

LEMMA StageGrows ==
    ASSUME NEW h \in StoreRow, NEW g \in StoreRow, Grows(h, g), NEW r \in Row, StageSound(h, r)
    PROVE  StageSound(g, r)
<1>1. r.v \in Nat BY DEF Row
<1> QED BY <1>1, Fields DEF StageSound, Grows
-----------------------------------------------------------------------------
(* The four ways in which the stores are written.                           *)

\* A row with the same enablement: what the pipeline writes.
LEMMA RowKept ==
    ASSUME NEW h \in StoreRow, StoreSound(h), NEW r \in Row, r.v = h.row.v + 1, r.ena = h.row.ena,
           NEW g, g = [h EXCEPT !.row = r]
    PROVE  g \in StoreRow /\ StoreSound(g) /\ Grows(h, g)
<1>1. g \in StoreRow /\ g.row = r /\ g.log = h.log /\ g.sum = h.sum BY DEF StoreRow
<1>2. Grows(h, g) BY <1>1, Fields DEF Grows
<1>3. StoreSound(g) BY <1>1, Fields DEF StoreSound, Version, Retained
<1> QED BY <1>1, <1>2, <1>3

\* A row whose state is the change that follows the one before, which is
\* retained, or the first.
LEMMA RowChanged ==
    ASSUME NEW h \in StoreRow, StoreSound(h), NEW r \in Row, r.v = h.row.v + 1, r.ena.v = h.row.ena.v + 1,
           EnaSound(r.ena), h.row.ena.v = 0 \/ (Retained(h, h.row.ena) /\ Follows(h.row.ena, r.ena)),
           NEW g, g = [h EXCEPT !.row = r]
    PROVE  g \in StoreRow /\ StoreSound(g) /\ Grows(h, g)
<1>1. g \in StoreRow /\ g.row = r /\ g.log = h.log /\ g.sum = h.sum BY DEF StoreRow
<1> USE Fields
<1>2. r.v \in Nat /\ r.ena \in Ena /\ r.ena.v \in Nat BY DEF Row, Ena
<1>3. Grows(h, g) BY <1>1, <1>2 DEF Grows, Retained
<1>4. EnaSound(g.row.ena) /\ (g.row.v = 0 => g.row = NoRow) BY <1>1, <1>2
<1>5. ASSUME NEW v \in DOMAIN g.log
      PROVE  v \in 1 .. g.row.ena.v /\ g.log[v].v = v /\ EnaSound(g.log[v]) /\ v # g.row.ena.v
  BY <1>1, <1>2 DEF StoreSound
<1>6. ASSUME NEW v \in 1 .. g.row.ena.v - 1
      PROVE  v \in DOMAIN g.log /\ Follows(Version(g, v), Version(g, v + 1))
  <2>1. CASE v = h.row.ena.v
    <3>1. h.row.ena.v # 0 BY <2>1
    <3>2. Version(g, v) = h.row.ena /\ Version(g, v + 1) = r.ena
      BY <1>1, <1>2, <2>1, <3>1 DEF Version, Retained
    <3> QED BY <1>1, <2>1, <3>1, <3>2 DEF Retained
  <2>2. CASE v # h.row.ena.v
    <3>1. v \in 1 .. h.row.ena.v - 1 BY <1>1, <1>2, <2>2
    <3>2. v \in DOMAIN h.log /\ Follows(Version(h, v), Version(h, v + 1)) BY <3>1 DEF StoreSound
    <3>3. Version(g, v) = Version(h, v) BY <1>1, <1>2, <3>1 DEF Version
    <3>4. Version(g, v + 1) = Version(h, v + 1)
      BY <1>1, <1>2, <3>1 DEF Version, Retained
    <3> QED BY <1>1, <3>2, <3>3, <3>4
  <2> QED BY <2>1, <2>2
<1>7. IF g.sum.v = 0 THEN g.sum.ena = Unset ELSE Retained(g, g.sum.ena)
  BY <1>1 DEF StoreSound, Retained
<1> QED BY <1>1, <1>3, <1>4, <1>5, <1>6, <1>7 DEF StoreSound

\* A state told of by the row is added to the history, or already is in it.
LEMMA LogRetains ==
    ASSUME NEW h \in StoreRow, StoreSound(h), NEW e \in Ena, Told(h, e),
           NEW l, l = [w \in DOMAIN h.log \cup {e.v} |-> IF w \in DOMAIN h.log THEN h.log[w] ELSE e],
           NEW g, g = [h EXCEPT !.log = l]
    PROVE  g \in StoreRow /\ StoreSound(g) /\ Grows(h, g) /\ Retained(g, e)
<1> USE Fields
<1>0. e.v \in Nat BY DEF Ena
<1>1. l \in EnaLog
  <2>1. l \in [DOMAIN h.log \cup {e.v} -> Ena] BY <1>0
  <2>2. DOMAIN h.log \cup {e.v} \in SUBSET Nat BY <1>0
  <2> QED BY <2>1, <2>2 DEF EnaLog
<1>2. g \in StoreRow /\ g.row = h.row /\ g.log = l /\ g.sum = h.sum BY <1>1 DEF StoreRow
<1>3. \A w \in DOMAIN h.log : w \in DOMAIN l /\ l[w] = h.log[w] OBVIOUS
<1>4. DOMAIN l = DOMAIN h.log \cup {e.v} OBVIOUS
<1>5. e.v \in DOMAIN h.log => h.log[e.v] = e
  BY DEF Told, Retained, StoreSound
<1>6. l[e.v] = e BY <1>5
<1>7. Grows(h, g) BY <1>2, <1>3 DEF Grows
<1>8. ASSUME NEW v \in DOMAIN l
      PROVE  /\ v \in 1 .. h.row.ena.v /\ l[v].v = v /\ EnaSound(l[v])
             /\ v = h.row.ena.v => l[v] = h.row.ena
  <2>1. CASE v \in DOMAIN h.log BY <1>3, <2>1 DEF StoreSound
  <2>2. CASE v \notin DOMAIN h.log
    <3>1. v = e.v /\ l[v] = e BY <1>4, <1>6, <2>2
    <3>2. e = h.row.ena /\ e.v # 0 BY <2>2, <3>1 DEF Told, Retained
    <3> QED BY <1>0, <3>1, <3>2 DEF StoreSound
  <2> QED BY <2>1, <2>2
<1>9. ASSUME NEW v \in 1 .. h.row.ena.v - 1
      PROVE  v \in DOMAIN l /\ Follows(Version(g, v), Version(g, v + 1))
  <2>1. v \in DOMAIN h.log /\ Follows(Version(h, v), Version(h, v + 1)) BY DEF StoreSound
  <2>2. v + 1 = h.row.ena.v \/ v + 1 \in 1 .. h.row.ena.v - 1 OBVIOUS
  <2>3. v + 1 = h.row.ena.v \/ v + 1 \in DOMAIN h.log BY <2>2 DEF StoreSound
  <2>4. Version(g, v) = Version(h, v) /\ Version(g, v + 1) = Version(h, v + 1)
    BY <1>2, <1>3, <2>1, <2>3 DEF Version
  <2> QED BY <1>3, <2>1, <2>4
<1>10. IF g.sum.v = 0 THEN g.sum.ena = Unset ELSE Retained(g, g.sum.ena)
  BY <1>2, <1>3 DEF StoreSound, Retained
<1>11. StoreSound(g)
  <2>1. EnaSound(g.row.ena) /\ (g.row.v = 0 => g.row = NoRow) BY <1>2 DEF StoreSound
  <2>2. \A v \in DOMAIN g.log : /\ v \in 1 .. g.row.ena.v /\ g.log[v].v = v /\ EnaSound(g.log[v])
                                /\ v = g.row.ena.v => g.log[v] = g.row.ena
    <3>1. g.log = l /\ g.row = h.row BY <1>2
    <3>2. \A v \in DOMAIN l : /\ v \in 1 .. h.row.ena.v /\ l[v].v = v /\ EnaSound(l[v])
                              /\ (v = h.row.ena.v => l[v] = h.row.ena)
      BY <1>8
    <3> QED BY ONLY <3>1, <3>2
  <2>3. \A v \in 1 .. g.row.ena.v - 1 : v \in DOMAIN g.log /\ Follows(Version(g, v), Version(g, v + 1))
    BY <1>2, <1>9
  <2> QED BY <1>10, <2>1, <2>2, <2>3 DEF StoreSound
<1> QED BY <1>2, <1>4, <1>6, <1>7, <1>11 DEF Retained

\* The summary moves on to a later retained state.
LEMMA SummaryMoves ==
    ASSUME NEW h \in StoreRow, StoreSound(h), NEW e \in Ena, Retained(h, e), h.sum.ena.v < e.v,
           NEW g, g = [h EXCEPT !.sum = [v |-> h.sum.v + 1, ena |-> e]]
    PROVE  g \in StoreRow /\ StoreSound(g) /\ Grows(h, g) /\ Visible(g, e)
<1> USE Fields
<1>1. e.v \in Nat BY DEF Ena
<1>2. g \in StoreRow /\ g.row = h.row /\ g.log = h.log /\ g.sum = [v |-> h.sum.v + 1, ena |-> e]
  BY DEF StoreRow
<1>3. Grows(h, g) BY <1>1, <1>2 DEF Grows
<1>4. Visible(g, e) BY <1>1, <1>2 DEF Visible, Retained
<1>5. StoreSound(g) BY <1>2 DEF StoreSound, Version, Retained
<1> QED BY <1>2, <1>3, <1>4, <1>5
-----------------------------------------------------------------------------
(* The state at hand, and steps seen from one call.                         *)

LEMMA StoresAtHand ==
    ASSUME IInv
    PROVE  /\ QueueStateAssumed /\ Stores.row = qrow /\ Stores.log = qlog /\ Stores.sum = qsum /\ Stores \in StoreRow /\ StoreSound(Stores)
           /\ qrow \in Row /\ qrow.v \in Nat /\ qrow.pipe \in Nat /\ qrow.ena \in Ena /\ qrow.ena.v \in Nat
           /\ qsum.v \in Nat /\ qsum.ena \in Ena /\ qsum.ena.v \in Nat
<1>1. QueueStateAssumed /\ Stores \in StoreRow /\ StoreSound(Stores) BY DEF IInv, Types
<1> QED BY <1>1, Fields DEF Stores

LEMMA CallAtHand ==
    ASSUME IInv, NEW p \in Call
    PROVE  caller[p] \in CallRow /\ CallSound(Stores, caller[p])
BY DEF IInv, Types

LEMMA StoresStill ==
    ASSUME IInv, UNCHANGED <<qrow, qlog, qsum>>
    PROVE  Stores' = Stores /\ Stores' \in StoreRow /\ StoreSound(Stores') /\ Grows(Stores, Stores')
<1>1. Stores' = Stores BY DEF Stores
<1> QED BY <1>1, GrowsNot DEF IInv, Types

\* Others keep what they know as long as the stores only grow.
LEMMA CallStep ==
    ASSUME IInv, NEW p \in Call, NEW d, caller' = [caller EXCEPT ![p] = d],
           Stores' \in StoreRow, StoreSound(Stores'), Grows(Stores, Stores'),
           d \in CallRow, CallSound(Stores', d),
           qrow'.pipe = qrow.pipe, UNCHANGED <<plan, head, stage, staged, status>>, qfaults' \in 0 .. plan.faults
    PROVE  IInv'
<1> USE DEF IInv
<1>1. Types' BY DEF Types
<1>2. ASSUME NEW q \in Call PROVE CallSound(Stores', caller'[q])
  <2>1. caller[q] \in CallRow /\ CallSound(Stores, caller[q]) /\ Stores \in StoreRow BY DEF Types
  <2>2. CallSound(Stores', caller[q]) BY <2>1, CallGrows
  <2>3. caller \in [Call -> CallRow] BY DEF Types
  <2> QED BY <2>2, <2>3
<1>3. StatusSound(Stores', status') BY StatusGrows DEF Types
<1>4. StageSound(Stores', stage') BY StageGrows DEF Types
<1> QED BY <1>1, <1>2, <1>3, <1>4

\* A step that writes no store.
LEMMA CallMoves ==
    ASSUME IInv, NEW p \in Call, NEW d, caller' = [caller EXCEPT ![p] = d],
           d \in CallRow, CallSound(Stores, d), UNCHANGED <<qrow, qlog, qsum, othersOfCall>>
    PROVE  IInv'
<1>1. qfaults \in 0 .. plan.faults BY DEF IInv, Types
<1> QED BY <1>1, CallStep, StoresStill DEF othersOfCall

\* A call that only moves on within the repair, or out of it to where it was
\* going, knows what it knew.
LEMMA SamePlace ==
    ASSUME NEW h \in StoreRow, NEW c \in CallRow, NEW d \in CallRow, On(d) = On(c), d.pc # "answered",
           c.pc # "answered", c.pc # "lost",
           d.want = c.want, d.uri = c.uri, d.prev = c.prev, d.next = c.next, d.row = c.row, d.why = c.why,
           d.moves = c.moves, DecisionSound(h, c), MoveSound(h, c)
    PROVE  DecisionSound(h, d) /\ MoveSound(h, d) /\ AnswerSound(h, d)
<1>1. Changed(d) = Changed(c) BY DEF Changed
<1> QED BY <1>1 DEF DecisionSound, MoveSound, AnswerSound

LEMMA NoRowSound == ASSUME IInv PROVE NoRow.v <= qrow.v /\ (NoRow.v = qrow.v => NoRow = qrow)
BY StoresAtHand DEF StoreSound, NoRow

LEMMA NoCallIsRow == ASSUME QueueStateAssumed PROVE NoCall \in CallRow /\ NoRow \in Row /\ Unset \in Ena
BY DEF QueueStateAssumed, NoCall, CallRow, NoRow, Row, Unset, Ena, Pc, Back, Repairing, Over

\* What is told of is not later than the row, and is what the history says.
LEMMA ToldBound ==
    ASSUME NEW h \in StoreRow, StoreSound(h), NEW e \in Ena, Told(h, e)
    PROVE  e.v \in 1 .. h.row.ena.v /\ (e.v \in DOMAIN h.log => h.log[e.v] = e)
<1>1. e.v \in Nat BY DEF Ena
<1> QED BY <1>1, Fields DEF Told, Retained, StoreSound
-----------------------------------------------------------------------------
(* The end of a call, and a decision that is taken again.                   *)

Returned(c, x, got) == [NoCall EXCEPT !.pc = x, !.want = c.want, !.got = got, !.moves = c.moves]
Retried(c) == [NoCall EXCEPT !.pc = "prepare", !.want = c.want, !.uri = c.uri, !.moves = c.moves]

LEMMA ReturnedSound ==
    ASSUME IInv, NEW c \in CallRow, MoveSound(Stores, c), NEW x \in Over, NEW got \in Ena,
           x = "answered" => Visible(Stores, got) /\ c.want \in {"none", got.state},
           x = "lost" => (c.moves = 1 => Told(Stores, got)),
           x \notin {"answered", "lost"} => c.moves = 0
    PROVE  Returned(c, x, got) \in CallRow /\ CallSound(Stores, Returned(c, x, got))
<1> DEFINE d == Returned(c, x, got)
<1>1. d \in CallRow
  <2>1. NoCall \in CallRow /\ x \in Pc /\ got \in Ena BY NoCallIsRow, StoresAtHand DEF Pc, Over, Back
  <2>2. c.want \in {"none", "ENABLED", "DISABLED"} /\ c.moves \in Nat /\ c.uri \in Commit \cup {"none"}
    BY CallFields
  <2> QED BY ONLY <2>1, <2>2 DEF Returned, CallRow
<1>2. d.pc = x /\ d.want = c.want /\ d.got = got /\ d.moves = c.moves /\ d.row = NoRow /\ d.back = "none"
  BY DEF Returned, NoCall
<1>3. x \notin Repairing /\ x \notin Back /\ On(d) = x BY <1>2 DEF Over, Repairing, Back, On
<1> HIDE DEF d
<1>4. CopySound(Stores, d)
  BY <1>2, <1>3, NoRowSound, StoresAtHand DEF CopySound, Over, Repairing
<1>5. DecisionSound(Stores, d) BY <1>3 DEF DecisionSound, Over, Deciding, Applying, Observing
<1>6. MoveSound(Stores, d)
  BY <1>2, <1>3 DEF MoveSound, Over
<1>7. AnswerSound(Stores, d) BY <1>2 DEF AnswerSound
<1>8. d \in CallRow /\ CallSound(Stores, d) BY <1>1, <1>2, <1>4, <1>5, <1>6, <1>7 DEF CallSound, Over
<1> QED BY <1>8 DEF d

LEMMA RetriedSound ==
    ASSUME IInv, NEW c \in CallRow, c.want # "none", c.uri # "none", qrow.ena.v # 0, c.moves = 0
    PROVE  Retried(c) \in CallRow /\ CallSound(Stores, Retried(c))
<1> DEFINE d == Retried(c)
<1>1. d \in CallRow
  <2>1. NoCall \in CallRow /\ "prepare" \in Pc BY NoCallIsRow, StoresAtHand DEF Pc, Over, Back
  <2>2. c.want \in {"none", "ENABLED", "DISABLED"} /\ c.moves \in Nat /\ c.uri \in Commit \cup {"none"}
    BY CallFields
  <2> QED BY ONLY <2>1, <2>2 DEF Retried, CallRow
<1>2. d.pc = "prepare" /\ d.want = c.want /\ d.uri = c.uri /\ d.moves = 0 /\ d.row = NoRow /\ On(d) = "prepare"
  BY DEF Retried, NoCall, On, Repairing
<1> HIDE DEF d
<1>4. CopySound(Stores, d)
  BY <1>2, NoRowSound, StoresAtHand DEF CopySound, Repairing
<1>5. DecisionSound(Stores, d) BY <1>2, StoresAtHand DEF DecisionSound, Applying, Observing
<1>6. MoveSound(Stores, d) BY <1>2 DEF MoveSound
<1>7. AnswerSound(Stores, d) BY <1>2 DEF AnswerSound
<1>8. d \in CallRow /\ CallSound(Stores, d) BY <1>1, <1>2, <1>4, <1>5, <1>6, <1>7 DEF CallSound
<1> QED BY <1>8 DEF d

LEMMA Returns ==
    ASSUME IInv, NEW p \in Call, NEW x \in Over, NEW got \in Ena, Return(p, x, got),
           IF x = "answered" THEN Visible(Stores, got) /\ caller[p].want \in {"none", got.state}
                             ELSE x # "lost" /\ caller[p].moves = 0,
           UNCHANGED <<qrow, qlog, qsum, othersOfCall>>
    PROVE  IInv'
<1> DEFINE c == caller[p]
<1>1. c \in CallRow /\ MoveSound(Stores, c) BY CallAtHand DEF CallSound
<1>2. Returned(c, x, got) \in CallRow /\ CallSound(Stores, Returned(c, x, got))
  BY <1>1, ReturnedSound
<1>3. caller' = [caller EXCEPT ![p] = Returned(c, x, got)] BY DEF Return, Returned
<1> QED BY <1>2, <1>3, CallMoves

LEMMA Retries ==
    ASSUME IInv, NEW p \in Call, PrepareAgain(p), On(caller[p]) \in Applying, caller[p].moves = 0,
           UNCHANGED <<qrow, qlog, qsum, othersOfCall>>
    PROVE  IInv'
<1> DEFINE c == caller[p]
<1>1. c \in CallRow /\ DecisionSound(Stores, c) BY CallAtHand DEF CallSound
<1>2. c.want # "none" /\ c.uri # "none" /\ qrow.ena.v # 0
  BY <1>1, StoresAtHand DEF DecisionSound, Deciding
<1>3. Retried(c) \in CallRow /\ CallSound(Stores, Retried(c))
  BY <1>1, <1>2, RetriedSound
<1>4. caller' = [caller EXCEPT ![p] = Retried(c)] BY DEF PrepareAgain, Retried
<1> QED BY <1>3, <1>4, CallMoves

\* The row as a compare-and-swap writes it.
Written(r, e) == [[r EXCEPT !.ena = e] EXCEPT !.v = r.v + 1]

LEMMA WrittenIsRow ==
    ASSUME NEW r \in Row, NEW e \in Ena
    PROVE  /\ Written(r, e) \in Row /\ Written(r, e).v = r.v + 1 /\ Written(r, e).ena = e
           /\ Written(r, e).pipe = r.pipe
<1> DEFINE x == [r EXCEPT !.ena = e]
<1>1. x \in Row /\ x.v = r.v /\ x.ena = e /\ x.pipe = r.pipe /\ r.v \in Nat BY DEF Row
<1>2. Written(r, e) = [x EXCEPT !.v = r.v + 1] BY DEF Written
<1> HIDE DEF x
<1> QED BY <1>1, <1>2 DEF Row
-----------------------------------------------------------------------------
(* The repair of what was read.                                             *)

\* The row is read and about to be repaired.
LEMMA Repairs ==
    ASSUME IInv, NEW p \in Call, NEW b \in Back, RepairThen(p, qrow, b), qrow.ena.v # 0,
           LET d == [caller[p] EXCEPT !.row = qrow, !.pc = "log", !.back = b]
           IN  DecisionSound(Stores, d) /\ MoveSound(Stores, d),
           UNCHANGED <<qrow, qlog, qsum, othersOfCall>>
    PROVE  IInv'
<1> DEFINE c == caller[p]
           d == [c EXCEPT !.row = qrow, !.pc = "log", !.back = b]
<1>1. c \in CallRow BY CallAtHand
<1>2. d \in CallRow
  BY <1>1, StoresAtHand DEF CallRow, Pc, Repairing
<1>3. d.pc = "log" /\ d.row = qrow /\ d.back = b BY <1>1 DEF CallRow
<1>4. CopySound(Stores, d)
  BY <1>3, StoresAtHand DEF CopySound, Repairing, Told
<1>5. AnswerSound(Stores, d) BY <1>3 DEF AnswerSound
<1>6. CallSound(Stores, d) BY <1>3, <1>4, <1>5 DEF CallSound
<1>7. caller' = [caller EXCEPT ![p] = d] BY DEF RepairThen
<1> QED BY <1>2, <1>6, <1>7, CallMoves

LEMMA RetainLogKeeps ==
    ASSUME IInv, NEW p \in Call, RetainLog(p)
    PROVE  IInv'
<1> DEFINE c == caller[p]
           e == c.row.ena
           d == [c EXCEPT !.pc = "sum"]
           l == [w \in DOMAIN qlog \cup {e.v} |-> IF w \in DOMAIN qlog THEN qlog[w] ELSE e]
<1>1. c \in CallRow /\ CallSound(Stores, c) /\ c.pc = "log" /\ e \in Ena
  BY CallAtHand, CallFields DEF RetainLog
<1>2. Told(Stores, e) /\ c.back \in Back BY <1>1 DEF CallSound, CopySound, Repairing
<1>3. GetLog(e.v) \in {Unset, e} BY <1>2, <1>1, ToldBound, StoresAtHand DEF GetLog
<1>4. qlog' = l /\ caller' = [caller EXCEPT ![p] = d] /\ UNCHANGED <<qrow, qsum, othersOfCall>>
  BY <1>3 DEF RetainLog, CreateLog, Goto
<1>5. Stores' = [Stores EXCEPT !.log = l]
  BY <1>4 DEF Stores
<1>6. Stores' \in StoreRow /\ StoreSound(Stores') /\ Grows(Stores, Stores') /\ Retained(Stores', e)
  BY <1>1, <1>2, <1>5, LogRetains, StoresAtHand
<1>7. d \in CallRow BY <1>1 DEF CallRow, Pc, Repairing
<1>8. /\ d.pc = "sum" /\ d.back = c.back /\ d.want = c.want /\ d.uri = c.uri /\ d.prev = c.prev
      /\ d.next = c.next /\ d.row = c.row /\ d.why = c.why /\ d.moves = c.moves
  BY <1>1 DEF CallRow
<1>9. CallSound(Stores', c) BY <1>1, <1>6, CallGrows, StoresAtHand
<1>10. On(d) = On(c) BY <1>1, <1>8 DEF On, Repairing
<1>11. DecisionSound(Stores', d) /\ MoveSound(Stores', d) /\ AnswerSound(Stores', d)
  BY <1>1, <1>6, <1>7, <1>8, <1>9, <1>10, SamePlace DEF CallSound
<1>12. CopySound(Stores', d)
  BY <1>1, <1>2, <1>6, <1>8, <1>9 DEF CallSound, CopySound, Repairing, Told
<1>13. CallSound(Stores', d) BY <1>8, <1>11, <1>12 DEF CallSound
<1>14. qrow'.pipe = qrow.pipe /\ UNCHANGED <<plan, head, stage, staged, status>> /\ qfaults' \in 0 .. plan.faults
  BY <1>4 DEF othersOfCall, IInv, Types
<1> QED BY <1>4, <1>6, <1>7, <1>13, <1>14, CallStep

LEMMA ReadQueueSummaryKeeps ==
    ASSUME IInv, NEW p \in Call, ReadQueueSummary(p)
    PROVE  IInv'
<1> DEFINE c == caller[p]
           e == c.row.ena
           x == IF qsum.v = 0 \/ Behind(e, qsum.ena) THEN "project"
                ELSE IF e.v = qsum.ena.v /\ e # qsum.ena THEN "inconsistent" ELSE c.back
           d == [c EXCEPT !.sum = qsum.v, !.pc = x]
<1>1. c \in CallRow /\ CallSound(Stores, c) /\ c.pc = "sum" /\ e \in Ena /\ e.v \in Nat
  BY CallAtHand, CallFields DEF ReadQueueSummary
<1>2. Retained(Stores, e) /\ Told(Stores, e) /\ c.back \in Back BY <1>1 DEF CallSound, CopySound, Repairing
<1>3. caller' = [caller EXCEPT ![p] = d] BY DEF ReadQueueSummary
<1>4. \/ x = "project" /\ qsum.ena.v < e.v
      \/ x = c.back /\ Visible(Stores, e)
  <2>1. e.v \in 1 .. qrow.ena.v BY <1>1, <1>2, ToldBound, StoresAtHand
  <2>2. CASE qsum.v = 0 \/ Behind(e, qsum.ena)
    <3>1. qsum.v = 0 => qsum.ena.v = 0 BY StoresAtHand DEF StoreSound, Unset
    <3> QED BY <2>1, <2>2, <3>1, StoresAtHand DEF Behind
  <2>3. CASE ~(qsum.v = 0 \/ Behind(e, qsum.ena))
    <3>1. Retained(Stores, qsum.ena) BY <2>3, StoresAtHand DEF StoreSound
    <3>2. e.v = qsum.ena.v => e = qsum.ena BY <1>2, <3>1 DEF Retained
    <3> QED BY <1>1, <1>2, <2>3, <3>2, StoresAtHand DEF Visible, Behind
  <2> QED BY <2>2, <2>3
<1>5. d \in CallRow BY <1>1, <1>2, <1>4, StoresAtHand DEF CallRow, Pc, Repairing
<1>6. /\ d.pc = x /\ d.sum = qsum.v /\ d.back = c.back /\ d.want = c.want /\ d.uri = c.uri /\ d.prev = c.prev
      /\ d.next = c.next /\ d.row = c.row /\ d.why = c.why /\ d.moves = c.moves
  BY <1>1 DEF CallRow
<1>7. On(d) = On(c) /\ d.pc # "answered" /\ d.pc # "inconsistent" /\ d.pc # "register"
      /\ x # "write" /\ (x = "project" \/ x \notin Repairing)
  BY <1>1, <1>2, <1>4, <1>6 DEF On, Repairing, Back
<1> HIDE DEF x, d
<1>8. DecisionSound(Stores, d) /\ MoveSound(Stores, d) /\ AnswerSound(Stores, d)
  BY <1>1, <1>5, <1>6, <1>7, SamePlace, StoresAtHand DEF CallSound
<1>9. CopySound(Stores, d)
  <2>1. d.row.v <= Stores.row.v /\ (d.row.v = Stores.row.v => d.row = Stores.row)
    BY <1>1, <1>6 DEF CallSound, CopySound
  <2>2. CASE x = "project"
    BY <1>2, <1>4, <1>6, <2>1, <2>2, StoresAtHand DEF CopySound, Visible, Back
  <2>3. CASE x = c.back /\ Visible(Stores, e)
    BY <1>2, <1>6, <1>7, <2>1, <2>3 DEF CopySound, Repairing, Back
  <2> QED BY <1>4, <2>2, <2>3
<1>10. CallSound(Stores, d) BY <1>7, <1>8, <1>9 DEF CallSound
<1>11. UNCHANGED <<qrow, qlog, qsum, othersOfCall>> BY DEF ReadQueueSummary
<1> QED BY <1>3, <1>5, <1>10, <1>11, CallMoves

LEMMA MaterializeSummaryKeeps ==
    ASSUME IInv, NEW p \in Call, MaterializeSummary(p)
    PROVE  IInv'
<1> DEFINE c == caller[p]
           e == c.row.ena
<1>1. c \in CallRow /\ CallSound(Stores, c) /\ c.pc = "project" /\ e \in Ena /\ e.v \in Nat /\ c.sum \in Nat
  BY CallAtHand, CallFields DEF MaterializeSummary
<1>2. /\ Retained(Stores, e) /\ Told(Stores, e) /\ c.back \in Back
      /\ c.sum = qsum.v => qsum.ena.v < e.v
  BY <1>1, StoresAtHand DEF CallSound, CopySound, Repairing
<1>3. UNCHANGED <<qrow, qlog, othersOfCall>> BY DEF MaterializeSummary
<1>4. CASE Goto(p, "sum") /\ UNCHANGED qsum
  <2> DEFINE d == [c EXCEPT !.pc = "sum"]
  <2>1. caller' = [caller EXCEPT ![p] = d] BY <1>4 DEF Goto
  <2>2. d \in CallRow BY <1>1 DEF CallRow, Pc, Repairing
  <2>3. /\ d.pc = "sum" /\ d.back = c.back /\ d.want = c.want /\ d.uri = c.uri /\ d.prev = c.prev
        /\ d.next = c.next /\ d.row = c.row /\ d.why = c.why /\ d.moves = c.moves
    BY <1>1 DEF CallRow
  <2>4. On(d) = On(c) BY <1>1, <2>3 DEF On, Repairing
  <2> HIDE DEF d
  <2>5. DecisionSound(Stores, d) /\ MoveSound(Stores, d) /\ AnswerSound(Stores, d)
    BY <1>1, <2>2, <2>3, <2>4, SamePlace, StoresAtHand DEF CallSound
  <2>6. CopySound(Stores, d) BY <1>1, <1>2, <2>3 DEF CallSound, CopySound, Repairing
  <2>7. CallSound(Stores, d) BY <2>3, <2>5, <2>6 DEF CallSound
  <2> QED BY <1>3, <1>4, <2>1, <2>2, <2>7, CallMoves
<1>5. CASE (IF c.sum = 0 THEN CreateSummary(e) ELSE UpdateSummaryRow(c.sum, e)) /\ Goto(p, c.back)
  <2> DEFINE d == [c EXCEPT !.pc = c.back]
  <2>1. caller' = [caller EXCEPT ![p] = d] BY <1>5 DEF Goto
  <2>2. qsum.v = c.sum /\ qsum' = [v |-> qsum.v + 1, ena |-> e]
    BY <1>5 DEF CreateSummary, UpdateSummaryRow
  <2>3. Stores' = [Stores EXCEPT !.sum = [v |-> Stores.sum.v + 1, ena |-> e]]
    BY <1>3, <2>2 DEF Stores
  <2>4. Stores' \in StoreRow /\ StoreSound(Stores') /\ Grows(Stores, Stores') /\ Visible(Stores', e)
    BY <1>1, <1>2, <2>2, <2>3, SummaryMoves, StoresAtHand
  <2>5. d \in CallRow BY <1>1, <1>2 DEF CallRow, Pc
  <2>6. /\ d.pc = c.back /\ d.back = c.back /\ d.want = c.want /\ d.uri = c.uri /\ d.prev = c.prev
        /\ d.next = c.next /\ d.row = c.row /\ d.why = c.why /\ d.moves = c.moves
    BY <1>1 DEF CallRow
  <2>7. On(d) = On(c) /\ c.back \notin Repairing \cup {"answered", "register", "inconsistent"}
    BY <1>1, <1>2, <2>6 DEF On, Repairing, Back
  <2> HIDE DEF d
  <2>8. CallSound(Stores', c) BY <1>1, <2>4, CallGrows, StoresAtHand
  <2>9. DecisionSound(Stores', d) /\ MoveSound(Stores', d) /\ AnswerSound(Stores', d)
    BY <1>1, <2>4, <2>5, <2>6, <2>7, <2>8, SamePlace DEF CallSound
  <2>10. CopySound(Stores', d)
    BY <2>4, <2>6, <2>7, <2>8 DEF CallSound, CopySound, Repairing
  <2>11. CallSound(Stores', d) BY <2>6, <2>7, <2>9, <2>10 DEF CallSound
  <2>12. qrow'.pipe = qrow.pipe /\ UNCHANGED <<plan, head, stage, staged, status>> /\ qfaults' \in 0 .. plan.faults
    BY <1>3 DEF othersOfCall, IInv, Types
  <2> QED BY <2>1, <2>4, <2>5, <2>11, <2>12, CallStep
<1> QED BY <1>4, <1>5 DEF MaterializeSummary
-----------------------------------------------------------------------------
(* Registration, and the preparation of the decision.                       *)

LEMMA BeginIngestKeeps ==
    ASSUME IInv, NEW p \in Call, BeginIngest(p)
    PROVE  IInv'
<1> DEFINE d == [NoCall EXCEPT !.pc = "init", !.want = plan.wants[p], !.uri = Latest]
<1>1. plan \in Plans /\ QueueStateAssumed /\ head \in DOMAIN plan.tips BY DEF IInv, Types
<1>2. plan.wants[p] \in {"none", "ENABLED", "DISABLED"} /\ Latest \in Commit /\ Latest # "none"
  BY <1>1 DEF QueueStateAssumed, Latest
<1>3. NoCall \in CallRow /\ "init" \in Pc BY NoCallIsRow, StoresAtHand DEF Pc
<1>4. d \in CallRow BY ONLY <1>2, <1>3 DEF CallRow
<1>5. d.pc = "init" /\ d.row = NoRow /\ d.moves = 0 /\ d.uri # "none" BY <1>2 DEF NoCall
<1> HIDE DEF d
<1>6. On(d) = "init" BY <1>5 DEF On, Repairing
<1>7. CopySound(Stores, d) BY <1>5, NoRowSound, StoresAtHand DEF CopySound, Repairing
<1>8. DecisionSound(Stores, d) BY <1>5, <1>6 DEF DecisionSound, Deciding, Applying, Observing
<1>9. MoveSound(Stores, d) BY <1>5 DEF MoveSound
<1>10. CallSound(Stores, d) BY <1>5, <1>7, <1>8, <1>9 DEF CallSound, AnswerSound
<1>11. caller' = [caller EXCEPT ![p] = d] BY DEF BeginIngest, d
<1> QED BY <1>4, <1>10, <1>11, CallMoves DEF BeginIngest

\* Where a call may have written the row, its change is told of.
LEMMA MovedIsTold ==
    ASSUME IInv, NEW p \in Call, caller[p].pc \notin Over, caller[p].moves = 1
    PROVE  Told(Stores, Changed(caller[p]))
<1> DEFINE c == caller[p]
<1>1. c \in CallRow /\ CallSound(Stores, c) BY CallAtHand
<1>2. On(c) = "applied" \/ (On(c) \in Observing /\ Told(Stores, Changed(c)))
  BY <1>1 DEF CallSound, MoveSound, Over
<1>3. CASE On(c) = "applied"
  <2>1. c.row.ena = Changed(c) BY <1>1, <1>3 DEF CallSound, DecisionSound
  <2>2. c.pc \in Repairing \/ c.pc = "applied" BY <1>3 DEF On
  <2>3. Told(Stores, c.row.ena) BY <1>1, <2>2 DEF CallSound, CopySound, Visible, Told
  <2> QED BY <2>1, <2>3
<1> QED BY <1>2, <1>3

LEMMA FailIngestKeeps ==
    ASSUME IInv, NEW p \in Call, FailIngest(p)
    PROVE  IInv'
<1> DEFINE c == caller[p]
           got == IF c.moves = 1 THEN Changed(c) ELSE Unset
<1>1. c \in CallRow /\ CallSound(Stores, c) /\ c.pc \notin Over BY CallAtHand DEF FailIngest, Over
<1>2. UNCHANGED <<qrow, qlog, qsum>> /\ UNCHANGED <<plan, head, stage, staged, status>> BY DEF FailIngest
<1>3. Stores' = Stores /\ Stores' \in StoreRow /\ StoreSound(Stores') /\ Grows(Stores, Stores') /\ qrow'.pipe = qrow.pipe
  BY <1>2, StoresStill
<1>4. qfaults' \in 0 .. plan.faults
  <2>1. plan.faults \in Nat BY DEF IInv, Types, QueueStateAssumed
  <2> QED BY <2>1 DEF FailIngest, IInv, Types
<1>5. CASE Return(p, "lost", got)
  <2>1. got \in Ena BY <1>1, CallFields, NoCallIsRow, StoresAtHand
  <2>2. c.moves = 1 => Told(Stores, got) BY <1>1, MovedIsTold
  <2>3. MoveSound(Stores, c) /\ "lost" \in Over BY <1>1 DEF CallSound, Over
  <2> HIDE DEF got
  <2>4. Returned(c, "lost", got) \in CallRow /\ CallSound(Stores, Returned(c, "lost", got))
    BY <1>1, <2>1, <2>2, <2>3, ReturnedSound
  <2>5. caller' = [caller EXCEPT ![p] = Returned(c, "lost", got)] BY <1>5 DEF Return, Returned
  <2> QED BY <1>2, <1>3, <1>4, <2>4, <2>5, CallStep
<1>6. CASE /\ c.pc = "observe" \/ (c.pc \in Repairing /\ c.back = "observed")
           /\ c.why = "mismatch" /\ PrepareAgain(p)
  <2>1. On(c) \in Observing BY <1>6 DEF On, Observing, Repairing
  <2>2. c.moves = 0 /\ c.want # "none" /\ c.uri # "none" /\ qrow.ena.v # 0
    BY <1>1, <1>6, <2>1, StoresAtHand
    DEF CallSound, MoveSound, DecisionSound, Deciding, Applying, Observing, Over
  <2>3. Retried(c) \in CallRow /\ CallSound(Stores, Retried(c)) BY <1>1, <2>2, RetriedSound
  <2>4. caller' = [caller EXCEPT ![p] = Retried(c)] BY <1>6 DEF PrepareAgain, Retried
  <2> QED BY <1>2, <1>3, <1>4, <2>3, <2>4, CallStep
<1> QED BY <1>5, <1>6 DEF FailIngest, Repairing

LEMMA InitializeReadKeeps ==
    ASSUME IInv, NEW p \in Call, InitializeRead(p)
    PROVE  IInv'
<1> DEFINE c == caller[p]
<1>1. c \in CallRow /\ CallSound(Stores, c) /\ c.pc = "init" BY CallAtHand DEF InitializeRead
<1>2. On(c) = "init" BY <1>1 DEF On, Repairing
<1>3. UNCHANGED <<qrow, qlog, qsum, othersOfCall>> BY DEF InitializeRead
<1>4. c.moves = 0 BY <1>1, <1>2 DEF CallSound, MoveSound, Observing
<1>5. CASE qrow.ena = Unset
  <2> DEFINE d == [c EXCEPT !.row = qrow, !.pc = "register"]
  <2>1. d \in CallRow BY <1>1, StoresAtHand DEF CallRow, Pc
  <2>2. d.pc = "register" /\ d.row = qrow /\ d.moves = 0 /\ d.uri = c.uri BY <1>1, <1>4 DEF CallRow
  <2>3. caller' = [caller EXCEPT ![p] = d] BY <1>5 DEF InitializeRead, GetQueue
  <2> HIDE DEF d
  <2>4. On(d) = "register" BY <2>2 DEF On, Repairing
  <2>5. CopySound(Stores, d) BY <1>5, <2>2, StoresAtHand DEF CopySound, Repairing
  <2>6. DecisionSound(Stores, d) BY <1>1, <1>2, <2>2, <2>4 DEF CallSound, DecisionSound, Deciding, Applying, Observing
  <2>7. CallSound(Stores, d) BY <2>2, <2>5, <2>6 DEF CallSound, MoveSound, AnswerSound
  <2> QED BY <1>3, <2>1, <2>3, <2>7, CallMoves
<1>6. CASE qrow.ena # Unset
  <2> DEFINE b == AfterInitialize(p)
             d == [c EXCEPT !.row = qrow, !.pc = "log", !.back = b]
  <2>1. qrow.ena.v # 0 BY <1>6, StoresAtHand DEF StoreSound, EnaSound
  <2>2. b \in Back BY DEF AfterInitialize, Back
  <2>3. RepairThen(p, qrow, b) BY <1>6 DEF InitializeRead, GetQueue
  <2>4. On(d) = b /\ d.want = c.want /\ d.uri = c.uri /\ d.moves = 0
    BY <1>1, <1>4 DEF CallRow, On, Repairing
  <2>5. b = IF c.want = "none" THEN "registered" ELSE "prepare" BY DEF AfterInitialize
  <2>6. c.uri # "none" BY <1>1, <1>2 DEF CallSound, DecisionSound
  <2>7. DecisionSound(Stores, d) /\ MoveSound(Stores, d)
    BY <2>1, <2>4, <2>5, <2>6, StoresAtHand DEF DecisionSound, MoveSound, Deciding, Applying, Observing
  <2> QED BY <1>3, <2>1, <2>2, <2>3, <2>7, Repairs
<1> QED BY <1>5, <1>6

LEMMA InitializeWriteKeeps ==
    ASSUME IInv, NEW p \in Call, NEW t \in 1 .. MaxStamp, InitializeWrite(p, t)
    PROVE  IInv'
<1> DEFINE c == caller[p]
           first == [v |-> 1, state |-> "DISABLED", from |-> "none", at |-> t]
           r == Written(qrow, first)
<1>1. c \in CallRow /\ CallSound(Stores, c) /\ c.pc = "register" /\ c.row \in Row
  BY CallAtHand, CallFields DEF InitializeWrite
<1>2. On(c) = "register" BY <1>1 DEF On, Repairing
<1>3. c.moves = 0 BY <1>1, <1>2 DEF CallSound, MoveSound, Observing
<1>4. c.row.ena = Unset /\ (c.row.v = qrow.v => c.row = qrow) /\ c.uri # "none"
  BY <1>1, <1>2, StoresAtHand DEF CallSound, CopySound, DecisionSound
<1>5. UNCHANGED <<qlog, qsum, othersOfCall>> BY DEF InitializeWrite
<1>6. CASE Goto(p, "init") /\ UNCHANGED qrow
  <2> DEFINE d == [c EXCEPT !.pc = "init"]
  <2>1. d \in CallRow BY <1>1 DEF CallRow, Pc
  <2>2. d.pc = "init" /\ d.row = c.row /\ d.moves = 0 /\ d.uri = c.uri BY <1>1, <1>3 DEF CallRow
  <2>3. caller' = [caller EXCEPT ![p] = d] BY <1>6 DEF Goto
  <2> HIDE DEF d
  <2>4. On(d) = "init" BY <2>2 DEF On, Repairing
  <2>5. CopySound(Stores, d) BY <1>1, <2>2 DEF CallSound, CopySound, Repairing
  <2>6. DecisionSound(Stores, d) BY <1>4, <2>2, <2>4 DEF DecisionSound, Deciding, Applying, Observing
  <2>7. CallSound(Stores, d) BY <2>2, <2>5, <2>6 DEF CallSound, MoveSound, AnswerSound
  <2> QED BY <1>5, <1>6, <2>1, <2>3, <2>7, CallMoves
<1>7. CASE UpdateQueue(c.row.v, [c.row EXCEPT !.ena = first]) /\ RepairThen(p, qrow', AfterInitialize(p))
  <2> DEFINE b == AfterInitialize(p)
             d == [c EXCEPT !.row = r, !.pc = "log", !.back = b]
  <2>1. qrow' = r /\ c.row.v = qrow.v /\ c.row = qrow BY <1>4, <1>7 DEF UpdateQueue, Written
  <2>2. first \in Ena BY StoresAtHand DEF Ena, QueueStateAssumed
  <2>3. r \in Row /\ r.v = qrow.v + 1 /\ r.ena = first /\ r.pipe = qrow.pipe
    BY <2>2, WrittenIsRow, StoresAtHand
  <2>4. Stores' = [Stores EXCEPT !.row = r] BY <1>5, <2>1 DEF Stores
  <2>5. qrow.ena.v = 0 /\ first.v = 1 BY <1>4, <2>1 DEF Unset
  <2>6. EnaSound(first) BY DEF EnaSound
  <2>7. Stores' \in StoreRow /\ StoreSound(Stores') /\ Grows(Stores, Stores')
    <3> HIDE DEF first, r
    <3>1. r.v = Stores.row.v + 1 /\ r.ena.v = Stores.row.ena.v + 1 /\ EnaSound(r.ena) /\ Stores.row.ena.v = 0
      BY <2>3, <2>5, <2>6, StoresAtHand
    <3> QED BY <2>3, <2>4, <3>1, RowChanged, StoresAtHand
  <2>8. b \in Back /\ b = IF c.want = "none" THEN "registered" ELSE "prepare" BY DEF AfterInitialize, Back
  <2>9. d \in CallRow BY <1>1, <2>3, <2>8 DEF CallRow, Pc, Repairing
  <2>10. d.pc = "log" /\ d.row = r /\ d.back = b /\ d.want = c.want /\ d.uri = c.uri /\ d.moves = 0
    BY <1>1, <1>3 DEF CallRow
  <2>11. caller' = [caller EXCEPT ![p] = d] BY <1>7, <2>1 DEF RepairThen
  <2> HIDE DEF d, b, r, first
  <2>12. On(d) = b BY <2>10 DEF On, Repairing
  <2>13. Stores'.row = r BY <2>1 DEF Stores
  <2>14. CopySound(Stores', d)
    <3>1. d.row.v \in Nat /\ d.row = Stores'.row /\ d.row.ena.v # 0 BY <2>3, <2>5, <2>10, <2>13, StoresAtHand
    <3> QED BY <2>8, <2>10, <3>1 DEF CopySound, Repairing, Told
  <2>15. DecisionSound(Stores', d)
    BY <1>4, <2>3, <2>5, <2>8, <2>10, <2>12, <2>13 DEF DecisionSound, Deciding, Applying, Observing
  <2>16. CallSound(Stores', d) BY <2>10, <2>14, <2>15 DEF CallSound, MoveSound, AnswerSound
  <2>17. UNCHANGED <<plan, head, stage, staged, status>> /\ qfaults' \in 0 .. plan.faults
    BY <1>5 DEF othersOfCall, IInv, Types
  <2> QED BY <2>1, <2>3, <2>7, <2>9, <2>11, <2>16, <2>17, CallStep
<1> QED BY <1>6, <1>7 DEF InitializeWrite

LEMMA LoadForPrepareKeeps ==
    ASSUME IInv, NEW p \in Call, LoadForPrepare(p)
    PROVE  IInv'
<1> DEFINE c == caller[p]
           d == [c EXCEPT !.row = qrow, !.pc = "log", !.back = "decide"]
<1>1. c \in CallRow /\ CallSound(Stores, c) /\ c.pc = "prepare" BY CallAtHand DEF LoadForPrepare
<1>2. On(c) = "prepare" BY <1>1 DEF On, Repairing
<1>3. c.moves = 0 BY <1>1, <1>2 DEF CallSound, MoveSound, Observing
<1>4. c.want # "none" /\ c.uri # "none" /\ qrow.ena.v # 0
  BY <1>1, <1>2, StoresAtHand DEF CallSound, DecisionSound, Deciding
<1>5. On(d) = "decide" /\ d.want = c.want /\ d.uri = c.uri /\ d.moves = 0
  BY <1>1, <1>3 DEF CallRow, On, Repairing
<1>6. DecisionSound(Stores, d) /\ MoveSound(Stores, d)
  BY <1>4, <1>5, StoresAtHand DEF DecisionSound, MoveSound, Deciding, Applying, Observing
<1>7. RepairThen(p, qrow, "decide") /\ UNCHANGED <<qrow, qlog, qsum, othersOfCall>>
  BY DEF LoadForPrepare, GetQueue
<1> QED BY <1>4, <1>6, <1>7, Repairs DEF Back

LEMMA PrepareKeeps ==
    ASSUME IInv, NEW p \in Call, NEW t \in 1 .. MaxStamp, Prepare(p, t)
    PROVE  IInv'
<1> DEFINE c == caller[p]
           e == c.row.ena
<1>1. c \in CallRow /\ CallSound(Stores, c) /\ c.pc = "decide" /\ e \in Ena
  BY CallAtHand, CallFields DEF Prepare
<1>2. On(c) = "decide" BY <1>1 DEF On, Repairing
<1>3. c.moves = 0 BY <1>1, <1>2 DEF CallSound, MoveSound, Observing
<1>4. c.want # "none" /\ c.uri # "none" /\ qrow.ena.v # 0
  BY <1>1, <1>2, StoresAtHand DEF CallSound, DecisionSound, Deciding
<1>5. Visible(Stores, e) BY <1>1 DEF CallSound, CopySound
<1>6. UNCHANGED <<qrow, qlog, qsum, othersOfCall>> BY DEF Prepare
<1>7. ASSUME NEW n \in Ena, n.state = c.want, n = e \/ (Follows(e, n) /\ n.from # "none"),
             caller' = [caller EXCEPT ![p] = [c EXCEPT !.prev = e, !.next = n, !.pc = "apply", !.row = NoRow]]
      PROVE  IInv'
  <2> DEFINE d == [c EXCEPT !.prev = e, !.next = n, !.pc = "apply", !.row = NoRow]
  <2>1. d \in CallRow BY <1>1, <1>7, NoCallIsRow, StoresAtHand DEF CallRow, Pc
  <2>2. /\ d.pc = "apply" /\ d.row = NoRow /\ d.prev = e /\ d.next = n /\ d.moves = 0 /\ d.want = c.want
        /\ d.uri = c.uri
    BY <1>1, <1>3 DEF CallRow
  <2> HIDE DEF d
  <2>3. On(d) = "apply" BY <2>2 DEF On, Repairing
  <2>4. CopySound(Stores, d) BY <2>2, NoRowSound, StoresAtHand DEF CopySound, Repairing
  <2>5. DecisionSound(Stores, d)
    BY <1>4, <1>5, <1>7, <2>2, <2>3, StoresAtHand DEF DecisionSound, Deciding, Applying, Observing
  <2>6. CallSound(Stores, d) BY <2>2, <2>4, <2>5 DEF CallSound, MoveSound, AnswerSound
  <2>7. caller' = [caller EXCEPT ![p] = d] BY <1>7 DEF d
  <2> QED BY <1>6, <2>1, <2>6, <2>7, CallMoves
<1>8. CASE e.state = c.want
  <2>1. caller' = [caller EXCEPT ![p] = [c EXCEPT !.prev = e, !.next = e, !.pc = "apply", !.row = NoRow]]
    BY <1>8 DEF Prepare
  <2> QED BY <1>1, <1>7, <1>8, <2>1
<1>9. CASE e.state # c.want /\ ~Forward(e.from, c.uri)
  <2>1. Return(p, "refused", Unset) BY <1>9 DEF Prepare
  <2>2. Unset \in Ena BY NoCallIsRow, StoresAtHand
  <2> QED BY <1>3, <1>6, <2>1, <2>2, Returns DEF Over
<1>10. CASE e.state # c.want /\ Forward(e.from, c.uri)
  <2> DEFINE n == [e EXCEPT !.state = c.want, !.from = c.uri, !.at = t]
  <2>1. caller' = [caller EXCEPT ![p] = [c EXCEPT !.prev = e, !.next = n, !.pc = "apply", !.row = NoRow]]
    BY <1>10 DEF Prepare
  <2>2. n \in Ena
    <3>1. /\ c.want \in {"UNKNOWN", "ENABLED", "DISABLED"} /\ c.uri \in Commit \cup {"none"}
          /\ t \in 0 .. MaxStamp
      BY <1>1, <1>4, CallFields, StoresAtHand DEF QueueStateAssumed
    <3> QED BY ONLY <1>1, <3>1 DEF Ena
  <2>3. n.state = c.want /\ n.from = c.uri BY <1>1 DEF Ena
  <2>4. e.v > 1 => e.from # "none"
    <3>1. Retained(Stores, e) BY <1>5 DEF Visible
    <3>2. EnaSound(e) BY <3>1, StoresAtHand DEF Retained, StoreSound
    <3> QED BY <3>2, StoresAtHand DEF EnaSound, QueueStateAssumed
  <2>5. Follows(e, n) /\ n.from # "none" BY <1>4, <1>10, <2>3, <2>4 DEF Follows, Forward
  <2> HIDE DEF n
  <2> QED BY <1>7, <2>1, <2>2, <2>3, <2>5
<1> QED BY <1>8, <1>9, <1>10
-----------------------------------------------------------------------------
(* The decision is applied.                                                 *)

LEMMA LoadForApplyKeeps ==
    ASSUME IInv, NEW p \in Call, LoadForApply(p)
    PROVE  IInv'
<1> DEFINE c == caller[p]
           d == [c EXCEPT !.row = qrow, !.pc = "log", !.back = "check"]
<1>1. c \in CallRow /\ CallSound(Stores, c) /\ c.pc = "apply" BY CallAtHand DEF LoadForApply
<1>2. On(c) = "apply" BY <1>1 DEF On, Repairing
<1>3. c.moves = 0 BY <1>1, <1>2 DEF CallSound, MoveSound, Observing
<1>4. qrow.ena.v # 0 BY <1>1, <1>2, StoresAtHand DEF CallSound, DecisionSound, Deciding, Applying
<1>5. /\ On(d) = "check" /\ d.want = c.want /\ d.uri = c.uri /\ d.moves = 0 /\ d.prev = c.prev
      /\ d.next = c.next
  BY <1>1, <1>3 DEF CallRow, On, Repairing
<1>6. DecisionSound(Stores, d) /\ MoveSound(Stores, d)
  BY <1>1, <1>2, <1>4, <1>5 DEF CallSound, DecisionSound, MoveSound, Deciding, Applying, Observing
<1>7. RepairThen(p, qrow, "check") /\ UNCHANGED <<qrow, qlog, qsum, othersOfCall>>
  BY DEF LoadForApply, GetQueue
<1> QED BY <1>4, <1>6, <1>7, Repairs DEF Back

LEMMA LoadToObserveKeeps ==
    ASSUME IInv, NEW p \in Call, LoadToObserve(p)
    PROVE  IInv'
<1> DEFINE c == caller[p]
           d == [c EXCEPT !.row = qrow, !.pc = "log", !.back = "observed"]
<1>1. c \in CallRow /\ CallSound(Stores, c) /\ c.pc = "observe" BY CallAtHand DEF LoadToObserve
<1>2. On(c) = "observe" BY <1>1 DEF On, Repairing
<1>4. qrow.ena.v # 0 BY <1>1, <1>2, StoresAtHand DEF CallSound, DecisionSound, Deciding, Applying, Observing
<1>5. /\ On(d) = "observed" /\ d.want = c.want /\ d.uri = c.uri /\ d.moves = c.moves /\ d.prev = c.prev
      /\ d.next = c.next /\ d.why = c.why /\ d.row = qrow /\ d.pc = "log"
  BY <1>1 DEF CallRow, On, Repairing
<1>6. Changed(d) = Changed(c) BY <1>5 DEF Changed
<1>7. c.moves = 1 => Told(Stores, Changed(c)) /\ c.why = "error"
  BY <1>1, <1>2 DEF CallSound, MoveSound, Observing
<1>8. c.moves = 1 => c.prev.v < qrow.ena.v
  <2>1. Changed(c) \in Ena /\ Changed(c).v = c.prev.v + 1 /\ c.prev.v \in Nat BY <1>1, CallFields
  <2> QED BY <1>7, <2>1, ToldBound, StoresAtHand
<1> HIDE DEF d
<1>9. DecisionSound(Stores, d)
  BY <1>1, <1>2, <1>4, <1>5 DEF CallSound, DecisionSound, Deciding, Applying, Observing
<1>10. MoveSound(Stores, d)
  BY <1>1, <1>5, <1>6, <1>7, <1>8 DEF CallSound, MoveSound, Observing
<1>11. RepairThen(p, qrow, "observed") /\ UNCHANGED <<qrow, qlog, qsum, othersOfCall>>
  BY DEF LoadToObserve, GetQueue
<1> QED BY <1>4, <1>9, <1>10, <1>11, Repairs DEF Back, d

LEMMA AnswerIngestKeeps ==
    ASSUME IInv, NEW p \in Call, AnswerIngest(p)
    PROVE  IInv'
<1> DEFINE c == caller[p]
<1>1. c \in CallRow /\ CallSound(Stores, c) /\ c.pc \in {"registered", "applied"} BY CallAtHand DEF AnswerIngest
<1>2. On(c) = c.pc BY <1>1 DEF On, Repairing
<1>3. Visible(Stores, c.row.ena) /\ c.row.ena \in Ena BY <1>1, CallFields DEF CallSound, CopySound
<1>4. c.want \in {"none", c.row.ena.state}
  <2>1. CASE c.pc = "registered" BY <1>1, <1>2, <2>1 DEF CallSound, DecisionSound
  <2>2. CASE c.pc = "applied"
    <3>1. c.row.ena = Changed(c) /\ c.next.state = c.want
      BY <1>1, <1>2, <2>2 DEF CallSound, DecisionSound, Applying
    <3>2. Changed(c).state = c.next.state BY <1>1, CallFields DEF Changed, Ena
    <3> QED BY <3>1, <3>2
  <2> QED BY <1>1, <2>1, <2>2
<1> QED BY <1>3, <1>4, Returns DEF AnswerIngest, Over

\* A change that was made, by this call or with the same content by another,
\* can be shown; and one this call knows it made is always found again.
LEMMA Reconciled ==
    ASSUME IInv, NEW c \in CallRow, Visible(Stores, c.row.ena)
    PROVE  /\ ReconcileChange(c, c.row.ena) => Visible(Stores, Changed(c))
           /\ Told(Stores, Changed(c)) /\ c.prev.v < c.row.ena.v => ReconcileChange(c, c.row.ena)
<1> DEFINE e == c.row.ena
           n == Changed(c)
<1>1. e \in Ena /\ n \in Ena /\ e.v \in Nat /\ n.v = c.prev.v + 1 /\ c.prev.v \in Nat BY CallFields
<1>2. Retained(Stores, e) /\ e.v <= qsum.ena.v BY StoresAtHand DEF Visible
<1>3. e.v \in 1 .. qrow.ena.v BY <1>2, StoresAtHand DEF StoreSound, Retained
<1> HIDE DEF n
<1>4. ASSUME ReconcileChange(c, e) PROVE Visible(Stores, n)
  <2>1. e.v > c.prev.v /\ (IF e.v = c.prev.v + 1 THEN e ELSE LoadVersion(c.prev.v + 1)) = n
    BY <1>4 DEF ReconcileChange, n
  <2>2. CASE e.v = c.prev.v + 1 BY <1>2, <2>1, <2>2 DEF Visible
  <2>3. CASE e.v # c.prev.v + 1
    <3>1. n = LoadVersion(n.v) /\ n.v # 0 BY <1>1, <2>1, <2>3
    <3>2. n.v \in DOMAIN qlog /\ qlog[n.v] = n BY <3>1 DEF LoadVersion, GetLog, Unset
    <3>3. n.v <= e.v BY <1>1, <2>1
    <3> QED BY <1>1, <1>2, <3>2, <3>3, StoresAtHand DEF Visible, Retained
  <2> QED BY <2>2, <2>3
<1>5. ASSUME Told(Stores, n), c.prev.v < e.v PROVE ReconcileChange(c, e)
  <2>1. n.v \in 1 .. qrow.ena.v /\ (n.v \in DOMAIN qlog => qlog[n.v] = n)
    BY <1>1, <1>5, ToldBound, StoresAtHand
  <2>2. CASE e.v = n.v
    <3>1. e = n BY <1>2, <2>1, <2>2, StoresAtHand DEF Retained
    <3> QED BY <1>1, <1>5, <2>2, <3>1 DEF ReconcileChange, n
  <2>3. CASE e.v # n.v
    <3>1. n.v \in 1 .. qrow.ena.v - 1 BY <1>1, <1>3, <1>5, <2>1, <2>3, StoresAtHand
    <3>2. n.v \in DOMAIN qlog BY <3>1, StoresAtHand DEF StoreSound
    <3>3. LoadVersion(c.prev.v + 1) = n BY <1>1, <2>1, <3>2 DEF LoadVersion, GetLog
    <3> QED BY <1>1, <1>5, <2>3, <3>3 DEF ReconcileChange, n
  <2> QED BY <2>2, <2>3
<1> QED BY <1>4, <1>5 DEF n

LEMMA ApplyCheckKeeps ==
    ASSUME IInv, NEW p \in Call, ApplyCheck(p)
    PROVE  IInv'
<1> DEFINE c == caller[p]
           e == c.row.ena
<1>1. c \in CallRow /\ CallSound(Stores, c) /\ c.pc = "check" BY CallAtHand DEF ApplyCheck
<1>2. On(c) = "check" BY <1>1 DEF On, Repairing
<1>3. c.moves = 0 BY <1>1, <1>2 DEF CallSound, MoveSound, Observing
<1>4. /\ Visible(Stores, e) /\ Visible(Stores, c.prev) /\ c.next.state = c.want
      /\ c.want # "none" /\ c.uri # "none"
  BY <1>1, <1>2 DEF CallSound, CopySound, DecisionSound, Deciding, Applying
<1>5. c.prev \in Ena /\ Changed(c) \in Ena /\ Changed(c).state = c.next.state /\ Unset \in Ena
  BY <1>1, CallFields, NoCallIsRow, StoresAtHand DEF Changed, Ena
<1>6. UNCHANGED <<qrow, qlog, qsum, othersOfCall>> BY DEF ApplyCheck
<1>7. CASE PrepareAgain(p) BY <1>2, <1>3, <1>6, <1>7, Retries DEF Applying
<1>8. CASE c.next = c.prev /\ Return(p, "answered", c.prev)
  BY <1>4, <1>5, <1>6, <1>8, Returns DEF Over
<1>9. CASE ReconcileChange(c, e) /\ Return(p, "answered", Changed(c))
  <2>1. Visible(Stores, Changed(c)) BY <1>1, <1>4, <1>9, Reconciled
  <2> QED BY <1>4, <1>5, <1>6, <1>9, <2>1, Returns DEF Over
<1>10. CASE Return(p, "refused", Unset) BY <1>3, <1>5, <1>6, <1>10, Returns DEF Over
<1>11. CASE c.next # c.prev /\ e = c.prev /\ Goto(p, "write")
  <2> DEFINE d == [c EXCEPT !.pc = "write"]
  <2>1. d \in CallRow BY <1>1 DEF CallRow, Pc
  <2>2. /\ d.pc = "write" /\ d.want = c.want /\ d.uri = c.uri /\ d.prev = c.prev /\ d.next = c.next
        /\ d.row = c.row /\ d.moves = 0
    BY <1>1, <1>3 DEF CallRow
  <2>3. caller' = [caller EXCEPT ![p] = d] BY <1>11 DEF Goto
  <2> HIDE DEF d
  <2>4. On(d) = "write" BY <2>2 DEF On, Repairing
  <2>5. CopySound(Stores, d) BY <1>1, <1>4, <2>2 DEF CallSound, CopySound, Repairing
  <2>6. DecisionSound(Stores, d)
    BY <1>1, <1>2, <1>11, <2>2, <2>4 DEF CallSound, DecisionSound, Deciding, Applying, Observing
  <2>7. CallSound(Stores, d) BY <2>2, <2>5, <2>6 DEF CallSound, MoveSound, AnswerSound
  <2> QED BY <1>6, <2>1, <2>3, <2>7, CallMoves
<1> QED BY <1>7, <1>8, <1>9, <1>10, <1>11 DEF ApplyCheck

\* The write of a change: it goes through only on the row that was read, whose
\* state is the one the change was prepared on.
LEMMA ChangeWritten ==
    ASSUME IInv, NEW c \in CallRow, CallSound(Stores, c), c.pc = "write",
           UpdateQueue(c.row.v, [c.row EXCEPT !.ena = Changed(c)]), UNCHANGED <<qlog, qsum>>
    PROVE  /\ qrow' = Written(qrow, Changed(c)) /\ qrow' \in Row /\ qrow'.ena = Changed(c)
           /\ qrow'.pipe = qrow.pipe /\ Stores' \in StoreRow /\ StoreSound(Stores') /\ Grows(Stores, Stores')
<1> DEFINE n == Changed(c)
<1>1. On(c) = "write" BY DEF On, Repairing
<1>2. c.row.v = qrow.v /\ c.row = qrow
  BY StoresAtHand DEF UpdateQueue, CallSound, CopySound
<1>3. /\ qrow.ena = c.prev /\ Visible(Stores, c.prev) /\ c.next.state = c.want /\ c.want # "none"
      /\ Follows(c.prev, c.next) /\ c.next.from # "none"
  BY <1>1, <1>2 DEF CallSound, DecisionSound, Deciding, Applying
<1>4. n \in Ena /\ n.v = c.prev.v + 1 /\ c.next \in Ena /\ c.prev.v \in Nat BY CallFields
<1>5. n.state = c.next.state /\ n.from = c.next.from BY <1>4 DEF Changed, Ena
<1> HIDE DEF n
<1>6. qrow' = Written(qrow, n) BY <1>2 DEF UpdateQueue, Written, n
<1>7. qrow' \in Row /\ qrow'.v = qrow.v + 1 /\ qrow'.ena = n /\ qrow'.pipe = qrow.pipe
  BY <1>4, <1>6, WrittenIsRow, StoresAtHand
<1>8. c.prev.v # 0 BY <1>3, StoresAtHand DEF Visible, Retained, StoreSound
<1>9. EnaSound(n)
  <2>1. n.v > 1 BY <1>4, <1>8
  <2>2. n.state \in {"ENABLED", "DISABLED"} BY <1>3, <1>5, CallFields
  <2>3. n.from \in Commit BY <1>3, <1>4, <1>5 DEF Ena
  <2> QED BY <2>1, <2>2, <2>3, <1>4 DEF EnaSound
<1>10. Follows(qrow.ena, n) BY <1>3, <1>5 DEF Follows
<1>11. Stores' = [Stores EXCEPT !.row = qrow'] BY DEF Stores
<1>12. Stores' \in StoreRow /\ StoreSound(Stores') /\ Grows(Stores, Stores')
  <2>1. /\ qrow'.v = Stores.row.v + 1 /\ qrow'.ena.v = Stores.row.ena.v + 1 /\ EnaSound(qrow'.ena)
        /\ Retained(Stores, Stores.row.ena) /\ Follows(Stores.row.ena, qrow'.ena)
    BY <1>3, <1>4, <1>7, <1>9, <1>10, StoresAtHand DEF Visible
  <2> QED BY <1>7, <1>11, <2>1, RowChanged, StoresAtHand
<1> QED BY <1>6, <1>7, <1>12 DEF n

LEMMA ApplyWriteKeeps ==
    ASSUME IInv, NEW p \in Call, ApplyWrite(p)
    PROVE  IInv'
<1> DEFINE c == caller[p]
<1>1. c \in CallRow /\ CallSound(Stores, c) /\ c.pc = "write" BY CallAtHand DEF ApplyWrite
<1>2. On(c) = "write" BY <1>1 DEF On, Repairing
<1>3. c.moves = 0 BY <1>1, <1>2 DEF CallSound, MoveSound, Observing
<1>4. UNCHANGED <<qlog, qsum, othersOfCall>> BY DEF ApplyWrite
<1>5. CASE /\ UpdateQueue(c.row.v, [c.row EXCEPT !.ena = Changed(c)])
           /\ caller' = [caller EXCEPT ![p].row = qrow', ![p].pc = "log", ![p].back = "applied",
                                       ![p].moves = @ + 1]
  <2>1. /\ qrow' \in Row /\ qrow'.ena = Changed(c) /\ qrow'.pipe = qrow.pipe
        /\ Stores' \in StoreRow /\ StoreSound(Stores') /\ Grows(Stores, Stores')
    BY <1>1, <1>4, <1>5, ChangeWritten
  <2> DEFINE r == qrow'
             d == [c EXCEPT !.row = r, !.pc = "log", !.back = "applied", !.moves = 1]
  <2>2. d \in CallRow BY <1>1, <2>1 DEF CallRow, Pc, Back, Repairing
  <2>3. /\ d.pc = "log" /\ d.back = "applied" /\ d.want = c.want /\ d.uri = c.uri /\ d.prev = c.prev
        /\ d.next = c.next /\ d.row = r /\ d.moves = 1 /\ d.why = c.why
    BY <1>1 DEF CallRow
  <2>4. caller' = [caller EXCEPT ![p] = d]
    <3>1. caller' = [caller EXCEPT ![p] = [c EXCEPT !.row = r, !.pc = "log", !.back = "applied",
                                                    !.moves = c.moves + 1]]
      BY <1>5
    <3>2. c.moves + 1 = 1 BY <1>3
    <3> QED BY <3>1, <3>2
  <2>5. Stores'.row = r BY DEF Stores
  <2> HIDE DEF d, r
  <2>6. On(d) = "applied" /\ Changed(d) = Changed(c) BY <2>3 DEF On, Repairing, Changed
  <2>7. CallSound(Stores', c) BY <1>1, <2>1, CallGrows, StoresAtHand
  <2>8. Changed(c).v # 0 /\ r.v \in Nat BY <1>1, <2>1, CallFields DEF Row, r
  <2>9. CopySound(Stores', d)
    BY <2>1, <2>3, <2>5, <2>8 DEF CopySound, Repairing, Back, Told, r
  <2>10. DecisionSound(Stores', d)
    BY <1>2, <2>1, <2>3, <2>6, <2>7 DEF CallSound, DecisionSound, Deciding, Applying, Observing, r
  <2>11. CallSound(Stores', d) BY <2>3, <2>6, <2>9, <2>10 DEF CallSound, MoveSound, AnswerSound
  <2>12. UNCHANGED <<plan, head, stage, staged, status>> /\ qfaults' \in 0 .. plan.faults
    BY <1>4 DEF othersOfCall, IInv, Types
  <2> QED BY <2>1, <2>2, <2>4, <2>11, <2>12, CallStep
<1>6. CASE caller' = [caller EXCEPT ![p].pc = "observe", ![p].why = "mismatch"] /\ UNCHANGED qrow
  <2> DEFINE d == [c EXCEPT !.pc = "observe", !.why = "mismatch"]
  <2>1. d \in CallRow BY <1>1 DEF CallRow, Pc
  <2>2. /\ d.pc = "observe" /\ d.want = c.want /\ d.uri = c.uri /\ d.prev = c.prev /\ d.next = c.next
        /\ d.row = c.row /\ d.moves = 0 /\ d.why = "mismatch"
    BY <1>1, <1>3 DEF CallRow
  <2>3. caller' = [caller EXCEPT ![p] = d] BY <1>6
  <2> HIDE DEF d
  <2>4. On(d) = "observe" BY <2>2 DEF On, Repairing
  <2>5. CopySound(Stores, d) BY <1>1, <2>2 DEF CallSound, CopySound, Repairing
  <2>6. DecisionSound(Stores, d)
    BY <1>1, <1>2, <2>2, <2>4 DEF CallSound, DecisionSound, Deciding, Applying, Observing
  <2>7. CallSound(Stores, d) BY <2>2, <2>5, <2>6 DEF CallSound, MoveSound, AnswerSound
  <2> QED BY <1>4, <1>6, <2>1, <2>3, <2>7, CallMoves
<1> QED BY <1>5, <1>6 DEF ApplyWrite

LEMMA ApplyWriteErrorKeeps ==
    ASSUME IInv, NEW p \in Call, NEW done \in BOOLEAN, ApplyWriteError(p, done)
    PROVE  IInv'
<1> DEFINE c == caller[p]
           m == IF done THEN 1 ELSE 0
           d == [c EXCEPT !.pc = "observe", !.why = "error", !.moves = m]
<1>1. c \in CallRow /\ CallSound(Stores, c) /\ c.pc = "write" BY CallAtHand DEF ApplyWriteError
<1>2. On(c) = "write" BY <1>1 DEF On, Repairing
<1>3. c.moves = 0 BY <1>1, <1>2 DEF CallSound, MoveSound, Observing
<1>4. UNCHANGED <<plan, qlog, qsum, head, stage, staged, status>> BY DEF ApplyWriteError
<1>5. /\ qrow'.pipe = qrow.pipe /\ Stores' \in StoreRow /\ StoreSound(Stores') /\ Grows(Stores, Stores')
      /\ done => qrow'.ena = Changed(c)
  <2>1. CASE done
    <3>1. UpdateQueue(c.row.v, [c.row EXCEPT !.ena = Changed(c)]) BY <2>1 DEF ApplyWriteError
    <3> QED BY <1>1, <1>4, <3>1, ChangeWritten
  <2>2. CASE ~done
    <3>1. UNCHANGED qrow BY <2>2 DEF ApplyWriteError
    <3> QED BY <1>4, <2>2, <3>1, StoresStill
  <2> QED BY <2>1, <2>2
<1>6. d \in CallRow
  <2>1. m \in Nat OBVIOUS
  <2> HIDE DEF m
  <2> QED BY <1>1, <2>1 DEF CallRow, Pc
<1>7. /\ d.pc = "observe" /\ d.want = c.want /\ d.uri = c.uri /\ d.prev = c.prev
      /\ d.next = c.next /\ d.row = c.row /\ d.moves = m /\ d.why = "error"
  BY <1>1 DEF CallRow
<1>8. caller' = [caller EXCEPT ![p] = d]
  <2>1. caller' = [caller EXCEPT ![p].pc = "observe", ![p].why = "error",
                                 ![p].moves = IF done THEN @ + 1 ELSE @]
    BY DEF ApplyWriteError
  <2>2. caller' = [caller EXCEPT ![p] = [c EXCEPT !.pc = "observe", !.why = "error",
                                                  !.moves = IF done THEN c.moves + 1 ELSE c.moves]]
    BY <2>1
  <2>3. (IF done THEN c.moves + 1 ELSE c.moves) = m BY <1>3
  <2> QED BY <2>2, <2>3
<1> HIDE DEF d
<1>9. On(d) = "observe" /\ Changed(d) = Changed(c) BY <1>7 DEF On, Repairing, Changed
<1>10. CallSound(Stores', c) BY <1>1, <1>5, CallGrows, StoresAtHand
<1>11. CopySound(Stores', d) BY <1>7, <1>1, <1>10 DEF CallSound, CopySound, Repairing
<1>12. DecisionSound(Stores', d)
  BY <1>2, <1>7, <1>9, <1>10 DEF CallSound, DecisionSound, Deciding, Applying, Observing
<1>13. MoveSound(Stores', d)
  <2>1. Stores'.row = qrow' /\ Changed(c).v # 0 BY <1>1, CallFields DEF Stores
  <2> QED BY <1>5, <1>7, <1>9, <2>1 DEF MoveSound, Told, Observing
<1>14. CallSound(Stores', d) BY <1>7, <1>11, <1>12, <1>13 DEF CallSound, AnswerSound
<1>15. qfaults' \in 0 .. plan.faults
  <2>1. plan.faults \in Nat BY DEF IInv, Types, QueueStateAssumed
  <2> QED BY <2>1 DEF ApplyWriteError, IInv, Types
<1> QED BY <1>4, <1>5, <1>6, <1>8, <1>14, <1>15, CallStep

LEMMA ApplyObserveKeeps ==
    ASSUME IInv, NEW p \in Call, ApplyObserve(p)
    PROVE  IInv'
<1> DEFINE c == caller[p]
           e == c.row.ena
<1>1. c \in CallRow /\ CallSound(Stores, c) /\ c.pc = "observed" BY CallAtHand DEF ApplyObserve
<1>2. On(c) = "observed" BY <1>1 DEF On, Repairing
<1>3. /\ Visible(Stores, e) /\ c.next.state = c.want /\ c.want # "none" /\ c.uri # "none"
  BY <1>1, <1>2 DEF CallSound, CopySound, DecisionSound, Deciding, Applying, Observing
<1>4. Changed(c) \in Ena /\ Changed(c).state = c.next.state /\ Unset \in Ena
  BY <1>1, CallFields, NoCallIsRow, StoresAtHand DEF Changed, Ena
<1>5. UNCHANGED <<qrow, qlog, qsum, othersOfCall>> BY DEF ApplyObserve
<1>6. c.moves \in {0, 1} /\ (c.moves = 1 => c.why = "error" /\ Told(Stores, Changed(c)) /\ c.prev.v < e.v)
  BY <1>1, <1>2 DEF CallSound, MoveSound, Observing
<1>7. CASE c.why = "mismatch" /\ Goto(p, "apply")
  <2> DEFINE d == [c EXCEPT !.pc = "apply"]
  <2>1. d \in CallRow BY <1>1 DEF CallRow, Pc
  <2>2. /\ d.pc = "apply" /\ d.want = c.want /\ d.uri = c.uri /\ d.prev = c.prev /\ d.next = c.next
        /\ d.row = c.row /\ d.moves = 0
    BY <1>1, <1>6, <1>7 DEF CallRow
  <2>3. caller' = [caller EXCEPT ![p] = d] BY <1>7 DEF Goto
  <2> HIDE DEF d
  <2>4. On(d) = "apply" BY <2>2 DEF On, Repairing
  <2>5. CopySound(Stores, d) BY <1>1, <2>2 DEF CallSound, CopySound, Repairing
  <2>6. DecisionSound(Stores, d)
    BY <1>1, <1>2, <2>2, <2>4 DEF CallSound, DecisionSound, Deciding, Applying, Observing
  <2>7. CallSound(Stores, d) BY <2>2, <2>5, <2>6 DEF CallSound, MoveSound, AnswerSound
  <2> QED BY <1>5, <2>1, <2>3, <2>7, CallMoves
<1>8. CASE ReconcileChange(c, e) /\ Return(p, "answered", Changed(c))
  <2>1. Visible(Stores, Changed(c)) BY <1>1, <1>3, <1>8, Reconciled
  <2> QED BY <1>3, <1>4, <1>5, <1>8, <2>1, Returns DEF Over
<1>9. CASE c.why = "mismatch" /\ PrepareAgain(p)
  BY <1>2, <1>5, <1>6, <1>9, Retries DEF Applying, Observing
<1>10. CASE ~ReconcileChange(c, e) /\ Return(p, "failed", Unset)
  <2>1. c.moves = 0 BY <1>1, <1>3, <1>6, <1>10, Reconciled
  <2> QED BY <1>4, <1>5, <1>10, <2>1, Returns DEF Over
<1> QED BY <1>7, <1>8, <1>9, <1>10 DEF ApplyObserve
-----------------------------------------------------------------------------
(* The pipeline, the trunk and the status call.                             *)

LEMMA StageReadKeeps ==
    ASSUME IInv, StageRead
    PROVE  IInv'
<1>1. UNCHANGED <<plan, qrow, qlog, qsum, head, caller, staged, status, qfaults>> /\ stage' = qrow
  BY DEF StageRead
<1>2. Stores' = Stores BY <1>1 DEF Stores
<1>3. StageSound(Stores, qrow) BY StoresAtHand DEF StageSound
<1>4. stage' # NoRow => staged < plan.stages BY DEF StageRead
<1>5. Types' BY <1>1, <1>2, <1>4, StoresAtHand DEF IInv, Types
<1> QED BY <1>1, <1>2, <1>3, <1>5 DEF IInv

LEMMA StageWriteKeeps ==
    ASSUME IInv, StageWrite
    PROVE  IInv'
<1>1. /\ UNCHANGED <<plan, qlog, qsum, head, caller, status, qfaults>> /\ stage' = NoRow
      /\ stage # NoRow /\ stage \in Row /\ staged < plan.stages /\ staged \in 0 .. plan.stages
      /\ plan.stages \in Nat
  BY DEF StageWrite, IInv, Types, QueueStateAssumed
<1>2. /\ Stores' \in StoreRow /\ StoreSound(Stores') /\ Grows(Stores, Stores')
      /\ qrow'.pipe = staged' /\ staged' \in 0 .. plan.stages
  <2>1. CASE UNCHANGED <<qrow, staged>> BY <1>1, <2>1, StoresStill DEF IInv
  <2>2. CASE UpdateQueue(stage.v, [stage EXCEPT !.pipe = @ + 1]) /\ staged' = staged + 1
    <3>1. stage.v = qrow.v /\ stage = qrow BY <2>2, StoresAtHand DEF UpdateQueue, IInv, StageSound
    <3> DEFINE x == [qrow EXCEPT !.pipe = @ + 1]
    <3>2. x \in Row /\ x.pipe = qrow.pipe + 1 /\ x.ena = qrow.ena BY StoresAtHand DEF Row
    <3>3. qrow' = [x EXCEPT !.v = qrow.v + 1] BY <2>2, <3>1 DEF UpdateQueue
    <3> HIDE DEF x
    <3>4. qrow' \in Row /\ qrow'.v = qrow.v + 1 /\ qrow'.ena = qrow.ena /\ qrow'.pipe = qrow.pipe + 1
      BY <3>2, <3>3, StoresAtHand DEF Row
    <3>5. Stores' = [Stores EXCEPT !.row = qrow'] BY <1>1 DEF Stores
    <3>6. Stores' \in StoreRow /\ StoreSound(Stores') /\ Grows(Stores, Stores')
      BY <3>4, <3>5, RowKept, StoresAtHand
    <3> QED BY <1>1, <2>2, <3>4, <3>6 DEF IInv
  <2> QED BY <2>1, <2>2 DEF StageWrite
<1>3. NoRow \in Row BY NoCallIsRow, StoresAtHand
<1>4. Types' BY <1>1, <1>2, <1>3 DEF IInv, Types
<1>5. ASSUME NEW q \in Call PROVE CallSound(Stores', caller'[q])
  BY <1>1, <1>2, CallAtHand, CallGrows, StoresAtHand
<1>6. StatusSound(Stores', status') BY <1>1, <1>2, StatusGrows DEF IInv, Types
<1>7. StageSound(Stores', stage')
  BY <1>1, <1>2, Fields DEF StageSound, StoreSound, NoRow
<1> QED BY <1>2, <1>4, <1>5, <1>6, <1>7 DEF IInv

LEMMA MoveTipKeeps ==
    ASSUME IInv, MoveTip
    PROVE  IInv'
<1>1. UNCHANGED <<plan, qrow, qlog, qsum, caller, stage, staged, status, qfaults>> BY DEF MoveTip
<1>2. Stores' = Stores BY <1>1 DEF Stores
<1>3. head' \in DOMAIN plan'.tips
  <2>1. plan.tips \in Seq(Commit) /\ head \in DOMAIN plan.tips BY DEF IInv, Types, QueueStateAssumed
  <2> QED BY <1>1, <2>1 DEF MoveTip
<1>4. Types' BY <1>1, <1>2, <1>3 DEF IInv, Types
<1> QED BY <1>1, <1>2, <1>4 DEF IInv

\* A step of the status call.
LEMMA StatusMoves ==
    ASSUME IInv, NEW s \in StatusRow, StatusSound(Stores, s), status' = s, UNCHANGED othersOfStatus
    PROVE  IInv'
<1>1. UNCHANGED <<plan, qrow, qlog, qsum, head, caller, stage, staged, qfaults>> BY DEF othersOfStatus
<1>2. Stores' = Stores BY <1>1 DEF Stores
<1>3. Types' BY <1>1, <1>2 DEF IInv, Types
<1> QED BY <1>1, <1>2, <1>3 DEF IInv

LEMMA StatusAtHand ==
    ASSUME IInv
    PROVE  /\ status \in StatusRow /\ StatusSound(Stores, status) /\ status.seen \in Ena /\ status.cur \in Ena
           /\ status.seen.v \in Nat /\ status.cur.v \in Nat
BY DEF IInv, Types, StatusRow, Ena

LEMMA LoadSummaryKeeps ==
    ASSUME IInv, NEW c \in plan.asks, LoadSummary(c)
    PROVE  IInv'
<1> DEFINE s == [pc |-> "load", uri |-> c, seen |-> qsum.ena, cur |-> qsum.ena]
<1>1. c \in Commit BY DEF IInv, Types, QueueStateAssumed
<1>2. s \in StatusRow BY <1>1, StoresAtHand DEF StatusRow
<1>3. Retained(Stores, qsum.ena) BY StoresAtHand DEF LoadSummary, StoreSound
<1>4. StatusSound(Stores, s) BY <1>3 DEF StatusSound
<1> QED BY <1>2, <1>4, StatusMoves DEF LoadSummary, GetQueueSummary

LEMMA LoadRetainedKeeps ==
    ASSUME IInv, LoadRetained
    PROVE  IInv'
<1> DEFINE s == [status EXCEPT !.pc = "resolve"]
<1>1. Retained(Stores, status.seen) /\ status.cur = status.seen
  BY StatusAtHand DEF LoadRetained, StatusSound
<1>2. LoadVersion(status.seen.v) = status.seen BY <1>1, StoresAtHand DEF Retained, LoadVersion, GetLog
<1>3. status' = s BY <1>2 DEF LoadRetained
<1>4. s \in StatusRow BY StatusAtHand DEF StatusRow
<1>5. StatusSound(Stores, s) BY <1>1, StatusAtHand DEF StatusSound, StatusRow
<1> QED BY <1>3, <1>4, <1>5, StatusMoves DEF LoadRetained

LEMMA ResolveTipKeeps ==
    ASSUME IInv, ResolveTip
    PROVE  IInv'
<1>1. PICK x \in {"walk", "unresolved"} : status' = [status EXCEPT !.pc = x]
  BY DEF ResolveTip
<1> DEFINE s == [status EXCEPT !.pc = x]
<1>2. Retained(Stores, status.seen) /\ status.cur = status.seen
  BY StatusAtHand DEF ResolveTip, StatusSound
<1>3. s \in StatusRow BY StatusAtHand DEF StatusRow
<1>4. s.pc = x /\ s.seen = status.seen /\ s.cur = status.seen BY <1>2, StatusAtHand DEF StatusRow
<1>5. StatusSound(Stores, s) BY <1>2, <1>4, StatusAtHand DEF StatusSound
<1> QED BY <1>1, <1>3, <1>5, StatusMoves DEF ResolveTip

LEMMA WalkHistoryKeeps ==
    ASSUME IInv, WalkHistory
    PROVE  IInv'
<1> DEFINE cur == status.cur
           prev == LoadVersion(cur.v - 1)
<1>1. /\ status.pc = "walk" /\ Retained(Stores, status.seen) /\ Retained(Stores, cur) /\ cur.v <= status.seen.v
      /\ \A v \in cur.v + 1 .. status.seen.v : v # 1 /\ ~IsAncestor(qlog[v].from, status.uri)
  BY StatusAtHand, StoresAtHand DEF WalkHistory, StatusSound
<1>2. cur \in Ena /\ cur.v \in Nat /\ status.seen.v \in Nat BY StatusAtHand
<1>3. UNCHANGED othersOfStatus BY DEF WalkHistory
<1>4. ASSUME NEW x \in {"answered", "unresolved"}, status' = [status EXCEPT !.pc = x],
             x = "answered" => Covers(cur, status.uri)
      PROVE  IInv'
  <2> DEFINE s == [status EXCEPT !.pc = x]
  <2>1. s \in StatusRow BY StatusAtHand DEF StatusRow
  <2>2. s.pc = x /\ s.seen = status.seen /\ s.cur = cur /\ s.uri = status.uri BY StatusAtHand DEF StatusRow
  <2> HIDE DEF s
  <2>3. StatusSound(Stores, s) BY <1>1, <1>4, <2>2, StoresAtHand DEF StatusSound
  <2> QED BY <1>3, <1>4, <2>1, <2>3, StatusMoves DEF s
<1>5. CASE Covers(cur, status.uri)
  <2>1. status' = [status EXCEPT !.pc = "answered"] BY <1>5 DEF WalkHistory
  <2> QED BY <1>4, <1>5, <2>1
<1>6. CASE ~Covers(cur, status.uri) /\ ~IsAncestor(status.uri, cur.from)
  <2>1. status' = [status EXCEPT !.pc = "unresolved"] BY <1>6 DEF WalkHistory
  <2> QED BY <1>4, <2>1
<1>7. CASE ~Covers(cur, status.uri) /\ IsAncestor(status.uri, cur.from)
  <2>1. cur.v # 1 /\ ~IsAncestor(cur.from, status.uri) BY <1>7 DEF Covers
  <2>2. cur.v \in 1 .. qrow.ena.v /\ cur.v \in DOMAIN qlog /\ qlog[cur.v] = cur
    BY <1>1, StoresAtHand DEF Retained, StoreSound
  <2>3. cur.v - 1 \in 1 .. qrow.ena.v - 1 BY <1>2, <2>1, <2>2, StoresAtHand
  <2>4. /\ cur.v - 1 \in DOMAIN qlog
        /\ Follows(Version(Stores, cur.v - 1), Version(Stores, (cur.v - 1) + 1))
    BY <2>3, StoresAtHand DEF StoreSound
  <2>5. prev = qlog[cur.v - 1] BY <2>4 DEF LoadVersion, GetLog
  <2>6. Version(Stores, cur.v - 1) = prev /\ Version(Stores, (cur.v - 1) + 1) = cur
    <3>1. cur.v - 1 # qrow.ena.v BY <2>3, StoresAtHand
    <3>2. (cur.v - 1) + 1 = cur.v BY <1>2
    <3>3. cur.v = qrow.ena.v => qrow.ena = cur BY <2>2, StoresAtHand DEF StoreSound
    <3> QED BY <2>2, <2>5, <3>1, <3>2, <3>3, StoresAtHand DEF Version
  <2>7. prev.v = cur.v - 1 /\ EnaSound(prev) /\ prev \in Ena
    BY <2>4, <2>5, StoresAtHand, Fields DEF StoreSound
  <2> HIDE DEF prev
  <2>8. prev # Unset /\ prev.state # cur.state /\ Forward(prev.from, cur.from)
    <3>1. prev.v # 0 BY <2>1, <2>2, <2>7
    <3>2. prev.v \in Nat BY <2>7 DEF Ena
    <3>3. prev.v = 1 \/ prev.v > 1 BY ONLY <3>1, <3>2
    <3> QED BY <2>4, <2>6, <2>7, <3>1, <3>3 DEF Follows, Forward, EnaSound, Unset
  <2> DEFINE s == [status EXCEPT !.cur = prev]
  <2>9. status' = s BY <1>7, <2>8 DEF WalkHistory, prev
  <2>10. s \in StatusRow BY <2>7, StatusAtHand DEF StatusRow
  <2>11. s.pc = "walk" /\ s.seen = status.seen /\ s.cur = prev /\ s.uri = status.uri
    BY <1>1, StatusAtHand DEF StatusRow
  <2> HIDE DEF s
  <2>12. ASSUME NEW v \in prev.v + 1 .. status.seen.v
         PROVE  v # 1 /\ ~IsAncestor(qlog[v].from, status.uri)
    <3>1. CASE v = cur.v BY <2>1, <2>2, <3>1
    <3>2. CASE v # cur.v BY <1>1, <1>2, <2>7, <3>2
    <3> QED BY <3>1, <3>2
  <2>13. Retained(Stores, prev) /\ prev.v <= status.seen.v
    BY <1>1, <1>2, <2>4, <2>5, <2>7, StoresAtHand DEF Retained
  <2>14. StatusSound(Stores, s)
    BY <1>1, <2>11, <2>12, <2>13, StoresAtHand DEF StatusSound
  <2> QED BY <1>3, <2>9, <2>10, <2>14, StatusMoves
<1> QED BY <1>5, <1>6, <1>7
-----------------------------------------------------------------------------
(* The invariant, and what follows from it.                                 *)

LEMMA InitIInv ==
    ASSUME QueueStateAssumed, QueueStateInit
    PROVE  IInv
<1>1. /\ plan \in Plans /\ qlog = << >> /\ qsum = [v |-> 0, ena |-> Unset]
      /\ head = 1 /\ caller = [p \in Call |-> NoCall] /\ stage = NoRow /\ staged = 0
      /\ status = NoStatus /\ qfaults = 0
      /\ qrow = NoRow \/ qrow = [NoRow EXCEPT !.v = 1]
  BY DEF QueueStateInit
<1>2. NoCall \in CallRow /\ NoRow \in Row /\ Unset \in Ena BY NoCallIsRow
<1>3. /\ plan.stages \in Nat /\ plan.faults \in Nat /\ plan.tips \in Seq(Commit) \ {<<>>}
  BY <1>1 DEF QueueStateAssumed
<1>4. qlog \in [{} -> Ena] /\ DOMAIN qlog = {} BY <1>1
<1>5. qlog \in EnaLog
  <2>1. {} \in SUBSET Nat OBVIOUS
  <2> QED BY <1>4, <2>1 DEF EnaLog
<1>6. qrow \in Row /\ qrow.ena = Unset /\ qrow.pipe = 0 /\ qrow.v \in {0, 1} /\ (qrow.v = 0 => qrow = NoRow)
  BY <1>1, <1>2 DEF NoRow, Row
<1>7. Stores \in StoreRow BY <1>1, <1>2, <1>5, <1>6 DEF Stores, StoreRow
<1>8. Stores.row = qrow /\ Stores.log = qlog /\ Stores.sum = qsum BY DEF Stores
<1>9. head \in DOMAIN plan.tips BY <1>1, <1>3
<1>10. NoStatus \in StatusRow BY <1>2 DEF NoStatus, StatusRow
<1>11. Types
  BY <1>1, <1>2, <1>3, <1>7, <1>9, <1>10 DEF Types
<1>12. StoreSound(Stores)
  BY <1>1, <1>4, <1>6, <1>8 DEF StoreSound, EnaSound, Unset
<1>13. CallSound(Stores, NoCall)
  <2>1. NoCall.pc = "idle" /\ NoCall.moves = 0 /\ NoCall.row = NoRow BY DEF NoCall
  <2>2. On(NoCall) = "idle" BY <2>1 DEF On, Repairing
  <2>3. CopySound(Stores, NoCall)
    BY <1>6, <1>8, <2>1 DEF CopySound, NoRow, Repairing
  <2>4. DecisionSound(Stores, NoCall) BY <2>2 DEF DecisionSound, Deciding, Applying, Observing
  <2> QED BY <2>1, <2>3, <2>4 DEF CallSound, MoveSound, AnswerSound
<1>14. StatusSound(Stores, status) BY <1>1 DEF StatusSound, NoStatus
<1>15. StageSound(Stores, stage) BY <1>1, <1>6, <1>8 DEF StageSound, NoRow
<1> QED BY <1>1, <1>6, <1>11, <1>12, <1>13, <1>14, <1>15 DEF IInv

LEMMA IngestStepKeeps ==
    ASSUME IInv, NEW p \in Call, IngestStep(p)
    PROVE  IInv'
<1>1. CASE RetainLog(p) BY <1>1, RetainLogKeeps
<1>2. CASE ReadQueueSummary(p) BY <1>2, ReadQueueSummaryKeeps
<1>3. CASE MaterializeSummary(p) BY <1>3, MaterializeSummaryKeeps
<1>4. CASE InitializeRead(p) BY <1>4, InitializeReadKeeps
<1>5. CASE LoadForPrepare(p) BY <1>5, LoadForPrepareKeeps
<1>6. CASE LoadForApply(p) BY <1>6, LoadForApplyKeeps
<1>7. CASE LoadToObserve(p) BY <1>7, LoadToObserveKeeps
<1>8. CASE ApplyCheck(p) BY <1>8, ApplyCheckKeeps
<1>9. CASE ApplyWrite(p) BY <1>9, ApplyWriteKeeps
<1>10. CASE ApplyObserve(p) BY <1>10, ApplyObserveKeeps
<1>11. CASE AnswerIngest(p) BY <1>11, AnswerIngestKeeps
<1>12. ASSUME NEW t \in 1..MaxStamp, InitializeWrite(p, t) PROVE IInv'
  BY <1>12, InitializeWriteKeeps
<1>13. ASSUME NEW t \in 1..MaxStamp, Prepare(p, t) PROVE IInv'
  BY <1>13, PrepareKeeps
<1> QED
  BY <1>1, <1>2, <1>3, <1>4, <1>5, <1>6, <1>7, <1>8, <1>9, <1>10, <1>11, <1>12, <1>13 DEF IngestStep

LEMMA NextIInv ==
    ASSUME IInv, [QueueStateNext]_qvars
    PROVE  IInv'
<1>1. ASSUME NEW p \in Call, BeginIngest(p) PROVE IInv' BY <1>1, BeginIngestKeeps
<1>2. ASSUME NEW p \in Call, IngestStep(p) PROVE IInv' BY <1>2, IngestStepKeeps
<1>3. ASSUME NEW p \in Call, FailIngest(p) PROVE IInv' BY <1>3, FailIngestKeeps
<1>4. ASSUME NEW p \in Call, NEW done \in BOOLEAN, ApplyWriteError(p, done) PROVE IInv'
  BY <1>4, ApplyWriteErrorKeeps
<1>5. CASE StageRead BY <1>5, StageReadKeeps
<1>6. CASE StageWrite BY <1>6, StageWriteKeeps
<1>7. CASE MoveTip BY <1>7, MoveTipKeeps
<1>8. ASSUME NEW c \in plan.asks, LoadSummary(c) PROVE IInv' BY <1>8, LoadSummaryKeeps
<1>9. CASE StatusStep BY <1>9, LoadRetainedKeeps, ResolveTipKeeps, WalkHistoryKeeps DEF StatusStep
<1>10. CASE UNCHANGED qvars
  <2>1. UNCHANGED <<plan, qrow, qlog, qsum, head, caller, stage, staged, status, qfaults>>
    BY <1>10 DEF qvars
  <2>2. Stores' = Stores BY <2>1 DEF Stores
  <2>3. Types' BY <2>1, <2>2 DEF IInv, Types
  <2> QED BY <2>1, <2>2, <2>3 DEF IInv
<1> QED BY <1>1, <1>2, <1>3, <1>4, <1>5, <1>6, <1>7, <1>8, <1>9, <1>10 DEF QueueStateNext

(* The strengthening: the stores are told apart from no state they had, and
   what each call holds of them is still so.                                *)
THEOREM QueueStateIsSound == ASSUME QueueStateAssumed PROVE QueueStateSpec => []IInv
<1>1. QueueStateInit => IInv BY InitIInv
<1>2. IInv /\ [QueueStateNext]_qvars => IInv' BY NextIInv
<1> QED BY <1>1, <1>2, PTL DEF QueueStateSpec

(* The row, its history, the summary and every copy a caller, a stage or the
   status call holds keep their types (core/queuestate, entity Queue).      *)
THEOREM QueueStateIsTyped == ASSUME QueueStateAssumed PROVE QueueStateSpec => []QueueStateTypeOK
<1>1. IInv => QueueStateTypeOK
  <2> SUFFICES ASSUME IInv PROVE QueueStateTypeOK OBVIOUS
  <2>1. qrow \in Row /\ qlog \in [DOMAIN qlog -> Ena] /\ qsum \in [v : Nat, ena : Ena]
    BY DEF IInv, Types, Stores, StoreRow, EnaLog
  <2>2. ASSUME NEW p \in Call PROVE caller[p].row \in Row /\ caller[p].prev \in Ena /\ caller[p].next \in Ena
    BY CallAtHand DEF CallRow
  <2> QED BY <2>1, <2>2, StatusAtHand DEF QueueStateTypeOK, IInv, Types
<1> QED BY <1>1, QueueStateIsSound, PTL

(* What a repair finds in the history or the summary never contradicts the
   state it read, and no status call meets a broken chain: the code's
   inconsistency errors are unreachable, however calls race and crash.      *)
THEOREM ReadModelsAgree == ASSUME QueueStateAssumed PROVE QueueStateSpec => []NeverInconsistent
<1>1. IInv => NeverInconsistent
  BY DEF IInv, CallSound, StatusSound, NeverInconsistent
<1> QED BY <1>1, QueueStateIsSound, PTL

(* Every change of enablement below the row's is in the history, alternates
   with the one before it and moves the boundary forward.                   *)
THEOREM EnablementHistoryIsWhole == ASSUME QueueStateAssumed PROVE QueueStateSpec => []HistoryIsWhole
<1>1. IInv => HistoryIsWhole
  <2> SUFFICES ASSUME IInv, NEW v \in 1 .. qrow.ena.v - 1
               PROVE  /\ v \in DOMAIN qlog
                      /\ LET next == IF v + 1 = qrow.ena.v THEN qrow.ena ELSE qlog[v + 1]
                         IN  qlog[v].state # next.state /\ (v > 1 => IsAncestor(qlog[v].from, next.from))
    BY DEF HistoryIsWhole
  <2>1. v \in DOMAIN qlog /\ Follows(Version(Stores, v), Version(Stores, v + 1))
    BY StoresAtHand DEF StoreSound
  <2>2. v # qrow.ena.v BY StoresAtHand
  <2>3. Version(Stores, v) = qlog[v] /\ qlog[v].v = v
    BY <2>1, <2>2, StoresAtHand DEF Version, StoreSound
  <2>4. Version(Stores, v + 1) = IF v + 1 = qrow.ena.v THEN qrow.ena ELSE qlog[v + 1]
    BY StoresAtHand DEF Version
  <2> QED BY <2>1, <2>3, <2>4 DEF Follows
<1> QED BY <1>1, QueueStateIsSound, PTL

(* A call moves the enablement at most once, and not at all if it was refused
   or reports, having read the row back, that its write failed; the change of a
   call that failed elsewhere after its write is in the row or the history,
   which is where Reconcile finds a write whose reply was lost.             *)
THEOREM EnablementIsDecidedOnce == ASSUME QueueStateAssumed PROVE QueueStateSpec => []DecidedOnce
<1>1. IInv => DecidedOnce
  <2> SUFFICES ASSUME IInv, NEW p \in Call
               PROVE  LET c == caller[p]
                      IN  /\ c.moves <= 1
                          /\ c.pc \in {"failed", "refused"} => c.moves = 0
                          /\ c.pc = "lost" /\ c.moves = 1 =>
                                c.got = qrow.ena \/ (c.got.v \in DOMAIN qlog /\ qlog[c.got.v] = c.got)
    BY DEF DecidedOnce
  <2> DEFINE c == caller[p]
  <2>1. MoveSound(Stores, c) BY DEF IInv, CallSound
  <2>2. c.pc \in {"failed", "refused", "lost"} => On(c) = c.pc BY DEF On, Repairing
  <2>3. c.moves <= 1 /\ (c.pc \in {"failed", "refused"} => c.moves = 0) BY <2>1, <2>2 DEF MoveSound, Observing
  <2>4. c.pc = "lost" /\ c.moves = 1 => Told(Stores, c.got) BY <2>1, <2>2 DEF MoveSound, Observing
  <2> QED BY <2>3, <2>4, StoresAtHand DEF Told, Retained
<1> QED BY <1>1, QueueStateIsSound, PTL

(* What an ingest call was answered with is what it asked for, is retained,
   and the summary shows it or a later change.                              *)
THEOREM AnswersAreVisible == ASSUME QueueStateAssumed PROVE QueueStateSpec => []AnsweredIsVisible
<1>1. IInv => AnsweredIsVisible
  BY StoresAtHand DEF IInv, CallSound, AnswerSound, Visible, Retained, AnsweredIsVisible
<1> QED BY <1>1, QueueStateIsSound, PTL

(* An update of the row by the pipeline survives every change of enablement,
   and a change of enablement every update.                                 *)
THEOREM StagesAreKept == ASSUME QueueStateAssumed PROVE QueueStateSpec => []StageIsKept
<1>1. IInv => StageIsKept BY DEF IInv, StageIsKept
<1> QED BY <1>1, QueueStateIsSound, PTL

(* A status call answers with the newest change that covers the commit, of
   those the summary knew when the call began.                              *)
THEOREM StatusIsOfTheCommit == ASSUME QueueStateAssumed PROVE QueueStateSpec => []StatusIsTrue
<1>1. IInv => StatusIsTrue
  <2> SUFFICES ASSUME IInv, status.pc = "answered" PROVE StatusIsTrue BY DEF StatusIsTrue
  <2> DEFINE covering == {v \in 1..status.seen.v : v = 1 \/ IsAncestor(qlog[v].from, status.uri)}
             cur == status.cur
  <2>1. /\ Retained(Stores, cur) /\ cur.v <= status.seen.v /\ Covers(cur, status.uri)
        /\ \A v \in cur.v + 1 .. status.seen.v : v # 1 /\ ~IsAncestor(qlog[v].from, status.uri)
    BY StatusAtHand, StoresAtHand DEF StatusSound
  <2>2. cur.v \in 1 .. status.seen.v /\ qlog[cur.v] = cur
    BY <2>1, StatusAtHand, StoresAtHand DEF Retained, StoreSound
  <2>3. cur.v \in covering BY <2>1, <2>2 DEF Covers
  <2>4. ASSUME NEW w \in covering PROVE w <= cur.v BY <2>1, StatusAtHand
  <2>5. ASSUME NEW u \in covering, \A w \in covering : w <= u PROVE u = cur.v
    <3>1. cur.v <= u /\ u <= cur.v BY <2>3, <2>4, <2>5
    <3> QED BY <3>1, <2>5, StatusAtHand
  <2> DEFINE top == CHOOSE v \in covering : \A w \in covering : w <= v
  <2>6. top \in covering /\ \A w \in covering : w <= top BY <2>3, <2>4
  <2>7. top = cur.v BY <2>5, <2>6
  <2> QED BY <2>7 DEF StatusIsTrue
<1> QED BY <1>1, QueueStateIsSound, PTL
=============================================================================
