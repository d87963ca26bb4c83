---------------------------- MODULE IssuesProofs ----------------------------
(***************************************************************************)
(* Proofs about Issues, for any requests, keys, scenarios and batch size:   *)
(* the types, that an issue closes only on a complete result that lacks it, *)
(* that it changes only in the name of the pass under way, and that the     *)
(* listing shows the open issues whenever no pass is.                       *)
(*                                                                         *)
(* The invariant is stated over two records of the state, so that what it   *)
(* says of one record of a store or of one handler is an operator of values *)
(* that steps of others carry over: the world, what is known of the builds, *)
(* that only grows; and the stores, that handlers write.                    *)
(***************************************************************************)
EXTENDS Issues, FiniteSetTheorems, TLAPS

\* What is known of the builds: their reports, the requests whose analysis is
\* complete, those of them that close what they do not report, the builds that
\* began, and the issues that exist.
Completed(r) == "build_analysis_completed" \in events[r]
Clean(r) == Completed(r) /\ verdict[r] = "passed" /\ observed[r] \cap TaskWide = {}
World == [obs   |-> observed,
          done  |-> {r \in Tracked : Completed(r)},
          clean |-> {r \in Tracked : Clean(r)},
          begun |-> {r \in Tracked : verdict[r] # "none"},
          known |-> {i \in Issue : issue[i] # NoIssue}]

Stores == [p |-> progress, iss |-> issue, sum |-> issueSummary, row |-> openIssue]

Active == {"refreshing", "finalizing", "abandoning"}
Logging == {"log", "row", "shown", "open"}
SummaryRow == [status : Statuses, first : 0 .. MaxTracked, of : 0 .. MaxTracked]
Place == {"idle", "again", "start", "batch", "list", "next", "key", "write", "end", "log", "row", "shown",
          "open", "fence", "guard", "refence", "abandon"}
Onward == {"none", "list", "next", "write", "abandon"}
ActorRow == [at : Place, of : 0 .. MaxTracked, pass : ProgressRow, current : BOOLEAN,
             key : 0 .. MaxIssue, reported : BOOLEAN, issue : IssueRow, fresh : BOOLEAN,
             keys : SUBSET Issue, room : Nat, need : BOOLEAN, back : {"none", "list", "next"},
             then : Onward, entry : IssueRow,
             row : 0 .. MaxTracked, shown : SummaryRow]

Event == {"build_analysis_completed", "build_analysis_abandoned", "issues_reconciled", "issue_tracking_abandoned",
          "fix_submitted", "fix_submission_skipped", "fix_submission_abandoned"}

RequestTypes ==
    /\ scenario \in Scenarios
    /\ validation \in [Tracked -> {"none", "accepted", "building", "ended", "superseded", "failed"}]
    /\ verdict \in [Tracked -> {"none", "running", "passed", "cancelled"}]
    /\ observed \in [Tracked -> SUBSET Issue]
    /\ analyst \in [Tracked -> {"none", "ready", "gone"}]
    /\ events \in [Tracked -> SUBSET Event]
    /\ mail \in [Tracked -> {"none", "ready", "dead", "gone"}]
StoreTypes ==
    /\ progress \in ProgressRow /\ issue \in [Issue -> IssueRow]
    /\ issueSummary \in [Issue -> SummaryRow] /\ openIssue \in [Issue -> 0 .. MaxTracked]
Types == RequestTypes /\ StoreTypes /\ actor \in [Actor -> ActorRow]

\* Of the builds: what is stored was found; a complete analysis stored it all
\* of a build that is over and is the outcome of its request, for good.
WorldSound ==
    \A r \in Tracked :
       /\ observed[r] \subseteq scenario.finds[r]
       /\ analyst[r] # "none" => verdict[r] # "none"
       /\ observed[r] # {} => verdict[r] # "none"
       /\ Completed(r) => /\ analyst[r] = "gone" /\ validation[r] = "ended"
                          /\ observed[r] = scenario.finds[r] /\ Ended(verdict[r])

-----------------------------------------------------------------------------
(* Of one row, over a world w.                                              *)

Gone(w, i, r) == r \in w.clean /\ i \notin w.obs[r]

RowSound(w, i, row) ==
    \/ row = NoIssue
    \/ /\ row.changed \in Tracked /\ row.last \in Tracked /\ row.changed <= row.last
       /\ \/ row.status = "open" /\ row.first = row.changed /\ i \in w.obs[row.changed] /\ i \in w.obs[row.last]
          \/ row.status = "closed" /\ Gone(w, i, row.changed) /\ Gone(w, i, row.last)

SummaryOf(row) == [status |-> row.status, first |-> row.first, of |-> row.changed]

SummarySound(w, i, s) ==
    \/ s = NoIssueSummary
    \/ /\ s.of \in Tracked
       /\ \/ s.status = "open" /\ s.first = s.of /\ i \in w.obs[s.of]
          \/ s.status = "closed" /\ Gone(w, i, s.of)

\* A pass has moved over the cursor c: it was reported, or exists; and what a
\* terminal refresh has moved over, it knows to be task-wide or not.
CursorSound(w, p, c) ==
    /\ c # 0 => /\ p.of \in w.begun
                /\ c \in w.obs[p.of] \/ (p.phase # "refreshing" /\ c \in w.known)
    /\ p.phase = "refreshing" /\ p.finalize =>
          \A i \in w.obs[p.of] \cap TaskWide : i <= c => p.taskWide

PassSound(w, p) ==
    \/ p = NoProgress
    \/ /\ p.of \in Tracked /\ p.phase # "none"
       /\ p.phase = "refreshed" => ~p.finalize
       /\ p.phase \in {"finalizing", "finalized"} => p.finalize
       /\ p.phase = "finalizing" => ~p.taskWide /\ p.of \in w.clean
       /\ p.phase = "refreshing" /\ p.finalize => p.of \in w.done
       /\ CursorSound(w, p, p.cursor)

-----------------------------------------------------------------------------
(* Of the stores s.                                                         *)

\* The read models show the issue's last change.
Settled(s, i) ==
    /\ s.sum[i] = SummaryOf(s.iss[i])
    /\ s.iss[i].status = "open" => s.row[i] = s.iss[i].first

\* A summary is that of the issue or of an earlier change; the open row is of
\* an opening the summary has had; only the issue at the cursor of a pass under
\* way is not settled, and then this pass wrote it.
IssueSound(w, s, i) ==
    /\ RowSound(w, i, s.iss[i]) /\ s.iss[i].last <= s.p.of
    /\ SummarySound(w, i, s.sum[i])
    /\ s.sum[i] = SummaryOf(s.iss[i]) \/ s.sum[i].of < s.iss[i].changed
    /\ s.row[i] <= s.sum[i].of
    /\ Settled(s, i) \/ (s.p.phase \in Active /\ i = s.p.cursor /\ s.iss[i].last = s.p.of)

StoresSound(w, s) == PassSound(w, s.p) /\ \A i \in Issue : IssueSound(w, s, i)

-----------------------------------------------------------------------------
(* Of one handler.                                                          *)

\* A key not reported is only looked at to be closed.
ReportSound(w, me) ==
    IF me.reported THEN me.key \in w.obs[me.pass.of]
    ELSE me.pass.phase = "finalizing" /\ Gone(w, me.key, me.pass.of) /\ me.key \in w.known

\* The keys left of a page: a terminal refresh misses nothing reported between
\* the key it is at and the end of the page, or, on a short one, at all.
Here(me) == IF me.at = "key" THEN me.key ELSE me.pass.cursor
PageSound(w, me) ==
    me.at = "next" \/ me.back = "next" =>
       /\ \A k \in me.keys : /\ k > Here(me)
                             /\ IF me.pass.phase = "refreshing" THEN k \in w.obs[me.pass.of] ELSE k \in w.known
       /\ me.pass.phase = "refreshing" /\ me.pass.finalize =>
             \A i \in w.obs[me.pass.of] : i > Here(me) =>
                i \in me.keys \/ (me.room # 1 /\ \A k \in me.keys : k < i)

Tracks(me) == me.at \in {"batch", "list", "next", "key", "write"}
Recovers(me) == me.at \in {"fence", "guard", "refence", "abandon"}

\* What a handler knows by itself.
Own(w, a, me) ==
    /\ PassSound(w, me.pass)
    /\ me.at # "idle" => me.of \in Tracked
    /\ a = "recovery" => ~Tracks(me) /\ me.at \notin {"again", "start", "end"}
    /\ a # "recovery" => ~Recovers(me)
    /\ me.at = "start" => me.pass.phase # "abandoning" /\ me.pass.of <= me.of
    /\ Tracks(me) \/ (a # "recovery" /\ me.at \in Logging) => me.pass.phase \in {"refreshing", "finalizing"}
    /\ Recovers(me) \/ (a = "recovery" /\ me.at \in Logging) => me.pass.phase = "abandoning"
    /\ me.at \in {"key", "write"} =>
          /\ me.key \in Issue /\ me.back \in {"list", "next"}
          /\ ReportSound(w, me) /\ RowSound(w, me.key, me.issue) /\ CursorSound(w, me.pass, me.key)
          /\ ~me.reported => me.issue # NoIssue
    /\ me.at = "key" => IF me.back = "list" THEN me.key = me.pass.cursor ELSE me.pass.cursor < me.key
    /\ me.at = "write" => me.key = me.pass.cursor /\ me.issue.last < me.pass.of
    /\ me.at \in {"guard", "refence"} => /\ me.key \in Issue /\ me.key = me.pass.cursor
                                         /\ RowSound(w, me.key, me.issue)
    /\ me.at \in Logging =>
          /\ me.key \in Issue
          /\ IF a = "recovery" THEN me.then = "abandon" ELSE me.then = me.back /\ me.back \in {"list", "next"}
    /\ me.at = "log" => RowSound(w, me.key, me.entry) /\ me.entry # NoIssue
    /\ me.at = "open" => SummarySound(w, me.key, me.shown) /\ me.row <= me.shown.of
    /\ me.back # "none" => a # "recovery" /\ me.at \in Logging \cup {"key", "write"}
    /\ PageSound(w, me)

\* The handler has moved past the key at the cursor, or has written it.
Passed(me) == me.at \in {"list", "next", "end", "abandon"} \/ (me.at = "key" /\ me.back = "next")
Written(me) == Passed(me) \/ me.at \in Logging
\* Its copy of the issue can still be written.
Writer(me) == me.at \in {"write", "refence"} /\ me.fresh

\* The row in place of an old one: as it is, or with passes over it, that
\* may have changed it.
Follows(row, old) ==
    \/ row = old
    \/ /\ old.last < row.last
       /\ SummaryOf(row) = SummaryOf(old) \/ old.changed < row.changed

\* What a handler knows of the stores.
CopySound(s, me) ==
    /\ me.at \in {"key", "write", "guard", "refence"} =>
          /\ Follows(s.iss[me.key], me.issue)
          /\ me.fresh => me.issue = s.iss[me.key]
    /\ me.at = "log" => \/ SummaryOf(me.entry) = SummaryOf(s.iss[me.key])
                        \/ me.entry.changed < s.iss[me.key].changed
    /\ me.at \in {"shown", "open"} /\ me.row # 0 =>
          /\ me.row <= s.sum[me.key].of
          /\ me.row = s.sum[me.key].of /\ s.sum[me.key].status = "open" => s.row[me.key] = me.row
    /\ me.at = "open" => me.shown = s.sum[me.key] \/ me.shown.of < s.sum[me.key].of

HoldSound(s, me) ==
    me.current /\ me.at \notin {"idle", "again"} =>
       /\ me.pass.of = s.p.of /\ me.pass.phase = s.p.phase
       /\ me.at \in {"start", "batch", "fence", "guard", "refence"} \/ (me.at = "key" /\ me.back = "list")
             => me.pass.cursor = s.p.cursor
       /\ me.at \in Logging \cup {"write"} => me.key = s.p.cursor
       /\ me.at = "log" => SummaryOf(me.entry) = SummaryOf(s.iss[me.key])
       /\ me.at \in {"row", "shown", "open"} => s.sum[me.key] = SummaryOf(s.iss[me.key])
       /\ me.at = "open" => me.shown = s.sum[me.key]
       /\ Passed(me) => \A i \in Issue : Settled(s, i)

WriteSound(s, me) ==
    Writer(me) => /\ me.pass.of = s.p.of /\ me.key = s.p.cursor
                  /\ s.p.phase \in Active /\ s.p.phase \in {me.pass.phase, "abandoning"}

Kept(s, me) == CopySound(s, me) /\ HoldSound(s, me) /\ WriteSound(s, me)

\* Who can write the issue at the cursor, nobody who holds the pass has written.
Apart(me, other) == Writer(me) => ~(other.current /\ Written(other))

IInv ==
    /\ Types /\ WorldSound /\ StoresSound(World, Stores)
    /\ \A a \in Actor : Own(World, a, actor[a]) /\ Kept(Stores, actor[a])
    /\ \A a, b \in Actor : Apart(actor[a], actor[b])

-----------------------------------------------------------------------------
(* What is known of the builds only grows, and what was said of it holds on. *)

WorldRow == [obs : [Tracked -> SUBSET Issue], done : SUBSET Tracked, clean : SUBSET Tracked,
             begun : SUBSET Tracked, known : SUBSET Issue]

Grows(w, v) ==
    /\ w \in WorldRow /\ v \in WorldRow /\ w.clean \subseteq w.done
    /\ w.done \subseteq v.done /\ w.clean \subseteq v.clean /\ w.begun \subseteq v.begun
    /\ w.known \subseteq v.known
    /\ \A r \in Tracked : /\ w.obs[r] \subseteq v.obs[r]
                          /\ r \in w.done => v.obs[r] = w.obs[r]

LEMMA GrownGone ==
    ASSUME NEW w, NEW v, Grows(w, v), NEW i, NEW r, Gone(w, i, r)
    PROVE  r \in Tracked /\ Gone(v, i, r)
BY DEF Grows, Gone, WorldRow

LEMMA GrownRow ==
    ASSUME NEW w, NEW v, Grows(w, v), NEW i, NEW row, RowSound(w, i, row)
    PROVE  RowSound(v, i, row)
BY GrownGone DEF Grows, RowSound

LEMMA GrownSummary ==
    ASSUME NEW w, NEW v, Grows(w, v), NEW i, NEW s, SummarySound(w, i, s)
    PROVE  SummarySound(v, i, s)
BY GrownGone DEF Grows, SummarySound

LEMMA GrownCursor ==
    ASSUME NEW w, NEW v, Grows(w, v), NEW p \in ProgressRow, PassSound(w, p), p # NoProgress,
           NEW c, CursorSound(w, p, c)
    PROVE  CursorSound(v, p, c)
<1>1. p.of \in Tracked /\ (p.phase = "refreshing" /\ p.finalize => p.of \in w.done)
  BY DEF PassSound
<1> QED BY <1>1 DEF Grows, CursorSound

LEMMA GrownPass ==
    ASSUME NEW w, NEW v, Grows(w, v), NEW p \in ProgressRow, PassSound(w, p)
    PROVE  PassSound(v, p)
<1>1. CASE p = NoProgress BY <1>1 DEF PassSound
<1>2. CASE p # NoProgress
  <2>1. CursorSound(w, p, p.cursor) BY <1>2 DEF PassSound
  <2>2. CursorSound(v, p, p.cursor) BY <1>2, <2>1, GrownCursor
  <2> QED BY <1>2, <2>2 DEF PassSound, Grows
<1> QED BY <1>1, <1>2

LEMMA GrownReport ==
    ASSUME NEW w, NEW v, Grows(w, v), NEW me, me.pass.of \in Tracked, ReportSound(w, me)
    PROVE  ReportSound(v, me)
BY GrownGone DEF Grows, ReportSound

LEMMA GrownPage ==
    ASSUME NEW w, NEW v, Grows(w, v), NEW me, me.pass.of \in Tracked,
           me.pass.phase = "refreshing" /\ me.pass.finalize => me.pass.of \in w.done,
           PageSound(w, me)
    PROVE  PageSound(v, me)
BY DEF Grows, PageSound

LEMMA GrownOwn ==
    ASSUME NEW w, NEW v, Grows(w, v), NEW a, NEW me \in ActorRow, Own(w, a, me)
    PROVE  Own(v, a, me)
<1>1. me.pass \in ProgressRow BY DEF ActorRow
<1>2. PassSound(v, me.pass) BY <1>1, GrownPass DEF Own
<1>3. ASSUME Tracks(me) \/ (me.at \in Logging /\ a # "recovery")
      PROVE  /\ me.pass # NoProgress /\ me.pass.of \in Tracked
             /\ me.pass.phase = "refreshing" /\ me.pass.finalize => me.pass.of \in w.done
  BY <1>3 DEF Own, PassSound, NoProgress
<1>4. ASSUME me.at \in {"key", "write"}
      PROVE  /\ ReportSound(v, me) /\ RowSound(v, me.key, me.issue) /\ CursorSound(v, me.pass, me.key)
  <2>1. /\ ReportSound(w, me) /\ RowSound(w, me.key, me.issue) /\ CursorSound(w, me.pass, me.key)
        /\ PassSound(w, me.pass)
    BY <1>4 DEF Own
  <2>2. me.pass.of \in Tracked /\ me.pass # NoProgress BY <1>3, <1>4 DEF Tracks
  <2> QED BY <1>1, <2>1, <2>2, GrownReport, GrownRow, GrownCursor
<1>5. PageSound(v, me)
  <2>1. CASE me.at = "next" \/ me.back = "next"
    <3>1. Tracks(me) \/ (me.at \in Logging /\ a # "recovery")
      BY <2>1 DEF Own, Tracks, Logging
    <3> QED BY <3>1, <1>3, GrownPage DEF Own
  <2>2. CASE ~(me.at = "next" \/ me.back = "next") BY <2>2 DEF PageSound
  <2> QED BY <2>1, <2>2
<1>6. me.at \in {"guard", "refence"} => RowSound(v, me.key, me.issue)
  BY GrownRow DEF Own
<1>7. me.at = "log" => RowSound(v, me.key, me.entry)
  BY GrownRow DEF Own
<1>8. me.at = "open" => SummarySound(v, me.key, me.shown)
  BY GrownSummary DEF Own
<1> QED BY <1>2, <1>4, <1>5, <1>6, <1>7, <1>8 DEF Own

-----------------------------------------------------------------------------
(* Types.                                                                   *)

LEMMA Constants ==
    /\ MaxTracked \in Nat /\ MaxIssue \in Nat /\ BatchSize \in Nat \ {0}
    /\ Tracked = 1 .. MaxTracked /\ Issue = 1 .. MaxIssue
    /\ Tracked \subseteq 0 .. MaxTracked /\ Issue \subseteq 0 .. MaxIssue
BY TrackingAssumption DEF Tracked, Issue

LEMMA RestTypes == /\ AtRest \in ActorRow /\ NoProgress \in ProgressRow /\ NoIssue \in IssueRow
                   /\ NoIssueSummary \in SummaryRow
<1>1. NoProgress \in ProgressRow BY Constants DEF NoProgress, ProgressRow
<1>2. NoIssue \in IssueRow BY Constants DEF NoIssue, IssueRow, Statuses
<1>3. NoIssueSummary \in SummaryRow BY Constants DEF NoIssueSummary, SummaryRow, Statuses
<1> QED BY <1>1, <1>2, <1>3, Constants DEF AtRest, ActorRow, Place, Onward

-----------------------------------------------------------------------------
(* What the tracker and its dead letters leave alone.                       *)

Tidy ==
    /\ UNCHANGED <<scenario, validation, verdict, observed, analyst>>
    /\ mail' \in [Tracked -> {"none", "ready", "dead", "gone"}]
    /\ events' \in [Tracked -> SUBSET Event]
    /\ \A r \in Tracked : "build_analysis_completed" \in events'[r] <=> "build_analysis_completed" \in events[r]

LEMMA TidyRequests ==
    ASSUME Types, WorldSound, Tidy
    PROVE  RequestTypes' /\ WorldSound'
<1>1. RequestTypes'
  BY DEF Types, RequestTypes, Tidy
<1>2. WorldSound'
  BY DEF Types, RequestTypes, Tidy, WorldSound, Completed, Ended
<1> QED BY <1>1, <1>2

Exist == \A i \in Issue : issue[i] # NoIssue => issue'[i] # NoIssue

\* The analysis goes on, and what is complete stays as it is.
Learns ==
    \A r \in Tracked :
       /\ observed[r] \subseteq observed'[r]
       /\ verdict[r] # "none" => verdict'[r] # "none"
       /\ "build_analysis_completed" \in events[r] =>
             /\ "build_analysis_completed" \in events'[r]
             /\ verdict'[r] = verdict[r] /\ observed'[r] = observed[r]

LEMMA LearntGrows ==
    ASSUME Types, RequestTypes', Learns, Exist
    PROVE  Grows(World, World')
<1> DEFINE w == World
           v == World'
<1>1. /\ w.obs = observed /\ w.done = {r \in Tracked : Completed(r)} /\ w.clean = {r \in Tracked : Clean(r)}
      /\ w.begun = {r \in Tracked : verdict[r] # "none"} /\ w.known = {i \in Issue : issue[i] # NoIssue}
  BY DEF World
<1>2. /\ v.obs = observed' /\ v.done = {r \in Tracked : Completed(r)'} /\ v.clean = {r \in Tracked : Clean(r)'}
      /\ v.begun = {r \in Tracked : verdict'[r] # "none"} /\ v.known = {i \in Issue : issue'[i] # NoIssue}
  BY DEF World
<1>3. /\ observed \in [Tracked -> SUBSET Issue] /\ observed' \in [Tracked -> SUBSET Issue]
  BY DEF Types, RequestTypes
<1>4. \A r \in Tracked : (Completed(r) => Completed(r)') /\ (Clean(r) => Clean(r)') /\ (Clean(r) => Completed(r))
  BY DEF Learns, Completed, Clean
<1>5. w \in WorldRow /\ v \in WorldRow
  <2>1. w \in WorldRow BY <1>1, <1>3 DEF World, WorldRow
  <2>2. v \in WorldRow BY <1>2, <1>3 DEF World, WorldRow
  <2> QED BY <2>1, <2>2
<1>6. w.done \subseteq v.done /\ w.clean \subseteq v.clean /\ w.begun \subseteq v.begun /\ w.clean \subseteq w.done
  BY <1>1, <1>2, <1>4 DEF Learns
<1>7. w.known \subseteq v.known
  BY <1>1, <1>2 DEF Exist
<1>8. \A r \in Tracked : w.obs[r] \subseteq v.obs[r] /\ (r \in w.done => v.obs[r] = w.obs[r])
  BY <1>1, <1>2 DEF Learns, Completed
<1> HIDE DEF w, v
<1>9. Grows(w, v)
  BY <1>5, <1>6, <1>7, <1>8 DEF Grows
<1> QED BY <1>9 DEF w, v

LEMMA TidyGrows ==
    ASSUME Types, WorldSound, Tidy, Exist
    PROVE  Grows(World, World')
<1>1. RequestTypes' BY TidyRequests
<1>2. Learns BY DEF Types, RequestTypes, Tidy, Learns
<1> QED BY <1>1, <1>2, LearntGrows

LEMMA NotedIsTidy ==
    ASSUME Types, NEW r, NEW e \in Event, e # "build_analysis_completed", NoteEvent(r, e)
    PROVE  /\ events' \in [Tracked -> SUBSET Event]
           /\ \A q \in Tracked : "build_analysis_completed" \in events'[q] <=> "build_analysis_completed" \in events[q]
BY DEF Types, RequestTypes, NoteEvent

LEMMA HistoryIsTidy ==
    ASSUME Types, NEW p, FinishedHistory(p)
    PROVE  /\ events' \in [Tracked -> SUBSET Event]
           /\ \A q \in Tracked : "build_analysis_completed" \in events'[q] <=> "build_analysis_completed" \in events[q]
<1>1. CASE p.phase = "finalized"
  <2>1. NoteEvent(p.of, "issues_reconciled") BY <1>1 DEF FinishedHistory
  <2>2. "issues_reconciled" \in Event /\ "issues_reconciled" # "build_analysis_completed" BY DEF Event
  <2> QED BY <2>1, <2>2, NotedIsTidy
<1>2. CASE p.phase # "finalized"
  BY <1>2 DEF FinishedHistory, Types, RequestTypes
<1> QED BY <1>1, <1>2

-----------------------------------------------------------------------------
(* What keeps the invariant: four kinds of step.                            *)

StoresRow == [p : ProgressRow, iss : [Issue -> IssueRow], sum : [Issue -> SummaryRow],
              row : [Issue -> 0 .. MaxTracked]]

\* What an earlier state knew of the stores holds of later ones.
Stands(s, t) == \A b \in Actor, me \in ActorRow, w \in WorldRow :
                   Own(w, b, me) /\ Kept(s, me) => Kept(t, me)

LEMMA StoresTyped ==
    ASSUME StoreTypes
    PROVE  /\ Stores \in StoresRow /\ Stores.p = progress /\ Stores.iss = issue
           /\ Stores.sum = issueSummary /\ Stores.row = openIssue
BY DEF StoreTypes, Stores, StoresRow

LEMMA WorldTyped == ASSUME Types PROVE World \in WorldRow
BY DEF Types, RequestTypes, World, WorldRow

LEMMA GrownStores ==
    ASSUME NEW w, NEW v, Grows(w, v), NEW s \in StoresRow, StoresSound(w, s)
    PROVE  StoresSound(v, s)
<1>1. PassSound(v, s.p) BY GrownPass DEF StoresSound, StoresRow
<1>2. ASSUME NEW i \in Issue PROVE IssueSound(v, s, i)
  BY GrownRow, GrownSummary DEF StoresSound, IssueSound
<1> QED BY <1>1, <1>2 DEF StoresSound

\* A step that touches neither the tracker nor its stores.
LEMMA AsideKeeps ==
    ASSUME IInv, RequestTypes', WorldSound', Grows(World, World'),
           UNCHANGED <<progress, issue, issueSummary, openIssue, actor>>
    PROVE  IInv'
<1>1. Stores' = Stores BY DEF Stores
<1>2. Types' BY DEF IInv, Types, StoreTypes
<1>3. StoresSound(World', Stores')
  BY <1>1, GrownStores, StoresTyped DEF IInv, Types
<1>4. ASSUME NEW a \in Actor
      PROVE  Own(World', a, actor'[a]) /\ Kept(Stores', actor'[a])
  <2>1. actor[a] \in ActorRow /\ Own(World, a, actor[a]) /\ Kept(Stores, actor[a])
    BY DEF IInv, Types
  <2> QED BY <1>1, <2>1, GrownOwn
<1>5. \A a, b \in Actor : Apart(actor'[a], actor'[b])
  BY DEF IInv
<1> QED BY <1>2, <1>3, <1>4, <1>5 DEF IInv

\* A handler goes on, and at most the read models change.
LEMMA MoveKeeps ==
    ASSUME IInv, Tidy, UNCHANGED <<progress, issue>>, StoreTypes',
           StoresSound(World, Stores'), Stands(Stores, Stores'),
           NEW a \in Actor, NEW n \in ActorRow, actor' = [actor EXCEPT ![a] = n],
           Own(World, a, n), Kept(Stores', n), ~Writer(n),
           n.current /\ Written(n) => \A b \in Actor : b # a => ~Writer(actor[b])
    PROVE  IInv'
<1>1. RequestTypes' /\ WorldSound' BY TidyRequests DEF IInv
<1>2. Grows(World, World') BY TidyGrows DEF IInv, Exist
<1>3. actor \in [Actor -> ActorRow] BY DEF IInv, Types
<1>4. Types' BY <1>1, <1>3 DEF Types
<1>5. StoresSound(World', Stores')
  <2>1. Stores' \in StoresRow BY DEF StoreTypes, Stores, StoresRow
  <2> QED BY <1>2, <2>1, GrownStores
<1>6. ASSUME NEW b \in Actor
      PROVE  Own(World', b, actor'[b]) /\ Kept(Stores', actor'[b])
  <2>1. CASE b = a BY <1>2, <1>3, <2>1, GrownOwn
  <2>2. CASE b # a
    <3>1. actor[b] \in ActorRow /\ Own(World, b, actor[b]) /\ Kept(Stores, actor[b]) /\ actor'[b] = actor[b]
      BY <1>3, <2>2 DEF IInv
    <3>2. World \in WorldRow BY WorldTyped DEF IInv
    <3>3. Kept(Stores', actor[b]) BY <3>1, <3>2 DEF Stands
    <3> QED BY <1>2, <3>1, <3>3, GrownOwn
  <2> QED BY <2>1, <2>2
<1>7. \A b, c \in Actor : Apart(actor'[b], actor'[c])
  <2> SUFFICES ASSUME NEW b \in Actor, NEW c \in Actor PROVE Apart(actor'[b], actor'[c])
    OBVIOUS
  <2>1. Apart(actor[b], actor[c]) BY DEF IInv
  <2>2. CASE b = a BY <1>3, <2>2 DEF Apart
  <2>3. CASE b # a /\ c = a BY <1>3, <2>3 DEF Apart
  <2>4. CASE b # a /\ c # a BY <1>3, <2>1, <2>4
  <2> QED BY <2>2, <2>3, <2>4
<1> QED BY <1>1, <1>4, <1>5, <1>6, <1>7 DEF IInv

\* The same, with the stores as they are.
LEMMA GoOnKeeps ==
    ASSUME IInv, Tidy, UNCHANGED <<progress, issue, issueSummary, openIssue>>,
           NEW a \in Actor, NEW n \in ActorRow, actor' = [actor EXCEPT ![a] = n],
           Own(World, a, n), Kept(Stores, n), ~Writer(n),
           n.current /\ Written(n) => \A b \in Actor : b # a => ~Writer(actor[b])
    PROVE  IInv'
<1>1. Stores' = Stores BY DEF Stores
<1>2. StoreTypes' /\ StoresSound(World, Stores') /\ Stands(Stores, Stores')
  BY <1>1 DEF IInv, Types, StoreTypes, Stands
<1> QED BY <1>1, <1>2, MoveKeeps

LEMMA RestIsSound ==
    ASSUME NEW w, NEW a, NEW s
    PROVE  Own(w, a, AtRest) /\ Kept(s, AtRest) /\ ~Writer(AtRest) /\ ~AtRest.current
<1>1. /\ AtRest.at = "idle" /\ AtRest.pass = NoProgress /\ AtRest.back = "none" /\ ~AtRest.current
      /\ ~AtRest.fresh
  BY DEF AtRest
<1>2. Own(w, a, AtRest)
  BY <1>1 DEF Own, PassSound, Tracks, Recovers, Logging, PageSound
<1>3. Kept(s, AtRest)
  BY <1>1 DEF Kept, CopySound, HoldSound, WriteSound, Writer
<1> QED BY <1>1, <1>2, <1>3 DEF Writer

\* A handler gives up, or is done.
LEMMA RestKeeps ==
    ASSUME IInv, Tidy, UNCHANGED <<progress, issue, issueSummary, openIssue>>,
           NEW a \in Actor, Goto(a, AtRest)
    PROVE  IInv'
<1>1. AtRest \in ActorRow BY RestTypes
<1>2. /\ Own(World, a, AtRest) /\ Kept(Stores, AtRest) /\ ~Writer(AtRest) /\ ~AtRest.current
  BY RestIsSound
<1> QED BY <1>1, <1>2, GoOnKeeps DEF Goto

\* A handler whose copies have become stale, and that does not know.
Dimmed(me, n) ==
    /\ n.at = me.at /\ n.of = me.of /\ n.pass = me.pass /\ n.key = me.key /\ n.reported = me.reported
    /\ n.issue = me.issue /\ n.keys = me.keys /\ n.room = me.room /\ n.back = me.back
    /\ n.then = me.then /\ n.entry = me.entry /\ n.row = me.row /\ n.shown = me.shown
    /\ n.current => me.current
    /\ n.fresh => me.fresh

LEMMA DimmedOwn ==
    ASSUME NEW w, NEW a, NEW me, NEW n, Dimmed(me, n), Own(w, a, me)
    PROVE  Own(w, a, n)
BY DEF Dimmed, Own, Tracks, Recovers, PageSound, ReportSound, Here

LEMMA DimmedApart ==
    ASSUME NEW me, NEW n, NEW other, NEW o, Dimmed(me, n), Dimmed(other, o), Apart(me, other)
    PROVE  Apart(n, o)
BY DEF Dimmed, Apart, Writer, Written, Passed

LEMMA LostPass ==
    ASSUME NEW me \in ActorRow
    PROVE  LET n == [me EXCEPT !.current = FALSE]
           IN  n \in ActorRow /\ Dimmed(me, n) /\ ~n.current /\ n.fresh = me.fresh
BY DEF ActorRow, Dimmed

LEMMA LostCopy ==
    ASSUME NEW me \in ActorRow, NEW i
    PROVE  LET n == [me EXCEPT !.fresh = @ /\ me.key # i]
           IN  /\ n \in ActorRow /\ Dimmed(me, n) /\ n.current = me.current
               /\ n.fresh <=> me.fresh /\ me.key # i
BY DEF ActorRow, Dimmed

\* The stores after the tracking row is written.
Saved(row) == [p |-> row, iss |-> issue, sum |-> issueSummary, row |-> openIssue]

\* The row is of the same pass, still at this key; or there is nothing to lose.
SameKey(row) == /\ row.of = progress.of /\ row.cursor = progress.cursor
                /\ row.phase \in {progress.phase, "abandoning"} /\ progress.phase \in Active
AllSettled == \A i \in Issue : Settled(Stores, i)

\* A handler saves the tracking row.
LEMMA SaveKeeps ==
    ASSUME IInv, Tidy, UNCHANGED <<issue, issueSummary, openIssue>>,
           NEW a \in Actor, NEW row \in ProgressRow, NEW next,
           LET n == [next EXCEPT !.pass = row, !.current = TRUE]
           IN  /\ n \in ActorRow /\ Own(World, a, n) /\ Kept(Saved(row), n)
               /\ Written(n) => \A b \in Actor : b # a => ~Writer(actor[b]),
           SaveProgress(a, row, next), PassSound(World, row), progress.of <= row.of,
           SameKey(row) \/ (AllSettled /\ \A b \in Actor : b # a => ~Writer(actor[b]))
    PROVE  IInv'
<1> DEFINE n == [next EXCEPT !.pass = row, !.current = TRUE]
           s == Saved(row)
<1>1. RequestTypes' /\ WorldSound' BY TidyRequests DEF IInv
<1>2. Grows(World, World') BY TidyGrows DEF IInv, Exist
<1>3. actor \in [Actor -> ActorRow] BY DEF IInv, Types
<1>4. /\ progress' = row
      /\ actor' = [b \in Actor |-> IF b = a THEN n ELSE [actor[b] EXCEPT !.current = FALSE]]
  BY DEF SaveProgress, WriteProgress
<1>5. n \in ActorRow /\ Own(World, a, n) /\ Kept(s, n)
  OBVIOUS
<1>6. \A b \in Actor : b # a => /\ actor'[b] \in ActorRow /\ Dimmed(actor[b], actor'[b])
                                /\ ~actor'[b].current /\ actor'[b].fresh = actor[b].fresh
  BY <1>3, <1>4, LostPass
<1>7. actor'[a] = n BY <1>4
<1>8. Types'
  <2>1. StoreTypes' BY <1>4 DEF IInv, Types, StoreTypes
  <2>2. actor' \in [Actor -> ActorRow] BY <1>4, <1>5, <1>6, <1>7
  <2> QED BY <1>1, <2>1, <2>2 DEF Types
<1>9. Stores' = s BY <1>4 DEF Stores, Saved
<1>10. s.p = row /\ s.iss = issue /\ s.sum = issueSummary /\ s.row = openIssue
  BY DEF Saved
<1>11. StoresSound(World', Stores')
  <2>1. ASSUME NEW i \in Issue PROVE IssueSound(World, s, i)
    <3>1. IssueSound(World, Stores, i) BY DEF IInv, StoresSound
    <3>2. issue[i].last <= row.of
      <4>1. issue[i].last \in Nat /\ progress.of \in Nat /\ row.of \in Nat
        BY DEF IInv, Types, StoreTypes, IssueRow, ProgressRow
      <4> QED BY <3>1, <4>1, StoresTyped DEF IssueSound, Stores
    <3>3. Settled(s, i) <=> Settled(Stores, i)
      BY <1>10 DEF Settled, Stores
    <3>4. Settled(s, i) \/ (row.phase \in Active /\ i = row.cursor /\ issue[i].last = row.of)
      BY <3>1, <3>3 DEF IssueSound, SameKey, AllSettled, Stores, Active
    <3> QED BY <1>10, <3>1, <3>2, <3>4 DEF IssueSound, Stores
  <2>2. StoresSound(World, s) BY <1>10, <2>1 DEF StoresSound
  <2>3. s \in StoresRow BY <1>8, <1>9 DEF Types, StoreTypes, Stores, StoresRow
  <2> QED BY <1>2, <1>9, <2>2, <2>3, GrownStores
<1>12. ASSUME NEW b \in Actor PROVE Own(World', b, actor'[b]) /\ Kept(Stores', actor'[b])
  <2>1. CASE b = a BY <1>2, <1>5, <1>7, <1>9, <2>1, GrownOwn
  <2>2. CASE b # a
    <3>1. Own(World, b, actor[b]) /\ Kept(Stores, actor[b]) BY DEF IInv
    <3>2. Own(World', b, actor'[b])
      BY <1>2, <1>6, <2>2, <3>1, DimmedOwn, GrownOwn
    <3>3. CopySound(s, actor'[b])
      BY <1>6, <1>10, <2>2, <3>1 DEF Kept, CopySound, Dimmed, Stores
    <3>4. HoldSound(s, actor'[b])
      BY <1>6, <2>2 DEF HoldSound
    <3>5. WriteSound(s, actor'[b])
      BY <1>6, <1>10, <2>2, <3>1 DEF Kept, WriteSound, Writer, Dimmed, SameKey, Stores, Active
    <3> QED BY <1>9, <3>2, <3>3, <3>4, <3>5 DEF Kept
  <2> QED BY <2>1, <2>2
<1>13. \A b, c \in Actor : Apart(actor'[b], actor'[c])
  <2> SUFFICES ASSUME NEW b \in Actor, NEW c \in Actor PROVE Apart(actor'[b], actor'[c])
    OBVIOUS
  <2>1. CASE c # a BY <1>6, <2>1 DEF Apart
  <2>2. CASE c = a /\ b = a BY <2>2 DEF Apart, Writer, Written, Passed, Logging
  <2>3. CASE c = a /\ b # a
    BY <1>6, <1>7, <2>3 DEF Apart, Writer, Dimmed
  <2> QED BY <2>1, <2>2, <2>3
<1> QED BY <1>1, <1>8, <1>11, <1>12, <1>13 DEF IInv

\* The stores after an issue is written.
IssueSaved(i, row) == [p |-> progress, iss |-> [issue EXCEPT ![i] = row], sum |-> issueSummary, row |-> openIssue]

LEMMA FollowsOn ==
    ASSUME NEW row \in IssueRow, NEW mid \in IssueRow, NEW old \in IssueRow,
           Follows(row, mid), Follows(mid, old)
    PROVE  Follows(row, old)
<1>1. SummaryOf(row) = SummaryOf(mid) => row.changed = mid.changed BY DEF SummaryOf
<1>2. SummaryOf(mid) = SummaryOf(old) => mid.changed = old.changed BY DEF SummaryOf
<1>3. /\ row.last \in Nat /\ mid.last \in Nat /\ old.last \in Nat
      /\ row.changed \in Nat /\ mid.changed \in Nat /\ old.changed \in Nat
  BY DEF IssueRow
<1> QED BY <1>1, <1>2, <1>3 DEF Follows

\* A handler writes the issue it holds a current copy of.
LEMMA WriteKeeps ==
    ASSUME IInv, Tidy, UNCHANGED <<progress, issueSummary, openIssue>>,
           NEW a \in Actor, NEW i \in Issue, NEW row \in IssueRow, NEW n \in ActorRow,
           WriteIssue(a, i, row, n), Writer(actor[a]), actor[a].key = i,
           row # NoIssue, RowSound(World, i, row), row = issue[i] \/ row.last = progress.of,
           Follows(row, issue[i]), row.last <= progress.of,
           Own(World, a, n), Kept(IssueSaved(i, row), n), ~Writer(n)
    PROVE  IInv'
<1> DEFINE s == IssueSaved(i, row)
<1>1. RequestTypes' /\ WorldSound' BY TidyRequests DEF IInv
<1>2. /\ actor \in [Actor -> ActorRow] /\ issue \in [Issue -> IssueRow]
      /\ progress \in ProgressRow /\ issueSummary \in [Issue -> SummaryRow]
  BY DEF IInv, Types, StoreTypes
<1>3. /\ issue' = [issue EXCEPT ![i] = row]
      /\ actor' = [b \in Actor |-> IF b = a THEN n ELSE [actor[b] EXCEPT !.fresh = @ /\ actor[b].key # i]]
  BY DEF WriteIssue
<1>4. Grows(World, World')
  BY <1>2, <1>3, TidyGrows DEF IInv, Exist
<1>5. actor'[a] = n BY <1>3
<1>6. \A b \in Actor : b # a => /\ actor'[b] \in ActorRow /\ Dimmed(actor[b], actor'[b])
                                /\ actor'[b].current = actor[b].current
                                /\ actor'[b].fresh <=> actor[b].fresh /\ actor[b].key # i
  <2> SUFFICES ASSUME NEW b \in Actor, b # a
               PROVE  /\ actor'[b] \in ActorRow /\ Dimmed(actor[b], actor'[b])
                      /\ actor'[b].current = actor[b].current
                      /\ actor'[b].fresh <=> actor[b].fresh /\ actor[b].key # i
    OBVIOUS
  <2>1. actor'[b] = [actor[b] EXCEPT !.fresh = @ /\ actor[b].key # i] BY <1>3
  <2>2. actor[b] \in ActorRow BY <1>2
  <2> HIDE <1>3
  <2> QED BY <2>1, <2>2, LostCopy
<1>7. Types'
  <2>1. StoreTypes' BY <1>2, <1>3 DEF IInv, Types, StoreTypes
  <2>2. actor' \in [Actor -> ActorRow] BY <1>3, <1>5, <1>6
  <2> QED BY <1>1, <2>1, <2>2 DEF Types
<1>8. Stores' = s BY <1>3 DEF Stores, IssueSaved
<1>9. /\ s.p = progress /\ s.iss = [issue EXCEPT ![i] = row] /\ s.sum = issueSummary /\ s.row = openIssue
      /\ s.iss[i] = row /\ \A j \in Issue : j # i => s.iss[j] = issue[j]
  BY <1>2 DEF IssueSaved
<1>10. /\ Stores.p = progress /\ Stores.iss = issue /\ Stores.sum = issueSummary /\ Stores.row = openIssue
  BY DEF Stores
<1>11. actor[a].pass.of = progress.of /\ i = progress.cursor /\ progress.phase \in Active
  BY <1>10 DEF IInv, Kept, WriteSound
<1>12. issue[i].last \in Nat /\ issue[i].changed \in Nat /\ row.last \in Nat /\ row.changed \in Nat
       /\ progress.of \in Nat
  BY <1>2 DEF IssueRow, ProgressRow
<1>13. StoresSound(World', Stores')
  <2>1. ASSUME NEW j \in Issue PROVE IssueSound(World, s, j)
    <3>1. IssueSound(World, Stores, j) BY DEF IInv, StoresSound
    <3>2. CASE j # i BY <1>9, <1>10, <3>1, <3>2 DEF IssueSound, Settled
    <3>3. CASE j = i
      <4>1. s.sum[i] = SummaryOf(row) \/ s.sum[i].of < row.changed
        <5>1. issueSummary[i] = SummaryOf(issue[i]) \/ issueSummary[i].of < issue[i].changed
          BY <1>10, <3>1, <3>3 DEF IssueSound
        <5>2. issueSummary[i].of \in Nat BY <1>2 DEF SummaryRow
        <5>3. SummaryOf(issue[i]).of = issue[i].changed BY DEF SummaryOf
        <5>4. SummaryOf(row) = SummaryOf(issue[i]) => row.changed = issue[i].changed BY DEF SummaryOf
        <5> QED BY <1>9, <1>12, <5>1, <5>2, <5>3, <5>4 DEF Follows
      <4>2. Settled(s, i) \/ (progress.phase \in Active /\ i = progress.cursor /\ row.last = progress.of)
        <5>1. CASE row = issue[i]
          <6>1. Settled(s, i) <=> Settled(Stores, i) BY <1>9, <1>10, <5>1 DEF Settled
          <6> QED BY <1>10, <3>1, <3>3, <5>1, <6>1 DEF IssueSound
        <5>2. CASE row.last = progress.of BY <1>11, <5>2
        <5> QED BY <5>1, <5>2
      <4> QED BY <1>9, <1>10, <3>1, <3>3, <4>1, <4>2 DEF IssueSound
    <3> QED BY <3>2, <3>3
  <2>2. PassSound(World, progress) BY <1>10 DEF IInv, StoresSound
  <2>3. StoresSound(World, s) BY <1>9, <2>1, <2>2 DEF StoresSound
  <2>4. s \in StoresRow BY <1>7, <1>8 DEF Types, StoreTypes, Stores, StoresRow
  <2> QED BY <1>4, <1>8, <2>3, <2>4, GrownStores
<1>14. ASSUME NEW b \in Actor PROVE Own(World', b, actor'[b]) /\ Kept(Stores', actor'[b])
  <2>1. CASE b = a BY <1>4, <1>5, <1>8, <2>1, GrownOwn
  <2>2. CASE b # a
    <3>1. /\ Own(World, b, actor[b]) /\ Kept(Stores, actor[b]) /\ Apart(actor[a], actor[b])
          /\ actor[b] \in ActorRow
      BY <1>2 DEF IInv
    <3>2. Own(World', b, actor'[b])
      BY <1>4, <1>6, <2>2, <3>1, DimmedOwn, GrownOwn
    <3>3. CopySound(s, actor'[b])
      <4> DEFINE me == actor[b]
      <4>1. CopySound(Stores, me) BY <3>1 DEF Kept
      <4>2. me.issue.last \in Nat /\ me.entry.changed \in Nat
        BY <3>1 DEF ActorRow, IssueRow
      <4>3. ASSUME me.at \in {"key", "write", "guard", "refence"}
            PROVE  /\ Follows(s.iss[me.key], actor'[b].issue)
                   /\ actor'[b].fresh => actor'[b].issue = s.iss[me.key]
        <5>1. me.key \in Issue BY <3>1, <4>3 DEF Own
        <5>2. Follows(issue[me.key], me.issue) /\ (me.fresh => me.issue = issue[me.key])
          BY <1>10, <4>1, <4>3 DEF CopySound
        <5>3. actor'[b].issue = me.issue BY <1>6, <2>2 DEF Dimmed
        <5>4. CASE me.key # i BY <1>6, <1>9, <2>2, <5>1, <5>2, <5>3, <5>4
        <5>5. CASE me.key = i
          <6>1. ~actor'[b].fresh BY <1>6, <2>2, <5>5
          <6>2. Follows(row, me.issue)
            <7>1. me.issue \in IssueRow /\ issue[i] \in IssueRow BY <1>2, <3>1 DEF ActorRow
            <7> QED BY <5>2, <5>5, <7>1, FollowsOn
          <6> QED BY <1>9, <5>3, <5>5, <6>1, <6>2
        <5> QED BY <5>4, <5>5
      <4>4. ASSUME me.at = "log"
            PROVE  \/ SummaryOf(me.entry) = SummaryOf(s.iss[me.key])
                   \/ me.entry.changed < s.iss[me.key].changed
        <5>1. me.key \in Issue BY <3>1, <4>4 DEF Own, Logging
        <5>2. \/ SummaryOf(me.entry) = SummaryOf(issue[me.key])
              \/ me.entry.changed < issue[me.key].changed
          BY <1>10, <4>1, <4>4 DEF CopySound
        <5>3. SummaryOf(me.entry) = SummaryOf(issue[me.key]) => me.entry.changed = issue[me.key].changed
          BY DEF SummaryOf
        <5>4. CASE me.key # i BY <1>9, <5>1, <5>2, <5>4
        <5>5. CASE me.key = i BY <1>9, <1>12, <4>2, <5>2, <5>3, <5>5 DEF Follows, SummaryOf
        <5> QED BY <5>4, <5>5
      <4> QED BY <1>6, <1>9, <1>10, <2>2, <4>1, <4>3, <4>4 DEF CopySound, Dimmed
    <3>4. HoldSound(s, actor'[b])
      <4>1. actor[b].current => ~Written(actor[b]) BY <3>1 DEF Apart
      <4>2. HoldSound(Stores, actor[b]) BY <3>1 DEF Kept
      <4> QED BY <1>6, <1>9, <1>10, <2>2, <4>1, <4>2 DEF HoldSound, Dimmed, Written, Passed, Logging
    <3>5. WriteSound(s, actor'[b])
      BY <1>6, <1>9, <1>10, <2>2, <3>1 DEF Kept, WriteSound, Writer, Dimmed
    <3> QED BY <1>8, <3>2, <3>3, <3>4, <3>5 DEF Kept
  <2> QED BY <2>1, <2>2
<1>15. \A b, c \in Actor : Apart(actor'[b], actor'[c])
  <2> SUFFICES ASSUME NEW b \in Actor, NEW c \in Actor PROVE Apart(actor'[b], actor'[c])
    OBVIOUS
  <2>1. CASE b = a BY <1>5, <2>1 DEF Apart
  <2>2. CASE b # a
    <3>1. ~Writer(actor'[b])
      <4> SUFFICES ASSUME Writer(actor'[b]) PROVE FALSE
        OBVIOUS
      <4>1. Writer(actor[b]) /\ actor[b].key # i
        BY <1>6, <2>2 DEF Writer, Dimmed
      <4>2. actor[b].key = progress.cursor
        BY <1>10, <4>1 DEF IInv, Kept, WriteSound
      <4> QED BY <1>11, <4>1, <4>2
    <3> QED BY <3>1 DEF Apart
  <2> QED BY <2>1, <2>2
<1> QED BY <1>1, <1>7, <1>13, <1>14, <1>15 DEF IInv

-----------------------------------------------------------------------------
(* The read models.                                                         *)

\* A summary is replaced by that of a later change, up to the last one.
LEMMA SummaryStands ==
    ASSUME NEW s \in StoresRow, NEW t \in StoresRow, NEW i \in Issue, NEW new \in SummaryRow,
           t.p = s.p, t.iss = s.iss, t.row = s.row, t.sum = [s.sum EXCEPT ![i] = new],
           new = SummaryOf(s.iss[i]) \/ new.of < s.iss[i].changed,
           s.sum[i].of < new.of,
           NEW v, StoresSound(v, s), SummarySound(v, i, new)
    PROVE  Stands(s, t) /\ StoresSound(v, t)
<1>1. /\ t.sum[i] = new /\ \A j \in Issue : j # i => t.sum[j] = s.sum[j]
      /\ s.sum[i].of \in Nat /\ new.of \in Nat /\ s.iss[i].changed \in Nat
      /\ s.row[i] \in Nat
  BY DEF StoresRow, SummaryRow, IssueRow
<1>2. s.sum[i] # SummaryOf(s.iss[i])
  <2>1. SummaryOf(s.iss[i]).of = s.iss[i].changed BY DEF SummaryOf
  <2> QED BY <1>1, <2>1
<1>3. \A j \in Issue : Settled(s, j) => Settled(t, j)
  BY <1>1, <1>2 DEF Settled
<1>4. ASSUME NEW b \in Actor, NEW me \in ActorRow, NEW w \in WorldRow, Own(w, b, me), Kept(s, me)
      PROVE  Kept(t, me)
  <2>1. CopySound(t, me)
    <3>1. CopySound(s, me) BY <1>4 DEF Kept
    <3>2. me.at \in {"shown", "open"} => me.key \in Issue BY <1>4 DEF Own, Logging
    <3>3. me.row \in Nat /\ me.shown.of \in Nat BY DEF ActorRow, SummaryRow
    <3>4. ASSUME me.at \in {"shown", "open"}, me.row # 0
          PROVE  /\ me.row <= t.sum[me.key].of
                 /\ me.row = t.sum[me.key].of /\ t.sum[me.key].status = "open" => t.row[me.key] = me.row
      <4>1. /\ me.row <= s.sum[me.key].of
            /\ me.row = s.sum[me.key].of /\ s.sum[me.key].status = "open" => s.row[me.key] = me.row
        BY <3>1, <3>4 DEF CopySound
      <4>2. CASE me.key = i BY <1>1, <3>3, <4>1, <4>2
      <4>3. CASE me.key # i BY <1>1, <3>2, <3>4, <4>1, <4>3
      <4> QED BY <4>2, <4>3
    <3>5. ASSUME me.at = "open"
          PROVE  me.shown = t.sum[me.key] \/ me.shown.of < t.sum[me.key].of
      <4>1. me.shown = s.sum[me.key] \/ me.shown.of < s.sum[me.key].of
        BY <3>1, <3>5 DEF CopySound
      <4>2. CASE me.key = i BY <1>1, <3>3, <4>1, <4>2
      <4>3. CASE me.key # i BY <1>1, <3>2, <3>5, <4>1, <4>3
      <4> QED BY <4>2, <4>3
    <3> QED BY <3>1, <3>4, <3>5 DEF CopySound
  <2>2. HoldSound(t, me)
    <3>1. HoldSound(s, me) BY <1>4 DEF Kept
    <3>2. me.at \in {"row", "shown", "open"} => me.key \in Issue BY <1>4 DEF Own, Logging
    <3>3. me.at \in {"row", "shown", "open"} /\ s.sum[me.key] = SummaryOf(s.iss[me.key]) =>
             t.sum[me.key] = s.sum[me.key]
      BY <1>1, <1>2, <3>2
    <3> QED BY <1>3, <3>1, <3>3 DEF HoldSound
  <2>3. WriteSound(t, me) BY <1>4 DEF Kept, WriteSound
  <2> QED BY <2>1, <2>2, <2>3 DEF Kept
<1>5. StoresSound(v, t)
  <2>1. ASSUME NEW j \in Issue PROVE IssueSound(v, t, j)
    <3>1. IssueSound(v, s, j) BY DEF StoresSound
    <3>2. CASE j # i BY <1>1, <1>3, <3>1, <3>2 DEF IssueSound
    <3>3. CASE j = i BY <1>1, <1>3, <3>1, <3>3 DEF IssueSound
    <3> QED BY <3>2, <3>3
  <2> QED BY <2>1 DEF StoresSound
<1> QED BY <1>4, <1>5 DEF Stands

\* An open row is replaced where the summary does not show its opening.
LEMMA OpenRowStands ==
    ASSUME NEW s \in StoresRow, NEW t \in StoresRow, NEW i \in Issue, NEW first \in 0 .. MaxTracked,
           t.p = s.p, t.iss = s.iss, t.sum = s.sum, t.row = [s.row EXCEPT ![i] = first],
           first <= s.sum[i].of,
           s.sum[i].status = "open" => s.row[i] # s.sum[i].of,
           NEW v, StoresSound(v, s)
    PROVE  Stands(s, t) /\ StoresSound(v, t)
<1>1. t.row[i] = first /\ \A j \in Issue : j # i => t.row[j] = s.row[j]
  BY DEF StoresRow
<1>2. StoresSound(v, t) /\ \A j \in Issue : Settled(s, j) => Settled(t, j)
  <2>1. ASSUME NEW j \in Issue PROVE Settled(s, j) => Settled(t, j)
    <3>1. CASE j # i BY <1>1, <3>1 DEF Settled
    <3>2. CASE j = i
      <4>1. RowSound(v, i, s.iss[i]) BY DEF StoresSound, IssueSound
      <4>2. s.iss[i].status = "open" => s.iss[i].first = s.iss[i].changed
        BY <4>1 DEF RowSound, NoIssue
      <4> QED BY <1>1, <3>2, <4>2 DEF Settled, SummaryOf
    <3> QED BY <3>1, <3>2
  <2>2. ASSUME NEW j \in Issue PROVE IssueSound(v, t, j)
    <3>1. IssueSound(v, s, j) BY DEF StoresSound
    <3>2. t.row[j] <= t.sum[j].of BY <1>1, <3>1 DEF IssueSound
    <3> QED BY <2>1, <3>1, <3>2 DEF IssueSound
  <2> QED BY <2>1, <2>2 DEF StoresSound
<1>3. ASSUME NEW b \in Actor, NEW me \in ActorRow, NEW w \in WorldRow, Own(w, b, me), Kept(s, me)
      PROVE  Kept(t, me)
  <2>1. CopySound(t, me)
    <3>1. CopySound(s, me) BY <1>3 DEF Kept
    <3>2. me.at \in {"shown", "open"} => me.key \in Issue BY <1>3 DEF Own, Logging
    <3> QED BY <1>1, <3>1, <3>2 DEF CopySound
  <2>2. HoldSound(t, me) BY <1>2, <1>3 DEF Kept, HoldSound
  <2>3. WriteSound(t, me) BY <1>3 DEF Kept, WriteSound
  <2> QED BY <2>1, <2>2, <2>3 DEF Kept
<1> QED BY <1>2, <1>3 DEF Stands

-----------------------------------------------------------------------------
(* The validation pipeline, the analysis and the repairs.                   *)

\* What they leave alone.
Elsewhere == UNCHANGED <<progress, issue, issueSummary, openIssue, actor>>

LEMMA ElsewhereKeeps ==
    ASSUME IInv, RequestTypes', WorldSound', Learns, Elsewhere
    PROVE  IInv'
<1>1. Grows(World, World') BY LearntGrows DEF IInv, Elsewhere, Exist
<1> QED BY <1>1, AsideKeeps DEF Elsewhere

LEMMA PipelineKeeps ==
    ASSUME IInv, NEW r \in Tracked, Validate(r) \/ EndWithoutBuild(r)
    PROVE  IInv'
<1> USE DEF pipeline, fixes, readModels
<1>1. Types /\ RequestTypes /\ WorldSound BY DEF IInv, Types
<1>2. RequestTypes'
  <2>1. CASE Register(r) BY <1>1, <2>1 DEF Register, RequestTypes
  <2>2. CASE StartBuild(r) BY <1>1, <2>2 DEF StartBuild, RequestTypes
  <2>3. CASE EndBuild(r)
    <3>1. scenario.ends \subseteq {"passed", "cancelled"}
      BY <1>1, TrackingAssumption DEF RequestTypes
    <3> QED BY <1>1, <2>3, <3>1 DEF EndBuild, RequestTypes
  <2>4. CASE EndValidation(r) BY <1>1, <2>4 DEF EndValidation, RequestTypes
  <2>5. CASE EndWithoutBuild(r) BY <1>1, <2>5 DEF EndWithoutBuild, RequestTypes
  <2> QED BY <2>1, <2>2, <2>3, <2>4, <2>5 DEF Validate
<1>3. /\ UNCHANGED <<scenario, observed, events>> /\ Elsewhere
  BY DEF Validate, Register, StartBuild, EndBuild, EndValidation, EndWithoutBuild, Elsewhere
<1>4. /\ \A q \in Tracked : verdict[q] # "none" => verdict'[q] # "none"
      /\ \A q \in Tracked : Completed(q) =>
            verdict'[q] = verdict[q] /\ validation'[q] = validation[q] /\ analyst'[q] = analyst[q]
      /\ \A q \in Tracked : analyst'[q] # "none" => analyst[q] # "none" \/ verdict'[q] # "none"
  <2>1. \A q \in Tracked : Completed(q) => validation[q] = "ended" /\ verdict[q] # "running"
    BY <1>1 DEF WorldSound, Ended
  <2>2. CASE Register(r) BY <1>1, <2>1, <2>2 DEF Register, RequestTypes
  <2>3. CASE StartBuild(r) BY <1>1, <2>1, <2>3 DEF StartBuild, RequestTypes
  <2>4. CASE EndBuild(r)
    <3>1. scenario.ends \subseteq {"passed", "cancelled"}
      BY <1>1, TrackingAssumption DEF RequestTypes
    <3> QED BY <1>1, <2>1, <2>4, <3>1 DEF EndBuild, RequestTypes
  <2>5. CASE EndValidation(r) BY <1>1, <2>1, <2>5 DEF EndValidation, RequestTypes
  <2>6. CASE EndWithoutBuild(r) BY <1>1, <2>1, <2>6 DEF EndWithoutBuild, RequestTypes
  <2> QED BY <2>2, <2>3, <2>4, <2>5, <2>6 DEF Validate
<1>5. WorldSound'
  BY <1>1, <1>3, <1>4 DEF WorldSound, Completed, Ended
<1>6. Learns
  BY <1>3, <1>4 DEF Learns, Completed
<1> QED BY <1>2, <1>3, <1>5, <1>6, ElsewhereKeeps

LEMMA AnalysisKeeps ==
    ASSUME IInv, NEW r \in Tracked, Analyse(r) \/ AbandonAnalysis(r)
    PROVE  IInv'
<1> USE DEF pipeline, fixes, readModels
<1>1. Types /\ RequestTypes /\ WorldSound BY DEF IInv, Types
<1>2. /\ UNCHANGED <<scenario, validation, verdict, mail>> /\ Elsewhere
      /\ analyst[r] = "ready" /\ \E x \in {"ready", "gone"} : analyst' = [analyst EXCEPT ![r] = x]
  BY DEF Analyse, AbandonAnalysis, Elsewhere
<1>3. ~Completed(r) BY <1>1, <1>2 DEF WorldSound
<1>4. scenario.finds[r] \subseteq Issue
  BY <1>1, TrackingAssumption DEF RequestTypes
<1>5. PICK found \in SUBSET scenario.finds[r] : observed' = [observed EXCEPT ![r] = @ \cup found]
  <2>1. CASE Analyse(r) BY <2>1 DEF Analyse, CreateBuildIssue
  <2>2. CASE AbandonAnalysis(r)
    <3>1. observed' = [observed EXCEPT ![r] = @ \cup {}]
      BY <1>1, <2>2 DEF AbandonAnalysis, RequestTypes
    <3> QED BY <3>1
  <2> QED BY <2>1, <2>2
<1>6. PICK new \in SUBSET Event :
         /\ events' = [events EXCEPT ![r] = @ \cup new]
         /\ "build_analysis_completed" \in new =>
               /\ Ended(verdict[r]) /\ validation[r] = "ended" /\ analyst'[r] = "gone"
               /\ observed'[r] = scenario.finds[r]
  <2>1. CASE Analyse(r)
    <3>1. CASE Ended(verdict[r]) /\ validation[r] = "ended"
      <4>1. /\ NoteEvent(r, "build_analysis_completed") /\ analyst'[r] = "gone"
            /\ \E f \in SUBSET scenario.finds[r] : f = scenario.finds[r] /\ CreateBuildIssue(r, f)
        BY <1>1, <2>1, <3>1 DEF Analyse, RequestTypes
      <4>2. observed'[r] = observed[r] \cup scenario.finds[r] /\ observed[r] \subseteq scenario.finds[r]
        BY <1>1, <4>1 DEF CreateBuildIssue, RequestTypes, WorldSound
      <4>3. {"build_analysis_completed"} \in SUBSET Event BY DEF Event
      <4> QED BY <3>1, <4>1, <4>2, <4>3 DEF NoteEvent
    <3>2. CASE ~(Ended(verdict[r]) /\ validation[r] = "ended")
      <4>1. UNCHANGED events \/ NoteEvent(r, "build_analysis_abandoned")
        BY <2>1, <3>2 DEF Analyse
      <4>2. UNCHANGED events => events' = [events EXCEPT ![r] = @ \cup {}]
        BY <1>1 DEF RequestTypes
      <4>3. {"build_analysis_abandoned"} \in SUBSET Event /\ {} \in SUBSET Event BY DEF Event
      <4> QED BY <4>1, <4>2, <4>3 DEF NoteEvent
    <3> QED BY <3>1, <3>2
  <2>2. CASE AbandonAnalysis(r)
    <3>1. {"build_analysis_abandoned"} \in SUBSET Event BY DEF Event
    <3> QED BY <2>2, <3>1 DEF AbandonAnalysis, NoteEvent
  <2> QED BY <2>1, <2>2
<1>7. RequestTypes'
  <2>1. observed' \in [Tracked -> SUBSET Issue] BY <1>1, <1>4, <1>5 DEF RequestTypes
  <2>2. events' \in [Tracked -> SUBSET Event] BY <1>1, <1>6 DEF RequestTypes
  <2>3. analyst' \in [Tracked -> {"none", "ready", "gone"}]
    <3>1. PICK x \in {"ready", "gone"} : analyst' = [analyst EXCEPT ![r] = x] BY <1>2
    <3> QED BY <1>1, <3>1 DEF RequestTypes
  <2> QED BY <1>1, <1>2, <2>1, <2>2, <2>3 DEF RequestTypes
<1>8. \A q \in Tracked : q # r => /\ observed'[q] = observed[q] /\ events'[q] = events[q] /\ analyst'[q] = analyst[q]
  BY <1>1, <1>2, <1>5, <1>6 DEF RequestTypes
<1>9. /\ observed'[r] = observed[r] \cup found /\ events'[r] = events[r] \cup new
      /\ verdict[r] # "none"
  BY <1>1, <1>2, <1>5, <1>6 DEF RequestTypes, WorldSound
<1>10. WorldSound'
  <2> SUFFICES ASSUME NEW q \in Tracked
               PROVE  /\ observed'[q] \subseteq scenario'.finds[q]
                      /\ analyst'[q] # "none" => verdict'[q] # "none"
                      /\ observed'[q] # {} => verdict'[q] # "none"
                      /\ "build_analysis_completed" \in events'[q] =>
                            /\ analyst'[q] = "gone" /\ validation'[q] = "ended"
                            /\ observed'[q] = scenario'.finds[q] /\ Ended(verdict'[q])
    BY DEF WorldSound, Completed, Ended
  <2>1. CASE q # r BY <1>1, <1>2, <1>8, <2>1 DEF WorldSound, Completed
  <2>2. CASE q = r BY <1>1, <1>2, <1>3, <1>6, <1>9, <2>2 DEF WorldSound, Completed
  <2> QED BY <2>1, <2>2
<1>11. Learns
  BY <1>2, <1>3, <1>8, <1>9 DEF Learns, Completed
<1> QED BY <1>2, <1>7, <1>10, <1>11, ElsewhereKeeps

LEMMA TidyElsewhereKeeps ==
    ASSUME IInv, Tidy, Elsewhere
    PROVE  IInv'
<1>1. RequestTypes' /\ WorldSound' BY TidyRequests DEF IInv
<1>2. Grows(World, World') BY TidyGrows DEF IInv, Exist, Elsewhere
<1> QED BY <1>1, <1>2, AsideKeeps DEF Elsewhere

LEMMA RepairsKeep ==
    ASSUME IInv,
           \/ \E r \in Tracked : AbandonFix(r) \/ LoseTracking(r)
           \/ \E f \in Repairer : Fix(f) \/ ExpireRepairer(f)
    PROVE  IInv'
<1> USE DEF pipeline, fixes, readModels
<1>1. Types /\ RequestTypes BY DEF IInv, Types
<1>2. Elsewhere /\ UNCHANGED <<scenario, validation, verdict, observed, analyst>>
  BY DEF Fix, FindIssueToFix, AssociateFix, AbandonFix, ExpireRepairer, LoseTracking, Elsewhere
<1>3. mail' \in [Tracked -> {"none", "ready", "dead", "gone"}]
  BY <1>1 DEF Fix, FindIssueToFix, AssociateFix, AbandonFix, ExpireRepairer, LoseTracking, RequestTypes
<1>4. UNCHANGED events \/ \E e \in Event : e # "build_analysis_completed" /\ \E q : NoteEvent(q, e)
  <2>1. {"fix_submitted", "fix_submission_skipped", "fix_submission_abandoned"} \subseteq
           Event \ {"build_analysis_completed"}
    BY DEF Event
  <2>2. CASE \E f \in Repairer, r \in Tracked : FindIssueToFix(f, r) BY <2>1, <2>2 DEF FindIssueToFix
  <2>3. CASE \E f \in Repairer : AssociateFix(f) BY <2>1, <2>3 DEF AssociateFix
  <2>4. CASE \E r \in Tracked : AbandonFix(r) BY <2>1, <2>4 DEF AbandonFix
  <2>5. CASE (\E f \in Repairer : ExpireRepairer(f)) \/ \E r \in Tracked : LoseTracking(r)
    BY <2>5 DEF ExpireRepairer, LoseTracking
  <2> QED BY <2>2, <2>3, <2>4, <2>5 DEF Fix
<1>5. /\ events' \in [Tracked -> SUBSET Event]
      /\ \A q \in Tracked : "build_analysis_completed" \in events'[q] <=> "build_analysis_completed" \in events[q]
  <2>1. CASE UNCHANGED events BY <1>1, <2>1 DEF RequestTypes
  <2>2. CASE \E e \in Event : e # "build_analysis_completed" /\ \E q : NoteEvent(q, e)
    BY <1>1, <2>2, NotedIsTidy
  <2> QED BY <1>4, <2>1, <2>2
<1> QED BY <1>2, <1>3, <1>5, TidyElsewhereKeeps DEF Tidy

-----------------------------------------------------------------------------
(* trackRequest.                                                            *)

\* What is at hand of the handler a.
LEMMA AtHand ==
    ASSUME IInv, NEW a \in Actor
    PROVE  /\ actor[a] \in ActorRow /\ Own(World, a, actor[a]) /\ Kept(Stores, actor[a])
           /\ World \in WorldRow /\ Stores \in StoresRow
           /\ progress \in ProgressRow /\ issue \in [Issue -> IssueRow]
           /\ issueSummary \in [Issue -> SummaryRow] /\ openIssue \in [Issue -> 0 .. MaxTracked]
           /\ PassSound(World, progress) /\ \A i \in Issue : IssueSound(World, Stores, i)
           /\ Stores.p = progress /\ Stores.iss = issue /\ Stores.sum = issueSummary /\ Stores.row = openIssue
           /\ World.obs = observed
BY StoresTyped, WorldTyped DEF IInv, Types, StoreTypes, StoresSound, World

LEMMA StoresAtHand ==
    ASSUME IInv
    PROVE  /\ progress \in ProgressRow /\ issue \in [Issue -> IssueRow]
           /\ PassSound(World, progress) /\ \A i \in Issue : IssueSound(World, Stores, i)
           /\ Stores.p = progress /\ Stores.iss = issue /\ Stores.sum = issueSummary /\ Stores.row = openIssue
BY StoresTyped DEF IInv, Types, StoreTypes, StoresSound

LEMMA MailIsTidy ==
    ASSUME Types, NEW r, NEW state \in {"dead", "gone", "ready"},
           \/ UNCHANGED mail \/ mail' = [mail EXCEPT ![r] = state]
           \/ mail' = [mail EXCEPT ![r] = IF @ = "gone" THEN "gone" ELSE state],
           UNCHANGED <<scenario, validation, verdict, observed, analyst>>,
           /\ events' \in [Tracked -> SUBSET Event]
           /\ \A q \in Tracked : "build_analysis_completed" \in events'[q] <=> "build_analysis_completed" \in events[q]
    PROVE  Tidy
BY DEF Types, RequestTypes, Tidy

LEMMA TrackRequestKeeps ==
    ASSUME IInv, NEW a \in Actor \ {"recovery"}, NEW r \in Tracked, TrackRequest(a, r)
    PROVE  IInv'
<1> USE DEF pipeline, fixes, readModels
<1> DEFINE started == [AtRest EXCEPT !.at = "start", !.of = r, !.pass = progress, !.current = TRUE]
<1>1. Types BY DEF IInv
<1>2. /\ UNCHANGED <<scenario, validation, verdict, observed, analyst>>
      /\ UNCHANGED <<progress, issue, issueSummary, openIssue>>
      /\ FinishedHistory(progress)
  BY DEF TrackRequest
<1>3. Tidy
  <2>1. \E state \in {"gone", "ready", "dead"} : UNCHANGED mail \/ mail' = [mail EXCEPT ![r] = state]
    BY DEF TrackRequest
  <2> QED BY <1>1, <1>2, <2>1, HistoryIsTidy, MailIsTidy
<1>4. CASE Goto(a, AtRest)
  BY <1>2, <1>3, <1>4, RestKeeps
<1>5. CASE /\ Goto(a, started) /\ progress.phase # "abandoning" /\ progress.of <= r
  <2>1. started \in ActorRow
    BY RestTypes, Constants, AtHand DEF ActorRow, Place
  <2>2. /\ started.at = "start" /\ started.of = r /\ started.pass = progress /\ started.back = "none"
        /\ ~started.fresh
    BY DEF AtRest
  <2>3. PassSound(World, progress) BY AtHand
  <2>4. Own(World, a, started)
    BY <1>5, <2>2, <2>3 DEF Own, Tracks, Recovers, Logging, PageSound
  <2>5. Kept(Stores, started)
    BY <2>2, AtHand DEF Kept, CopySound, HoldSound, WriteSound, Writer, Passed, Logging
  <2>6. ~Writer(started) /\ ~Written(started)
    BY <2>2 DEF Writer, Written, Passed, Logging
  <2> QED BY <1>2, <1>3, <1>5, <2>1, <2>4, <2>5, <2>6, GoOnKeeps DEF Goto
<1>6. \/ Goto(a, AtRest)
      \/ Goto(a, started) /\ progress.phase # "abandoning" /\ progress.of <= r
  <2>1. progress.phase = "none" => progress = NoProgress
    BY AtHand DEF PassSound
  <2>2. progress.of \in Nat /\ r \in Nat /\ r >= 0 /\ NoProgress.of = 0
    BY AtHand, Constants DEF ProgressRow, NoProgress
  <2>3. \/ Goto(a, AtRest)
        \/ /\ Goto(a, started)
           /\ \/ progress.phase = "none"
              \/ r > progress.of /\ progress.phase \in {"finalized", "abandoned"}
              \/ r = progress.of /\ progress.phase # "abandoning"
    BY DEF TrackRequest
  <2> QED BY <2>1, <2>2, <2>3
<1> QED BY <1>4, <1>5, <1>6

LEMMA SettleIsTidy ==
    ASSUME IInv, NEW a \in Actor, NEW state \in {"dead", "gone"}, Settle(a, state),
           UNCHANGED <<scenario, validation, verdict, observed, analyst>>,
           UNCHANGED events \/ \E p : FinishedHistory(p)
    PROVE  Tidy
<1>1. Types BY DEF IInv
<1>2. /\ events' \in [Tracked -> SUBSET Event]
      /\ \A q \in Tracked : "build_analysis_completed" \in events'[q] <=> "build_analysis_completed" \in events[q]
  BY <1>1, HistoryIsTidy DEF Types, RequestTypes
<1> QED BY <1>1, <1>2, MailIsTidy DEF Settle

\* The parts of the tidy steps that leave the request log alone.
Quiet == UNCHANGED <<scenario, validation, verdict, observed, analyst, events, mail>>

LEMMA QuietIsTidy == ASSUME IInv, Quiet PROVE Tidy
BY DEF IInv, Types, RequestTypes, Quiet, Tidy

LEMMA StartPassKeeps ==
    ASSUME IInv, NEW a \in Actor \ {"recovery"}, StartPass(a)
    PROVE  IInv'
<1> USE DEF pipeline, fixes, readModels
<1> DEFINE me == actor[a]
           r == me.of
           event == TerminalAnalysisEvent(r)
<1>1. /\ me.at = "start" /\ UNCHANGED <<scenario, validation, verdict, observed, analyst, events>>
      /\ UNCHANGED <<issue, issueSummary, openIssue>>
  BY DEF StartPass
<1>2. /\ me \in ActorRow /\ r \in Tracked /\ me.pass.phase # "abandoning" /\ me.pass.of <= r
      /\ PassSound(World, me.pass) /\ me.back = "none" /\ HoldSound(Stores, me)
      /\ Stores.p = progress
  <2>1. me \in ActorRow /\ Own(World, a, me) /\ Kept(Stores, me) BY AtHand
  <2> QED BY <1>1, <2>1, AtHand DEF Own, Kept, Logging
<1>3. CASE Reject(a) /\ UNCHANGED progress
  <2>1. Tidy BY <1>1, <1>3, SettleIsTidy DEF Reject
  <2> QED BY <1>1, <1>3, <2>1, RestKeeps DEF Reject, Settle
<1>4. CASE Goto(a, [me EXCEPT !.at = "batch"]) /\ me.pass.phase \in {"refreshing", "finalizing"}
           /\ UNCHANGED <<progress, mail>>
  <2> DEFINE n == [me EXCEPT !.at = "batch"]
  <2>1. n \in ActorRow BY <1>2 DEF ActorRow, Place
  <2>2. /\ n.at = "batch" /\ n.of = me.of /\ n.pass = me.pass /\ n.current = me.current /\ n.back = "none"
    BY <1>2 DEF ActorRow
  <2> HIDE DEF n
  <2>3. Own(World, a, n)
    BY <1>2, <1>4, <2>2 DEF Own, Tracks, Recovers, Logging, PageSound
  <2>4. Kept(Stores, n)
    BY <1>1, <1>2, <2>2 DEF Kept, CopySound, HoldSound, WriteSound, Writer, Passed, Logging
  <2>5. ~Writer(n) /\ ~Written(n) BY <2>2 DEF Writer, Written, Passed, Logging
  <2>6. Tidy BY <1>1, <1>4, QuietIsTidy DEF Quiet
  <2>7. actor' = [actor EXCEPT ![a] = n] BY <1>4 DEF Goto, n
  <2> QED BY <1>1, <1>4, <2>1, <2>3, <2>4, <2>5, <2>6, <2>7, GoOnKeeps
<1>5. CASE Goto(a, [AtRest EXCEPT !.at = "again", !.of = r]) /\ UNCHANGED <<progress, mail>>
  <2> DEFINE n == [AtRest EXCEPT !.at = "again", !.of = r]
  <2>1. n \in ActorRow BY <1>2, RestTypes, Constants DEF ActorRow, Place
  <2>2. /\ n.at = "again" /\ n.of = r /\ n.pass = NoProgress /\ ~n.current /\ n.back = "none" /\ ~n.fresh
    BY DEF AtRest
  <2> HIDE DEF n
  <2>3. Own(World, a, n)
    BY <1>2, <2>2 DEF Own, Tracks, Recovers, Logging, PageSound, PassSound
  <2>4. Kept(Stores, n)
    BY <2>2 DEF Kept, CopySound, HoldSound, WriteSound, Writer, Passed, Logging
  <2>5. Tidy BY <1>1, <1>5, QuietIsTidy DEF Quiet
  <2>6. actor' = [actor EXCEPT ![a] = n] BY <1>5 DEF Goto, n
  <2> QED BY <1>1, <1>5, <2>1, <2>2, <2>3, <2>4, <2>5, <2>6, GoOnKeeps DEF Writer
<1>6. CASE /\ me.pass.phase \notin {"refreshing", "finalizing"} /\ me.current /\ UNCHANGED mail
           /\ SaveProgress(a, [NoProgress EXCEPT !.of = r, !.phase = "refreshing",
                                                 !.finalize = event = "completed"],
                           [me EXCEPT !.at = "batch"])
  <2> DEFINE row == [NoProgress EXCEPT !.of = r, !.phase = "refreshing", !.finalize = event = "completed"]
             next == [me EXCEPT !.at = "batch"]
             n == [next EXCEPT !.pass = row, !.current = TRUE]
  <2>1. row \in ProgressRow BY <1>2, RestTypes, Constants DEF ProgressRow
  <2>2. /\ row.of = r /\ row.phase = "refreshing" /\ row.cursor = 0
        /\ row.finalize <=> "build_analysis_completed" \in events[r]
    BY DEF NoProgress, TerminalAnalysisEvent
  <2>3. n \in ActorRow BY <1>2, <2>1 DEF ActorRow, Place
  <2>4. /\ n.at = "batch" /\ n.of = r /\ n.pass = row /\ n.back = "none"
    BY <1>2 DEF ActorRow
  <2>5. row.finalize => row.of \in World.done
    BY <1>2, <2>2 DEF World, Completed
  <2>6. World.obs[r] \subseteq Issue /\ \A i \in Issue : i \in Nat /\ ~(i <= 0)
    <3>1. observed[r] \subseteq Issue BY <1>2 DEF IInv, Types, RequestTypes
    <3> QED BY <3>1, Constants DEF World
  <2> HIDE DEF row, n
  <2>7. PassSound(World, row)
    BY <1>2, <2>2, <2>5, <2>6 DEF PassSound, CursorSound
  <2>8. Own(World, a, n)
    BY <1>2, <2>2, <2>4, <2>7 DEF Own, Tracks, Recovers, Logging, PageSound
  <2>9. Kept(Saved(row), n)
    BY <2>4 DEF Kept, CopySound, HoldSound, WriteSound, Writer, Passed, Logging, Saved
  <2>10. ~Written(n) BY <2>4 DEF Written, Passed, Logging
  <2>11. progress.phase \notin Active /\ progress.of = me.pass.of
    BY <1>1, <1>2, <1>6 DEF HoldSound, Active
  <2>12. AllSettled BY <2>11, AtHand DEF AllSettled, IssueSound
  <2>13. \A b \in Actor : ~Writer(actor[b])
    BY <2>11, AtHand DEF Kept, WriteSound
  <2>14. Tidy BY <1>1, <1>6, QuietIsTidy DEF Quiet
  <2>15. progress.of <= row.of BY <1>2, <2>2, <2>11
  <2>16. SaveProgress(a, row, next) BY <1>6 DEF row
  <2>17. n = [next EXCEPT !.pass = row, !.current = TRUE] BY DEF n
  <2> HIDE DEF next
  <2> QED BY <1>1, <2>1, <2>3, <2>7, <2>8, <2>9, <2>10, <2>12, <2>13, <2>14, <2>15, <2>16, <2>17, SaveKeeps
<1> QED BY <1>3, <1>4, <1>5, <1>6 DEF StartPass

-----------------------------------------------------------------------------
(* reconcileBatch: what is read.                                            *)

LEMMA TakeFields ==
    ASSUME NEW me \in ActorRow, NEW i \in Issue, NEW reported \in BOOLEAN, NEW back \in {"list", "next"},
           issue \in [Issue -> IssueRow]
    PROVE  LET n == Take(me, i, reported, back)
           IN  /\ n \in ActorRow
               /\ n.at = "key" /\ n.key = i /\ (n.reported <=> reported) /\ n.issue = issue[i] /\ n.fresh
               /\ n.back = back /\ n.of = me.of /\ n.current = me.current
               /\ n.keys = me.keys /\ n.room = me.room
               /\ n.pass.of = me.pass.of /\ n.pass.cursor = me.pass.cursor
               /\ n.pass.finalize = me.pass.finalize /\ n.pass.phase = me.pass.phase
               /\ n.pass.taskWide <=> \/ me.pass.taskWide
                                     \/ (reported /\ i \in TaskWide /\ me.pass.phase = "refreshing")
<1> DEFINE p == Remember(me.pass, i, reported)
<1>1. /\ p \in ProgressRow /\ p.of = me.pass.of /\ p.cursor = me.pass.cursor
      /\ p.finalize = me.pass.finalize /\ p.phase = me.pass.phase
      /\ p.taskWide <=> me.pass.taskWide \/ (reported /\ i \in TaskWide /\ me.pass.phase = "refreshing")
  <2>1. me.pass \in ProgressRow BY DEF ActorRow
  <2> QED BY <2>1 DEF Remember, ProgressRow
<1> HIDE DEF p
<1>2. Take(me, i, reported, back) =
         [me EXCEPT !.at = "key", !.key = i, !.reported = reported, !.issue = issue[i], !.fresh = TRUE,
                    !.back = back, !.pass = p]
  BY DEF Take, GetIssue, p
<1> DEFINE n == [me EXCEPT !.at = "key", !.key = i, !.reported = reported, !.issue = issue[i], !.fresh = TRUE,
                           !.back = back, !.pass = p]
<1>3. n \in ActorRow
  <2>1. issue[i] \in IssueRow /\ i \in 0 .. MaxIssue BY Constants
  <2>2. back \in {"none", "list", "next"} OBVIOUS
  <2> QED BY <1>1, <2>1, <2>2 DEF ActorRow, Place
<1>4. /\ n.at = "key" /\ n.key = i /\ n.reported = reported /\ n.issue = issue[i] /\ n.fresh
      /\ n.back = back /\ n.of = me.of /\ n.current = me.current /\ n.pass = p
      /\ n.keys = me.keys /\ n.room = me.room
  BY DEF ActorRow
<1> QED BY <1>1, <1>2, <1>3, <1>4

LEMMA Forgotten ==
    ASSUME NEW me \in ActorRow, NEW at \in Place \ {"write"}
    PROVE  LET n == Return(me, at)
           IN  /\ n \in ActorRow
               /\ n.at = at /\ n.back = "none" /\ n.then = "none" /\ ~n.fresh /\ n.key = 0
               /\ n.of = me.of /\ n.pass = me.pass /\ n.current = me.current /\ n.keys = me.keys /\ n.room = me.room
<1> DEFINE f == Forget(me)
           n == [f EXCEPT !.at = at, !.then = "none", !.row = 0, !.shown = NoIssueSummary]
<1>1. /\ f \in ActorRow /\ f.back = "none" /\ ~f.fresh /\ f.key = 0 /\ f.of = me.of /\ f.pass = me.pass
      /\ f.current = me.current /\ f.keys = me.keys /\ f.room = me.room
  <2>1. f = [me EXCEPT !.key = 0, !.reported = FALSE, !.issue = NoIssue, !.fresh = FALSE, !.back = "none"]
    BY DEF Forget
  <2>2. 0 \in 0 .. MaxIssue /\ NoIssue \in IssueRow BY RestTypes, Constants
  <2> HIDE DEF f
  <2>3. f \in ActorRow BY <2>1, <2>2 DEF ActorRow
  <2>4. /\ f.back = "none" /\ f.fresh = FALSE /\ f.key = 0 /\ f.of = me.of /\ f.pass = me.pass
        /\ f.current = me.current /\ f.keys = me.keys /\ f.room = me.room
    BY <2>1 DEF ActorRow
  <2> QED BY <2>3, <2>4
<1>2. Return(me, at) = n BY DEF Return
<1> HIDE DEF f
<1>3. n \in ActorRow
  <2>1. 0 \in 0 .. MaxTracked /\ NoIssueSummary \in SummaryRow /\ at \in Place BY RestTypes, Constants
  <2> QED BY <1>1, <2>1 DEF ActorRow, Onward
<1>4. /\ n.at = at /\ n.back = f.back /\ n.then = "none" /\ n.fresh = f.fresh /\ n.key = f.key
      /\ n.of = f.of /\ n.pass = f.pass /\ n.current = f.current /\ n.keys = f.keys /\ n.room = f.room
  BY <1>1 DEF ActorRow
<1> QED BY <1>1, <1>2, <1>3, <1>4

LEMMA Retained ==
    ASSUME NEW me \in ActorRow, NEW row \in IssueRow, NEW then \in Onward
    PROVE  LET n == Retain(me, row, then)
           IN  /\ n \in ActorRow
               /\ n.at = "log" /\ n.entry = row /\ n.then = then /\ n.back = me.back /\ n.key = me.key
               /\ n.of = me.of /\ n.pass = me.pass /\ n.current = me.current /\ n.fresh = me.fresh
               /\ n.keys = me.keys /\ n.room = me.room
BY DEF Retain, ActorRow, Place, Onward

\* Where the cursor is said to be does not matter, but for the keys it leaves.
LEMMA CursorMoves ==
    ASSUME NEW w, NEW p \in ProgressRow, p # NoProgress, PassSound(w, p), NEW c \in 0 .. MaxIssue, CursorSound(w, p, c)
    PROVE  LET q == [p EXCEPT !.cursor = c]
           IN  /\ q \in ProgressRow /\ PassSound(w, q) /\ q.cursor = c /\ q.of = p.of /\ q.phase = p.phase
               /\ q.finalize = p.finalize /\ q.taskWide = p.taskWide
<1> DEFINE q == [p EXCEPT !.cursor = c]
<1>1. /\ q \in ProgressRow /\ q.cursor = c /\ q.of = p.of /\ q.phase = p.phase
      /\ q.finalize = p.finalize /\ q.taskWide = p.taskWide
  BY DEF ProgressRow
<1> HIDE DEF q
<1>2. PassSound(w, q) BY <1>1 DEF PassSound, CursorSound
<1> QED BY <1>1, <1>2 DEF q

\* What a build reports began; what closes is over.
LEMMA BeganFirst ==
    ASSUME IInv
    PROVE  /\ \A r \in Tracked : World.obs[r] # {} => r \in World.begun
           /\ World.clean \subseteq World.begun
           /\ \A i \in Issue : i \in World.known <=> issue[i] # NoIssue
           /\ \A r \in Tracked : World.obs[r] \subseteq Issue
<1>1. \A r \in Tracked : Clean(r) => verdict[r] # "none" BY DEF Clean
<1>2. \A r \in Tracked : observed[r] # {} => verdict[r] # "none" BY DEF IInv, WorldSound
<1>3. \A r \in Tracked : observed[r] \subseteq Issue BY DEF IInv, Types, RequestTypes
<1> QED BY <1>1, <1>2, <1>3 DEF World

\* A handler whose step leaves the stores as they are.
LEMMA ReadKeeps ==
    ASSUME IInv, Quiet, UNCHANGED <<progress, issue, issueSummary, openIssue>>,
           NEW a \in Actor, NEW n \in ActorRow, Goto(a, n), Own(World, a, n), Kept(Stores, n), ~Writer(n),
           n.current /\ Written(n) => \/ actor[a].current /\ Written(actor[a])
                                     \/ \A b \in Actor : b # a => ~Writer(actor[b])
    PROVE  IInv'
<1>1. Tidy BY QuietIsTidy
<1>2. n.current /\ Written(n) => \A b \in Actor : b # a => ~Writer(actor[b])
  BY DEF IInv, Apart
<1> QED BY <1>1, <1>2, GoOnKeeps DEF Goto

LEMMA BeginBatchKeeps ==
    ASSUME IInv, NEW a \in Actor \ {"recovery"}, BeginBatch(a)
    PROVE  IInv'
<1> USE DEF pipeline, fixes, readModels
<1> DEFINE me == actor[a]
           c == me.pass.cursor
<1>1. /\ me.at = "batch" /\ Quiet /\ UNCHANGED <<progress, issue, issueSummary, openIssue>>
  BY DEF BeginBatch, Quiet
<1>2. /\ me \in ActorRow /\ Own(World, a, me) /\ Kept(Stores, me) BY AtHand
<1>3. /\ me.of \in Tracked /\ me.pass.phase \in {"refreshing", "finalizing"} /\ PassSound(World, me.pass)
      /\ me.back = "none" /\ me.pass # NoProgress /\ c \in 0 .. MaxIssue /\ me.pass \in ProgressRow
      /\ me.pass.of \in Tracked
  BY <1>1, <1>2 DEF Own, Tracks, Logging, NoProgress, PassSound, ActorRow, ProgressRow
<1>4. me.current => /\ me.pass.of = progress.of /\ me.pass.phase = progress.phase
                    /\ c = progress.cursor
  BY <1>1, <1>2, AtHand DEF Kept, HoldSound
<1>5. CASE c = 0
  <2> DEFINE n == [me EXCEPT !.at = "list", !.room = BatchSize]
  <2>1. n \in ActorRow BY <1>2, Constants DEF ActorRow, Place
  <2>2. /\ n.at = "list" /\ n.of = me.of /\ n.pass = me.pass /\ n.current = me.current /\ n.back = "none"
    BY <1>2, <1>3 DEF ActorRow
  <2>3. Goto(a, n) BY <1>5 DEF BeginBatch
  <2> HIDE DEF n
  <2>4. Own(World, a, n)
    BY <1>3, <2>2 DEF Own, Tracks, Recovers, Logging, PageSound
  <2>5. me.current => \A i \in Issue : Settled(Stores, i)
    <3>1. 0 \notin Issue BY Constants
    <3> QED BY <1>4, <1>5, <3>1, AtHand DEF IssueSound
  <2>6. Kept(Stores, n)
    BY <1>4, <2>2, <2>5, AtHand DEF Kept, CopySound, HoldSound, WriteSound, Writer, Logging
  <2>7. me.current => \A b \in Actor : ~Writer(actor[b])
    <3> SUFFICES ASSUME me.current, NEW b \in Actor, Writer(actor[b]) PROVE FALSE
      OBVIOUS
    <3>1. actor[b].key = 0 BY <1>4, <1>5, AtHand DEF Kept, WriteSound
    <3>2. actor[b].key \in Issue BY AtHand DEF Own, Writer
    <3> QED BY <3>1, <3>2, Constants
  <2> QED BY <1>1, <2>1, <2>2, <2>3, <2>4, <2>6, <2>7, ReadKeeps DEF Writer
<1>6. CASE c # 0
  <2> DEFINE rep == c \in observed[me.pass.of]
             t == Take(me, c, rep, "list")
             n == [t EXCEPT !.room = BatchSize - 1]
  <2>1. c \in Issue BY <1>3, <1>6, Constants
  <2>2. /\ t \in ActorRow
        /\ t.at = "key" /\ t.key = c /\ (t.reported <=> rep) /\ t.issue = issue[c] /\ t.fresh
        /\ t.back = "list" /\ t.of = me.of /\ t.current = me.current
        /\ t.pass.of = me.pass.of /\ t.pass.cursor = c
        /\ t.pass.finalize = me.pass.finalize /\ t.pass.phase = me.pass.phase
        /\ t.pass.taskWide <=> me.pass.taskWide \/ (rep /\ c \in TaskWide /\ me.pass.phase = "refreshing")
    <3>1. rep \in BOOLEAN /\ "list" \in {"list", "next"} OBVIOUS
    <3>2. issue \in [Issue -> IssueRow] BY AtHand
    <3> HIDE DEF rep, t
    <3> QED BY <1>2, <2>1, <3>1, <3>2, TakeFields DEF t
  <2>3. Goto(a, n) BY <1>6 DEF BeginBatch
  <2> HIDE DEF t
  <2>4. n \in ActorRow
    <3>1. BatchSize - 1 \in Nat BY Constants
    <3> QED BY <2>2, <3>1 DEF ActorRow
  <2>5. /\ n.at = "key" /\ n.key = c /\ n.reported = t.reported /\ n.issue = issue[c] /\ n.fresh
        /\ n.back = "list" /\ n.of = me.of /\ n.current = me.current /\ n.pass = t.pass
    BY <2>2 DEF ActorRow
  <2> HIDE DEF n
  <2>6. CursorSound(World, t.pass, c) /\ PassSound(World, t.pass) /\ t.pass # NoProgress
    <3>1. CursorSound(World, me.pass, c) BY <1>3 DEF PassSound
    <3>2. CursorSound(World, t.pass, c) BY <2>2, <3>1 DEF CursorSound
    <3>3. t.pass # NoProgress BY <1>3, <2>2 DEF NoProgress
    <3> QED BY <1>3, <2>2, <3>2, <3>3 DEF PassSound
  <2>7. ReportSound(World, n) /\ (~rep => issue[c] # NoIssue)
    <3>1. World.obs = observed BY AtHand
    <3>2. rep \/ (me.pass.phase = "finalizing" /\ me.pass.of \in World.clean /\ c \in World.known)
      BY <1>3, <1>6, <3>1 DEF PassSound, CursorSound
    <3> QED BY <2>1, <2>2, <2>5, <3>1, <3>2, BeganFirst DEF ReportSound, Gone
  <2>8. RowSound(World, c, issue[c]) BY <2>1, AtHand DEF IssueSound
  <2>9. PageSound(World, n) BY <2>5 DEF PageSound
  <2>10. Own(World, a, n)
    BY <1>3, <2>1, <2>2, <2>5, <2>6, <2>7, <2>8, <2>9 DEF Own, Tracks, Recovers, Logging
  <2>11. Kept(Stores, n)
    <3>1. Stores.p = progress /\ Stores.iss = issue BY AtHand
    <3>2. CopySound(Stores, n) BY <2>5, <3>1 DEF CopySound, Follows
    <3>3. HoldSound(Stores, n) BY <1>4, <2>2, <2>5, <3>1 DEF HoldSound, Logging, Passed
    <3>4. WriteSound(Stores, n) BY <2>5 DEF WriteSound, Writer
    <3> QED BY <3>2, <3>3, <3>4 DEF Kept
  <2>12. ~Writer(n) /\ ~Written(n) BY <2>5 DEF Writer, Written, Passed, Logging
  <2> QED BY <1>1, <2>3, <2>4, <2>10, <2>11, <2>12, ReadKeeps
<1> QED BY <1>5, <1>6

\* What a page leaves out comes after all of it, and the page is full.
LEMMA PageIsFirst ==
    ASSUME NEW K \in SUBSET Issue, NEW n \in Nat, NEW i \in K, i \notin Page(K, n)
    PROVE  Cardinality(K) >= n /\ \A k \in Page(K, n) : k < i
<1> DEFINE Below(k) == {j \in K : j < k}
<1>1. IsFiniteSet(K) /\ Cardinality(K) \in Nat /\ \A k \in K : k \in Int
  <2>1. IsFiniteSet(Issue) BY Constants, FS_Interval
  <2>2. IsFiniteSet(K) BY <2>1, FS_Subset
  <2>3. \A k \in K : k \in Int BY Constants
  <2> QED BY <2>2, <2>3, FS_CardinalityType
<1>2. \A k \in K : /\ IsFiniteSet(Below(k)) /\ Cardinality(Below(k)) \in Nat
                   /\ Cardinality(Below(k)) <= Cardinality(K)
  BY <1>1, FS_Subset, FS_CardinalityType
<1>3. Cardinality(Below(i)) >= n BY <1>2 DEF Page
<1>4. Cardinality(K) >= n BY <1>1, <1>2, <1>3
<1>5. ASSUME NEW k \in Page(K, n) PROVE k < i
  <2>1. k \in K /\ Cardinality(Below(k)) < n BY DEF Page
  <2>2. CASE ~(k < i)
    <3>1. Below(i) \subseteq Below(k) BY <1>1, <2>1, <2>2
    <3>2. Cardinality(Below(i)) <= Cardinality(Below(k)) BY <1>2, <2>1, <3>1, FS_Subset
    <3> QED BY <1>2, <1>3, <2>1, <3>2
  <2> QED BY <2>2
<1> QED BY <1>4, <1>5

LEMMA ListKeysKeeps ==
    ASSUME IInv, NEW a \in Actor \ {"recovery"}, ListKeys(a)
    PROVE  IInv'
<1> USE DEF pipeline, fixes, readModels
<1> DEFINE me == actor[a]
           K == KeysAfter(me.pass)
           P == Page(K, me.room)
           n == [me EXCEPT !.at = "next", !.need = FALSE, !.keys = P,
                           !.room = IF Cardinality(K) < me.room THEN 1 ELSE 0]
<1>1. /\ me.at = "list" /\ Quiet /\ UNCHANGED <<progress, issue, issueSummary, openIssue>> /\ Goto(a, n)
  BY DEF ListKeys, Quiet
<1>2. /\ me \in ActorRow /\ Own(World, a, me) /\ Kept(Stores, me) BY AtHand
<1>3. /\ me.of \in Tracked /\ me.pass.phase \in {"refreshing", "finalizing"} /\ PassSound(World, me.pass)
      /\ me.back = "none" /\ me.pass.of \in Tracked /\ me.room \in Nat
  BY <1>1, <1>2 DEF Own, Tracks, Logging, NoProgress, PassSound, ActorRow
<1>4. /\ \A k \in K : k \in Issue /\ k > me.pass.cursor
      /\ me.pass.phase = "refreshing" => K = {i \in World.obs[me.pass.of] : i > me.pass.cursor}
      /\ me.pass.phase = "finalizing" => K \subseteq World.known
  <2>1. World.obs = observed BY AtHand
  <2> QED BY <1>3, <2>1, BeganFirst DEF KeysAfter, BuildIssuesAfter, IssuesAfter
<1> HIDE DEF K
<1>5. P \subseteq K BY DEF Page
<1> HIDE DEF P
<1>6. n \in ActorRow
  <2>1. P \in SUBSET Issue BY <1>4, <1>5
  <2>2. (IF Cardinality(K) < me.room THEN 1 ELSE 0) \in Nat OBVIOUS
  <2> QED BY <1>2, <2>1, <2>2 DEF ActorRow, Place
<1>7. /\ n.at = "next" /\ n.of = me.of /\ n.pass = me.pass /\ n.current = me.current /\ n.back = "none"
      /\ n.keys = P /\ n.room = (IF Cardinality(K) < me.room THEN 1 ELSE 0)
  BY <1>2, <1>3 DEF ActorRow
<1> HIDE DEF n
<1>8. PageSound(World, n)
  <2>1. Here(n) = me.pass.cursor BY <1>7 DEF Here
  <2>2. \A k \in P : /\ k > me.pass.cursor
                     /\ IF me.pass.phase = "refreshing" THEN k \in World.obs[me.pass.of] ELSE k \in World.known
    BY <1>3, <1>4, <1>5
  <2>3. ASSUME me.pass.phase = "refreshing", NEW i \in World.obs[me.pass.of], i > me.pass.cursor, i \notin P
        PROVE  n.room # 1 /\ \A k \in P : k < i
    <3>1. i \in K BY <1>4, <2>3
    <3>2. Cardinality(K) >= me.room /\ \A k \in P : k < i
      BY <1>3, <1>4, <2>3, <3>1, PageIsFirst DEF P
    <3>3. Cardinality(K) \in Nat
      <4>1. IsFiniteSet(Issue) BY Constants, FS_Interval
      <4> QED BY <1>4, <4>1, FS_Subset, FS_CardinalityType
    <3> QED BY <1>3, <1>7, <3>2, <3>3
  <2> QED BY <1>7, <2>1, <2>2, <2>3 DEF PageSound
<1>9. Own(World, a, n)
  BY <1>3, <1>7, <1>8 DEF Own, Tracks, Recovers, Logging
<1>10. Kept(Stores, n)
  BY <1>1, <1>2, <1>7 DEF Kept, CopySound, HoldSound, WriteSound, Writer, Logging, Passed
<1>11. ~Writer(n) /\ Written(me) BY <1>1, <1>7 DEF Writer, Written, Passed
<1> QED BY <1>1, <1>6, <1>7, <1>9, <1>10, <1>11, ReadKeeps

LEMMA NextKeyKeeps ==
    ASSUME IInv, NEW a \in Actor \ {"recovery"}, NextKey(a)
    PROVE  IInv'
<1> USE DEF pipeline, fixes, readModels
<1> DEFINE me == actor[a]
           w == World
<1>1. PICK i \in me.keys :
         /\ \A j \in me.keys : i <= j
         /\ Goto(a, [Take(me, i, me.pass.phase = "refreshing" \/ i \in observed[me.pass.of], "next")
                       EXCEPT !.keys = @ \ {i}])
  BY DEF NextKey
<1> DEFINE rep == me.pass.phase = "refreshing" \/ i \in observed[me.pass.of]
           t == Take(me, i, rep, "next")
           n == [t EXCEPT !.keys = @ \ {i}]
<1>2. /\ me.at = "next" /\ Quiet /\ UNCHANGED <<progress, issue, issueSummary, openIssue>> /\ Goto(a, n)
  BY <1>1 DEF NextKey, Quiet
<1>3. /\ me \in ActorRow /\ Own(w, a, me) /\ Kept(Stores, me) BY AtHand
<1>4. /\ me.of \in Tracked /\ me.pass.phase \in {"refreshing", "finalizing"} /\ PassSound(w, me.pass)
      /\ me.back = "none" /\ me.pass.of \in Tracked /\ me.pass # NoProgress /\ me.pass \in ProgressRow
      /\ me.keys \subseteq Issue /\ PageSound(w, me)
  BY <1>2, <1>3 DEF Own, Tracks, Logging, NoProgress, PassSound, ActorRow
<1>5. i \in Issue /\ i \in Nat /\ i # 0 /\ me.pass.cursor \in Nat /\ \A j \in Issue : j \in Nat
  BY <1>1, <1>4, Constants DEF ProgressRow
<1>6. /\ t \in ActorRow
      /\ t.at = "key" /\ t.key = i /\ (t.reported <=> rep) /\ t.issue = issue[i] /\ t.fresh
      /\ t.back = "next" /\ t.of = me.of /\ t.current = me.current /\ t.keys = me.keys /\ t.room = me.room
      /\ t.pass.of = me.pass.of /\ t.pass.cursor = me.pass.cursor
      /\ t.pass.finalize = me.pass.finalize /\ t.pass.phase = me.pass.phase
      /\ t.pass.taskWide <=> me.pass.taskWide \/ (rep /\ i \in TaskWide /\ me.pass.phase = "refreshing")
  <2>1. rep \in BOOLEAN /\ "next" \in {"list", "next"} /\ me \in ActorRow /\ i \in Issue
    BY <1>3, <1>5
  <2>2. issue \in [Issue -> IssueRow] BY AtHand
  <2> HIDE DEF rep, t, n, me
  <2> QED BY <2>1, <2>2, TakeFields DEF t
<1> HIDE DEF t
<1>7. n \in ActorRow
  <2>1. me.keys \ {i} \in SUBSET Issue BY <1>4
  <2> QED BY <1>6, <2>1 DEF ActorRow
<1>8. /\ n.at = "key" /\ n.key = i /\ n.reported = t.reported /\ n.issue = issue[i] /\ n.fresh
      /\ n.back = "next" /\ n.of = me.of /\ n.current = me.current /\ n.pass = t.pass
      /\ n.keys = me.keys \ {i} /\ n.room = me.room
  BY <1>6 DEF ActorRow
<1> HIDE DEF n
<1>9. /\ Here(me) = me.pass.cursor /\ Here(n) = i
  BY <1>2, <1>8 DEF Here
<1>10. /\ \A k \in me.keys : /\ k > me.pass.cursor
                             /\ IF me.pass.phase = "refreshing" THEN k \in w.obs[me.pass.of] ELSE k \in w.known
       /\ me.pass.phase = "refreshing" /\ me.pass.finalize =>
             \A j \in w.obs[me.pass.of] : j > me.pass.cursor =>
                j \in me.keys \/ (me.room # 1 /\ \A k \in me.keys : k < j)
  BY <1>2, <1>4, <1>9 DEF PageSound
<1>11. w.obs = observed /\ w.obs[me.pass.of] \subseteq Issue BY <1>4, AtHand, BeganFirst
<1>12. rep => i \in w.obs[me.pass.of] BY <1>1, <1>10, <1>11
<1>13. ~rep => /\ me.pass.phase = "finalizing" /\ Gone(w, i, me.pass.of) /\ i \in w.known
               /\ issue[i] # NoIssue
  <2>1. me.pass.phase = "finalizing" => me.pass.of \in w.clean BY <1>4 DEF PassSound
  <2> QED BY <1>1, <1>4, <1>5, <1>10, <1>11, <2>1, BeganFirst DEF Gone
<1>14. CursorSound(w, t.pass, me.pass.cursor) /\ CursorSound(w, t.pass, i)
  <2>1. CursorSound(w, me.pass, me.pass.cursor) BY <1>4 DEF PassSound
  <2>2. CursorSound(w, t.pass, me.pass.cursor) BY <1>6, <2>1 DEF CursorSound
  <2>3. /\ me.pass.of \in w.begun
        /\ i \in w.obs[me.pass.of] \/ (me.pass.phase # "refreshing" /\ i \in w.known)
    BY <1>4, <1>12, <1>13, BeganFirst DEF Gone
  <2>4. ASSUME t.pass.phase = "refreshing", t.pass.finalize,
               NEW j \in w.obs[t.pass.of] \cap TaskWide, j <= i
        PROVE  t.pass.taskWide
    <3>1. j \in Nat BY <1>5, <1>6, <1>11, <2>4
    <3>2. CASE j <= me.pass.cursor BY <1>6, <2>1, <2>4, <3>2 DEF CursorSound
    <3>3. CASE j > me.pass.cursor
      <4>1. j \in me.keys \/ \A k \in me.keys : k < j BY <1>6, <1>10, <2>4, <3>3
      <4>2. j = i BY <1>1, <1>5, <2>4, <3>1, <4>1
      <4> QED BY <1>6, <2>4, <4>2
    <3> QED BY <1>5, <3>1, <3>2, <3>3
  <2> QED BY <1>6, <2>2, <2>3, <2>4 DEF CursorSound
<1>15. PassSound(w, t.pass) /\ t.pass # NoProgress
  <2>1. t.pass # NoProgress BY <1>4, <1>6 DEF NoProgress
  <2> QED BY <1>4, <1>6, <1>14, <2>1 DEF PassSound
<1>16. PageSound(w, n)
  <2>1. \A k \in n.keys : /\ k > i
                          /\ IF t.pass.phase = "refreshing" THEN k \in w.obs[t.pass.of] ELSE k \in w.known
    <3> SUFFICES ASSUME NEW k \in me.keys, k # i
                 PROVE  /\ k > i
                        /\ IF t.pass.phase = "refreshing" THEN k \in w.obs[t.pass.of] ELSE k \in w.known
      BY <1>8
    <3>1. k \in Nat /\ i <= k BY <1>1, <1>4, <1>5
    <3>2. IF me.pass.phase = "refreshing" THEN k \in w.obs[me.pass.of] ELSE k \in w.known BY <1>10
    <3> QED BY <1>5, <1>6, <3>1, <3>2
  <2>2. ASSUME t.pass.phase = "refreshing", t.pass.finalize, NEW j \in w.obs[t.pass.of], j > i
        PROVE  j \in n.keys \/ (n.room # 1 /\ \A k \in n.keys : k < j)
    <3>1. j > me.pass.cursor BY <1>1, <1>5, <1>6, <1>10, <1>11, <2>2
    <3>2. j # i BY <1>5, <2>2
    <3> QED BY <1>6, <1>8, <1>10, <2>2, <3>1, <3>2
  <2> QED BY <1>8, <1>9, <2>1, <2>2 DEF PageSound
<1>17. RowSound(w, i, issue[i]) BY <1>5, AtHand DEF IssueSound
<1>18. ReportSound(w, n) BY <1>6, <1>8, <1>12, <1>13 DEF ReportSound
<1>19. me.pass.cursor < i BY <1>1, <1>5, <1>10
<1>20. Own(w, a, n)
  BY <1>4, <1>5, <1>6, <1>8, <1>13, <1>14, <1>15, <1>16, <1>17, <1>18, <1>19 DEF Own, Tracks, Recovers, Logging
<1>21. Kept(Stores, n)
  <2>1. Stores.iss = issue BY AtHand
  <2>2. CopySound(Stores, n) BY <1>8, <2>1 DEF CopySound, Follows
  <2>3. HoldSound(Stores, n)
    BY <1>2, <1>3, <1>6, <1>8 DEF Kept, HoldSound, Logging, Passed
  <2>4. WriteSound(Stores, n) BY <1>8 DEF WriteSound, Writer
  <2> QED BY <2>2, <2>3, <2>4 DEF Kept
<1>22. ~Writer(n) /\ Written(me) BY <1>2, <1>8 DEF Writer, Written, Passed
<1> QED BY <1>2, <1>7, <1>8, <1>20, <1>21, <1>22, ReadKeeps

-----------------------------------------------------------------------------
(* reconcileBatch: what is written.                                         *)

\* What is at hand of a handler at a key.
LEMMA AtKey ==
    ASSUME IInv, NEW a \in Actor, actor[a].at \in {"key", "write"}
    PROVE  LET me == actor[a]
           IN  /\ me \in ActorRow /\ a # "recovery"
               /\ me.of \in Tracked /\ me.pass.of \in Tracked /\ me.pass.phase \in {"refreshing", "finalizing"}
               /\ me.pass \in ProgressRow /\ me.pass # NoProgress /\ PassSound(World, me.pass)
               /\ me.key \in Issue /\ me.back \in {"list", "next"} /\ me.issue \in IssueRow
               /\ ReportSound(World, me) /\ RowSound(World, me.key, me.issue)
               /\ CursorSound(World, me.pass, me.key) /\ PageSound(World, me)
               /\ CopySound(Stores, me) /\ HoldSound(Stores, me) /\ WriteSound(Stores, me)
               /\ me.issue.last \in Nat /\ me.issue.changed \in Nat /\ me.pass.of \in Nat
               /\ issue[me.key] \in IssueRow /\ issue[me.key].last \in Nat
               /\ IssueSound(World, Stores, me.key)
<1> DEFINE me == actor[a]
<1>1. /\ me \in ActorRow /\ Own(World, a, me) /\ Kept(Stores, me) BY AtHand
<1>2. /\ me.pass.phase \in {"refreshing", "finalizing"} /\ PassSound(World, me.pass) /\ a # "recovery"
      /\ me.of \in Tracked
  BY <1>1 DEF Own, Tracks
<1>3. me.pass # NoProgress /\ me.pass.of \in Tracked BY <1>2 DEF PassSound, NoProgress
<1>4. /\ me.key \in Issue /\ me.back \in {"list", "next"} /\ ReportSound(World, me)
      /\ RowSound(World, me.key, me.issue) /\ CursorSound(World, me.pass, me.key) /\ PageSound(World, me)
  BY <1>1 DEF Own
<1>5. /\ me.pass \in ProgressRow /\ me.issue \in IssueRow /\ issue[me.key] \in IssueRow
      /\ IssueSound(World, Stores, me.key)
  BY <1>1, <1>4, AtHand DEF ActorRow
<1>6. /\ me.issue.last \in Nat /\ me.issue.changed \in Nat /\ me.pass.of \in Nat /\ issue[me.key].last \in Nat
  BY <1>5 DEF IssueRow, ProgressRow
<1> QED BY <1>1, <1>2, <1>3, <1>4, <1>5, <1>6 DEF Kept

\* Who has applied a key while it holds the pass keeps the others from writing.
LEMMA AppliedAlone ==
    ASSUME IInv, NEW a \in Actor, actor[a].at = "key", actor[a].back = "list", actor[a].current, Applied(actor[a])
    PROVE  /\ actor[a].issue = issue[actor[a].key] /\ actor[a].key = progress.cursor
           /\ \A b \in Actor : ~Writer(actor[b])
<1> DEFINE me == actor[a]
<1>1. /\ me.pass.of = progress.of /\ me.pass.phase = progress.phase /\ me.pass.cursor = progress.cursor
      /\ me.key = me.pass.cursor
  BY AtHand, AtKey DEF HoldSound, Own
<1>2. me.issue.last = progress.of /\ issue[me.key].last <= progress.of
  BY <1>1, AtKey, AtHand DEF Applied, IssueSound
<1>3. me.issue = issue[me.key]
  <2>1. Follows(issue[me.key], me.issue) BY AtKey, AtHand DEF CopySound
  <2>2. me.issue.last \in Nat /\ issue[me.key].last \in Nat /\ progress.of \in Nat
    BY <1>1, AtKey
  <2> QED BY <1>2, <2>1, <2>2 DEF Follows
<1>4. ASSUME NEW b \in Actor, Writer(actor[b]) PROVE FALSE
  <2> DEFINE it == actor[b]
  <2>1. /\ it.at \in {"write", "refence"} /\ it.fresh /\ it.pass.of = progress.of /\ it.key = me.key
        /\ progress.phase \in {it.pass.phase, "abandoning"}
    BY <1>1, <1>4, AtHand DEF Kept, WriteSound, Writer
  <2>2. it.issue = issue[me.key] BY <2>1, AtHand DEF Kept, CopySound
  <2>3. CASE it.at = "write"
    <3>1. it.issue.last < it.pass.of BY <2>3, AtHand DEF Own
    <3>2. progress.of \in Nat BY <1>1, AtKey
    <3> QED BY <1>2, <1>3, <2>1, <2>2, <3>1, <3>2
  <2>4. CASE it.at = "refence"
    <3>1. it.pass.phase = "abandoning" BY <2>4, AtHand DEF Own, Recovers
    <3>2. me.pass.phase \in {"refreshing", "finalizing"} BY AtKey
    <3> QED BY <1>1, <2>1, <3>1, <3>2
  <2> QED BY <2>1, <2>3, <2>4
<1> QED BY <1>1, <1>3, <1>4

LEMMA SkipKeyKeeps ==
    ASSUME IInv, NEW a \in Actor \ {"recovery"}, SkipKey(a)
    PROVE  IInv'
<1> USE DEF pipeline, fixes, readModels
<1> DEFINE me == actor[a]
           q == [me.pass EXCEPT !.cursor = me.key]
           on == [me EXCEPT !.pass = q, !.need = TRUE]
<1>1. /\ me.at = "key" /\ Applied(me) /\ Quiet /\ UNCHANGED <<progress, issue, issueSummary, openIssue>>
      /\ Goto(a, IF me.key = me.pass.cursor THEN Retain(on, me.issue, me.back) ELSE Return(on, me.back))
  BY DEF SkipKey, Quiet
<1>2. /\ me \in ActorRow /\ Own(World, a, me) /\ Kept(Stores, me) BY AtHand
<1>3. /\ me.of \in Tracked /\ me.pass.phase \in {"refreshing", "finalizing"} /\ PassSound(World, me.pass)
      /\ me.pass.of \in Tracked /\ me.pass # NoProgress /\ me.pass \in ProgressRow
      /\ me.key \in Issue /\ me.back \in {"list", "next"} /\ me.issue \in IssueRow
      /\ RowSound(World, me.key, me.issue) /\ CursorSound(World, me.pass, me.key) /\ PageSound(World, me)
      /\ CopySound(Stores, me) /\ HoldSound(Stores, me)
  BY <1>1, AtKey
<1>4. IF me.back = "list" THEN me.key = me.pass.cursor ELSE me.pass.cursor < me.key
  BY <1>1, <1>2 DEF Own
<1>5. /\ q \in ProgressRow /\ PassSound(World, q) /\ q.cursor = me.key /\ q.of = me.pass.of
      /\ q.phase = me.pass.phase /\ q.finalize = me.pass.finalize
  <2>1. me.key \in 0 .. MaxIssue BY <1>3, Constants
  <2> QED BY <1>3, <2>1, CursorMoves
<1> HIDE DEF q
<1>6. /\ on \in ActorRow /\ on.pass = q /\ on.of = me.of /\ on.current = me.current /\ on.back = me.back
      /\ on.key = me.key /\ on.fresh = me.fresh /\ on.keys = me.keys /\ on.room = me.room
  BY <1>2, <1>5 DEF ActorRow
<1> HIDE DEF on
<1>7. CASE me.back = "list"
  <2> DEFINE n == Retain(on, me.issue, "list")
  <2>1. Goto(a, n) BY <1>1, <1>4, <1>7
  <2>2. /\ n \in ActorRow
        /\ n.at = "log" /\ n.entry = me.issue /\ n.then = "list" /\ n.back = "list" /\ n.key = me.key
        /\ n.of = me.of /\ n.pass = q /\ n.current = me.current
    <3>1. "list" \in Onward /\ me.issue \in IssueRow /\ on \in ActorRow
      BY <1>3, <1>6 DEF Onward
    <3>2. /\ n \in ActorRow
          /\ n.at = "log" /\ n.entry = me.issue /\ n.then = "list" /\ n.back = on.back /\ n.key = on.key
          /\ n.of = on.of /\ n.pass = on.pass /\ n.current = on.current
      BY <3>1, Retained
    <3> QED BY <1>6, <1>7, <3>2
  <2> HIDE DEF n
  <2>3. me.issue # NoIssue
    BY <1>1, <1>3, Constants DEF Applied, NoIssue
  <2>4. PageSound(World, n) BY <2>2 DEF PageSound
  <2>5. Own(World, a, n)
    BY <1>3, <1>5, <2>2, <2>3, <2>4 DEF Own, Tracks, Recovers, Logging
  <2>6. me.current => /\ me.issue = issue[me.key] /\ me.key = progress.cursor
                      /\ \A b \in Actor : ~Writer(actor[b])
    BY <1>1, <1>7, AppliedAlone
  <2>7. Kept(Stores, n)
    <3>1. Stores.iss = issue /\ Stores.p = progress BY AtHand
    <3>2. Follows(issue[me.key], me.issue) BY <1>1, <1>3, <3>1 DEF CopySound
    <3>3. CopySound(Stores, n) BY <2>2, <3>1, <3>2 DEF CopySound, Follows
    <3>4. HoldSound(Stores, n)
      BY <1>1, <1>3, <1>5, <2>2, <2>6, <3>1 DEF HoldSound, Logging, Passed
    <3>5. WriteSound(Stores, n) BY <2>2 DEF WriteSound, Writer
    <3> QED BY <3>3, <3>4, <3>5 DEF Kept
  <2>8. ~Writer(n) BY <2>2 DEF Writer
  <2> QED BY <1>1, <2>1, <2>2, <2>5, <2>6, <2>7, <2>8, ReadKeeps
<1>8. CASE me.back = "next"
  <2> DEFINE n == Return(on, "next")
  <2>1. Goto(a, n)
    <3>1. me.key \in Nat /\ me.pass.cursor \in Nat BY <1>3, Constants DEF ProgressRow
    <3> QED BY <1>1, <1>4, <1>8, <3>1
  <2>2. /\ n \in ActorRow
        /\ n.at = "next" /\ n.back = "none" /\ ~n.fresh
        /\ n.of = me.of /\ n.pass = q /\ n.current = me.current /\ n.keys = me.keys /\ n.room = me.room
    <3>1. "next" \in Place \ {"write"} BY DEF Place
    <3> QED BY <1>6, <3>1, Forgotten
  <2> HIDE DEF n
  <2>3. PageSound(World, n)
    BY <1>1, <1>3, <1>5, <1>8, <2>2 DEF PageSound, Here
  <2>4. Own(World, a, n)
    BY <1>3, <1>5, <2>2, <2>3 DEF Own, Tracks, Recovers, Logging
  <2>5. Kept(Stores, n)
    BY <1>1, <1>3, <1>5, <1>8, <2>2 DEF Kept, CopySound, HoldSound, WriteSound, Writer, Passed, Logging
  <2>6. ~Writer(n) /\ Written(me) BY <1>1, <1>8, <2>2 DEF Writer, Written, Passed
  <2> QED BY <1>1, <2>1, <2>2, <2>4, <2>5, <2>6, ReadKeeps
<1> QED BY <1>3, <1>7, <1>8

\* What a pass has applied of a key is what it reports of it.
LEMMA OncePerPass ==
    ASSUME NEW w, NEW me, me.pass.of \in Tracked, ReportSound(w, me), RowSound(w, me.key, me.issue),
           me.issue.last = me.pass.of
    PROVE  Applied(me)
<1>1. me.issue # NoIssue BY Constants DEF NoIssue
<1> QED BY <1>1 DEF ReportSound, RowSound, Applied, Desired, Gone

LEMMA SaveCursorKeeps ==
    ASSUME IInv, NEW a \in Actor \ {"recovery"}, SaveCursor(a)
    PROVE  IInv'
<1> USE DEF pipeline, fixes, readModels
<1> DEFINE me == actor[a]
           row == [me.pass EXCEPT !.cursor = me.key]
           next == [me EXCEPT !.need = FALSE, !.at = "write"]
           n == [next EXCEPT !.pass = row, !.current = TRUE]
<1>1. /\ me.at = "key" /\ ~Applied(me) /\ UNCHANGED <<scenario, validation, verdict, observed, analyst, events>>
      /\ UNCHANGED <<issue, issueSummary, openIssue>>
  BY DEF SaveCursor
<1>2. /\ me \in ActorRow /\ Own(World, a, me) BY AtHand
<1>3. /\ me.of \in Tracked /\ me.pass.phase \in {"refreshing", "finalizing"} /\ PassSound(World, me.pass)
      /\ me.pass.of \in Tracked /\ me.pass # NoProgress /\ me.pass \in ProgressRow
      /\ me.key \in Issue /\ me.back \in {"list", "next"} /\ me.issue \in IssueRow
      /\ RowSound(World, me.key, me.issue) /\ CursorSound(World, me.pass, me.key) /\ PageSound(World, me)
      /\ ReportSound(World, me) /\ CopySound(Stores, me) /\ HoldSound(Stores, me)
      /\ me.issue.last \in Nat /\ me.pass.of \in Nat
  BY <1>1, AtKey
<1>4. CASE Hold(a) /\ UNCHANGED progress
  <2>1. Tidy BY <1>1, <1>4, QuietIsTidy DEF Quiet, Hold
  <2> QED BY <1>1, <1>4, <2>1, RestKeeps DEF Hold
<1>5. CASE /\ me.current /\ ~(me.issue.last > me.pass.of) /\ UNCHANGED mail
           /\ SaveProgress(a, row, IF me.issue.last = me.pass.of THEN Retain(next, me.issue, "write") ELSE next)
  <2>1. me.issue.last # me.pass.of BY <1>1, <1>3, OncePerPass
  <2>2. me.issue.last < me.pass.of /\ SaveProgress(a, row, next) BY <1>3, <1>5, <2>1
  <2>3. /\ row \in ProgressRow /\ PassSound(World, row) /\ row.cursor = me.key /\ row.of = me.pass.of
        /\ row.phase = me.pass.phase /\ row.finalize = me.pass.finalize /\ row.taskWide = me.pass.taskWide
    <3>1. me.key \in 0 .. MaxIssue BY <1>3, Constants
    <3> QED BY <1>3, <3>1, CursorMoves
  <2> HIDE DEF row
  <2>4. n \in ActorRow BY <1>2, <2>3 DEF ActorRow, Place
  <2>5. /\ n.at = "write" /\ n.of = me.of /\ n.pass = row /\ n.key = me.key /\ n.reported = me.reported
        /\ n.issue = me.issue /\ n.fresh = me.fresh /\ n.back = me.back /\ n.keys = me.keys /\ n.room = me.room
    BY <1>2 DEF ActorRow
  <2>6. n = [next EXCEPT !.pass = row, !.current = TRUE] OBVIOUS
  <2> HIDE DEF n, next
  <2>7. CursorSound(World, row, me.key) BY <1>3, <2>3 DEF CursorSound
  <2>8. ReportSound(World, n) BY <1>3, <2>3, <2>5 DEF ReportSound
  <2>9. PageSound(World, n) BY <1>1, <1>3, <2>3, <2>5 DEF PageSound, Here
  <2>10. ~me.reported => me.issue # NoIssue BY <1>1, <1>2 DEF Own
  <2>11. Own(World, a, n)
    BY <1>3, <2>2, <2>3, <2>5, <2>7, <2>8, <2>9, <2>10 DEF Own, Tracks, Recovers, Logging
  <2>12. me.pass.of = progress.of /\ me.pass.phase = progress.phase
         /\ (me.back = "list" => me.pass.cursor = progress.cursor)
         /\ (me.back = "next" => AllSettled)
    BY <1>1, <1>3, <1>5, AtHand DEF HoldSound, Passed, AllSettled
  <2>13. Kept(Saved(row), n)
    <3>1. CopySound(Saved(row), n)
      BY <1>1, <1>3, <2>5, AtHand DEF CopySound, Saved
    <3>2. HoldSound(Saved(row), n) BY <2>3, <2>5 DEF HoldSound, Saved, Logging, Passed
    <3>3. WriteSound(Saved(row), n) BY <1>3, <2>3, <2>5 DEF WriteSound, Saved, Active
    <3> QED BY <3>1, <3>2, <3>3 DEF Kept
  <2>14. ~Written(n) BY <2>5 DEF Written, Passed, Logging
  <2>15. progress.of <= row.of BY <1>3, <2>3, <2>12
  <2>16. SameKey(row) \/ (AllSettled /\ \A b \in Actor : b # a => ~Writer(actor[b]))
    <3>1. CASE me.back = "list"
      <4>1. me.key = me.pass.cursor BY <1>1, <1>2, <3>1 DEF Own
      <4> QED BY <1>3, <2>3, <2>12, <3>1, <4>1 DEF SameKey, Active
    <3>2. CASE me.back = "next"
      <4>1. Written(me) BY <1>1, <3>2 DEF Written, Passed
      <4> QED BY <1>5, <2>12, <3>2, <4>1 DEF IInv, Apart
    <3> QED BY <1>3, <3>1, <3>2
  <2>17. Tidy BY <1>1, <1>5, QuietIsTidy DEF Quiet
  <2> QED BY <1>1, <2>2, <2>3, <2>4, <2>6, <2>11, <2>13, <2>14, <2>15, <2>16, <2>17, SaveKeeps
<1> QED BY <1>4, <1>5 DEF SaveCursor

\* The issue after the pass, in place of the one that was read.
LEMMA TargetSound ==
    ASSUME NEW w, NEW me, me.pass.of \in Tracked, me.issue \in IssueRow,
           ReportSound(w, me), RowSound(w, me.key, me.issue), me.issue.last < me.pass.of
    PROVE  LET row == Target(me)
           IN  /\ row \in IssueRow /\ row # NoIssue /\ RowSound(w, me.key, row) /\ row.last = me.pass.of
               /\ Follows(row, me.issue)
               /\ row.status = me.issue.status => SummaryOf(row) = SummaryOf(me.issue)
<1> DEFINE row == Target(me)
           changes == me.issue.status # Desired(me)
<1>1. /\ row.status = Desired(me) /\ row.last = me.pass.of
      /\ row.first = IF changes /\ me.reported THEN me.pass.of ELSE me.issue.first
      /\ row.changed = IF changes THEN me.pass.of ELSE me.issue.changed
  BY DEF Target
<1>2. /\ me.issue.first \in 0 .. MaxTracked /\ me.issue.changed \in 0 .. MaxTracked /\ me.issue.last \in 0 .. MaxTracked
      /\ me.pass.of \in 0 .. MaxTracked /\ me.pass.of \in Nat /\ me.pass.of # 0 /\ MaxTracked \in Nat
  BY Constants DEF IssueRow
<1>3. row \in IssueRow
  <2>1. Desired(me) \in Statuses BY DEF Desired, Statuses
  <2>2. (IF changes /\ me.reported THEN me.pass.of ELSE me.issue.first) \in 0 .. MaxTracked BY <1>2
  <2>3. (IF changes THEN me.pass.of ELSE me.issue.changed) \in 0 .. MaxTracked BY <1>2
  <2> QED BY <1>2, <2>1, <2>2, <2>3 DEF Target, IssueRow
<1> HIDE DEF row
<1>4. row # NoIssue BY <1>1, <1>2 DEF NoIssue
<1>5. me.issue.changed <= me.issue.last
  BY <1>2 DEF RowSound, NoIssue
<1>6. IF me.reported THEN me.key \in w.obs[me.pass.of] ELSE Gone(w, me.key, me.pass.of)
  BY DEF ReportSound
<1>7. CASE changes
  <2>1. /\ row.changed = me.pass.of /\ row.changed \in Tracked /\ row.last \in Tracked /\ row.changed <= row.last
    BY <1>1, <1>2, <1>7
  <2>2. \/ row.status = "open" /\ row.first = row.changed /\ me.key \in w.obs[row.changed] /\ me.key \in w.obs[row.last]
        \/ row.status = "closed" /\ Gone(w, me.key, row.changed) /\ Gone(w, me.key, row.last)
    BY <1>1, <1>6, <1>7, <2>1 DEF Desired
  <2>3. RowSound(w, me.key, row) BY <2>1, <2>2 DEF RowSound
  <2>4. Follows(row, me.issue) BY <1>1, <1>2, <1>5, <2>1 DEF Follows
  <2> QED BY <1>1, <1>3, <1>4, <1>7, <2>3, <2>4 DEF row
<1>8. CASE ~changes
  <2>1. me.issue # NoIssue BY <1>8 DEF Desired, NoIssue
  <2>2. row.changed = me.issue.changed /\ row.first = me.issue.first /\ row.status = me.issue.status
    BY <1>1, <1>8
  <2>3. RowSound(w, me.key, row)
    <3>1. /\ me.issue.changed \in Tracked
          /\ \/ me.issue.status = "open" /\ me.issue.first = me.issue.changed /\ me.key \in w.obs[me.issue.changed]
             \/ me.issue.status = "closed" /\ Gone(w, me.key, me.issue.changed)
      BY <2>1 DEF RowSound
    <3>2. row.changed <= row.last /\ row.last \in Tracked BY <1>1, <1>2, <1>5, <2>2
    <3>3. \/ row.status = "open" /\ me.key \in w.obs[row.last]
          \/ row.status = "closed" /\ Gone(w, me.key, row.last)
      BY <1>1, <1>6 DEF Desired
    <3> QED BY <2>2, <3>1, <3>2, <3>3 DEF RowSound
  <2>4. SummaryOf(row) = SummaryOf(me.issue) BY <2>2 DEF SummaryOf
  <2>5. Follows(row, me.issue) BY <1>1, <2>4 DEF Follows
  <2> QED BY <1>1, <1>3, <1>4, <2>3, <2>4, <2>5 DEF row
<1> QED BY <1>7, <1>8

LEMMA ApplyKeyKeeps ==
    ASSUME IInv, NEW a \in Actor \ {"recovery"}, ApplyKey(a)
    PROVE  IInv'
<1> USE DEF pipeline, fixes, readModels
<1> DEFINE me == actor[a]
           i == me.key
           row == Target(me)
           n == IF row.status # me.issue.status THEN Retain(me, row, me.back) ELSE Return(me, me.back)
<1>1. /\ me.at = "write" /\ UNCHANGED <<scenario, validation, verdict, observed, analyst, events, mail>>
      /\ UNCHANGED <<progress, issueSummary, openIssue>>
  BY DEF ApplyKey, Hold
<1>2. Tidy BY <1>1, QuietIsTidy DEF Quiet
<1>3. CASE Hold(a) /\ UNCHANGED issue
  BY <1>1, <1>2, <1>3, RestKeeps DEF Hold
<1>4. CASE me.fresh /\ WriteIssue(a, i, row, n)
  <2>1. /\ me \in ActorRow /\ Own(World, a, me) BY AtHand
  <2>2. /\ me.of \in Tracked /\ me.pass.of \in Tracked /\ me.pass.phase \in {"refreshing", "finalizing"}
        /\ PassSound(World, me.pass) /\ i \in Issue /\ me.back \in {"list", "next"} /\ me.issue \in IssueRow
        /\ ReportSound(World, me) /\ RowSound(World, i, me.issue) /\ PageSound(World, me)
        /\ CopySound(Stores, me) /\ HoldSound(Stores, me) /\ WriteSound(Stores, me)
        /\ me.pass.of \in Nat /\ IssueSound(World, Stores, i)
    BY <1>1, AtKey
  <2>3. me.issue.last < me.pass.of /\ i = me.pass.cursor BY <1>1, <2>1 DEF Own
  <2>4. Writer(me) BY <1>1, <1>4 DEF Writer
  <2>5. me.issue = issue[i] /\ me.pass.of = progress.of /\ i = progress.cursor
    BY <1>1, <1>4, <2>2, <2>4, AtHand DEF CopySound, WriteSound
  <2>6. /\ row \in IssueRow /\ row # NoIssue /\ RowSound(World, i, row) /\ row.last = me.pass.of
        /\ Follows(row, me.issue)
        /\ row.status = me.issue.status => SummaryOf(row) = SummaryOf(me.issue)
    BY <2>2, <2>3, TargetSound
  <2> HIDE DEF row
  <2>7. row.last <= progress.of BY <2>2, <2>5, <2>6
  <2> DEFINE s == IssueSaved(i, row)
  <2>8. /\ s.p = progress /\ s.sum = issueSummary /\ s.row = openIssue /\ s.iss[i] = row
        /\ \A j \in Issue : j # i => s.iss[j] = issue[j]
    BY <2>2, AtHand DEF IssueSaved
  <2> HIDE DEF s
  <2>9. n \in ActorRow /\ Own(World, a, n) /\ Kept(s, n) /\ ~Writer(n)
    <3>1. CASE row.status # me.issue.status
      <4> DEFINE k == Retain(me, row, me.back)
      <4>1. n = k BY <3>1
      <4>2. /\ k \in ActorRow
            /\ k.at = "log" /\ k.entry = row /\ k.then = me.back /\ k.back = me.back /\ k.key = i
            /\ k.of = me.of /\ k.pass = me.pass /\ k.current = me.current
            /\ k.keys = me.keys /\ k.room = me.room
        <5>1. me.back \in Onward BY <2>2 DEF Onward
        <5> QED BY <2>1, <2>6, <5>1, Retained
      <4> HIDE DEF k
      <4>3. PageSound(World, k) BY <1>1, <2>2, <4>2 DEF PageSound, Here
      <4>4. Own(World, a, k)
        BY <2>2, <2>6, <4>2, <4>3 DEF Own, Tracks, Recovers, Logging
      <4>5. CopySound(s, k) BY <2>8, <4>2 DEF CopySound
      <4>6. HoldSound(s, k) BY <1>1, <2>2, <2>5, <2>8, <4>2, AtHand DEF HoldSound, Passed, Logging
      <4>7. WriteSound(s, k) /\ ~Writer(k) BY <4>2 DEF WriteSound, Writer
      <4> HIDE DEF n
      <4> QED BY <4>1, <4>2, <4>4, <4>5, <4>6, <4>7 DEF Kept
    <3>2. CASE row.status = me.issue.status
      <4> DEFINE k == Return(me, me.back)
      <4>1. n = k BY <3>2
      <4>2. /\ k \in ActorRow
            /\ k.at = me.back /\ k.back = "none" /\ ~k.fresh
            /\ k.of = me.of /\ k.pass = me.pass /\ k.current = me.current
            /\ k.keys = me.keys /\ k.room = me.room
        <5>1. me.back \in Place \ {"write"} BY <2>2 DEF Place
        <5> QED BY <2>1, <5>1, Forgotten
      <4> HIDE DEF k
      <4>3. PageSound(World, k) BY <1>1, <2>2, <4>2 DEF PageSound, Here
      <4>4. Own(World, a, k)
        BY <2>2, <4>2, <4>3 DEF Own, Tracks, Recovers, Logging
      <4>5. CopySound(s, k) BY <2>2, <4>2 DEF CopySound
      <4>6. \A j \in Issue : Settled(s, j)
        <5>1. \A j \in Issue : j # i => Settled(Stores, j)
          BY <2>5, AtHand DEF IssueSound
        <5>2. \A j \in Issue : j # i => Settled(s, j)
          BY <2>8, <5>1, AtHand DEF Settled
        <5>3. Settled(Stores, i)
          <6>1. issue[i].last # progress.of
            <7>1. issue[i].last \in Nat BY <2>2, AtHand DEF IssueRow
            <7> QED BY <2>2, <2>3, <2>5, <7>1
          <6> QED BY <2>2, <6>1, AtHand DEF IssueSound
        <5>4. Settled(s, i)
          <6>1. SummaryOf(row) = SummaryOf(issue[i]) BY <2>5, <2>6, <3>2
          <6>2. row.first = issue[i].first /\ row.status = issue[i].status BY <6>1 DEF SummaryOf
          <6> QED BY <2>8, <5>3, <6>1, <6>2, AtHand DEF Settled
        <5> QED BY <5>2, <5>4
      <4>7. HoldSound(s, k)
        BY <1>1, <2>2, <2>8, <4>2, <4>6, AtHand DEF HoldSound, Logging
      <4>8. WriteSound(s, k) /\ ~Writer(k) BY <2>2, <4>2 DEF WriteSound, Writer
      <4> HIDE DEF n
      <4> QED BY <4>1, <4>2, <4>4, <4>5, <4>7, <4>8 DEF Kept
    <3> QED BY <3>1, <3>2
  <2> HIDE DEF n
  <2> QED BY <1>1, <1>2, <1>4, <2>2, <2>4, <2>5, <2>6, <2>7, <2>9, WriteKeeps DEF s
<1> QED BY <1>3, <1>4 DEF ApplyKey

\* A refresh ends with every report behind the cursor.
LEMMA EndOfPhaseSound ==
    ASSUME IInv, NEW a \in Actor, actor[a].at = "next", actor[a].keys = {}, actor[a].room = 1
    PROVE  LET row == EndOfPhase(actor[a].pass)
           IN  row \in ProgressRow /\ PassSound(World, row) /\ row.of = actor[a].pass.of
<1> DEFINE me == actor[a]
           w == World
           p == me.pass
           row == EndOfPhase(p)
<1>1. /\ me \in ActorRow /\ Own(w, a, me) BY AtHand
<1>2. /\ p.phase \in {"refreshing", "finalizing"} /\ PassSound(w, p) /\ p.of \in Tracked /\ p \in ProgressRow
      /\ p # NoProgress /\ PageSound(w, me) /\ CursorSound(w, p, p.cursor) /\ p.finalize \in BOOLEAN
      /\ p.cursor \in Nat
  BY <1>1, Constants DEF Own, Tracks, NoProgress, PassSound, ActorRow, ProgressRow
<1>3. CASE \E phase \in {"finalized", "refreshed"} : /\ row = [p EXCEPT !.phase = phase]
                                                     /\ p.finalize = (phase = "finalized")
  <2>1. PICK phase \in {"finalized", "refreshed"} : /\ row = [p EXCEPT !.phase = phase]
                                                    /\ p.finalize = (phase = "finalized")
    BY <1>3
  <2> HIDE DEF row
  <2>2. /\ row \in ProgressRow /\ row.of = p.of /\ row.cursor = p.cursor /\ row.finalize = p.finalize
        /\ row.phase = phase
    BY <1>2, <2>1 DEF ProgressRow
  <2>3. CursorSound(w, row, row.cursor) BY <1>2, <2>2 DEF CursorSound
  <2>4. PassSound(w, row) BY <1>2, <2>1, <2>2, <2>3 DEF PassSound
  <2> QED BY <2>2, <2>4 DEF row
<1>4. CASE /\ row = [p EXCEPT !.phase = "finalizing", !.cursor = 0] /\ p.phase = "refreshing"
           /\ p.finalize /\ ~p.taskWide /\ verdict[p.of] # "cancelled"
  <2>1. /\ row \in ProgressRow /\ row.of = p.of /\ row.cursor = 0 /\ row.finalize = p.finalize
        /\ row.phase = "finalizing" /\ row.taskWide = p.taskWide
    <3> HIDE DEF row
    <3>1. 0 \in 0 .. MaxIssue BY Constants
    <3>2. row \in ProgressRow BY <1>2, <1>4, <3>1 DEF ProgressRow
    <3> QED BY <1>2, <1>4, <3>2 DEF ProgressRow
  <2> HIDE DEF row
  <2>2. Completed(p.of) /\ verdict[p.of] = "passed"
    <3>1. p.of \in w.done BY <1>2, <1>4 DEF PassSound
    <3>2. Completed(p.of) BY <3>1 DEF World
    <3> QED BY <1>2, <1>4, <3>2 DEF IInv, WorldSound, Ended
  <2>3. observed[p.of] \cap TaskWide = {}
    <3> SUFFICES ASSUME NEW i \in observed[p.of] \cap TaskWide PROVE FALSE
      OBVIOUS
    <3>1. w.obs = observed /\ i \in Issue /\ i \in Nat BY <1>2, AtHand, BeganFirst, Constants
    <3>2. ~(i <= p.cursor) BY <1>2, <1>4, <3>1 DEF CursorSound
    <3>3. i > Here(me) BY <1>2, <3>1, <3>2 DEF Here
    <3> QED BY <1>2, <1>4, <3>1, <3>3 DEF PageSound
  <2>4. p.of \in w.clean BY <1>2, <2>2, <2>3 DEF World, Clean
  <2>5. PassSound(w, row)
    BY <1>2, <1>4, <2>1, <2>4 DEF PassSound, CursorSound
  <2> QED BY <2>1, <2>5 DEF row
<1>5. \/ \E phase \in {"finalized", "refreshed"} : /\ row = [p EXCEPT !.phase = phase]
                                                   /\ p.finalize = (phase = "finalized")
      \/ /\ row = [p EXCEPT !.phase = "finalizing", !.cursor = 0] /\ p.phase = "refreshing"
         /\ p.finalize /\ ~p.taskWide /\ verdict[p.of] # "cancelled"
  <2>1. CASE p.phase = "finalizing"
    <3>1. row = [p EXCEPT !.phase = "finalized"] BY <2>1 DEF EndOfPhase
    <3>2. p.finalize = ("finalized" = "finalized") BY <1>2, <2>1 DEF PassSound
    <3> QED BY <3>1, <3>2
  <2>2. CASE p.phase = "refreshing" /\ ~p.finalize
    <3>1. row = [p EXCEPT !.phase = "refreshed"] BY <2>2 DEF EndOfPhase
    <3>2. p.finalize = ("refreshed" = "finalized") BY <1>2, <2>2
    <3> QED BY <3>1, <3>2
  <2>3. CASE p.phase = "refreshing" /\ p.finalize /\ (p.taskWide \/ verdict[p.of] = "cancelled")
    <3>1. row = [p EXCEPT !.phase = "finalized"] BY <2>3 DEF EndOfPhase
    <3>2. p.finalize = ("finalized" = "finalized") BY <1>2, <2>3
    <3> QED BY <3>1, <3>2
  <2>4. CASE p.phase = "refreshing" /\ p.finalize /\ ~(p.taskWide \/ verdict[p.of] = "cancelled")
    BY <2>4 DEF EndOfPhase
  <2> QED BY <1>2, <2>1, <2>2, <2>3, <2>4
<1> QED BY <1>3, <1>4, <1>5

LEMMA EndBatchKeeps ==
    ASSUME IInv, NEW a \in Actor \ {"recovery"}, EndBatch(a)
    PROVE  IInv'
<1> USE DEF pipeline, fixes, readModels
<1> DEFINE me == actor[a]
           row == IF me.room = 1 THEN EndOfPhase(me.pass) ELSE me.pass
           next == [me EXCEPT !.at = "end"]
           n == [next EXCEPT !.pass = row, !.current = TRUE]
<1>1. /\ me.at = "next" /\ me.keys = {}
      /\ UNCHANGED <<scenario, validation, verdict, observed, analyst, events, mail>>
      /\ UNCHANGED <<issue, issueSummary, openIssue>>
  BY DEF EndBatch, Hold
<1>2. Tidy /\ Quiet BY <1>1, QuietIsTidy DEF Quiet
<1>3. /\ me \in ActorRow /\ Own(World, a, me) /\ Kept(Stores, me) BY AtHand
<1>4. /\ me.of \in Tracked /\ PassSound(World, me.pass) /\ me.pass \in ProgressRow /\ me.back = "none"
      /\ me.pass.of \in Nat
  BY <1>1, <1>3 DEF Own, Logging, ActorRow, ProgressRow
<1>5. Passed(me) /\ Written(me) BY <1>1 DEF Written, Passed
<1>6. CASE me.current /\ SaveProgress(a, row, next)
  <2>1. row \in ProgressRow /\ PassSound(World, row) /\ row.of = me.pass.of
    <3>1. CASE me.room = 1 BY <1>1, <3>1, EndOfPhaseSound
    <3>2. CASE me.room # 1 BY <1>4, <3>2
    <3> QED BY <3>1, <3>2
  <2> HIDE DEF row
  <2>2. n \in ActorRow BY <1>3, <2>1 DEF ActorRow, Place
  <2>3. n.at = "end" /\ n.of = me.of /\ n.pass = row /\ n.back = "none"
    BY <1>3, <1>4 DEF ActorRow
  <2>4. n = [next EXCEPT !.pass = row, !.current = TRUE] OBVIOUS
  <2> HIDE DEF n, next
  <2>5. Own(World, a, n)
    BY <1>4, <2>1, <2>3 DEF Own, Tracks, Recovers, Logging, PageSound
  <2>6. AllSettled /\ me.pass.of = progress.of
    BY <1>1, <1>3, <1>5, <1>6, AtHand DEF Kept, HoldSound, AllSettled
  <2>7. \A b \in Actor : ~Writer(actor[b])
    BY <1>5, <1>6 DEF IInv, Apart
  <2>8. Kept(Saved(row), n)
    <3>1. \A i \in Issue : Settled(Saved(row), i)
      BY <2>6, AtHand DEF AllSettled, Settled, Saved
    <3> QED BY <2>3, <3>1 DEF Kept, CopySound, HoldSound, WriteSound, Writer, Logging, Saved
  <2>9. progress.of <= row.of BY <1>4, <2>1, <2>6
  <2> QED BY <1>1, <1>2, <1>6, <2>1, <2>2, <2>4, <2>5, <2>6, <2>7, <2>8, <2>9, SaveKeeps
<1>7. CASE Hold(a) /\ UNCHANGED progress
  BY <1>1, <1>2, <1>7, RestKeeps DEF Hold
<1>8. CASE Goto(a, next) /\ UNCHANGED progress
  <2>1. next \in ActorRow BY <1>3 DEF ActorRow, Place
  <2>2. next.at = "end" /\ next.of = me.of /\ next.pass = me.pass /\ next.back = "none" /\ next.current = me.current
    BY <1>3, <1>4 DEF ActorRow
  <2> HIDE DEF next
  <2>3. Own(World, a, next)
    BY <1>4, <2>2 DEF Own, Tracks, Recovers, Logging, PageSound
  <2>4. Kept(Stores, next)
    BY <1>1, <1>3, <1>5, <2>2 DEF Kept, CopySound, HoldSound, WriteSound, Writer, Logging
  <2>5. ~Writer(next) BY <2>2 DEF Writer
  <2> QED BY <1>1, <1>2, <1>5, <1>8, <2>1, <2>2, <2>3, <2>4, <2>5, ReadKeeps
<1> QED BY <1>6, <1>7, <1>8 DEF EndBatch

LEMMA EndDeliveryKeeps ==
    ASSUME IInv, NEW a \in Actor \ {"recovery"}, EndDelivery(a)
    PROVE  IInv'
<1> USE DEF pipeline, fixes, readModels
<1>1. /\ UNCHANGED <<scenario, validation, verdict, observed, analyst>>
      /\ UNCHANGED <<progress, issue, issueSummary, openIssue>> /\ FinishedHistory(actor[a].pass)
      /\ Ack(a) \/ Hold(a)
  BY DEF EndDelivery
<1>2. Types BY DEF IInv
<1>3. Tidy
  <2>1. CASE Ack(a) BY <1>1, <2>1, SettleIsTidy DEF Ack
  <2>2. CASE Hold(a)
    <3>1. UNCHANGED mail /\ "gone" \in {"dead", "gone", "ready"} BY <2>2 DEF Hold
    <3> QED BY <1>1, <1>2, <3>1, HistoryIsTidy, MailIsTidy
  <2> QED BY <1>1, <2>1, <2>2
<1> QED BY <1>1, <1>3, RestKeeps DEF Ack, Settle, Hold

-----------------------------------------------------------------------------
(* The issue-log materializer.                                              *)

\* What is at hand of a handler that completes the history of a key.
LEMMA AtHistory ==
    ASSUME IInv, NEW a \in Actor, actor[a].at \in Logging
    PROVE  LET me == actor[a]
           IN  /\ me \in ActorRow /\ Own(World, a, me) /\ Kept(Stores, me) /\ Written(me)
               /\ me.of \in Tracked /\ me.key \in Issue /\ PassSound(World, me.pass) /\ PageSound(World, me)
               /\ me.at \notin {"next", "key"}
               /\ IF a = "recovery" THEN me.pass.phase = "abandoning" /\ me.then = "abandon" /\ me.back = "none"
                  ELSE /\ me.pass.phase \in {"refreshing", "finalizing"} /\ me.then = me.back
                       /\ me.back \in {"list", "next"}
               /\ IssueSound(World, Stores, me.key)
<1>1. Own(World, a, actor[a]) /\ actor[a].at # "idle" /\ actor[a].at \notin {"next", "key"}
  BY AtHand DEF Logging
<1> QED BY <1>1, AtHand DEF Own, Written, Logging

\* It stays at its key.
LEMMA HistoryGoesOn ==
    ASSUME IInv, NEW a \in Actor, actor[a].at \in Logging, NEW n,
           n.at \in {"row", "shown", "open"}, n.of = actor[a].of, n.pass = actor[a].pass,
           n.key = actor[a].key, n.back = actor[a].back, n.then = actor[a].then,
           n.keys = actor[a].keys, n.room = actor[a].room,
           n.at = "open" => SummarySound(World, n.key, n.shown) /\ n.row <= n.shown.of
    PROVE  Own(World, a, n) /\ ~Writer(n)
<1> DEFINE me == actor[a]
<1>1. /\ me.of \in Tracked /\ me.key \in Issue /\ PassSound(World, me.pass) /\ PageSound(World, me)
      /\ me.at \notin {"next", "key"}
      /\ IF a = "recovery" THEN me.pass.phase = "abandoning" /\ me.then = "abandon" /\ me.back = "none"
         ELSE /\ me.pass.phase \in {"refreshing", "finalizing"} /\ me.then = me.back
              /\ me.back \in {"list", "next"}
  BY AtHistory
<1>2. PageSound(World, n) BY <1>1 DEF PageSound, Here
<1> QED BY <1>1, <1>2 DEF Own, Tracks, Recovers, Logging, Writer

LEMMA PersistIssueLogKeeps ==
    ASSUME IInv, NEW a \in Actor, PersistIssueLog(a)
    PROVE  IInv'
<1> USE DEF pipeline, fixes, readModels
<1> DEFINE me == actor[a]
           i == me.key
           new == [status |-> me.entry.status, first |-> me.entry.first, of |-> me.entry.changed]
           old == issueSummary[i]
           n == [me EXCEPT !.at = "row", !.entry = NoIssue]
<1>1. /\ me.at = "log" /\ Quiet /\ UNCHANGED <<progress, issue, openIssue>> /\ Goto(a, n)
      /\ IF Superseded(new, old) THEN UNCHANGED issueSummary ELSE issueSummary' = [issueSummary EXCEPT ![i] = new]
  BY DEF PersistIssueLog, Quiet, MaterializeIssueSummary, UpdateIssueSummary
<1>2. /\ me \in ActorRow /\ Own(World, a, me) /\ Kept(Stores, me) /\ Written(me) /\ i \in Issue
      /\ IssueSound(World, Stores, i)
  BY <1>1, AtHistory DEF Logging
<1>3. /\ Stores \in StoresRow /\ Stores.p = progress /\ Stores.iss = issue /\ Stores.sum = issueSummary
      /\ Stores.row = openIssue /\ StoresSound(World, Stores)
      /\ issueSummary \in [Issue -> SummaryRow] /\ issue \in [Issue -> IssueRow]
  BY AtHand DEF IInv
<1>4. /\ RowSound(World, i, me.entry) /\ me.entry # NoIssue /\ me.entry \in IssueRow
      /\ SummaryOf(me.entry) = SummaryOf(issue[i]) \/ me.entry.changed < issue[i].changed
  BY <1>1, <1>2, <1>3 DEF Own, Kept, CopySound, ActorRow
<1>5. new = SummaryOf(me.entry) BY DEF SummaryOf
<1>6. /\ new \in SummaryRow /\ SummarySound(World, i, new) /\ new.of \in Tracked
      /\ \/ new.status = "open" /\ new.first = new.of
         \/ new.status = "closed" /\ Gone(World, i, new.of)
      /\ new = SummaryOf(issue[i]) \/ new.of < issue[i].changed
  <2>1. new \in SummaryRow BY <1>4 DEF IssueRow, SummaryRow
  <2>2. new.status = me.entry.status /\ new.first = me.entry.first /\ new.of = me.entry.changed OBVIOUS
  <2>3. new = SummaryOf(issue[i]) \/ new.of < issue[i].changed BY <1>4, <1>5, <2>2
  <2> HIDE DEF new
  <2>4. /\ new.of \in Tracked
        /\ \/ new.status = "open" /\ new.first = new.of /\ i \in World.obs[new.of]
           \/ new.status = "closed" /\ Gone(World, i, new.of)
    BY <1>4, <2>2 DEF RowSound
  <2> QED BY <2>1, <2>3, <2>4 DEF SummarySound
<1>7. /\ SummarySound(World, i, old) /\ (old = SummaryOf(issue[i]) \/ old.of < issue[i].changed)
      /\ old \in SummaryRow /\ old.of \in Nat /\ new.of \in Nat /\ new.of # 0
      /\ issue[i].changed \in Nat
  <2>1. old \in SummaryRow /\ issue[i] \in IssueRow BY <1>2, <1>3
  <2>2. old.of \in Nat /\ issue[i].changed \in Nat BY <2>1, Constants DEF SummaryRow, IssueRow
  <2>3. new.of \in Nat /\ new.of # 0
    <3> HIDE DEF new
    <3> QED BY <1>6, Constants
  <2>4. SummarySound(World, i, old) /\ (old = SummaryOf(issue[i]) \/ old.of < issue[i].changed)
    BY <1>2, <1>3 DEF IssueSound
  <2> HIDE DEF new, old
  <2> QED BY <2>1, <2>2, <2>3, <2>4
<1>8. SummaryOf(issue[i]).of = issue[i].changed BY DEF SummaryOf
<1>9. n \in ActorRow BY <1>2, RestTypes DEF ActorRow, Place
<1>10. /\ n.at = "row" /\ n.of = me.of /\ n.pass = me.pass /\ n.key = i /\ n.back = me.back
       /\ n.then = me.then /\ n.keys = me.keys /\ n.room = me.room /\ n.current = me.current
  BY <1>2 DEF ActorRow
<1> HIDE DEF n, new
<1>11. Own(World, a, n) /\ ~Writer(n) BY <1>1, <1>10, HistoryGoesOn DEF Logging
<1>12. me.current => new = SummaryOf(issue[i])
  BY <1>1, <1>2, <1>3, <1>5 DEF Kept, HoldSound
<1>13. CASE Superseded(new, old)
  <2>1. me.current => old = SummaryOf(issue[i])
    BY <1>7, <1>8, <1>12, <1>13 DEF Superseded
  <2>2. Kept(Stores, n)
    <3>1. HoldSound(Stores, n)
      BY <1>1, <1>2, <1>3, <1>10, <2>1 DEF Kept, HoldSound, Logging, Passed
    <3> QED BY <1>10, <3>1 DEF Kept, CopySound, WriteSound, Writer
  <2> QED BY <1>1, <1>2, <1>9, <1>10, <1>11, <1>13, <2>2, ReadKeeps
<1>14. CASE ~Superseded(new, old)
  <2>1. issueSummary' = [issueSummary EXCEPT ![i] = new] BY <1>1, <1>14
  <2>2. StoreTypes'
    BY <1>1, <1>3, <1>6, <2>1 DEF IInv, Types, StoreTypes
  <2>3. /\ Stores' \in StoresRow /\ Stores'.p = progress /\ Stores'.iss = issue
        /\ Stores'.sum = [issueSummary EXCEPT ![i] = new] /\ Stores'.row = openIssue
    BY <1>1, <2>1, <2>2 DEF StoreTypes, Stores, StoresRow
  <2>4. old.of < new.of
    <3>1. CASE old.status = "none"
      <4>1. old = NoIssueSummary BY <1>7, <3>1 DEF SummarySound
      <4> QED BY <1>7, <4>1 DEF NoIssueSummary
    <3>2. CASE old.status # "none"
      <4>1. ~(new.of < old.of) /\ new # old /\ ~(new.of = old.of /\ old.status = "closed")
        BY <1>14, <3>2 DEF Superseded
      <4>2. new.of # old.of
        <5> SUFFICES ASSUME new.of = old.of PROVE FALSE
          OBVIOUS
        <5>1. old.status = "open" /\ old.first = old.of /\ i \in World.obs[old.of]
          BY <1>7, <3>2, <4>1 DEF SummarySound, NoIssueSummary
        <5>2. new.status = "open" /\ new.first = new.of
          BY <1>6, <5>1 DEF Gone
        <5>3. new = old BY <1>6, <1>7, <5>1, <5>2 DEF SummaryRow
        <5> QED BY <4>1, <5>3
      <4> QED BY <1>7, <4>1, <4>2
    <3> QED BY <3>1, <3>2
  <2>5. Stands(Stores, Stores') /\ StoresSound(World, Stores')
    <3>1. Stores.sum[i].of < new.of BY <1>3, <2>4
    <3>2. new = SummaryOf(Stores.iss[i]) \/ new.of < Stores.iss[i].changed BY <1>3, <1>6
    <3> HIDE DEF i
    <3> QED BY <1>2, <1>3, <1>6, <2>3, <3>1, <3>2, SummaryStands
  <2>6. Kept(Stores', n)
    <3>1. issueSummary'[i] = new BY <1>2, <1>3, <2>1
    <3>2. HoldSound(Stores', n)
      BY <1>1, <1>2, <1>3, <1>10, <1>12, <2>1, <2>3, <3>1 DEF Kept, HoldSound, Logging, Passed
    <3> QED BY <1>10, <3>2 DEF Kept, CopySound, WriteSound, Writer
  <2>7. n.current /\ Written(n) => \A b \in Actor : b # a => ~Writer(actor[b])
    BY <1>2, <1>10 DEF IInv, Apart
  <2>8. Tidy BY <1>1, QuietIsTidy
  <2>9. actor' = [actor EXCEPT ![a] = n] BY <1>1 DEF Goto
  <2> QED BY <1>1, <1>9, <1>11, <2>2, <2>5, <2>6, <2>7, <2>8, <2>9, MoveKeeps
<1> QED BY <1>13, <1>14

LEMMA HistoryReadsKeep ==
    ASSUME IInv, NEW a \in Actor, ReadOpenIssue(a) \/ ReadIssueSummary(a)
    PROVE  IInv'
<1> USE DEF pipeline, fixes, readModels
<1> DEFINE me == actor[a]
           i == me.key
           n == IF me.at = "row" THEN [me EXCEPT !.at = "shown", !.row = openIssue[i]]
                ELSE [me EXCEPT !.at = "open", !.shown = issueSummary[i]]
<1>1. /\ me.at \in {"row", "shown"} /\ Quiet /\ UNCHANGED <<progress, issue, issueSummary, openIssue>>
      /\ Goto(a, n)
  BY DEF ReadOpenIssue, ReadIssueSummary, Quiet
<1>2. /\ me \in ActorRow /\ Own(World, a, me) /\ Kept(Stores, me) /\ Written(me) /\ i \in Issue
      /\ IssueSound(World, Stores, i)
  BY <1>1, AtHistory DEF Logging
<1>3. /\ Stores.p = progress /\ Stores.iss = issue /\ Stores.sum = issueSummary /\ Stores.row = openIssue
      /\ issueSummary \in [Issue -> SummaryRow] /\ openIssue \in [Issue -> 0 .. MaxTracked]
  BY AtHand
<1>4. issueSummary[i].of \in Nat /\ openIssue[i] \in Nat /\ me.row \in Nat
  <2>1. issueSummary[i] \in SummaryRow /\ openIssue[i] \in 0 .. MaxTracked BY <1>2, <1>3
  <2>2. issueSummary[i].of \in 0 .. MaxTracked BY <2>1 DEF SummaryRow
  <2>3. me.row \in 0 .. MaxTracked BY <1>2 DEF ActorRow
  <2> QED BY <2>1, <2>2, <2>3, Constants
<1>5. n \in ActorRow /\ n.of = me.of /\ n.pass = me.pass /\ n.key = i /\ n.back = me.back
      /\ n.then = me.then /\ n.keys = me.keys /\ n.room = me.room /\ n.current = me.current
      /\ IF me.at = "row" THEN n.at = "shown" /\ n.row = openIssue[i]
         ELSE n.at = "open" /\ n.shown = issueSummary[i] /\ n.row = me.row
  <2>1. CASE me.at = "row"
    <3> DEFINE k == [me EXCEPT !.at = "shown", !.row = openIssue[i]]
    <3>1. n = k BY <2>1
    <3>2. openIssue[i] \in 0 .. MaxTracked BY <1>2, <1>3
    <3>3. k \in ActorRow BY <1>2, <3>2 DEF ActorRow, Place
    <3>4. /\ k.of = me.of /\ k.pass = me.pass /\ k.key = i /\ k.back = me.back
          /\ k.then = me.then /\ k.keys = me.keys /\ k.room = me.room /\ k.current = me.current
          /\ k.at = "shown" /\ k.row = openIssue[i]
      BY <1>2 DEF ActorRow
    <3> HIDE DEF n, k
    <3> QED BY <2>1, <3>1, <3>3, <3>4
  <2>2. CASE me.at = "shown"
    <3> DEFINE k == [me EXCEPT !.at = "open", !.shown = issueSummary[i]]
    <3>1. n = k BY <2>2
    <3>2. issueSummary[i] \in SummaryRow BY <1>2, <1>3
    <3>3. k \in ActorRow BY <1>2, <3>2 DEF ActorRow, Place
    <3>4. /\ k.of = me.of /\ k.pass = me.pass /\ k.key = i /\ k.back = me.back
          /\ k.then = me.then /\ k.keys = me.keys /\ k.room = me.room /\ k.current = me.current
          /\ k.at = "open" /\ k.shown = issueSummary[i] /\ k.row = me.row
      BY <1>2 DEF ActorRow
    <3> HIDE DEF n, k
    <3> QED BY <2>2, <3>1, <3>3, <3>4
  <2> QED BY <1>1, <2>1, <2>2
<1> HIDE DEF n
<1>6. n.at = "open" => SummarySound(World, n.key, n.shown) /\ n.row <= n.shown.of
  BY <1>1, <1>2, <1>3, <1>4, <1>5 DEF IssueSound, Kept, CopySound
<1>7. Own(World, a, n) /\ ~Writer(n)
  BY <1>1, <1>5, <1>6, HistoryGoesOn DEF Logging
<1>8. Kept(Stores, n)
  <2>1. CopySound(Stores, n)
    <3>1. CASE me.at = "row"
      <4>1. n.at = "shown" /\ n.row = openIssue[i] /\ n.key = i BY <1>5, <3>1
      <4>2. openIssue[i] <= issueSummary[i].of BY <1>2, <1>3 DEF IssueSound
      <4> QED BY <1>3, <4>1, <4>2 DEF CopySound
    <3>2. CASE me.at = "shown" BY <1>2, <1>3, <1>5, <3>2 DEF Kept, CopySound
    <3> QED BY <1>1, <3>1, <3>2
  <2>2. HoldSound(Stores, n)
    BY <1>1, <1>2, <1>3, <1>5 DEF Kept, HoldSound, Logging, Passed
  <2>3. WriteSound(Stores, n) BY <1>7 DEF WriteSound
  <2> QED BY <2>1, <2>2, <2>3 DEF Kept
<1> QED BY <1>1, <1>2, <1>5, <1>7, <1>8, ReadKeeps

\* The row that was read is not the one that the summary asks for.
LEMMA StaleRow ==
    ASSUME IInv, NEW a \in Actor, actor[a].at = "open"
    PROVE  LET me == actor[a]
               sum == issueSummary[me.key]
               want == IF me.shown.status = "open" THEN me.shown.first ELSE 0
           IN  /\ want \in 0 .. MaxTracked /\ want <= sum.of
               /\ me.row # want /\ sum.status = "open" => me.row # sum.of
               /\ me.row = want /\ me.shown = sum /\ sum.status = "open" => openIssue[me.key] = sum.first
<1> DEFINE me == actor[a]
           i == me.key
           sum == issueSummary[i]
           want == IF me.shown.status = "open" THEN me.shown.first ELSE 0
<1>1. /\ me \in ActorRow /\ Own(World, a, me) /\ Kept(Stores, me) /\ i \in Issue
      /\ IssueSound(World, Stores, i)
  BY AtHistory DEF Logging
<1>2. /\ Stores.sum = issueSummary /\ Stores.row = openIssue /\ sum \in SummaryRow
  BY <1>1, AtHand
<1>3. /\ SummarySound(World, i, me.shown) /\ me.row <= me.shown.of
      /\ me.shown = sum \/ me.shown.of < sum.of
      /\ SummarySound(World, i, sum)
      /\ me.row # 0 /\ me.row = sum.of /\ sum.status = "open" => openIssue[i] = me.row
  BY <1>1, <1>2 DEF Own, Kept, CopySound, IssueSound
<1>4. /\ me.shown \in SummaryRow /\ me.row \in 0 .. MaxTracked
      /\ me.shown.first \in 0 .. MaxTracked /\ me.shown.of \in 0 .. MaxTracked /\ sum.of \in 0 .. MaxTracked
  <2>1. me.shown \in SummaryRow /\ me.row \in 0 .. MaxTracked BY <1>1 DEF ActorRow
  <2> QED BY <1>2, <2>1 DEF SummaryRow
<1>5. /\ me.row \in Nat /\ me.shown.of \in Nat /\ sum.of \in Nat
  BY <1>4, Constants
<1> HIDE DEF sum
<1>6. me.shown.status = "open" => me.shown.first = me.shown.of /\ me.shown.of # 0
  BY <1>3, Constants DEF SummarySound, NoIssueSummary
<1>7. sum.status = "open" => sum.first = sum.of /\ sum.of # 0
  BY <1>3, Constants DEF SummarySound, NoIssueSummary
<1>8. want \in 0 .. MaxTracked /\ want <= sum.of
  BY <1>3, <1>4, <1>5, <1>6, Constants
<1>9. sum.status = "open" /\ me.row = sum.of => me.row = want
  <2> SUFFICES ASSUME sum.status = "open", me.row = sum.of PROVE me.row = want
    OBVIOUS
  <2>1. me.shown = sum BY <1>3, <1>5
  <2> QED BY <1>7, <2>1
<1>10. me.row = want /\ me.shown = sum /\ sum.status = "open" => openIssue[i] = sum.first
  BY <1>3, <1>6, <1>7
<1> QED BY <1>8, <1>9, <1>10 DEF sum

LEMMA MaterializeOpenIssueKeeps ==
    ASSUME IInv, NEW a \in Actor, MaterializeOpenIssue(a)
    PROVE  IInv'
<1> USE DEF pipeline, fixes, readModels
<1> DEFINE me == actor[a]
           i == me.key
           want == IF me.shown.status = "open" THEN me.shown.first ELSE 0
<1>1. /\ me.at = "open" /\ Quiet /\ UNCHANGED <<progress, issue, issueSummary>>
  BY DEF MaterializeOpenIssue, Quiet
<1>2. /\ me \in ActorRow /\ Own(World, a, me) /\ Kept(Stores, me) /\ Written(me) /\ i \in Issue
      /\ IssueSound(World, Stores, i) /\ me.of \in Tracked /\ PassSound(World, me.pass) /\ PageSound(World, me)
      /\ IF a = "recovery" THEN me.pass.phase = "abandoning" /\ me.then = "abandon" /\ me.back = "none"
         ELSE /\ me.pass.phase \in {"refreshing", "finalizing"} /\ me.then = me.back
              /\ me.back \in {"list", "next"}
  BY <1>1, AtHistory DEF Logging
<1>3. /\ Stores \in StoresRow /\ Stores.p = progress /\ Stores.iss = issue /\ Stores.sum = issueSummary
      /\ Stores.row = openIssue /\ StoresSound(World, Stores)
      /\ openIssue \in [Issue -> 0 .. MaxTracked] /\ issueSummary \in [Issue -> SummaryRow]
      /\ \A j \in Issue : IssueSound(World, Stores, j)
  BY AtHand DEF IInv
<1>4. /\ want \in 0 .. MaxTracked /\ want <= issueSummary[i].of
      /\ me.row # want /\ issueSummary[i].status = "open" => me.row # issueSummary[i].of
      /\ me.row = want /\ me.shown = issueSummary[i] /\ issueSummary[i].status = "open" =>
            openIssue[i] = issueSummary[i].first
  BY <1>1, StaleRow
<1> HIDE DEF want
<1>5. me.current => /\ me.pass.of = progress.of /\ me.pass.phase = progress.phase /\ i = progress.cursor
                    /\ issueSummary[i] = SummaryOf(issue[i]) /\ me.shown = issueSummary[i]
  BY <1>1, <1>2, <1>3 DEF Kept, HoldSound, Logging
<1>6. CASE me.row = want /\ UNCHANGED openIssue /\ Goto(a, Return(me, me.then))
  <2> DEFINE n == Return(me, me.then)
  <2>1. /\ n \in ActorRow
        /\ n.at = me.then /\ n.back = "none" /\ ~n.fresh
        /\ n.of = me.of /\ n.pass = me.pass /\ n.current = me.current
        /\ n.keys = me.keys /\ n.room = me.room
    <3>1. me.then \in Place \ {"write"} BY <1>2 DEF Place
    <3> QED BY <1>2, <3>1, Forgotten
  <2> HIDE DEF n
  <2>2. n.at \in {"list", "next", "abandon"} BY <1>2, <2>1
  <2>3. PageSound(World, n) BY <1>1, <1>2, <2>1 DEF PageSound, Here
  <2>4. Own(World, a, n)
    BY <1>2, <2>1, <2>3 DEF Own, Tracks, Recovers, Logging
  <2>5. me.current => \A j \in Issue : Settled(Stores, j)
    <3> SUFFICES ASSUME me.current, NEW j \in Issue PROVE Settled(Stores, j)
      OBVIOUS
    <3>1. CASE j # i BY <1>3, <1>5, <3>1 DEF IssueSound
    <3>2. CASE j = i
      <4>1. /\ issueSummary[i].status = issue[i].status /\ issueSummary[i].first = issue[i].first
        BY <1>5 DEF SummaryOf
      <4>2. issue[i].status = "open" => openIssue[i] = issue[i].first
        BY <1>4, <1>5, <1>6, <4>1
      <4> QED BY <1>3, <1>5, <3>2, <4>2 DEF Settled
    <3> QED BY <3>1, <3>2
  <2>6. Kept(Stores, n)
    BY <1>3, <1>5, <2>1, <2>2, <2>5 DEF Kept, CopySound, HoldSound, WriteSound, Writer, Logging
  <2>7. ~Writer(n) BY <2>1 DEF Writer
  <2> QED BY <1>1, <1>2, <1>6, <2>1, <2>4, <2>6, <2>7, ReadKeeps DEF n
<1>7. CASE /\ me.row # want /\ Goto(a, [me EXCEPT !.at = "row"])
           /\ openIssue' = IF openIssue[i] = me.row THEN [openIssue EXCEPT ![i] = want] ELSE openIssue
  <2> DEFINE n == [me EXCEPT !.at = "row"]
  <2>1. n \in ActorRow BY <1>2 DEF ActorRow, Place
  <2>2. /\ n.at = "row" /\ n.of = me.of /\ n.pass = me.pass /\ n.key = i /\ n.back = me.back
        /\ n.then = me.then /\ n.keys = me.keys /\ n.room = me.room /\ n.current = me.current
    BY <1>2 DEF ActorRow
  <2> HIDE DEF n
  <2>3. Own(World, a, n) /\ ~Writer(n) BY <1>1, <2>2, HistoryGoesOn DEF Logging
  <2>4. n.current /\ Written(n) => \A b \in Actor : b # a => ~Writer(actor[b])
    BY <1>2, <2>2 DEF IInv, Apart
  <2>5. StoreTypes' BY <1>1, <1>3, <1>4, <1>7 DEF IInv, Types, StoreTypes
  <2>6. /\ Stores' \in StoresRow /\ Stores'.p = progress /\ Stores'.iss = issue
        /\ Stores'.sum = issueSummary /\ Stores'.row = openIssue'
    BY <1>1, <2>5 DEF StoreTypes, Stores, StoresRow
  <2>7. Stands(Stores, Stores') /\ StoresSound(World, Stores')
    <3>1. CASE openIssue[i] = me.row
      <4>1. Stores'.row = [Stores.row EXCEPT ![i] = want] BY <1>3, <1>7, <2>6, <3>1
      <4>2. /\ want <= Stores.sum[i].of
            /\ Stores.sum[i].status = "open" => Stores.row[i] # Stores.sum[i].of
        BY <1>3, <1>4, <1>7, <3>1
      <4> HIDE DEF i
      <4> QED BY <1>2, <1>3, <1>4, <2>6, <4>1, <4>2, OpenRowStands
    <3>2. CASE openIssue[i] # me.row
      <4>1. Stores' = Stores BY <1>1, <1>7, <3>2 DEF Stores
      <4> QED BY <1>3, <4>1 DEF Stands
    <3> QED BY <3>1, <3>2
  <2>8. Kept(Stores', n)
    <3>1. HoldSound(Stores', n)
      BY <1>5, <2>2, <2>6 DEF HoldSound, Logging, Passed
    <3> QED BY <2>2, <3>1 DEF Kept, CopySound, WriteSound, Writer
  <2>9. Tidy BY <1>1, QuietIsTidy
  <2>10. actor' = [actor EXCEPT ![a] = n] BY <1>7 DEF Goto, n
  <2> QED BY <1>1, <2>1, <2>3, <2>4, <2>5, <2>7, <2>8, <2>9, <2>10, MoveKeeps
<1>8. \/ me.row = want /\ UNCHANGED openIssue /\ Goto(a, Return(me, me.then))
      \/ /\ me.row # want /\ Goto(a, [me EXCEPT !.at = "row"])
         /\ openIssue' = IF openIssue[i] = me.row THEN [openIssue EXCEPT ![i] = want] ELSE openIssue
  BY DEF MaterializeOpenIssue, CreateOpenIssue, DeleteOpenIssue, ReplaceOpenIssue, want
<1> QED BY <1>6, <1>7, <1>8

-----------------------------------------------------------------------------
(* The dead letters of tracking.                                            *)

LEMMA AbandonPassKeeps ==
    ASSUME IInv, NEW r \in Tracked, AbandonPass(r)
    PROVE  IInv'
<1> USE DEF pipeline, fixes, readModels
<1> DEFINE p == progress
           over == p.phase \in {"finalized", "abandoned"}
           mine == [NoProgress EXCEPT !.of = r]
           base == IF p.phase = "none" \/ over THEN mine ELSE p
           row == [base EXCEPT !.phase = "abandoning", !.finalize = TRUE]
           next == [AtRest EXCEPT !.of = r, !.at = "fence"]
           n == [next EXCEPT !.pass = row, !.current = TRUE]
<1>1. /\ UNCHANGED <<scenario, validation, verdict, observed, analyst>> /\ FinishedHistory(p)
      /\ UNCHANGED <<issue, issueSummary, openIssue>>
  BY DEF AbandonPass
<1>2. Types BY DEF IInv
<1>3. CASE UNCHANGED <<progress, actor>> /\ mail' = [mail EXCEPT ![r] = "gone"]
  <2>1. Tidy
    <3>1. "gone" \in {"dead", "gone", "ready"} OBVIOUS
    <3> QED BY <1>1, <1>2, <1>3, <3>1, HistoryIsTidy, MailIsTidy
  <2> QED BY <1>1, <1>3, <2>1, TidyElsewhereKeeps DEF Elsewhere
<1>4. CASE /\ SaveProgress("recovery", row, next) /\ UNCHANGED mail
           /\ p.phase # "none" => ~(r < p.of) /\ ~(over /\ r = p.of)
  <2>1. /\ p \in ProgressRow /\ PassSound(World, p) /\ Stores.p = p /\ r \in 0 .. MaxTracked /\ r \in Nat
        /\ \A i \in Issue : IssueSound(World, Stores, i)
    BY StoresAtHand, Constants
  <2>2. /\ base \in ProgressRow /\ base.of \in Tracked /\ CursorSound(World, base, base.cursor)
        /\ p.of <= base.of
        /\ base = p \/ (p.phase \notin Active /\ base.cursor = 0)
    <3>1. CASE p.phase = "none" \/ over
      <4>1. base = mine BY <3>1
      <4>2. mine \in ProgressRow /\ mine.of = r /\ mine.cursor = 0 /\ mine.phase = "none"
        BY <2>1, RestTypes DEF ProgressRow, NoProgress
      <4>3. p.of <= r
        <5>1. p.phase = "none" => p.of = 0 BY <2>1 DEF PassSound, NoProgress
        <5>2. p.of \in Nat BY <2>1, Constants DEF ProgressRow
        <5> QED BY <1>4, <2>1, <5>1, <5>2
      <4> HIDE DEF mine, base
      <4> QED BY <3>1, <4>1, <4>2, <4>3 DEF CursorSound, Active
    <3>2. CASE ~(p.phase = "none" \/ over)
      <4>1. base = p BY <3>2
      <4>2. p # NoProgress BY <3>2 DEF NoProgress
      <4>3. p.of \in Nat BY <2>1, Constants DEF ProgressRow
      <4> HIDE DEF base
      <4> QED BY <2>1, <4>1, <4>2, <4>3 DEF PassSound
    <3> QED BY <3>1, <3>2
  <2> HIDE DEF base
  <2>3. /\ row \in ProgressRow /\ row.of = base.of /\ row.cursor = base.cursor /\ row.phase = "abandoning"
    BY <2>2 DEF ProgressRow
  <2> HIDE DEF row
  <2>4. PassSound(World, row) BY <2>2, <2>3 DEF PassSound, CursorSound
  <2>5. n \in ActorRow BY <2>1, <2>3, RestTypes DEF ActorRow, Place
  <2>6. /\ n.at = "fence" /\ n.of = r /\ n.pass = row /\ n.back = "none" /\ ~n.fresh
    BY DEF AtRest
  <2>7. n = [next EXCEPT !.pass = row, !.current = TRUE] OBVIOUS
  <2> HIDE DEF n, next
  <2>8. Own(World, "recovery", n)
    BY <2>3, <2>4, <2>6 DEF Own, Tracks, Recovers, Logging, PageSound
  <2>9. Kept(Saved(row), n)
    BY <2>6 DEF Kept, CopySound, HoldSound, WriteSound, Writer, Passed, Logging, Saved
  <2>10. ~Written(n) BY <2>6 DEF Written, Passed, Logging
  <2>11. p.phase \notin Active => AllSettled /\ \A b \in Actor : ~Writer(actor[b])
    BY <2>1, AtHand DEF AllSettled, IssueSound, Kept, WriteSound
  <2>12. p.phase \in Active => SameKey(row) BY <2>2, <2>3 DEF SameKey
  <2>13. Tidy
    <3>1. "gone" \in {"dead", "gone", "ready"} OBVIOUS
    <3> QED BY <1>1, <1>2, <1>4, <3>1, HistoryIsTidy, MailIsTidy
  <2>14. "recovery" \in Actor BY DEF Actor
  <2> QED BY <1>1, <1>4, <2>2, <2>3, <2>4, <2>5, <2>7, <2>8, <2>9, <2>10, <2>11, <2>12, <2>13, <2>14, SaveKeeps
<1>5. \/ UNCHANGED <<progress, actor>> /\ mail' = [mail EXCEPT ![r] = "gone"]
      \/ /\ SaveProgress("recovery", row, next) /\ UNCHANGED mail
         /\ p.phase # "none" => ~(r < p.of) /\ ~(over /\ r = p.of)
  BY DEF AbandonPass
<1> QED BY <1>3, <1>4, <1>5

\* What is at hand of the abandonment.
LEMMA AtFence ==
    ASSUME IInv, Recovers(actor["recovery"])
    PROVE  LET me == actor["recovery"]
           IN  /\ "recovery" \in Actor /\ me \in ActorRow
               /\ Own(World, "recovery", me) /\ Kept(Stores, me)
               /\ me.of \in Tracked /\ me.pass.of \in Tracked /\ me.pass.of \in Nat /\ me.pass.phase = "abandoning"
               /\ me.pass \in ProgressRow /\ PassSound(World, me.pass) /\ me.back = "none"
               /\ CursorSound(World, me.pass, me.pass.cursor)
<1> DEFINE me == actor["recovery"]
<1>1. "recovery" \in Actor BY DEF Actor
<1>2. me \in ActorRow /\ Own(World, "recovery", me) /\ Kept(Stores, me) BY <1>1, AtHand
<1>3. /\ me.pass.phase = "abandoning" /\ me.of \in Tracked /\ PassSound(World, me.pass) /\ me.back = "none"
  BY <1>2 DEF Own, Recovers
<1>4. me.pass \in ProgressRow /\ me.pass.of \in Tracked /\ CursorSound(World, me.pass, me.pass.cursor)
  BY <1>2, <1>3 DEF PassSound, NoProgress, ActorRow
<1> QED BY <1>1, <1>2, <1>3, <1>4, Constants

LEMMA ReadFenceKeeps ==
    ASSUME IInv, ReadFence("recovery")
    PROVE  IInv'
<1> USE DEF pipeline, fixes, readModels
<1> DEFINE me == actor["recovery"]
           c == me.pass.cursor
<1>1. /\ me.at = "fence" /\ Quiet /\ UNCHANGED <<progress, issue, issueSummary, openIssue>>
  BY DEF ReadFence, Quiet
<1>2. /\ "recovery" \in Actor /\ me \in ActorRow /\ Own(World, "recovery", me) /\ Kept(Stores, me)
      /\ me.of \in Tracked /\ me.pass.phase = "abandoning" /\ me.pass \in ProgressRow
      /\ PassSound(World, me.pass) /\ me.back = "none"
  BY <1>1, AtFence DEF Recovers
<1>3. me.current => /\ me.pass.of = progress.of /\ me.pass.phase = progress.phase /\ c = progress.cursor
  BY <1>1, <1>2, AtHand DEF Kept, HoldSound
<1>4. CASE c = 0
  <2> DEFINE n == [me EXCEPT !.at = "abandon"]
  <2>1. n \in ActorRow BY <1>2 DEF ActorRow, Place
  <2>2. /\ n.at = "abandon" /\ n.of = me.of /\ n.pass = me.pass /\ n.current = me.current /\ n.back = "none"
    BY <1>2 DEF ActorRow
  <2>3. Goto("recovery", n) BY <1>4 DEF ReadFence
  <2> HIDE DEF n
  <2>4. Own(World, "recovery", n)
    BY <1>2, <2>2 DEF Own, Tracks, Recovers, Logging, PageSound
  <2>5. me.current => \A i \in Issue : Settled(Stores, i)
    <3>1. 0 \notin Issue BY Constants
    <3> QED BY <1>3, <1>4, <3>1, StoresAtHand DEF IssueSound
  <2>6. Kept(Stores, n)
    BY <1>3, <2>2, <2>5, StoresAtHand DEF Kept, CopySound, HoldSound, WriteSound, Writer, Logging
  <2>7. me.current => \A b \in Actor : ~Writer(actor[b])
    <3> SUFFICES ASSUME me.current, NEW b \in Actor, Writer(actor[b]) PROVE FALSE
      OBVIOUS
    <3>1. actor[b].key = 0 BY <1>3, <1>4, AtHand DEF Kept, WriteSound
    <3>2. actor[b].key \in Issue BY AtHand DEF Own, Writer
    <3> QED BY <3>1, <3>2, Constants
  <2>8. ~Writer(n) BY <2>2 DEF Writer
  <2> QED BY <1>1, <1>2, <2>1, <2>2, <2>3, <2>4, <2>6, <2>7, <2>8, ReadKeeps
<1>5. CASE c # 0
  <2> DEFINE n == [me EXCEPT !.at = "guard", !.key = c, !.issue = issue[c], !.fresh = TRUE]
  <2>1. /\ c \in Issue /\ c \in 0 .. MaxIssue BY <1>2, <1>5, Constants DEF ProgressRow
  <2>2. issue[c] \in IssueRow /\ RowSound(World, c, issue[c]) BY <2>1, StoresAtHand DEF IssueSound
  <2>3. n \in ActorRow BY <1>2, <2>1, <2>2 DEF ActorRow, Place
  <2>4. /\ n.at = "guard" /\ n.of = me.of /\ n.pass = me.pass /\ n.current = me.current /\ n.back = "none"
        /\ n.key = c /\ n.issue = issue[c]
    BY <1>2 DEF ActorRow
  <2>5. Goto("recovery", n) BY <1>5 DEF ReadFence, GetIssue
  <2> HIDE DEF n
  <2>6. Own(World, "recovery", n)
    BY <1>2, <2>1, <2>2, <2>4 DEF Own, Tracks, Recovers, Logging, PageSound
  <2>7. Kept(Stores, n)
    <3>1. CopySound(Stores, n) BY <2>4, StoresAtHand DEF CopySound, Follows
    <3>2. HoldSound(Stores, n) BY <1>3, <2>4, StoresAtHand DEF HoldSound, Logging, Passed
    <3>3. WriteSound(Stores, n) BY <2>4 DEF WriteSound, Writer
    <3> QED BY <3>1, <3>2, <3>3 DEF Kept
  <2>8. ~Writer(n) /\ ~Written(n) BY <2>4 DEF Writer, Written, Passed, Logging
  <2> QED BY <1>1, <1>2, <2>3, <2>5, <2>6, <2>7, <2>8, ReadKeeps
<1> QED BY <1>4, <1>5

LEMMA GuardFenceKeeps ==
    ASSUME IInv, GuardFence("recovery")
    PROVE  IInv'
<1> USE DEF pipeline, fixes, readModels
<1> DEFINE me == actor["recovery"]
           row == me.pass
           next == [me EXCEPT !.at = "refence"]
           n == [next EXCEPT !.pass = row, !.current = TRUE]
<1>1. /\ me.at = "guard" /\ UNCHANGED <<scenario, validation, verdict, observed, analyst, events, mail>>
      /\ UNCHANGED <<issue, issueSummary, openIssue>>
      /\ IF me.current THEN SaveProgress("recovery", row, next) ELSE Goto("recovery", AtRest) /\ UNCHANGED progress
  BY DEF GuardFence
<1>2. /\ "recovery" \in Actor /\ me \in ActorRow /\ Own(World, "recovery", me) /\ Kept(Stores, me)
      /\ me.of \in Tracked /\ me.pass.phase = "abandoning" /\ me.pass \in ProgressRow
      /\ PassSound(World, me.pass) /\ me.back = "none" /\ me.pass.of \in Nat
  BY <1>1, AtFence DEF Recovers
<1>3. Tidy BY <1>1, QuietIsTidy DEF Quiet
<1>4. CASE ~me.current BY <1>1, <1>2, <1>3, <1>4, RestKeeps
<1>5. CASE me.current
  <2>1. /\ me.pass.of = progress.of /\ me.pass.phase = progress.phase /\ me.pass.cursor = progress.cursor
    BY <1>1, <1>2, <1>5, AtHand DEF Kept, HoldSound
  <2>2. me.key = row.cursor /\ me.key \in Issue /\ RowSound(World, me.key, me.issue)
    BY <1>1, <1>2 DEF Own
  <2>3. n \in ActorRow BY <1>2 DEF ActorRow, Place
  <2>4. /\ n.at = "refence" /\ n.of = me.of /\ n.pass = row /\ n.back = "none" /\ n.key = me.key
        /\ n.issue = me.issue /\ n.fresh = me.fresh
    BY <1>2 DEF ActorRow
  <2>5. n = [next EXCEPT !.pass = row, !.current = TRUE] OBVIOUS
  <2> HIDE DEF n, next
  <2>6. Own(World, "recovery", n)
    BY <1>2, <2>2, <2>4 DEF Own, Tracks, Recovers, Logging, PageSound
  <2>7. Kept(Saved(row), n)
    <3>1. CopySound(Saved(row), n) BY <1>1, <1>2, <2>4, AtHand DEF Kept, CopySound, Saved
    <3>2. HoldSound(Saved(row), n) BY <2>4 DEF HoldSound, Logging, Passed, Saved
    <3>3. WriteSound(Saved(row), n) BY <1>2, <2>2, <2>4 DEF WriteSound, Writer, Saved, Active
    <3> QED BY <3>1, <3>2, <3>3 DEF Kept
  <2>8. ~Written(n) BY <2>4 DEF Written, Passed, Logging
  <2>9. SameKey(row) BY <1>2, <2>1 DEF SameKey, Active
  <2>10. progress.of <= row.of BY <1>2, <2>1
  <2> QED BY <1>1, <1>2, <1>3, <1>5, <2>3, <2>5, <2>6, <2>7, <2>8, <2>9, <2>10, SaveKeeps
<1> QED BY <1>4, <1>5

LEMMA WriteFenceKeeps ==
    ASSUME IInv, WriteFence("recovery")
    PROVE  IInv'
<1> USE DEF pipeline, fixes, readModels
<1> DEFINE me == actor["recovery"]
           i == me.key
           opened == [status |-> "open", first |-> me.pass.of, last |-> me.pass.of, changed |-> me.pass.of]
           row == IF me.issue = NoIssue THEN opened ELSE me.issue
           n == Retain(me, row, "abandon")
<1>1. /\ me.at = "refence" /\ UNCHANGED <<scenario, validation, verdict, observed, analyst, events, mail>>
      /\ UNCHANGED <<progress, issueSummary, openIssue>>
      /\ IF me.fresh THEN WriteIssue("recovery", i, row, n) ELSE Goto("recovery", AtRest) /\ UNCHANGED issue
  BY DEF WriteFence
<1>2. /\ "recovery" \in Actor /\ me \in ActorRow /\ Own(World, "recovery", me) /\ Kept(Stores, me)
      /\ me.of \in Tracked /\ me.pass.phase = "abandoning" /\ me.pass \in ProgressRow
      /\ PassSound(World, me.pass) /\ me.back = "none" /\ me.pass.of \in Nat /\ me.pass.of \in Tracked
      /\ CursorSound(World, me.pass, me.pass.cursor)
  BY <1>1, AtFence DEF Recovers
<1>3. Tidy BY <1>1, QuietIsTidy DEF Quiet
<1>4. CASE ~me.fresh BY <1>1, <1>2, <1>3, <1>4, RestKeeps
<1>5. CASE me.fresh
  <2>1. i \in Issue /\ i = me.pass.cursor /\ RowSound(World, i, me.issue) BY <1>1, <1>2 DEF Own
  <2>2. Writer(me) BY <1>1, <1>5 DEF Writer
  <2>3. me.issue = issue[i] /\ me.pass.of = progress.of /\ i = progress.cursor
    BY <1>1, <1>2, <1>5, <2>2, StoresAtHand DEF Kept, CopySound, WriteSound
  <2>4. issue[i] \in IssueRow /\ IssueSound(World, Stores, i) BY <2>1, StoresAtHand
  <2>5. /\ row \in IssueRow /\ row # NoIssue /\ RowSound(World, i, row) /\ Follows(row, issue[i])
        /\ row.last <= progress.of /\ (row = issue[i] \/ row.last = progress.of)
    <3>1. CASE me.issue # NoIssue
      <4>1. issue[i].last <= progress.of BY <2>4, StoresAtHand DEF IssueSound
      <4> QED BY <2>1, <2>3, <2>4, <3>1, <4>1 DEF Follows
    <3>2. CASE me.issue = NoIssue
      <4>1. row = opened BY <3>2
      <4>2. /\ opened.status = "open" /\ opened.first = me.pass.of /\ opened.last = me.pass.of
            /\ opened.changed = me.pass.of
        OBVIOUS
      <4>3. opened \in IssueRow BY <1>2, Constants DEF IssueRow, Statuses
      <4> HIDE DEF opened, row
      <4>4. opened # NoIssue BY <4>2 DEF NoIssue
      <4>5. i \in World.obs[me.pass.of]
        <5>1. i \notin World.known BY <2>1, <2>3, <3>2, BeganFirst
        <5>2. i # 0 BY <2>1, Constants
        <5> QED BY <1>2, <2>1, <5>1, <5>2 DEF CursorSound
      <4>6. RowSound(World, i, opened) BY <1>2, <4>2, <4>5 DEF RowSound
      <4>7. Follows(opened, issue[i])
        <5>1. NoIssue.last = 0 /\ NoIssue.changed = 0 BY DEF NoIssue
        <5>2. 0 < me.pass.of BY <1>2, Constants
        <5> QED BY <2>3, <3>2, <4>2, <5>1, <5>2 DEF Follows
      <4> QED BY <1>2, <2>3, <4>1, <4>2, <4>3, <4>4, <4>6, <4>7
    <3> QED BY <3>1, <3>2
  <2> HIDE DEF row
  <2>6. /\ n \in ActorRow
        /\ n.at = "log" /\ n.entry = row /\ n.then = "abandon" /\ n.back = "none" /\ n.key = i
        /\ n.of = me.of /\ n.pass = me.pass /\ n.current = me.current
    <3>1. "abandon" \in Onward BY DEF Onward
    <3> QED BY <1>2, <2>5, <3>1, Retained
  <2> HIDE DEF n
  <2>7. Own(World, "recovery", n)
    BY <1>2, <2>1, <2>5, <2>6 DEF Own, Tracks, Recovers, Logging, PageSound
  <2> DEFINE s == IssueSaved(i, row)
  <2>8. /\ s.p = progress /\ s.iss[i] = row BY <2>1, StoresAtHand DEF IssueSaved
  <2> HIDE DEF s
  <2>9. Kept(s, n)
    <3>1. CopySound(s, n) BY <2>6, <2>8 DEF CopySound
    <3>2. me.current => me.pass.phase = progress.phase
      BY <1>1, <1>2, StoresAtHand DEF Kept, HoldSound
    <3>3. HoldSound(s, n) BY <2>3, <2>6, <2>8, <3>2 DEF HoldSound, Passed, Logging
    <3>4. WriteSound(s, n) BY <2>6 DEF WriteSound, Writer
    <3> QED BY <3>1, <3>3, <3>4 DEF Kept
  <2>10. ~Writer(n) BY <2>6 DEF Writer
  <2> QED BY <1>1, <1>2, <1>3, <1>5, <2>1, <2>2, <2>5, <2>6, <2>7, <2>9, <2>10, WriteKeeps DEF s
<1> QED BY <1>4, <1>5

LEMMA FinishAbandonmentKeeps ==
    ASSUME IInv, FinishAbandonment("recovery")
    PROVE  IInv'
<1> USE DEF pipeline, fixes, readModels
<1> DEFINE me == actor["recovery"]
           row == [me.pass EXCEPT !.phase = "abandoned"]
           n == [AtRest EXCEPT !.pass = row, !.current = TRUE]
<1>1. /\ me.at = "abandon" /\ UNCHANGED <<scenario, validation, verdict, observed, analyst>>
      /\ UNCHANGED <<issue, issueSummary, openIssue>> /\ NoteEvent(me.pass.of, "issue_tracking_abandoned")
      /\ \E state \in {"dead", "gone", "ready"} : UNCHANGED mail \/ mail' = [mail EXCEPT ![me.of] = state]
      /\ IF me.current THEN SaveProgress("recovery", row, AtRest) ELSE Goto("recovery", AtRest) /\ UNCHANGED progress
  BY DEF FinishAbandonment
<1>2. /\ "recovery" \in Actor /\ me \in ActorRow /\ Own(World, "recovery", me) /\ Kept(Stores, me)
      /\ me.of \in Tracked /\ me.pass.phase = "abandoning" /\ me.pass \in ProgressRow
      /\ PassSound(World, me.pass) /\ me.pass.of \in Nat /\ me.pass.of \in Tracked
  BY <1>1, AtFence DEF Recovers
<1>3. Tidy
  <2>1. Types BY DEF IInv
  <2>2. "issue_tracking_abandoned" \in Event /\ "issue_tracking_abandoned" # "build_analysis_completed"
    BY DEF Event
  <2> QED BY <1>1, <2>1, <2>2, NotedIsTidy, MailIsTidy
<1>4. CASE ~me.current BY <1>1, <1>2, <1>3, <1>4, RestKeeps
<1>5. CASE me.current
  <2>1. me.pass.of = progress.of /\ AllSettled
    BY <1>1, <1>2, <1>5, StoresAtHand DEF Kept, HoldSound, Passed, AllSettled
  <2>2. \A b \in Actor : ~Writer(actor[b])
    <3>1. Written(me) BY <1>1 DEF Written, Passed
    <3> QED BY <1>2, <1>5, <3>1 DEF IInv, Apart
  <2>3. row \in ProgressRow /\ row.of = me.pass.of /\ row.phase = "abandoned" /\ row.cursor = me.pass.cursor
    BY <1>2 DEF ProgressRow
  <2> HIDE DEF row
  <2>4. PassSound(World, row) BY <1>2, <2>3 DEF PassSound, CursorSound, NoProgress
  <2>5. n \in ActorRow BY <2>3, RestTypes DEF ActorRow
  <2>6. n.at = "idle" /\ n.pass = row /\ n.back = "none" /\ ~n.fresh BY DEF AtRest
  <2>7. n = [AtRest EXCEPT !.pass = row, !.current = TRUE] OBVIOUS
  <2> HIDE DEF n
  <2>8. Own(World, "recovery", n)
    BY <2>4, <2>6 DEF Own, Tracks, Recovers, Logging, PageSound
  <2>9. Kept(Saved(row), n) /\ ~Written(n)
    BY <2>6 DEF Kept, CopySound, HoldSound, WriteSound, Writer, Written, Passed, Logging
  <2>10. progress.of <= row.of BY <1>2, <2>1, <2>3
  <2> QED BY <1>1, <1>2, <1>3, <1>5, <2>1, <2>2, <2>3, <2>4, <2>5, <2>7, <2>8, <2>9, <2>10, SaveKeeps
<1> QED BY <1>4, <1>5

-----------------------------------------------------------------------------
(* The upsets of the handlers.                                              *)

LEMMA CrashKeeps ==
    ASSUME IInv, NEW a \in Actor, CrashTracker(a)
    PROVE  IInv'
<1>1. Quiet /\ UNCHANGED <<progress, issue, issueSummary, openIssue>> /\ Goto(a, AtRest)
  BY DEF CrashTracker, Quiet, pipeline, readModels
<1> QED BY <1>1, QuietIsTidy, RestKeeps

LEMMA ExpireKeeps ==
    ASSUME IInv, ExpireTracker
    PROVE  IInv'
<1>1. Quiet /\ UNCHANGED <<progress, issue, issueSummary, openIssue>>
      /\ actor' = [actor EXCEPT !["late"] = actor["now"], !["now"] = AtRest]
  BY DEF ExpireTracker, Quiet, pipeline, readModels
<1>2. Tidy BY <1>1, QuietIsTidy
<1>3. RequestTypes' /\ WorldSound' BY <1>2, TidyRequests DEF IInv
<1>4. Grows(World, World') BY <1>1, <1>2, TidyGrows DEF IInv, Exist
<1>5. Stores' = Stores BY <1>1 DEF Stores
<1>6. actor \in [Actor -> ActorRow] /\ "now" \in Actor /\ "late" \in Actor /\ "now" # "recovery" /\ "late" # "recovery"
  BY DEF IInv, Types, Actor, Tracker
<1>7. /\ actor'["late"] = actor["now"] /\ actor'["now"] = AtRest
      /\ \A b \in Actor : b \notin {"now", "late"} => actor'[b] = actor[b]
  BY <1>1, <1>6
<1>8. Types'
  <2>1. actor' \in [Actor -> ActorRow] BY <1>1, <1>6, RestTypes
  <2> QED BY <1>1, <1>3, <2>1 DEF IInv, Types, StoreTypes
<1>9. StoresSound(World', Stores')
  BY <1>4, <1>5, GrownStores, StoresTyped DEF IInv, Types
<1>10. ASSUME NEW b \in Actor PROVE Own(World', b, actor'[b]) /\ Kept(Stores', actor'[b])
  <2>1. CASE b = "now" BY <1>7, <2>1, RestIsSound
  <2>2. CASE b = "late"
    <3>1. Own(World, "now", actor["now"]) /\ Kept(Stores, actor["now"]) /\ actor["now"] \in ActorRow
      BY <1>6 DEF IInv
    <3>2. Own(World', "now", actor["now"]) BY <1>4, <3>1, GrownOwn
    <3>3. Own(World', "late", actor["now"]) BY <3>2 DEF Own
    <3> QED BY <1>5, <1>7, <2>2, <3>1, <3>3
  <2>3. CASE b \notin {"now", "late"}
    <3>1. Own(World, b, actor[b]) /\ Kept(Stores, actor[b]) /\ actor[b] \in ActorRow
      BY <1>6 DEF IInv
    <3> QED BY <1>4, <1>5, <1>7, <2>3, <3>1, GrownOwn
  <2> QED BY <2>1, <2>2, <2>3
<1>11. \A b, c \in Actor : Apart(actor'[b], actor'[c])
  <2>1. ~Writer(AtRest) /\ ~AtRest.current BY RestIsSound
  <2>2. \A b \in Actor : actor'[b] = AtRest \/ \E d \in Actor : actor'[b] = actor[d]
    BY <1>6, <1>7
  <2> QED BY <2>1, <2>2 DEF IInv, Apart
<1> QED BY <1>3, <1>8, <1>9, <1>10, <1>11 DEF IInv

-----------------------------------------------------------------------------
(* The invariant.                                                           *)

LEMMA IInvInit == IssuesInit => IInv
<1> SUFFICES ASSUME IssuesInit PROVE IInv
  OBVIOUS
<1> USE DEF IssuesInit
<1>1. Types
  <2>1. RequestTypes BY DEF RequestTypes
  <2>2. StoreTypes BY RestTypes, Constants DEF StoreTypes
  <2> QED BY <2>1, <2>2, RestTypes DEF Types
<1>2. WorldSound BY DEF WorldSound, Completed
<1>3. StoresSound(World, Stores)
  <2>1. SummaryOf(NoIssue) = NoIssueSummary BY DEF SummaryOf, NoIssue, NoIssueSummary
  <2>2. PassSound(World, progress) BY DEF PassSound
  <2>3. ASSUME NEW i \in Issue PROVE IssueSound(World, Stores, i)
    <3>1. /\ Stores.iss[i] = NoIssue /\ Stores.sum[i] = NoIssueSummary /\ Stores.row[i] = 0 /\ Stores.p = NoProgress
      BY DEF Stores
    <3>2. NoIssue.last = 0 /\ NoIssue.status = "none" /\ NoProgress.of = 0 /\ NoIssueSummary.of = 0
      BY DEF NoIssue, NoProgress, NoIssueSummary
    <3> QED BY <2>1, <3>1, <3>2 DEF IssueSound, RowSound, SummarySound, Settled
  <2> QED BY <2>2, <2>3 DEF StoresSound, Stores
<1>4. \A a \in Actor : Own(World, a, actor[a]) /\ Kept(Stores, actor[a])
  BY RestIsSound
<1>5. \A a, b \in Actor : Apart(actor[a], actor[b])
  BY RestIsSound DEF Apart
<1> QED BY <1>1, <1>2, <1>3, <1>4, <1>5 DEF IInv

LEMMA HistoryKeeps ==
    ASSUME IInv, NEW a \in Actor, History(a)
    PROVE  IInv'
BY PersistIssueLogKeeps, HistoryReadsKeep, MaterializeOpenIssueKeeps DEF History

LEMMA TrackKeeps ==
    ASSUME IInv, NEW a \in Tracker, Track(a)
    PROVE  IInv'
<1>1. a \in Actor \ {"recovery"} /\ a \in Actor BY DEF Actor, Tracker
<1>2. CASE StartAgain(a)
  <2>1. actor[a].of \in Tracked BY <1>1, <1>2, AtHand DEF StartAgain, Own
  <2> QED BY <1>1, <1>2, <2>1, TrackRequestKeeps DEF StartAgain
<1>3. CASE StartPass(a) BY <1>1, <1>3, StartPassKeeps
<1>4. CASE BeginBatch(a) BY <1>1, <1>4, BeginBatchKeeps
<1>5. CASE ListKeys(a) BY <1>1, <1>5, ListKeysKeeps
<1>6. CASE NextKey(a) BY <1>1, <1>6, NextKeyKeeps
<1>7. CASE SkipKey(a) BY <1>1, <1>7, SkipKeyKeeps
<1>8. CASE SaveCursor(a) BY <1>1, <1>8, SaveCursorKeeps
<1>9. CASE ApplyKey(a) BY <1>1, <1>9, ApplyKeyKeeps
<1>10. CASE EndBatch(a) BY <1>1, <1>10, EndBatchKeeps
<1>11. CASE EndDelivery(a) BY <1>1, <1>11, EndDeliveryKeeps
<1>12. CASE History(a) BY <1>1, <1>12, HistoryKeeps
<1> QED BY <1>2, <1>3, <1>4, <1>5, <1>6, <1>7, <1>8, <1>9, <1>10, <1>11, <1>12 DEF Track

LEMMA IInvStep == IInv /\ [IssuesNext]_issueVars => IInv'
<1> SUFFICES ASSUME IInv, [IssuesNext]_issueVars PROVE IInv'
  OBVIOUS
<1>1. CASE UNCHANGED issueVars
  <2>1. Quiet /\ Elsewhere BY <1>1 DEF issueVars, Quiet, Elsewhere
  <2> QED BY <2>1, QuietIsTidy, TidyElsewhereKeeps
<1>2. ASSUME NEW r \in Tracked,
             \/ Validate(r) \/ EndWithoutBuild(r) \/ Analyse(r) \/ AbandonAnalysis(r)
             \/ LoseTracking(r) \/ AbandonFix(r) \/ Receive(r)
      PROVE  IInv'
  <2>1. CASE Receive(r)
    <3>1. "now" \in Actor \ {"recovery"} BY DEF Actor, Tracker
    <3> QED BY <2>1, <3>1, TrackRequestKeeps DEF Receive
  <2>2. CASE LoseTracking(r) \/ AbandonFix(r) BY <2>2, RepairsKeep
  <2> QED BY <1>2, <2>1, <2>2, PipelineKeeps, AnalysisKeeps
<1>3. ASSUME NEW a \in Tracker, Track(a) PROVE IInv'
  BY <1>3, TrackKeeps
<1>4. CASE ExpireTracker BY <1>4, ExpireKeeps
<1>5. CASE Recover
  <2>1. "recovery" \in Actor BY DEF Actor
  <2> QED BY <1>5, <2>1, AbandonPassKeeps, ReadFenceKeeps, GuardFenceKeeps, WriteFenceKeeps,
             FinishAbandonmentKeeps, HistoryKeeps DEF Recover
<1>6. ASSUME NEW f \in Repairer, Fix(f) \/ ExpireRepairer(f) PROVE IInv'
  BY <1>6, RepairsKeep
<1>7. ASSUME NEW a \in Actor, CrashTracker(a) PROVE IInv'
  BY <1>7, CrashKeeps
<1> QED BY <1>1, <1>2, <1>3, <1>4, <1>5, <1>6, <1>7 DEF IssuesNext

\* The invariant holds in every reachable state: whatever handlers crash, go on
\* without their lease, or are taken over by dead letters.
THEOREM IInvAlways == IssuesSpec => []IInv
BY IInvInit, IInvStep, PTL DEF IssuesSpec

-----------------------------------------------------------------------------
(* What it implies.                                                         *)

LEMMA TypesImplied == IInv => IssuesTypeOK
<1> SUFFICES ASSUME IInv PROVE IssuesTypeOK
  OBVIOUS
<1>1. PassSound(World, progress) /\ progress \in ProgressRow /\ issue \in [Issue -> IssueRow]
  BY StoresAtHand
<1>2. \A r \in Tracked : observed[r] \subseteq scenario.finds[r] BY DEF IInv, WorldSound
<1>3. CASE progress = NoProgress
  BY <1>1, <1>2, <1>3 DEF IssuesTypeOK, NoProgress
<1>4. CASE progress # NoProgress
  <2>1. progress.cursor # 0 => progress.of \in World.begun BY <1>1, <1>4 DEF PassSound, CursorSound
  <2>2. progress.of \in World.begun => verdict[progress.of] # "none" BY DEF World
  <2> QED BY <1>1, <1>2, <1>4, <2>1, <2>2 DEF IssuesTypeOK, PassSound
<1> QED BY <1>3, <1>4

\* The rows keep their types, and the saved pass what IssueTrackingState.Validate
\* asks of it: only a terminal pass closes, and none that was told of a
\* task-wide failure.
THEOREM IssuesAreTyped == IssuesSpec => []IssuesTypeOK
BY IInvAlways, TypesImplied, PTL

LEMMA GoneImplied == IInv => ClosedIsGone
<1> SUFFICES ASSUME IInv, NEW i \in Issue, issue[i].status = "closed"
             PROVE  LET r == issue[i].changed IN
                    /\ verdict[r] = "passed" /\ "build_analysis_completed" \in events[r]
                    /\ i \notin scenario.finds[r] /\ scenario.finds[r] \cap TaskWide = {}
  BY DEF ClosedIsGone
<1> DEFINE r == issue[i].changed
<1>1. RowSound(World, i, issue[i]) BY StoresAtHand DEF IssueSound
<1>2. Gone(World, i, r) BY <1>1 DEF RowSound, NoIssue
<1>3. r \in Tracked /\ Clean(r) /\ i \notin observed[r] BY <1>2 DEF Gone, World
<1>4. observed[r] = scenario.finds[r] BY <1>3 DEF IInv, WorldSound, Clean
<1> QED BY <1>3, <1>4 DEF Clean, Completed

\* An issue is closed only by a build that passed or failed, was not cancelled,
\* whose analysis is complete and reports neither the issue nor anything
\* task-wide, however trackers crash, lose their leases or are abandoned.
THEOREM ClosedAreGone == IssuesSpec => []ClosedIsGone
BY IInvAlways, GoneImplied, PTL

LEMMA ListedImplied == IInv => ListedIsOpen
<1> SUFFICES ASSUME IInv, progress.phase \in {"refreshed", "finalized", "abandoned"}
             PROVE  /\ Shown = {i \in Issue : issue[i].status = "open"}
                    /\ \A i \in Shown : issueSummary[i].first = issue[i].first
  BY DEF ListedIsOpen
<1>1. ASSUME NEW i \in Issue
      PROVE  /\ i \in Shown <=> issue[i].status = "open"
             /\ issueSummary[i].first = issue[i].first
  <2>1. IssueSound(World, Stores, i) /\ Stores.p = progress /\ Stores.sum = issueSummary
        /\ Stores.iss = issue /\ Stores.row = openIssue
    BY StoresAtHand
  <2>2. Settled(Stores, i) /\ RowSound(World, i, issue[i]) BY <2>1 DEF IssueSound, Active
  <2>3. issueSummary[i] = SummaryOf(issue[i]) /\ (issue[i].status = "open" => openIssue[i] = issue[i].first)
    BY <2>1, <2>2 DEF Settled
  <2>4. issueSummary[i].status = issue[i].status /\ issueSummary[i].first = issue[i].first
    BY <2>3 DEF SummaryOf
  <2>5. issue[i].status = "open" => issue[i].first # 0
    BY <2>2, Constants DEF RowSound, NoIssue
  <2> QED BY <2>3, <2>4, <2>5 DEF Shown, OpenIssueRows
<1> QED BY <1>1 DEF Shown, OpenIssueRows

\* Whenever no pass is under way, ListOpenIssues shows exactly the open issues
\* with their openings: history is completed before the cursor moves on, by
\* whoever takes over.
THEOREM ListedAreOpen == IssuesSpec => []ListedIsOpen
BY IInvAlways, ListedImplied, PTL

LEMMA OthersLeaveIssues ==
    ASSUME IssuesNext
    PROVE  \/ UNCHANGED issue
           \/ \E a \in Tracker : ApplyKey(a)
           \/ WriteFence("recovery")
<1> USE DEF readModels
<1>1. ASSUME NEW r \in Tracked,
             \/ Validate(r) \/ EndWithoutBuild(r) \/ Analyse(r) \/ AbandonAnalysis(r)
             \/ LoseTracking(r) \/ AbandonFix(r) \/ Receive(r) \/ AbandonPass(r)
      PROVE  UNCHANGED issue
  BY <1>1 DEF Validate, Register, StartBuild, EndBuild, EndValidation, EndWithoutBuild, Analyse, AbandonAnalysis,
              LoseTracking, AbandonFix, Receive, TrackRequest, AbandonPass
<1>2. ASSUME NEW a, History(a) PROVE UNCHANGED issue
  BY <1>2 DEF History, PersistIssueLog, ReadOpenIssue, ReadIssueSummary, MaterializeOpenIssue
<1>3. ASSUME NEW a \in Tracker, Track(a) PROVE UNCHANGED issue \/ ApplyKey(a)
  BY <1>2, <1>3 DEF Track, StartPass, StartAgain, TrackRequest, BeginBatch, ListKeys, NextKey, SkipKey, SaveCursor,
                    EndBatch, EndDelivery
<1>4. CASE ExpireTracker BY <1>4 DEF ExpireTracker
<1>5. CASE Recover BY <1>1, <1>2, <1>5 DEF Recover, ReadFence, GuardFence, FinishAbandonment
<1>6. ASSUME NEW f \in Repairer, Fix(f) \/ ExpireRepairer(f) PROVE UNCHANGED issue
  BY <1>6 DEF Fix, FindIssueToFix, AssociateFix, ExpireRepairer
<1>7. ASSUME NEW a \in Actor, CrashTracker(a) PROVE UNCHANGED issue
  BY <1>7 DEF CrashTracker
<1> QED BY <1>1, <1>3, <1>4, <1>5, <1>6, <1>7 DEF IssuesNext

LEMMA ChangesImplied == IInv /\ [IssuesNext]_issueVars => [IssueChangesAreCurrent]_issueVars
<1> SUFFICES ASSUME IInv, IssuesNext, NEW i \in Issue, issue'[i] # issue[i]
             PROVE  /\ issue'[i].last = progress.of /\ i = progress.cursor
                    /\ progress.phase \in Active
  BY DEF IssueChangesAreCurrent, Active
<1>1. CASE \E a \in Tracker : ApplyKey(a)
  <2>1. PICK a \in Tracker : ApplyKey(a) BY <1>1
  <2>2. a \in Actor BY DEF Actor
  <2>3. Writer(actor[a]) /\ actor[a].key = i /\ issue'[i].last = actor[a].pass.of
    BY <2>1, StoresAtHand DEF ApplyKey, WriteIssue, Target, Writer
  <2> QED BY <2>2, <2>3, AtHand DEF Kept, WriteSound
<1>2. CASE WriteFence("recovery")
  <2>1. "recovery" \in Actor BY DEF Actor
  <2> DEFINE me == actor["recovery"]
             opened == [status |-> "open", first |-> me.pass.of, last |-> me.pass.of, changed |-> me.pass.of]
  <2>2. /\ Writer(me) /\ me.key = i
        /\ issue'[i] = IF me.issue = NoIssue THEN opened ELSE me.issue
    BY <1>2, StoresAtHand DEF WriteFence, WriteIssue, Writer
  <2>3. me.issue = issue[i]
    BY <2>1, <2>2, AtHand DEF Kept, CopySound, Writer
  <2>4. issue'[i].last = me.pass.of BY <2>2, <2>3
  <2> QED BY <2>1, <2>2, <2>4, AtHand DEF Kept, WriteSound
<1> QED BY <1>1, <1>2, OthersLeaveIssues

\* An issue changes only in the name of the pass that is under way, at its
\* cursor: a handler that lost its lease changes nothing once another has moved
\* past its key, finished or abandoned the pass, or started a newer request's.
THEOREM ChangesOfThePass == IssuesSpec => ChangesAreCurrent
<1>1. IInv /\ [IssuesNext]_issueVars => [IssueChangesAreCurrent]_issueVars BY ChangesImplied
<1> QED BY <1>1, IInvAlways, PTL DEF IssuesSpec, ChangesAreCurrent

=============================================================================
