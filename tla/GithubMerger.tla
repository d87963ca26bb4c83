----------------------------- MODULE GithubMerger -----------------------------
(***************************************************************************)
(* Runway with the GitHub merger: one request, delivered until it is       *)
(* answered or dead-lettered.  A step is a stack of pull requests, landed  *)
(* by one asynchronous merge of its top that the merger submits and polls. *)
(*                                                                         *)
(* GitHub is external: it settles a merge on its own time, lands the top   *)
(* with every unmerged pull request below it or none of them, may rewrite  *)
(* the heads of what it merged, rebases what is above, and shows the merge *)
(* of a pull request only after the whole merge is settled: until then a   *)
(* read may lag.  Authors and other mergers act on the same pull requests. *)
(***************************************************************************)
EXTENDS Integers, Sequences, FiniteSets, SequencesExt

CONSTANTS
    Stacks,         \* the stacks on the target, bottom first
    Asked,          \* what may be asked: [mode, method, steps]
    MaxPolls,       \* polls within the budget of one wait
    MaxDeliveries,  \* deliveries before the request is dead-lettered
    MaxTrouble      \* bound: crashes, HTTP errors, acts of authors and others

Pull == UNION {ToSet(s) : s \in Stacks}
StackOf(p) == CHOOSE s \in Stacks : p \in ToSet(s)
Position(p) == CHOOSE i \in DOMAIN StackOf(p) : StackOf(p)[i] = p
UpTo(p) == {StackOf(p)[i] : i \in 1 .. Position(p)}
Above(p) == ToSet(StackOf(p)) \ UpTo(p)

Supported == {"rebase", "squash", "merge"}
NoMerge == [status |-> "none"]
NoAnswer == [outcome |-> "none"]
NoDelivery == [pc |-> "idle"]

VARIABLES
    ask,        \* the request
    pull,       \* pull request -> [pinned, open, merge]: is its head the one the URI
                \* pins, is it open and no draft, is its merge "no", "settled", "shown"
    inflight,   \* pull request -> the last asynchronous merge submitted for it
    history,    \* what landed on the target: [pull, by], in order: by "runway",
                \* "other", or Runway "again", by a delivery already answered
    delivery,   \* the delivery being processed
    deliveries, \* failed deliveries so far
    waiting,    \* is the request on the topic?
    answer,     \* what the controller answered: [outcome, landed, overtaken]
    lettered,   \* "no", "dead" or "answered": the dead-letter queue
    trouble

githubVars == <<ask, pull, inflight, history, delivery, deliveries, waiting, answer, lettered, trouble>>
github == <<pull, inflight, history>>
queue == <<deliveries, waiting, answer, lettered>>

GithubTypeOK ==
    /\ ask \in Asked
    /\ pull \in [Pull -> [pinned : BOOLEAN, open : BOOLEAN, merge : {"no", "settled", "shown"}]]
    /\ \A p \in Pull : inflight[p].status \in {"none", "pending", "merged", "failed"}
    /\ \A i \in DOMAIN history : history[i].pull \in Pull
    /\ delivery.pc \in {"idle", "load", "validate", "submit", "poll", "await", "mergeable", "publish", "ack"}
    /\ delivery.pc \notin {"idle", "publish", "ack"} => delivery.step \in DOMAIN ask.steps
    /\ deliveries \in 0 .. MaxDeliveries /\ waiting \in BOOLEAN
    /\ answer.outcome \in {"none", "SUCCEEDED", "FAILED"}
    /\ lettered \in {"no", "dead", "answered"}

GithubInit ==
    /\ ask \in Asked
    /\ pull = [p \in Pull |-> [pinned |-> TRUE, open |-> TRUE, merge |-> "no"]]
    /\ inflight = [p \in Pull |-> NoMerge] /\ history = <<>>
    /\ delivery = NoDelivery /\ deliveries = 0 /\ waiting = TRUE
    /\ answer = NoAnswer /\ lettered = "no" /\ trouble = 0

-----------------------------------------------------------------------------
(* The outcome of a delivery.                                               *)

Step == ask.steps[delivery.step]
Loaded == delivery.seen

(* The first pull request not merged when it was read, and those above it.  *)
UnmergedPulls(seen) ==
    LET unmerged == {i \in DOMAIN seen : ~seen[i].merged}
    IN  IF unmerged = {} THEN <<>>
        ELSE SubSeq(seen, CHOOSE i \in unmerged : \A j \in unmerged : i <= j, Len(seen))

(* Terminal: the answer lists the steps that landed before.  The delivery was
   overtaken if a merge of Runway was on its way when it read the step.     *)
RejectOn(seen) ==
    delivery' = [pc |-> "publish", outcome |-> "FAILED", landed |-> delivery.landed,
                 overtaken |-> \E i \in DOMAIN seen : seen[i].moving]
Reject == RejectOn(Loaded)

(* Mutant: the delivery comes again for ever.                               *)
RedeliverAlways ==
    /\ delivery' = NoDelivery
    /\ UNCHANGED <<deliveries, waiting, lettered, answer>>

(* Not terminal: the delivery comes again, or goes to the dead-letter queue. *)
Redeliver ==
    /\ delivery' = NoDelivery
    /\ deliveries' = deliveries + 1
    /\ waiting' = (deliveries + 1 < MaxDeliveries)
    /\ lettered' = IF deliveries + 1 < MaxDeliveries THEN lettered ELSE "dead"
    /\ UNCHANGED answer

(* Mutant: the step ends with the merge, whatever is left of the request.   *)
NextStepLast(landed) ==
    delivery' = [pc |-> "publish", outcome |-> "SUCCEEDED", landed |-> landed, overtaken |-> FALSE]

(* Mutant: the last step is followed by another.                            *)
NextStepPast(landed) ==
    delivery' = [pc |-> "load", step |-> delivery.step + 1, seen |-> <<>>, polls |-> 0, landed |-> landed]

(* The step is through: load the next, or answer.                           *)
NextStep(landed) ==
    delivery' = IF delivery.step < Len(ask.steps)
                THEN [pc |-> "load", step |-> delivery.step + 1, seen |-> <<>>, polls |-> 0, landed |-> landed]
                ELSE [pc |-> "publish", outcome |-> "SUCCEEDED", landed |-> landed, overtaken |-> FALSE]

(* Mutant: the merger goes on to the next step when the budget is spent.    *)
WaitOrGoOn ==
    IF delivery.polls < MaxPolls
    THEN delivery' = [delivery EXCEPT !.polls = @ + 1] /\ UNCHANGED queue
    ELSE NextStep(delivery.landed) /\ UNCHANGED queue

(* Wait a poll interval, or give up on this delivery when the budget is spent:
   ErrMergePending, which is retried.                                       *)
WaitOrPending ==
    IF delivery.polls < MaxPolls
    THEN delivery' = [delivery EXCEPT !.polls = @ + 1] /\ UNCHANGED queue
    ELSE Redeliver

-----------------------------------------------------------------------------
(* The merger.                                                              *)

ValidateRequest == ask.method \in Supported /\ ask.steps # <<>> /\ \A i \in DOMAIN ask.steps : ask.steps[i] # <<>>

Receive ==
    /\ waiting /\ delivery = NoDelivery
    /\ delivery' = IF ValidateRequest
                   THEN [pc |-> "load", step |-> 1, seen |-> <<>>, polls |-> 0, landed |-> 0]
                   ELSE [pc |-> "publish", outcome |-> "FAILED", landed |-> 0, overtaken |-> FALSE]
    /\ UNCHANGED <<ask, github, queue, trouble>>

(* Is a pull request read as merged, by a read that may lag?                *)
ReadMerged(p, lagging) == pull[p].merge = "shown" \/ (pull[p].merge = "settled" /\ ~lagging)

(* A merge Runway submitted in the stack is in flight, or not shown in full. *)
Moving(p) ==
    \E q \in ToSet(StackOf(p)) :
       /\ inflight[q].status \in {"pending", "merged"} /\ inflight[q].by # "other"
       /\ \E b \in UpTo(q) : pull[b].merge # "shown"

(* GET the pull request.  One that lags shows a merged pull request as open,
   with the head the merge gave it.                                         *)
GetPull(p, lagging) ==
    [pull |-> p, merged |-> ReadMerged(p, lagging), pinned |-> pull[p].pinned, open |-> pull[p].open,
     onTarget |-> \A q \in UpTo(p) \ {p} : ReadMerged(q, lagging), moving |-> Moving(p)]

LoadPull ==
    /\ delivery.pc = "load" /\ Len(Loaded) < Len(Step)
    /\ \E lagging \in BOOLEAN :
          LET pr == GetPull(Step[Len(Loaded) + 1], lagging) IN
          IF pr.merged \/ (pr.pinned /\ pr.open)
          THEN delivery' = [delivery EXCEPT !.seen = Append(@, pr),
                                            !.pc = IF Len(Loaded) + 1 = Len(Step) THEN "validate" ELSE @]
          ELSE RejectOn(Append(Loaded, pr))
    /\ UNCHANGED <<ask, github, queue, trouble>>

(* The numbers of the stack's pull requests that are open, bottom first.    *)
StackPending(p, lagging) == SelectSeq(StackOf(p), LAMBDA q : ~ReadMerged(q, lagging) /\ pull[q].open)

(* Mutant: any pull requests of one stack will do.                          *)
IsGitHubStackLoose(pending, lagging) ==
    \A i \in DOMAIN pending : ~pending[i].merged

(* What is left of a step is the unmerged bottom of a stack on the target.  *)
IsGitHubStack(pending, lagging) ==
    /\ \A i \in DOMAIN pending : ~pending[i].merged
    /\ IF Len(pending) = 1 THEN pending[1].onTarget
       ELSE LET bottom == StackPending(Last(pending).pull, lagging) IN
            /\ Len(pending) <= Len(bottom)
            /\ \A i \in DOMAIN pending : pending[i].pull = bottom[i]

(* A dry run goes over the steps as a merge does, but asks for verdicts.    *)
CheckMergeability == ask.mode = "check"

ValidateStack ==
    LET pending == UnmergedPulls(Loaded) IN
    /\ delivery.pc = "validate"
    /\ IF pending = <<>>
       THEN IF CheckMergeability THEN NextStep(delivery.step)
            ELSE delivery' = [delivery EXCEPT !.pc = "await", !.polls = 0]
       ELSE \E lagging \in BOOLEAN :
               IF IsGitHubStack(pending, lagging)
               THEN delivery' = [delivery EXCEPT !.pc = IF CheckMergeability THEN "mergeable" ELSE "submit",
                                                 !.polls = 0]
               ELSE Reject
    /\ UNCHANGED <<ask, github, queue, trouble>>

Top == Last(Step)

(* The merge in flight is of the head and by the method asked for.          *)
SameMerge(p) == inflight[p].pinned /\ inflight[p].method = ask.method

(* Runway's merge, told apart when it is of a delivery that comes again after
   its answer was sent.                                                     *)
TakenIn(p) ==
    inflight' = [inflight EXCEPT ![p] = [status |-> "pending", pinned |-> TRUE, method |-> ask.method,
                                         by |-> IF answer = NoAnswer THEN "runway" ELSE "again"]]

(* PUT merge-async on the top.  One in flight is adopted if it is the same
   merge.  GitHub answers at once for a pull request that is merged, refuses a
   moved or closed one, and otherwise takes the merge in.                   *)
SubmitMerge ==
    LET p == Top IN
    /\ delivery.pc = "submit"
    /\ IF inflight[p].status = "pending"
       THEN /\ IF SameMerge(p) THEN delivery' = [delivery EXCEPT !.pc = "poll", !.polls = 0] ELSE Reject
            /\ UNCHANGED inflight
       ELSE IF pull[p].merge # "no"
       THEN delivery' = [delivery EXCEPT !.pc = "await", !.polls = 0] /\ UNCHANGED inflight
       ELSE IF pull[p].pinned /\ pull[p].open
       THEN TakenIn(p) /\ delivery' = [delivery EXCEPT !.pc = "poll", !.polls = 0]
       ELSE Reject /\ UNCHANGED inflight
    /\ UNCHANGED <<ask, pull, history, queue, trouble>>

(* GET the status of the merge until it is final.                           *)
PollMerge ==
    /\ delivery.pc = "poll"
    /\ CASE inflight[Top].status = "pending" -> WaitOrPending
         [] inflight[Top].status = "merged" ->
               delivery' = [delivery EXCEPT !.pc = "await", !.polls = 0, !.seen = <<>>] /\ UNCHANGED queue
         [] inflight[Top].status = "failed" -> Reject /\ UNCHANGED queue
    /\ UNCHANGED <<ask, github, trouble>>

MergeShown(p) == pull[p].merge = "shown"

(* GET the merge commit of each pull request until GitHub shows them all.   *)
AwaitMergeCommits ==
    /\ delivery.pc = "await"
    /\ IF \A i \in DOMAIN Step : MergeShown(Step[i])
       THEN NextStep(delivery.step) /\ UNCHANGED queue
       ELSE WaitOrPending
    /\ UNCHANGED <<ask, github, trouble>>

(* The dry run reads GitHub's verdict on each pull request: not known yet, clean
   or conflicting.                                                          *)
CheckPullMergeable ==
    /\ delivery.pc = "mergeable"
    /\ \/ WaitOrPending
       \/ NextStep(delivery.step) /\ UNCHANGED queue
       \/ Reject /\ UNCHANGED queue
    /\ UNCHANGED <<ask, github, trouble>>

(* A second answer is dropped as a duplicate of the first.                  *)
PublishResult ==
    /\ delivery.pc = "publish"
    /\ answer' = IF answer = NoAnswer
                 THEN [outcome |-> delivery.outcome, landed |-> delivery.landed,
                       overtaken |-> delivery.overtaken]
                 ELSE answer
    /\ delivery' = [pc |-> "ack"]
    /\ UNCHANGED <<ask, github, deliveries, waiting, lettered, trouble>>

Ack ==
    /\ delivery.pc = "ack"
    /\ delivery' = NoDelivery /\ waiting' = FALSE
    /\ UNCHANGED <<ask, github, deliveries, answer, lettered, trouble>>

(* A call fails with an HTTP error, or a poll with a status that is not known.
   What validation reads is the stack, of more than one pull request; a dry run
   reads a pull request again while its mergeability is not known.          *)
CallFails ==
    /\ trouble < MaxTrouble
    /\ delivery.pc \in {"load", "validate", "submit", "poll", "await", "mergeable"}
    /\ delivery.pc = "validate" =>
          /\ Len(UnmergedPulls(Loaded)) > 1
          /\ \A i \in DOMAIN UnmergedPulls(Loaded) : ~UnmergedPulls(Loaded)[i].merged
    /\ delivery.pc = "mergeable" => delivery.polls > 0
    /\ Redeliver
    /\ trouble' = trouble + 1
    /\ UNCHANGED <<ask, github>>

(* GitHub takes the merge in and the reply is lost.                         *)
SubmitReplyLost ==
    /\ trouble < MaxTrouble
    /\ delivery.pc = "submit" /\ inflight[Top].status # "pending"
    /\ pull[Top].merge = "no" /\ pull[Top].pinned /\ pull[Top].open
    /\ TakenIn(Top)
    /\ Redeliver
    /\ trouble' = trouble + 1
    /\ UNCHANGED <<ask, pull, history>>

Crash ==
    /\ trouble < MaxTrouble
    /\ delivery # NoDelivery
    /\ delivery' = NoDelivery
    /\ trouble' = trouble + 1
    /\ UNCHANGED <<ask, github, queue>>

AnswerDeadLetter ==
    /\ lettered = "dead"
    /\ lettered' = "answered"
    /\ UNCHANGED <<ask, github, delivery, deliveries, waiting, answer, trouble>>

-----------------------------------------------------------------------------
(* GitHub, authors and other mergers.                                       *)

(* A merge in flight settles: everything up to the top lands, or nothing.  A
   push below the top takes the top off its base, so it does not merge.     *)
Settle(p) ==
    LET todo == SelectSeq(StackOf(p), LAMBDA q : q \in UpTo(p) /\ pull[q].merge = "no")
        able == /\ pull[p].pinned = inflight[p].pinned
                /\ \A i \in DOMAIN todo : /\ pull[todo[i]].open
                                          /\ inflight[p].pinned => pull[todo[i]].pinned
    IN  /\ inflight[p].status = "pending"
        /\ \/ /\ able
              /\ inflight' = [inflight EXCEPT ![p].status = "merged"]
              /\ history' = history \o [i \in DOMAIN todo |-> [pull |-> todo[i], by |-> inflight[p].by]]
              /\ \E rewritten \in BOOLEAN : pull' = [q \in Pull |->
                    IF q \in ToSet(todo)
                    THEN [pull[q] EXCEPT !.merge = "settled", !.pinned = @ /\ ~rewritten]
                    ELSE IF q \in Above(p) THEN [pull[q] EXCEPT !.pinned = FALSE] ELSE pull[q]]
           \/ /\ inflight' = [inflight EXCEPT ![p].status = "failed"]
              /\ UNCHANGED <<history, pull>>
    /\ UNCHANGED <<ask, delivery, queue, trouble>>

ShowMerge(p) ==
    /\ pull[p].merge = "settled"
    /\ pull' = [pull EXCEPT ![p].merge = "shown"]
    /\ UNCHANGED <<ask, inflight, history, delivery, queue, trouble>>

(* An author pushes, or closes the pull request or makes it a draft; the merges
   of the stack in flight fail.                                             *)
Meddle(p) ==
    /\ trouble < MaxTrouble /\ pull[p].merge = "no"
    /\ pull' \in {[pull EXCEPT ![p].pinned = FALSE], [pull EXCEPT ![p].open = FALSE]}
    /\ inflight' = [q \in Pull |-> IF p \in UpTo(q) /\ inflight[q].status = "pending"
                                   THEN [inflight[q] EXCEPT !.status = "failed"] ELSE inflight[q]]
    /\ trouble' = trouble + 1
    /\ UNCHANGED <<ask, history, delivery, queue>>

(* Somebody else submits a merge of a pull request.                         *)
MergeByOther(p) ==
    /\ trouble < MaxTrouble
    /\ pull[p].merge = "no" /\ pull[p].open /\ inflight[p].status # "pending"
    /\ \E m \in Supported : inflight' = [inflight EXCEPT ![p] =
          [status |-> "pending", pinned |-> pull[p].pinned, method |-> m, by |-> "other"]]
    /\ trouble' = trouble + 1
    /\ UNCHANGED <<ask, pull, history, delivery, queue>>

Merger ==
    \/ Receive \/ LoadPull \/ ValidateStack \/ SubmitMerge \/ PollMerge \/ AwaitMergeCommits
    \/ CheckPullMergeable \/ PublishResult \/ Ack \/ AnswerDeadLetter

GithubNext ==
    \/ Merger \/ CallFails \/ SubmitReplyLost \/ Crash
    \/ \E p \in Pull : Settle(p) \/ ShowMerge(p) \/ Meddle(p) \/ MergeByOther(p)

(* The consumer keeps going and the poll budget is finite; GitHub may take for
   ever.                                                                    *)
GithubSpec == GithubInit /\ [][GithubNext]_githubVars /\ WF_githubVars(Merger)

-----------------------------------------------------------------------------
(* Properties                                                               *)

Named == UNION {ToSet(ask.steps[i]) : i \in DOMAIN ask.steps}
Landed(p) == pull[p].merge # "no"
LandedBy(who) == {history[i].pull : i \in {i \in DOMAIN history : history[i].by \in who}}
ByRunway == LandedBy({"runway", "again"})

(* A merge answered SUCCEEDED has every pull request of the request on the
   target, also when steps landed in earlier deliveries or by other hands.  *)
GithubSucceededIsLanded ==
    answer.outcome = "SUCCEEDED" /\ ask.mode = "merge" => \A p \in Named : Landed(p)

(* Merging the top of a step lands nothing the request does not name: no pull
   request below it that the step left out.                                 *)
OnlyNamedLand == ByRunway \subseteq Named

(* A step lands only when every step before it has, across deliveries.      *)
StepsLandInOrder ==
    \A i, j \in DOMAIN ask.steps : i < j /\ ToSet(ask.steps[j]) \cap ByRunway # {} =>
       \A p \in ToSet(ask.steps[i]) : Landed(p)

(* A dry run lands nothing, whatever it finds of the request (CheckMergeability). *)
DryRunLandsNothing == ask.mode = "check" => ByRunway = {}

(* A FAILED answer lists all that Runway landed for the request, now and later:
   no merge of it is in flight or unreported (github/README.md, Atomicity: "The
   FAILED result lists a StepResult per landed step").  The exception the code
   has is a redelivery that read the step while the merge an earlier delivery
   submitted was on its way: a lagging read with a rewritten head, a pull
   request merged after one below it was read as open, or a stack that lost its
   bottom in between are refused, and the step that landed is not listed.  And
   a delivery that comes again after its answer was sent runs anew: what it
   lands is not in the answer, and its own answer is dropped as a duplicate.  *)
FailedListsLanded ==
    answer.outcome = "FAILED" /\ ~answer.overtaken =>
       LandedBy({"runway"}) \subseteq UNION {ToSet(ask.steps[i]) : i \in 1 .. answer.landed}

(* The request is answered, by the controller or by the dead-letter consumer. *)
GithubAnswers == <>(answer # NoAnswer \/ lettered = "answered")
=============================================================================
