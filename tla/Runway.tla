-------------------------------- MODULE Runway --------------------------------
(***************************************************************************)
(* Runway with the git merger: the merge and mergeconflictcheck            *)
(* controllers, their dead-letter consumers, and the reset, apply, push    *)
(* cycle on the one checkout they share.                                   *)
(*                                                                         *)
(* A commit edits one file; a tree gives each file its contents.  Applying *)
(* an edit to a tree is git's three-way merge of that file: nothing to do  *)
(* if the tree has the result already, clean if it has the contents the    *)
(* edit started from, a conflict otherwise.  A change is a chain of        *)
(* commits from the root of the trunk to the head its URI pins; the chains *)
(* of stacked changes share their first commits.                           *)
(***************************************************************************)
EXTENDS Integers, Sequences, FiniteSets, SequencesExt

CONSTANTS
    File,          \* files
    Edit,          \* commit -> [file, from, to]
    Chain,         \* change -> its commits, oldest first
    Steps,         \* request -> its steps, each [strategy, changes]
    Merges,        \* the requests for a merge; the others are dry runs
    Schedules,     \* what may be sent: worker -> its requests, in order
    DefaultStrategy,
    Unrelated,     \* the changes that share no history with the trunk
    Unavailable,   \* the changes whose commits the remote does not have
    CheckStaleness,
    Foreign,       \* the edits others may push
    Movable,       \* the changes others may force-push
    MaxPush,       \* MaxPushAttempts
    MaxAttempts,   \* deliveries before a message is dead-lettered
    FaultKinds,    \* "crash", "lost reply", "push error"
    MaxMishaps,     \* bound: mishaps
    MaxForeign     \* bound: pushes and force-pushes by others

Commit == DOMAIN Edit
Change == DOMAIN Chain
MergeRequest == DOMAIN Steps
Worker == {"merge", "check"}
Strategies == {"REBASE", "SQUASH_REBASE", "MERGE", "PROMOTE"}

IdleTask == [pc |-> "idle"]

VARIABLES
    trunk,      \* the target branch on the remote
    stale,      \* the changes force-pushed since their URI was minted
    inbox,      \* worker -> the requests waiting on its topic
    attempts,   \* worker -> failed deliveries of the request at the head
    task,       \* worker -> the delivery it is processing
    mu,         \* the worker that holds the checkout, or "free"
    checkout,   \* the checkout: the trunk position reset to and the commits on top
    answers,    \* request -> the answer sent under its ID, "none", or "unasked"
    dead,       \* the requests in the dead-letter queues
    deadAnswers,\* the requests answered FAILED by the dead-letter consumer
    mishaps,
    pushes      \* what others have pushed so far

(* A commit on the trunk: its tree, the original commits it contains, its own
   identity, the request and change or commit it carries over, and whether the
   request had been answered FAILED before.                                 *)
Root == [tree |-> [f \in File |-> 0], reach |-> {}, id |-> "root", by |-> "root", of |-> "root",
         late |-> FALSE, err |-> FALSE]
Answered(r) == r \in MergeRequest /\ answers[r] = "FAILED"
Minted(tree, reach, r, of) ==
    [tree |-> tree, reach |-> reach, id |-> "minted", by |-> r, of |-> of, late |-> Answered(r), err |-> FALSE]
(* What takes a commit's place when a change does not apply, or cannot.     *)
Conflict == [err |-> TRUE, kind |-> "conflict"]
Invalid == [err |-> TRUE, kind |-> "invalid"]

runwayVars == <<trunk, stale, inbox, attempts, task, mu, checkout, answers, dead, deadAnswers,
                mishaps, pushes>>
world == <<trunk, stale, pushes>>
queues == <<inbox, attempts, dead, deadAnswers>>

RunwayTypeOK ==
    /\ \A i \in DOMAIN trunk : trunk[i].tree \in [File -> Nat] /\ trunk[i].reach \subseteq Commit
    /\ stale \subseteq Change
    /\ \A w \in Worker : inbox[w] \in Seq(MergeRequest) /\ attempts[w] \in 0 .. MaxAttempts
    /\ mu \in Worker \cup {"free"}
    /\ mu # "free" => task[mu].pc # "idle"
    /\ answers \in [MergeRequest -> {"unasked", "none", "SUCCEEDED", "FAILED"}]
    /\ dead \subseteq MergeRequest /\ deadAnswers \subseteq MergeRequest
    /\ checkout.base \in 1 .. Len(trunk)

RunwayInit ==
    /\ trunk = <<Root>> /\ stale = {} /\ pushes = 0
    /\ inbox \in Schedules
    /\ attempts = [w \in Worker |-> 0]
    /\ task = [w \in Worker |-> IdleTask]
    /\ mu = "free" /\ checkout = [base |-> 1, ahead |-> <<>>]
    /\ answers = [r \in MergeRequest |-> IF \E w \in Worker : r \in ToSet(inbox[w]) THEN "none" ELSE "unasked"]
    /\ dead = {} /\ deadAnswers = {} /\ mishaps = 0

-----------------------------------------------------------------------------
(* Validation.                                                              *)

Resolve(strategy) == IF strategy = "DEFAULT" THEN DefaultStrategy ELSE strategy

(* The strategies are concrete, every step names a change, and a PROMOTE is the
   whole request.                                                           *)
ResolveAndValidate(r) ==
    /\ Steps[r] # <<>>
    /\ \A i \in DOMAIN Steps[r] : /\ Resolve(Steps[r][i].strategy) \in Strategies
                                  /\ Steps[r][i].changes # <<>>
    /\ (\E i \in DOMAIN Steps[r] : Resolve(Steps[r][i].strategy) = "PROMOTE")
          => Len(Steps[r]) = 1 /\ Len(Steps[r][1].changes) = 1

Changes(r) == UNION {ToSet(Steps[r][i].changes) : i \in DOMAIN Steps[r]}

(* Every commit is at hand, and is still the head of its change.            *)
EnsureObjects(r) == \A c \in Changes(r) : c \notin Unavailable
Fresh(r) == CheckStaleness => Changes(r) \cap stale = {}

-----------------------------------------------------------------------------
(* Applying changes to a head.                                              *)

Applied(tree, e) == [tree EXCEPT ![e.file] = e.to]

(* The tree of the i-th commit of a chain.                                  *)
TreeAt(c, i) == FoldLeft(LAMBDA t, k : Applied(t, Edit[k]), Root.tree, SubSeq(Chain[c], 1, i))

(* merge-base HEAD c: how much of the chain the head contains.              *)
MergeBase(head, c) == Cardinality({i \in DOMAIN Chain[c] : Chain[c][i] \in head.reach})

Pending(head, c) == SubSeq(Chain[c], MergeBase(head, c) + 1, Len(Chain[c]))

(* Mutant: a commit that is on the target already is committed once more.   *)
CherryPickEmpty(acc, k, r) ==
    LET e == Edit[k]
        head == Last(acc)
    IN  IF head.err \/ head.tree[e.file] \notin {e.from, e.to} THEN <<Conflict>>
        ELSE Append(acc, Minted(Applied(head.tree, e), head.reach, r, k))

(* Mutant: a pick that conflicts is skipped as if it were empty.            *)
CherryPickSkipping(acc, k, r) ==
    LET e == Edit[k]
        head == Last(acc)
    IN  IF head.err \/ head.tree[e.file] # e.from THEN acc
        ELSE Append(acc, Minted(Applied(head.tree, e), head.reach, r, k))

(* Mutant: a pick that would be empty stops the range.                      *)
CherryPickStopping(acc, k, r) ==
    LET e == Edit[k]
        head == Last(acc)
    IN  IF head.err \/ head.tree[e.file] # e.from THEN <<Conflict>>
        ELSE Append(acc, Minted(Applied(head.tree, e), head.reach, r, k))

(* One pick of a cherry-pick range: skipped when it would be empty.          *)
CherryPick(acc, k, r) ==
    LET e == Edit[k]
        head == Last(acc)
    IN  IF head.err THEN acc
        ELSE IF head.tree[e.file] = e.to THEN acc
        ELSE IF head.tree[e.file] = e.from
             THEN Append(acc, Minted(Applied(head.tree, e), head.reach, r, k))
             ELSE <<Conflict>>

(* The head and the commits the picks of a change put on it.                *)
PickRange(head, c, r) ==
    IF c \in Unrelated THEN <<Invalid>>
    ELSE FoldLeft(LAMBDA acc, k : CherryPick(acc, k, r), <<head>>, Pending(head, c))

(* What a change's picks add up to, as one commit; none if nothing changed. *)
SquashChange(head, c, r) ==
    LET tip == Last(PickRange(head, c, r))
    IN  IF tip.err THEN <<tip>>
        ELSE IF tip.tree = head.tree THEN <<head>>
        ELSE <<head, Minted(tip.tree, head.reach, r, c)>>

(* A merge commit, unless the head contains the change: each file is taken from
   the side that changed it since the merge base.                           *)
ApplyMerge(head, c, r) ==
    LET base == TreeAt(c, MergeBase(head, c))
        theirs == TreeAt(c, Len(Chain[c]))
        clash == {f \in File : base[f] # head.tree[f] /\ base[f] # theirs[f] /\ head.tree[f] # theirs[f]}
        tree == [f \in File |-> IF head.tree[f] = base[f] THEN theirs[f] ELSE head.tree[f]]
    IN  IF Last(Chain[c]) \in head.reach THEN <<head>>
        ELSE IF c \in Unrelated THEN <<Invalid>>
        ELSE IF clash # {} THEN <<Conflict>>
        ELSE <<head, Minted(tree, head.reach \cup ToSet(Chain[c]), r, c)>>

(* PROMOTE: nothing to do if the tip contains the commit, a fast-forward if the
   commit descends from the tip, a conflict otherwise.                      *)
PromoteTo(head, c, r) ==
    LET ups == [i \in DOMAIN Chain[c] |->
                  [Minted(TreeAt(c, i), head.reach \cup ToSet(SubSeq(Chain[c], 1, i)), r, Chain[c][i])
                     EXCEPT !.id = Chain[c][i]]]
    IN  IF Last(Chain[c]) \in head.reach THEN <<head>>
        ELSE IF head.id \in {"root"} \cup ToSet(Chain[c])
             THEN <<head>> \o SubSeq(ups, MergeBase(head, c) + 1, Len(ups))
             ELSE <<Conflict>>

ApplyChange(strategy, head, c, r) ==
    CASE strategy = "REBASE" -> PickRange(head, c, r)
      [] strategy = "SQUASH_REBASE" -> SquashChange(head, c, r)
      [] strategy = "MERGE" -> ApplyMerge(head, c, r)
      [] strategy = "PROMOTE" -> PromoteTo(head, c, r)

(* The changes of a request, step by step, each with its step's strategy.   *)
InOrder(r) ==
    FlattenSeq([i \in DOMAIN Steps[r] |->
       [j \in DOMAIN Steps[r][i].changes |->
          [strategy |-> Resolve(Steps[r][i].strategy), change |-> Steps[r][i].changes[j]]]])

IsPromote(r) == Resolve(Steps[r][1].strategy) = "PROMOTE"

-----------------------------------------------------------------------------
(* The controllers.  Receiving a request, taking the mutex, each fetch and
   push, the answer and the ack are steps of their own.                     *)

Req(w) == task[w].req
Go(w, pc) == task' = [task EXCEPT ![w].pc = pc]
Answer(w, outcome) == task' = [task EXCEPT ![w].pc = "publish", ![w].outcome = outcome]

Receive(w) ==
    /\ task[w] = IdleTask /\ inbox[w] # <<>>
    /\ LET r == Head(inbox[w])
           t == [pc |-> "lock", req |-> r, push |-> 1, outcome |-> "none", todo |-> <<>>]
       IN  task' = [task EXCEPT ![w] = IF ResolveAndValidate(r) THEN t
                                       ELSE [t EXCEPT !.pc = "publish", !.outcome = "FAILED"]]
    /\ UNCHANGED <<world, queues, mu, checkout, answers, mishaps>>

Lock(w) ==
    /\ task[w].pc = "lock" /\ mu = "free"
    /\ mu' = w
    /\ Go(w, "vet")
    /\ UNCHANGED <<world, queues, checkout, answers, mishaps>>

(* Fetch and vet the changes, before the checkout is touched.               *)
Vet(w) ==
    /\ task[w].pc = "vet"
    /\ IF EnsureObjects(Req(w)) /\ Fresh(Req(w))
       THEN Go(w, "reset") /\ UNCHANGED mu
       ELSE Answer(w, "FAILED") /\ mu' = "free"
    /\ UNCHANGED <<world, queues, checkout, answers, mishaps>>

(* Mutant: the checkout keeps the commits it has when the tip did not move. *)
FetchKeepingCommits ==
    checkout' = IF checkout.base = Len(trunk) THEN checkout
                ELSE [base |-> Len(trunk), ahead |-> <<>>]

(* fetch, reset --hard to the remote tip, clean.                            *)
FetchAndReset == checkout' = [base |-> Len(trunk), ahead |-> <<>>]

ResetToRemote(w) ==
    /\ task[w].pc = "reset"
    /\ FetchAndReset
    /\ task' = [task EXCEPT ![w].pc = "apply", ![w].todo = InOrder(Req(w))]
    /\ UNCHANGED <<world, queues, mu, answers, mishaps>>

(* Apply the next change on the checkout.  The first that does not apply ends
   the cycle: on a conflict a dry run discards what it applied, a merge leaves
   it; on an invalid change a merge still looks whether the tip moved.      *)
Apply(w) ==
    LET next == Head(task[w].todo)
        head == IF checkout.ahead = <<>> THEN trunk[checkout.base] ELSE Last(checkout.ahead)
        done == ApplyChange(next.strategy, head, next.change, Req(w))
    IN  /\ task[w].pc = "apply" /\ task[w].todo # <<>>
        /\ CASE done = <<Conflict>> ->
                  /\ IF w = "merge" THEN UNCHANGED checkout ELSE FetchAndReset
                  /\ Answer(w, "FAILED")
                  /\ mu' = "free"
             [] done = <<Invalid>> /\ w = "check" -> Answer(w, "FAILED") /\ mu' = "free" /\ UNCHANGED checkout
             [] done = <<Invalid>> /\ w = "merge" ->
                  /\ task' = [task EXCEPT ![w].pc = "refetch", ![w].outcome = "FAILED"]
                  /\ UNCHANGED <<mu, checkout>>
             [] OTHER ->
                  /\ checkout' = [checkout EXCEPT !.ahead = @ \o Tail(done)]
                  /\ task' = [task EXCEPT ![w].todo = Tail(@)]
                  /\ UNCHANGED mu
        /\ UNCHANGED <<world, queues, answers, mishaps>>

AppliedAll(w) ==
    /\ task[w].pc = "apply" /\ task[w].todo = <<>>
    /\ Go(w, IF w = "merge" THEN "push" ELSE "discard")
    /\ UNCHANGED <<world, queues, mu, checkout, answers, mishaps>>

(* A dry run ends by discarding its commits.                                *)
Discard(w) ==
    /\ task[w].pc = "discard"
    /\ FetchAndReset
    /\ Answer(w, "SUCCEEDED")
    /\ mu' = "free"
    /\ UNCHANGED <<world, queues, answers, mishaps>>

(* The push is the point of no return: it takes effect only on the tip the
   checkout was reset to.  A failure leads to another look at the tip.      *)
Push(w) ==
    /\ task[w].pc = "push"
    /\ \/ /\ Len(trunk) = checkout.base
          /\ trunk' = trunk \o checkout.ahead
          /\ Answer(w, "SUCCEEDED")
          /\ mu' = "free"
          /\ UNCHANGED mishaps
       \/ /\ Len(trunk) # checkout.base
          /\ Go(w, "refetch")
          /\ UNCHANGED <<trunk, mu, mishaps>>
       \/ /\ "lost reply" \in FaultKinds /\ mishaps < MaxMishaps
          /\ Len(trunk) = checkout.base
          /\ trunk' = trunk \o checkout.ahead
          /\ Go(w, "refetch")
          /\ mishaps' = mishaps + 1
          /\ UNCHANGED mu
       \/ /\ "push error" \in FaultKinds /\ mishaps < MaxMishaps
          /\ Go(w, "refetch")
          /\ mishaps' = mishaps + 1
          /\ UNCHANGED <<trunk, mu>>
    /\ UNCHANGED <<stale, pushes, queues, checkout, answers>>

(* Mutant: a request out of retries is dropped.                             *)
NackDropping(w) ==
    /\ task' = [task EXCEPT ![w] = IdleTask]
    /\ mu' = "free"
    /\ IF attempts[w] + 1 < MaxAttempts
       THEN attempts' = [attempts EXCEPT ![w] = @ + 1] /\ UNCHANGED <<inbox, dead>>
       ELSE /\ attempts' = [attempts EXCEPT ![w] = 0]
            /\ inbox' = [inbox EXCEPT ![w] = Tail(@)]
            /\ UNCHANGED dead

(* Mutant: the checkout stays locked after a failure.                       *)
NackLocked(w) ==
    /\ task' = [task EXCEPT ![w] = IdleTask]
    /\ UNCHANGED mu
    /\ IF attempts[w] + 1 < MaxAttempts
       THEN attempts' = [attempts EXCEPT ![w] = @ + 1] /\ UNCHANGED <<inbox, dead>>
       ELSE /\ attempts' = [attempts EXCEPT ![w] = 0]
            /\ inbox' = [inbox EXCEPT ![w] = Tail(@)]
            /\ dead' = dead \cup {Req(w)}

(* The delivery fails: redelivered, or dead-lettered when its retries are up. *)
Nack(w) ==
    /\ task' = [task EXCEPT ![w] = IdleTask]
    /\ mu' = "free"
    /\ IF attempts[w] + 1 < MaxAttempts
       THEN /\ attempts' = [attempts EXCEPT ![w] = @ + 1]
            /\ UNCHANGED <<inbox, dead>>
       ELSE /\ attempts' = [attempts EXCEPT ![w] = 0]
            /\ inbox' = [inbox EXCEPT ![w] = Tail(@)]
            /\ dead' = dead \cup {Req(w)}

(* Another cycle is worth it if the tip moved (a promote re-classifies in any
   case), up to the limit.                                                  *)
Retry(w) ==
    /\ IsPromote(Req(w)) \/ Len(trunk) # checkout.base
    /\ task[w].push < MaxPush

(* Without another cycle, an invalid request is answered and a failed push is
   an error of the delivery.                                                *)
RefetchTip(w) ==
    /\ task[w].pc = "refetch"
    /\ CASE Retry(w) ->
              /\ task' = [task EXCEPT ![w].pc = "reset", ![w].push = @ + 1, ![w].outcome = "none"]
              /\ UNCHANGED <<mu, attempts, inbox, dead>>
         [] ~Retry(w) /\ task[w].outcome = "FAILED" ->
              /\ Answer(w, "FAILED") /\ mu' = "free"
              /\ UNCHANGED <<attempts, inbox, dead>>
         [] OTHER -> Nack(w)
    /\ UNCHANGED <<world, checkout, answers, deadAnswers, mishaps>>

(* Mutant: an answer replaces one sent earlier.                             *)
PublishOver(r, outcome) == answers' = [answers EXCEPT ![r] = outcome]

(* The message ID is the request's, so a second answer is dropped.          *)
PublishResult(r, outcome) ==
    answers' = IF answers[r] = "none" THEN [answers EXCEPT ![r] = outcome] ELSE answers

Publish(w) ==
    /\ task[w].pc = "publish"
    /\ PublishResult(Req(w), task[w].outcome)
    /\ Go(w, "ack")
    /\ UNCHANGED <<world, queues, mu, checkout, mishaps>>

Ack(w) ==
    /\ task[w].pc = "ack"
    /\ inbox' = [inbox EXCEPT ![w] = Tail(@)]
    /\ attempts' = [attempts EXCEPT ![w] = 0]
    /\ task' = [task EXCEPT ![w] = IdleTask]
    /\ UNCHANGED <<world, dead, deadAnswers, mu, checkout, answers, mishaps>>

(* The dead-letter consumer answers FAILED under an ID of its own.          *)
AnswerDead(r) ==
    /\ r \in dead
    /\ dead' = dead \ {r}
    /\ deadAnswers' = deadAnswers \cup {r}
    /\ UNCHANGED <<world, inbox, attempts, task, mu, checkout, answers, mishaps>>

(* The process dies: both deliveries come again, the checkout stays as it is. *)
Crash ==
    /\ "crash" \in FaultKinds /\ mishaps < MaxMishaps
    /\ \E w \in Worker : task[w] # IdleTask
    /\ task' = [w \in Worker |-> IdleTask]
    /\ mu' = "free"
    /\ mishaps' = mishaps + 1
    /\ UNCHANGED <<world, queues, checkout, answers>>

(* Others push to the trunk, and force-push a change.                       *)
PushByOthers(e) ==
    /\ pushes < MaxForeign
    /\ Last(trunk).tree[e.file] = e.from
    /\ trunk' = Append(trunk, Minted(Applied(Last(trunk).tree, e), Last(trunk).reach, "other", "other"))
    /\ pushes' = pushes + 1
    /\ UNCHANGED <<stale, queues, task, mu, checkout, answers, mishaps>>

ForcePush(c) ==
    /\ CheckStaleness /\ pushes < MaxForeign
    /\ c \notin stale
    /\ stale' = stale \cup {c}
    /\ pushes' = pushes + 1
    /\ UNCHANGED <<trunk, queues, task, mu, checkout, answers, mishaps>>

Process(w) ==
    \/ Receive(w) \/ Lock(w) \/ Vet(w) \/ ResetToRemote(w) \/ Apply(w) \/ AppliedAll(w) \/ Discard(w)
    \/ Push(w) \/ RefetchTip(w) \/ Publish(w) \/ Ack(w)

RunwayNext ==
    \/ \E w \in Worker : Process(w)
    \/ \E r \in MergeRequest : AnswerDead(r)
    \/ Crash
    \/ \E e \in Foreign : PushByOthers(e)
    \/ \E c \in Movable : ForcePush(c)

RunwaySpec == RunwayInit /\ [][RunwayNext]_runwayVars

(* The consumers keep going; others may or may not push.  A worker that waits
   for the checkout gets it in the end: the mutex is handed on in turn.     *)
RunwayFairness ==
    /\ \A w \in Worker : WF_runwayVars(Process(w))
    /\ WF_runwayVars(\E r \in MergeRequest : AnswerDead(r))

RunwayFairSpec == RunwaySpec /\ RunwayFairness

-----------------------------------------------------------------------------
(* The contents a request asks for.                                         *)
Wanted(r) == [c \in Changes(r) |-> TreeAt(c, Len(Chain[c]))]
Touched(c) == {Edit[Chain[c][i]].file : i \in DOMAIN Chain[c]}
Holds(tree, r) == \A c \in Changes(r), f \in File :
                     f \in Touched(c) => \E d \in Changes(r) : tree[f] = Wanted(r)[d][f]

(* A change of the request is picked, and edits a file twice.               *)
EditsTwice(r) ==
    \E n \in DOMAIN InOrder(r) :
       LET c == InOrder(r)[n].change IN
       /\ InOrder(r)[n].strategy \in {"REBASE", "SQUASH_REBASE"}
       /\ \E i, j \in DOMAIN Chain[c] : i < j /\ Edit[Chain[c][i]].file = Edit[Chain[c][j]].file

(* A merge answered SUCCEEDED is on the trunk: at some commit the trunk had the
   contents of every change of the request at once.                         *)
SucceededIsOnTrunk ==
    \A r \in Merges : answers[r] = "SUCCEEDED" =>
       \E i \in DOMAIN trunk : Holds(trunk[i].tree, r)

(* Others wrote a file that the request edits after commit i of the trunk.   *)
Overwritten(r, i) ==
    \E j \in i + 1 .. Len(trunk), c \in Changes(r) :
       trunk[j].by = "other" /\ \E f \in Touched(c) : trunk[j].tree[f] # trunk[j - 1].tree[f]

(* The trunk carries each commit of a request once, however often the request
   is delivered, the cycle retried or the reply to a push lost; unless others
   took the edit back in between, for then the pick applies again.          *)
AppliedOnce ==
    \A i, j \in DOMAIN trunk :
       i < j /\ trunk[i].by \in MergeRequest /\ trunk[i].by = trunk[j].by /\ trunk[i].of = trunk[j].of =>
          Overwritten(trunk[i].by, i)

(* A dry run leaves nothing on the trunk, though it commits to the checkout that
   merges push from and may die before discarding its commits.              *)
ChecksNeverLand ==
    \A i \in DOMAIN trunk : trunk[i].by \in MergeRequest => trunk[i].by \in Merges

(* A merge answered FAILED by the merge controller left nothing on the trunk,
   though it may have been pushed in an earlier cycle or delivery whose reply or
   answer was lost.  The code has four exceptions.  A force-push of one of its
   changes in between: the stale head is refused without a look at the trunk
   (git_merger.go, checkStale).
   Others wrote a file of it on top: its picks conflict with their commit.  And
   picks that edit one file twice: the first conflicts with what the last left
   on the trunk, where each alone would be skipped as empty.  Last, a delivery
   that comes again after its FAILED was sent runs anew, may find the conflict
   gone, and lands; its own answer is dropped as a duplicate.               *)
FailedIsNotLanded ==
    \A r \in Merges : answers[r] = "FAILED" /\ Changes(r) \cap stale = {} /\ ~EditsTwice(r) =>
       \A i \in DOMAIN trunk : trunk[i].by = r => trunk[i].late \/ Overwritten(r, i)

(* An answer, once sent, stays the answer.                                  *)
AnswerStands == \A r \in MergeRequest : answers[r] # "none" => answers'[r] = answers[r]
AnsweredOnce == [][AnswerStands]_runwayVars

(* Every request is answered, by its controller or by the dead-letter consumer. *)
EveryRequestIsAnswered == <>[](\A r \in MergeRequest : answers[r] = "none" => r \in deadAnswers)
=============================================================================
