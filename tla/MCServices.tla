----------------------------- MODULE MCServices -----------------------------
(***************************************************************************)
(* The services that share no state with one another, side by side: a       *)
(* behaviour is one of a single service, named by part, and the variables   *)
(* of the others are not used (0).                                          *)
(***************************************************************************)
EXTENDS Integers, Cases

VARIABLES part,
    (* Gateway *)
    counter, paused, received, summary, uris, receipts, logs, landing, published, cancels, reported,
    topic, persist, projected, accepted, terminated, faults,
    (* Listing *)
    stamp, status, lister, listed, due,
    (* Runway *)
    trunk, stale, inbox, attempts, task, mu, checkout, answers, dead, deadAnswers, mishaps, pushes,
    (* GithubMerger *)
    ask, pull, inflight, history, delivery, deliveries, waiting, answer, lettered, trouble

gateway == <<counter, paused, received, summary, uris, receipts, logs, landing, published, cancels,
             reported, topic, persist, projected, accepted, terminated, faults>>
listing == <<stamp, status, lister, listed, due>>
runway == <<trunk, stale, inbox, attempts, task, mu, checkout, answers, dead, deadAnswers, mishaps, pushes>>
github == <<ask, pull, inflight, history, delivery, deliveries, waiting, answer, lettered, trouble>>
all == <<part, gateway, listing, runway, github>>

G == INSTANCE Gateway WITH
        MaxRequest <- 1, MaxTime <- 2, Outcomes <- {"landed", "cancelled"}, Reports <- {"event"},
        Cancellers <- "known", MaxBacklog <- 1, MaxFaults <- 1
L == INSTANCE Listing WITH
        MaxReceipt <- 3, MaxStamp <- 2, PageSize <- 1, Budget <- 2, Filters <- {{}, {"landed"}},
        Windows <- {<<1, 3>>, <<1, 2>>}
R == INSTANCE Runway WITH
        File <- {"w", "x", "y", "z"}, Edit <- Edits, Chain <- Chains, Steps <- Requests,
        Merges <- {"stack", "squash", "merge", "rival", "promote", "twice", "gone", "alien", "mixed"},
        Schedules <- OneEach, DefaultStrategy <- "REBASE", Unrelated <- {"orphan"},
        Unavailable <- {"lost"}, CheckStaleness <- TRUE, Foreign <- Others, Movable <- {"a"},
        MaxPush <- 2, MaxAttempts <- 2, FaultKinds <- {"crash", "lost reply", "push error"},
        MaxMishaps <- 2, MaxForeign <- 1
H == INSTANCE GithubMerger WITH
        Stacks <- TwoStacks, Asked <- Questions, MaxPolls <- 1, MaxDeliveries <- 2, MaxTrouble <- 1

Unused ==
    /\ part # "gateway" => /\ counter = 0 /\ paused = 0 /\ received = 0 /\ summary = 0 /\ uris = 0
                           /\ receipts = 0 /\ logs = 0 /\ landing = 0 /\ published = 0 /\ cancels = 0
                           /\ reported = 0 /\ topic = 0 /\ persist = 0 /\ projected = 0 /\ accepted = 0
                           /\ terminated = 0 /\ faults = 0
    /\ part # "listing" => stamp = 0 /\ status = 0 /\ lister = 0 /\ listed = 0 /\ due = 0
    /\ part # "runway" => /\ trunk = 0 /\ stale = 0 /\ inbox = 0 /\ attempts = 0 /\ task = 0 /\ mu = 0
                          /\ checkout = 0 /\ answers = 0 /\ dead = 0 /\ deadAnswers = 0 /\ mishaps = 0
                          /\ pushes = 0
    /\ part # "github" => /\ ask = 0 /\ pull = 0 /\ inflight = 0 /\ history = 0 /\ delivery = 0
                          /\ deliveries = 0 /\ waiting = 0 /\ answer = 0 /\ lettered = 0 /\ trouble = 0

Init ==
    /\ part \in {"gateway", "listing", "runway", "github"}
    /\ Unused
    /\ part = "gateway" => G!Init
    /\ part = "listing" => L!ListInit
    /\ part = "runway" => R!RunwayInit
    /\ part = "github" => H!GithubInit

(* A step of one service.                                                   *)
InGateway(A) == part = "gateway" /\ A /\ UNCHANGED <<part, listing, runway, github>>
InListing(A) == part = "listing" /\ A /\ UNCHANGED <<part, gateway, runway, github>>
InRunway(A) == part = "runway" /\ A /\ UNCHANGED <<part, gateway, listing, github>>
InGithub(A) == part = "github" /\ A /\ UNCHANGED <<part, gateway, listing, runway>>

Next == InGateway(G!Next) \/ InListing(L!ListNext) \/ InRunway(R!RunwayNext) \/ InGithub(H!GithubNext)

(* Each service's own fairness.                                             *)
Fairness ==
    /\ \A r \in G!Request :
          /\ WF_all(InGateway(G!PublishStart(r) \/ G!LogAccepted(r) \/ G!ConsumeLog(r)))
          /\ WF_all(InGateway("started" \notin reported[r] /\ G!Report(r)))
          /\ \A w \in G!Writer : WF_all(InGateway(G!Persist(r, w)))
    /\ WF_all(InListing(L!ReadReceipts \/ L!ReadListSummary \/ L!EndOfBatch \/ L!NextPage))
    /\ \A w \in R!Worker : WF_all(InRunway(R!Process(w)))
    /\ WF_all(InRunway(\E r \in R!MergeRequest : R!AnswerDead(r)))
    /\ WF_all(InGithub(H!Merger))

Spec == Init /\ [][Next]_all /\ Fairness
-----------------------------------------------------------------------------
(* What a client reads is what happened: a summary repeats the winning log
   record of its request (Materializer), whatever read model serves it, each
   outcome is counted once (RecordLifecycleTransition), and a listing's pages
   hold every request that was there all along, newest first (List).        *)
ReadsAreTrue ==
    /\ part = "gateway" => G!TypeOK /\ G!AgreesWithLog /\ G!ReadsAgree /\ G!CountedOnce
    /\ part = "listing" => L!ListTypeOK /\ L!NoneMissed /\ L!PagesDescend

(* The mergers' answers are what became of the trunk.  Git (git_merger.go): a
   request that succeeded is on it, once, one that failed is not, and a dry run
   never is; what FailedIsNotLanded and AppliedOnce except is named there.
   GitHub (github_merger.go): what succeeded landed, in the order of its steps
   and nothing else with it, what failed lists the steps that landed unless a
   merge was on its way when a redelivery read the step, and a dry run lands
   nothing.                                                                 *)
MergesAreTrue ==
    /\ part = "runway" => /\ R!RunwayTypeOK /\ R!SucceededIsOnTrunk /\ R!AppliedOnce
                          /\ R!ChecksNeverLand /\ R!FailedIsNotLanded
    /\ part = "github" => /\ H!GithubTypeOK /\ H!GithubSucceededIsLanded /\ H!OnlyNamedLand
                          /\ H!StepsLandInOrder /\ H!FailedListsLanded /\ H!DryRunLandsNothing

Asked ==
    \/ part = "gateway" /\ published # {}
    \/ part = "listing" /\ lister.pc # "idle"
    \/ part = "runway" \/ part = "github"
Served ==
    \/ part = "gateway" /\ published \subseteq receipts \cap uris
    \/ part = "listing" /\ lister.pc = "done"
    \/ part = "runway" /\ \A r \in R!MergeRequest : answers[r] = "none" => r \in deadAnswers
    \/ part = "github" /\ (answer # H!NoAnswer \/ lettered = "answered")
(* What a service was asked it answers: a published request is listed and
   found, a client gets its last page, and the mergers answer every request,
   themselves or through the dead-letter consumer: what they answer is up to
   MergesAreTrue.                                                           *)
ServedInTheEnd == Asked ~> Served
=============================================================================
