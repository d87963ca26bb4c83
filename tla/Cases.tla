------------------------------- MODULE Cases -------------------------------
(* What the mergers are asked in the models: changes, stacks and requests.  *)
EXTENDS Sequences, TLC

(* The git merger.                                                          *)

(* a is one commit, b is stacked on it; c stands alone; d edits the line a
   edits; e makes two edits of one line.                                    *)
Edits == [a1 |-> [file |-> "x", from |-> 0, to |-> 1],
          b1 |-> [file |-> "y", from |-> 0, to |-> 1],
          c1 |-> [file |-> "z", from |-> 0, to |-> 1],
          d1 |-> [file |-> "x", from |-> 0, to |-> 2],
          e1 |-> [file |-> "x", from |-> 0, to |-> 1],
          e2 |-> [file |-> "x", from |-> 1, to |-> 2]]
Chains == [a |-> <<"a1">>, b |-> <<"a1", "b1">>, c |-> <<"c1">>, d |-> <<"d1">>, e |-> <<"e1", "e2">>,
           lost |-> <<"c1">>, orphan |-> <<"c1">>]

MergeStep(strategy, changes) == [strategy |-> strategy, changes |-> changes]

Requests ==
    [stack   |-> <<MergeStep("DEFAULT", <<"a", "b">>)>>,
     squash  |-> <<MergeStep("SQUASH_REBASE", <<"b">>), MergeStep("MERGE", <<"c">>)>>,
     merge   |-> <<MergeStep("MERGE", <<"b">>)>>,
     rival   |-> <<MergeStep("REBASE", <<"d">>)>>,
     promote |-> <<MergeStep("PROMOTE", <<"b">>)>>,
     twice   |-> <<MergeStep("REBASE", <<"e">>)>>,
     gone    |-> <<MergeStep("REBASE", <<"lost">>)>>,
     alien   |-> <<MergeStep("MERGE", <<"orphan">>)>>,
     mixed   |-> <<MergeStep("PROMOTE", <<"a">>), MergeStep("PROMOTE", <<"c">>)>>,
     dry     |-> <<MergeStep("REBASE", <<"c">>)>>,
     dryAlien |-> <<MergeStep("REBASE", <<"orphan">>)>>,
     clash   |-> <<MergeStep("SQUASH_REBASE", <<"a">>), MergeStep("REBASE", <<"d">>)>>]

Sent(merges, checks) == ("merge" :> merges @@ "check" :> checks)

(* One merge and one dry run at a time, two merges that compete, and a change
   that edits one line twice.                                               *)
OneEach == {Sent(<<"stack">>, <<"dry">>), Sent(<<"squash">>, <<"dry">>), Sent(<<"promote">>, <<"dry">>),
            Sent(<<"merge", "rival">>, <<>>), Sent(<<"gone", "alien">>, <<>>), Sent(<<"mixed">>, <<"dryAlien", "clash">>),
            Sent(<<"twice">>, <<>>)}

(* Others push to a file no request touches, or to one that a request edits:
   the same edit, another on top of it, or one that takes it back.          *)
Others == {[file |-> "w", from |-> 0, to |-> 1], [file |-> "x", from |-> 0, to |-> 1],
           [file |-> "x", from |-> 1, to |-> 3], [file |-> "x", from |-> 1, to |-> 0]}
-----------------------------------------------------------------------------
(* The GitHub merger.                                                       *)

(* A stack of two, and a pull request on its own.                           *)
TwoStacks == {<<1, 2>>, <<3>>}

Ask(mode, method, steps) == [mode |-> mode, method |-> method, steps |-> steps]

(* A stack then a single; a stack over two steps; one with a gap; a dry run;
   a method pull requests do not have.                                      *)
Questions == {Ask("merge", "rebase", <<<<1, 2>>, <<3>>>>), Ask("merge", "squash", <<<<1>>, <<2>>>>),
              Ask("merge", "merge", <<<<3>>, <<2>>>>), Ask("check", "rebase", <<<<1, 2>>, <<3>>>>),
              Ask("merge", "promote", <<<<1>>>>)}
-----------------------------------------------------------------------------
(* A queue's enablement: a trunk that is rewritten, rivals that lose a write,
   a call that shares the row with the pipeline, and a client that asks.    *)
Forked == [c \in {"a", "b", "x"} |-> IF c = "a" THEN {"a"} ELSE {"a", c}]
Enabling(p, q) == [c \in {"p", "q"} |-> IF c = "p" THEN p ELSE q]
QueuePlans ==
    {[wants |-> Enabling("ENABLED", "DISABLED"), stages |-> 0, faults |-> 1, asks |-> {}, legacy |-> FALSE,
      tips |-> <<"a">>],
     [wants |-> Enabling("ENABLED", "ENABLED"), stages |-> 1, faults |-> 0, asks |-> {}, legacy |-> TRUE,
      tips |-> <<"a">>],
     [wants |-> Enabling("ENABLED", "none"), stages |-> 0, faults |-> 1, asks |-> {"b"}, legacy |-> TRUE,
      tips |-> <<"a", "b">>],
     [wants |-> Enabling("ENABLED", "DISABLED"), stages |-> 0, faults |-> 0, asks |-> {"a"}, legacy |-> FALSE,
      tips |-> <<"a", "b", "x">>]}
-----------------------------------------------------------------------------
(* The topics of the services that are followed, what each is sent (a
   partition key and a message), and the deliveries no worker takes.        *)
Followed == ({"runway-merge", "build", "log", "start", "cancel"} \X {"main"}) \cup ({"runway-merge", "process", "start"} \X {"dlq"})
Deliveries == [t \in Followed |->
                 CASE t = <<"log", "main">> -> <<<<"p", 1>>, <<"p", 3>>, <<"p", 4>>, <<"p", 5>>>>
                   [] t = <<"process", "dlq">> -> <<<<"p", 1>>, <<"q", 2>>>>
                   [] t = <<"runway-merge", "main">> -> <<<<"p", 1>>>>
                   [] OTHER -> <<>>]
Strays == {<<"q", 2>>}
-----------------------------------------------------------------------------
(* What the resolver of project results says of a commit: two projects, the
   same with their degrees changed, one of them only, or none.              *)
Named == {(1 :> 0 @@ 2 :> 2), (1 :> 2 @@ 2 :> 0), (2 :> 2), << >>}
=============================================================================
