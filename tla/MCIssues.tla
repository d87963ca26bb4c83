------------------------------ MODULE MCIssues ------------------------------
(* Instances of Issues for TLC.                                             *)
EXTENDS Issues

Scenario(finds, ends, upset, stalls, fixing) ==
    [finds |-> finds, ends |-> ends, upsets |-> upset, stalls |-> stalls, fixing |-> fixing]
Anywhere == {"again", "start", "batch", "list", "next", "key", "write", "end", "log", "row", "shown",
             "open", "fence", "guard", "refence", "abandon"}

(* Two issues, one of them task-wide, of which one goes away; one that comes and
   goes, with dead letters, a crash, and a tracker that outlives its lease; a
   cancelled build, with repairs and a failure upstream.                    *)
ThreeCases ==
    {Scenario(<<{1, 2}, {2}>>, {"passed"}, {}, {}, TRUE),
     Scenario(<<{2}, {}>>, {"passed"}, {"expiry", "tracker", "analysis", "crash"}, {"log", "write", "open"}, FALSE),
     Scenario(<<{2}, {}>>, {"cancelled"}, {"request", "fix", "fix_expiry"}, {}, TRUE)}
(* The same, and more, with the upsets anywhere.                            *)
WiderCases ==
    {Scenario(<<{1, 2}, {2}>>, {"passed"}, {"crash", "expiry"}, Anywhere, FALSE),
     Scenario(<<{2}, {1}>>, {"cancelled"}, {"request", "analysis", "fix"}, Anywhere, TRUE),
     Scenario(<<{2}, {}>>, {"passed"}, {"expiry", "tracker"}, Anywhere, FALSE)}
(* A repair outlives its lease, and the build reports more by then.         *)
TwoRepairs == {Scenario(<<{1, 2}, {}>>, {"passed"}, {"fix_expiry"}, {}, TRUE)}
=============================================================================
