----------------------------- MODULE MCEnrolment -----------------------------
(* Small instances of Enrolment for TLC.                                    *)
EXTENDS Enrolment, TLC

CONSTANTS q1, q2

TwoRequests == <<q1, q2>>
OneRequest == <<q2>>
CancelledFirst == <<q2, q1>>

(* Liveness, kept small: with a cancel and a second request both, the users *)
(* act before the fault and the fault is a dead letter; with one of them it *)
(* is any.                                                                  *)
Busy == Cardinality(asked) > 2
Bounded ==
    /\ Busy' /\ ~Busy => faults = 0
    /\ Busy /\ faults' # faults => Len(topic'["dlq"]) > Len(topic["dlq"])
LiveSpec == Init /\ [][Next /\ Bounded]_vars /\ Fairness
=============================================================================
