------------------------------ MODULE MCSignals ------------------------------
(* Instances of Signals for TLC. *)
EXTENDS Signals

CONSTANTS q1, q2, e1, e2, e3, c1

MCQueues == {q1, q2}
MCEvents == {e1, e2, e3}
MCWhat == [e \in MCEvents |->
    CASE e = e1 -> [evq |-> q1, signo |-> SIGINT, child |-> NONE, oneshot |-> FALSE]
      [] e = e2 -> [evq |-> q2, signo |-> SIGINT, child |-> NONE, oneshot |-> TRUE]
      [] e = e3 -> [evq |-> q1, signo |-> SIGCHLD, child |-> c1, oneshot |-> TRUE]]
MCIgnores == {SIGINT}
=============================================================================
