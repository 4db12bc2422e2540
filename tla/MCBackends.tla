------------------------------ MODULE MCBackends ------------------------------
(* Instances of Backends for TLC. *)
EXTENDS Backends

CONSTANTS e1, e2, e3, e4

\* The largest descriptor is that of two events.
MCFd == [e \in {e1, e2, e3, e4} |-> CASE e \in {e1, e2} -> 3 [] e = e3 -> 1 [] e = e4 -> 2]
\* sig_fd, which is 2, is between those of the events.
MCFdAround == [e \in {e1, e2, e3, e4} |-> CASE e \in {e1, e2} -> 3 [] e = e3 -> 1 [] e = e4 -> 4]
=============================================================================
