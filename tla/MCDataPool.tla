----------------------------- MODULE MCDataPool -----------------------------
(* Constants for model-checking DataPool.                                   *)
EXTENDS DataPool, TLC

CONSTANTS w1, w2, r1, r2

AllCallbacks == SUBSET CallbackFlags
OnEmptyOnly == {{"getonempty"}}

ReaderSymmetry == Permutations({r1, r2})
=============================================================================
