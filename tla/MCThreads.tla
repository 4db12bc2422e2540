------------------------------ MODULE MCThreads ------------------------------
(* Threads for model-checking Threads.                                      *)
EXTENDS Threads

CONSTANTS m, a, b, c
=============================================================================
