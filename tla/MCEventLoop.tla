----------------------------- MODULE MCEventLoop -----------------------------
(* Threads for model-checking EventLoop.                                    *)
EXTENDS EventLoop

CONSTANTS l1, l2, c1, s1
==============================================================================
