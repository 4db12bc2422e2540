----------------------------- MODULE MCScheduler -----------------------------
(* Workers for model-checking Scheduler.                                    *)
EXTENDS Scheduler

CONSTANTS w1, w2, w3
=============================================================================
