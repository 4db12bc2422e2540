----------------------------- MODULE MCPipeSync -----------------------------
(* Constants for model-checking PipeSync.                                   *)
EXTENDS PipeSync

CONSTANTS w1, w2, r1, r2

\* As in test/thread/vms.lua: every thread runs in a VM of its own.
VmPerThread == [t \in Threads |-> t]

\* thread.run: the threads share the VM of the main thread.
OneVm == [t \in Threads |-> w1]
=============================================================================
