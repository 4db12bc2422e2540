---------------------------- MODULE MCPipeBuffer ----------------------------
(* PipeBuffer for model-checking: all its constants are given in the cfg.   *)
EXTENDS PipeBuffer
=============================================================================
