------------------------------ MODULE MCStreams ------------------------------
(* Streams for model-checking.                                              *)
EXTENDS Streams
=============================================================================
