---------------------------- MODULE MCThreadpool ----------------------------
(* Graphs for TLC. *)
EXTENDS Threadpool

MCGraph == <<"mul", "skip", "fused", "plain">>
=============================================================================
