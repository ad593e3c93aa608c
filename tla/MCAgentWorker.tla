---------------------------- MODULE MCAgentWorker ----------------------------
(***************************************************************************)
(* Two draining clients and a streaming one on a queue of two, with two    *)
(* blocking threads, for TLC.                                              *)
(***************************************************************************)
EXTENDS AgentWorker
CONSTANTS c1, c2, s1
MCSync   == {c1, c2}
MCStream == {s1}
==============================================================================
