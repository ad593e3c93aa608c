------------------------------ MODULE MCMessageBus ------------------------------
(***************************************************************************)
(* Two messages, a channel that keeps one, and two agents whose names      *)
(* differ only in case, so that they share a topic, in two runs.           *)
(***************************************************************************)
EXTENDS Swarm
CONSTANTS m1, m2, l1, l2
MCMessage  == {m1, m2}
MCListener == {l1, l2}
=================================================================================
