---------------------------- MODULE MCReActPlanner ----------------------------
(***************************************************************************)
(* Two requests at a time on one planner, for TLC.                         *)
(***************************************************************************)
EXTENDS ReActPlanner
CONSTANTS r1, r2, a
MCRun  == {r1, r2}
MCCall == {a}
===============================================================================
