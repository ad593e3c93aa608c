---------------------------- MODULE MCReActExecutor ----------------------------
(***************************************************************************)
(* One run of the loop with two call signatures, for TLC.                  *)
(***************************************************************************)
EXTENDS ReActExecutor
CONSTANTS r1, a, b
MCRun  == {r1}
MCCall == {a, b}
================================================================================
