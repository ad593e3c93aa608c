---------------------------- MODULE MCGlobalBreaker ----------------------------
(***************************************************************************)
(* Threads on the global breaker, for TLC.  Threads are interchangeable    *)
(* and the properties are safety properties.                               *)
(***************************************************************************)
EXTENDS GlobalBreaker, TLC
CONSTANTS t1, t2, t3
MCThread == {t1, t2, t3}
Threads  == Permutations(MCThread)
================================================================================
