-------------------------- MODULE MCAnomalyWatcher --------------------------
(* Two calls of start, two titles and two faults. *)
EXTENDS AnomalyWatcher, TLC

Symmetry == Permutations(Loop) \cup Permutations(Title)

==============================================================================
