---------------------------- MODULE MCRagPipeline ----------------------------
(* Two short texts that are similar and one long text. *)
EXTENDS RagPipeline, TLC

CONSTANTS c1, c2, t1, t2, long, scout, worker

MCNear == {<<t1, t2>>, <<t2, t1>>}
Symmetry == Permutations(Call) \cup Permutations(Role)

==============================================================================
