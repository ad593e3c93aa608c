------------------------------- MODULE MCHybrid -------------------------------
(***************************************************************************)
(* Instances of HybridOrchestrator for TLC: three positions; the graphs    *)
(* the decomposer can return are a single node, independent subtasks, a    *)
(* chain, a diamond's half, a cycle, a dependency on an id nobody bears    *)
(* and two subtasks with the same id.                                      *)
(***************************************************************************)
EXTENDS HybridOrchestrator

Graph(nodes, ids, deps) == [nodes |-> nodes, idOf |-> ids, dependsOn |-> deps]

Distinct == <<"t1", "t2", "t3">>

Single   == Graph({1}, Distinct, <<{}, {}, {}>>)
Pair     == Graph({1, 2}, Distinct, <<{}, {"t1"}, {}>>)
Fan      == Graph({1, 2, 3}, Distinct, <<{}, {}, {}>>)
Chain    == Graph({1, 2, 3}, Distinct, <<{}, {"t1"}, {"t2"}>>)
Join     == Graph({1, 2, 3}, Distinct, <<{}, {}, {"t1", "t2"}>>)
Cycle    == Graph({1, 2, 3}, Distinct, <<{}, {"t3"}, {"t2"}>>)
Unknown  == Graph({1, 2}, Distinct, <<{}, {"t3"}, {}>>)
Repeated == Graph({1, 2, 3}, <<"t1", "t1", "t2">>, <<{}, {}, {"t1"}>>)

MCNode  == 1 .. 3
MCId    == {"t1", "t2", "t3"}
MCPlans == {Single, Pair, Fan, Chain, Join, Cycle, Unknown, Repeated}
===============================================================================
