--------------------------- MODULE DependencyRounds ---------------------------
(***************************************************************************)
(* What a run over a dependency graph promises, whatever judges it: the    *)
(* subtasks run in rounds, at most MaxRounds of them; a subtask starts     *)
(* only when what it depends on is done, and at most once in a round;      *)
(* between rounds subtasks may be reopened; and the run ends.              *)
(***************************************************************************)
EXTENDS Naturals

CONSTANTS Node, Id, Plans, MaxRounds

VARIABLES
    plan,    \* the graph
    status,  \* the status of every node
    ran,     \* the nodes that have started in the current round
    spent,   \* the rounds that are over
    over     \* the run has ended

absVars == <<plan, status, ran, spent, over>>

Running   == {n \in Node : status[n] = "running"}
Satisfied(st) ==
    {n \in plan.nodes : plan.dependsOn[n] \subseteq
                          {plan.idOf[m] : m \in {k \in plan.nodes : st[k] = "done"}}}

\* The statuses st with the nodes of S started.
Started(S, st) == [n \in Node |-> IF n \in S THEN "running" ELSE st[n]]
MayStart(S, st) == /\ S \subseteq Satisfied(st)
                   /\ \A n \in S : st[n] = "pending"

AbsInit ==
    /\ status = [n \in Node |-> "absent"]
    /\ plan.nodes = {}
    /\ ran = {} /\ spent = 0 /\ over = FALSE

Load ==
    /\ plan.nodes = {}
    /\ plan' \in Plans
    /\ status' = [n \in Node |-> IF n \in plan'.nodes THEN "pending" ELSE "absent"]
    /\ UNCHANGED <<ran, spent, over>>

\* A round opens with some of the nodes that may start.
Open ==
    /\ Running = {} /\ spent < MaxRounds
    /\ \E S \in SUBSET Node : /\ S # {} /\ MayStart(S, status)
                              /\ status' = Started(S, status)
                              /\ ran' = S
    /\ UNCHANGED <<plan, spent, over>>

\* What runs comes back; more nodes start, or the round closes.
Settle(st) ==
    \A n \in Node : IF n \in Running THEN st[n] \in {"done", "failed"}
                                     ELSE st[n] = status[n]
Advance ==
    /\ Running # {}
    /\ \E S \in SUBSET Node, st \in [Node -> {"absent", "pending", "done", "failed"}] :
         /\ Settle(st) /\ MayStart(S, st)
         /\ S \cap ran = {}
         /\ status' = Started(S, st)
         /\ \/ S # {} /\ ran' = ran \cup S /\ spent' = spent
            \/ S = {} /\ spent < MaxRounds /\ spent' = spent + 1 /\ ran' = ran
    /\ UNCHANGED <<plan, over>>

\* A round in which nothing is left to run.
Idle ==
    /\ plan.nodes # {} /\ Running = {} /\ spent < MaxRounds
    /\ \A n \in plan.nodes : status[n] = "done"
    /\ spent' = spent + 1 /\ ran' = {}
    /\ UNCHANGED <<plan, status, over>>

\* Between rounds, settled nodes become pending again.
Reopen ==
    /\ Running = {}
    /\ \E S \in SUBSET {n \in plan.nodes : status[n] \in {"done", "failed"}} :
         /\ S # {}
         /\ status' = [n \in Node |-> IF n \in S THEN "pending" ELSE status[n]]
    /\ UNCHANGED <<plan, ran, spent, over>>

Stop ==
    /\ over' = TRUE
    /\ UNCHANGED <<plan, status, ran, spent>>

AbsNext == ~over /\ (Load \/ Open \/ Advance \/ Idle \/ Reopen \/ Stop)

AbsSpec == AbsInit /\ [][AbsNext]_absVars /\ WF_absVars(AbsNext)

===============================================================================
