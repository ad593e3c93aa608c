-------------------------- MODULE HybridOrchestrator --------------------------
(***************************************************************************)
(* One request of HybridOrchestrator.run (planner/hybrid_orchestrator.py): *)
(* a goal is decomposed into a graph of subtasks; up to MaxTrials times    *)
(* the ready subtasks run in parallel batches, the trial is recorded in    *)
(* the session memory, a critic judges the trial's results, and the graph  *)
(* is reset for the next trial; a final step may replace the content by an *)
(* explanation of the failure.                                             *)
(*                                                                         *)
(* Data is abstracted to what the control looks at.  A subtask's result is *)
(* "answer" (more than ten characters), "short" (a non-empty answer of at  *)
(* most ten) or "terminated" (the executor stopped it); a text for the     *)
(* user is the kind of text and the subtasks whose answers it contains.    *)
(* The position of a subtask in graph.nodes is a member of Node; its id,   *)
(* which the decomposer's LLM chooses and may repeat, is a member of Id.   *)
(* The global timeout is read only at the start of a trial, so the clock   *)
(* is the choice made there.                                               *)
(***************************************************************************)
EXTENDS Naturals, Sequences, FiniteSets

CONSTANTS
    Node,           \* positions in DecompositionGraph.nodes
    Id,             \* subtask ids, the ones no subtask bears included
    Plans,          \* the graphs the decomposer may return
    MaxTrials,      \* HybridConfig.max_trials
    UseLlmCritic    \* HybridConfig.use_llm_critic

\* A graph: which positions exist, their ids and their depends_on lists.
Plan == [nodes : SUBSET Node, idOf : [Node -> Id], dependsOn : [Node -> SUBSET Id]]

ASSUME TrialsAssumption == MaxTrials \in Nat
\* A graph without subtasks is replaced by a single node (decomposer.py:150).
ASSUME PlansAssumption  == Plans \subseteq Plan /\ \A p \in Plans : p.nodes # {}
ASSUME CriticAssumption == UseLlmCritic \in BOOLEAN
ASSUME IdAssumption     == Id # {}

VARIABLES
    pc,        \* where run is
    plan,      \* the graph; its statuses are kept apart
    status,    \* SubtaskNode.status, "absent" for a position not in the graph
    stage,     \* how far each subtask of the current batch has come
    outcome,   \* batch_results
    results,   \* subtask_results of the current trial
    trials,    \* SessionMemory._trials
    read,      \* SessionMemory._last_read_trial + 1
    told,      \* the trials whose summary a subtask's contexts have contained
    verdict,   \* the last CriticVerdict
    best       \* best_content

vars == <<pc, plan, status, stage, outcome, results, trials, read, told,
          verdict, best>>

-----------------------------------------------------------------------------
Results  == {"answer", "short", "terminated"}
NoResult == "none"
Verdicts == {"pass", "partial", "reject"}
NoVerdict == [verdict |-> "none", failed |-> {}]
Empty    == [kind |-> "empty", of |-> {}]

Status == {"absent", "pending", "running", "done", "failed"}
Ended  == {"returned", "raised"}

\* DecompositionGraph.ready_nodes, for the statuses st.  (AnyReadyNodes, like the
\* other definitions marked as mutants, is a plausible bug that the properties
\* are tried against: here any(...) in the place of all(...).)
DoneIds(p, st)    == {p.idOf[n] : n \in {m \in p.nodes : st[m] = "done"}}
AnyReadyNodes(p, st) ==
    {n \in p.nodes : /\ st[n] = "pending"
                     /\ \/ p.dependsOn[n] = {}
                        \/ p.dependsOn[n] \cap DoneIds(p, st) # {}}
ReadyNodes(p, st) == {n \in p.nodes : /\ st[n] = "pending"
                                      /\ p.dependsOn[n] \subseteq DoneIds(p, st)}
\* DecompositionGraph.all_done ("skipped" is never assigned).
AllDone(p, st) == \A n \in p.nodes : st[n] = "done"

Reported(res) == {n \in Node : res[n] # NoResult}
Answered(res) == {n \in Node : res[n] \in {"answer", "short"}}

\* _merge_results: the answers of the trial, or else the first notice.
Merge(res) ==
    IF Answered(res) # {} THEN [kind |-> "answer", of |-> Answered(res)]
    ELSE IF Reported(res) # {} THEN [kind |-> "notice", of |-> {}] ELSE Empty

\* CriticAgent.evaluate: what the critic may say of a trial's results.  The
\* rules decide first; otherwise the LLM may say anything of any ids, and its
\* timeout or error is a partial verdict on every subtask of the trial.  Only a
\* partial verdict has its failed_subtasks read.
Say(v)           == [verdict |-> v, failed |-> {}]
LlmVerdicts      == {Say("pass"), Say("reject")}
                       \cup [verdict : {"partial"}, failed : SUBSET Id]
Accepted(res)    == /\ Reported(res) # {}
                    /\ \A n \in Reported(res) : res[n] = "answer"
                    /\ Cardinality(Reported(res)) <= 2
Verdict(res) ==
    IF Answered(res) = {} THEN {Say("reject")}
    ELSE IF Accepted(res) \/ ~UseLlmCritic THEN {Say("pass")}
    ELSE LlmVerdicts

-----------------------------------------------------------------------------
NoPlan == [nodes |-> {}, idOf |-> [n \in Node |-> CHOOSE i \in Id : TRUE],
           dependsOn |-> [n \in Node |-> {}]]

\* A new SessionMemory: nothing recorded, nothing read.
NewSession == trials = <<>> /\ read = 0

Init ==
    /\ pc = "decompose"
    /\ plan = NoPlan
    /\ status = [n \in Node |-> "absent"]
    /\ stage = [n \in Node |-> "off"]
    /\ outcome = [n \in Node |-> NoResult]
    /\ results = [n \in Node |-> NoResult]
    /\ NewSession
    /\ told = [n \in Node |-> {}]
    /\ verdict = NoVerdict
    /\ best = Empty

\* TaskDecomposer.decompose: a single node, or any graph the LLM wrote.
Decompose ==
    /\ pc = "decompose"
    /\ \E p \in Plans :
         /\ plan' = p
         /\ status' = [n \in Node |-> IF n \in p.nodes THEN "pending" ELSE "absent"]
    /\ pc' = "trial"
    /\ UNCHANGED <<stage, outcome, results, trials, read, told, verdict, best>>

\* Mark a batch as running and start its subtasks.
Launch(batch, st) ==
    /\ status' = [n \in Node |-> IF n \in batch THEN "running" ELSE st[n]]
    /\ stage' = [n \in Node |-> IF n \in batch THEN "search" ELSE "off"]
    /\ outcome' = [n \in Node |-> NoResult]
    /\ pc' = "batch"

\* Record the trial and merge its content; the critic is next.
CloseTrial(res) ==
    /\ trials' = Append(trials, res)
    /\ best' = Merge(res)
    /\ pc' = "critic"

\* Mutant: one trial too many.
StartExtraTrial ==
    /\ pc = "trial" /\ Len(trials) <= MaxTrials
    /\ ReadyNodes(plan, status) # {}
    /\ results' = [n \in Node |-> NoResult]
    /\ Launch(ReadyNodes(plan, status), status)
    /\ UNCHANGED <<plan, trials, read, told, verdict, best>>

\* The head of the loop: the first batch of a trial.
StartTrial ==
    /\ pc = "trial" /\ Len(trials) < MaxTrials
    /\ ReadyNodes(plan, status) # {}
    /\ results' = [n \in Node |-> NoResult]
    /\ Launch(ReadyNodes(plan, status), status)
    /\ UNCHANGED <<plan, trials, read, told, verdict, best>>

\* Every subtask is done: the trial has no results at all.
EmptyTrial ==
    /\ pc = "trial" /\ Len(trials) < MaxTrials
    /\ ReadyNodes(plan, status) = {} /\ AllDone(plan, status)
    /\ results' = [n \in Node |-> NoResult]
    /\ CloseTrial(results')
    /\ UNCHANGED <<plan, status, stage, outcome, read, told, verdict>>

\* The breaks: no subtask is ready and the graph is not done ("deadlock").
Deadlock ==
    /\ pc = "trial" /\ Len(trials) < MaxTrials
    /\ ReadyNodes(plan, status) = {} /\ ~AllDone(plan, status)
    /\ pc' = "final"
    /\ UNCHANGED <<plan, status, stage, outcome, results, trials, read, told,
                   verdict, best>>

\* The global timeout has passed.
OutOfTime ==
    /\ pc = "trial" /\ Len(trials) < MaxTrials
    /\ pc' = "final"
    /\ UNCHANGED <<plan, status, stage, outcome, results, trials, read, told,
                   verdict, best>>

TrialsUsedUp ==
    /\ pc = "trial" /\ Len(trials) >= MaxTrials
    /\ pc' = "final"
    /\ UNCHANGED <<plan, status, stage, outcome, results, trials, read, told,
                   verdict, best>>

-----------------------------------------------------------------------------
\* get_delta: the trials recorded since the last read, and the moved cursor.
\* Mutant: the cursor stays.
Delta         == read + 1 .. Len(trials)
StuckCursor   == read
Cursor        == Len(trials)

\* _execute_subtask: after the search of the long-term memory has answered (or
\* failed), the context is built with get_delta, whose cursor all subtasks share.
BuildContext(n) ==
    /\ pc = "batch" /\ stage[n] = "search"
    /\ told' = [told EXCEPT ![n] = @ \cup Delta]
    /\ read' = Cursor
    /\ stage' = [stage EXCEPT ![n] = "react"]
    /\ UNCHANGED <<pc, plan, status, outcome, results, trials, verdict, best>>

\* The executor of the subtask returns.
FinishSubtask(n) ==
    /\ pc = "batch" /\ stage[n] = "react"
    /\ \E r \in Results : outcome' = [outcome EXCEPT ![n] = r]
    /\ stage' = [stage EXCEPT ![n] = "finished"]
    /\ UNCHANGED <<pc, plan, status, results, trials, read, told, verdict, best>>

\* An LLM error leaves the executor: the task group cancels the other subtasks
\* and the exception leaves run.
RaiseSubtask(n) ==
    /\ pc = "batch" /\ stage[n] = "react"
    /\ pc' = "raised"
    /\ stage' = [m \in Node |-> "off"]
    /\ UNCHANGED <<plan, status, outcome, results, trials, read, told, verdict, best>>

Running == {n \in Node : status[n] = "running"}

\* The statuses and results after a batch.  Mutants: a stopped subtask is left
\* to be retried at once; any content, be it a notice, makes a subtask done.
SettledStatus(n, onStop) ==
    IF n \notin Running THEN status[n]
    ELSE IF outcome[n] = "terminated" THEN onStop ELSE "done"
RetriedAtOnce    == [n \in Node |-> SettledStatus(n, "pending")]
SettledByContent == [n \in Node |-> SettledStatus(n, "done")]
Settled          == [n \in Node |-> SettledStatus(n, "failed")]
Collected == [n \in Node |-> IF n \in Running THEN outcome[n] ELSE results[n]]

\* The whole batch is back: settle it, then run the next one or close the trial.
CollectBatch ==
    /\ pc = "batch"
    /\ \A n \in Running : stage[n] = "finished"
    /\ results' = Collected
    /\ \/ /\ ReadyNodes(plan, Settled) # {}
          /\ Launch(ReadyNodes(plan, Settled), Settled)
          /\ UNCHANGED <<trials, best>>
       \/ /\ ReadyNodes(plan, Settled) = {}
          /\ status' = Settled
          /\ stage' = [n \in Node |-> "off"]
          /\ outcome' = [n \in Node |-> NoResult]
          /\ CloseTrial(Collected)
    /\ UNCHANGED <<plan, read, told, verdict>>

-----------------------------------------------------------------------------
\* _targeted_replan, and the reset after a reject.
Named(n, v) == n \in plan.nodes /\ plan.idOf[n] \in v.failed
Reset(st, v) ==
    [n \in Node |->
       IF \/ v.verdict = "partial" /\ Named(n, v)
          \/ v.verdict = "reject" /\ n \in plan.nodes /\ st[n] # "done"
         THEN "pending" ELSE st[n]]

\* The critic's answer and the decision taken on it, with no await between.
Judge ==
    /\ pc = "critic"
    /\ \E v \in Verdict(results) :
         /\ verdict' = v
         /\ status' = Reset(status, v)
         /\ pc' = IF v.verdict = "pass" THEN "lesson" ELSE "trial"
    /\ UNCHANGED <<plan, stage, outcome, results, trials, read, told, best>>

\* A partial verdict with null for its failed_subtasks: _targeted_replan raises on it
\* before any reset, and the exception leaves run.
ReplanRaises ==
    /\ pc = "critic"
    /\ \E v \in Verdict(results) : v.verdict = "partial"
    /\ pc' = "raised"
    /\ UNCHANGED <<plan, status, stage, outcome, results, trials, read, told,
                   verdict, best>>

\* persist_lesson; a failure of the store is swallowed.
PersistLesson ==
    /\ pc = "lesson"
    /\ pc' = "final"
    /\ UNCHANGED <<plan, status, stage, outcome, results, trials, read, told,
                   verdict, best>>

NeedsSynthesis == best = Empty \/ Len(trials) >= MaxTrials

\* The strategist explains the failure; it may answer with nothing, or fail and
\* leave the content that is there, or else an apology.
Synthesize ==
    /\ pc = "final" /\ NeedsSynthesis
    /\ \/ best' \in {[kind |-> "explanation", of |-> {}], Empty}
       \/ best' = IF best = Empty THEN [kind |-> "apology", of |-> {}] ELSE best
    /\ pc' = "returned"
    /\ UNCHANGED <<plan, status, stage, outcome, results, trials, read, told, verdict>>

Return ==
    /\ pc = "final" /\ ~NeedsSynthesis
    /\ pc' = "returned"
    /\ UNCHANGED <<plan, status, stage, outcome, results, trials, read, told,
                   verdict, best>>

Subtask(n) == BuildContext(n) \/ FinishSubtask(n) \/ RaiseSubtask(n)

Step == \/ Decompose \/ StartTrial \/ EmptyTrial \/ Deadlock \/ OutOfTime
        \/ TrialsUsedUp \/ CollectBatch \/ Judge \/ ReplanRaises \/ PersistLesson
        \/ Synthesize \/ Return

Next == Step \/ \E n \in Node : Subtask(n)

\* The event loop runs every coroutine that can run; LLM and tool calls return,
\* fail or time out.
Fairness == WF_vars(Step) /\ \A n \in Node : WF_vars(Subtask(n))

Spec == Init /\ [][Next]_vars /\ Fairness

-----------------------------------------------------------------------------
(***************************************************************************)
(* Properties.                                                             *)
(***************************************************************************)

\* The type of every variable (the state of run and of SessionMemory).
TypeOK ==
    /\ pc \in {"decompose", "trial", "batch", "critic", "lesson", "final"} \cup Ended
    /\ plan \in Plan
    /\ status \in [Node -> Status]
    /\ stage \in [Node -> {"off", "search", "react", "finished"}]
    /\ outcome \in [Node -> Results \cup {NoResult}]
    /\ results \in [Node -> Results \cup {NoResult}]
    /\ trials \in Seq([Node -> Results \cup {NoResult}])
    /\ read \in Nat
    /\ told \in [Node -> SUBSET Nat]
    /\ verdict \in [verdict : Verdicts \cup {"none"}, failed : SUBSET Id]
    /\ best \in [kind : {"answer", "notice", "explanation", "apology", "empty"},
                of : SUBSET Node]

\* "depends_on lists ids of subtasks that must finish before this one can start":
\* while a subtask runs, in whichever trial, each of its dependencies is done.
DependenciesDone ==
    \A n \in Node : status[n] = "running" =>
        plan.dependsOn[n] \subseteq DoneIds(plan, status)

\* A trial never runs the same subtask twice, so that its inner loop ends: what
\* runs has no result in this trial yet, whatever was reset between trials.
OncePerTrial ==
    \A n \in Node : status[n] = "running" => results[n] = NoResult

\* The last result recorded for a subtask, over the trials so far.
LastResult(n) ==
    LET ran == {t \in 1 .. Len(trials) : trials[t][n] # NoResult}
    IN  IF ran = {} THEN NoResult
        ELSE trials[CHOOSE t \in ran : \A u \in ran : u <= t][n]

\* Between batches, the status of a subtask agrees with the newest of the results
\* the session memory holds for it: a subtask is done only on an answer, failed
\* only on a termination, whatever verdicts reset other subtasks meanwhile.
StatusMatchesRecord ==
    pc \notin {"batch", "raised"} => \A n \in Node :
        /\ status[n] = "done" => LastResult(n) \in {"answer", "short"}
        /\ status[n] = "failed" => LastResult(n) = "terminated"

\* "Provides get_delta() for injecting only what changed since the last read": the
\* summary of a trial enters one context and no more, though the subtasks of a batch
\* read the cursor in any order, and no summary is passed over.
DeltaExact ==
    /\ \A m, n \in Node : m # n => told[m] \cap told[n] = {}
    /\ UNION {told[n] : n \in Node} = 1 .. read

\* Every request ends: with a response, or with the exception of a subtask or
\* of a malformed verdict.
RunEnds == <>(pc \in Ended)

\* A run is a run of DependencyRounds: the rounds are the trials, a node has
\* started in the round when it runs or has a result in it.
Rounds == INSTANCE DependencyRounds WITH
    MaxRounds <- MaxTrials,
    ran       <- {n \in Node : status[n] = "running" \/ results[n] # NoResult},
    spent     <- Len(trials),
    over      <- pc \in Ended

ImplementsRounds == Rounds!AbsSpec

\* "pass: all criteria met -> return to user" (hybrid_schemas.py:99).
PassIsReturned ==
    pc = "returned" /\ verdict.verdict = "pass" => best.kind = "answer"

=============================================================================
