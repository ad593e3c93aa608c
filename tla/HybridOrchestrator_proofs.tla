---------------------- MODULE HybridOrchestrator_proofs ----------------------
(***************************************************************************)
(* HybridOrchestrator, for every set of graphs, every number of trials and *)
(* with or without the LLM critic: types, the order of dependencies, the   *)
(* once-per-trial rule, statuses against the record of a trial, summaries  *)
(* that are told once, and the rounds of DependencyRounds.                 *)
(***************************************************************************)
EXTENDS HybridOrchestrator, TLAPS

\* Nothing runs outside a batch (an exception leaves the batch as it was).
QuietBetweenBatches ==
    pc \notin {"batch", "raised"} => \A n \in Node : status[n] # "running"

\* In a batch, a subtask that has a result of this trial is settled, so that it
\* is not ready again before the next trial.
ReportedIsSettled ==
    pc = "batch" => \A n \in Node : results[n] # NoResult => status[n] \in {"done", "failed"}

\* Only subtasks of the graph run.
RunningInPlan ==
    \A n \in Node : status[n] = "running" => n \in plan.nodes

Inv == /\ TypeOK
       /\ QuietBetweenBatches
       /\ ReportedIsSettled
       /\ RunningInPlan
       /\ DependenciesDone
       /\ OncePerTrial

-----------------------------------------------------------------------------
\* Before the plan nothing runs and nothing is recorded.
LEMMA InitInv == Init => Inv
  <1> SUFFICES ASSUME Init PROVE Inv
    OBVIOUS
  <1> USE DEF Init, NewSession, NoPlan, Plan, NoResult
  <1>1. (CHOOSE i \in Id : TRUE) \in Id
    BY IdAssumption
  <1>2. NoPlan \in Plan
    BY <1>1
  <1>3. TypeOK
    BY <1>2 DEF TypeOK, Ended, Status, Results, NoVerdict, Empty, Verdicts
  <1>4. QuietBetweenBatches /\ ReportedIsSettled /\ RunningInPlan
    BY DEF QuietBetweenBatches, ReportedIsSettled, RunningInPlan
  <1>5. DependenciesDone /\ OncePerTrial
    BY DEF DependenciesDone, OncePerTrial
  <1> QED BY <1>3, <1>4, <1>5 DEF Inv

\* Merging a trial's results gives a content of the right type.
LEMMA MergeType ==
    ASSUME NEW res \in [Node -> Results \cup {NoResult}]
    PROVE  Merge(res) \in [kind : {"answer", "notice", "explanation", "apology", "empty"},
                           of : SUBSET Node]
  <1>1. Answered(res) \subseteq Node
    BY DEF Answered
  <1> QED BY <1>1 DEF Merge, Empty

\* The critic's verdicts are verdicts.
LEMMA VerdictType ==
    ASSUME NEW res \in [Node -> Results \cup {NoResult}], NEW v \in Verdict(res)
    PROVE  v \in [verdict : Verdicts, failed : SUBSET Id]
  BY DEF Verdict, LlmVerdicts, Say, Verdicts

\* Settling a batch leaves nothing running, and changes only what ran.
LEMMA SettledType ==
    ASSUME TypeOK
    PROVE  /\ Settled \in [Node -> Status]
           /\ \A n \in Node : Settled[n] # "running"
           /\ \A n \in Node : status[n] # "running" => Settled[n] = status[n]
           /\ \A n \in Node : status[n] = "running" => Settled[n] \in {"done", "failed"}
  BY DEF TypeOK, Settled, SettledStatus, Running, Status

\* Launching the ready nodes of statuses in which nothing runs.
LEMMA LaunchOK ==
    ASSUME NEW st \in [Node -> Status], plan \in Plan,
           \A n \in Node : st[n] # "running",
           Launch(ReadyNodes(plan, st), st)
    PROVE  /\ status' \in [Node -> Status]
           /\ stage' \in [Node -> {"off", "search", "react", "finished"}]
           /\ outcome' \in [Node -> Results \cup {NoResult}]
           /\ \A n \in Node : status'[n] = "running" <=> n \in ReadyNodes(plan, st)
           /\ \A n \in Node : status'[n] # "running" => status'[n] = st[n]
           /\ DoneIds(plan, st) \subseteq DoneIds(plan, status')
  <1>1. ReadyNodes(plan, st) \subseteq Node
    BY DEF ReadyNodes, Plan
  <1>2. status' = [n \in Node |-> IF n \in ReadyNodes(plan, st) THEN "running" ELSE st[n]]
    BY DEF Launch
  <1>3. \A n \in Node : st[n] = "done" => status'[n] = "done"
    BY <1>2 DEF ReadyNodes
  <1>4. DoneIds(plan, st) \subseteq DoneIds(plan, status')
    BY <1>3 DEF DoneIds, Plan
  <1>5. /\ stage' \in [Node -> {"off", "search", "react", "finished"}]
        /\ outcome' \in [Node -> Results \cup {NoResult}]
    BY DEF Launch
  <1> QED BY <1>2, <1>4, <1>5 DEF Status

-----------------------------------------------------------------------------
\* A trial begins with no results.
LEMMA StartTrialInv == Inv /\ StartTrial => Inv'
  <1> SUFFICES ASSUME Inv, StartTrial PROVE Inv'
    OBVIOUS
  <1>1. TypeOK /\ QuietBetweenBatches
    BY DEF Inv
  <1>2. \A n \in Node : status[n] # "running"
    BY <1>1 DEF QuietBetweenBatches, StartTrial
  <1>3. Launch(ReadyNodes(plan, status), status) /\ plan' = plan
    BY DEF StartTrial
  <1>4. /\ status' \in [Node -> Status]
        /\ stage' \in [Node -> {"off", "search", "react", "finished"}]
        /\ outcome' \in [Node -> Results \cup {NoResult}]
        /\ \A n \in Node : status'[n] = "running" <=> n \in ReadyNodes(plan, status)
        /\ DoneIds(plan, status) \subseteq DoneIds(plan, status')
    BY <1>1, <1>2, <1>3, LaunchOK DEF TypeOK
  <1>5. results' = [n \in Node |-> NoResult] /\ pc' = "batch"
    BY DEF StartTrial, Launch
  <1>6. TypeOK'
    BY <1>1, <1>4, <1>5 DEF TypeOK, StartTrial
  <1>7. QuietBetweenBatches' /\ ReportedIsSettled' /\ OncePerTrial'
    BY <1>5 DEF QuietBetweenBatches, ReportedIsSettled, OncePerTrial
  <1>8. RunningInPlan' /\ DependenciesDone'
    BY <1>3, <1>4 DEF RunningInPlan, DependenciesDone, ReadyNodes
  <1> QED BY <1>6, <1>7, <1>8 DEF Inv

\* A trial of an empty graph.
LEMMA EmptyTrialInv == Inv /\ EmptyTrial => Inv'
  <1> SUFFICES ASSUME Inv, EmptyTrial PROVE Inv'
    OBVIOUS
  <1>1. /\ results' \in [Node -> Results \cup {NoResult}]
        /\ trials' = Append(trials, results')
        /\ best' = Merge(results') /\ pc' = "critic"
    BY DEF EmptyTrial, CloseTrial
  <1>2. TypeOK'
    BY <1>1, MergeType DEF Inv, TypeOK, EmptyTrial
  <1>3. \A n \in Node : status'[n] # "running"
    BY DEF Inv, QuietBetweenBatches, EmptyTrial
  <1> QED BY <1>1, <1>2, <1>3
      DEF Inv, QuietBetweenBatches, ReportedIsSettled, RunningInPlan,
          DependenciesDone, OncePerTrial

\* A batch launches pending nodes whose dependencies are done; none of them has a result.
LEMMA CollectBatchInv == Inv /\ CollectBatch => Inv'
  <1> SUFFICES ASSUME Inv, CollectBatch PROVE Inv'
    OBVIOUS
  <1>1. TypeOK /\ pc = "batch" /\ plan' = plan /\ results' = Collected
    BY DEF Inv, CollectBatch
  <1>2. Collected \in [Node -> Results \cup {NoResult}]
    BY <1>1 DEF TypeOK, Collected
  <1>3. /\ Settled \in [Node -> Status]
        /\ \A n \in Node : Settled[n] # "running"
        /\ \A n \in Node : status[n] # "running" => Settled[n] = status[n]
        /\ \A n \in Node : status[n] = "running" => Settled[n] \in {"done", "failed"}
    BY <1>1, SettledType
  <1>4. \A n \in Node : Collected[n] # NoResult => Settled[n] \in {"done", "failed"}
    BY <1>1, <1>3 DEF Inv, ReportedIsSettled, Collected, Running
  <1>5. CASE /\ Launch(ReadyNodes(plan, Settled), Settled)
             /\ UNCHANGED <<trials, best>>
    <2>1. /\ status' \in [Node -> Status]
          /\ stage' \in [Node -> {"off", "search", "react", "finished"}]
          /\ outcome' \in [Node -> Results \cup {NoResult}]
          /\ \A n \in Node : status'[n] = "running" <=> n \in ReadyNodes(plan, Settled)
          /\ \A n \in Node : status'[n] # "running" => status'[n] = Settled[n]
          /\ DoneIds(plan, Settled) \subseteq DoneIds(plan, status')
      BY <1>1, <1>3, <1>5, LaunchOK DEF TypeOK
    <2>2. pc' = "batch"
      BY <1>5 DEF Launch
    <2>3. TypeOK'
      BY <1>1, <1>2, <1>5, <2>1, <2>2 DEF TypeOK, CollectBatch
    <2>4. QuietBetweenBatches'
      BY <2>2 DEF QuietBetweenBatches
    <2>5. \A n \in Node : n \in ReadyNodes(plan, Settled) => Collected[n] = NoResult
      BY <1>4 DEF ReadyNodes
    <2>6. ReportedIsSettled' /\ OncePerTrial'
      BY <1>1, <1>4, <2>1, <2>5 DEF ReportedIsSettled, OncePerTrial
    <2>7. RunningInPlan' /\ DependenciesDone'
      BY <1>1, <2>1 DEF RunningInPlan, DependenciesDone, ReadyNodes
    <2> QED BY <2>3, <2>4, <2>6, <2>7 DEF Inv
  <1>6. CASE /\ status' = Settled
             /\ stage' = [n \in Node |-> "off"]
             /\ outcome' = [n \in Node |-> NoResult]
             /\ CloseTrial(Collected)
    <2>1. /\ trials' = Append(trials, Collected)
          /\ best' = Merge(Collected) /\ pc' = "critic"
      BY <1>6 DEF CloseTrial
    <2>2. TypeOK'
      BY <1>1, <1>2, <1>3, <1>6, <2>1, MergeType DEF TypeOK, CollectBatch
    <2> QED BY <1>3, <1>6, <2>1, <2>2
        DEF Inv, QuietBetweenBatches, ReportedIsSettled, RunningInPlan,
            DependenciesDone, OncePerTrial
  <1> QED BY <1>5, <1>6 DEF CollectBatch

\* A verdict reopens nodes when nothing runs.
LEMMA JudgeInv == Inv /\ Judge => Inv'
  <1> SUFFICES ASSUME Inv, Judge PROVE Inv'
    OBVIOUS
  <1>1. PICK v \in Verdict(results) :
             /\ verdict' = v
             /\ status' = Reset(status, v)
             /\ pc' = IF v.verdict = "pass" THEN "lesson" ELSE "trial"
    BY DEF Judge
  <1>2. v \in [verdict : Verdicts, failed : SUBSET Id]
    BY <1>1, VerdictType DEF Inv, TypeOK
  <1>3. \A n \in Node : status[n] # "running"
    BY DEF Inv, QuietBetweenBatches, Judge
  <1>4. status' \in [Node -> Status] /\ \A n \in Node : status'[n] # "running"
    BY <1>1, <1>3 DEF Inv, TypeOK, Reset, Status
  <1>5. TypeOK'
    BY <1>1, <1>2, <1>4 DEF Inv, TypeOK, Judge
  <1>6. pc' # "batch"
    BY <1>1
  <1> QED BY <1>4, <1>5, <1>6
      DEF Inv, QuietBetweenBatches, ReportedIsSettled, RunningInPlan,
          DependenciesDone, OncePerTrial

\* The steps of one subtask touch neither the statuses nor the results.
LEMMA SubtaskInv == ASSUME NEW n \in Node PROVE Inv /\ Subtask(n) => Inv'
  <1> SUFFICES ASSUME Inv, Subtask(n) PROVE Inv'
    OBVIOUS
  <1>1. /\ UNCHANGED <<plan, status, results, trials, verdict, best>>
        /\ pc = "batch" /\ pc' \in {"batch", "raised"}
    BY DEF Subtask, BuildContext, FinishSubtask, RaiseSubtask
  <1>2. TypeOK'
    <2>1. CASE BuildContext(n)
      <3>1. Len(trials) \in Nat
        BY DEF Inv, TypeOK
      <3>2. Delta \subseteq Nat /\ Cursor \in Nat
        BY <3>1 DEF Inv, TypeOK, Delta, Cursor
      <3>3. told' \in [Node -> SUBSET Nat]
        BY <2>1, <3>2 DEF BuildContext, Inv, TypeOK
      <3> QED BY <1>1, <2>1, <3>2, <3>3 DEF BuildContext, Inv, TypeOK
    <2>2. CASE FinishSubtask(n)
      BY <1>1, <2>2 DEF FinishSubtask, Inv, TypeOK
    <2>3. CASE RaiseSubtask(n)
      BY <1>1, <2>3 DEF RaiseSubtask, Inv, TypeOK, Ended
    <2> QED BY <2>1, <2>2, <2>3 DEF Subtask
  <1>3. (QuietBetweenBatches /\ ReportedIsSettled /\ RunningInPlan /\ OncePerTrial)'
    BY <1>1 DEF Inv, QuietBetweenBatches, ReportedIsSettled, RunningInPlan, OncePerTrial
  <1>4. DependenciesDone'
    BY <1>1 DEF Inv, DependenciesDone, DoneIds
  <1> QED BY <1>2, <1>3, <1>4 DEF Inv

\* The steps that only move the control, and the ones that write best.
LEMMA ControlInv ==
    Inv /\ (Deadlock \/ OutOfTime \/ TrialsUsedUp \/ PersistLesson \/ Return \/ Synthesize
            \/ ReplanRaises)
      => Inv'
  <1> SUFFICES ASSUME Inv, Deadlock \/ OutOfTime \/ TrialsUsedUp \/ PersistLesson
                             \/ Return \/ Synthesize \/ ReplanRaises
               PROVE  Inv'
    OBVIOUS
  <1>1. /\ UNCHANGED <<plan, status, stage, outcome, results, trials, read, told, verdict>>
        /\ pc \in {"trial", "critic", "lesson", "final"}
        /\ pc' \in {"final", "returned", "raised"}
        /\ best' \in {best, Empty, [kind |-> "explanation", of |-> {}],
                      [kind |-> "apology", of |-> {}]}
    BY DEF Deadlock, OutOfTime, TrialsUsedUp, PersistLesson, Return, Synthesize, ReplanRaises
  <1>2. TypeOK'
    BY <1>1 DEF Inv, TypeOK, Ended, Empty
  <1>3. \A n \in Node : status'[n] # "running"
    BY <1>1 DEF Inv, QuietBetweenBatches
  <1> QED BY <1>1, <1>2, <1>3
      DEF Inv, QuietBetweenBatches, ReportedIsSettled, RunningInPlan,
          DependenciesDone, OncePerTrial

\* The plan is one of the graphs, all of its nodes pending.
LEMMA DecomposeInv == Inv /\ Decompose => Inv'
  <1> SUFFICES ASSUME Inv, Decompose PROVE Inv'
    OBVIOUS
  <1>1. plan' \in Plan /\ pc' = "trial"
    BY PlansAssumption DEF Decompose
  <1>2. status' \in [Node -> Status] /\ \A n \in Node : status'[n] # "running"
    BY DEF Decompose, Status
  <1>3. TypeOK'
    BY <1>1, <1>2 DEF Inv, TypeOK, Decompose
  <1> QED BY <1>1, <1>2, <1>3
      DEF Inv, QuietBetweenBatches, ReportedIsSettled, RunningInPlan,
          DependenciesDone, OncePerTrial

\* Every step is one of the loop or of a subtask of the batch.
LEMMA NextInv == Inv /\ [Next]_vars => Inv'
  <1> SUFFICES ASSUME Inv, [Next]_vars PROVE Inv'
    OBVIOUS
  <1>1. CASE UNCHANGED vars
    BY <1>1 DEF vars, Inv, TypeOK, QuietBetweenBatches, ReportedIsSettled, RunningInPlan,
                DependenciesDone, OncePerTrial, DoneIds
  <1>2. CASE Step
    BY <1>2, DecomposeInv, StartTrialInv, EmptyTrialInv, CollectBatchInv, JudgeInv,
       ControlInv DEF Step
  <1>3. CASE \E n \in Node : Subtask(n)
    BY <1>3, SubtaskInv
  <1> QED BY <1>1, <1>2, <1>3 DEF Next

\* Type correctness of the model of run.
THEOREM TypeCorrect == Spec => []TypeOK
  <1>1. Spec => []Inv
    BY InitInv, NextInv, PTL DEF Spec
  <1>2. Inv => TypeOK
    BY DEF Inv
  <1> QED BY <1>1, <1>2, PTL

\* For every graph, cyclic or with ids nobody bears, and after any verdicts:
\* a subtask runs only while all it depends on is done (ready_nodes).
THEOREM DependenciesAreDone == Spec => []DependenciesDone
  <1>1. Spec => []Inv
    BY InitInv, NextInv, PTL DEF Spec
  <1>2. Inv => DependenciesDone
    BY DEF Inv
  <1> QED BY <1>1, <1>2, PTL

\* No trial runs a subtask twice (the inner while loop of run).
THEOREM RunsOncePerTrial == Spec => []OncePerTrial
  <1>1. Spec => []Inv
    BY InitInv, NextInv, PTL DEF Spec
  <1>2. Inv => OncePerTrial
    BY DEF Inv
  <1> QED BY <1>1, <1>2, PTL

-----------------------------------------------------------------------------
(* The session memory: every summary is read once.                         *)

\* The cursor has passed over exactly the trials that were told, each to one subtask.
CursorInv ==
    /\ read \in 0 .. Len(trials)
    /\ \A m, n \in Node : \A t \in told[m] : t \in 1 .. read /\ (t \in told[n] => m = n)
    /\ \A t \in 1 .. read : \E n \in Node : t \in told[n]

\* The cursor moves only to trials that were shown.
LEMMA CursorStep == Inv /\ CursorInv /\ [Next]_vars => CursorInv'
  <1> SUFFICES ASSUME TypeOK, CursorInv, [Next]_vars PROVE CursorInv'
    BY DEF Inv
  <1>1. CASE UNCHANGED <<read, told, trials>>
    BY <1>1 DEF CursorInv
  <1>2. ASSUME NEW res, trials' = Append(trials, res), UNCHANGED <<read, told>>
        PROVE  CursorInv'
    <2>1. Len(trials') = Len(trials) + 1 /\ Len(trials) \in Nat
      BY <1>2 DEF TypeOK
    <2> QED BY <1>2, <2>1 DEF CursorInv
  <1>3. ASSUME NEW n \in Node, BuildContext(n) PROVE CursorInv'
    <2>1. /\ told' = [told EXCEPT ![n] = @ \cup (read + 1 .. Len(trials))]
          /\ read' = Len(trials) /\ trials' = trials
      BY <1>3 DEF BuildContext, Delta, Cursor
    <2>2. /\ told'[n] = told[n] \cup (read + 1 .. Len(trials))
          /\ \A m \in Node : m # n => told'[m] = told[m]
      BY <2>1 DEF TypeOK
    <2>3. Len(trials) \in Nat /\ read \in 0 .. Len(trials) BY DEF TypeOK, CursorInv
    <2>4. \A t \in 1 .. Len(trials) : t \in 1 .. read \/ t \in read + 1 .. Len(trials) BY <2>3
    <2>5. \A t \in 1 .. read' : \E m \in Node : t \in told'[m]
      BY <2>1, <2>2, <2>4 DEF CursorInv
    <2>6. ASSUME NEW m \in Node, NEW t \in told'[m]
          PROVE  t \in 1 .. read' /\ \A k \in Node : t \in told'[k] => m = k
      <3>1. CASE t \in read + 1 .. Len(trials)
        <4>1. \A k \in Node : t \notin told[k] BY <2>3, <3>1 DEF CursorInv
        <4> QED BY <2>1, <2>2, <2>3, <2>6, <3>1, <4>1
      <3>2. CASE t \notin read + 1 .. Len(trials)
        <4>1. t \in told[m] BY <2>2, <2>6, <3>2
        <4>2. \A k \in Node : t \in told'[k] => t \in told[k] BY <2>2, <3>2
        <4>3. t \in 1 .. read BY <4>1 DEF CursorInv
        <4> QED BY <2>1, <2>3, <4>1, <4>2, <4>3 DEF CursorInv
      <3> QED BY <3>1, <3>2
    <2> QED BY <2>1, <2>3, <2>5, <2>6 DEF CursorInv
  <1>4. CASE UNCHANGED vars BY <1>1, <1>4 DEF vars
  <1>5. CASE CollectBatch BY <1>1, <1>2, <1>5 DEF CollectBatch, Launch, CloseTrial
  <1>6. CASE EmptyTrial BY <1>2, <1>6 DEF EmptyTrial, CloseTrial
  <1>7. CASE Step /\ ~CollectBatch /\ ~EmptyTrial
    BY <1>1, <1>7
    DEF Step, Decompose, StartTrial, Deadlock, OutOfTime, TrialsUsedUp, Judge, PersistLesson,
        ReplanRaises, Synthesize, Return
  <1>8. ASSUME NEW n \in Node, FinishSubtask(n) \/ RaiseSubtask(n) PROVE CursorInv'
    BY <1>1, <1>8 DEF FinishSubtask, RaiseSubtask
  <1> QED BY <1>3, <1>4, <1>5, <1>6, <1>7, <1>8 DEF Next, Subtask

\* Every trial's summary enters one context and no more, however many subtasks share the
\* cursor, and none is passed over (session_memory.py, get_delta).
THEOREM EverySummaryIsToldOnce == Spec => []DeltaExact
  <1>1. Init => CursorInv BY DEF Init, NewSession, CursorInv
  <1>2. Spec => [](Inv /\ CursorInv)
    BY InitInv, NextInv, <1>1, CursorStep, PTL DEF Spec
  <1>3. Inv /\ CursorInv => DeltaExact
    <2> SUFFICES ASSUME CursorInv PROVE DeltaExact OBVIOUS
    <2>1. UNION {told[n] : n \in Node} = 1 .. read BY DEF CursorInv
    <2> QED BY <2>1 DEF DeltaExact, CursorInv
  <1> QED BY <1>2, <1>3, PTL

-----------------------------------------------------------------------------
(* The record of the trials and the statuses.                              *)

\* r is the last result that the trials have of n.
Newest(n, r) ==
    \E t \in 1 .. Len(trials) :
        trials[t][n] = r /\ \A u \in t + 1 .. Len(trials) : trials[u][n] = NoResult

\* What a status says about a result.
Means(s, r) == \/ s = "done" /\ r \in {"answer", "short"}
               \/ s = "failed" /\ r = "terminated"

\* In a batch the results of the trial under way come first.
RecordInv ==
    /\ pc \notin {"batch", "raised"} => \A n \in Node :
          status[n] \in {"done", "failed"} => \E r \in Results : Means(status[n], r) /\ Newest(n, r)
    /\ pc = "batch" => \A n \in Node :
          /\ status[n] \in {"done", "failed"} =>
                \/ Means(status[n], results[n])
                \/ results[n] = NoResult
                   /\ \E r \in Results : Means(status[n], r) /\ Newest(n, r)
          /\ stage[n] = "finished" => outcome[n] \in Results

\* Recording a trial: its results become the newest ones.
LEMMA NewestAfterTrial ==
  ASSUME TypeOK, NEW res \in [Node -> Results \cup {NoResult}], trials' = Append(trials, res),
         NEW n \in Node
  PROVE  /\ \A r : r = res[n] => Newest(n, r)'
         /\ \A r : res[n] = NoResult /\ Newest(n, r) => Newest(n, r)'
  <1>1. /\ Len(trials) \in Nat /\ Len(trials') = Len(trials) + 1
        /\ trials'[Len(trials) + 1] = res
        /\ \A t \in 1 .. Len(trials) : trials'[t] = trials[t]
    BY DEF TypeOK
  <1>2. ASSUME NEW r, r = res[n] PROVE Newest(n, r)'
    <2>1. Len(trials) + 1 \in 1 .. Len(trials') BY <1>1
    <2>2. \A u \in (Len(trials) + 1) + 1 .. Len(trials') : FALSE BY <1>1
    <2> QED BY <1>1, <1>2, <2>1, <2>2 DEF Newest
  <1>3. ASSUME NEW r, res[n] = NoResult, Newest(n, r) PROVE Newest(n, r)'
    <2>1. PICK t \in 1 .. Len(trials) :
            trials[t][n] = r /\ \A u \in t + 1 .. Len(trials) : trials[u][n] = NoResult
      BY <1>3 DEF Newest
    <2>2. t \in 1 .. Len(trials') /\ trials'[t][n] = r BY <1>1, <2>1
    <2>3. \A u \in t + 1 .. Len(trials') : trials'[u][n] = NoResult
      <3> TAKE u \in t + 1 .. Len(trials')
      <3>1. u \in t + 1 .. Len(trials) \/ u = Len(trials) + 1 BY <1>1
      <3> QED BY <1>1, <1>3, <2>1, <3>1
    <2> QED BY <2>2, <2>3 DEF Newest
  <1> QED BY <1>2, <1>3

\* The newest result is the one that LastResult chooses.
LEMMA NewestIsLast ==
  ASSUME TypeOK, NEW n \in Node, NEW r \in Results, Newest(n, r)
  PROVE  LastResult(n) = r
  <1> DEFINE ran == {t \in 1 .. Len(trials) : trials[t][n] # NoResult}
             Top(t) == \A u \in ran : u <= t
  <1>0. Len(trials) \in Nat BY DEF TypeOK
  <1>1. PICK t \in 1 .. Len(trials) :
          trials[t][n] = r /\ \A u \in t + 1 .. Len(trials) : trials[u][n] = NoResult
    BY DEF Newest
  <1>2. t \in ran /\ Top(t)
    <2>1. r # NoResult BY DEF Results, NoResult
    <2>2. ASSUME NEW u \in ran, ~(u <= t) PROVE FALSE
      <3>1. u \in t + 1 .. Len(trials) BY <1>0, <2>2
      <3> QED BY <1>1, <2>2, <3>1
    <2> QED BY <1>1, <2>1, <2>2
  <1>3. \A u \in ran : Top(u) => u = t BY <1>0, <1>2
  <1>4. (CHOOSE u \in ran : Top(u)) = t BY <1>2, <1>3
  <1>5. ran # {} BY <1>2
  <1> HIDE DEF ran
  <1>6. LastResult(n) = trials[CHOOSE u \in ran : Top(u)][n]
    BY <1>5 DEF LastResult, ran
  <1> QED BY <1>1, <1>4, <1>6

\* A status and its newest result change together; a verdict only turns statuses back.
LEMMA RecordStep == Inv /\ RecordInv /\ [Next]_vars => RecordInv'
  <1> SUFFICES ASSUME Inv, RecordInv, [Next]_vars PROVE RecordInv'
    OBVIOUS
  <1>0. TypeOK BY DEF Inv
  <1>1. CASE UNCHANGED <<pc, status, stage, outcome, results, trials>>
    BY <1>1 DEF RecordInv, Newest
  <1>2. ASSUME pc \in {"trial", "lesson", "final", "decompose", "critic"},
               pc' \in {"trial", "lesson", "final", "returned", "raised"}, trials' = trials,
               \A n \in Node : status'[n] \in {"done", "failed"} => status'[n] = status[n]
        PROVE  RecordInv'
    BY <1>2 DEF RecordInv, Newest
  <1>3. CASE Decompose \/ Deadlock \/ OutOfTime \/ TrialsUsedUp \/ PersistLesson \/ Synthesize \/ Return
            \/ ReplanRaises
    <2>1. /\ pc \in {"trial", "lesson", "final", "decompose", "critic"}
          /\ pc' \in {"trial", "final", "returned", "raised"} /\ trials' = trials
          /\ \A n \in Node : status'[n] \in {"done", "failed"} => status'[n] = status[n]
      BY <1>3 DEF Decompose, Deadlock, OutOfTime, TrialsUsedUp, PersistLesson, Synthesize, Return,
          ReplanRaises
    <2> QED BY <1>2, <2>1
  <1>4. CASE Judge
    <2>1. PICK v : status' = Reset(status, v) BY <1>4 DEF Judge
    <2>2. pc = "critic" /\ pc' \in {"lesson", "trial"} /\ trials' = trials BY <1>4 DEF Judge
    <2>3. \A n \in Node : status'[n] \in {"done", "failed"} => status'[n] = status[n]
      BY <2>1 DEF Reset
    <2> QED BY <1>2, <2>2, <2>3
  <1>5. CASE StartTrial
    <2>1. /\ pc = "trial" /\ pc' = "batch" /\ trials' = trials
          /\ results' = [n \in Node |-> NoResult]
          /\ \A n \in Node : status'[n] \in {"done", "failed"} => status'[n] = status[n]
          /\ \A n \in Node : stage'[n] # "finished"
      BY <1>5 DEF StartTrial, Launch
    <2> QED BY <2>1 DEF RecordInv, Newest
  <1>6. CASE EmptyTrial
    <2>1. /\ pc = "trial" /\ pc' = "critic" /\ status' = status
          /\ results' = [n \in Node |-> NoResult] /\ trials' = Append(trials, results')
      BY <1>6 DEF EmptyTrial, CloseTrial
    <2>2. results' \in [Node -> Results \cup {NoResult}] /\ \A n \in Node : results'[n] = NoResult
      BY <2>1
    <2>3. \A n \in Node : \A r : Newest(n, r) => Newest(n, r)'
      BY <1>0, <2>1, <2>2, NewestAfterTrial
    <2> QED BY <2>1, <2>3 DEF RecordInv
  <1>7. ASSUME NEW n \in Node, Subtask(n) PROVE RecordInv'
    <2>1. /\ UNCHANGED <<status, results, trials>> /\ pc = "batch"
          /\ \/ pc' = "raised"
             \/ /\ pc' = "batch"
                /\ \A m \in Node : stage'[m] = "finished" =>
                      outcome'[m] \in Results \/ (stage[m] = "finished" /\ outcome'[m] = outcome[m])
      BY <1>0, <1>7 DEF Subtask, BuildContext, FinishSubtask, RaiseSubtask, TypeOK
    <2>2. CASE pc' = "raised" BY <2>2 DEF RecordInv
    <2>3. CASE pc' = "batch" BY <2>1, <2>3 DEF RecordInv, Newest
    <2> QED BY <2>1, <2>2, <2>3
  <1>8. CASE CollectBatch
    <2>1. /\ pc = "batch" /\ results' = Collected
          /\ \A n \in Running : outcome[n] \in Results
      BY <1>8 DEF CollectBatch, RecordInv, Running
    <2>2. \A n \in Node : Settled[n] \in {"done", "failed"} =>
             \/ Means(Settled[n], Collected[n]) /\ Collected[n] \in Results
             \/ Collected[n] = NoResult /\ \E r \in Results : Means(Settled[n], r) /\ Newest(n, r)
      <3> TAKE n \in Node
      <3>1. CASE n \in Running
        BY <2>1, <3>1 DEF Settled, SettledStatus, Collected, Means, Results
      <3>2. CASE n \notin Running
        <4>1. Settled[n] = status[n] /\ Collected[n] = results[n]
          BY <3>2 DEF Settled, SettledStatus, Collected
        <4> QED BY <2>1, <4>1 DEF RecordInv, Means, Results
      <3> QED BY <3>1, <3>2
    <2>3. CASE Launch(ReadyNodes(plan, Settled), Settled) /\ UNCHANGED <<trials, best>>
      <3>1. /\ pc' = "batch" /\ trials' = trials
            /\ \A n \in Node : status'[n] \in {"done", "failed"} => status'[n] = Settled[n]
            /\ \A n \in Node : stage'[n] # "finished"
        BY <2>3 DEF Launch
      <3> QED BY <2>1, <2>2, <3>1 DEF RecordInv, Newest
    <2>4. CASE status' = Settled /\ CloseTrial(Collected)
      <3>1. pc' = "critic" /\ trials' = Append(trials, Collected) BY <2>4 DEF CloseTrial
      <3>2. Collected \in [Node -> Results \cup {NoResult}] BY <1>0 DEF TypeOK, Collected
      <3>3. ASSUME NEW n \in Node, Settled[n] \in {"done", "failed"}
            PROVE  \E r \in Results : Means(Settled[n], r) /\ Newest(n, r)'
        <4>1. CASE Means(Settled[n], Collected[n]) /\ Collected[n] \in Results
          <5>1. PICK r \in Results : r = Collected[n] BY <4>1
          <5>2. Newest(n, r)' BY <1>0, <3>1, <3>2, <5>1, NewestAfterTrial
          <5> QED BY <4>1, <5>1, <5>2
        <4>2. CASE Collected[n] = NoResult /\ \E r \in Results : Means(Settled[n], r) /\ Newest(n, r)
          <5>1. PICK r \in Results : Means(Settled[n], r) /\ Newest(n, r) BY <4>2
          <5>2. Newest(n, r)' BY <1>0, <3>1, <3>2, <4>2, <5>1, NewestAfterTrial
          <5> QED BY <5>1, <5>2
        <4> QED BY <2>2, <3>3, <4>1, <4>2
      <3> QED BY <2>4, <3>1, <3>3 DEF RecordInv
    <2> QED BY <1>8, <2>3, <2>4 DEF CollectBatch
  <1>9. CASE UNCHANGED vars BY <1>1, <1>9 DEF vars
  <1> QED BY <1>3, <1>4, <1>5, <1>6, <1>7, <1>8, <1>9 DEF Next, Step

\* Between batches a subtask is done only if the newest result that the session memory has of
\* it is an answer, and failed only if it is a termination (hybrid_orchestrator.py, run).
THEOREM StatusesMatchTheRecord == Spec => []StatusMatchesRecord
  <1>1. Init => RecordInv BY DEF Init, NewSession, RecordInv
  <1>2. Spec => [](Inv /\ RecordInv)
    BY InitInv, NextInv, <1>1, RecordStep, PTL DEF Spec
  <1>3. Inv /\ RecordInv => StatusMatchesRecord
    <2> SUFFICES ASSUME Inv, RecordInv, pc \notin {"batch", "raised"}, NEW n \in Node,
                        status[n] \in {"done", "failed"}
                 PROVE  Means(status[n], LastResult(n))
      BY DEF StatusMatchesRecord, Means
    <2>1. PICK r \in Results : Means(status[n], r) /\ Newest(n, r) BY DEF RecordInv
    <2>2. LastResult(n) = r BY <2>1, NewestIsLast DEF Inv
    <2> QED BY <2>1, <2>2
  <1> QED BY <1>2, <1>3, PTL

-----------------------------------------------------------------------------
(* Every run is a run of DependencyRounds, but for its fairness.           *)

\* A batch has something to run and belongs to a trial that is allowed; who is absent is not in
\* the graph.
RoundsInv ==
    /\ pc = "decompose" => /\ plan.nodes = {} /\ \A n \in Node : results[n] = NoResult
    /\ pc # "decompose" => /\ plan.nodes # {}
                           /\ \A n \in Node : status[n] = "absent" <=> n \notin plan.nodes
    /\ pc = "batch" => Running # {} /\ Len(trials) < MaxTrials

\* A batch is launched in a trial that is allowed, and who is absent stays so.
LEMMA RoundsInvStep == Inv /\ RoundsInv /\ [Next]_vars => RoundsInv'
  <1> SUFFICES ASSUME Inv, RoundsInv, [Next]_vars PROVE RoundsInv'
    OBVIOUS
  <1>0. TypeOK BY DEF Inv
  <1>1. CASE UNCHANGED vars BY <1>1 DEF vars, RoundsInv, Running
  <1>2. CASE Decompose BY <1>2, PlansAssumption DEF Decompose, RoundsInv, Plan
  <1>3. ASSUME NEW st \in [Node -> Status], ReadyNodes(plan, st) # {}, Launch(ReadyNodes(plan, st), st),
               \A n \in Node : st[n] = "absent" <=> status[n] = "absent",
               pc # "decompose", plan' = plan, trials' = trials, Len(trials) < MaxTrials
        PROVE  RoundsInv'
    <2>1. ReadyNodes(plan, st) \subseteq plan.nodes /\ plan.nodes \subseteq Node
      BY <1>0 DEF ReadyNodes, TypeOK, Plan
    <2>2. /\ pc' = "batch"
          /\ status' = [n \in Node |-> IF n \in ReadyNodes(plan, st) THEN "running" ELSE st[n]]
      BY <1>3 DEF Launch
    <2>3. Running' # {} BY <1>3, <2>1, <2>2 DEF Running
    <2> QED BY <1>3, <2>1, <2>2, <2>3 DEF RoundsInv
  <1>4. CASE StartTrial BY <1>0, <1>3, <1>4 DEF StartTrial, TypeOK
  <1>5. CASE CollectBatch
    <2>1. /\ Settled \in [Node -> Status]
          /\ \A n \in Node : Settled[n] = "absent" <=> status[n] = "absent"
      BY <1>0, SettledType
    <2>2. pc = "batch" /\ plan' = plan /\ Len(trials) < MaxTrials
      BY <1>5 DEF CollectBatch, RoundsInv
    <2>3. CASE /\ ReadyNodes(plan, Settled) # {} /\ Launch(ReadyNodes(plan, Settled), Settled)
               /\ UNCHANGED <<trials, best>>
      BY <1>3, <2>1, <2>2, <2>3
    <2>4. CASE status' = Settled /\ CloseTrial(Collected)
      BY <2>1, <2>2, <2>4 DEF CloseTrial, RoundsInv
    <2> QED BY <1>5, <2>3, <2>4 DEF CollectBatch
  <1>6. CASE Judge
    <2>1. PICK v : status' = Reset(status, v) BY <1>6 DEF Judge
    <2>2. pc = "critic" /\ pc' \in {"lesson", "trial"} /\ plan' = plan BY <1>6 DEF Judge
    <2>3. \A n \in Node : status'[n] = "absent" <=> status[n] = "absent"
      BY <2>1, <2>2 DEF Reset, RoundsInv, Named
    <2> QED BY <2>2, <2>3 DEF RoundsInv
  <1>7. CASE EmptyTrial \/ Deadlock \/ OutOfTime \/ TrialsUsedUp \/ PersistLesson \/ Synthesize \/ Return
            \/ ReplanRaises
    <2>1. /\ pc # "decompose" /\ pc' \notin {"decompose", "batch"} /\ UNCHANGED <<plan, status>>
      BY <1>7
      DEF EmptyTrial, CloseTrial, Deadlock, OutOfTime, TrialsUsedUp, PersistLesson, Synthesize, Return,
          ReplanRaises
    <2> QED BY <2>1 DEF RoundsInv
  <1>8. ASSUME NEW n \in Node, Subtask(n) PROVE RoundsInv'
    <2>1. pc = "batch" /\ pc' \in {"batch", "raised"} /\ UNCHANGED <<plan, status, trials>>
      BY <1>8 DEF Subtask, BuildContext, FinishSubtask, RaiseSubtask
    <2> QED BY <2>1 DEF RoundsInv, Running
  <1> QED BY <1>1, <1>2, <1>4, <1>5, <1>6, <1>7, <1>8 DEF Next, Step

\* Each step is a step of DependencyRounds, or changes nothing there.
LEMMA StepIsRound ==
  Inv /\ RecordInv /\ RoundsInv /\ [Next]_vars => [Rounds!AbsNext]_(Rounds!absVars)
  <1> SUFFICES ASSUME Inv, RecordInv, RoundsInv, [Next]_vars PROVE [Rounds!AbsNext]_(Rounds!absVars)
    OBVIOUS
  <1>0. TypeOK BY DEF Inv
  <1> DEFINE ran == {n \in Node : status[n] = "running" \/ results[n] # NoResult}
  <1>1. CASE UNCHANGED vars BY <1>1 DEF vars, Rounds!absVars
  <1>2. CASE Decompose
    <2>1. Rounds!Load
      <3>1. /\ pc = "decompose" /\ pc' = "trial" /\ plan' \in Plans /\ UNCHANGED <<results, trials>>
            /\ status' = [n \in Node |-> IF n \in plan'.nodes THEN "pending" ELSE "absent"]
        BY <1>2 DEF Decompose
      <3>2. ran = {} BY <3>1 DEF Inv, QuietBetweenBatches, RoundsInv
      <3>3. ran' = {} BY <3>1 DEF RoundsInv
      <3> QED BY <3>1, <3>2, <3>3 DEF RoundsInv, Rounds!Load, Ended
    <2> QED BY <1>2, <2>1 DEF Decompose, Rounds!AbsNext, Ended
  <1>3. CASE StartTrial
    <2> DEFINE S == ReadyNodes(plan, status)
    <2>1. S \subseteq Node /\ S # {} BY <1>0, <1>3 DEF StartTrial, ReadyNodes, TypeOK, Plan
    <2>2. /\ plan' = plan /\ trials' = trials /\ pc = "trial" /\ pc' = "batch"
          /\ Len(trials) < MaxTrials
          /\ status' = [n \in Node |-> IF n \in S THEN "running" ELSE status[n]]
          /\ results' = [n \in Node |-> NoResult]
      BY <1>3 DEF StartTrial, Launch
    <2>3. \A n \in Node : status[n] # "running" BY <2>2 DEF Inv, QuietBetweenBatches
    <2>4. Rounds!MayStart(S, status)
      BY DEF Rounds!MayStart, Rounds!Satisfied, ReadyNodes, DoneIds
    <2>5. Rounds!Open
      <3>1. Rounds!Running = {} BY <2>3 DEF Rounds!Running
      <3>2. ran' = S BY <2>1, <2>2, <2>3
      <3>3. S \in SUBSET Node BY <2>1
      <3> HIDE DEF S
      <3> QED BY <3>3, <2>1, <2>2, <2>4, <3>1, <3>2 DEF Rounds!Open, Rounds!Started, Ended
    <2> QED BY <2>2, <2>5 DEF Rounds!AbsNext, Ended
  <1>4. CASE EmptyTrial
    <2>1. /\ UNCHANGED <<plan, status>> /\ pc = "trial" /\ pc' = "critic"
          /\ Len(trials) < MaxTrials /\ trials' = Append(trials, results')
          /\ results' = [n \in Node |-> NoResult] /\ AllDone(plan, status)
      BY <1>4 DEF EmptyTrial, CloseTrial
    <2>2. \A n \in Node : status[n] # "running" BY <2>1 DEF Inv, QuietBetweenBatches
    <2>3. Len(trials') = Len(trials) + 1 BY <1>0, <2>1 DEF TypeOK
    <2>4. ran' = {} BY <2>1, <2>2
    <2>5. Rounds!Running = {} BY <2>2 DEF Rounds!Running
    <2>6. Rounds!Idle
      BY <2>1, <2>3, <2>4, <2>5 DEF Rounds!Idle, AllDone, RoundsInv, Ended
    <2> QED BY <2>1, <2>6 DEF Rounds!AbsNext, Ended
  <1>5. CASE Deadlock \/ OutOfTime \/ TrialsUsedUp \/ PersistLesson
    BY <1>5 DEF Deadlock, OutOfTime, TrialsUsedUp, PersistLesson, Rounds!absVars, Ended
  <1>6. CASE Synthesize \/ Return \/ ReplanRaises
    <2>1. /\ UNCHANGED <<plan, status, results, trials>>
          /\ pc \in {"final", "critic"} /\ pc' \in {"returned", "raised"}
      BY <1>6 DEF Synthesize, Return, ReplanRaises
    <2>2. Rounds!Stop BY <2>1 DEF Rounds!Stop, Ended
    <2> QED BY <2>1, <2>2 DEF Rounds!AbsNext, Ended
  <1>7. ASSUME NEW n \in Node, Subtask(n) PROVE [Rounds!AbsNext]_(Rounds!absVars)
    <2>1. UNCHANGED <<plan, status, results, trials>> /\ pc = "batch" /\ pc' \in {"batch", "raised"}
      BY <1>7 DEF Subtask, BuildContext, FinishSubtask, RaiseSubtask
    <2>2. CASE pc' = "batch" BY <2>1, <2>2 DEF Rounds!absVars, Ended
    <2>3. CASE pc' = "raised"
      <3>1. Rounds!Stop BY <2>1, <2>3 DEF Rounds!Stop, Ended
      <3> QED BY <2>1, <3>1 DEF Rounds!AbsNext, Ended
    <2> QED BY <2>1, <2>2, <2>3
  <1>8. CASE Judge
    <2> DEFINE S == {n \in plan.nodes : status[n] \in {"done", "failed"} /\ status'[n] = "pending"}
    <2>1. PICK v : status' = Reset(status, v) BY <1>8 DEF Judge
    <2>2. /\ pc = "critic" /\ pc' \in {"lesson", "trial"} /\ UNCHANGED <<plan, results, trials>>
      BY <1>8 DEF Judge
    <2>3. \A n \in Node : status[n] # "running" BY <2>2 DEF Inv, QuietBetweenBatches
    <2>4. \A n \in Node : \/ status'[n] = status[n]
                          \/ n \in plan.nodes /\ status'[n] = "pending"
      BY <2>1 DEF Reset, Named
    <2>5. \A n \in Node : status'[n] = IF n \in S THEN "pending" ELSE status[n]
      <3> TAKE n \in Node
      <3>1. status[n] \in Status BY <1>0 DEF TypeOK
      <3>2. n \in plan.nodes => status[n] # "absent" BY <2>2 DEF RoundsInv
      <3> QED BY <2>3, <2>4, <3>1, <3>2 DEF Status
    <2>6. status' = [n \in Node |-> IF n \in S THEN "pending" ELSE status[n]]
      BY <2>1, <2>5 DEF Reset
    <2>7. ran' = ran
      BY <2>2, <2>3, <2>5
    <2>8. CASE S = {}
      <3>1. status' = status BY <1>0, <2>6, <2>8 DEF TypeOK
      <3> QED BY <2>2, <3>1 DEF Rounds!absVars, Ended
    <2>9. CASE S # {}
      <3>1. Rounds!Running = {} BY <2>3 DEF Rounds!Running
      <3>2. S \in SUBSET {n \in plan.nodes : status[n] \in {"done", "failed"}} OBVIOUS
      <3> HIDE DEF S
      <3>3. Rounds!Reopen BY <2>2, <2>6, <2>7, <2>9, <3>1, <3>2 DEF Rounds!Reopen, Ended
      <3> QED BY <2>2, <3>3 DEF Rounds!AbsNext, Ended
    <2> QED BY <2>8, <2>9
  <1>9. CASE CollectBatch
    <2> DEFINE S == ReadyNodes(plan, Settled)
               st == Settled
    <2>1. /\ pc = "batch" /\ plan' = plan /\ results' = Collected
          /\ Running # {} /\ Len(trials) < MaxTrials
      BY <1>9 DEF CollectBatch, RoundsInv
    <2>2. /\ st \in [Node -> {"absent", "pending", "done", "failed"}]
          /\ \A n \in Node : IF n \in Running THEN st[n] \in {"done", "failed"} ELSE st[n] = status[n]
      BY <1>0 DEF TypeOK, Settled, SettledStatus, Running, Status
    <2>3. S \subseteq Node BY <1>0 DEF ReadyNodes, TypeOK, Plan
    <2>4. Rounds!MayStart(S, st)
      BY DEF Rounds!MayStart, Rounds!Satisfied, ReadyNodes, DoneIds
    <2>5. \A n \in Running : outcome[n] # NoResult
      BY <1>9, <2>1 DEF CollectBatch, RecordInv, Running, Results, NoResult
    <2>6. S \cap ran = {}
      <3> SUFFICES ASSUME NEW n \in S, n \in ran PROVE FALSE OBVIOUS
      <3>1. n \in Node /\ st[n] = "pending" BY <2>3 DEF ReadyNodes
      <3>2. status[n] = "pending" /\ n \notin Running BY <2>2, <3>1
      <3>3. results[n] # NoResult BY <3>1, <3>2
      <3> QED BY <2>1, <3>1, <3>2, <3>3 DEF Inv, ReportedIsSettled
    <2>7. \A n \in Node : Collected[n] # NoResult <=> n \in ran
      BY <2>5 DEF Collected, Running
    <2>8. Rounds!Running # {} /\ Rounds!Settle(st)
      BY <2>1, <2>2 DEF Rounds!Running, Rounds!Settle, Running
    <2>9. CASE S # {} /\ Launch(S, st) /\ UNCHANGED <<trials, best>>
      <3>1. /\ status' = [n \in Node |-> IF n \in S THEN "running" ELSE st[n]]
            /\ pc' = "batch" /\ trials' = trials
        BY <2>9 DEF Launch
      <3>2. \A n \in Node : st[n] # "running" BY <2>2
      <3>3. \A n \in Node : n \in ran' <=> n \in ran \/ n \in S
        BY <2>1, <2>3, <2>7, <3>1, <3>2
      <3>4. ran' = ran \cup S BY <2>3, <3>3
      <3> HIDE DEF S, st, ran
      <3>5. Rounds!Advance
        BY <2>1, <2>2, <2>3, <2>4, <2>6, <2>8, <2>9, <3>1, <3>4 DEF Rounds!Advance, Rounds!Started, Ended, ran
      <3> QED BY <2>1, <3>5 DEF Rounds!AbsNext, Ended
    <2>10. CASE S = {} /\ status' = st /\ CloseTrial(Collected)
      <3>1. trials' = Append(trials, Collected) /\ pc' = "critic" BY <2>10 DEF CloseTrial
      <3>2. Len(trials') = Len(trials) + 1 BY <1>0, <3>1 DEF TypeOK
      <3>3. \A n \in Node : st[n] # "running" BY <2>2
      <3>4. ran' = ran BY <2>1, <2>7, <2>10, <3>3
      <3>5. status' = [n \in Node |-> IF n \in S THEN "running" ELSE st[n]] BY <2>2, <2>10
      <3> HIDE DEF S, st, ran
      <3>6. Rounds!Advance
        BY <2>1, <2>2, <2>4, <2>6, <2>8, <2>10, <3>1, <3>2, <3>4, <3>5 DEF Rounds!Advance, Rounds!Started, Ended, ran
      <3> QED BY <2>1, <3>6 DEF Rounds!AbsNext, Ended
    <2> QED BY <1>9, <2>9, <2>10 DEF CollectBatch
  <1> QED BY <1>1, <1>2, <1>3, <1>4, <1>5, <1>6, <1>7, <1>8, <1>9 DEF Next, Step

\* Whatever graph the decomposer returns and whatever the critic says, a run is a run of
\* DependencyRounds: rounds of subtasks whose dependencies are done, each at most once in a
\* round, at most MaxTrials rounds, and nothing after the end (hybrid_orchestrator.py, run).
\* What is left to model checking of ImplementsRounds is the fairness of AbsSpec.
THEOREM RunsInRounds == Spec => Rounds!AbsInit /\ [][Rounds!AbsNext]_(Rounds!absVars)
  <1>1. Init => RecordInv /\ RoundsInv BY DEF Init, NewSession, RecordInv, RoundsInv, NoPlan
  <1>2. Init => Rounds!AbsInit BY DEF Init, NewSession, NoPlan, Rounds!AbsInit, Ended
  <1> QED
    BY InitInv, NextInv, RecordStep, RoundsInvStep, StepIsRound, <1>1, <1>2, PTL DEF Spec

=============================================================================
