----------------------------- MODULE ReActPlanner -----------------------------
(***************************************************************************)
(* Requests on one ReActPlanner (planner/__init__.py): the chat adapters   *)
(* and the swarm's listeners call run on the same planner for several      *)
(* requests at a time.  A request records itself in the database, puts a   *)
(* fresh circuit breaker into the planner, is classified, and is answered  *)
(* by a fast handler, by the hybrid orchestrator or by the loop of         *)
(* ReActExecutor, which gets whatever breaker the planner holds by then.   *)
(*                                                                         *)
(* The executor's variables and steps are the ones of ReActExecutor; the   *)
(* planner has one variable of its own, current, and the database one row  *)
(* per request.  A write to the database may fail and is then only logged. *)
(***************************************************************************)
EXTENDS FastHandlers

VARIABLES
    stage,     \* how far run has come for each request
    current,   \* ReActPlanner._circuit_breaker, named by the request that set it
    began,     \* history: the requests in the order in which they set it
    row,       \* the status in seahorse_executions
    lost       \* history: the requests of which a database write failed

planVars  == <<stage, current, began, row, lost>>
vars      == <<execVars, fast, planVars>>

-----------------------------------------------------------------------------
Stages == {"new", "insert", "classify", "handler", "hybrid", "strategy", "executor",
           "settled", "memory", "responded", "raised"}
Rows   == {"none", "RUNNING", "DONE", "TERMINATED", "FAILED"}

Init ==
    /\ ExecInit /\ FastInit
    /\ stage = [r \in Run |-> "new"]
    /\ current = NoRun
    /\ began = <<>>
    /\ row = [r \in Run |-> "none"]
    /\ lost = {}

\* _persist_execution and _update_execution: the row is written or the write fails;
\* an update of a row that was never inserted changes nothing.
Insert(r) ==
    \/ row' = [row EXCEPT ![r] = "RUNNING"] /\ UNCHANGED lost
    \/ UNCHANGED row /\ lost' = lost \cup {r}
Update(r, status) ==
    \/ row' = [row EXCEPT ![r] = IF @ = "none" THEN @ ELSE status] /\ UNCHANGED lost
    \/ UNCHANGED row /\ lost' = lost \cup {r}

\* r is at s, and the event loop is not inside another request; r has come back
\* from the await at s.
At(r, s)     == stage[r] = s /\ MayAct(r)
BackAt(r, s) == stage[r] = s /\ holder = NoRun
Goto(r, s)   == stage' = [stage EXCEPT ![r] = s]
Yield        == holder' = NoRun

execRest == <<phase, step, calls, seen, lastCall, repeats, units, breaker,
              errors, reason, streak, recent>>

-----------------------------------------------------------------------------
\* The request arrives; the row is inserted.
Persist(r) ==
    /\ At(r, "new")
    /\ Insert(r)
    /\ Goto(r, "insert") /\ Yield
    /\ UNCHANGED <<execRest, fast, current, began>>

\* The first request of the process makes the pool of connections, outside of the try: the
\* request raises when the database is out of reach.
PoolFails(r) ==
    /\ At(r, "new") /\ \A q \in Run : row[q] = "none"
    /\ Goto(r, "raised") /\ Yield
    /\ UNCHANGED <<execRest, fast, current, began, row, lost>>

\* "Fresh circuit breaker per request", in an attribute of the planner; then the
\* intent is classified by the LLM, or at once for sub-agents and short prompts.
\* Mutant: the breaker of the planner's construction stays.
KeptBreaker(r) == IF current = NoRun THEN r ELSE current
NewBreaker(r)  == r

SetBreaker(r) ==
    /\ At(r, "insert")
    /\ current' = NewBreaker(r)
    /\ began' = Append(began, r)
    /\ Goto(r, "classify")
    /\ Yield \/ holder' = r
    /\ UNCHANGED <<execRest, fast, row, lost>>

\* The classification fails in another way than by its timeout, before the try.
ClassifyRaises(r) ==
    /\ BackAt(r, "classify")
    /\ Goto(r, "raised") /\ Yield
    /\ UNCHANGED <<execRest, fast, current, began, row, lost>>

\* The route: a fast handler, the hybrid orchestrator, a strategy plan first, or
\* the executor straight away.
TryHandler(r) ==
    /\ BackAt(r, "classify")
    /\ Route(r)
    /\ Goto(r, "handler")
    /\ UNCHANGED <<execRest, current, began, row, lost>>

InHandler(r) ==
    /\ stage[r] = "handler" /\ HandlerStep(r)
    /\ UNCHANGED <<execRest, planVars>>

\* The handler has declined, or none was asked.
HandlerLeft(r) == stage[r] = "handler" /\ Declined(r)
GoesOn(r)      == (BackAt(r, "classify") /\ UNCHANGED fast) \/ HandlerLeft(r)

RunHybrid(r) ==
    /\ GoesOn(r)
    /\ Goto(r, "hybrid") /\ Yield
    /\ UNCHANGED <<execRest, current, began, row, lost>>

PlanStrategy(r) ==
    /\ GoesOn(r)
    /\ Goto(r, "strategy") /\ Yield
    /\ UNCHANGED <<execRest, current, began, row, lost>>

\* A fast handler's response, or the orchestrator's, is returned as it is.
HandlerResponds(r) ==
    /\ \/ stage[r] = "handler" /\ Answered(r)
       \/ At(r, "hybrid") /\ UNCHANGED fast
    /\ Goto(r, "responded") /\ Yield
    /\ UNCHANGED <<execRest, current, began, row, lost>>

HybridRaises(r) ==
    /\ At(r, "hybrid")
    /\ Goto(r, "raised") /\ Yield
    /\ UNCHANGED <<execRest, fast, current, began, row, lost>>

\* The executor is built with the breaker that the planner holds now.
Execute(r) ==
    /\ \/ stage[r] \in {"classify", "strategy"} /\ UNCHANGED fast
       \/ HandlerLeft(r)
    /\ StartWith(r, current)
    /\ Goto(r, "executor")
    /\ UNCHANGED <<current, began, row, lost>>

ExecutorStep(r) ==
    /\ stage[r] = "executor" /\ LoopStep(r)
    /\ UNCHANGED <<fast, planVars>>

\* step_callback: _update_execution with its default status.
SaveProgress(r) ==
    /\ stage[r] = "executor" /\ CallbackDone(r)
    /\ Update(r, "RUNNING")
    /\ UNCHANGED <<fast, stage, current, began>>

-----------------------------------------------------------------------------
FinalStatus(r)     == IF reason[r] = "raised" THEN "FAILED"
                      ELSE IF reason[r] = "answer" THEN "DONE" ELSE "TERMINATED"

WriteFinal(r) ==
    /\ At(r, "executor") /\ phase[r] = "stopped"
    /\ Update(r, FinalStatus(r))
    /\ Goto(r, "settled") /\ Yield
    /\ UNCHANGED <<execRest, fast, current, began>>

\* Mutant: a failing memory extraction fails the request.
RecordMemoryOrFail(r) ==
    /\ At(r, "settled") /\ reason[r] # "raised"
    /\ Goto(r, "memory") \/ Goto(r, "raised")
    /\ Yield
    /\ UNCHANGED <<execRest, fast, current, began, row, lost>>

RecordMemory(r) ==
    /\ At(r, "settled") /\ reason[r] # "raised"
    /\ Goto(r, "memory") /\ Yield
    /\ UNCHANGED <<execRest, fast, current, began, row, lost>>

Respond(r) ==
    /\ At(r, "memory")
    /\ Goto(r, "responded") /\ Yield
    /\ UNCHANGED <<execRest, fast, current, began, row, lost>>

Reraise(r) ==
    /\ At(r, "settled") /\ reason[r] = "raised"
    /\ Goto(r, "raised") /\ Yield
    /\ UNCHANGED <<execRest, fast, current, began, row, lost>>

Request(r) ==
    \/ Persist(r) \/ PoolFails(r) \/ SetBreaker(r) \/ ClassifyRaises(r) \/ TryHandler(r)
    \/ InHandler(r) \/ RunHybrid(r) \/ PlanStrategy(r) \/ HandlerResponds(r) \/ HybridRaises(r)
    \/ Execute(r) \/ ExecutorStep(r) \/ SaveProgress(r) \/ WriteFinal(r)
    \/ RecordMemory(r) \/ Respond(r) \/ Reraise(r)

Next == \E r \in Run : Request(r)

\* Every coroutine that can run is run; LLM calls, tools and the database answer.
Spec == Init /\ [][Next]_vars /\ \A r \in Run : WF_vars(Request(r))

-----------------------------------------------------------------------------
(***************************************************************************)
(* Properties.                                                             *)
(***************************************************************************)

\* The types of the variables.
TypeOK ==
    /\ ExecTypeOK /\ FastTypeOK
    /\ stage \in [Run -> Stages]
    /\ current \in Run \cup {NoRun}
    /\ began \in Seq(Run)
    /\ row \in [Run -> Rows]
    /\ lost \subseteq Run

\* What the planner does guarantee of a shared breaker: the one a request runs with
\* was put in place no earlier than the request's own, so that the failures of
\* requests that were over when this one began never count against it.
BreakerNotStale ==
    \A r \in Run : phase[r] # "idle" =>
        \E i, j \in 1 .. Len(began) :
            i <= j /\ began[i] = r /\ began[j] = breaker[r]

\* The row tells how the loop ended: DONE only for an answer, TERMINATED only for a
\* stopped loop, and a request whose writes all went through and whose row is not
\* FAILED gets its response, however its memory extraction ends.
RowTellsOutcome ==
    \A r \in Run :
        /\ row[r] = "DONE" => reason[r] = "answer"
        /\ row[r] = "TERMINATED" => reason[r] \in Reasons
        /\ stage[r] = "raised" /\ phase[r] # "idle" /\ r \notin lost => row[r] = "FAILED"
        /\ stage[r] = "responded" => row[r] # "FAILED"

\* Every request is answered or raises.
RequestEnds == \A r \in Run : <>(stage[r] \in {"responded", "raised"})

==============================================================================
