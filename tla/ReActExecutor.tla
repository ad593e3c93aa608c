---------------------------- MODULE ReActExecutor ----------------------------
(***************************************************************************)
(* The reason-and-act loop (planner/executor.py) with the error counter it *)
(* reports to (planner/circuit_breaker.py), for a set of runs that the     *)
(* same event loop interleaves.  A run asks the LLM for a step under the   *)
(* step timeout; the step's tool calls run together, and when all are back *)
(* their results are scanned in order, each counted as an error or as a    *)
(* success; a run ends with an answer or with the reason it was stopped.   *)
(*                                                                         *)
(* Only an await lets another run in: holder is the run that the event     *)
(* loop is executing between two awaits, and a run at an await has given   *)
(* it up.  A tool result is what run looks at in the text: its prefix and  *)
(* whether it takes a unit of the observation budget.  The results of a    *)
(* step are chosen when they are scanned, after all tools are back.  Time  *)
(* is the choice, at the points where the code reads it.                   *)
(*                                                                         *)
(* The breaker a run uses is the object it is handed.  Here a breaker is   *)
(* named by the run it was created for.                                    *)
(***************************************************************************)
EXTENDS Naturals, Sequences, FiniteSets

CONSTANTS
    Run,         \* calls of ReActExecutor.run
    Call,        \* tool signatures: a tool name with its arguments
    MaxSteps,    \* ExecutorConfig.max_steps
    MaxCalls,    \* bound: the tool calls of one LLM answer
    ErrorLimit,  \* CircuitBreaker.CONSECUTIVE_ERROR_LIMIT
    HardUnits,   \* token_burn_hard_chars, in full observations
    NoRun

ASSUME StepsAssumption  == MaxSteps \in Nat /\ MaxCalls \in Nat
ASSUME LimitsAssumption == ErrorLimit \in Nat \ {0} /\ HardUnits \in Nat
ASSUME NoRunAssumption  == NoRun \notin Run

VARIABLES
    phase,      \* where each run is
    holder,     \* the run executing between two awaits
    step,       \* the step it is in
    calls,      \* tool_calls of the step, the ones not scanned yet
    seen,       \* the kinds of result scanned in the last step with tools
    lastCall,   \* _last_tool_signature
    repeats,    \* _consecutive_repeats
    units,      \* _total_obs_chars, in full observations
    breaker,    \* the breaker the run was given
    errors,     \* _consecutive_errors of every breaker
    reason,     \* termination_reason, "answer" when the run was not stopped
    streak,     \* history: the run's own failures since its last step with a success
    recent      \* history: the last two calls scanned

execVars == <<phase, holder, step, calls, seen, lastCall, repeats, units,
              breaker, errors, reason, streak, recent>>

-----------------------------------------------------------------------------
NoCall == "none"

ASSUME CallAssumption == NoCall \notin Call

\* What a tool result is to the loop: "ok", "error" and "crash" by their prefix,
\* "mention" when the word SYSTEM_CRASH stands elsewhere in the text, and "rejected",
\* the text of a call that the human overseer refused, which starts with "ERROR:".
Kinds   == {"ok", "error", "crash", "mention", "rejected"}
Crashes == {"crash", "mention"}

\* is_error, any_success and found_crash; the units a text may take of the budget.
IsError(k)     == k \in {"error", "crash"}
AnySuccess(ks) == \E k \in ks : ~IsError(k)
FoundCrash(ks) == ks \cap Crashes # {}
Sizes(k)       == IF k = "rejected" THEN {0} ELSE {0, 1}

Reasons == {"global_timeout", "consecutive_timeouts", "infinite_loop", "system_crash",
            "consecutive_errors", "token_burn", "max_steps"}
Phases  == {"idle", "head", "llm", "timedout", "tools", "scan", "callback", "stopped"}

\* A run may act when the event loop is not inside another run.
MayAct(r) == holder \in {r, NoRun}

\* r moves to a phase that begins with an await, or goes on to one without.
Await(r, p)  == phase' = [phase EXCEPT ![r] = p] /\ holder' = NoRun
GoOn(r, p)   == phase' = [phase EXCEPT ![r] = p] /\ holder' = r
Stop(r, why) == Await(r, "stopped") /\ reason' = [reason EXCEPT ![r] = why]

ExecInit ==
    /\ phase = [r \in Run |-> "idle"]
    /\ holder = NoRun
    /\ step = [r \in Run |-> 0]
    /\ calls = [r \in Run |-> <<>>]
    /\ seen = [r \in Run |-> {}]
    /\ lastCall = [r \in Run |-> NoCall]
    /\ repeats = [r \in Run |-> 0]
    /\ units = [r \in Run |-> 0]
    /\ breaker = [r \in Run |-> r]
    /\ errors = [r \in Run |-> 0]
    /\ reason = [r \in Run |-> "none"]
    /\ streak = [r \in Run |-> 0]
    /\ recent = [r \in Run |-> <<>>]

-----------------------------------------------------------------------------
\* The call of run, with the breaker b.
StartWith(r, b) ==
    /\ phase[r] = "idle" /\ MayAct(r)
    /\ breaker' = [breaker EXCEPT ![r] = b]
    /\ GoOn(r, "head")
    /\ UNCHANGED <<step, calls, seen, lastCall, repeats, units, errors,
                   reason, streak, recent>>
Start(r) == StartWith(r, r)

\* The head of the for loop: out of steps, out of time, or one more LLM call.
MaxStepsReached(r) ==
    /\ phase[r] = "head" /\ MayAct(r) /\ step[r] >= MaxSteps
    /\ Stop(r, "max_steps")
    /\ UNCHANGED <<step, calls, seen, lastCall, repeats, units, breaker,
                   errors, streak, recent>>

GlobalTimeout(r) ==
    /\ phase[r] = "head" /\ MayAct(r) /\ step[r] < MaxSteps
    /\ Stop(r, "global_timeout")
    /\ UNCHANGED <<step, calls, seen, lastCall, repeats, units, breaker,
                   errors, streak, recent>>

AskLlm(r) ==
    /\ phase[r] = "head" /\ MayAct(r) /\ step[r] < MaxSteps
    /\ Await(r, "llm")
    /\ UNCHANGED <<step, calls, seen, lastCall, repeats, units, breaker,
                   errors, reason, streak, recent>>

\* record_error: the counter moves first, then the global failure is reported
\* from a worker thread, which is an await.
RecordError(r) ==
    /\ errors' = [errors EXCEPT ![breaker[r]] = @ + 1]
    /\ streak' = [streak EXCEPT ![r] = @ + 1]

Tripped(b) == errors[b] >= ErrorLimit

\* The LLM call runs into the step timeout, which counts as an error; after the
\* await the loop asks the breaker.
StepTimeout(r) ==
    /\ phase[r] = "llm" /\ MayAct(r)
    /\ RecordError(r)
    /\ Await(r, "timedout")
    /\ UNCHANGED <<step, calls, seen, lastCall, repeats, units, breaker, reason, recent>>

AfterTimeout(r) ==
    /\ phase[r] = "timedout" /\ MayAct(r)
    /\ IF Tripped(breaker[r])
         THEN Stop(r, "consecutive_timeouts") /\ UNCHANGED step
         ELSE /\ GoOn(r, "head")
              /\ step' = [step EXCEPT ![r] = @ + 1]
              /\ UNCHANGED reason
    /\ UNCHANGED <<calls, seen, lastCall, repeats, units, breaker, errors, streak, recent>>

\* Any other failure of the LLM call leaves run as an exception.
LlmFails(r) ==
    /\ phase[r] = "llm" /\ MayAct(r)
    /\ Stop(r, "raised")
    /\ UNCHANGED <<step, calls, seen, lastCall, repeats, units, breaker,
                   errors, streak, recent>>

\* The LLM answers with text, which ends the run, or with nothing.
Answer(r) ==
    /\ phase[r] = "llm" /\ MayAct(r)
    /\ Stop(r, "answer")
    /\ UNCHANGED <<step, calls, seen, lastCall, repeats, units, breaker,
                   errors, streak, recent>>

EmptyAnswer(r) ==
    /\ phase[r] = "llm" /\ MayAct(r)
    /\ GoOn(r, "head")
    /\ step' = [step EXCEPT ![r] = @ + 1]
    /\ UNCHANGED <<calls, seen, lastCall, repeats, units, breaker, errors,
                   reason, streak, recent>>

\* ... or with tool calls, which start together.
CallTools(r) ==
    /\ phase[r] = "llm" /\ MayAct(r)
    /\ \E k \in 1 .. MaxCalls : \E cs \in [1 .. k -> Call] :
         calls' = [calls EXCEPT ![r] = cs]
    /\ seen' = [seen EXCEPT ![r] = {}]
    /\ Await(r, "tools")
    /\ UNCHANGED <<step, lastCall, repeats, units, breaker, errors,
                   reason, streak, recent>>

\* All tools of the step are back: the task group ends.
ToolsReturn(r) ==
    /\ phase[r] = "tools" /\ MayAct(r)
    /\ GoOn(r, "scan")
    /\ UNCHANGED <<step, calls, seen, lastCall, repeats, units, breaker,
                   errors, reason, streak, recent>>

-----------------------------------------------------------------------------
\* The loop guard, for the next result to scan.  Mutant: the counter is not reset
\* by a different call.
StickyRepeats(r) == IF Head(calls[r]) = lastCall[r] THEN repeats[r] + 1 ELSE repeats[r]
Repeats(r)       == IF Head(calls[r]) = lastCall[r] THEN repeats[r] + 1 ELSE 0

LoopDetected(r) ==
    /\ phase[r] = "scan" /\ MayAct(r) /\ calls[r] # <<>>
    /\ Repeats(r) >= 2
    /\ lastCall' = [lastCall EXCEPT ![r] = Head(calls[r])]
    /\ repeats' = [repeats EXCEPT ![r] = Repeats(r)]
    /\ Stop(r, "infinite_loop")
    /\ UNCHANGED <<step, calls, seen, units, breaker, errors, streak, recent>>

\* One result: its observation joins the messages and the call is answered; an
\* error is recorded first, so that other runs act before the scan goes on.
ScanResult(r) ==
    /\ phase[r] = "scan" /\ MayAct(r) /\ calls[r] # <<>>
    /\ Repeats(r) < 2
    /\ lastCall' = [lastCall EXCEPT ![r] = Head(calls[r])]
    /\ repeats' = [repeats EXCEPT ![r] = Repeats(r)]
    /\ calls' = [calls EXCEPT ![r] = Tail(@)]
    /\ recent' = [recent EXCEPT ![r] = Append(IF Len(@) = 2 THEN Tail(@) ELSE @, Head(calls[r]))]
    /\ \E k \in Kinds :
         /\ seen' = [seen EXCEPT ![r] = @ \cup {k}]
         /\ \E u \in Sizes(k) : units' = [units EXCEPT ![r] = @ + u]
         /\ IF IsError(k)
              THEN /\ RecordError(r)
                   /\ Await(r, "scan")
              ELSE /\ GoOn(r, "scan")
                   /\ UNCHANGED <<errors, streak>>
    /\ UNCHANGED <<step, breaker, reason>>

\* All results are scanned: record_success, and then the guards in their order.
\* Mutants: the token burn guard is gone; a success does not reset the breaker.
NeverBurntOut(r) == FALSE
BurntOut(r)      == units[r] > HardUnits

NeverCleared(r) == FALSE
Cleared(r)      == AnySuccess(seen[r])

Verdict(r, es) ==
    IF FoundCrash(seen[r]) THEN "system_crash"
    ELSE IF es >= ErrorLimit THEN "consecutive_errors"
    ELSE IF BurntOut(r) THEN "token_burn" ELSE "none"

ScanEnds(r) ==
    /\ phase[r] = "scan" /\ MayAct(r) /\ calls[r] = <<>>
    /\ LET es == IF Cleared(r) THEN 0 ELSE errors[breaker[r]]
           v  == Verdict(r, es)
       IN  /\ errors' = [errors EXCEPT ![breaker[r]] = es]
           /\ streak' = [streak EXCEPT ![r] = IF AnySuccess(seen[r]) THEN 0 ELSE @]
           /\ IF v # "none" THEN Stop(r, v)
              ELSE Await(r, "callback") /\ UNCHANGED reason
    /\ UNCHANGED <<step, calls, seen, lastCall, repeats, units, breaker, recent>>

\* step_callback has saved the messages: the next step.
CallbackDone(r) ==
    /\ phase[r] = "callback" /\ MayAct(r)
    /\ GoOn(r, "head")
    /\ step' = [step EXCEPT ![r] = @ + 1]
    /\ UNCHANGED <<calls, seen, lastCall, repeats, units, breaker, errors,
                   reason, streak, recent>>

-----------------------------------------------------------------------------
\* The steps of a run once it has started.
LoopStep(r) ==
    \/ MaxStepsReached(r) \/ GlobalTimeout(r) \/ AskLlm(r)
    \/ StepTimeout(r) \/ AfterTimeout(r) \/ LlmFails(r)
    \/ Answer(r) \/ EmptyAnswer(r) \/ CallTools(r) \/ ToolsReturn(r)
    \/ LoopDetected(r) \/ ScanResult(r) \/ ScanEnds(r)
Loop(r) == LoopStep(r) \/ CallbackDone(r)

ExecNext == \E r \in Run : Start(r) \/ Loop(r)

\* The event loop is fair, the LLM call ends by its timeout at the latest, and the
\* tools return.
ExecSpec == ExecInit /\ [][ExecNext]_execVars
                     /\ \A r \in Run : WF_execVars(Start(r) \/ Loop(r))

-----------------------------------------------------------------------------
(***************************************************************************)
(* Properties.                                                             *)
(***************************************************************************)

\* The types of the variables.
ExecTypeOK ==
    /\ phase \in [Run -> Phases]
    /\ holder \in Run \cup {NoRun}
    /\ step \in [Run -> 0 .. MaxSteps]
    /\ calls \in [Run -> Seq(Call)]
    /\ seen \in [Run -> SUBSET Kinds]
    /\ lastCall \in [Run -> Call \cup {NoCall}]
    /\ repeats \in [Run -> 0 .. 2]
    /\ units \in [Run -> Nat]
    /\ breaker \in [Run -> Run]
    /\ errors \in [Run -> Nat]
    /\ reason \in [Run -> Reasons \cup {"none", "answer", "raised"}]
    /\ streak \in [Run -> Nat]
    /\ recent \in [Run -> Seq(Call)]

\* The run never asks the LLM again once a guard should have stopped it: at an LLM
\* call every tool call of the history is answered, no crash was reported in the
\* last step, the budget holds and fewer than ErrorLimit failures have come in a
\* row, counted by the run itself.
Guarded ==
    \A r \in Run : phase[r] = "llm" =>
        /\ calls[r] = <<>>
        /\ seen[r] \cap Crashes = {}
        /\ units[r] <= HardUnits
        /\ streak[r] < ErrorLimit

\* A run stopped for consecutive failures has really failed ErrorLimit times in a
\* row since the last step in which one of its tools succeeded.
StoppedForOwnErrors ==
    \A r \in Run : reason[r] \in {"consecutive_errors", "consecutive_timeouts"} =>
        streak[r] >= ErrorLimit

\* The loop guard stops a run at the third of three calls in a row that are the
\* same, and only there, whichever steps the calls came in.
ThirdOfThree(r) == calls[r] # <<>> /\ recent[r] = <<Head(calls[r]), Head(calls[r])>>

StopsAtThird(r) ==
    /\ reason'[r] = "infinite_loop" /\ reason[r] = "none" => ThirdOfThree(r)
    /\ calls'[r] # calls[r] /\ phase[r] = "scan" => ~ThirdOfThree(r)

LoopGuardExact == [][\A r \in Run : StopsAtThird(r)]_execVars

==============================================================================
