------------------------- MODULE ReActPlanner_proofs -------------------------
(***************************************************************************)
(* The guards of the reason-and-act loop, for runs that have a breaker of  *)
(* their own; and requests that share a planner: whose breaker a request   *)
(* may run with, and what its row tells.  All of it for any requests,      *)
(* calls, limits and fast handlers.                                        *)
(***************************************************************************)
EXTENDS ReActPlanner, SequenceTheorems, TLAPS

-----------------------------------------------------------------------------
\* The breaker counts what the run counts itself; a run is between two steps with nothing
\* left to scan and no guard due; a run that is over has its reason.
Quiet(r) == calls[r] = <<>> /\ seen[r] \cap Crashes = {} /\ units[r] <= HardUnits

GuardTypes ==
    /\ phase \in [Run -> Phases]
    /\ units \in [Run -> Nat]
    /\ errors \in [Run -> Nat] /\ streak \in [Run -> Nat]
    /\ breaker = [r \in Run |-> r]
    /\ calls = [r \in Run |-> calls[r]] /\ seen = [r \in Run |-> seen[r]]
    /\ reason = [r \in Run |-> reason[r]]

RunInv(r) ==
    /\ errors[r] = streak[r]
    /\ phase[r] \in {"idle", "head", "llm", "timedout", "callback"} => Quiet(r)
    /\ phase[r] \in {"idle", "head", "llm", "callback"} => streak[r] < ErrorLimit
    /\ reason[r] # "none" => phase[r] = "stopped"
    /\ reason[r] \in {"consecutive_errors", "consecutive_timeouts"} => streak[r] >= ErrorLimit

GuardInv == GuardTypes /\ \A r \in Run : RunInv(r)

\* No run has begun.
LEMMA GuardInitially == ExecInit => GuardInv
  BY LimitsAssumption
  DEF ExecInit, GuardInv, GuardTypes, RunInv, Quiet, Phases, Crashes

\* A step of one run leaves the others as they are.
RunAlone(r) ==
    \A q \in Run \ {r} :
        /\ phase'[q] = phase[q] /\ calls'[q] = calls[q] /\ seen'[q] = seen[q]
        /\ units'[q] = units[q] /\ errors'[q] = errors[q] /\ streak'[q] = streak[q]
        /\ reason'[q] = reason[q]

\* The breaker's count follows the run's own streak through every scan.
LEMMA GuardStep == GuardInv /\ [ExecNext]_execVars => GuardInv'
  <1> SUFFICES ASSUME GuardInv, [ExecNext]_execVars PROVE GuardInv' OBVIOUS
  <1>1. CASE UNCHANGED execVars
    BY <1>1 DEF execVars, GuardInv, GuardTypes, RunInv, Quiet
  <1>2. ASSUME NEW r \in Run, Start(r) \/ Loop(r),
               GuardTypes', RunAlone(r), RunInv(r)'
        PROVE  GuardInv'
    BY <1>2 DEF GuardInv, RunAlone, RunInv, Quiet
  <1> USE LimitsAssumption DEF GuardInv, GuardTypes, RunInv, Quiet, RunAlone, Phases, Await, GoOn, Stop
  <1>3. ASSUME NEW r \in Run, Start(r) PROVE GuardInv'
    BY <1>2, <1>3 DEF Start, StartWith
  <1>4. ASSUME NEW r \in Run, MaxStepsReached(r) \/ GlobalTimeout(r) \/ LlmFails(r) \/ Answer(r)
        PROVE  GuardInv'
    <2>1. GuardTypes' /\ RunAlone(r) /\ RunInv(r)'
      BY <1>4 DEF MaxStepsReached, GlobalTimeout, LlmFails, Answer
    <2> QED BY <1>2, <1>4, <2>1 DEF Loop, LoopStep
  <1>5. ASSUME NEW r \in Run, AskLlm(r) \/ EmptyAnswer(r) \/ CallTools(r) \/ ToolsReturn(r)
        PROVE  GuardInv'
    <2>1. CASE AskLlm(r) BY <1>2, <2>1 DEF AskLlm, Loop, LoopStep
    <2>2. CASE EmptyAnswer(r) BY <1>2, <2>2 DEF EmptyAnswer, Loop, LoopStep
    <2>3. CASE CallTools(r) BY <1>2, <2>3 DEF CallTools, Loop, LoopStep
    <2>4. CASE ToolsReturn(r) BY <1>2, <2>4 DEF ToolsReturn, Loop, LoopStep
    <2> QED BY <1>5, <2>1, <2>2, <2>3, <2>4
  <1>6. ASSUME NEW r \in Run, StepTimeout(r) PROVE GuardInv'
    BY <1>2, <1>6 DEF StepTimeout, RecordError, Loop, LoopStep
  <1>7. ASSUME NEW r \in Run, AfterTimeout(r) PROVE GuardInv'
    <2>1. CASE errors[r] >= ErrorLimit
      <3>1. Tripped(breaker[r]) BY <2>1 DEF Tripped
      <3>2. /\ phase' = [phase EXCEPT ![r] = "stopped"]
            /\ reason' = [reason EXCEPT ![r] = "consecutive_timeouts"]
            /\ UNCHANGED <<calls, seen, units, breaker, errors, streak>>
        BY <1>7, <3>1 DEF AfterTimeout
      <3>3. GuardTypes' /\ RunAlone(r) /\ RunInv(r)' BY <2>1, <3>2
      <3> QED BY <1>2, <1>7, <3>3 DEF Loop, LoopStep
    <2>2. CASE ~(errors[r] >= ErrorLimit)
      <3>1. ~Tripped(breaker[r]) BY <2>2 DEF Tripped
      <3>2. /\ phase[r] = "timedout" /\ phase' = [phase EXCEPT ![r] = "head"]
            /\ UNCHANGED <<calls, seen, units, breaker, errors, reason, streak>>
        BY <1>7, <3>1 DEF AfterTimeout
      <3>3. GuardTypes' /\ RunAlone(r) /\ RunInv(r)' BY <2>2, <3>2
      <3> QED BY <1>2, <1>7, <3>3 DEF Loop, LoopStep
    <2> QED BY <2>1, <2>2
  <1>8. ASSUME NEW r \in Run, LoopDetected(r) PROVE GuardInv'
    BY <1>2, <1>8 DEF LoopDetected, Loop, LoopStep
  <1>9. ASSUME NEW r \in Run, ScanResult(r) PROVE GuardInv'
    <2>1. PICK k \in Kinds :
            /\ seen' = [seen EXCEPT ![r] = @ \cup {k}]
            /\ \E u \in Sizes(k) : units' = [units EXCEPT ![r] = @ + u]
            /\ IF IsError(k)
                 THEN RecordError(r) /\ Await(r, "scan")
                 ELSE GoOn(r, "scan") /\ UNCHANGED <<errors, streak>>
      BY <1>9 DEF ScanResult
    <2>2. PICK u \in Nat : units' = [units EXCEPT ![r] = @ + u] BY <2>1 DEF Sizes
    <2>3. /\ phase[r] = "scan" /\ phase' = [phase EXCEPT ![r] = "scan"]
          /\ reason' = reason /\ breaker' = breaker
          /\ calls' = [calls EXCEPT ![r] = Tail(@)]
      BY <1>9, <2>1 DEF ScanResult
    <2>4. \/ errors' = [errors EXCEPT ![r] = @ + 1] /\ streak' = [streak EXCEPT ![r] = @ + 1]
          \/ errors' = errors /\ streak' = streak
      BY <2>1 DEF RecordError
    <2>5. GuardTypes'
      <3>1. errors' \in [Run -> Nat] /\ streak' \in [Run -> Nat] BY <2>4
      <3>2. units' \in [Run -> Nat] BY <2>2
      <3>3. /\ phase' \in [Run -> Phases]
            /\ breaker' = [q \in Run |-> q]
            /\ calls' = [q \in Run |-> calls'[q]] /\ seen' = [q \in Run |-> seen'[q]]
            /\ reason' = [q \in Run |-> reason'[q]]
        BY <2>1, <2>3
      <3> QED BY <3>1, <3>2, <3>3
    <2>6. RunAlone(r) BY <2>1, <2>2, <2>3, <2>4
    <2>7. phase'[r] = "scan" /\ reason'[r] = reason[r] /\ errors'[r] = streak'[r]
      BY <2>3, <2>4
    <2>8. RunInv(r)' BY <2>3, <2>7
    <2> QED BY <1>2, <1>9, <2>5, <2>6, <2>8 DEF Loop, LoopStep
  <1>10. ASSUME NEW r \in Run, ScanEnds(r) PROVE GuardInv'
    <2> DEFINE es == IF Cleared(r) THEN 0 ELSE errors[r]
               v  == Verdict(r, es)
    <2>1. /\ phase[r] = "scan" /\ calls[r] = <<>>
          /\ UNCHANGED <<calls, seen, units, breaker>>
          /\ errors' = [errors EXCEPT ![r] = es]
          /\ streak' = [streak EXCEPT ![r] = IF Cleared(r) THEN 0 ELSE @]
          /\ IF v # "none" THEN Stop(r, v) ELSE Await(r, "callback") /\ UNCHANGED reason
      BY <1>10 DEF ScanEnds, Cleared
    <2>2. es \in Nat /\ es = streak'[r] /\ es = errors'[r] BY <2>1
    <2> HIDE DEF es
    <2>3. v = "none" => Quiet(r) /\ es < ErrorLimit
      BY <2>1, <2>2 DEF Verdict, FoundCrash, BurntOut
    <2>4. v = "consecutive_errors" => es >= ErrorLimit BY DEF Verdict
    <2>5. v # "consecutive_timeouts" BY DEF Verdict
    <2> HIDE DEF v
    <2>6. GuardTypes' /\ RunAlone(r) BY <2>1, <2>2
    <2>7. CASE v = "none" BY <1>2, <1>10, <2>1, <2>2, <2>3, <2>6, <2>7 DEF Loop, LoopStep
    <2>8. CASE v # "none"
      BY <1>2, <1>10, <2>1, <2>2, <2>4, <2>5, <2>6, <2>8 DEF Loop, LoopStep
    <2> QED BY <2>7, <2>8
  <1>11. ASSUME NEW r \in Run, CallbackDone(r) PROVE GuardInv'
    BY <1>2, <1>11 DEF CallbackDone, Loop
  <1> QED
    BY <1>1, <1>3, <1>4, <1>5, <1>6, <1>7, <1>8, <1>9, <1>10, <1>11
    DEF ExecNext, Loop, LoopStep

\* The LLM is never asked again once a guard was due: nothing is left unanswered, no crash was
\* reported, the budget holds and the run's own failures are few (executor.py:95-265).
THEOREM GuardsHold == ExecSpec => []Guarded
  <1>1. GuardInv => Guarded BY DEF GuardInv, RunInv, Quiet, Guarded
  <1> QED BY <1>1, GuardInitially, GuardStep, PTL DEF ExecSpec

\* A run that is stopped for consecutive failures has failed that often itself, and with no
\* success in between (executor.py:122-135, 195-246, circuit_breaker.py:27-47).
THEOREM StopsForOwnErrors == ExecSpec => []StoppedForOwnErrors
  <1>1. GuardInv => StoppedForOwnErrors BY DEF GuardInv, RunInv, StoppedForOwnErrors
  <1> QED BY <1>1, GuardInitially, GuardStep, PTL DEF ExecSpec

-----------------------------------------------------------------------------
\* What the loop guard remembers while the run goes on: the last call, and whether the one
\* before was the same.
Fresh(r)       == recent[r] = <<>> /\ lastCall[r] = NoCall /\ repeats[r] = 0
OneCall(r, x)  == recent[r] = <<x>> /\ lastCall[r] = x /\ repeats[r] = 0
TwoCalls(r, x, y) ==
    recent[r] = <<x, y>> /\ lastCall[r] = y /\ repeats[r] = IF x = y THEN 1 ELSE 0

Remembers(r) ==
    \/ Fresh(r)
    \/ \E x \in Call : OneCall(r, x)
    \/ \E x, y \in Call : TwoCalls(r, x, y)

LoopInv ==
    /\ calls \in [Run -> Seq(Call)]
    /\ phase = [r \in Run |-> phase[r]] /\ recent = [r \in Run |-> recent[r]]
    /\ lastCall = [r \in Run |-> lastCall[r]] /\ repeats = [r \in Run |-> repeats[r]]
    /\ \A r \in Run : phase[r] # "stopped" => Remembers(r)

\* The last two elements after one more.
Last2(s, h) == Append(IF Len(s) = 2 THEN Tail(s) ELSE s, h)

\* The last two calls of a run after one more.
LEMMA LastTwo ==
  ASSUME NEW h \in Call
  PROVE  /\ Last2(<<>>, h) = <<h>>
         /\ \A x \in Call : Last2(<<x>>, h) = <<x, h>>
         /\ \A x, y \in Call : Last2(<<x, y>>, h) = <<y, h>>
  <1>1. ASSUME NEW x \in Call PROVE Append(<<x>>, h) = <<x, h>>
    <2> DEFINE s == Append(<<x>>, h)
               t == <<x, h>>
    <2>1. <<x>> \in Seq(Call) /\ Len(<<x>>) = 1 OBVIOUS
    <2>2. s \in Seq(Call) /\ Len(s) = 2 /\ s[1] = x /\ s[2] = h BY <2>1
    <2>3. t \in Seq(Call) /\ Len(t) = 2 /\ t[1] = x /\ t[2] = h OBVIOUS
    <2> HIDE DEF s, t
    <2>4. \A i \in 1 .. Len(s) : s[i] = t[i] BY <2>2, <2>3
    <2>5. s = t BY <2>2, <2>3, <2>4, SeqEqual
    <2> QED BY <2>5 DEF s, t
  <1>2. Last2(<<>>, h) = <<h>> BY DEF Last2
  <1>3. ASSUME NEW x \in Call PROVE Last2(<<x>>, h) = <<x, h>>
    <2>1. Len(<<x>>) = 1 OBVIOUS
    <2>2. Last2(<<x>>, h) = Append(<<x>>, h) BY <2>1 DEF Last2
    <2> QED BY <1>1, <2>2
  <1>4. ASSUME NEW x \in Call, NEW y \in Call PROVE Last2(<<x, y>>, h) = <<y, h>>
    <2>1. Len(<<x, y>>) = 2 OBVIOUS
    <2>2. Tail(<<x, y>>) = <<y>> OBVIOUS
    <2>3. Last2(<<x, y>>, h) = Append(<<y>>, h) BY <2>1, <2>2 DEF Last2
    <2> QED BY <1>1, <2>3
  <1> QED BY <1>2, <1>3, <1>4

\* The guard's count is due exactly at the third of three equal calls.
LEMMA CountIsExact ==
  ASSUME LoopInv, NEW r \in Run, phase[r] # "stopped", calls[r] # <<>>
  PROVE  /\ Head(calls[r]) \in Call
         /\ Repeats(r) >= 2 <=> ThirdOfThree(r)
         /\ Repeats(r) < 2 <=> ~ThirdOfThree(r)
  <1> DEFINE h == Head(calls[r])
  <1>1. h \in Call BY DEF LoopInv
  <1>2. Remembers(r) BY DEF LoopInv
  <1>3. CASE Fresh(r)
    BY <1>1, <1>3, CallAssumption DEF Fresh, Repeats, ThirdOfThree
  <1>4. ASSUME NEW x \in Call, OneCall(r, x)
        PROVE  Repeats(r) \in {0, 1} /\ ~ThirdOfThree(r)
    BY <1>4 DEF OneCall, Repeats, ThirdOfThree
  <1>5. ASSUME NEW x \in Call, NEW y \in Call, TwoCalls(r, x, y)
        PROVE  \/ Repeats(r) = 2 /\ ThirdOfThree(r)
               \/ Repeats(r) \in {0, 1} /\ ~ThirdOfThree(r)
    <2>1. ThirdOfThree(r) <=> h = x /\ h = y BY <1>5 DEF TwoCalls, ThirdOfThree
    <2>2. CASE h = y /\ x = y
      <3>1. Repeats(r) = 2 BY <1>5, <2>2 DEF TwoCalls, Repeats
      <3> QED BY <2>1, <2>2, <3>1
    <2>3. CASE ~(h = y /\ x = y)
      <3>1. Repeats(r) \in {0, 1} BY <1>5, <2>3 DEF TwoCalls, Repeats
      <3> QED BY <2>1, <2>3, <3>1
    <2> QED BY <2>2, <2>3
  <1>6. \/ Fresh(r)
        \/ Repeats(r) = 2 /\ ThirdOfThree(r)
        \/ Repeats(r) \in {0, 1} /\ ~ThirdOfThree(r)
    BY <1>2, <1>4, <1>5 DEF Remembers
  <1> QED BY <1>1, <1>3, <1>6

\* No call was made.
LEMMA LoopInitially == ExecInit => LoopInv
  BY DEF ExecInit, LoopInv, Remembers, Fresh

\* The counter of repetitions follows the last two calls.
LEMMA LoopInvStep == LoopInv /\ [ExecNext]_execVars => LoopInv'
  <1> SUFFICES ASSUME LoopInv, [ExecNext]_execVars PROVE LoopInv' OBVIOUS
  <1>1. CASE UNCHANGED execVars BY <1>1 DEF execVars, LoopInv, Remembers, Fresh, OneCall, TwoCalls
  <1>2. ASSUME NEW r \in Run, UNCHANGED <<recent, lastCall, repeats>>,
               phase[r] # "stopped", phase' = [phase EXCEPT ![r] = phase'[r]],
               calls' \in [Run -> Seq(Call)]
        PROVE  LoopInv'
    BY <1>2 DEF LoopInv, Remembers, Fresh, OneCall, TwoCalls
  <1> USE DEF Await, GoOn, Stop
  <1>3. ASSUME NEW r \in Run,
               \/ Start(r) \/ MaxStepsReached(r) \/ GlobalTimeout(r) \/ AskLlm(r)
               \/ StepTimeout(r) \/ LlmFails(r) \/ Answer(r) \/ EmptyAnswer(r)
               \/ ToolsReturn(r) \/ CallbackDone(r)
        PROVE  LoopInv'
    <2>1. /\ UNCHANGED <<recent, lastCall, repeats, calls>> /\ phase[r] # "stopped"
          /\ \E p : phase' = [phase EXCEPT ![r] = p]
      BY <1>3 DEF Start, StartWith, MaxStepsReached, GlobalTimeout, AskLlm, StepTimeout,
                  LlmFails, Answer, EmptyAnswer, ToolsReturn, CallbackDone
    <2> QED BY <1>2, <2>1 DEF LoopInv
  <1>4. ASSUME NEW r \in Run, AfterTimeout(r) \/ ScanEnds(r) PROVE LoopInv'
    <2>1. /\ UNCHANGED <<recent, lastCall, repeats, calls>> /\ phase[r] # "stopped"
          /\ \E p : phase' = [phase EXCEPT ![r] = p]
      BY <1>4 DEF AfterTimeout, ScanEnds
    <2> QED BY <1>2, <2>1 DEF LoopInv
  <1>5. ASSUME NEW r \in Run, CallTools(r) PROVE LoopInv'
    <2>1. PICK k \in 1 .. MaxCalls : \E cs \in [1 .. k -> Call] : calls' = [calls EXCEPT ![r] = cs]
      BY <1>5 DEF CallTools
    <2>2. [1 .. k -> Call] \subseteq Seq(Call) BY StepsAssumption
    <2>3. calls' \in [Run -> Seq(Call)] BY <2>1, <2>2 DEF LoopInv
    <2> QED BY <1>2, <1>5, <2>3 DEF CallTools, LoopInv
  <1>6. ASSUME NEW r \in Run, LoopDetected(r) PROVE LoopInv'
    <2>1. /\ phase' = [phase EXCEPT ![r] = "stopped"]
          /\ lastCall' = [lastCall EXCEPT ![r] = Head(calls[r])]
          /\ repeats' = [repeats EXCEPT ![r] = Repeats(r)]
          /\ UNCHANGED <<calls, recent>>
      BY <1>6 DEF LoopDetected, Await, Stop
    <2>2. ASSUME NEW q \in Run, phase'[q] # "stopped" PROVE Remembers(q)'
      <3>1. q # r BY <2>1, <2>2 DEF LoopInv
      <3>2. /\ phase'[q] = phase[q] /\ lastCall'[q] = lastCall[q]
            /\ repeats'[q] = repeats[q] /\ recent'[q] = recent[q]
        BY <2>1, <3>1 DEF LoopInv
      <3>3. Remembers(q) BY <2>2, <3>2 DEF LoopInv
      <3> QED BY <3>2, <3>3 DEF Remembers, Fresh, OneCall, TwoCalls
    <2> QED BY <2>1, <2>2 DEF LoopInv
  <1>7. ASSUME NEW r \in Run, ScanResult(r) PROVE LoopInv'
    <2>1. phase[r] = "scan" /\ calls[r] # <<>> /\ Repeats(r) < 2 BY <1>7 DEF ScanResult
    <2>2. PICK h \in Call : h = Head(calls[r]) /\ ~ThirdOfThree(r) BY <2>1, CountIsExact
    <2>3. /\ phase' = [phase EXCEPT ![r] = "scan"]
          /\ calls' = [calls EXCEPT ![r] = Tail(@)]
          /\ lastCall' = [lastCall EXCEPT ![r] = h]
          /\ repeats' = [repeats EXCEPT ![r] = Repeats(r)]
          /\ recent' = [recent EXCEPT ![r] = Last2(recent[r], h)]
      BY <1>7, <2>2 DEF ScanResult, Last2
    <2>4. calls' \in [Run -> Seq(Call)] BY <2>1, <2>3 DEF LoopInv
    <2>5. recent'[r] = Last2(recent[r], h) /\ lastCall'[r] = h /\ repeats'[r] = Repeats(r)
      BY <2>3 DEF LoopInv
    <2>6. Remembers(r) BY <2>1 DEF LoopInv
    <2>7. ASSUME Fresh(r) PROVE Remembers(r)'
      <3>1. recent'[r] = <<h>> BY <2>2, <2>5, <2>7, LastTwo DEF Fresh
      <3>2. repeats'[r] = 0 BY <2>2, <2>5, <2>7, CallAssumption DEF Fresh, Repeats
      <3>3. OneCall(r, h)' BY <2>5, <3>1, <3>2 DEF OneCall
      <3> QED BY <2>2, <3>3 DEF Remembers
    <2>8. ASSUME NEW x \in Call, OneCall(r, x) PROVE Remembers(r)'
      <3>1. recent'[r] = <<x, h>> BY <2>2, <2>5, <2>8, LastTwo DEF OneCall
      <3>2. repeats'[r] = IF x = h THEN 1 ELSE 0 BY <2>2, <2>5, <2>8 DEF OneCall, Repeats
      <3>3. TwoCalls(r, x, h)' BY <2>5, <3>1, <3>2 DEF TwoCalls
      <3> QED BY <2>2, <3>3 DEF Remembers
    <2>9. ASSUME NEW x \in Call, NEW y \in Call, TwoCalls(r, x, y) PROVE Remembers(r)'
      <3>0. recent[r] = <<x, y>> BY <2>9 DEF TwoCalls
      <3>1. recent'[r] = <<y, h>>
        <4>1. Last2(<<x, y>>, h) = <<y, h>> BY <2>2, <2>9, LastTwo
        <4> QED BY <2>5, <3>0, <4>1
      <3>2. ~(h = x /\ h = y) BY <2>1, <2>2, <2>9 DEF TwoCalls, ThirdOfThree
      <3>3. repeats'[r] = IF y = h THEN 1 ELSE 0 BY <2>2, <2>5, <2>9, <3>2 DEF TwoCalls, Repeats
      <3>4. TwoCalls(r, y, h)' BY <2>5, <3>1, <3>3 DEF TwoCalls
      <3> QED BY <2>2, <3>4 DEF Remembers
    <2>10. Remembers(r)' BY <2>6, <2>7, <2>8, <2>9 DEF Remembers
    <2>11. ASSUME NEW q \in Run \ {r}, phase'[q] # "stopped" PROVE Remembers(q)'
      <3>1. /\ phase'[q] = phase[q] /\ lastCall'[q] = lastCall[q]
            /\ repeats'[q] = repeats[q] /\ recent'[q] = recent[q]
        BY <2>3 DEF LoopInv
      <3>2. Remembers(q) BY <2>11, <3>1 DEF LoopInv
      <3> QED BY <3>1, <3>2 DEF Remembers, Fresh, OneCall, TwoCalls
    <2> QED BY <2>3, <2>4, <2>10, <2>11 DEF LoopInv
  <1> QED BY <1>1, <1>3, <1>4, <1>5, <1>6, <1>7 DEF ExecNext, Loop, LoopStep

\* The scan that stops a run for a loop is that of the third equal call.
LEMMA LoopGuardStep ==
  GuardInv /\ LoopInv /\ [ExecNext]_execVars => [\A r \in Run : StopsAtThird(r)]_execVars
  <1> SUFFICES ASSUME GuardInv, LoopInv, ExecNext, NEW r \in Run PROVE StopsAtThird(r) OBVIOUS
  <1> USE DEF Await, GoOn, Stop
  <1>1. ASSUME reason'[r] # "infinite_loop" \/ reason[r] # "none",
               calls'[r] = calls[r] \/ phase[r] # "scan"
        PROVE  StopsAtThird(r)
    BY <1>1 DEF StopsAtThird
  <1>2. ASSUME NEW q \in Run,
               \/ Start(q) \/ MaxStepsReached(q) \/ GlobalTimeout(q) \/ AskLlm(q)
               \/ StepTimeout(q) \/ LlmFails(q) \/ Answer(q) \/ EmptyAnswer(q)
               \/ ToolsReturn(q) \/ CallbackDone(q) \/ AfterTimeout(q)
        PROVE  StopsAtThird(r)
    <2>1. /\ calls' = calls
          /\ \/ reason' = reason
             \/ \E v : v # "infinite_loop" /\ reason' = [reason EXCEPT ![q] = v]
      BY <1>2 DEF Start, StartWith, MaxStepsReached, GlobalTimeout, AskLlm, StepTimeout,
                  LlmFails, Answer, EmptyAnswer, ToolsReturn, CallbackDone, AfterTimeout
    <2>2. reason'[r] # "infinite_loop" \/ reason[r] = "infinite_loop"
      BY <2>1 DEF GuardInv, GuardTypes
    <2> QED BY <1>1, <2>1, <2>2
  <1>3. ASSUME NEW q \in Run, CallTools(q) PROVE StopsAtThird(r)
    <2>1. /\ phase[q] = "llm" /\ reason' = reason
          /\ \E cs : calls' = [calls EXCEPT ![q] = cs]
      BY <1>3 DEF CallTools
    <2>2. calls'[r] = calls[r] \/ phase[r] # "scan" BY <2>1
    <2> QED BY <1>1, <2>1, <2>2
  <1>4. ASSUME NEW q \in Run, ScanEnds(q) PROVE StopsAtThird(r)
    <2>1. \A es : Verdict(q, es) # "infinite_loop" BY DEF Verdict
    <2>2. /\ calls' = calls
          /\ \/ reason' = reason
             \/ \E v : v # "infinite_loop" /\ reason' = [reason EXCEPT ![q] = v]
      BY <1>4, <2>1 DEF ScanEnds
    <2>3. reason'[r] # "infinite_loop" \/ reason[r] = "infinite_loop"
      BY <2>2 DEF GuardInv, GuardTypes
    <2> QED BY <1>1, <2>2, <2>3
  <1>5. ASSUME NEW q \in Run, LoopDetected(q) PROVE StopsAtThird(r)
    <2>1. CASE q = r
      <3>1. ThirdOfThree(r) /\ calls' = calls
        BY <1>5, <2>1, CountIsExact DEF LoopDetected
      <3> QED BY <3>1 DEF StopsAtThird
    <2>2. CASE q # r
      <3>1. calls' = calls /\ reason'[r] = reason[r] BY <1>5, <2>2 DEF LoopDetected
      <3> QED BY <1>1, <3>1
    <2> QED BY <2>1, <2>2
  <1>6. ASSUME NEW q \in Run, ScanResult(q) PROVE StopsAtThird(r)
    <2>1. CASE q = r
      <3>1. ~ThirdOfThree(r) /\ reason' = reason
        BY <1>6, <2>1, CountIsExact DEF ScanResult
      <3> QED BY <3>1 DEF StopsAtThird
    <2>2. CASE q # r
      <3>1. calls'[r] = calls[r] /\ reason' = reason BY <1>6, <2>2 DEF ScanResult
      <3> QED BY <1>1, <3>1
    <2> QED BY <2>1, <2>2
  <1> QED BY <1>2, <1>3, <1>4, <1>5, <1>6 DEF ExecNext, Loop, LoopStep

\* The loop guard stops a run at the third of three equal calls in a row and nowhere else,
\* whichever steps they came in (executor.py:178-193).
THEOREM StopsAtTheThirdCall == ExecSpec => LoopGuardExact
  <1> QED
    BY GuardInitially, GuardStep, LoopInitially, LoopInvStep, LoopGuardStep, PTL
    DEF ExecSpec, LoopGuardExact

-----------------------------------------------------------------------------
\* The loop of the executor, as the planner sees it: one of its steps belongs to a run that
\* is under way, and a reason comes with the end.
LEMMA LoopStepEffect ==
  ASSUME NEW r \in Run, LoopStep(r)
  PROVE  /\ breaker' = breaker /\ phase[r] \notin {"idle", "stopped"}
         /\ \/ /\ reason' = reason
               /\ \E p \in Phases \ {"idle", "stopped"} : phase' = [phase EXCEPT ![r] = p]
            \/ /\ \E v \in Reasons \cup {"answer", "raised"} : reason' = [reason EXCEPT ![r] = v]
               /\ phase' = [phase EXCEPT ![r] = "stopped"]
  <1> USE DEF Await, GoOn, Stop, Phases, Reasons
  <1>1. CASE MaxStepsReached(r) \/ GlobalTimeout(r) \/ LlmFails(r) \/ Answer(r)
    BY <1>1 DEF MaxStepsReached, GlobalTimeout, LlmFails, Answer
  <1>2. CASE AskLlm(r) \/ EmptyAnswer(r) \/ ToolsReturn(r)
    BY <1>2 DEF AskLlm, EmptyAnswer, ToolsReturn
  <1>3. CASE StepTimeout(r) \/ AfterTimeout(r)
    BY <1>3 DEF StepTimeout, AfterTimeout
  <1>4. CASE CallTools(r) BY <1>4 DEF CallTools
  <1>5. CASE LoopDetected(r) BY <1>5 DEF LoopDetected
  <1>6. CASE ScanResult(r) BY <1>6 DEF ScanResult
  <1>7. CASE ScanEnds(r)
    <2>1. \A es : Verdict(r, es) \in Reasons \cup {"none"} BY DEF Verdict
    <2> QED BY <1>7, <2>1 DEF ScanEnds
  <1> QED BY <1>1, <1>2, <1>3, <1>4, <1>5, <1>6, <1>7 DEF LoopStep

-----------------------------------------------------------------------------
Types ==
    /\ stage = [r \in Run |-> stage[r]] /\ phase = [r \in Run |-> phase[r]]
    /\ breaker = [r \in Run |-> breaker[r]] /\ row = [r \in Run |-> row[r]]
    /\ reason = [r \in Run |-> reason[r]]
    /\ began \in Seq(Run)

Over(r)    == stage[r] \in {"settled", "memory", "responded", "raised"}
Settled(r) == Over(r) /\ phase[r] = "stopped"

\* A request, its loop and its row.
RequestInv(r) ==
    /\ row[r] \in Rows
    /\ phase[r] # "idle" => stage[r] = "executor" \/ Settled(r)
    /\ phase[r] = "stopped" => reason[r] \in Reasons \cup {"answer", "raised"}
    /\ stage[r] = "executor" => phase[r] # "idle"
    /\ stage[r] \in {"settled", "memory"} => phase[r] = "stopped"
    /\ stage[r] \in {"memory", "responded"} /\ phase[r] # "idle" => reason[r] # "raised"
    /\ stage[r] = "raised" /\ phase[r] # "idle" => reason[r] = "raised"
    /\ row[r] \in {"DONE", "TERMINATED", "FAILED"} => Settled(r) /\ row[r] = FinalStatus(r)
    /\ r \notin lost /\ row[r] = "none" => phase[r] = "idle" /\ stage[r] \in {"new", "raised"}
    /\ Settled(r) /\ r \notin lost => row[r] = FinalStatus(r)

\* The planner's breaker is the one of the last request that set one, and a request has set
\* its own before it goes on.
BreakerInv ==
    /\ began # <<>> => current = began[Len(began)]
    /\ \A r \in Run : stage[r] \notin {"new", "insert", "raised"} =>
                         \E i \in 1 .. Len(began) : began[i] = r
    /\ BreakerNotStale

Inv == Types /\ BreakerInv /\ \A r \in Run : RequestInv(r)

\* No request has begun.
LEMMA Initially == Init => Inv
  BY DEF Inv, Init, ExecInit, Types, RequestInv, BreakerInv, BreakerNotStale, Settled, Over, Rows

\* What the steps of a request do to the variables above.
Fixed == UNCHANGED <<current, began>> /\ breaker' = breaker

\* What is current stays so while no request begins.
LEMMA BreakerStays ==
  ASSUME Types, BreakerInv, Fixed,
         \A r \in Run : phase'[r] # "idle" => phase[r] # "idle",
         \A r \in Run : stage'[r] \notin {"new", "insert", "raised"} =>
                        stage[r] \notin {"new", "insert", "raised"}
  PROVE  BreakerInv'
  BY DEF BreakerInv, BreakerNotStale, Fixed

\* A breaker is current from the moment its request put it there.
LEMMA BreakerStep == Inv /\ [Next]_vars => BreakerInv'
  <1> SUFFICES ASSUME Types, BreakerInv, \A r \in Run : RequestInv(r), [Next]_vars
               PROVE  BreakerInv'
    BY DEF Inv
  <1>1. CASE UNCHANGED vars
    BY <1>1 DEF vars, planVars, execVars, BreakerInv, BreakerNotStale
  <1>2. ASSUME NEW r \in Run,
               \/ Persist(r) \/ PoolFails(r) \/ ClassifyRaises(r) \/ TryHandler(r) \/ InHandler(r)
               \/ RunHybrid(r) \/ PlanStrategy(r) \/ HandlerResponds(r) \/ HybridRaises(r)
               \/ WriteFinal(r) \/ RecordMemory(r) \/ Respond(r) \/ Reraise(r)
        PROVE  BreakerInv'
    <2>1. /\ Fixed /\ phase' = phase
          /\ \/ stage' = stage
             \/ \E s : stage' = [stage EXCEPT ![r] = s] /\ (s \notin {"new", "insert", "raised"} =>
                                                    stage[r] \notin {"new", "insert", "raised"})
      BY <1>2 DEF Persist, PoolFails, ClassifyRaises, TryHandler, InHandler, RunHybrid, PlanStrategy,
                  HandlerResponds, HybridRaises, WriteFinal, RecordMemory, Respond, Reraise,
                  GoesOn, HandlerLeft, Answered, Awaits, At, BackAt, Goto, Fixed, execRest, planVars
    <2>2. \A q \in Run : stage'[q] \notin {"new", "insert", "raised"} =>
                          stage[q] \notin {"new", "insert", "raised"}
      BY <2>1 DEF Types
    <2> QED BY <2>1, <2>2, BreakerStays
  <1>3. ASSUME NEW r \in Run, ExecutorStep(r) \/ SaveProgress(r) PROVE BreakerInv'
    <2>1. /\ Fixed /\ stage' = stage /\ phase[r] # "idle"
          /\ \E p : phase' = [phase EXCEPT ![r] = p]
      BY <1>3, LoopStepEffect
      DEF ExecutorStep, SaveProgress, CallbackDone, GoOn, Fixed, planVars
    <2>2. \A q \in Run : phase'[q] # "idle" => phase[q] # "idle" BY <2>1 DEF Types
    <2> QED BY <2>1, <2>2, BreakerStays
  <1>4. ASSUME NEW r \in Run, SetBreaker(r) PROVE BreakerInv'
    <2>1. /\ current' = r /\ began' = Append(began, r) /\ phase' = phase /\ breaker' = breaker
          /\ stage' = [stage EXCEPT ![r] = "classify"]
      BY <1>4 DEF SetBreaker, NewBreaker, Goto, execRest
    <2>2. /\ Len(began') = Len(began) + 1 /\ Len(began) \in Nat /\ began'[Len(began')] = r
          /\ \A i \in 1 .. Len(began) : i \in 1 .. Len(began') /\ began'[i] = began[i]
      BY <2>1 DEF Types
    <2>3. ASSUME NEW q \in Run, stage'[q] \notin {"new", "insert", "raised"}
          PROVE  \E i \in 1 .. Len(began') : began'[i] = q
      <3>1. CASE q = r BY <2>2, <3>1
      <3>2. CASE q # r
        <4>1. stage[q] \notin {"new", "insert", "raised"} BY <2>1, <2>3, <3>2 DEF Types
        <4> QED BY <2>2, <4>1 DEF BreakerInv
      <3> QED BY <3>1, <3>2
    <2>4. BreakerNotStale' BY <2>1, <2>2 DEF BreakerInv, BreakerNotStale
    <2> QED BY <2>1, <2>2, <2>3, <2>4 DEF BreakerInv
  <1>5. ASSUME NEW r \in Run, Execute(r) PROVE BreakerInv'
    <2>1. /\ stage[r] \notin {"new", "insert", "raised"} /\ stage' = [stage EXCEPT ![r] = "executor"]
          /\ breaker' = [breaker EXCEPT ![r] = current]
          /\ phase' = [phase EXCEPT ![r] = "head"] /\ UNCHANGED <<current, began>>
      BY <1>5 DEF Execute, StartWith, GoOn, Goto, HandlerLeft
    <2>2. PICK i \in 1 .. Len(began) : began[i] = r BY <2>1 DEF BreakerInv
    <2>3. /\ Len(began) \in 1 .. Len(began) /\ i <= Len(began) /\ began # <<>>
      BY <2>2 DEF Types
    <2>4. breaker'[r] = began[Len(began)] BY <2>1, <2>3 DEF BreakerInv, Types
    <2>5. \A q \in Run : q # r => phase'[q] = phase[q] /\ breaker'[q] = breaker[q]
      BY <2>1 DEF Types
    <2>6. BreakerNotStale'
      BY <2>1, <2>2, <2>3, <2>4, <2>5 DEF BreakerInv, BreakerNotStale
    <2>7. \A q \in Run : stage'[q] \notin {"new", "insert", "raised"} =>
                          stage[q] \notin {"new", "insert", "raised"}
      BY <2>1 DEF Types
    <2> QED BY <2>1, <2>6, <2>7 DEF BreakerInv
  <1> QED BY <1>1, <1>2, <1>3, <1>4, <1>5 DEF Next, Request

-----------------------------------------------------------------------------
\* A step of one request leaves what the others have.
Alone(r) ==
    /\ lost \subseteq lost'
    /\ \A q \in Run \ {r} : /\ stage'[q] = stage[q] /\ phase'[q] = phase[q]
                           /\ row'[q] = row[q] /\ reason'[q] = reason[q]

\* A row is written on the way out, after its request's outcome is known.
LEMMA RequestStep ==
  Inv /\ [Next]_vars => Types' /\ \A r \in Run : RequestInv(r)'
  <1> SUFFICES ASSUME Types, BreakerInv, \A r \in Run : RequestInv(r), [Next]_vars
               PROVE  Types' /\ \A r \in Run : RequestInv(r)'
    BY DEF Inv
  <1>1. CASE UNCHANGED vars
    BY <1>1 DEF vars, planVars, execVars, Types, RequestInv, Settled, Over, FinalStatus
  <1>2. ASSUME NEW r \in Run, Alone(r), Types', RequestInv(r)'
        PROVE  Types' /\ \A q \in Run : RequestInv(q)'
    BY <1>2 DEF Alone, RequestInv, Settled, Over, FinalStatus
  <1> USE DEF Types, RequestInv, Settled, Over, FinalStatus, Alone, Rows, At, BackAt, Goto
  <1>3. ASSUME NEW r \in Run, Persist(r) PROVE Types' /\ \A q \in Run : RequestInv(q)'
    <2>1. /\ stage[r] = "new" /\ stage' = [stage EXCEPT ![r] = "insert"]
          /\ UNCHANGED <<phase, reason, breaker, current, began>> /\ lost \subseteq lost'
          /\ \/ row' = [row EXCEPT ![r] = "RUNNING"]
             \/ row' = row /\ r \in lost'
      BY <1>3 DEF Persist, Insert, execRest
    <2>2. Types'
      <3>1. row' = [q \in Run |-> row'[q]] BY <2>1
      <3> QED BY <2>1, <3>1
    <2>3. Alone(r) BY <2>1
    <2>4. RequestInv(r)'
      <3>1. phase[r] = "idle" /\ row[r] \in Rows /\ row[r] \notin {"DONE", "TERMINATED", "FAILED"}
        BY <2>1
      <3>2. /\ stage'[r] = "insert" /\ phase'[r] = "idle" /\ row'[r] \in Rows
            /\ row'[r] \notin {"DONE", "TERMINATED", "FAILED"}
            /\ r \notin lost' => row'[r] # "none"
        BY <2>1, <3>1
      <3> QED BY <3>2
    <2> QED BY <1>2, <2>2, <2>3, <2>4
  <1>4. ASSUME NEW r \in Run, SetBreaker(r) PROVE Types' /\ \A q \in Run : RequestInv(q)'
    <2>1. /\ stage[r] = "insert" /\ stage' = [stage EXCEPT ![r] = "classify"]
          /\ began' \in Seq(Run) /\ UNCHANGED <<phase, breaker, reason, row, lost>>
      BY <1>4 DEF SetBreaker, execRest
    <2>2. Types' /\ Alone(r) BY <2>1
    <2>3. RequestInv(r)' BY <2>1
    <2> QED BY <1>2, <2>2, <2>3
  <1>5. ASSUME NEW r \in Run, PoolFails(r) \/ ClassifyRaises(r) \/ HybridRaises(r)
        PROVE  Types' /\ \A q \in Run : RequestInv(q)'
    BY <1>2, <1>5 DEF PoolFails, ClassifyRaises, HybridRaises, execRest
  <1>6. ASSUME NEW r \in Run, TryHandler(r) PROVE Types' /\ \A q \in Run : RequestInv(q)'
    BY <1>2, <1>6 DEF TryHandler, execRest
  <1>7. ASSUME NEW r \in Run, InHandler(r) PROVE Types' /\ \A q \in Run : RequestInv(q)'
    BY <1>2, <1>7 DEF InHandler, execRest, planVars
  <1>8. ASSUME NEW r \in Run, RunHybrid(r) \/ PlanStrategy(r)
        PROVE  Types' /\ \A q \in Run : RequestInv(q)'
    BY <1>2, <1>8 DEF RunHybrid, PlanStrategy, GoesOn, HandlerLeft, execRest
  <1>9. ASSUME NEW r \in Run, HandlerResponds(r) PROVE Types' /\ \A q \in Run : RequestInv(q)'
    BY <1>2, <1>9 DEF HandlerResponds, execRest
  <1>10. ASSUME NEW r \in Run, Execute(r) PROVE Types' /\ \A q \in Run : RequestInv(q)'
    <2>1. /\ stage[r] \in {"classify", "strategy", "handler"} /\ phase[r] = "idle"
          /\ stage' = [stage EXCEPT ![r] = "executor"] /\ phase' = [phase EXCEPT ![r] = "head"]
          /\ breaker' = [breaker EXCEPT ![r] = current]
          /\ UNCHANGED <<reason, current, began, row, lost>>
      BY <1>10 DEF Execute, StartWith, GoOn, HandlerLeft
    <2>2. Types' BY <2>1
    <2>3. Alone(r) /\ RequestInv(r)' BY <2>1
    <2> QED BY <1>2, <2>2, <2>3
  <1>11. ASSUME NEW r \in Run, ExecutorStep(r) PROVE Types' /\ \A q \in Run : RequestInv(q)'
    <2>1. stage[r] = "executor" /\ UNCHANGED <<stage, began, row, lost>>
      BY <1>11 DEF ExecutorStep, planVars
    <2>2. LoopStep(r) BY <1>11 DEF ExecutorStep
    <2> HIDE <1>11
    <2> QED BY <1>2, <2>1, <2>2, LoopStepEffect DEF Phases
  <1>12. ASSUME NEW r \in Run, SaveProgress(r) PROVE Types' /\ \A q \in Run : RequestInv(q)'
    BY <1>2, <1>12 DEF SaveProgress, CallbackDone, GoOn, Update
  <1>13. ASSUME NEW r \in Run, WriteFinal(r) PROVE Types' /\ \A q \in Run : RequestInv(q)'
    <2>1. /\ stage[r] = "executor" /\ phase[r] = "stopped"
          /\ stage' = [stage EXCEPT ![r] = "settled"] /\ lost \subseteq lost'
          /\ UNCHANGED <<phase, breaker, reason, began>>
          /\ \/ row' = [row EXCEPT ![r] = IF @ = "none" THEN @ ELSE FinalStatus(r)]
             \/ row' = row /\ r \in lost'
      BY <1>13 DEF WriteFinal, Update, execRest
    <2>2. FinalStatus(r) \in Rows \ {"none"} /\ FinalStatus(r)' = FinalStatus(r) BY <2>1
    <2>3. Types' /\ Alone(r) BY <2>1
    <2>4. r \notin lost => row[r] # "none" BY <2>1
    <2>5. RequestInv(r)' BY <2>1, <2>2, <2>4
    <2> QED BY <1>2, <2>3, <2>5
  <1>14. ASSUME NEW r \in Run, RecordMemory(r) \/ Respond(r) \/ Reraise(r)
         PROVE  Types' /\ \A q \in Run : RequestInv(q)'
    BY <1>2, <1>14 DEF RecordMemory, Respond, Reraise, execRest
  <1> QED
    BY <1>1, <1>3, <1>4, <1>5, <1>6, <1>7, <1>8, <1>9, <1>10, <1>11, <1>12, <1>13, <1>14
    DEF Next, Request

\* Both parts together.
LEMMA Step == Inv /\ [Next]_vars => Inv'
  BY BreakerStep, RequestStep DEF Inv

\* A request runs with a breaker that was set no earlier than its own: failures of requests
\* that were over before it began do not count (planner/__init__.py:198, 315).
THEOREM BreakerIsNeverStale == Spec => []BreakerNotStale
  <1>1. Inv => BreakerNotStale BY DEF Inv, BreakerInv
  <1> QED BY <1>1, Initially, Step, PTL DEF Spec

\* The row of a request tells how its loop ended, unless a write was lost
\* (planner/__init__.py:310-360).
THEOREM RowsTellOutcomes == Spec => []RowTellsOutcome
  <1>1. Inv => RowTellsOutcome
    BY DEF Inv, RequestInv, RowTellsOutcome, Settled, Over, FinalStatus, Reasons
  <1> QED BY <1>1, Initially, Step, PTL DEF Spec

==============================================================================
