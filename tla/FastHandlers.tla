----------------------------- MODULE FastHandlers -----------------------------
(***************************************************************************)
(* The fast handlers of planner/fast_path.py and planner/handlers: an      *)
(* analyst (PolarsHandler) that queries data, draws and reports; a story   *)
(* (StoryHandler) that has the analyst do one analysis after another and   *)
(* tells of them; an extractor of entities (EntityHandler).  Whatever goes *)
(* wrong in a handler, it declines and the request takes another route;    *)
(* an analysis that fails is left out of the story.                        *)
(*                                                                         *)
(* A step goes from one await to the next, on the event loop of            *)
(* ReActExecutor.                                                          *)
(***************************************************************************)
EXTENDS ReActExecutor

CONSTANT MaxAnalyses   \* bound: the analyses that the LLM plans for a story

ASSUME AnalysesAssumption == MaxAnalyses \in Nat

VARIABLE fast   \* each request: its handler, what it awaits, the analyses left of its story

NoHandler == [by |-> "none", awaits |-> "none", left |-> 0]

FastInit == fast = [r \in Run |-> NoHandler]

Analyst   == {"schema", "sql", "rows", "chart", "report"}
Extractor == {"entities", "search", "summary"}

HandlerYields(r, next) == fast' = [fast EXCEPT ![r] = next] /\ holder' = NoRun
Awaits(r, here)        == fast[r].awaits = here /\ MayAct(r)
Onwards(r, next)       == [fast[r] EXCEPT !.awaits = next]

-----------------------------------------------------------------------------
\* try_route, for the intents that have a handler.
Route(r) ==
    \E first \in {[by |-> "polars", awaits |-> "schema", left |-> 0],
                  [by |-> "story", awaits |-> "board", left |-> 0],
                  [by |-> "entity", awaits |-> "entities", left |-> 0]} :
        HandlerYields(r, first)

\* The analyst has the schema and the files; asks for a query and runs it.
Analyse(r) ==
    \E move \in {<<"schema", "sql">>, <<"sql", "rows">>} :
        /\ Awaits(r, move[1])
        /\ HandlerYields(r, Onwards(r, move[2]))

\* It draws the rows if there is something to draw: without two columns it reports at once.
Draw(r) ==
    \E move \in {<<"rows", "chart">>, <<"rows", "report">>, <<"chart", "report">>} :
        /\ Awaits(r, move[1])
        /\ HandlerYields(r, Onwards(r, move[2]))

\* After an analysis a story goes on with the next, or is told.
\* Mutant: an analysis that failed is done once more.
Tried(r, gave)   == IF gave THEN fast[r].left - 1 ELSE fast[r].left
LeftFor(r, gave) == fast[r].left - 1

AfterAnalysis(r, gave) ==
    IF fast[r].by = "story"
    THEN [fast[r] EXCEPT !.left = LeftFor(r, gave),
                         !.awaits = IF LeftFor(r, gave) = 0 THEN "narration" ELSE "schema"]
    ELSE Onwards(r, IF gave THEN "answered" ELSE "declined")

Report(r) == Awaits(r, "report") /\ HandlerYields(r, AfterAnalysis(r, TRUE))

\* No query, no rows, or an exception.
AnalysisFails(r) ==
    \E a \in Analyst : Awaits(r, a) /\ HandlerYields(r, AfterAnalysis(r, FALSE))

\* An analysis of the plan is not a record: the story is over between two analyses.
BadStep(r) ==
    /\ fast[r].by = "story" /\ fast[r].left > 1
    /\ \E a \in Analyst : Awaits(r, a) /\ HandlerYields(r, Onwards(r, "declined"))

\* The plan of a story; a plan of no analyses is told at once.
Board(r) ==
    /\ Awaits(r, "board")
    /\ \E n \in 0..MaxAnalyses :
        HandlerYields(r, [fast[r] EXCEPT !.left = n,
                                         !.awaits = IF n = 0 THEN "narration" ELSE "schema"])

Narrate(r) == Awaits(r, "narration") /\ HandlerYields(r, Onwards(r, "answered"))

\* The extractor looks all the entities up at a time and sums up what it found.
ExtractEntities(r) ==
    \E move \in {<<"entities", "search">>, <<"search", "summary">>, <<"summary", "answered">>} :
        /\ Awaits(r, move[1])
        /\ HandlerYields(r, Onwards(r, move[2]))

\* An exception, or a story without a plan.
HandlerFails(r) ==
    \E a \in Extractor \cup {"board", "narration"} :
        Awaits(r, a) /\ HandlerYields(r, Onwards(r, "declined"))

HandlerStep(r) ==
    \/ Analyse(r) \/ Draw(r) \/ Report(r) \/ AnalysisFails(r) \/ BadStep(r)
    \/ Board(r) \/ Narrate(r) \/ ExtractEntities(r) \/ HandlerFails(r)

\* What the planner finds; the handler is done with the request.
Leaves(r)   == fast' = [fast EXCEPT ![r] = NoHandler]
Answered(r) == Awaits(r, "answered") /\ Leaves(r)
Declined(r) == Awaits(r, "declined") /\ Leaves(r)

FastTypeOK ==
    fast \in [Run -> [by : {"none", "polars", "story", "entity"}, left : 0..MaxAnalyses,
                      awaits : {"none", "board", "narration", "answered", "declined"}
                                   \cup Analyst \cup Extractor]]

==============================================================================
