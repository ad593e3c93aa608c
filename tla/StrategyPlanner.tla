--------------------------- MODULE StrategyPlanner ---------------------------
(***************************************************************************)
(* Plans and their cache (planner/strategy.py) over the calls of the model *)
(* (LlmClient).  Several plans are made at a time on one event loop: the   *)
(* cache is looked at and cleaned before the model is awaited, and filled  *)
(* afterwards.                                                             *)
(***************************************************************************)
EXTENDS LlmClient

CONSTANTS
    Reader,          \* the callers that call stream as well
    Prompt, KeyOf,   \* prompts; the key of each: its first 200 characters
    Ttl, MaxCache,   \* how long and how many plans are kept
    MaxTime,         \* bound of the clock
    MaxInvalid,      \* bound: invalidations
    NoKey

ASSUME StrategyAssumption == Reader \subseteq Caller /\ Ttl \in Nat
ASSUME CacheAssumption == MaxCache \in Nat \ {0} /\ IsFiniteSet(Caller)

VARIABLES
    time,      \* the monotonic clock
    cache,     \* _cache: key -> when the plan kept for it was made
    plan,      \* each caller: the key it makes a plan for
    invalid    \* history: how often plans were invalidated

planVars == <<time, cache, plan, invalid>>
strategyVars == <<llmVars, planVars>>

Key == {KeyOf[p] : p \in Prompt}

StrategyInit ==
    /\ LlmInit
    /\ time = 0 /\ cache = <<>>
    /\ plan = [c \in Caller |-> NoKey]
    /\ invalid = 0

Without(k) == [j \in DOMAIN cache \ {k} |-> cache[j]]

-----------------------------------------------------------------------------
\* A plan in the cache that is young enough is the answer.
FreshFor(p) == KeyOf[p] \in DOMAIN cache /\ time - cache[KeyOf[p]] < Ttl

\* An old one is dropped; the oldest one of a full cache goes.
\* Mutant: the cache counts as full one plan later.
OverFull(c) == Cardinality(DOMAIN c) > MaxCache
Full(c)     == Cardinality(DOMAIN c) >= MaxCache

Oldest(c) == CHOOSE k \in DOMAIN c : \A j \in DOMAIN c : c[k] <= c[j]

Cleaned(p) ==
    LET c == Without(KeyOf[p]) IN
    IF Full(c) THEN [j \in DOMAIN c \ {Oldest(c)} |-> c[j]] ELSE c

\* plan: a miss asks the model; a hit ends at once and changes nothing.
BeginPlan(c, p) ==
    /\ plan[c] = NoKey /\ ~FreshFor(p)
    /\ cache' = Cleaned(p)
    /\ plan' = [plan EXCEPT ![c] = KeyOf[p]]
    /\ Call(c, "complete")
    /\ UNCHANGED <<time, invalid>>

\* The model has answered, or it failed and the plan is the default one: it is cached.
EndPlan(c) ==
    /\ plan[c] # NoKey /\ Return(c)
    /\ cache' = [j \in DOMAIN cache \cup {plan[c]} |->
                   IF j = plan[c] THEN time ELSE cache[j]]
    /\ plan' = [plan EXCEPT ![c] = NoKey]
    /\ UNCHANGED <<time, invalid>>

\* invalidate drops the plan of one key.
Invalidate(p) ==
    /\ invalid < MaxInvalid /\ invalid' = invalid + 1
    /\ cache' = Without(KeyOf[p])
    /\ UNCHANGED <<llmVars, time, plan>>

TimePasses == time < MaxTime /\ time' = time + 1 /\ UNCHANGED <<llmVars, cache, plan, invalid>>

\* A caller of stream, and the end of it.
BeginStream(c) == c \in Reader /\ plan[c] = NoKey /\ Call(c, "stream") /\ UNCHANGED planVars
EndStream(c)   == plan[c] = NoKey /\ Return(c) /\ UNCHANGED planVars

StrategyNext ==
    \/ \E c \in Caller :
        \/ BeginStream(c) \/ EndStream(c) \/ EndPlan(c)
        \/ \E p \in Prompt : BeginPlan(c, p)
        \/ Proceeds(c) /\ UNCHANGED planVars
    \/ (Trip \/ Heal) /\ UNCHANGED planVars
    \/ TimePasses \/ \E p \in Prompt : Invalidate(p)

\* The provider answers in time, one way or the other, and the loop is fair.
StrategySpec ==
    /\ StrategyInit /\ [][StrategyNext]_strategyVars
    /\ \A c \in Caller : /\ WF_strategyVars(EndPlan(c))
                         /\ WF_strategyVars(Proceeds(c) /\ UNCHANGED planVars)

-----------------------------------------------------------------------------
StrategyTypeOK ==
    /\ LlmTypeOK
    /\ time \in 0..MaxTime /\ DOMAIN cache \subseteq Key
    /\ \A k \in DOMAIN cache : cache[k] <= time
    /\ \A c \in Caller : plan[c] \in Key \cup {NoKey}

\* The cache is cleaned before the wait and filled after it: plans under way at the same time
\* may each add one, but it never outgrows MaxCache by more (strategy.py:61-68).
CacheBounded == Cardinality(DOMAIN cache) < MaxCache + Cardinality(Caller)

\* Whatever the model does, every call of plan gets a plan (strategy.py:99-106).
PlansAreGiven == \A c \in Caller : plan[c] # NoKey ~> plan[c] = NoKey

==============================================================================
