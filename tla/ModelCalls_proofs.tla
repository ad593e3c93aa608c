------------------------- MODULE ModelCalls_proofs -------------------------
(***************************************************************************)
(* What guards the calls of the models: the global breaker of the core,    *)
(* the retries of the client, and the cache of plans.                      *)
(*                                                                         *)
(* The breaker counts right for every number of threads, threshold, window *)
(* and width of the count.  The invariant that carries its proofs adds to  *)
(* the properties where the stamps lie: no thread and no record is ahead   *)
(* of the clock, the word's time is at most that of the record that landed *)
(* last and at most the newest of its burst, which it is unless a late     *)
(* record came, and a thread about to clear the word has found it old.     *)
(* The history is counted apart from the word, so the two are compared.    *)
(*                                                                         *)
(* Retries stop with the breaker, and the cache outgrows its limit by the  *)
(* plans under way at most, for any callers, prompts, number of retries    *)
(* and times.                                                              *)
(***************************************************************************)
EXTENDS GlobalBreaker, StrategyPlanner, FiniteSetTheorems, WellFoundedInduction, TLAPS

-----------------------------------------------------------------------------
(* The global breaker                                                      *)

Stamps ==
    /\ landed <= clock
    /\ word.last <= landed
    /\ \A t \in Thread : now[t] <= clock

Newest ==
    /\ word.last <= newest
    /\ ~late => word.last = newest
    /\ \A t \in Thread : pc[t] = "reset" => Minus(now[t], seen[t].last) >= Window

IInv == TypeOK /\ Stamps /\ Newest /\ CountIsBurst /\ QuietHeals

\* The arithmetic of the count stays in the width of the word.
LEMMA SuccInWord == ASSUME NEW n \in 0 .. MaxCount PROVE Succ(n) \in 0 .. MaxCount
  BY CountAssumption DEF Succ

\* A time that is Window after the newest stamp is Window after every older one.
LEMMA MinusFalls ==
    ASSUME NEW a \in Nat, NEW b \in Nat, NEW c \in Nat, b <= c PROVE Minus(a, c) <= Minus(a, b)
  BY DEF Minus

\* The initial state.
LEMMA InitInv == Init => IInv
<1> SUFFICES ASSUME Init PROVE IInv
  OBVIOUS
<1>1. TypeOK
  <2>1. late \in BOOLEAN
    BY Zenon DEF Init
  <2> QED
    BY <2>1, ThresholdAssumption, CountAssumption DEF Init, TypeOK, Word, Clear
<1>2. Stamps /\ Newest /\ CountIsBurst /\ QuietHeals
  BY ThresholdAssumption, CountAssumption
  DEF Init, Stamps, Newest, CountIsBurst, QuietHeals, Clear
<1> QED
  BY <1>1, <1>2 DEF IInv

\* Every step keeps the types.
LEMMA NextType == TypeOK /\ [Next]_vars => TypeOK'
<1> SUFFICES ASSUME TypeOK, [Next]_vars PROVE TypeOK'
  OBVIOUS
<1> USE DEF TypeOK, Word, history
<1>1. CASE Tick
  BY <1>1 DEF Tick
<1>2. ASSUME NEW t \in Thread, NEW at \in {"load", "check"}, Begin(t, at) PROVE TypeOK'
  BY <1>2 DEF Begin
<1>3. ASSUME NEW t \in Thread, Load(t) \/ SwapFails(t) PROVE TypeOK'
  BY <1>3 DEF Load, SwapFails
<1>4. ASSUME NEW t \in Thread, Swap(t) PROVE TypeOK'
  <2>1. Succ(seen[t].count) \in 0 .. MaxCount
    BY SuccInWord
  <2>2. NextCount(t, seen[t]) \in 0 .. MaxCount
    BY <2>1, ThresholdAssumption, CountAssumption DEF NextCount
  <2>3. burst' \in Nat /\ newest' \in Nat /\ landed' \in Nat
    BY <1>4 DEF Swap, CountFailure
  <2>4. late' \in BOOLEAN
    BY <1>4, Zenon DEF Swap, CountFailure
  <2> QED
    BY <1>4, <2>2, <2>3, <2>4 DEF Swap
<1>5. ASSUME NEW t \in Thread, Check(t) PROVE TypeOK'
  BY <1>5 DEF Check
<1>6. ASSUME NEW t \in Thread, Reset(t) PROVE TypeOK'
  <2>1. burst' \in Nat /\ newest' \in Nat /\ landed' \in Nat
    BY <1>6 DEF Reset, EndBurst
  <2>2. late' \in BOOLEAN
    BY <1>6, Zenon DEF Reset, EndBurst
  <2> QED
    BY <1>6, <2>1, <2>2, CountAssumption DEF Reset, Clear
<1>7. CASE UNCHANGED vars
  BY <1>7 DEF vars
<1> QED
  BY <1>1, <1>2, <1>3, <1>4, <1>5, <1>6, <1>7 DEF Next, Step, BeginRecord, BeginCheck

\* A record keeps the count right: the word and the history start again together
\* while no record is late, and the word not later than the history in any case.
LEMMA SwapCounts ==
    ASSUME IInv, NEW t \in Thread, Swap(t)
    PROVE  CountIsBurst' /\ word'.last <= newest' /\ (~late' => word'.last = newest')
<1> USE DEF IInv, TypeOK, Word
<1>1. /\ seen[t] = word /\ word' = [last |-> now[t], count |-> NextCount(t, word)]
      /\ CountFailure(now[t])
  BY DEF Swap, Unchanged
<1>2. Minus(now[t], newest) <= Minus(now[t], word.last)
  BY MinusFalls DEF Newest
<1>3. Minus(now[t], newest) \in Nat /\ Minus(now[t], word.last) \in Nat /\ Window \in Nat
  BY ThresholdAssumption DEF Minus
<1>4. CASE Minus(now[t], newest) > Window
  <2>1. NextCount(t, word) = 1
    BY <1>2, <1>3, <1>4 DEF NextCount, Expired
  <2>2. burst' = 1 /\ newest' = now[t] /\ word'.count = 1 /\ word'.last = now[t]
    BY <1>1, <1>4, <2>1 DEF CountFailure
  <2> QED
    BY <2>2, ThresholdAssumption, CountAssumption DEF CountIsBurst
<1>5. CASE ~(Minus(now[t], newest) > Window)
  <2>1. burst' = burst + 1 /\ newest' = IF now[t] > newest THEN now[t] ELSE newest
    BY <1>1, <1>5 DEF CountFailure
  <2>2. ~late' => ~late /\ ~(now[t] < newest)
    BY <1>1, <1>5, Zenon DEF CountFailure
  <2>3. word'.last = now[t] /\ word'.count = NextCount(t, word)
    BY <1>1
  <2>4. word'.last <= newest' /\ (~late' => word'.last = newest')
    BY <2>1, <2>3, <2>2
  <2>5. NextCount(t, word) <= word.count + 1
    BY CountAssumption DEF NextCount, Succ
  <2>6. word'.count <= burst'
    BY <2>1, <2>3, <2>5, ThresholdAssumption, CountAssumption DEF CountIsBurst, NextCount, Succ
  <2>7. ASSUME ~late PROVE word'.count = IF burst' < MaxCount THEN burst' ELSE MaxCount
    <3>1. ~Expired(t, word)
      BY <1>5, <2>7 DEF Newest, Expired
    <3> QED
      BY <2>1, <2>3, <2>7, <3>1, CountAssumption DEF NextCount, Succ, CountIsBurst
  <2> QED
    BY <2>1, <2>4, <2>6, <2>7, <2>2 DEF CountIsBurst
<1> QED
  BY <1>4, <1>5

\* A word is cleared after the burst is over, unless a late record came.
LEMMA ResetCounts ==
    ASSUME IInv, NEW t \in Thread, Reset(t)
    PROVE  CountIsBurst' /\ word'.last <= newest' /\ (~late' => word'.last = newest')
<1> USE DEF IInv, TypeOK, Word
<1>1. CASE word = seen[t]
  <2>1. word'.last = 0 /\ word'.count = 0 /\ EndBurst(now[t])
    BY <1>1 DEF Reset, Clear
  <2>2. CASE Minus(now[t], newest) >= Window
    BY <2>1, <2>2, CountAssumption DEF EndBurst, CountIsBurst
  <2>3. CASE ~(Minus(now[t], newest) >= Window)
    <3>1. late
      BY <1>1, <2>3 DEF Newest, Reset
    <3> QED
      BY <2>1, <2>3, <3>1 DEF EndBurst, CountIsBurst
  <2> QED
    BY <2>2, <2>3
<1>2. CASE word # seen[t]
  BY <1>2 DEF Reset, history, Newest, CountIsBurst
<1> QED
  BY <1>1, <1>2

\* Every step keeps the stamps, the count and the verdicts right.
LEMMA NextInv == IInv /\ [Next]_vars => IInv'
<1> SUFFICES ASSUME IInv, [Next]_vars PROVE IInv'
  OBVIOUS
<1>0. TypeOK'
  BY NextType DEF IInv
<1> SUFFICES Stamps' /\ Newest' /\ CountIsBurst' /\ QuietHeals'
  BY <1>0 DEF IInv
<1> USE DEF IInv, TypeOK, Word, history
<1>1. CASE Tick
  BY <1>1 DEF Tick, Stamps, Newest, CountIsBurst, QuietHeals
<1>2. ASSUME NEW t \in Thread, NEW at \in {"load", "check"}, Begin(t, at)
      PROVE Stamps' /\ Newest' /\ CountIsBurst' /\ QuietHeals'
  <2>1. Stamps' /\ CountIsBurst'
    BY <1>2 DEF Begin, Stamps, CountIsBurst
  <2>2. ASSUME NEW u \in Thread, pc'[u] = "reset" PROVE pc[u] = "reset" /\ now'[u] = now[u]
    BY <1>2, <2>2 DEF Begin
  <2>3. Newest'
    BY <1>2, <2>2 DEF Begin, Newest
  <2>4. ASSUME NEW u \in Thread, verdict'[u] = "tripped" PROVE verdict[u] = "tripped" /\ now'[u] = now[u]
    BY <1>2, <2>4 DEF Begin
  <2>5. QuietHeals'
    BY <1>2, <2>4 DEF Begin, QuietHeals
  <2> QED
    BY <2>1, <2>3, <2>5
<1>3. ASSUME NEW t \in Thread, Load(t) \/ SwapFails(t)
      PROVE Stamps' /\ Newest' /\ CountIsBurst' /\ QuietHeals'
  <2>1. ASSUME NEW u \in Thread, pc'[u] = "reset" PROVE pc[u] = "reset" /\ seen'[u] = seen[u]
    BY <1>3, <2>1 DEF Load, SwapFails
  <2>2. Newest'
    BY <1>3, <2>1 DEF Load, SwapFails, Newest
  <2> QED
    BY <1>3, <2>2 DEF Load, SwapFails, Stamps, CountIsBurst, QuietHeals
<1>4. ASSUME NEW t \in Thread, Swap(t) PROVE Stamps' /\ Newest' /\ CountIsBurst' /\ QuietHeals'
  <2>1. Stamps'
    BY <1>4 DEF Swap, CountFailure, Stamps
  <2>2. ASSUME NEW u \in Thread, pc'[u] = "reset" PROVE pc[u] = "reset"
    BY <1>4, <2>2 DEF Swap
  <2>3. Newest' /\ CountIsBurst'
    BY <1>4, <2>2, SwapCounts DEF Swap, Newest
  <2>4. QuietHeals'
    BY <1>4, ThresholdAssumption DEF Swap, CountFailure, Stamps, QuietHeals
  <2> QED
    BY <2>1, <2>3, <2>4
<1>5. ASSUME NEW t \in Thread, Check(t) PROVE Stamps' /\ Newest' /\ CountIsBurst' /\ QuietHeals'
  <2>1. Stamps' /\ CountIsBurst'
    BY <1>5 DEF Check, Stamps, CountIsBurst
  <2>2. Recent(t, word) => now[t] < landed + Window
    BY ThresholdAssumption DEF Recent, Minus, Stamps
  <2>3. QuietHeals'
    BY <1>5, <2>2 DEF Check, QuietHeals
  <2>4. Newest'
    <3>1. ASSUME NEW u \in Thread, pc'[u] = "reset" PROVE Minus(now'[u], seen'[u].last) >= Window
      <4>1. CASE u = t
        BY <1>5, <3>1, <4>1, ThresholdAssumption DEF Check, Recent, Minus
      <4>2. CASE u # t
        BY <1>5, <3>1, <4>2 DEF Check, Newest
      <4> QED
        BY <4>1, <4>2
    <3> QED
      BY <1>5, <3>1 DEF Check, Newest
  <2> QED
    BY <2>1, <2>3, <2>4
<1>6. ASSUME NEW t \in Thread, Reset(t) PROVE Stamps' /\ Newest' /\ CountIsBurst' /\ QuietHeals'
  <2>1. Stamps' /\ QuietHeals'
    BY <1>6, ThresholdAssumption DEF Reset, EndBurst, Clear, Stamps, QuietHeals
  <2>2. ASSUME NEW u \in Thread, pc'[u] = "reset" PROVE pc[u] = "reset"
    BY <1>6, <2>2 DEF Reset
  <2>3. Newest' /\ CountIsBurst'
    BY <1>6, <2>2, ResetCounts DEF Reset, Newest
  <2> QED
    BY <2>1, <2>3
<1>7. CASE UNCHANGED vars
  BY <1>7 DEF vars, Stamps, Newest, CountIsBurst, QuietHeals
<1> QED
  BY <1>1, <1>2, <1>3, <1>4, <1>5, <1>6, <1>7 DEF Next, Step, BeginRecord, BeginCheck

\* The invariant holds throughout.
LEMMA Invariant == Spec => []IInv
  BY InitInv, NextInv, PTL DEF Spec

\* The types of the variables (the word never leaves its width).
THEOREM TypeCorrect == Spec => []TypeOK
<1>1. IInv => TypeOK
  BY DEF IInv
<1> QED
  BY <1>1, Invariant, PTL

\* record_global_failure never counts a failure twice, and neither it nor the reset
\* of is_system_healthy loses one as long as the burst's records land in the order of
\* their stamps: for any number of threads the count is then the length of a burst
\* that is counted without the word, and at most that length otherwise.
THEOREM CountsTheBurst == Spec => []CountIsBurst
<1>1. IInv => CountIsBurst
  BY DEF IInv
<1> QED
  BY <1>1, Invariant, PTL

\* is_system_healthy never refuses a call that comes Window seconds or more after
\* the last failure.
THEOREM QuietAlwaysHeals == Spec => []QuietHeals
<1>1. IInv => QuietHeals
  BY DEF IInv
<1> QED
  BY <1>1, Invariant, PTL

\* A refusal is always backed by a burst of Threshold failures.
THEOREM TripsOnlyOnBursts == Spec => TrippedIsReal
<1> DEFINE Backed == \A t \in Thread : verdict[t] = "none" /\ verdict'[t] = "tripped" =>
                        burst >= Threshold
<1>1. IInv /\ IInv' /\ [Next]_vars => [Backed]_vars
  <2> SUFFICES ASSUME IInv, Next, NEW s \in Thread, verdict[s] = "none", verdict'[s] = "tripped"
               PROVE burst >= Threshold
    OBVIOUS
  <2> USE DEF IInv, TypeOK, Word
  <2>1. Check(s)
    BY DEF Next, Step, Tick, BeginRecord, BeginCheck, Begin, Load, Swap, SwapFails, Check, Reset
  <2>2. Many(word)
    BY <2>1 DEF Check
  <2> QED
    BY <2>2, ThresholdAssumption, CountAssumption DEF Many, CountIsBurst
<1> QED
  BY <1>1, Invariant, PTL DEF Spec, TrippedIsReal

-----------------------------------------------------------------------------
(* Retries                                                                 *)

\* A completion that was tried since the breaker tripped does not hold an answer of the
\* breaker any more that lets it go on.
Spent(c) == ~healthy /\ llm[c].kind = "complete" /\ llm[c].at \notin {"idle", "cleared"}

LlmInv ==
    /\ llm \in [Caller -> [kind : {"none", "complete", "stream"}, left : Int,
                           at : {"idle", "asking", "cleared", "trying", "pausing",
                                 "answered", "raised"}]]
    /\ tries \in [Caller -> 0..1]
    /\ \A c \in Caller : llm[c].at # "idle" => llm[c].kind # "none"
    /\ \A c \in Caller : tries[c] = 1 => Spent(c)

\* No call is under way.
LEMMA LlmInitially == StrategyInit => LlmInv
  BY LlmAssumption DEF StrategyInit, LlmInit, LlmInv, Idle, Spent

\* An attempt follows a question to the breaker, and each open breaker asks anew.
LEMMA LlmStep == LlmInv /\ [StrategyNext]_strategyVars => LlmInv'
  <1> SUFFICES ASSUME LlmInv, [StrategyNext]_strategyVars PROVE LlmInv' OBVIOUS
  <1> USE LlmAssumption DEF LlmInv, Spent
  <1>1. ASSUME NEW c \in Caller, NEW k \in {"complete", "stream"}, Call(c, k) PROVE LlmInv'
    BY <1>1 DEF Call
  <1>2. ASSUME NEW c \in Caller, Return(c) PROVE LlmInv'
    BY <1>2 DEF Return, Idle
  <1>3. ASSUME NEW c \in Caller, Refused(c) \/ Allowed(c) \/ Answered(c) \/ Fails(c) PROVE LlmInv'
    BY <1>3 DEF Refused, Allowed, Answered, Fails, Moves
  <1>4. ASSUME NEW c \in Caller, Attempt(c) PROVE LlmInv'
    <2>1. llm[c].at = "cleared" /\ tries[c] = 0 /\ llm[c].kind # "none"
      BY <1>4 DEF Attempt, Moves
    <2>2. /\ llm' = [llm EXCEPT ![c].at = "trying"] /\ healthy' = healthy
          /\ tries' = [tries EXCEPT ![c] = IF healthy \/ llm[c].kind = "stream" THEN 0 ELSE 1]
      BY <1>4, <2>1 DEF Attempt, Moves
    <2>3. tries' \in [Caller -> 0..1] BY <2>2
    <2>4. \A d \in Caller : d # c => llm'[d] = llm[d] /\ tries'[d] = tries[d] BY <2>2
    <2>5. llm'[c] = [llm[c] EXCEPT !.at = "trying"] BY <2>2
    <2>6. tries'[c] = 1 => ~healthy /\ llm[c].kind = "complete" BY <2>1, <2>2
    <2> QED BY <2>1, <2>2, <2>3, <2>4, <2>5, <2>6
  <1>5. ASSUME NEW c \in Caller, FailsForNow(c) PROVE LlmInv'
    BY <1>5 DEF FailsForNow, OneLess
  <1>6. ASSUME NEW c \in Caller, PauseEnds(c) PROVE LlmInv'
    BY <1>6 DEF PauseEnds, Again, Moves
  <1>7. CASE Trip \/ Heal BY <1>7 DEF Trip, Heal
  <1>8. CASE UNCHANGED llmVars BY <1>8 DEF llmVars
  <1>9. CASE StrategyNext
    BY <1>1, <1>2, <1>3, <1>4, <1>5, <1>6, <1>7, <1>8, <1>9
    DEF StrategyNext, BeginStream, EndStream, EndPlan, BeginPlan, Proceeds, TimePasses, Invalidate
  <1> QED BY <1>8, <1>9 DEF strategyVars

\* While the breaker is open no completion is tried a second time, whatever it was doing when
\* the breaker tripped (llm.py:133, 181).
THEOREM RetriesStopWhenTripped == StrategySpec => []StopsWhenTripped
  <1>1. LlmInv => StopsWhenTripped BY DEF LlmInv, StopsWhenTripped
  <1> QED BY <1>1, LlmInitially, LlmStep, PTL DEF StrategySpec

-----------------------------------------------------------------------------
(* The cache                                                               *)

Busy == {c \in Caller : plan[c] # NoKey}

\* The room that a plan under way may still take is counted as taken.
CacheInv ==
    /\ time \in Nat
    /\ plan = [c \in Caller |-> plan[c]]
    /\ IsFiniteSet(DOMAIN cache) /\ \A k \in DOMAIN cache : cache[k] \in Nat
    /\ Cardinality(DOMAIN cache) + Cardinality(Busy) < MaxCache + Cardinality(Caller)

\* A cache with entries has an oldest one.
LEMMA OldestIsOne ==
  ASSUME NEW c, DOMAIN c # {}, \A k \in DOMAIN c : c[k] \in Nat
  PROVE  Oldest(c) \in DOMAIN c
  <1> DEFINE T == {c[k] : k \in DOMAIN c}
  <1>1. T \subseteq Nat /\ T # {} OBVIOUS
  <1>2. PICK t \in T : \A u \in T : ~(<<u, t>> \in OpToRel(<, Nat))
    BY <1>1, WFMin, NatLessThanWellFounded, Zenon
  <1>3. \A u \in T : ~(u < t)
    <2> TAKE u \in T
    <2>1. <<u, t>> \in Nat \X Nat BY <1>1
    <2> QED BY <1>2, <2>1 DEF OpToRel
  <1>4. \A u \in T : t <= u BY <1>1, <1>3
  <1>5. PICK k \in DOMAIN c : c[k] = t OBVIOUS
  <1>6. \A j \in DOMAIN c : c[k] <= c[j] BY <1>4, <1>5
  <1> QED BY <1>6 DEF Oldest

\* Any set of callers is counted by at most the number of callers.
LEMMA CallersCount ==
  \A S \in SUBSET Caller :
     IsFiniteSet(S) /\ Cardinality(S) \in Nat /\ Cardinality(S) <= Cardinality(Caller)
                   /\ Cardinality(Caller) \in Nat
  BY CacheAssumption, FS_Subset, FS_CardinalityType

\* Taking entries away keeps what is left as it was.
LEMMA FewerEntries ==
  ASSUME CacheInv, NEW D \in SUBSET DOMAIN cache
  PROVE  /\ IsFiniteSet(D) /\ Cardinality(D) \in Nat
         /\ Cardinality(D) <= Cardinality(DOMAIN cache)
         /\ Cardinality(DOMAIN cache) \in Nat
         /\ \A k \in D : cache[k] \in Nat
  BY FS_Subset, FS_CardinalityType DEF CacheInv

\* Cleaning makes room: for one more plan, or for one entry more than there was room for.
LEMMA CleaningMakesRoom ==
  ASSUME CacheInv, NEW p \in Prompt
  PROVE  /\ IsFiniteSet(DOMAIN Cleaned(p)) /\ Cardinality(DOMAIN Cleaned(p)) \in Nat
         /\ \A k \in DOMAIN Cleaned(p) : Cleaned(p)[k] \in Nat
         /\ \/ Cardinality(DOMAIN Cleaned(p)) < MaxCache
            \/ Cardinality(DOMAIN Cleaned(p)) < Cardinality(DOMAIN cache)
  <1> DEFINE c == Without(KeyOf[p])
  <1>1. /\ DOMAIN c \subseteq DOMAIN cache
        /\ \A k \in DOMAIN c : c[k] = cache[k]
    BY DEF Without
  <1>2. /\ IsFiniteSet(DOMAIN c) /\ Cardinality(DOMAIN c) \in Nat
        /\ Cardinality(DOMAIN c) <= Cardinality(DOMAIN cache)
        /\ Cardinality(DOMAIN cache) \in Nat
        /\ \A k \in DOMAIN c : c[k] \in Nat
    BY <1>1, FewerEntries
  <1> HIDE DEF c
  <1>3. CASE ~Full(c)
    <2>1. Cleaned(p) = c BY <1>3 DEF Cleaned, c
    <2>2. Cardinality(DOMAIN c) < MaxCache BY <1>2, <1>3, CacheAssumption DEF Full
    <2> QED BY <1>2, <2>1, <2>2
  <1>4. CASE Full(c)
    <2>1. DOMAIN c # {} BY <1>2, <1>4, CacheAssumption, FS_EmptySet DEF Full
    <2>2. Oldest(c) \in DOMAIN c BY <1>2, <2>1, OldestIsOne
    <2>3. Cleaned(p) = [j \in DOMAIN c \ {Oldest(c)} |-> c[j]] BY <1>4 DEF Cleaned, c
    <2>4. /\ IsFiniteSet(DOMAIN c \ {Oldest(c)})
          /\ Cardinality(DOMAIN c \ {Oldest(c)}) = Cardinality(DOMAIN c) - 1
      BY <1>2, <2>2, FS_RemoveElement
    <2>5. Cardinality(DOMAIN c \ {Oldest(c)}) \in Nat BY <2>4, FS_CardinalityType
    <2> QED BY <1>2, <2>3, <2>4, <2>5
  <1> QED BY <1>3, <1>4

\* The cache is empty.
LEMMA CacheInitially == StrategyInit => CacheInv
  <1> SUFFICES ASSUME StrategyInit PROVE CacheInv OBVIOUS
  <1>1. DOMAIN cache = {} BY DEF StrategyInit
  <1>2. Busy = {} BY DEF StrategyInit, Busy
  <1>3. IsFiniteSet({}) /\ Cardinality({}) = 0 BY FS_EmptySet
  <1>4. Cardinality(Caller) \in Nat BY CallersCount
  <1> QED BY <1>1, <1>2, <1>3, <1>4, CacheAssumption DEF StrategyInit, CacheInv

\* An entry is made after a cleaning, by a plan that was counted.
LEMMA CacheStep == CacheInv /\ [StrategyNext]_strategyVars => CacheInv'
  <1> SUFFICES ASSUME CacheInv, [StrategyNext]_strategyVars PROVE CacheInv' OBVIOUS
  <1> USE CacheAssumption
  <1>0. /\ Cardinality(DOMAIN cache) \in Nat /\ Cardinality(Caller) \in Nat
        /\ IsFiniteSet(Busy) /\ Cardinality(Busy) \in Nat
    BY CallersCount, FewerEntries DEF Busy
  <1>1. ASSUME NEW c \in Caller, NEW p \in Prompt, BeginPlan(c, p) PROVE CacheInv'
    <2>1. /\ plan[c] = NoKey /\ cache' = Cleaned(p) /\ time' = time
          /\ plan' = [plan EXCEPT ![c] = KeyOf[p]]
      BY <1>1 DEF BeginPlan
    <2>2. plan' = [d \in Caller |-> plan'[d]] BY <2>1 DEF CacheInv
    <2>3. Busy' \subseteq Busy \cup {c} /\ c \notin Busy /\ Busy' \subseteq Caller
      BY <2>1 DEF Busy, CacheInv
    <2>4. /\ IsFiniteSet(Busy \cup {c}) /\ Cardinality(Busy \cup {c}) = Cardinality(Busy) + 1
      BY <1>0, <2>3, FS_AddElement
    <2>5. /\ Cardinality(Busy') \in Nat /\ Cardinality(Busy') <= Cardinality(Busy) + 1
          /\ Cardinality(Busy') <= Cardinality(Caller)
      BY <2>3, <2>4, FS_Subset, CallersCount
    <2>6. /\ IsFiniteSet(DOMAIN cache') /\ Cardinality(DOMAIN cache') \in Nat
          /\ \A k \in DOMAIN cache' : cache'[k] \in Nat
          /\ \/ Cardinality(DOMAIN cache') < MaxCache
             \/ Cardinality(DOMAIN cache') < Cardinality(DOMAIN cache)
      BY <2>1, CleaningMakesRoom
    <2>7. Cardinality(DOMAIN cache') + Cardinality(Busy') < MaxCache + Cardinality(Caller)
      BY <1>0, <2>5, <2>6 DEF CacheInv
    <2> QED BY <2>1, <2>2, <2>6, <2>7 DEF CacheInv
  <1>2. ASSUME NEW c \in Caller, EndPlan(c) PROVE CacheInv'
    <2>1. /\ plan[c] # NoKey /\ time' = time
          /\ DOMAIN cache' = DOMAIN cache \cup {plan[c]}
          /\ \A k \in DOMAIN cache' : cache'[k] = IF k = plan[c] THEN time ELSE cache[k]
          /\ plan' = [plan EXCEPT ![c] = NoKey]
      BY <1>2 DEF EndPlan
    <2>2. plan' = [d \in Caller |-> plan'[d]] BY <2>1 DEF CacheInv
    <2>3. Busy' = Busy \ {c} /\ c \in Busy BY <2>1 DEF Busy, CacheInv
    <2>4. Cardinality(Busy') = Cardinality(Busy) - 1 BY <1>0, <2>3, FS_RemoveElement
    <2>5. /\ IsFiniteSet(DOMAIN cache') /\ Cardinality(DOMAIN cache') \in Nat
          /\ Cardinality(DOMAIN cache') <= Cardinality(DOMAIN cache) + 1
      <3> DEFINE D == DOMAIN cache
      <3>1. IsFiniteSet(D) /\ Cardinality(D) \in Nat BY <1>0 DEF CacheInv
      <3> HIDE DEF D
      <3>2. /\ IsFiniteSet(D \cup {plan[c]})
            /\ Cardinality(D \cup {plan[c]}) \in {Cardinality(D), Cardinality(D) + 1}
        BY <3>1, FS_AddElement
      <3>3. DOMAIN cache' = D \cup {plan[c]} BY <2>1 DEF D
      <3>4. /\ Cardinality(DOMAIN cache') \in Nat
            /\ Cardinality(DOMAIN cache') <= Cardinality(D) + 1
        BY <3>1, <3>2, <3>3
      <3> QED BY <3>2, <3>3, <3>4 DEF D
    <2>6. \A k \in DOMAIN cache' : cache'[k] \in Nat BY <2>1 DEF CacheInv
    <2>7. Cardinality(DOMAIN cache') + Cardinality(Busy') < MaxCache + Cardinality(Caller)
      BY <1>0, <2>4, <2>5 DEF CacheInv
    <2> QED BY <2>1, <2>2, <2>5, <2>6, <2>7 DEF CacheInv
  <1>3. ASSUME NEW p \in Prompt, Invalidate(p) PROVE CacheInv'
    <2>1. /\ DOMAIN cache' \subseteq DOMAIN cache
          /\ \A k \in DOMAIN cache' : cache'[k] = cache[k]
          /\ time' = time /\ plan' = plan
      BY <1>3 DEF Invalidate, Without
    <2>2. /\ IsFiniteSet(DOMAIN cache') /\ Cardinality(DOMAIN cache') \in Nat
          /\ Cardinality(DOMAIN cache') <= Cardinality(DOMAIN cache)
          /\ \A k \in DOMAIN cache' : cache[k] \in Nat
      BY <2>1, FewerEntries
    <2>3. Busy' = Busy BY <2>1 DEF Busy
    <2>4. Cardinality(DOMAIN cache') + Cardinality(Busy') < MaxCache + Cardinality(Caller)
      BY <1>0, <2>2, <2>3 DEF CacheInv
    <2> QED BY <2>1, <2>2, <2>4 DEF CacheInv
  <1>4. CASE /\ cache' = cache /\ plan' = plan /\ time' \in {time, time + 1}
    BY <1>4 DEF CacheInv, Busy
  <1>5. CASE StrategyNext
    BY <1>1, <1>2, <1>3, <1>4, <1>5
    DEF StrategyNext, BeginStream, EndStream, TimePasses, planVars
  <1> QED BY <1>4, <1>5 DEF strategyVars, planVars

\* However many plans are made at a time, the cache outgrows its limit by less than one entry
\* per caller: what a plan adds after its wait it has room for before (strategy.py:61-68).
THEOREM CacheStaysBounded == StrategySpec => []CacheBounded
  <1>1. ASSUME CacheInv PROVE CacheBounded
    <2>1. Cardinality(Busy) \in Nat /\ Cardinality(Caller) \in Nat
      BY CallersCount DEF Busy
    <2>2. Cardinality(DOMAIN cache) \in Nat BY <1>1, FewerEntries
    <2> QED BY <1>1, <2>1, <2>2, CacheAssumption DEF CacheInv, CacheBounded
  <1> QED BY <1>1, CacheInitially, CacheStep, PTL DEF StrategySpec

==============================================================================
