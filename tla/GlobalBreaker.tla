----------------------------- MODULE GlobalBreaker -----------------------------
(***************************************************************************)
(* The process-wide circuit breaker (crates/seahorse-ffi/src/              *)
(* circuit_breaker.rs): one atomic word that packs the time of the last    *)
(* failure and a count of failures.  Python calls record_global_failure    *)
(* and is_system_healthy from worker threads, so that the loads and swaps  *)
(* of several calls interleave.                                            *)
(*                                                                         *)
(* clock is the wall clock in seconds, which is not adjusted.  The time    *)
(* fits its 32 bits of the word (until the year 2106).  A swap that fails  *)
(* spuriously loads the word again and is a stutter here.                  *)
(***************************************************************************)
EXTENDS Naturals

CONSTANTS
    Thread,      \* worker threads
    Threshold,   \* FAIL_THRESHOLD
    Window,      \* TIME_WINDOW_SEC
    MaxCount,    \* the largest count, 2^32 - 1
    MaxClock,    \* bound: the last second
    MaxBurst     \* bound: no call begins once so many failures came in a row

ASSUME ThresholdAssumption == Threshold \in Nat \ {0} /\ Window \in Nat
ASSUME CountAssumption     == MaxCount \in Nat /\ Threshold <= MaxCount
ASSUME BoundsAssumption    == MaxClock \in Nat /\ MaxBurst \in Nat

VARIABLES
    clock,
    word,       \* GLOBAL_STATE: [last, count]
    pc,         \* where each thread is
    now,        \* its now
    seen,       \* its current
    verdict,    \* the result of its last health check
    burst,      \* history: failures recorded, none more than Window after all before
    newest,     \* history: the newest stamp among them
    late,       \* history: one of them came after a newer one
    landed      \* history: the second of the last record

history == <<burst, newest, late, landed>>
vars == <<clock, word, pc, now, seen, verdict, history>>

-----------------------------------------------------------------------------
Clear == [last |-> 0, count |-> 0]

\* The clock begins past the window, as the time since 1970 does.
Init ==
    /\ clock = Window + 1
    /\ word = Clear
    /\ pc = [t \in Thread |-> "idle"]
    /\ now = [t \in Thread |-> 0]
    /\ seen = [t \in Thread |-> Clear]
    /\ verdict = [t \in Thread |-> "none"]
    /\ burst = 0
    /\ newest = 0
    /\ late = FALSE
    /\ landed = 0

\* saturating_sub and saturating_add.
Minus(a, b) == IF a > b THEN a - b ELSE 0
Succ(n)     == IF n < MaxCount THEN n + 1 ELSE n

Tick ==
    /\ clock < MaxClock
    /\ clock' = clock + 1
    /\ UNCHANGED <<word, pc, now, seen, verdict, history>>

\* A call begins by reading the clock, once.
Begin(t, at) ==
    /\ pc[t] = "idle" /\ burst < MaxBurst
    /\ now' = [now EXCEPT ![t] = clock]
    /\ pc' = [pc EXCEPT ![t] = at]
    /\ verdict' = [verdict EXCEPT ![t] = "none"]
    /\ UNCHANGED <<clock, word, seen, history>>

-----------------------------------------------------------------------------
\* record_global_failure: the word is loaded, and swapped for the next one until
\* the swap finds the word that the thread has seen.
BeginRecord(t) == Begin(t, "load")

Load(t) ==
    /\ pc[t] = "load"
    /\ seen' = [seen EXCEPT ![t] = word]
    /\ pc' = [pc EXCEPT ![t] = "swap"]
    /\ UNCHANGED <<clock, word, now, verdict, history>>

Expired(t, w) == Minus(now[t], w.last) > Window

\* Mutant: the word is stored without a comparison.
NextCount(t, w) == IF Expired(t, w) THEN 1 ELSE Succ(w.count)

Whatever(t)  == TRUE
Unchanged(t) == seen[t] = word

\* What the record of a failure stamped at adds to the history, whatever the word holds.
CountFailure(at) ==
    /\ IF Minus(at, newest) > Window
         THEN burst' = 1 /\ newest' = at /\ late' = FALSE
         ELSE /\ burst' = burst + 1
              /\ newest' = IF at > newest THEN at ELSE newest
              /\ late' = (late \/ at < newest)
    /\ landed' = clock

\* A burst is over when a health check comes Window after its newest failure.  A
\* word that is cleared earlier leaves the history as it is.
EndBurst(at) ==
    /\ IF Minus(at, newest) >= Window
         THEN burst' = 0 /\ newest' = 0 /\ late' = FALSE
         ELSE UNCHANGED <<burst, newest, late>>
    /\ UNCHANGED landed

Swap(t) ==
    /\ pc[t] = "swap" /\ Unchanged(t)
    /\ word' = [last |-> now[t], count |-> NextCount(t, seen[t])]
    /\ CountFailure(now[t])
    /\ pc' = [pc EXCEPT ![t] = "idle"]
    /\ UNCHANGED <<clock, now, seen, verdict>>

SwapFails(t) ==
    /\ pc[t] = "swap" /\ seen[t] # word
    /\ seen' = [seen EXCEPT ![t] = word]
    /\ UNCHANGED <<clock, word, pc, now, verdict, history>>

-----------------------------------------------------------------------------
\* is_system_healthy: a word with few failures is healthy, a recent one with many
\* is not, and an old one is reset, unless it has changed since.  Mutant: the
\* window is a second longer.
BeginCheck(t) == Begin(t, "check")

LongRecent(t, w) == Minus(now[t], w.last) <= Window
Recent(t, w)     == Minus(now[t], w.last) < Window

Many(w) == w.count >= Threshold

Check(t) ==
    /\ pc[t] = "check"
    /\ seen' = [seen EXCEPT ![t] = word]
    /\ IF Many(word) /\ ~Recent(t, word)
         THEN pc' = [pc EXCEPT ![t] = "reset"] /\ UNCHANGED verdict
         ELSE /\ pc' = [pc EXCEPT ![t] = "idle"]
              /\ verdict' = [verdict EXCEPT ![t] = IF Many(word) THEN "tripped" ELSE "healthy"]
    /\ UNCHANGED <<clock, word, now, history>>

Reset(t) ==
    /\ pc[t] = "reset"
    /\ pc' = [pc EXCEPT ![t] = "idle"]
    /\ verdict' = [verdict EXCEPT ![t] = "healthy"]
    /\ IF word = seen[t] THEN word' = Clear /\ EndBurst(now[t]) ELSE UNCHANGED <<word, history>>
    /\ UNCHANGED <<clock, now, seen>>

-----------------------------------------------------------------------------
Step(t) == \/ BeginRecord(t) \/ Load(t) \/ Swap(t) \/ SwapFails(t)
           \/ BeginCheck(t) \/ Check(t) \/ Reset(t)

Next == Tick \/ \E t \in Thread : Step(t)
Spec == Init /\ [][Next]_vars

-----------------------------------------------------------------------------
(***************************************************************************)
(* Properties.                                                             *)
(***************************************************************************)
Word == [last : Nat, count : 0 .. MaxCount]

\* The types of the variables.
TypeOK ==
    /\ clock \in Nat
    /\ word \in Word
    /\ pc \in [Thread -> {"idle", "load", "swap", "check", "reset"}]
    /\ now \in [Thread -> Nat]
    /\ seen \in [Thread -> Word]
    /\ verdict \in [Thread -> {"none", "healthy", "tripped"}]
    /\ burst \in Nat
    /\ newest \in Nat
    /\ late \in BOOLEAN
    /\ landed \in Nat

\* No failure is ever counted twice or outlives its burst, whichever threads race.
\* None is lost either, up to the largest number that the word holds, as long as the
\* failures of the burst land in the order of their stamps: a late one takes the
\* time of the word back, and from then on the word may start again (:38) or be
\* cleared (:63) while the burst goes on.
CountIsBurst ==
    /\ word.count <= burst
    /\ ~late => word.count = IF burst < MaxCount THEN burst ELSE MaxCount

\* A health check that refuses the call has seen a burst of Threshold failures.
TrippedIsReal ==
    [][\A t \in Thread : verdict[t] = "none" /\ verdict'[t] = "tripped" =>
          burst >= Threshold]_vars

\* After Window seconds without a failure a health check never refuses a call.
QuietHeals ==
    \A t \in Thread : verdict[t] = "tripped" => now[t] < landed + Window

==============================================================================
