------------------------------ MODULE LlmClient ------------------------------
(***************************************************************************)
(* Calls of a model (core/llm.py, behind core/router.py): the global       *)
(* breaker is asked, the provider is tried, and a transient error is       *)
(* retried after a pause.  complete asks the breaker before every attempt  *)
(* and stream only once; what a stream hands on before it is cut off is    *)
(* handed on again by the next attempt, and left out here.                 *)
(*                                                                         *)
(* The breaker of the Rust extension (GlobalBreaker) is here a flag that   *)
(* may change at any time; asking it takes a thread, so that the answer    *)
(* may be old when it is used.                                             *)
(***************************************************************************)
EXTENDS Naturals, FiniteSets

CONSTANTS
    Caller,     \* tasks that call the model, one call at a time
    Retries,    \* the retries of a call
    MaxTrips    \* bound: how often the breaker trips

ASSUME LlmAssumption == Retries \in Nat /\ MaxTrips \in Nat

VARIABLES
    healthy,   \* what is_system_healthy answers
    llm,       \* each caller: its kind of call, where it is, and its retries left
    trips,     \* history: how often the breaker has tripped
    tries      \* history: attempts of a complete since the breaker last tripped

llmVars == <<healthy, llm, trips, tries>>

Idle == [kind |-> "none", at |-> "idle", left |-> 0]

LlmInit ==
    /\ healthy = TRUE /\ trips = 0
    /\ llm = [c \in Caller |-> Idle]
    /\ tries = [c \in Caller |-> 0]

Moves(c, from, to) ==
    /\ llm[c].at = from
    /\ llm' = [llm EXCEPT ![c].at = to]

-----------------------------------------------------------------------------
\* complete, through ModelRouter.complete, and stream: both ask the breaker first.
Call(c, kind) ==
    /\ llm[c].at = "idle"
    /\ llm' = [llm EXCEPT ![c] = [kind |-> kind, at |-> "asking", left |-> Retries]]
    /\ UNCHANGED <<healthy, trips, tries>>

\* The breaker answers; what it said may have changed by the time the call goes on.
Refused(c) ==
    /\ ~healthy /\ Moves(c, "asking", "raised")
    /\ UNCHANGED <<healthy, trips, tries>>

Allowed(c) ==
    /\ healthy /\ Moves(c, "asking", "cleared")
    /\ UNCHANGED <<healthy, trips, tries>>

Attempt(c) ==
    /\ Moves(c, "cleared", "trying")
    /\ tries' = [tries EXCEPT ![c] = IF healthy \/ llm[c].kind = "stream" THEN @ ELSE @ + 1]
    /\ UNCHANGED <<healthy, trips>>

Answered(c) ==
    /\ Moves(c, "trying", "answered")
    /\ UNCHANGED <<healthy, trips, tries>>

\* An error that is not worth a retry, or the last of those that are.
Fails(c) ==
    /\ Moves(c, "trying", "raised")
    /\ UNCHANGED <<healthy, trips, tries>>

\* A transient error.  Mutant: the recursion forgets to count.
Forgets(n)  == n
OneLess(n)  == n - 1

FailsForNow(c) ==
    /\ llm[c].at = "trying" /\ llm[c].left > 0
    /\ llm' = [llm EXCEPT ![c].at = "pausing", ![c].left = OneLess(@)]
    /\ UNCHANGED <<healthy, trips, tries>>

\* After the pause complete starts over and stream goes on in its loop.
\* Mutant: complete goes on as well.
OnlyOnce(c) == "cleared"
Again(c)    == IF llm[c].kind = "complete" THEN "asking" ELSE "cleared"

PauseEnds(c) ==
    /\ Moves(c, "pausing", Again(c))
    /\ UNCHANGED <<healthy, trips, tries>>

\* The caller has what the call gave it.
Return(c) ==
    /\ llm[c].at \in {"answered", "raised"}
    /\ llm' = [llm EXCEPT ![c] = Idle]
    /\ tries' = [tries EXCEPT ![c] = 0]
    /\ UNCHANGED <<healthy, trips>>

\* The breaker trips or heals.
Trip ==
    /\ healthy /\ trips < MaxTrips
    /\ healthy' = FALSE /\ trips' = trips + 1 /\ tries' = [c \in Caller |-> 0]
    /\ UNCHANGED llm

Heal ==
    /\ ~healthy
    /\ healthy' = TRUE /\ tries' = [c \in Caller |-> 0]
    /\ UNCHANGED <<llm, trips>>

\* What a call does by itself.
Proceeds(c) ==
    \/ Refused(c) \/ Allowed(c) \/ Attempt(c) \/ Answered(c) \/ Fails(c)
    \/ FailsForNow(c) \/ PauseEnds(c)

-----------------------------------------------------------------------------
LlmTypeOK ==
    /\ healthy \in BOOLEAN /\ trips \in 0..MaxTrips
    /\ llm \in [Caller -> [kind : {"none", "complete", "stream"}, left : 0..Retries,
                           at : {"idle", "asking", "cleared", "trying", "pausing",
                                 "answered", "raised"}]]
    /\ tries \in [Caller -> Nat]

\* While the breaker is open, a completion makes no second attempt: the retries of calls that
\* were under way when it tripped stop as well (llm.py:133, 181).
StopsWhenTripped == \A c \in Caller : tries[c] <= 1

==============================================================================
