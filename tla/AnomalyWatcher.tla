--------------------------- MODULE AnomalyWatcher ---------------------------
(***************************************************************************)
(* The watcher of anomalies (analysis/watcher.py) in the Discord bot: a    *)
(* loop asks a model about the sales, and an anomaly with a title that is  *)
(* new is written to a table, remembered, drawn and sent to a channel.     *)
(* The bot and the watcher start together, so that there may be no channel *)
(* yet; the table may be out of reach; the process may stop and start.     *)
(*                                                                         *)
(* start may be called again after stop: a loop that sleeps goes on then.  *)
(***************************************************************************)
EXTENDS Naturals, FiniteSets

CONSTANTS
    Loop,        \* calls of start in one process
    Title,       \* titles the model gives
    NoTitle,
    MaxFaults    \* bound: failures of the table, the channel and the process

ASSUME WatcherAssumption == NoTitle \notin Title /\ MaxFaults \in Nat

VARIABLES
    running,   \* _is_running
    sent,      \* _sent_alerts
    table,     \* processed_alerts
    loop,      \* each loop: what it waits for, and the title in its hands
    ready,     \* the bot has found a channel
    told,      \* history: how often a title was sent, up to 2
    excused,   \* history: titles that may be sent again
    lost,      \* history: titles whose alert got lost
    faults     \* history: faults so far

vars == <<running, sent, table, loop, ready, told, excused, lost, faults>>

Off == [at |-> "off", title |-> NoTitle]

Init ==
    /\ running = FALSE /\ sent = {} /\ table = {} /\ ready = FALSE
    /\ loop = [l \in Loop |-> Off]
    /\ told = [t \in Title |-> 0]
    /\ excused = {} /\ lost = {} /\ faults = 0

InHand(t) == {l \in Loop : loop[l].title = t}
Moves(l, from, to) == loop[l].at = from /\ loop' = [loop EXCEPT ![l].at = to]
Fault == faults < MaxFaults /\ faults' = faults + 1

-----------------------------------------------------------------------------
Start(l) ==
    /\ Moves(l, "off", "init")
    /\ running' = TRUE
    /\ UNCHANGED <<sent, table, ready, told, excused, lost, faults>>

Stop ==
    /\ running /\ running' = FALSE
    /\ UNCHANGED <<sent, table, loop, ready, told, excused, lost, faults>>

\* _init_db loads what was told before the start.  Mutant: it makes the table only.
NothingLoaded == sent
Loaded        == sent \cup table

InitDb(l) ==
    /\ Moves(l, "init", "check")
    /\ sent' = Loaded
    /\ UNCHANGED <<running, table, ready, told, excused, lost, faults>>

InitDbFails(l) ==
    /\ Moves(l, "init", "check") /\ Fault
    /\ excused' = excused \cup table
    /\ UNCHANGED <<running, sent, table, ready, told, lost>>

LoopEnds(l) ==
    /\ ~running /\ Moves(l, "check", "off")
    /\ UNCHANGED <<running, sent, table, ready, told, excused, lost, faults>>

\* The sales of two days are read.
Check(l) ==
    /\ running /\ Moves(l, "check", "sales")
    /\ UNCHANGED <<running, sent, table, ready, told, excused, lost, faults>>

NoSales(l) ==
    /\ Moves(l, "sales", "sleep")
    /\ UNCHANGED <<running, sent, table, ready, told, excused, lost, faults>>

Ask(l) ==
    /\ Moves(l, "sales", "asking")
    /\ UNCHANGED <<running, sent, table, ready, told, excused, lost, faults>>

\* No answer, no anomaly, or one that was sent before.
NothingNew(l) ==
    /\ Moves(l, "asking", "sleep")
    /\ UNCHANGED <<running, sent, table, ready, told, excused, lost, faults>>

Detect(l, t) ==
    /\ loop[l].at = "asking" /\ t \notin sent
    /\ loop' = [loop EXCEPT ![l] = [at |-> "persist", title |-> t]]
    /\ excused' = IF InHand(t) # {} THEN excused \cup {t} ELSE excused
    /\ UNCHANGED <<running, sent, table, ready, told, lost, faults>>

Persist(l) ==
    /\ Moves(l, "persist", "trend")
    /\ table' = table \cup {loop[l].title} /\ sent' = sent \cup {loop[l].title}
    /\ UNCHANGED <<running, ready, told, excused, lost, faults>>

\* The row may have been written all the same.
PersistFails(l) ==
    /\ Moves(l, "persist", "trend") /\ Fault
    /\ sent' = sent \cup {loop[l].title}
    /\ table' \in {table, table \cup {loop[l].title}}
    /\ excused' = excused \cup {loop[l].title}
    /\ UNCHANGED <<running, ready, told, lost>>

\* The sales of a week in the branch that lost most, if one did; then a chart and a forecast
\* of them.  Mutant: an alert without them is not sent.
NotSent(l) == [at |-> "sleep", title |-> NoTitle]
Undrawn(l) == [loop[l] EXCEPT !.at = "notify"]

Draw(l) ==
    /\ Moves(l, "trend", "notify")
    /\ UNCHANGED <<running, sent, table, ready, told, excused, lost, faults>>

\* No branch, no sales, or a failure.
DrawFails(l) ==
    /\ loop[l].at = "trend"
    /\ loop' = [loop EXCEPT ![l] = Undrawn(l)]
    /\ UNCHANGED <<running, sent, table, ready, told, excused, lost, faults>>

\* send_proactive_alert: it is sent, or lost without a trace.
Notify(l) ==
    /\ loop[l].at = "notify" /\ ready
    /\ loop' = [loop EXCEPT ![l] = [at |-> "sleep", title |-> NoTitle]]
    /\ told' = [told EXCEPT ![loop[l].title] = IF @ < 2 THEN @ + 1 ELSE @]
    /\ UNCHANGED <<running, sent, table, ready, excused, lost, faults>>

NotifyFails(l) ==
    /\ loop[l].at = "notify"
    /\ IF ready THEN Fault ELSE UNCHANGED faults
    /\ loop' = [loop EXCEPT ![l] = [at |-> "sleep", title |-> NoTitle]]
    /\ lost' = lost \cup {loop[l].title}
    /\ UNCHANGED <<running, sent, table, ready, told, excused>>

SleepEnds(l) ==
    /\ Moves(l, "sleep", "check")
    /\ UNCHANGED <<running, sent, table, ready, told, excused, lost, faults>>

\* The bot has logged in.
Connect ==
    /\ ~ready /\ ready' = TRUE
    /\ UNCHANGED <<running, sent, table, loop, told, excused, lost, faults>>

\* The process stops and starts again.
Crash ==
    /\ Fault
    /\ lost' = lost \cup ({loop[l].title : l \in Loop} \ {NoTitle})
    /\ loop' = [l \in Loop |-> Off]
    /\ running' = FALSE /\ sent' = {} /\ ready' = FALSE
    /\ UNCHANGED <<table, told, excused>>

Next ==
    \/ Stop \/ Connect \/ Crash
    \/ \E l \in Loop :
        \/ Start(l) \/ InitDb(l) \/ InitDbFails(l) \/ LoopEnds(l) \/ Check(l)
        \/ NoSales(l) \/ Ask(l) \/ NothingNew(l)
        \/ \E t \in Title : Detect(l, t)
        \/ Persist(l) \/ PersistFails(l) \/ Draw(l) \/ DrawFails(l)
        \/ Notify(l) \/ NotifyFails(l) \/ SleepEnds(l)

Spec == Init /\ [][Next]_vars

-----------------------------------------------------------------------------
TypeOK ==
    /\ running \in BOOLEAN /\ ready \in BOOLEAN /\ faults \in 0..MaxFaults
    /\ sent \subseteq Title /\ table \subseteq Title /\ excused \subseteq Title /\ lost \subseteq Title
    /\ loop \in [Loop -> [at : {"off", "init", "check", "sales", "asking", "persist", "trend",
                                 "notify", "sleep"}, title : Title \cup {NoTitle}]]
    /\ told \in [Title -> 0..2]

\* A title is sent once, also over restarts, unless the table was out of reach when it was
\* to be written or loaded, or two loops had it at a time (watcher.py:28, 64-67, 110-113, 182).
ToldOnce == \A t \in Title \ excused : told[t] <= 1

\* A title that is in the table was sent, is about to be, or its alert got lost on the way to
\* the channel: nothing else on the way keeps it back (watcher.py:110-171).
NothingHeldBack == \A t \in table \ lost : told[t] > 0 \/ InHand(t) # {}

==============================================================================
