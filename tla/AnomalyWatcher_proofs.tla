------------------------ MODULE AnomalyWatcher_proofs ------------------------
(***************************************************************************)
(* An alert is sent once, and kept back by nothing but its way to the      *)
(* channel, for any number of loops, titles and faults.                    *)
(*                                                                         *)
(* A loop may send a title that no other loop has in its hands and that    *)
(* was not in _sent_alerts when it asked.  That this set knows what was    *)
(* sent before a restart rests on the order in which things are done: a    *)
(* title is in the table before it is sent, and a loop reads the table     *)
(* before it asks.  Inv says so.                                           *)
(***************************************************************************)
EXTENDS AnomalyWatcher, TLAPS

Holding == {"persist", "trend", "notify"}

\* A loop has a title in its hands from the detection to the sending.
Hands == \A l \in Loop : loop[l].title # NoTitle <=> loop[l].at \in Holding

\* A title is in one pair of hands at a time, and in none once it was sent.
OneHand ==
    \A t \in Title \ excused :
        /\ told[t] <= 1
        /\ told[t] > 0 => InHand(t) = {}
        /\ \A l, m \in InHand(t) : l = m

\* What was sent, or is past the table, is in the table.
Written ==
    /\ \A t \in Title \ excused : told[t] > 0 => t \in table
    /\ \A l \in Loop : loop[l].at \in {"trend", "notify"} => loop[l].title \in table \cup excused

\* A loop that has been past _init_db knows the table.
Known == \A l \in Loop : loop[l].at \notin {"off", "init"} => table \subseteq sent \cup excused

Inv == TypeOK /\ Hands /\ OneHand /\ Written /\ Known /\ NothingHeldBack

-----------------------------------------------------------------------------
\* No loop runs and nothing was told.
LEMMA Initially == Init => Inv
  <1> SUFFICES ASSUME Init PROVE Inv OBVIOUS
  <1>1. \A l \in Loop : loop[l] = [at |-> "off", title |-> NoTitle] BY DEF Init, Off
  <1>2. \A t \in Title : told[t] = 0 /\ InHand(t) = {} BY <1>1, WatcherAssumption DEF Init, InHand
  <1>3. TypeOK
    <2>1. loop \in [Loop -> [at : {"off"}, title : {NoTitle}]] BY DEF Init, Off
    <2>2. told \in [Title -> 0..2] BY DEF Init
    <2>3. faults \in 0..MaxFaults BY WatcherAssumption DEF Init
    <2> QED BY <2>1, <2>2, <2>3 DEF Init, TypeOK
  <1>4. Hands BY <1>1 DEF Hands, Holding
  <1> QED BY <1>1, <1>2, <1>3, <1>4 DEF Init, Inv, OneHand, Written, Known, NothingHeldBack

\* What a step leaves alone of a loop that only goes to another place.
LEMMA SameTitles ==
    ASSUME TypeOK, NEW l \in Loop, NEW a, NEW b, Moves(l, a, b)
    PROVE  /\ loop[l].at = a
           /\ \A m \in Loop : loop'[m].title = loop[m].title
           /\ loop'[l].at = b
           /\ \A m \in Loop \ {l} : loop'[m] = loop[m]
           /\ \A t \in Title : InHand(t)' = InHand(t)
  BY DEF TypeOK, Moves, InHand

\* Types, which the steps from table to channel need the hands for.
LEMMA TypesKept == TypeOK /\ Hands /\ [Next]_vars => TypeOK'
  <1> SUFFICES ASSUME TypeOK, Hands, [Next]_vars PROVE TypeOK' OBVIOUS
  <1> USE WatcherAssumption DEF TypeOK
  <1>1. CASE Stop BY <1>1 DEF Stop
  <1>2. CASE Connect BY <1>2 DEF Connect
  <1>3. CASE Crash
    <2>1. loop' \in [Loop -> [at : {"off"}, title : {NoTitle}]] BY <1>3 DEF Crash, Off
    <2>2. lost' \subseteq Title BY <1>3 DEF Crash
    <2>3. faults' \in 0..MaxFaults BY <1>3 DEF Crash, Fault
    <2> QED BY <1>3, <2>1, <2>2, <2>3 DEF Crash
  <1>4. ASSUME NEW l \in Loop, Start(l) PROVE TypeOK' BY <1>4 DEF Start, Moves
  <1>5. ASSUME NEW l \in Loop, InitDb(l) PROVE TypeOK' BY <1>5 DEF InitDb, Moves, Loaded
  <1>6. ASSUME NEW l \in Loop, InitDbFails(l) PROVE TypeOK' BY <1>6 DEF InitDbFails, Moves, Fault
  <1>7. ASSUME NEW l \in Loop, LoopEnds(l) PROVE TypeOK' BY <1>7 DEF LoopEnds, Moves
  <1>8. ASSUME NEW l \in Loop, Check(l) \/ NoSales(l) \/ Ask(l) \/ NothingNew(l) PROVE TypeOK'
    BY <1>8 DEF Check, NoSales, Ask, NothingNew, Moves
  <1>9. ASSUME NEW l \in Loop, NEW t \in Title, Detect(l, t) PROVE TypeOK' BY <1>9 DEF Detect
  <1>10. ASSUME NEW l \in Loop, Persist(l) PROVE TypeOK'
    BY <1>10 DEF Persist, Moves, Hands, Holding
  <1>11. ASSUME NEW l \in Loop, PersistFails(l) PROVE TypeOK'
    BY <1>11 DEF PersistFails, Moves, Fault, Hands, Holding
  <1>12. ASSUME NEW l \in Loop, Draw(l) \/ DrawFails(l) PROVE TypeOK'
    BY <1>12 DEF Draw, DrawFails, Moves, Undrawn
  <1>13. ASSUME NEW l \in Loop, Notify(l) PROVE TypeOK' BY <1>13 DEF Notify, Hands, Holding
  <1>14. ASSUME NEW l \in Loop, NotifyFails(l) PROVE TypeOK' BY <1>14 DEF NotifyFails, Fault, Hands, Holding
  <1>15. ASSUME NEW l \in Loop, SleepEnds(l) PROVE TypeOK' BY <1>15 DEF SleepEnds, Moves
  <1>16. CASE UNCHANGED vars BY <1>16 DEF vars
  <1> QED BY <1>1, <1>2, <1>3, <1>4, <1>5, <1>6, <1>7, <1>8, <1>9, <1>10, <1>11, <1>12, <1>13,
             <1>14, <1>15, <1>16 DEF Next

\* A step that takes nothing into a loop's hands and nothing out of them.
LEMMA QuietStep ==
    ASSUME Inv, TypeOK', NEW l \in Loop, NEW a, NEW b, Moves(l, a, b),
           UNCHANGED <<table, told, lost>>, sent \subseteq sent', excused \subseteq excused',
           a \in Holding <=> b \in Holding,
           b \in {"trend", "notify"} => a \in {"trend", "notify"},
           a \in {"off", "init"} /\ b \notin {"off", "init"} => table \subseteq sent' \cup excused'
    PROVE  Inv'
  <1> USE DEF Inv
  <1>1. /\ loop[l].at = a /\ loop'[l].at = b
        /\ \A m \in Loop : loop'[m].title = loop[m].title
        /\ \A m \in Loop \ {l} : loop'[m] = loop[m]
        /\ \A t \in Title : InHand(t)' = InHand(t)
    BY SameTitles
  <1>2. Hands' BY <1>1 DEF Hands
  <1>3. OneHand' BY <1>1 DEF OneHand
  <1>4. Written' BY <1>1 DEF Written
  <1>5. Known' BY <1>1 DEF Known
  <1>6. NothingHeldBack' BY <1>1 DEF NothingHeldBack, TypeOK
  <1> QED BY <1>2, <1>3, <1>4, <1>5, <1>6

\* A loop that puts a title down: it was sent, or lost.
LEMMA PutDown ==
    ASSUME Inv, TypeOK', NEW l \in Loop, NEW t \in Title,
           loop[l] = [at |-> "notify", title |-> t],
           loop' = [loop EXCEPT ![l] = [at |-> "sleep", title |-> NoTitle]],
           UNCHANGED <<table, sent, excused>>, lost \subseteq lost',
           \/ told' = [told EXCEPT ![t] = IF @ < 2 THEN @ + 1 ELSE @]
           \/ told' = told /\ t \in lost'
    PROVE  Inv'
  <1> USE WatcherAssumption DEF Inv
  <1>1. /\ loop'[l] = [at |-> "sleep", title |-> NoTitle]
        /\ \A m \in Loop \ {l} : loop'[m] = loop[m]
    BY DEF TypeOK
  <1>2. \A u \in Title : InHand(u)' = InHand(u) \ {l} BY <1>1 DEF InHand
  <1>3. \A u \in Title \ {t} : InHand(u)' = InHand(u) /\ told'[u] = told[u]
    BY <1>2 DEF InHand, TypeOK
  <1>4. t \notin excused => InHand(t)' = {} /\ told'[t] <= 1 /\ t \in table
    <2> SUFFICES ASSUME t \notin excused PROVE InHand(t)' = {} /\ told'[t] <= 1 /\ t \in table
      OBVIOUS
    <2>1. l \in InHand(t) BY DEF InHand
    <2>2. told[t] = 0 BY <2>1 DEF OneHand, TypeOK
    <2> QED BY <1>2, <2>1, <2>2 DEF OneHand, Written, TypeOK
  <1>5. Hands' BY <1>1 DEF Hands, Holding
  <1>6. OneHand' BY <1>3, <1>4 DEF OneHand
  <1>7. Written' BY <1>1, <1>3, <1>4 DEF Written
  <1>8. Known' BY <1>1 DEF Known
  <1>9. told'[t] > 0 \/ t \in lost' BY DEF TypeOK
  <1>10. NothingHeldBack' BY <1>3, <1>9 DEF NothingHeldBack, TypeOK
  <1> QED BY <1>5, <1>6, <1>7, <1>8, <1>10

\* A loop that takes a title up: nobody has sent it, unless it is excused.
LEMMA TakenUp ==
    ASSUME Inv, TypeOK', NEW l \in Loop, NEW t \in Title, Detect(l, t)
    PROVE  Inv'
  <1> USE WatcherAssumption DEF Inv, Detect
  <1>1. /\ loop'[l] = [at |-> "persist", title |-> t]
        /\ \A m \in Loop \ {l} : loop'[m] = loop[m]
        /\ loop[l].at = "asking" /\ loop[l].title = NoTitle
    BY DEF TypeOK, Hands, Holding
  <1>2. \A u \in Title : InHand(u)' = IF u = t THEN InHand(u) \cup {l} ELSE InHand(u)
    BY <1>1 DEF InHand
  <1>3. t \notin excused' => InHand(t) = {} /\ told[t] = 0
    <2> SUFFICES ASSUME t \notin excused' PROVE InHand(t) = {} /\ told[t] = 0
      OBVIOUS
    <2>1. t \notin excused /\ InHand(t) = {} OBVIOUS
    <2>2. t \notin table BY <1>1, <2>1 DEF Known
    <2> QED BY <2>1, <2>2 DEF Written, TypeOK
  <1>4. excused \subseteq excused' OBVIOUS
  <1>5. Hands' BY <1>1 DEF Hands, Holding
  <1>6. OneHand' BY <1>2, <1>3, <1>4 DEF OneHand, TypeOK
  <1>7. Written' BY <1>1, <1>4 DEF Written
  <1>8. Known' BY <1>1, <1>4 DEF Known
  <1>9. NothingHeldBack' BY <1>2 DEF NothingHeldBack, TypeOK
  <1> QED BY <1>5, <1>6, <1>7, <1>8, <1>9

\* The title is written: to the table, or it is excused.
LEMMA WrittenDown ==
    ASSUME Inv, TypeOK', NEW l \in Loop, NEW t \in Title,
           Moves(l, "persist", "trend"), loop[l].title = t,
           sent' = sent \cup {t}, table' \in {table, table \cup {t}},
           excused' \in {excused, excused \cup {t}}, t \in table' \cup excused',
           UNCHANGED <<told, lost>>
    PROVE  Inv'
  <1> USE DEF Inv
  <1>1. /\ loop[l].at = "persist" /\ loop'[l].at = "trend"
        /\ \A m \in Loop : loop'[m].title = loop[m].title
        /\ \A m \in Loop \ {l} : loop'[m] = loop[m]
        /\ \A u \in Title : InHand(u)' = InHand(u)
    BY SameTitles
  <1>2. Hands' BY <1>1 DEF Hands, Holding
  <1>3. OneHand' BY <1>1 DEF OneHand
  <1>4. Written' BY <1>1 DEF Written
  <1>5. Known'
    <2>1. \A m \in Loop : loop'[m].at \notin {"off", "init"} => loop[m].at \notin {"off", "init"}
      BY <1>1
    <2> QED BY <2>1 DEF Known
  <1>6. NothingHeldBack'
    <2>1. l \in InHand(t)' BY <1>1 DEF InHand
    <2> QED BY <1>1, <2>1 DEF NothingHeldBack, TypeOK
  <1> QED BY <1>2, <1>3, <1>4, <1>5, <1>6

\* The process stops and starts.
LEMMA StartsAnew == ASSUME Inv, TypeOK', Crash PROVE Inv'
  <1> USE WatcherAssumption DEF Inv, Crash
  <1>1. \A l \in Loop : loop'[l] = [at |-> "off", title |-> NoTitle] BY DEF Off
  <1>2. \A t \in Title : InHand(t)' = {} BY <1>1 DEF InHand
  <1>3. Hands' BY <1>1 DEF Hands, Holding
  <1>4. OneHand' BY <1>2 DEF OneHand
  <1>5. Written' BY <1>1 DEF Written
  <1>6. Known' BY <1>1 DEF Known
  <1>7. NothingHeldBack'
    <2> SUFFICES ASSUME NEW t \in table \ lost' PROVE told[t] > 0
      BY DEF NothingHeldBack
    <2>1. InHand(t) = {} BY DEF InHand, TypeOK
    <2> QED BY <2>1 DEF NothingHeldBack
  <1> QED BY <1>3, <1>4, <1>5, <1>6, <1>7

-----------------------------------------------------------------------------
\* Every step is one of a loop, of the process or of the channel.
LEMMA Step == Inv /\ [Next]_vars => Inv'
  <1> SUFFICES ASSUME Inv, [Next]_vars PROVE Inv' OBVIOUS
  <1>0. TypeOK' BY TypesKept DEF Inv
  <1>1. CASE UNCHANGED vars \/ Stop \/ Connect
    <2>1. UNCHANGED <<loop, sent, table, told, excused, lost>> BY <1>1 DEF vars, Stop, Connect
    <2> QED BY <1>0, <2>1 DEF Inv, Hands, OneHand, Written, Known, NothingHeldBack, InHand
  <1>2. CASE Crash BY <1>0, <1>2, StartsAnew
  <1>3. ASSUME NEW l \in Loop, Start(l) PROVE Inv'
    BY <1>0, <1>3, QuietStep DEF Start, Holding
  <1>4. ASSUME NEW l \in Loop, InitDb(l) PROVE Inv'
    BY <1>0, <1>4, QuietStep DEF InitDb, Holding, Loaded
  <1>5. ASSUME NEW l \in Loop, InitDbFails(l) PROVE Inv'
    BY <1>0, <1>5, QuietStep DEF InitDbFails, Holding
  <1>6. ASSUME NEW l \in Loop, LoopEnds(l) \/ Check(l) PROVE Inv'
    BY <1>0, <1>6, QuietStep DEF LoopEnds, Check, Holding
  <1>7. ASSUME NEW l \in Loop, NoSales(l) \/ Ask(l) \/ NothingNew(l) \/ SleepEnds(l) PROVE Inv'
    BY <1>0, <1>7, QuietStep DEF NoSales, Ask, NothingNew, SleepEnds, Holding
  <1>8. ASSUME NEW l \in Loop, NEW t \in Title, Detect(l, t) PROVE Inv'
    BY <1>0, <1>8, TakenUp
  <1>9. ASSUME NEW l \in Loop, Persist(l) \/ PersistFails(l) PROVE Inv'
    <2>1. PICK t \in Title : loop[l].title = t
      BY <1>9 DEF Inv, Hands, Holding, TypeOK, Persist, PersistFails, Moves
    <2> QED BY <1>0, <1>9, <2>1, WrittenDown DEF Persist, PersistFails
  <1>10. ASSUME NEW l \in Loop, Draw(l) \/ DrawFails(l) PROVE Inv'
    <2>1. Moves(l, "trend", "notify") BY <1>10 DEF Draw, DrawFails, Undrawn, Moves
    <2> QED BY <1>0, <1>10, <2>1, QuietStep DEF Draw, DrawFails, Holding
  <1>11. ASSUME NEW l \in Loop, Notify(l) \/ NotifyFails(l) PROVE Inv'
    <2>1. PICK t \in Title : loop[l] = [at |-> "notify", title |-> t]
      BY <1>11 DEF Inv, Hands, Holding, TypeOK, Notify, NotifyFails
    <2> QED BY <1>0, <1>11, <2>1, PutDown DEF Notify, NotifyFails
  <1> QED BY <1>1, <1>2, <1>3, <1>4, <1>5, <1>6, <1>7, <1>8, <1>9, <1>10, <1>11 DEF Next

\* The invariant of every behaviour, on which both results rest.
LEMMA Invariant == Spec => []Inv
  BY Initially, Step, PTL DEF Spec

\* A title is sent once, over any number of restarts and failures, unless the table was out
\* of reach for it or two loops had it at a time (watcher.py:64-67, 110-113).
THEOREM AlertsAreToldOnce == Spec => []ToldOnce
  <1>1. Inv => ToldOnce BY DEF Inv, OneHand, ToldOnce
  <1> QED BY <1>1, Invariant, PTL

\* A title in the table was sent, is in the hands of a loop, or was lost on its way to the
\* channel; no other failure keeps it back (watcher.py:110-171).
THEOREM NoAlertIsHeldBack == Spec => []NothingHeldBack
  <1>1. Inv => NothingHeldBack BY DEF Inv
  <1> QED BY <1>1, Invariant, PTL

==============================================================================
