----------------------------- MODULE Swarm_proofs -----------------------------
(***************************************************************************)
(* Whatever a swarm's runs do to their listeners, a listener hears what is *)
(* sent in order and misses only what was displaced, for any messages,     *)
(* listeners, runs and capacity; and there is one channel for all.         *)
(***************************************************************************)
EXTENDS Swarm, TLAPS

\* Everybody who has a channel has the one in the table.
ChannelInv ==
    /\ caller \in [Caller -> {"new", "lookup", "insert", "ready", "sent", "dropped"}]
    /\ topic \in 0 .. 1
    /\ handle \in [Caller -> 0 .. 1]
    /\ \A x \in Caller : handle[x] # 0 => topic # 0
    /\ \A x \in Caller : caller[x] = "ready" => handle[x] # 0

RxTypes ==
    /\ log \in [Channels -> Seq(Message)]
    /\ pos \in [Listener -> Nat]
    /\ inbox \in [Listener -> Seq(Nat)]
    /\ missed \in [Listener -> SUBSET Nat]

Subscribing(l) == caller[l] \in {"lookup", "insert"} \/ (caller[l] = "ready" /\ pos[l] = 0)

\* What a listener has heard and missed since it subscribed is what was sent since then, up
\* to its position; before that it has heard nothing.
Heard(l) ==
    /\ pos[l] <= End(l) + 1
    /\ \A i \in 1 .. Len(inbox[l]) - 1 : inbox[l][i] < inbox[l][i + 1]
    /\ \A i \in missed[l] : i + Capacity <= End(l)
    /\ \E first \in 1 .. pos[l] : ToSet(inbox[l]) \cup missed[l] = first .. pos[l] - 1

ListenerInv(l) ==
    /\ pos[l] # 0 => caller[l] = "ready" /\ Heard(l)
    /\ Subscribing(l) => inbox[l] = <<>> /\ missed[l] = {}

BusInv == ChannelInv /\ RxTypes /\ \A l \in Listener : ListenerInv(l)

-----------------------------------------------------------------------------
\* A longer sequence of numbers: its set, and that it still grows.
LEMMA AppendedGrows ==
  ASSUME NEW s \in Seq(Nat), NEW e \in Nat,
         \A i \in 1 .. Len(s) - 1 : s[i] < s[i + 1],
         \A n \in ToSet(s) : n < e
  PROVE  /\ Append(s, e) \in Seq(Nat)
         /\ ToSet(Append(s, e)) = ToSet(s) \cup {e}
         /\ \A i \in 1 .. Len(Append(s, e)) - 1 : Append(s, e)[i] < Append(s, e)[i + 1]
  <1> DEFINE t == Append(s, e)
  <1>1. /\ t \in Seq(Nat) /\ Len(t) = Len(s) + 1 /\ DOMAIN t = 1 .. Len(s) + 1
        /\ DOMAIN s = 1 .. Len(s) /\ Len(s) \in Nat
        /\ \A i \in 1 .. Len(s) : t[i] = s[i]
        /\ t[Len(s) + 1] = e
    OBVIOUS
  <1> HIDE DEF t
  <1>2. ToSet(t) = ToSet(s) \cup {e}
    <2>1. ASSUME NEW n \in ToSet(t) PROVE n \in ToSet(s) \cup {e}
      <3>1. PICK i \in DOMAIN t : n = t[i] BY <2>1 DEF ToSet
      <3>2. CASE i = Len(s) + 1 BY <3>1, <3>2, <1>1
      <3>3. CASE i # Len(s) + 1
        <4>1. i \in 1 .. Len(s) /\ t[i] = s[i] BY <3>1, <3>3, <1>1
        <4> QED BY <3>1, <4>1, <1>1 DEF ToSet
      <3> QED BY <3>2, <3>3
    <2>2. ASSUME NEW n \in ToSet(s) PROVE n \in ToSet(t)
      <3>1. PICK i \in 1 .. Len(s) : n = s[i] BY <2>2, <1>1 DEF ToSet
      <3> QED BY <3>1, <1>1 DEF ToSet
    <2>3. e \in ToSet(t) BY <1>1 DEF ToSet
    <2> QED BY <2>1, <2>2, <2>3
  <1>3. ASSUME NEW i \in 1 .. Len(t) - 1 PROVE t[i] < t[i + 1]
    <2>0. i \in Nat /\ 1 <= i /\ i <= Len(s)
      <3>1. Len(t) - 1 = Len(s) BY <1>1
      <3> QED BY <3>1, <1>1
    <2>1. CASE i = Len(s)
      <3>1. i \in 1 .. Len(s) /\ t[i] = s[i] /\ t[i + 1] = e BY <2>0, <2>1, <1>1
      <3>2. s[i] \in ToSet(s) BY <3>1, <1>1 DEF ToSet
      <3> QED BY <3>1, <3>2
    <2>2. CASE i # Len(s)
      <3>0. Len(s) \in Nat BY <1>1
      <3>1. i \in 1 .. Len(s) - 1 BY <2>0, <2>2, <3>0
      <3>2. i \in 1 .. Len(s) /\ i + 1 \in 1 .. Len(s) BY <3>1, <1>1
      <3>3. t[i] = s[i] /\ t[i + 1] = s[i + 1] BY <3>2, <1>1
      <3> QED BY <3>1, <3>3
    <2> QED BY <2>1, <2>2
  <1> QED BY <1>1, <1>2, <1>3 DEF t

\* A listener that a step does not touch has heard the same, also when more is sent.
LEMMA Untouched ==
  ASSUME BusInv, RxTypes', ChannelInv', NEW l \in Listener,
         caller'[l] = caller[l], pos'[l] = pos[l], inbox'[l] = inbox[l], missed'[l] = missed[l],
         pos[l] # 0 => End(l)' >= End(l)
  PROVE  ListenerInv(l)'
  <1>1. Subscribing(l)' <=> Subscribing(l) BY DEF Subscribing
  <1>2. ASSUME pos[l] # 0 PROVE caller'[l] = "ready" /\ Heard(l)'
    <2>1. caller[l] = "ready" /\ Heard(l) BY <1>2 DEF BusInv, ListenerInv
    <2>2. l \in Caller BY DEF Caller
    <2>3. handle[l] \in Channels /\ handle'[l] \in Channels
      BY <2>1, <2>2 DEF BusInv, ChannelInv, Channels
    <2>4. End(l) \in Nat /\ End(l)' \in Nat /\ End(l)' >= End(l) /\ pos[l] \in Nat
          /\ missed[l] \subseteq Nat
      BY <1>2, <2>3 DEF BusInv, RxTypes, End
    <2>5. pos'[l] <= End(l)' + 1 BY <2>1, <2>4 DEF Heard
    <2>6. \A i \in missed'[l] : i + Capacity <= End(l)'
      BY <2>1, <2>4, CapacityAssumption DEF Heard
    <2>7. /\ \A i \in 1 .. Len(inbox'[l]) - 1 : inbox'[l][i] < inbox'[l][i + 1]
          /\ \E first \in 1 .. pos'[l] : ToSet(inbox'[l]) \cup missed'[l] = first .. pos'[l] - 1
      BY <2>1 DEF Heard
    <2> QED BY <2>1, <2>5, <2>6, <2>7 DEF Heard
  <1> QED BY <1>1, <1>2 DEF BusInv, ListenerInv

-----------------------------------------------------------------------------
\* No topic, no listener, no message.
LEMMA Initially == SwarmInit => BusInv
  <1> SUFFICES ASSUME SwarmInit PROVE BusInv OBVIOUS
  <1> USE DEF SwarmInit, Init
  <1>1. ChannelInv BY DEF ChannelInv
  <1>2. RxTypes BY DEF RxTypes
  <1>3. \A l \in Listener : ListenerInv(l) BY DEF ListenerInv, Subscribing, Caller
  <1> QED BY <1>1, <1>2, <1>3 DEF BusInv

\* The look at the table and the entry into it.
LEMMA TopicStep ==
  ASSUME BusInv, NEW x \in Caller, Lookup(x) \/ Insert(x)
  PROVE  BusInv'
  <1>1. /\ caller[x] \in {"lookup", "insert"}
        /\ caller' \in {[caller EXCEPT ![x] = "insert"], [caller EXCEPT ![x] = "ready"]}
        /\ UNCHANGED <<log, pos, inbox, missed>>
    BY DEF Lookup, Insert, At, Goto, rxVars
  <1>2. ChannelInv' /\ \A y \in Caller : y # x => handle'[y] = handle[y]
    <2>1. CASE Lookup(x) BY <2>1 DEF BusInv, ChannelInv, Lookup, At, Goto
    <2>2. CASE Insert(x) BY <2>2 DEF BusInv, ChannelInv, Insert, Entry, At, Goto
    <2> QED BY <2>1, <2>2
  <1>3. RxTypes' BY <1>1 DEF BusInv, RxTypes
  <1>4. ASSUME NEW l \in Listener PROVE ListenerInv(l)'
    <2>1. l \in Caller BY DEF Caller
    <2>2. CASE l = x
      <3>1. pos[l] = 0 /\ Subscribing(l) BY <1>1, <2>2 DEF BusInv, ListenerInv, Subscribing
      <3>2. inbox[l] = <<>> /\ missed[l] = {} BY <3>1 DEF BusInv, ListenerInv
      <3> QED BY <1>1, <3>1, <3>2 DEF ListenerInv
    <2>3. CASE l # x
      <3>1. caller'[l] = caller[l] BY <1>1, <2>1, <2>3 DEF BusInv, ChannelInv
      <3>2. handle'[l] = handle[l] BY <1>2, <2>1, <2>3
      <3>3. pos[l] # 0 => End(l)' = End(l) /\ End(l) \in Nat
        <4>1. pos[l] # 0 => handle[l] \in Channels
          BY <2>1 DEF BusInv, ListenerInv, ChannelInv, Channels
        <4> QED BY <1>1, <3>2, <4>1 DEF End, BusInv, RxTypes
      <3>4. pos[l] # 0 => End(l)' >= End(l) BY <3>3
      <3> QED BY <1>1, <1>2, <1>3, <3>1, <3>4, Untouched
    <2> QED BY <2>2, <2>3
  <1> QED BY <1>2, <1>3, <1>4 DEF BusInv

\* The steps of a publish.
LEMMA PublishStep ==
  ASSUME BusInv, NEW m \in Message, Persist(m) \/ Send(m)
  PROVE  BusInv'
  <1>1. /\ UNCHANGED <<topic, handle, pos, inbox, missed>>
        /\ caller' = [caller EXCEPT ![m] = caller'[m]]
        /\ caller'[m] \in {"lookup", "sent", "dropped"}
    BY DEF Persist, Send, Goto, rxVars, BusInv, ChannelInv, Caller
  <1>2. m \in Caller /\ m \notin Listener BY DistinctAssumption DEF Caller
  <1>3. ChannelInv' BY <1>1, <1>2 DEF BusInv, ChannelInv
  <1>4. \/ log' = log
        \/ handle[m] \in Channels /\ log' = [log EXCEPT ![handle[m]] = Append(@, m)]
    BY <1>2 DEF Persist, Send, At, BusInv, ChannelInv, Channels
  <1>5. RxTypes' /\ \A h \in Channels : Len(log[h]) \in Nat /\ Len(log'[h]) >= Len(log[h])
    <2>1. CASE log' = log BY <1>1, <2>1 DEF BusInv, RxTypes
    <2>2. CASE handle[m] \in Channels /\ log' = [log EXCEPT ![handle[m]] = Append(@, m)]
      BY <1>1, <2>2 DEF BusInv, RxTypes
    <2> QED BY <1>4, <2>1, <2>2
  <1>6. ASSUME NEW l \in Listener PROVE ListenerInv(l)'
    <2>1. l \in Caller /\ l # m BY <1>2 DEF Caller
    <2>2. caller'[l] = caller[l] BY <1>1, <2>1 DEF BusInv, ChannelInv
    <2>3. pos[l] # 0 => handle[l] \in Channels
      BY <2>1 DEF BusInv, ListenerInv, ChannelInv, Channels
    <2>4. pos[l] # 0 => End(l)' >= End(l) BY <1>1, <1>5, <2>3 DEF End
    <2> QED BY <1>1, <1>3, <1>5, <2>2, <2>4, Untouched
  <1> QED BY <1>3, <1>5, <1>6 DEF BusInv

\* A listener that comes or goes.
LEMMA JoinStep ==
  ASSUME BusInv, NEW l \in Listener, Listen(l) \/ Subscribe(l) \/ Leave(l)
  PROVE  BusInv'
  <1>1. l \in Caller BY DEF Caller
  <1>2. ChannelInv'
    BY <1>1 DEF BusInv, ChannelInv, Listen, Subscribe, Leave, At, Goto, busVars
  <1>3. RxTypes'
    <2>1. CASE Listen(l) BY <2>1 DEF BusInv, RxTypes, Listen
    <2>2. CASE Leave(l) BY <2>2 DEF BusInv, RxTypes, Leave
    <2>3. CASE Subscribe(l)
      <3>1. handle[l] \in Channels
        BY <1>1, <2>3 DEF Subscribe, At, BusInv, ChannelInv, Channels
      <3>2. Len(log[handle[l]]) + 1 \in Nat BY <3>1 DEF BusInv, RxTypes
      <3> QED BY <2>3, <3>2 DEF BusInv, RxTypes, Subscribe
    <2> QED BY <2>1, <2>2, <2>3
  <1>4. ListenerInv(l)'
    <2>1. CASE Listen(l)
      <3>1. pos[l] = 0 BY <2>1 DEF BusInv, ListenerInv, Listen, At
      <3>2. pos'[l] = 0 /\ inbox'[l] = <<>> /\ missed'[l] = {}
        BY <2>1, <3>1 DEF Listen, BusInv, RxTypes
      <3> QED BY <3>2 DEF ListenerInv
    <2>2. CASE Leave(l)
      <3>1. pos'[l] = 0 /\ caller'[l] = "new"
        BY <1>1, <2>2 DEF Leave, Goto, BusInv, RxTypes, ChannelInv
      <3> QED BY <3>1 DEF ListenerInv, Subscribing
    <2>3. CASE Subscribe(l)
      <3>1. inbox[l] = <<>> /\ missed[l] = {} /\ handle[l] \in Channels
        BY <1>1, <2>3
        DEF Subscribe, At, BusInv, ListenerInv, Subscribing, ChannelInv, Channels
      <3>2. End(l) \in Nat BY <3>1 DEF End, BusInv, RxTypes
      <3>3. /\ pos'[l] = End(l) + 1 /\ End(l)' = End(l) /\ caller'[l] = "ready"
            /\ inbox'[l] = <<>> /\ missed'[l] = {}
        BY <2>3, <3>1 DEF Subscribe, End, At, busVars, BusInv, RxTypes
      <3>4. ToSet(<<>>) = {} BY DEF ToSet
      <3>5. \E first \in 1 .. pos'[l] : ToSet(inbox'[l]) \cup missed'[l] = first .. pos'[l] - 1
        <4>1. End(l) + 1 \in 1 .. pos'[l] /\ (End(l) + 1) .. (pos'[l] - 1) = {}
          BY <3>2, <3>3
        <4> QED BY <3>3, <3>4, <4>1
      <3>6. Heard(l)' BY <3>2, <3>3, <3>5 DEF Heard
      <3> QED BY <3>2, <3>3, <3>6 DEF ListenerInv, Subscribing
    <2> QED BY <2>1, <2>2, <2>3
  <1>5. ASSUME NEW k \in Listener, k # l PROVE ListenerInv(k)'
    <2>1. /\ caller'[k] = caller[k] /\ pos'[k] = pos[k] /\ inbox'[k] = inbox[k]
          /\ missed'[k] = missed[k] /\ log' = log /\ handle' = handle
      BY <1>5 DEF Listen, Subscribe, Leave, Goto, BusInv, RxTypes, ChannelInv, Caller,
                  busVars, rxVars
    <2>2. k \in Caller BY DEF Caller
    <2>3. pos[k] # 0 => handle[k] \in Channels
      BY <2>2 DEF BusInv, ListenerInv, ChannelInv, Channels
    <2>4. pos[k] # 0 => End(k)' >= End(k) BY <2>1, <2>3 DEF End, BusInv, RxTypes
    <2> QED BY <1>2, <1>3, <2>1, <2>4, Untouched
  <1> QED BY <1>2, <1>3, <1>4, <1>5 DEF BusInv

\* A poll: the next message, or the move past those that are displaced.
LEMMA PollStep ==
  ASSUME BusInv, NEW l \in Listener, TakeNext(l) \/ Skip(l)
  PROVE  BusInv'
  <1>1. pos[l] # 0 /\ UNCHANGED <<caller, topic, handle, log>>
    BY DEF TakeNext, Skip, busVars
  <1>2. ChannelInv' BY <1>1 DEF BusInv, ChannelInv
  <1>3. caller[l] = "ready" /\ Heard(l) /\ l \in Caller
    BY <1>1 DEF BusInv, ListenerInv, Caller
  <1>4. handle[l] \in Channels BY <1>3 DEF BusInv, ChannelInv, Channels
  <1>5. /\ pos[l] \in Nat /\ pos[l] >= 1 /\ inbox[l] \in Seq(Nat) /\ missed[l] \subseteq Nat
        /\ End(l) \in Nat /\ End(l)' = End(l)
    BY <1>1, <1>4 DEF BusInv, RxTypes, End
  <1>6. PICK first \in 1 .. pos[l] : ToSet(inbox[l]) \cup missed[l] = first .. pos[l] - 1
    BY <1>3 DEF Heard
  <1>7. RxTypes' /\ Heard(l)'
    <2>1. CASE TakeNext(l)
      <3>1. /\ pos' = [pos EXCEPT ![l] = @ + 1] /\ inbox' = [inbox EXCEPT ![l] = Append(@, pos[l])]
            /\ missed' = missed /\ log' = log /\ pos[l] <= End(l)
        BY <2>1 DEF TakeNext, busVars
      <3>2. \A n \in ToSet(inbox[l]) : n < pos[l] BY <1>5, <1>6
      <3>3. \A i \in 1 .. Len(inbox[l]) - 1 : inbox[l][i] < inbox[l][i + 1] BY <1>3 DEF Heard
      <3> DEFINE t == Append(inbox[l], pos[l])
      <3>5. /\ t \in Seq(Nat) /\ ToSet(t) = ToSet(inbox[l]) \cup {pos[l]}
            /\ \A i \in 1 .. Len(t) - 1 : t[i] < t[i + 1]
        BY <1>5, <3>2, <3>3, AppendedGrows
      <3> HIDE DEF t
      <3>6. /\ inbox'[l] = t /\ pos'[l] = pos[l] + 1 /\ missed'[l] = missed[l]
        BY <3>1 DEF t, BusInv, RxTypes
      <3>7. RxTypes' BY <1>5, <3>1, <3>5 DEF t, BusInv, RxTypes
      <3>8. ToSet(t) \cup missed[l] = first .. pos[l]
        <4>1. ToSet(t) \cup missed[l] = (first .. pos[l] - 1) \cup {pos[l]} BY <1>6, <3>5
        <4>2. (first .. pos[l] - 1) \cup {pos[l]} = first .. pos[l] BY <1>5
        <4> QED BY <4>1, <4>2
      <3>9. first \in 1 .. pos'[l] /\ pos'[l] - 1 = pos[l] BY <1>5, <3>6
      <3>10. \E f \in 1 .. pos'[l] : ToSet(inbox'[l]) \cup missed'[l] = f .. pos'[l] - 1
        BY <3>6, <3>8, <3>9
      <3>11. \A i \in missed'[l] : i + Capacity <= End(l)' BY <1>3, <1>5, <3>6 DEF Heard
      <3>12. pos'[l] <= End(l)' + 1 BY <1>5, <3>1, <3>6
      <3>13. \A i \in 1 .. Len(inbox'[l]) - 1 : inbox'[l][i] < inbox'[l][i + 1]
        BY <3>5, <3>6
      <3> QED BY <3>7, <3>10, <3>11, <3>12, <3>13 DEF Heard
    <2>2. CASE Skip(l)
      <3> DEFINE o == OldestOf(l)
      <3>1. /\ pos' = [pos EXCEPT ![l] = o] /\ inbox' = inbox /\ log' = log
            /\ missed' = [missed EXCEPT ![l] = @ \cup (pos[l] .. o - 1)]
            /\ End(l) - pos[l] >= Capacity
        BY <2>2 DEF Skip, Lagged, busVars
      <3>2. o = End(l) - Capacity + 1 BY DEF OldestOf
      <3>3. o \in Nat /\ o > pos[l] /\ o <= End(l) BY <1>5, <3>1, <3>2, CapacityAssumption
      <3> HIDE DEF o
      <3>4. /\ pos'[l] = o /\ missed'[l] = missed[l] \cup (pos[l] .. o - 1)
            /\ inbox'[l] = inbox[l]
        BY <3>1 DEF BusInv, RxTypes
      <3>5. RxTypes' BY <1>5, <3>1, <3>3 DEF BusInv, RxTypes
      <3>6. (first .. pos[l] - 1) \cup (pos[l] .. o - 1) = first .. o - 1 BY <1>5, <3>3
      <3>7. ToSet(inbox'[l]) \cup missed'[l] = first .. pos'[l] - 1
        BY <1>6, <3>4, <3>6
      <3>8. first \in 1 .. pos'[l] BY <1>5, <3>3, <3>4
      <3>9. \A i \in missed'[l] : i + Capacity <= End(l)'
        <4>1. \A i \in missed[l] : i + Capacity <= End(l) BY <1>3 DEF Heard
        <4>2. \A i \in pos[l] .. o - 1 : i + Capacity <= End(l)
          BY <1>5, <3>2, <3>3, CapacityAssumption
        <4> QED BY <1>5, <3>4, <4>1, <4>2
      <3>10. pos'[l] <= End(l)' + 1 BY <1>5, <3>3, <3>4
      <3>11. \A i \in 1 .. Len(inbox'[l]) - 1 : inbox'[l][i] < inbox'[l][i + 1]
        BY <1>3, <3>4 DEF Heard
      <3> QED BY <3>5, <3>7, <3>8, <3>9, <3>10, <3>11 DEF Heard
    <2> QED BY <2>1, <2>2
  <1>8. ListenerInv(l)'
    <2>1. pos'[l] # 0 BY <1>5, CapacityAssumption DEF TakeNext, Skip, BusInv, RxTypes, OldestOf, Lagged
    <2> QED BY <1>1, <1>3, <1>7, <2>1 DEF ListenerInv, Subscribing
  <1>9. ASSUME NEW k \in Listener, k # l PROVE ListenerInv(k)'
    <2>1. pos'[k] = pos[k] /\ inbox'[k] = inbox[k] /\ missed'[k] = missed[k]
      BY <1>9 DEF TakeNext, Skip, BusInv, RxTypes
    <2>2. k \in Caller BY DEF Caller
    <2>3. pos[k] # 0 => handle[k] \in Channels
      BY <2>2 DEF BusInv, ListenerInv, ChannelInv, Channels
    <2>4. pos[k] # 0 => End(k)' >= End(k) BY <1>1, <2>3 DEF End, BusInv, RxTypes
    <2> QED BY <1>1, <1>2, <1>7, <1>9, <2>1, <2>4, Untouched
  <1> QED BY <1>2, <1>7, <1>8, <1>9 DEF BusInv

\* A step of the runs alone leaves the bus as it is.
LEMMA Quiet ==
  ASSUME BusInv, UNCHANGED <<busVars, log, rxVars>> PROVE BusInv'
  BY DEF BusInv, busVars, rxVars, ChannelInv, RxTypes, ListenerInv, Subscribing, Heard, End

\* Every step is one of the bus or of a run.
LEMMA Step == BusInv /\ [SwarmNext]_vars => BusInv'
  <1> SUFFICES ASSUME BusInv, [SwarmNext]_vars PROVE BusInv' OBVIOUS
  <1>1. CASE BeginRun \/ RunOver \/ MasterStep
    BY <1>1, Quiet DEF BeginRun, RunOver, MasterStep, MasterEnds
  <1>2. CASE BusStep
    <2>1. ASSUME NEW l \in Listener, Subscribe(l) PROVE BusInv' BY <2>1, JoinStep
    <2>2. ASSUME NEW m \in Message, Persist(m) \/ Send(m) PROVE BusInv' BY <2>2, PublishStep
    <2>3. ASSUME NEW x \in Caller, Lookup(x) \/ Insert(x) PROVE BusInv' BY <2>3, TopicStep
    <2>4. CASE OpenDb \/ WriteDb BY <2>4, Quiet DEF OpenDb, WriteDb
    <2> QED BY <1>2, <2>1, <2>2, <2>3, <2>4 DEF BusStep
  <1>3. ASSUME NEW l \in Listener, ListenerStep(l) PROVE BusInv'
    <2>1. CASE StartListener(l) BY <2>1, JoinStep DEF StartListener
    <2>2. CASE Subscribe(l) BY <2>2, JoinStep
    <2>3. CASE ListenerEnds(l) BY <2>3, JoinStep DEF ListenerEnds
    <2>4. CASE Lookup(l) \/ Insert(l) BY <2>4, TopicStep DEF Caller
    <2> QED BY <1>3, <2>1, <2>2, <2>3, <2>4 DEF ListenerStep
  <1>4. ASSUME NEW l \in Listener, Receive(l) \/ Displaced(l) PROVE BusInv'
    BY <1>4, PollStep DEF Receive, Displaced
  <1>5. ASSUME NEW l \in Listener, ReactionStep(l) PROVE BusInv'
    BY <1>5, Quiet DEF ReactionStep, ReactionEnds, ReactionRaises
  <1>6. CASE UNCHANGED vars BY <1>6, Quiet DEF vars
  <1> QED BY <1>1, <1>2, <1>3, <1>4, <1>5, <1>6 DEF SwarmNext

\* Callers that race for a new topic get the same channel (core/bus.rs:71-84).
THEOREM EverybodySharesTheChannel == SwarmSpec => []OneChannel
  <1>1. BusInv => OneChannel BY DEF BusInv, ChannelInv, OneChannel
  <1> QED BY <1>1, Initially, Step, PTL DEF SwarmSpec

\* A listener hears what is sent while it listens once, in the order of sending, and misses
\* only what Capacity later messages have displaced, however often runs end and begin
\* (ffi/bus.rs:117-135, swarm.py:237-262).
THEOREM HeardInOrder == SwarmSpec => []InOrderUnlessDisplaced
  <1>1. BusInv => InOrderUnlessDisplaced
    BY DEF BusInv, ListenerInv, Heard, InOrderUnlessDisplaced
  <1> QED BY <1>1, Initially, Step, PTL DEF SwarmSpec

-----------------------------------------------------------------------------
\* A message that is past its first step, or sent, has been handed to the writer.
Handed(m) == writer = "failed" \/ m \in kept

KeptInv ==
    /\ \A m \in Message : caller[m] # "new" => Handed(m)
    /\ \A h \in Channels : \A i \in DOMAIN log[h] : Handed(log[h][i])

\* A message goes from its publisher to the writer's queue and from there to the table.
LEMMA KeptStep == BusInv /\ KeptInv /\ [SwarmNext]_vars => KeptInv'
  <1> SUFFICES ASSUME BusInv, KeptInv, [SwarmNext]_vars PROVE KeptInv' OBVIOUS
  <1> USE DEF KeptInv, Handed
  <1>0. /\ \A m \in Message : m \in Caller /\ m \notin Listener
        /\ caller = [x \in Caller |-> caller[x]]
    BY DistinctAssumption DEF Caller, BusInv, ChannelInv
  <1>1. CASE UNCHANGED <<caller, log, dbVars>> BY <1>1 DEF dbVars
  <1>2. ASSUME NEW m \in Message, Persist(m) PROVE KeptInv'
    BY <1>0, <1>2 DEF Persist, At, Goto
  <1>3. ASSUME NEW m \in Message, Send(m) PROVE KeptInv'
    <2>1. caller[m] = "ready" /\ UNCHANGED dbVars BY <1>3 DEF Send, At
    <2>2. handle[m] \in Channels /\ Handed(m)
      BY <1>0, <2>1 DEF BusInv, ChannelInv, Channels
    <2>3. \A n \in Message : caller'[n] # "new" => caller[n] # "new"
      BY <1>0, <1>3, <2>1 DEF Send, Goto
    <2>4. \/ log' = log \/ log' = [log EXCEPT ![handle[m]] = Append(@, m)] BY <1>3 DEF Send
    <2>5. ASSUME NEW h \in Channels, NEW i \in DOMAIN log'[h] PROVE Handed(log'[h][i])
      <3>1. CASE log'[h] = log[h] BY <3>1
      <3>2. CASE log'[h] = Append(log[h], m)
        <4>1. (i \in DOMAIN log[h] /\ log'[h][i] = log[h][i]) \/ log'[h][i] = m
          BY <3>2 DEF BusInv, RxTypes
        <4> QED BY <2>2, <4>1
      <3> QED BY <2>2, <2>4, <3>1, <3>2 DEF BusInv, RxTypes
    <2> QED BY <2>1, <2>3, <2>5 DEF dbVars
  <1>4. ASSUME NEW l \in Listener, Listen(l) \/ Subscribe(l) \/ Leave(l) PROVE KeptInv'
    <2>1. \A m \in Message : caller'[m] = caller[m]
      BY <1>0, <1>4 DEF Listen, Subscribe, Leave, Goto, busVars
    <2> QED BY <1>4, <2>1 DEF Listen, Subscribe, Leave, dbVars
  <1>5. ASSUME NEW x \in Caller, Lookup(x) \/ Insert(x) PROVE KeptInv'
    <2>1. \A m \in Message : caller'[m] # "new" => caller[m] # "new"
      BY <1>0, <1>5 DEF Lookup, Insert, At, Goto
    <2> QED BY <1>5, <2>1 DEF Lookup, Insert, dbVars
  <1>6. CASE OpenDb \/ WriteDb BY <1>6 DEF OpenDb, WriteDb, busVars
  <1>7. ASSUME NEW l \in Listener, TakeNext(l) \/ Skip(l) PROVE KeptInv'
    BY <1>1, <1>7 DEF TakeNext, Skip, busVars
  <1>8. CASE BeginRun \/ RunOver \/ MasterStep
    BY <1>1, <1>8 DEF BeginRun, RunOver, MasterStep, MasterEnds, busVars
  <1>9. CASE BusStep
    BY <1>2, <1>3, <1>4, <1>5, <1>6, <1>9 DEF BusStep
  <1>10. ASSUME NEW l \in Listener,
                ListenerStep(l) \/ Receive(l) \/ Displaced(l) \/ ReactionStep(l)
         PROVE  KeptInv'
    <2>1. l \in Caller BY DEF Caller
    <2>2. CASE ListenerStep(l)
      BY <1>4, <1>5, <2>1, <2>2 DEF ListenerStep, StartListener, ListenerEnds
    <2>3. CASE Receive(l) \/ Displaced(l) BY <1>7, <2>3 DEF Receive, Displaced
    <2>4. CASE ReactionStep(l)
      BY <1>1, <2>4 DEF ReactionStep, ReactionEnds, ReactionRaises, busVars
    <2> QED BY <1>10, <2>2, <2>3, <2>4
  <1> QED BY <1>1, <1>8, <1>9, <1>10 DEF SwarmNext, vars, busVars

\* What a listener can hear the writer has been given before, unless there is no writer
\* (core/bus.rs:87-101).
THEOREM HistoryLacksNothing == SwarmSpec => []SentIsKept
  <1>1. SwarmInit => KeptInv BY DistinctAssumption DEF SwarmInit, Init, KeptInv, Caller, Handed
  <1>2. KeptInv => SentIsKept BY DEF KeptInv, Handed, SentIsKept
  <1> QED BY <1>1, <1>2, Initially, Step, KeptStep, PTL DEF SwarmSpec

==============================================================================
