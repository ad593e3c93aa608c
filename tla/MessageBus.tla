------------------------------ MODULE MessageBus ------------------------------
(***************************************************************************)
(* The steps of one topic of the swarm's bus: the Rust MessageBus          *)
(* (seahorse-core/src/bus.rs) behind its Python wrapper                    *)
(* (seahorse-ffi/src/bus.rs), with the agents that publish and the         *)
(* listeners that poll it.  Swarm composes them with the run of a swarm.   *)
(* Topics do not affect each other.                                        *)
(* Every call of the bus may run on a thread of its own; the lock of the   *)
(* topic table, the queue of the database writer and the broadcast channel *)
(* are the points at which the calls meet.                                 *)
(*                                                                         *)
(* The broadcast channel is the log of what was sent through it, of which  *)
(* it keeps the last Capacity messages; a receiver is a position in it.    *)
(***************************************************************************)
EXTENDS Naturals, Sequences, SequencesExt

CONSTANTS
    Message,    \* messages to publish, each once
    Listener,   \* listeners of the topic
    Capacity,   \* channel_capacity
    MaxJoins    \* bound: how often a listener subscribes

ASSUME DistinctAssumption == Message \cap Listener = {}
ASSUME CapacityAssumption == Capacity \in Nat \ {0} /\ MaxJoins \in Nat

VARIABLES
    caller,   \* where each publish and each subscribe is
    topic,    \* the channel in the table, 0 when there is none
    handle,   \* the channel that each caller has got
    log,      \* what was sent through each channel
    pos,      \* the next position of each listener, 0 when it does not listen
    joins,    \* how often it has subscribed
    inbox,    \* history: positions received since it subscribed
    missed,   \* history: positions skipped since then
    writer,   \* the database writer: starting, open, or failed to open
    dbQueue, db,
    kept      \* history: messages handed to the writer

busVars == <<caller, topic, handle>>
rxVars  == <<pos, joins, inbox, missed>>
dbVars  == <<writer, dbQueue, db, kept>>

Caller   == Message \cup Listener
Channels == 1 .. 2

-----------------------------------------------------------------------------
Init ==
    /\ caller = [x \in Caller |-> "new"]
    /\ topic = 0
    /\ handle = [x \in Caller |-> 0]
    /\ log = [h \in Channels |-> <<>>]
    /\ pos = [l \in Listener |-> 0]
    /\ joins = [l \in Listener |-> 0]
    /\ inbox = [l \in Listener |-> <<>>]
    /\ missed = [l \in Listener |-> {}]
    /\ writer = "starting"
    /\ dbQueue = <<>> /\ db = <<>>
    /\ kept = {}

At(x, s)   == caller[x] = s
Goto(x, s) == caller' = [caller EXCEPT ![x] = s]
Listens(l, h) == pos[l] # 0 /\ handle[l] = h

\* publish: first the message goes to the writer's queue, unless the writer is gone.
\* Mutant: only what has a topic is kept.
PersistIfTopic(m) ==
    /\ At(m, "new")
    /\ Goto(m, "lookup")
    /\ IF writer = "failed" \/ topic = 0 THEN UNCHANGED <<dbQueue, kept>>
       ELSE dbQueue' = Append(dbQueue, m) /\ kept' = kept \cup {m}
    /\ UNCHANGED <<topic, handle, log, rxVars, writer, db>>

Persist(m) ==
    /\ At(m, "new")
    /\ Goto(m, "lookup")
    /\ IF writer = "failed" THEN UNCHANGED <<dbQueue, kept>>
       ELSE dbQueue' = Append(dbQueue, m) /\ kept' = kept \cup {m}
    /\ UNCHANGED <<topic, handle, log, rxVars, writer, db>>

\* A listener begins (again) with subscribe.
Listen(l) ==
    /\ At(l, "new") /\ joins[l] < MaxJoins
    /\ Goto(l, "lookup")
    /\ joins' = [joins EXCEPT ![l] = @ + 1]
    /\ inbox' = [inbox EXCEPT ![l] = <<>>] /\ missed' = [missed EXCEPT ![l] = {}]
    /\ UNCHANGED <<topic, handle, log, pos, dbVars>>

\* get_or_create_topic: a look under the read lock, then an entry under the write
\* lock, unless someone has made it meanwhile.  Mutant: the entry is overwritten.
Lookup(x) ==
    /\ At(x, "lookup")
    /\ IF topic # 0
         THEN handle' = [handle EXCEPT ![x] = topic] /\ Goto(x, "ready")
         ELSE Goto(x, "insert") /\ UNCHANGED handle
    /\ UNCHANGED <<topic, log, rxVars, dbVars>>

NewEntry == IF topic = 0 THEN 1 ELSE 2
Entry    == IF topic = 0 THEN 1 ELSE topic

Insert(x) ==
    /\ At(x, "insert")
    /\ topic' = Entry
    /\ handle' = [handle EXCEPT ![x] = topic']
    /\ Goto(x, "ready")
    /\ UNCHANGED <<log, rxVars, dbVars>>

\* The message is sent to the receivers that there are; without any it is dropped.
\* Either way the tool tells the agent that it is queued.
Send(m) ==
    /\ At(m, "ready")
    /\ IF \E l \in Listener : Listens(l, handle[m])
         THEN Goto(m, "sent") /\ log' = [log EXCEPT ![handle[m]] = Append(@, m)]
         ELSE Goto(m, "dropped") /\ UNCHANGED log
    /\ UNCHANGED <<topic, handle, rxVars, dbVars>>

Subscribe(l) ==
    /\ At(l, "ready") /\ pos[l] = 0
    /\ pos' = [pos EXCEPT ![l] = Len(log[handle[l]]) + 1]
    /\ UNCHANGED <<busVars, log, joins, inbox, missed, dbVars>>

\* The listener is gone.
Leave(l) ==
    /\ At(l, "ready") /\ pos[l] # 0
    /\ pos' = [pos EXCEPT ![l] = 0]
    /\ Goto(l, "new")
    /\ UNCHANGED <<topic, handle, log, joins, inbox, missed, dbVars>>

-----------------------------------------------------------------------------
\* try_recv on a channel with messages: the next one, which starts a request; or,
\* when it is no longer kept, None, and the receiver moves on to the oldest kept.
\* Mutants: it moves past all of them; it does not move.
End(l)      == Len(log[handle[l]])
Lagged(l)   == End(l) - pos[l] >= Capacity
NewestOf(l) == End(l) + 1
SameAs(l)   == pos[l]
OldestOf(l) == End(l) - Capacity + 1

TakeNext(l) ==
    /\ pos[l] # 0 /\ pos[l] <= End(l) /\ ~Lagged(l)
    /\ inbox' = [inbox EXCEPT ![l] = Append(@, pos[l])]
    /\ pos' = [pos EXCEPT ![l] = @ + 1]
    /\ UNCHANGED <<busVars, log, joins, missed, dbVars>>

Skip(l) ==
    /\ pos[l] # 0 /\ Lagged(l)
    /\ missed' = [missed EXCEPT ![l] = @ \cup (pos[l] .. OldestOf(l) - 1)]
    /\ pos' = [pos EXCEPT ![l] = OldestOf(l)]
    /\ UNCHANGED <<busVars, log, joins, inbox, dbVars>>

-----------------------------------------------------------------------------
\* The writer opens the database, or ends, and its queue with it.
OpenDb ==
    /\ writer = "starting"
    /\ \/ writer' = "open" /\ UNCHANGED dbQueue
       \/ writer' = "failed" /\ dbQueue' = <<>>
    /\ UNCHANGED <<busVars, log, rxVars, db, kept>>

\* One insert, which may fail.
WriteDb ==
    /\ writer = "open" /\ dbQueue # <<>>
    /\ dbQueue' = Tail(dbQueue)
    /\ db' = Append(db, Head(dbQueue)) \/ UNCHANGED db
    /\ UNCHANGED <<busVars, log, rxVars, writer, kept>>

-----------------------------------------------------------------------------
(***************************************************************************)
(* Properties.                                                             *)
(***************************************************************************)

\* The types of the variables.
TypeOK ==
    /\ caller \in [Caller -> {"new", "lookup", "insert", "ready", "sent", "dropped"}]
    /\ topic \in 0 .. 1
    /\ handle \in [Caller -> 0 .. 1]
    /\ log \in [Channels -> Seq(Message)]
    /\ pos \in [Listener -> Nat]
    /\ joins \in [Listener -> 0 .. MaxJoins]
    /\ inbox \in [Listener -> Seq(Nat)]
    /\ missed \in [Listener -> SUBSET Nat]
    /\ writer \in {"starting", "open", "failed"}
    /\ dbQueue \in Seq(Message) /\ db \in Seq(Message)
    /\ kept \subseteq Message

\* Callers that race for a new topic get the same channel, so that no listener is
\* left on a channel that nobody publishes to.
OneChannel ==
    \A x, y \in Caller : handle[x] # 0 /\ handle[y] # 0 => handle[x] = handle[y]

\* A listener receives what is sent while it listens in the order of sending, each
\* message once, and misses only messages that Capacity later ones have displaced.
InOrderUnlessDisplaced ==
    \A l \in Listener : pos[l] # 0 =>
        /\ \A i \in 1 .. Len(inbox[l]) - 1 : inbox[l][i] < inbox[l][i + 1]
        /\ \A i \in missed[l] : i + Capacity <= End(l)
        /\ \E first \in 1 .. pos[l] :
              ToSet(inbox[l]) \cup missed[l] = first .. pos[l] - 1

\* What a listener can receive is already with the database writer, if there is one:
\* the history never lacks a message because of the order of the two.
SentIsKept ==
    \A h \in Channels : writer # "failed" => \A i \in DOMAIN log[h] : log[h][i] \in kept

==============================================================================
