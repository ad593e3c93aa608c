-------------------------------- MODULE Swarm --------------------------------
(***************************************************************************)
(* A run of SwarmOrchestrator (engines/swarm.py) on the bus of MessageBus: *)
(* one task group holds the listeners of the agents and the master's       *)
(* request, and every listener holds a task group with its reactions, one  *)
(* planner request per message.  The master's end, with an answer or with  *)
(* an exception, and a reaction that raises cancel what is left; the run   *)
(* is over when the last task is.                                          *)
(*                                                                         *)
(* Messages may come from anywhere in the swarm at any time, another run   *)
(* on the same bus included.  What is cancelled goes on to its next await: *)
(* a listener may still take a message.                                    *)
(***************************************************************************)
EXTENDS MessageBus

VARIABLES
    run,      \* the task group: idle, running, cancelling, returned or raised
    master,   \* the master's request: none, running, answered or raised
    runs,     \* runs so far
    react,    \* each listener: the messages it reacts to
    failed    \* listeners of this run whose group is cancelled by a reaction

swarmVars == <<run, master, runs, react, failed>>
vars      == <<busVars, log, rxVars, dbVars, swarmVars>>

SwarmInit ==
    /\ Init
    /\ run = "idle" /\ master = "none" /\ runs = 0
    /\ react = [l \in Listener |-> {}]
    /\ failed = {}

-----------------------------------------------------------------------------
\* run: the listeners are tasks to start, and the master's request begins.
BeginRun ==
    /\ run \in {"idle", "returned", "raised"} /\ runs < MaxJoins
    /\ run' = "running" /\ master' = "running"
    /\ runs' = runs + 1 /\ failed' = {}
    /\ UNCHANGED <<busVars, log, rxVars, dbVars, react>>

\* A task that was started reaches its first await even when the run is cancelled.
StartListener(l) ==
    /\ run \in {"running", "cancelling"} /\ joins[l] < runs
    /\ Listen(l)
    /\ UNCHANGED swarmVars

\* A message starts a request on the agent's planner, of which the listener does not wait
\* for the end.
Receive(l) ==
    /\ TakeNext(l)
    /\ react' = [react EXCEPT ![l] = @ \cup {pos[l]}]
    /\ UNCHANGED <<run, master, runs, failed>>

Displaced(l) == Skip(l) /\ UNCHANGED swarmVars

\* The answer of a reaction is not used.
ReactionEnds(l) ==
    /\ \E i \in react[l] : react' = [react EXCEPT ![l] = @ \ {i}]
    /\ UNCHANGED <<busVars, log, rxVars, dbVars, run, master, runs, failed>>

ReactionRaises(l) ==
    /\ \E i \in react[l] : react' = [react EXCEPT ![l] = @ \ {i}]
    /\ failed' = failed \cup {l}
    /\ UNCHANGED <<busVars, log, rxVars, dbVars, run, master, runs>>

Cancelled(l) == run = "cancelling" \/ l \in failed

\* The group of a listener is closed when its reactions are over; its failure is then the
\* failure of a task of the run.  Mutant: the failure stays in the group.
StaysInGroup(l) == run
Outward(l)      == IF l \in failed THEN "cancelling" ELSE run

ListenerEnds(l) ==
    /\ Cancelled(l) /\ react[l] = {}
    /\ Leave(l)
    /\ run' = Outward(l)
    /\ UNCHANGED <<master, runs, react, failed>>

\* The master's request ends: tg.cancel_scope.cancel(), or an exception in the group.
MasterEnds(how) ==
    /\ run = "running"
    /\ master' = how /\ run' = "cancelling"
    /\ UNCHANGED <<busVars, log, rxVars, dbVars, runs, react, failed>>

\* All tasks are over.  What a reaction raised is raised, also when the master has answered.
AllOver == \A l \in Listener : joins[l] = runs /\ caller[l] = "new"

RunOver ==
    /\ run = "cancelling" /\ AllOver
    /\ run' = IF master = "answered" /\ failed = {} THEN "returned" ELSE "raised"
    /\ UNCHANGED <<busVars, log, rxVars, dbVars, master, runs, react, failed>>

BusStep ==
    /\ \/ \E m \in Message : Persist(m) \/ Send(m)
       \/ \E l \in Listener : Subscribe(l)
       \/ \E x \in Caller : Lookup(x) \/ Insert(x)
       \/ OpenDb \/ WriteDb
    /\ UNCHANGED swarmVars

ListenerStep(l) ==
    \/ StartListener(l)
    \/ (Lookup(l) \/ Insert(l) \/ Subscribe(l)) /\ UNCHANGED swarmVars
    \/ ListenerEnds(l)

ReactionStep(l) == ReactionEnds(l) \/ ReactionRaises(l)
MasterStep      == \E how \in {"answered", "raised"} : MasterEnds(how)

SwarmNext ==
    \/ BeginRun \/ RunOver \/ MasterStep \/ BusStep
    \/ \E l \in Listener :
        ListenerStep(l) \/ Receive(l) \/ Displaced(l) \/ ReactionStep(l)

\* The event loop runs every task that can go on.  The master's request may take for ever.
SwarmSpec ==
    /\ SwarmInit /\ [][SwarmNext]_vars
    /\ WF_vars(RunOver)
    /\ \A l \in Listener : /\ WF_vars(ListenerStep(l)) /\ WF_vars(Cancelled(l) /\ ReactionStep(l))
                           /\ WF_vars(Receive(l) \/ Displaced(l))

-----------------------------------------------------------------------------
SwarmTypeOK ==
    /\ TypeOK
    /\ run \in {"idle", "running", "cancelling", "returned", "raised"}
    /\ master \in {"none", "running", "answered", "raised"}
    /\ runs \in 0..MaxJoins
    /\ react \in [Listener -> SUBSET Nat]
    /\ failed \subseteq Listener

Behind(l) == pos[l] # 0 /\ pos[l] <= End(l)

\* A listener catches up for as long as its run goes on: what was sent is taken or displaced
\* (swarm.py:237-262, ffi bus.rs:117-135).
CatchesUp ==
    \A l \in Listener : Behind(l) ~> ~Behind(l) \/ run # "running"

\* A reaction that raises ends the run with an exception, whatever the master is doing, and
\* then nobody listens any more and no other reaction is under way (swarm.py:259, 280-290).
FailureEndsRun ==
    failed # {} ~> /\ run = "raised"
                   /\ \A l \in Listener : pos[l] = 0 /\ react[l] = {}

==============================================================================
