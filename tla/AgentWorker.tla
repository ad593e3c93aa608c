------------------------------ MODULE AgentWorker ------------------------------
(***************************************************************************)
(* The way of a task through the Rust core: an HTTP handler submits it     *)
(* (seahorse-router/src/handlers.rs, seahorse-core/src/scheduler.rs), the  *)
(* worker loop takes the tasks one by one (worker/task_loop.rs) and runs   *)
(* each as a graph (graph.rs, seahorse-ffi/src/graph_runner.rs) whose      *)
(* nodes are Python calls on blocking threads (core/nodes.py), and the     *)
(* tokens go back through a bounded channel of the task's own.             *)
(*                                                                         *)
(* A token is a string, and the core tells what it means by its first      *)
(* characters alone: of a token the model keeps whether it is empty or     *)
(* begins with one of the two marks.  A message of the conversation goes   *)
(* back as a token like any other, marks or not.                           *)
(*                                                                         *)
(* A task is named by the client that submits it, each client one.  The    *)
(* 120 seconds of a run are over whenever the model says so; a Python call *)
(* may never return, and cannot be interrupted.                            *)
(***************************************************************************)
EXTENDS Naturals, Sequences, FiniteSets

CONSTANTS
    Sync,      \* clients of run_agent, which drains the channel
    Stream,    \* clients of stream_agent, which forwards each token
    QueueCap,  \* capacity of the task queue, 256
    ChanCap,   \* capacity of a response channel, 128
    MaxSteps,  \* max_steps of Graph::run, 100
    Pool,      \* Tokio's limit of blocking threads
    NoClient

Client == Sync \cup Stream

ASSUME ClientAssumption == NoClient \notin Client /\ Sync \cap Stream = {}
\* A channel has room for what a task sends: [DONE] and the response.
ASSUME CapAssumption    == QueueCap \in Nat \ {0} /\ ChanCap \in Nat /\ ChanCap >= 2
ASSUME RunAssumption    == MaxSteps \in Nat /\ Pool \in Nat

VARIABLES
    client,   \* where each client is
    got,      \* response_content of run_agent
    queue,    \* task_tx and task_rx
    running,  \* the task of the worker loop
    wpc,      \* where the worker loop is
    node,     \* curr of Graph::run
    steps,    \* step_count
    last,     \* the content of the last of the messages in the graph's state
    pending,  \* what the worker sends last
    thread,   \* a Python call of the task: none, waiting for a blocking thread, or on one
    chan,     \* the response channel of each task
    tracked,  \* active_tasks of the supervisor
    response  \* history: what the graph or the fast path gave for the client's task

clientVars == <<client, got>>
graphVars  == <<node, steps, last>>
vars == <<clientVars, queue, running, wpc, graphVars, pending, thread, chan, tracked, response>>

-----------------------------------------------------------------------------
\* Strings by what they begin with.  A prompt, an answer of the LLM or of the node's
\* own error handling and a tool's result may be any of them.
Text == {"text", "empty", "[DONE]", "[ERROR]"}

Init ==
    /\ client = [c \in Client |-> "new"]
    /\ got = [c \in Sync |-> "empty"]
    /\ queue = <<>>
    /\ running = NoClient
    /\ wpc = "idle"
    /\ node = "none" /\ steps = 0 /\ last = "text"
    /\ pending = "none"
    /\ thread = [c \in Client |-> "none"]
    /\ chan = [c \in Client |-> <<>>]
    /\ tracked = {}
    /\ response = [c \in Sync |-> "none"]

\* The sender's side of c's channel is dropped with the task.
Queued(c) == \E i \in DOMAIN queue : queue[i] = c
Closed(c) == ~Queued(c) /\ running # c
Move(c, s) == client' = [client EXCEPT ![c] = s]

-----------------------------------------------------------------------------
\* The handlers.  An empty prompt is refused, and the fast path may answer, which
\* is given back as it is.
Refuse(c) ==
    /\ client[c] = "new" /\ Move(c, "failed")
    /\ UNCHANGED <<got, queue, running, wpc, graphVars, pending, thread, chan, tracked, response>>

FastPath(c) ==
    /\ client[c] = "new" /\ Move(c, "done")
    /\ \E t \in Text :
          /\ got' = [d \in Sync |-> IF d = c THEN t ELSE got[d]]
          /\ response' = [d \in Sync |-> IF d = c THEN t ELSE response[d]]
    /\ UNCHANGED <<queue, running, wpc, graphVars, pending, thread, chan, tracked>>

\* submit waits while the queue is full.
Submit(c) ==
    /\ client[c] = "new" /\ Len(queue) < QueueCap
    /\ Move(c, "waiting")
    /\ queue' = Append(queue, c)
    /\ UNCHANGED <<got, running, wpc, graphVars, pending, thread, chan, tracked, response>>

\* The connection is closed: the handler and its receiver are dropped.
Disconnect(c) ==
    /\ client[c] \in {"new", "waiting"}
    /\ Move(c, "gone")
    /\ chan' = [chan EXCEPT ![c] = <<>>]
    /\ UNCHANGED <<got, queue, running, wpc, graphVars, pending, thread, tracked, response>>

\* run_agent fails on a token marked as an error, passes over one marked as done and
\* keeps any other in place of the one before; stream_agent has no eyes for the
\* tokens.  Mutant: run_agent is content with [DONE].
Keep(c, t) ==
    \/ c \in Sync /\ t = "[ERROR]" /\ Move(c, "failed") /\ UNCHANGED got
    \/ /\ c \in Sync /\ t \notin {"[DONE]", "[ERROR]"}
       /\ got' = [got EXCEPT ![c] = t] /\ UNCHANGED client
    \/ (c \notin Sync \/ t = "[DONE]") /\ UNCHANGED clientVars

EndAtDone(c) ==
    /\ client[c] = "waiting" /\ chan[c] # <<>>
    /\ IF Head(chan[c]) = "[DONE]" /\ c \in Sync THEN Move(c, "done") /\ UNCHANGED got
       ELSE Keep(c, Head(chan[c]))
    /\ chan' = [chan EXCEPT ![c] = IF client'[c] = "waiting" THEN Tail(@) ELSE <<>>]
    /\ UNCHANGED <<queue, running, wpc, graphVars, pending, thread, tracked, response>>

Receive(c) ==
    /\ client[c] = "waiting" /\ chan[c] # <<>>
    /\ Keep(c, Head(chan[c]))
    /\ chan' = [chan EXCEPT ![c] = IF client'[c] = "waiting" THEN Tail(@) ELSE <<>>]
    /\ UNCHANGED <<queue, running, wpc, graphVars, pending, thread, tracked, response>>

EndOfChannel(c) ==
    /\ client[c] = "waiting" /\ chan[c] = <<>> /\ Closed(c)
    /\ Move(c, "done")
    /\ UNCHANGED <<got, queue, running, wpc, graphVars, pending, thread, chan, tracked, response>>

-----------------------------------------------------------------------------
\* The worker loop takes the oldest task and tracks it; the graph starts.
PickUp ==
    /\ wpc = "idle" /\ queue # <<>>
    /\ running' = Head(queue) /\ queue' = Tail(queue)
    /\ wpc' = "run"
    /\ node' = "reason" /\ steps' = 0 /\ last' \in Text \ {"empty"}
    /\ tracked' = tracked \cup {Head(queue)}
    /\ UNCHANGED <<clientVars, pending, thread, chan, response>>

\* Sending waits for room, and fails when the receiver is gone.
CanSend(c)  == client[c] # "waiting" \/ Len(chan[c]) < ChanCap
SendTo(c, t) == chan' = [chan EXCEPT ![c] = IF client[c] = "waiting" THEN Append(@, t) ELSE @]

\* A node is called; its Python call begins as soon as a blocking thread is free,
\* also when the run has been dropped meanwhile.  Mutant: the graph runs in a task
\* of its own, which a timeout does not stop.
CallDetached ==
    \E c \in Client :
        /\ c \in tracked \/ c = running \/ client[c] = "failed"
        /\ node \in {"reason", "action"} /\ steps < MaxSteps
        /\ thread[c] = "none"
        /\ thread' = [thread EXCEPT ![c] = "queued"]
        /\ steps' = steps + 1
        /\ UNCHANGED <<clientVars, queue, running, wpc, node, last, pending, chan, tracked, response>>

CallNode ==
    /\ wpc = "run" /\ node \in {"reason", "action"} /\ steps < MaxSteps
    /\ thread[running] = "none"
    /\ thread' = [thread EXCEPT ![running] = "queued"]
    /\ steps' = steps + 1
    /\ UNCHANGED <<clientVars, queue, running, wpc, node, last, pending, chan, tracked, response>>

BeginCall(c) ==
    /\ thread[c] = "queued"
    /\ Cardinality({d \in Client : thread[d] = "busy"}) < Pool
    /\ thread' = [thread EXCEPT ![c] = "busy"]
    /\ UNCHANGED <<clientVars, queue, running, wpc, graphVars, pending, chan, tracked, response>>

\* The Python call returns to a run that still waits for it.  reason_node asks for
\* tools or answers, also on an exception of its own; the edge goes by next_step.
\* action_node appends the results, or nothing when it fails.  Mutant: the runner
\* streams a token for every call.
ReasonStreams ==
    /\ wpc = "run" /\ node = "reason" /\ thread[running] = "busy" /\ CanSend(running)
    /\ last' \in Text /\ node' \in {"action", "end"}
    /\ SendTo(running, last')
    /\ thread' = [thread EXCEPT ![running] = "none"]
    /\ UNCHANGED <<clientVars, queue, running, wpc, steps, pending, tracked, response>>

ReasonReturns ==
    /\ wpc = "run" /\ node = "reason" /\ thread[running] = "busy"
    /\ last' \in Text /\ node' \in {"action", "end"}
    /\ thread' = [thread EXCEPT ![running] = "none"]
    /\ UNCHANGED <<clientVars, queue, running, wpc, steps, pending, chan, tracked, response>>

ActionReturns ==
    /\ wpc = "run" /\ node = "action" /\ thread[running] = "busy"
    /\ last' \in Text
    /\ node' = "reason"
    /\ thread' = [thread EXCEPT ![running] = "none"]
    /\ UNCHANGED <<clientVars, queue, running, wpc, steps, pending, chan, tracked, response>>

\* The import, the call or the conversion of the result fails: so does the run.
CallFails ==
    /\ wpc = "run" /\ thread[running] = "busy"
    /\ thread' = [thread EXCEPT ![running] = "none"]
    /\ wpc' = "send" /\ pending' = "[ERROR]"
    /\ UNCHANGED <<clientVars, queue, running, graphVars, chan, tracked, response>>

\* The graph has ended, or has used up its steps, which its status tells and the
\* runner does not look at: [DONE], and the content of the last message, whoever
\* said it, is the response.
GraphEnds ==
    /\ wpc = "run" /\ thread[running] = "none"
    /\ node = "end" \/ steps >= MaxSteps
    /\ CanSend(running)
    /\ SendTo(running, "[DONE]")
    /\ wpc' = "send" /\ pending' = last
    /\ response' = [c \in Sync |-> IF c = running THEN last ELSE response[c]]
    /\ UNCHANGED <<clientVars, queue, running, graphVars, thread, tracked>>

\* The time is up: the run is dropped, its Python call goes on.  Mutant: the run
\* has no timeout.
NoTimeout == FALSE /\ UNCHANGED vars
Timeout ==
    /\ wpc = "run"
    /\ wpc' = "send" /\ pending' = "[ERROR]"
    /\ UNCHANGED <<clientVars, queue, running, graphVars, thread, chan, tracked, response>>

\* The last token is sent without a timeout, and the task is dropped.
Untracked    == tracked \ {running}

SendFinal ==
    /\ wpc = "send" /\ CanSend(running)
    /\ SendTo(running, pending)
    /\ tracked' = Untracked
    /\ running' = NoClient /\ wpc' = "idle" /\ pending' = "none"
    /\ node' = "none" /\ steps' = 0 /\ last' = "text"
    /\ UNCHANGED <<clientVars, queue, thread, response>>

\* The Python call of a run that was dropped returns to nobody.
OrphanReturns(c) ==
    /\ thread[c] = "busy" /\ (running # c \/ wpc # "run")
    /\ thread' = [thread EXCEPT ![c] = "none"]
    /\ UNCHANGED <<clientVars, queue, running, wpc, graphVars, pending, chan, tracked, response>>

-----------------------------------------------------------------------------
Handler(c) == \/ Refuse(c) \/ FastPath(c) \/ Submit(c) \/ Disconnect(c)
              \/ Receive(c) \/ EndOfChannel(c)
Worker     == \/ PickUp \/ CallNode \/ ReasonReturns \/ ActionReturns
              \/ CallFails \/ GraphEnds \/ Timeout \/ SendFinal

Next == Worker \/ \E c \in Client : Handler(c) \/ BeginCall(c) \/ OrphanReturns(c)

\* Tokio runs the worker loop and the handlers that drain, and the timer fires.
\* No Python call need return, and a streaming client need not read.
Spec == /\ Init /\ [][Next]_vars
        /\ WF_vars(PickUp) /\ WF_vars(Timeout) /\ WF_vars(SendFinal)
        /\ \A c \in Sync : WF_vars(Receive(c)) /\ WF_vars(EndOfChannel(c))

-----------------------------------------------------------------------------
(***************************************************************************)
(* Properties.                                                             *)
(***************************************************************************)

\* The types of the variables.
TypeOK ==
    /\ client \in [Client -> {"new", "waiting", "done", "failed", "gone"}]
    /\ got \in [Sync -> Text]
    /\ queue \in Seq(Client) /\ Len(queue) <= QueueCap
    /\ running \in Client \cup {NoClient}
    /\ wpc \in {"idle", "run", "send"}
    /\ node \in {"none", "reason", "action", "end"}
    /\ steps \in 0 .. MaxSteps
    /\ last \in Text
    /\ pending \in Text \cup {"none"}
    /\ thread \in [Client -> {"none", "queued", "busy"}]
    /\ chan \in [Client -> Seq(Text)]
    /\ tracked \subseteq Client
    /\ response \in [Sync -> Text \cup {"none"}]

\* run_agent reports "completed" only for a task whose graph has ended (or that the
\* fast path answered), whatever fails, times out or is slow on the way, and gives back
\* its response, no token before it.  The marks are the exception: a response that
\* begins with [DONE] is taken for one and given back as an empty content, and one that
\* begins with [ERROR] does not complete.
Answered(c) == got[c] = response[c] \/ (got[c] = "empty" /\ response[c] = "[DONE]")
CompletedIsResponse == \A c \in Sync : client[c] = "done" => Answered(c)

\* The worker loop never waits for a client: the last token of a task finds room,
\* however slowly or however little the client reads.
NoHeadOfLine == wpc = "send" => CanSend(running)

\* Once a run has failed or timed out, no further node of it is called: what
\* outlives it is at most the call that was under way or waited for a thread.
NothingAfterTimeout ==
    [][\A c \in Client : thread[c] = "none" /\ thread'[c] # "none" =>
          running = c /\ wpc = "run" /\ client[c] \notin {"done", "failed"}]_vars

\* Every task that was submitted is answered, with a content or with an error, also
\* when Python calls hang and streaming clients do not read.
TasksAreAnswered ==
    \A c \in Sync : client[c] = "waiting" ~> client[c] \in {"done", "failed", "gone"}

==============================================================================
