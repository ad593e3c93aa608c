---------------------------- MODULE QdrantMemory ----------------------------
(***************************************************************************)
(* The memory kept in a Qdrant server (engines/rag/rag_qdrant.py), used by *)
(* several processes at a time, each with its own list of the collections  *)
(* it believes to exist.  A call is a few requests to the server and to    *)
(* the embedding model; between two of them anything else may run.         *)
(*                                                                         *)
(* A point has the number Qdrant knows it by and the uuid of its payload,  *)
(* which is what search hands out.                                         *)
(***************************************************************************)
EXTENDS Naturals, Sequences, FiniteSets

CONSTANTS
    Task, ProcessOf,    \* the tasks that call the pipeline, each in a process
    Collection, Base,   \* the collections of the agents, and the one of no agent
    NoText, NoRow,
    MaxFaults,          \* bound: requests that fail or whose answer is lost, and crashes
    MaxTools            \* bound: memory tools called

VARIABLES
    exists,   \* the collections of the server
    points,   \* their points
    known,    \* _initialized_collections of each process
    step,     \* each task: the request it waits for
    written,  \* history: points written so far
    faults,   \* history: faults so far
    tools     \* history: tools called so far

qdrantVars == <<exists, points, known, step, written, faults, tools>>

Process == {ProcessOf[t] : t \in Task}

\* row: the row of the outbox the call is made for.
NoStep == [at |-> "idle", op |-> "none", text |-> NoText, into |-> Base, row |-> NoRow]

QdrantInit ==
    /\ exists = {} /\ points = {}
    /\ known = [p \in Process |-> {}]
    /\ step = [t \in Task |-> NoStep]
    /\ written = 0 /\ faults = 0 /\ tools = 0

Number(pt) == <<"number", pt.n>>
Uuid(pt)   == <<"uuid", pt.n>>

At(t, here) == step[t].at = here
To(t, next) == step' = [step EXCEPT ![t].at = next]
Mine(t)     == known[ProcessOf[t]]
Learns(t)   == known' = [known EXCEPT ![ProcessOf[t]] = @ \cup {step[t].into}]
Copies(t)   == {pt \in points : pt.in = step[t].into /\ pt.text = step[t].text}

-----------------------------------------------------------------------------
\* store, delete_by_text and clear begin; a collection that is known is not asked for.
Begin(t, op, text, into, row) ==
    /\ At(t, "idle")
    /\ step' = [step EXCEPT ![t] =
          [at |-> IF op = "clear" THEN "clear" ELSE IF into \in Mine(t) THEN "embed" ELSE "get",
           op |-> op, text |-> text, into |-> into, row |-> row]]
    /\ UNCHANGED <<exists, points, known, written, faults>>

\* _ensure_collection.  When the request fails, whatever the reason, the collection is created,
\* and the answer that it already exists is as good.
GetCollection(t) ==
    /\ At(t, "get")
    /\ IF step[t].into \in exists THEN Learns(t) /\ To(t, "embed") ELSE UNCHANGED known /\ To(t, "create")
    /\ UNCHANGED <<exists, points, written, faults, tools>>

GetFails(t) ==
    /\ At(t, "get") /\ faults < MaxFaults /\ faults' = faults + 1
    /\ To(t, "create")
    /\ UNCHANGED <<exists, points, known, written, tools>>

CreateCollection(t) ==
    /\ At(t, "create")
    /\ exists' = exists \cup {step[t].into} /\ Learns(t) /\ To(t, "embed")
    /\ UNCHANGED <<points, written, faults, tools>>

Embed(t) ==
    /\ At(t, "embed")
    /\ To(t, IF step[t].op = "store" THEN "upsert" ELSE "query")
    /\ UNCHANGED <<exists, points, known, written, faults, tools>>

\* The server has written the point; its answer may be lost.
Upsert(t) ==
    /\ At(t, "upsert") /\ step[t].into \in exists
    /\ written' = written + 1
    /\ points' = points \cup {[n |-> written', text |-> step[t].text, in |-> step[t].into]}
    /\ \/ To(t, "done") /\ UNCHANGED faults
       \/ To(t, "raised") /\ faults < MaxFaults /\ faults' = faults + 1
    /\ UNCHANGED <<exists, known, tools>>

\* delete_by_text finds the text by its vector, near, or by its words as well, and then the
\* distance of the hit is lost and counts as too far.
QueryPoints(t) ==
    /\ At(t, "query") /\ step[t].into \in exists
    /\ \/ Copies(t) # {} /\ To(t, "erase")
       \/ To(t, "done")
    /\ UNCHANGED <<exists, points, known, written, faults, tools>>

Erase(t) ==
    /\ At(t, "erase") /\ step[t].into \in exists
    /\ points' = points \ Copies(t) /\ To(t, "done")
    /\ UNCHANGED <<exists, known, written, faults, tools>>

\* clear drops the collection of no agent, and then forgets it.
DropCollection(t) ==
    /\ At(t, "clear")
    /\ exists' = exists \ {step[t].into}
    /\ points' = {pt \in points : pt.in # step[t].into}
    /\ To(t, "discard")
    /\ UNCHANGED <<known, written, faults, tools>>

\* The request fails, or its answer is lost: the collection is still known, gone or not.
DropFails(t) ==
    /\ At(t, "clear") /\ faults < MaxFaults /\ faults' = faults + 1
    /\ \/ UNCHANGED <<exists, points>>
       \/ /\ exists' = exists \ {step[t].into}
          /\ points' = {pt \in points : pt.in # step[t].into}
    /\ To(t, "done")
    /\ UNCHANGED <<known, written, tools>>

Discard(t) ==
    /\ At(t, "discard")
    /\ known' = [known EXCEPT ![ProcessOf[t]] = @ \ {step[t].into}]
    /\ To(t, "done")
    /\ UNCHANGED <<exists, points, written, faults, tools>>

\* A request to a collection that is gone fails, and any other may; a
\* search whose collection cannot be made finds nothing.
Raises(t) ==
    /\ \/ step[t].at \in {"create", "embed", "upsert", "query", "erase"}
          /\ faults < MaxFaults /\ faults' = faults + 1
       \/ step[t].at \in {"upsert", "query", "erase"} /\ step[t].into \notin exists
          /\ UNCHANGED faults
    /\ To(t, IF At(t, "create") /\ step[t].op = "delete" THEN "done" ELSE "raised")
    /\ UNCHANGED <<exists, points, known, written, tools>>

Proceeds(t) ==
    \/ GetCollection(t) \/ GetFails(t) \/ CreateCollection(t) \/ Embed(t) \/ Upsert(t)
    \/ QueryPoints(t) \/ Erase(t) \/ DropCollection(t) \/ DropFails(t) \/ Discard(t) \/ Raises(t)

-----------------------------------------------------------------------------
\* The memory tools.  memory_clear clears the collection of no agent, whoever calls it.
MemoryClear(t) ==
    /\ tools < MaxTools /\ tools' = tools + 1
    /\ Begin(t, "clear", NoText, Base, NoRow)

ToolEnds(t) ==
    /\ step[t].at \in {"done", "raised"} /\ step[t].row = NoRow
    /\ step' = [step EXCEPT ![t] = NoStep]
    /\ UNCHANGED <<exists, points, known, written, faults, tools>>

\* memory_delete gets an id that a search gave: its uuid from search, its number from
\* keyword_search.  It looks for a number, in the collection of no agent, and never fails.
MemoryDelete(id) ==
    /\ tools < MaxTools /\ tools' = tools + 1
    /\ \E pt \in points : id \in {Number(pt), Uuid(pt)}
    /\ points' = {pt \in points : pt.in # Base \/ Number(pt) # id}
    /\ UNCHANGED <<exists, known, step, written, faults>>

\* The process stops and starts again.
Stops(p) ==
    /\ faults < MaxFaults /\ faults' = faults + 1
    /\ known' = [known EXCEPT ![p] = {}]
    /\ step' = [t \in Task |-> IF ProcessOf[t] = p THEN NoStep ELSE step[t]]
    /\ UNCHANGED <<exists, points, written, tools>>

==============================================================================
