---------------------------- MODULE OutboxWorker ----------------------------
(***************************************************************************)
(* The outbox of memories (planner/memory_recorder.py, process_outbox):    *)
(* rows that wait in a PostgreSQL table are written to the Qdrant memory   *)
(* by a worker in each process.  A worker takes a few of the waiting rows  *)
(* and settles them one by one.  The rows are locked for the length of the *)
(* SELECT only, so that two workers may take the same.                     *)
(*                                                                         *)
(* The rows come from outside of the repository; those that arrive while   *)
(* the workers run are like those that were not fetched yet.               *)
(***************************************************************************)
EXTENDS QdrantMemory, Functions

CONSTANTS
    Row, RowOp, RowText,   \* rows; what each asks for, of which text
    RowInto,               \* the collection of the agent its metadata name
    Worker, Limit,         \* the task of each process that is the worker; its batch
    MaxRows                \* bound: rows in the table

\* delete_by_text knows the collection of no agent only.
ASSUME OutboxAssumption ==
    /\ IsFiniteSet(Row) /\ NoRow \notin Row /\ Limit \in Nat
    /\ RowOp \in [Row -> {"store", "delete", "other", "unreadable"}]
    /\ \A r \in Row : RowOp[r] = "delete" => RowInto[r] = Base
    /\ \A p \in Process : Worker[p] \in Task /\ ProcessOf[Worker[p]] = p

VARIABLES
    row,      \* the status of each row
    batch,    \* the rows a worker has fetched and not settled yet
    stored,   \* history: how often a row was written to the memory
    raced     \* history: rows to store, taken while another worker had them or left unsettled

outboxVars == <<row, batch, stored, raced>>
systemVars == <<qdrantVars, outboxVars>>

Pending == {r \in Row : row[r] = "PENDING"}

OutboxInit ==
    /\ QdrantInit
    /\ row \in [Row -> {"absent", "PENDING"}] /\ Cardinality(Pending) <= MaxRows
    /\ batch = [p \in Process |-> <<>>]
    /\ stored = [r \in Row |-> 0] /\ raced = {}

ToStore == {r \in Row : RowOp[r] = "store"}

-----------------------------------------------------------------------------
\* Mutant: rows that failed are taken again.
NotSynced == {r \in Row : row[r] \in {"PENDING", "FAILED"}}
Fetchable == Pending

\* The SELECT has no order.
Fetch(p) ==
    /\ batch[p] = <<>> /\ Fetchable # {} /\ At(Worker[p], "idle")
    /\ LET n == IF Cardinality(Fetchable) < Limit THEN Cardinality(Fetchable) ELSE Limit IN
       \E b \in Injection(1..n, Fetchable) : batch' = [batch EXCEPT ![p] = b]
    /\ raced' = raced \cup {r \in ToStore \cap Range(batch'[p]) :
                              \E q \in Process \ {p} : r \in Range(batch[q])}
    /\ UNCHANGED <<qdrantVars, row, stored>>

\* A row whose payload cannot be read ends the batch: the worker sleeps and connects again.
Unreadable(p) ==
    /\ batch[p] # <<>> /\ At(Worker[p], "idle") /\ RowOp[Head(batch[p])] = "unreadable"
    /\ batch' = [batch EXCEPT ![p] = <<>>]
    /\ UNCHANGED <<qdrantVars, row, stored, raced>>

\* A row of any other event type asks for nothing, and that is done at once.
Nothing(t, r) ==
    /\ At(t, "idle")
    /\ step' = [step EXCEPT ![t] = [NoStep EXCEPT !.at = "done", !.op = "other", !.row = r]]
    /\ UNCHANGED <<exists, points, known, written, faults>>

StartRow(p) ==
    /\ batch[p] # <<>>
    /\ LET r == Head(batch[p]) IN
       \/ RowOp[r] \in {"store", "delete"} /\ Begin(Worker[p], RowOp[r], RowText[r], RowInto[r], r)
       \/ RowOp[r] = "other" /\ Nothing(Worker[p], r)
    /\ UNCHANGED <<outboxVars, tools>>

WorkerProceeds(p) ==
    LET r == step[Worker[p]].row IN
    /\ Proceeds(Worker[p])
    /\ stored' = IF At(Worker[p], "upsert") /\ points' # points
                 THEN [stored EXCEPT ![r] = @ + 1] ELSE stored
    /\ UNCHANGED <<row, batch, raced>>

\* Mutants: the error is logged only; the row is left for another try.
Swallowed(t) == "SYNCED"
Retried(t)   == IF At(t, "done") THEN "SYNCED" ELSE "PENDING"
Outcome(t)   == IF At(t, "done") THEN "SYNCED" ELSE "FAILED"

\* The row at the head of the batch is marked.
Mark(p, status, rest) ==
    LET t == Worker[p] IN
    /\ row' = [row EXCEPT ![step[t].row] = status]
    /\ batch' = [batch EXCEPT ![p] = rest]
    /\ step' = [step EXCEPT ![t] = NoStep]
    /\ UNCHANGED <<exists, points, known, written, tools, stored, raced>>

Settle(p) ==
    /\ step[Worker[p]].at \in {"done", "raised"}
    /\ Mark(p, Outcome(Worker[p]), Tail(batch[p]))
    /\ UNCHANGED faults

\* The UPDATE to SYNCED is refused, or its answer lost: it is in the try of the call, and the
\* row is marked FAILED, although it was carried out.
UpdateFails(p) ==
    /\ At(Worker[p], "done") /\ faults < MaxFaults /\ faults' = faults + 1
    /\ Mark(p, "FAILED", Tail(batch[p]))

\* The connection to PostgreSQL breaks, before the row was marked or after: the batch is left.
ConnectionLost(p) ==
    LET t == Worker[p] IN
    /\ step[t].at \in {"done", "raised"} /\ faults < MaxFaults /\ faults' = faults + 1
    /\ \/ /\ raced' = raced \cup (ToStore \cap {step[t].row})
          /\ batch' = [batch EXCEPT ![p] = <<>>]
          /\ step' = [step EXCEPT ![t] = NoStep]
          /\ UNCHANGED <<exists, points, known, written, tools, row, stored>>
       \/ Mark(p, Outcome(t), <<>>)

Crash(p) ==
    /\ Stops(p)
    /\ raced' = raced \cup (ToStore \cap {step[Worker[p]].row})
    /\ batch' = [batch EXCEPT ![p] = <<>>]
    /\ UNCHANGED <<row, stored>>

WorkerNext(p) == Fetch(p) \/ Unreadable(p) \/ StartRow(p) \/ WorkerProceeds(p) \/ Settle(p)

ToolTask == Task \ {Worker[p] : p \in Process}

OutboxNext ==
    \/ \E p \in Process : WorkerNext(p) \/ UpdateFails(p) \/ ConnectionLost(p) \/ Crash(p)
    \/ \E t \in ToolTask :
        /\ MemoryClear(t) \/ Proceeds(t) \/ ToolEnds(t)
        /\ UNCHANGED outboxVars
    \/ \E pt \in points : \E id \in {Number(pt), Uuid(pt)} : MemoryDelete(id) /\ UNCHANGED outboxVars

\* Every worker goes on.
OutboxSpec == OutboxInit /\ [][OutboxNext]_systemVars /\ \A p \in Process : WF_systemVars(WorkerNext(p))

-----------------------------------------------------------------------------
OutboxTypeOK ==
    /\ exists \subseteq Collection
    /\ \A pt \in points : pt.in \in exists /\ pt.n \in 1..written
    /\ row \in [Row -> {"absent", "PENDING", "SYNCED", "FAILED"}]
    /\ \A p \in Process : batch[p] \in Seq(Row) /\ Len(batch[p]) <= Limit

\* A row to store that is SYNCED was written, although another worker may have failed with it
\* (memory_recorder.py:144-158).  No such thing is true of the other rows: a deletion that
\* found nothing is SYNCED, and so is a row that asks for nothing the worker knows.
SyncedHasEffect == \A r \in Row : row[r] = "SYNCED" /\ RowOp[r] = "store" => stored[r] > 0

\* A row is written twice only if two workers had it at a time, or one had it when it lost
\* its process or its connection (memory_recorder.py:126-132, 152).
WrittenTwiceOnlyByRace == \A r \in Row \ raced : stored[r] <= 1

\* Without rows that cannot be read, every row is settled, also when the memory fails for good
\* (memory_recorder.py:163-173).
RowsSettle ==
    (\A r \in Row : RowOp[r] = "unreadable" => row[r] = "absent") => <>[](Pending = {})

==============================================================================
