--------------------------- MODULE MCOutboxWorker ---------------------------
(* Two processes with a worker and a tool call each; a memory to store, one to *)
(* delete and a row that cannot be read.                                       *)
EXTENDS OutboxWorker

CONSTANTS p1, p2, w1, w2, u1, store1, delete1, null1, other1, t1

MCProcessOf == [t \in Task |-> IF t \in {w1, u1} THEN p1 ELSE p2]
MCWorker    == [p \in Process |-> IF p = p1 THEN w1 ELSE w2]
MCRowOp     == [r \in Row |-> CASE r = store1 -> "store" [] r = delete1 -> "delete"
                                [] r = other1 -> "other" [] OTHER -> "unreadable"]
MCRowText   == [r \in Row |-> t1]
MCRowInto   == [r \in Row |-> Base]

==============================================================================
