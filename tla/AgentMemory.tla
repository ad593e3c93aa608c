----------------------------- MODULE AgentMemory -----------------------------
(***************************************************************************)
(* The vector memory of the Rust core (seahorse-core/src/memory) as a      *)
(* value and the operations on it: an append-only index of vectors, and a  *)
(* map from document ids to two strings, which the core calls text and     *)
(* meta.  A document is deleted from the map only; its vector stays.       *)
(*                                                                         *)
(* A vector stands for the text it was computed from.  The index library   *)
(* is external: it is taken to return the nearest vectors, in any order    *)
(* among those of the same distance.                                       *)
(*                                                                         *)
(* stamp is history: it says in which life of the pipeline the id of the   *)
(* vector, or of the document, was drawn.                                  *)
(***************************************************************************)
EXTENDS Naturals, FiniteSets

CONSTANTS
    Text,       \* facts and queries
    Near,       \* the pairs of different texts that are similar
    OverFetch   \* the factor of the over-fetch in search

ASSUME OverFetchAssumption == OverFetch \in Nat \ {0}

-----------------------------------------------------------------------------
\* The distance of two texts: 0 below the threshold of a duplicate, 1 below the one
\* of a deletion, 2 above both.
Distance(q, t) == IF q = t THEN 0 ELSE IF <<q, t>> \in Near THEN 1 ELSE 2

NewMemory == [index |-> {}, metadata |-> <<>>]

\* AgentMemory.insert: the vector joins the index, the two strings replace what the
\* map holds for the id.
Insert(mem, id, vector, text, meta, stamp) ==
    [index    |-> mem.index \cup {[id |-> id, text |-> vector, stamp |-> stamp]},
     metadata |-> [i \in DOMAIN mem.metadata \cup {id} |->
                     IF i = id THEN [text |-> text, meta |-> meta, stamp |-> stamp]
                     ELSE mem.metadata[i]]]

\* The n nearest vectors to q: any set of them that no other vector is nearer than.
Nearest(vectors, q, n) ==
    {S \in SUBSET vectors :
        /\ Cardinality(S) = IF Cardinality(vectors) < n THEN Cardinality(vectors) ELSE n
        /\ \A v \in S, w \in vectors \ S : Distance(q, v.text) <= Distance(q, w.text)}

\* AgentMemory.search: the possible results.  More vectors than asked for are fetched,
\* those of deleted documents fall out, and the nearest k of the rest are returned.
\* The penalty in the metadata string counts when that string is an object; the only
\* caller stores a text there.  Mutant: no more is fetched than asked for.
JustFetched(k) == k
Fetched(k)     == k * OverFetch

Live(mem, vectors) == {v \in vectors : v.id \in DOMAIN mem.metadata}

Search(mem, q, k) ==
    UNION {Nearest(Live(mem, S), q, k) : S \in Nearest(mem.index, q, Fetched(k))}

\* AgentMemory.remove.
Remove(mem, id) ==
    [mem EXCEPT !.metadata = [i \in DOMAIN @ \ {id} |-> @[i]]]

==============================================================================
