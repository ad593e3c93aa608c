----------------------------- MODULE RagPipeline -----------------------------
(***************************************************************************)
(* The memory of one process: the RAG pipeline (engines/rag/rag.py) over   *)
(* the Rust memory or its Python fallback, and the tool calls that reach   *)
(* it (tools/internal/memory.py) through the retainer, the reflector and   *)
(* the recaller (hindsight/retainer.py, reflector.py, recaller.py).        *)
(*                                                                         *)
(* Calls share one event loop: a call runs alone up to its next await, and *)
(* then any other call may run.  The awaits are the embedding of a text,   *)
(* the answer of the model and the writes to the knowledge graph.          *)
(*                                                                         *)
(* A file is either missing (NoFile), half written (Torn), or holds a      *)
(* value.  The process may stop at any time and start again, from the      *)
(* files or, as get_pipeline does, without them.                           *)
(***************************************************************************)
EXTENDS AgentMemory, Sequences, FiniteSetsExt

CONSTANTS
    Call,           \* calls of the memory tools
    LongText,       \* the texts that are sent to the model for extraction
    Query,          \* the texts that documents are searched and deleted by
    Enough,         \* the experiences that a reflection needs (the code: 10)
    Fact, MaxItems, \* the facts the model extracts, and the most from one text
    Role, Unknown,  \* the roles that report a memory; a report without a role
    Penalty,        \* penalties that are reported, in sixtieths
    NoFile, Torn, NoDoc,
    MaxId,          \* bound: ids drawn between two resets
    MaxLives,       \* bound: clears and restarts
    MaxReports      \* bound: reports, all of one document (the code keeps the last 20)

ASSUME TextAssumption == LongText \cup Query \cup Fact \subseteq Text
ASSUME ReportsAssumption == MaxReports \in 0..20

VARIABLES
    useRust,    \* _use_rust
    nextId,     \* _next_id
    mem,        \* _memory, or _vectors and _texts
    call,       \* the calls: where they stand and what they have stored
    disk,       \* the files of save_to_disk
    life,       \* history: the number of clears and restarts
    lineage,    \* history: the life in which the memory started from nothing
    mixed,      \* history: a memory was loaded from files of different lineages
    forgotten   \* history: ids deleted since the last clear or restart

vars == <<useRust, nextId, mem, call, disk, life, lineage, mixed, forgotten>>
history == <<life, lineage, mixed, forgotten>>

\* The metadata of a document as JSON.  A text is taken not to be JSON.
Json(reports, score) == [reports |-> reports, score |-> score]
Fresh == Json(<<>>, 0)

\* at: idle, search, rank, extract, next, embed, and at the end done, raised or lost.
\* for: who stores the pending document doc, or forget.  A reflection is for reflect, a
\* search for recall.  kept: what the call has stored, or found.
NewCall == [at |-> "idle", for |-> "none", text |-> NoDoc, items |-> <<>>,
            doc |-> NoDoc, kept |-> {}]

\* A call at its end; only one that answered is asked for what it has stored.
Ended(me, how) == [NewCall EXCEPT !.at = how, !.for = me.for,
                                  !.kept = IF how = "done" THEN me.kept ELSE {}]

Init ==
    /\ useRust \in BOOLEAN
    /\ nextId = 0 /\ mem = NewMemory
    /\ call = [c \in Call |-> NewCall]
    /\ disk = [index |-> NoFile, metadata |-> NoFile, config |-> NoFile]
    /\ life = 0 /\ lineage = 0 /\ mixed = FALSE /\ forgotten = {}

-----------------------------------------------------------------------------
(* RAGPipeline.store                                                       *)

\* store: the id is drawn when the call begins, before the embedding is awaited.  me is
\* the record of the call that goes on to store t.
AfterDraw(n) == n + 1

Store(c, me, t, why) ==
    /\ nextId < MaxId
    /\ nextId' = AfterDraw(nextId)
    /\ call' = [call EXCEPT ![c] =
          [me EXCEPT !.at = "embed", !.for = why,
                     !.doc = [id |-> nextId, text |-> t, stamp |-> life]]]

\* What the backend holds then.  The wrapper of the core expects text and metadata in
\* the other order than store passes them; the fallback replaces an older vector too.
WithDoc(doc) ==
    IF useRust THEN Insert(mem, doc.id, doc.text, Fresh, doc.text, doc.stamp)
    ELSE Insert([mem EXCEPT !.index = {v \in @ : v.id # doc.id}],
                doc.id, doc.text, doc.text, Fresh, doc.stamp)

\* The text of a document as search hands it out.
TextOf(id) == IF useRust THEN mem.metadata[id].meta ELSE mem.metadata[id].text

\* search takes four times as many candidates as asked for, here one.
Candidates(q) == IF useRust THEN Search(mem, q, 4) ELSE Nearest(mem.index, q, 4)

-----------------------------------------------------------------------------
(* memory_store: the retainer and the tool's own fallback                  *)

\* A text below 150 characters is stored as it is.
RememberShort(c, t) ==
    /\ call[c].at = "idle" /\ t \notin LongText
    /\ Store(c, [call[c] EXCEPT !.text = t], t, "short")
    /\ UNCHANGED <<useRust, mem, disk, history>>

\* A longer one is looked up first.
RememberLong(c, t) ==
    /\ call[c].at = "idle" /\ t \in LongText
    /\ call' = [call EXCEPT ![c].at = "search", ![c].text = t]
    /\ UNCHANGED <<useRust, nextId, mem, disk, history>>

\* memory_store: the retainer returned no record, so the raw text is stored.
\* Mutant: the tool takes that for a text that is known.
TakeAsKnown(c, me) ==
    /\ call' = [call EXCEPT ![c] = Ended(me, "done")]
    /\ UNCHANGED nextId
NothingRetained(c, me) == Store(c, me, me.text, "raw")

\* memory_reflect: the experiences are searched for, and the model makes rules of them.
BeginReflect(c) ==
    /\ call[c].at = "idle"
    /\ call' = [call EXCEPT ![c].at = "search", ![c].for = "reflect"]
    /\ UNCHANGED <<useRust, nextId, mem, disk, history>>

\* Some of the documents are experiences of the agent.
Reflects(c) ==
    /\ call[c].at = "search" /\ call[c].for = "reflect"
    /\ \/ call' = [call EXCEPT ![c] = Ended(@, "done")]
       \/ /\ Cardinality(Live(mem, mem.index)) >= Enough
          /\ call' = [call EXCEPT ![c].at = "extract"]
    /\ UNCHANGED <<useRust, nextId, mem, disk, history>>

\* The search answers.  The reranker may put any candidate first; a near-zero distance
\* of the first makes the retainer return nothing.
Searched(c) ==
    /\ call[c].at = "search" /\ call[c].for \notin {"reflect", "recall"}
    /\ \E S \in Candidates(call[c].text) :
          \/ /\ \E v \in S : Distance(call[c].text, v.text) = 0
             /\ NothingRetained(c, call[c])
          \/ /\ S = {} \/ \E v \in S : Distance(call[c].text, v.text) # 0
             /\ call' = [call EXCEPT ![c].at = "extract"]
             /\ UNCHANGED nextId
    /\ UNCHANGED <<useRust, mem, disk, history>>

\* What an answer of the model is parsed into; one that a reflection cannot read gives no
\* rules.
FactLists == UNION {[1..n -> Fact] : n \in 0..MaxItems}

Extract(c) ==
    /\ call[c].at = "extract"
    /\ \E items \in FactLists :
          call' = [call EXCEPT ![c].at = "next", ![c].items = items]
    /\ UNCHANGED <<useRust, nextId, mem, disk, history>>

\* The loop over the facts: the next is stored, or the records are returned.
NextItem(c) ==
    /\ call[c].at = "next" /\ call[c].items # <<>>
    /\ Store(c, [call[c] EXCEPT !.items = Tail(@)], Head(call[c].items),
             IF call[c].for = "reflect" THEN "reflect" ELSE "item")
    /\ UNCHANGED <<useRust, mem, disk, history>>

EndOfItems(c) ==
    /\ call[c].at = "next" /\ call[c].items = <<>>
    /\ IF call[c].kept = {} /\ call[c].for # "reflect" THEN NothingRetained(c, call[c])
       ELSE call' = [call EXCEPT ![c] = Ended(@, "done")] /\ UNCHANGED nextId
    /\ UNCHANGED <<useRust, mem, disk, history>>

\* A reflection that fails on the way gives no rules, whatever it has stored.
NoRules(c) == call' = [call EXCEPT ![c] = [Ended(@, "done") EXCEPT !.kept = {}]]

\* The model fails, its answer cannot be parsed, or a fact has an unknown category: the
\* retainer stores the raw text with the error and returns no record.
ExtractFails(c) ==
    /\ \/ call[c].at = "extract"
       \/ call[c].at = "next" /\ call[c].items # <<>>
    /\ IF call[c].for = "reflect" THEN NoRules(c) /\ UNCHANGED nextId
       ELSE Store(c, call[c], call[c].text, "error")
    /\ UNCHANGED <<useRust, mem, disk, history>>

\* The embedding is there: the document is stored, and the call runs on.
Stored(c) ==
    /\ call[c].at = "embed" /\ call[c].for # "forget"
    /\ LET me == [call[c] EXCEPT !.kept = @ \cup
                    {[id |-> call[c].doc.id, text |-> call[c].doc.text,
                      stamp |-> call[c].doc.stamp, born |-> life]}]
       IN
        /\ mem' = WithDoc(me.doc)
        /\ CASE me.for \in {"short", "raw"} ->
                  call' = [call EXCEPT ![c] = Ended(me, "done")] /\ UNCHANGED nextId
             [] me.for \in {"item", "reflect"} ->
                  call' = [call EXCEPT ![c] = [me EXCEPT !.at = "next"]] /\ UNCHANGED nextId
             [] me.for = "error" -> NothingRetained(c, me)
    /\ UNCHANGED <<useRust, disk, history>>

\* The embedding fails or times out.  Inside the loop the retainer falls back to the raw
\* text, and a reflection ends; a search of the Rust memory answers that it found nothing;
\* anywhere else the tool raises.  The drawn id is not used again.
EmbedFails(c) ==
    /\ call[c].at \in {"embed", "search"}
    /\ IF call[c].at = "embed" /\ call[c].for = "item"
       THEN Store(c, call[c], call[c].text, "error")
       ELSE IF call[c].at = "embed" /\ call[c].for = "reflect"
       THEN NoRules(c) /\ UNCHANGED nextId
       ELSE /\ call' = [call EXCEPT ![c] =
                          Ended(@, IF useRust /\ call[c].for = "recall" THEN "done" ELSE "raised")]
            /\ UNCHANGED nextId
    /\ UNCHANGED <<useRust, mem, disk, history>>

-----------------------------------------------------------------------------
(* memory_search: the recaller and the reranker                            *)

BeginRecall(c, t) ==
    /\ call[c].at = "idle"
    /\ call' = [call EXCEPT ![c].at = "search", ![c].for = "recall", ![c].text = t]
    /\ UNCHANGED <<useRust, nextId, mem, disk, history>>

\* A document as it is when the search looks it up.
Handed(id) == [id |-> id, text |-> TextOf(id), stamp |-> mem.metadata[id].stamp, born |-> life]

\* The ranks of a document in the searches, its age and its importance say whether it is
\* among the best of S: any of them may be.
Best(S) == SUBSET S

\* What is found of the candidates S.  Of equal texts one is left.  Hits of the knowledge
\* graph bring nothing, since they have no text.
Found(S) == {{Handed(v.id) : v \in best} : best \in Best(S)}

\* The searches are over, whichever of them failed.  A model ranks what was found.  Without
\* the Rust extension, which drops the equal texts, the call raises.
Recalls(c) ==
    /\ call[c].at = "search" /\ call[c].for = "recall"
    /\ \/ useRust /\ \E S \in Candidates(call[c].text) : \E found \in Found(S) :
             call' = [call EXCEPT ![c] = IF found = {} THEN Ended(@, "done")
                                         ELSE [@ EXCEPT !.at = "rank", !.kept = found]]
       \/ ~useRust /\ call' = [call EXCEPT ![c] = Ended(@, "raised")]
    /\ UNCHANGED <<useRust, nextId, mem, disk, history>>

\* The documents are handed out as they were looked up, whatever happened to them since.
\* Without an answer of the model they keep a default relevance; one whose scores are no
\* numbers raises.
Ranked(c) ==
    /\ call[c].at = "rank"
    /\ \E how \in {"done", "raised"} : call' = [call EXCEPT ![c] = Ended(@, how)]
    /\ UNCHANGED <<useRust, nextId, mem, disk, history>>

-----------------------------------------------------------------------------
(* delete_by_text, clear, memory_feedback                                  *)

BeginForget(c, t) ==
    /\ call[c].at = "idle"
    /\ call' = [call EXCEPT ![c].at = "embed", ![c].for = "forget", ![c].text = t]
    /\ UNCHANGED <<useRust, nextId, mem, disk, history>>

\* The nearest document goes if it is similar.  On the Rust side the entry is read back
\* with its strings exchanged: the text is parsed as JSON after the removal, and the
\* call raises.
Forget(c) ==
    /\ call[c].at = "embed" /\ call[c].for = "forget"
    /\ \E S \in IF useRust THEN Search(mem, call[c].text, 1)
                ELSE Nearest(mem.index, call[c].text, 1) :
          LET hits == {v \in S : Distance(call[c].text, v.text) < 2}
              id   == (CHOOSE v \in hits : TRUE).id
          IN  \/ /\ hits = {}
                 /\ call' = [call EXCEPT ![c] = Ended(@, "done")]
                 /\ UNCHANGED <<mem, forgotten>>
              \/ /\ hits # {}
                 /\ mem' = LET rest == Remove(mem, id) IN
                           IF useRust THEN rest
                           ELSE [rest EXCEPT !.index = {v \in @ : v.id # id}]
                 /\ forgotten' = forgotten \cup {id}
                 /\ call' = [call EXCEPT ![c] = Ended(@,
                       IF useRust /\ mem.metadata[id].meta \in Text THEN "raised" ELSE "done")]
    /\ UNCHANGED <<useRust, nextId, disk, life, lineage, mixed>>

\* clear, between two awaits of the others: pending stores keep the ids they drew.
Clear ==
    /\ life < MaxLives
    /\ nextId' = 0 /\ mem' = NewMemory
    /\ life' = life + 1 /\ lineage' = life + 1 /\ forgotten' = {}
    /\ UNCHANGED <<useRust, call, disk, mixed>>

\* The roles whose reports count, each with its latest.  Mutant: every report counts.
Every(reports, n)   == TRUE
Counts(reports, n)  == \A m \in n+1..Len(reports) : reports[m].role # reports[n].role
Opinions(reports)   == {n \in DOMAIN reports : reports[n].role # Unknown /\ Counts(reports, n)}

\* The average of the opinions, capped by how many there are and never below zero.
Cap(n) == IF n <= 1 THEN 24 ELSE IF n = 2 THEN 42 ELSE 60
Within(a, most) == IF a \in 0..most THEN a ELSE IF a > most THEN most ELSE 0
Score(reports) ==
    LET S == Opinions(reports)
        n == Cardinality(S)
    IN  IF n = 0 THEN Within(reports[Len(reports)].penalty, 12)
        ELSE Within(MapThenSumSet(LAMBDA i : reports[i].penalty, S) \div n, Cap(n))

\* retrieve and update_metadata.  The Rust memory hands out no single record, so there
\* nothing is updated.
ReportsOf(id)          == mem.metadata[id].meta.reports
UpdateMetadata(id, md) == [mem EXCEPT !.metadata[id].meta = md]

\* memory_feedback: a lock keeps the calls apart, and nothing in it is waited for.
Feedback(id, r, p) ==
    /\ ~useRust /\ id \in DOMAIN mem.metadata
    /\ \A i \in DOMAIN mem.metadata \ {id} : mem.metadata[i].meta = Fresh
    /\ LET reports == Append(ReportsOf(id), [role |-> r, penalty |-> p])
       IN  /\ Len(reports) <= MaxReports
           /\ mem' = UpdateMetadata(id, Json(reports, Score(reports)))
    /\ UNCHANGED <<useRust, nextId, call, disk, history>>

-----------------------------------------------------------------------------
(* save_to_disk, load_from_disk, and the end of the process                *)

\* The files in the order of writing.  Mutant: the index is written after the metadata.
MetadataFirst == <<"metadata", "index", "config">>
Files         == <<"index", "metadata", "config">>

\* The files after the first n were written and, if torn, the next was begun.  Nothing
\* else runs meanwhile.  The file of the fallback is not among them: load_from_disk does
\* not read it.
Written(n, torn) ==
    LET new == [index    |-> [value |-> mem.index, line |-> lineage],
                metadata |-> [value |-> mem.metadata, line |-> lineage],
                config   |-> [value |-> nextId, line |-> lineage]]
    IN  [f \in DOMAIN disk |->
            IF ~useRust THEN disk[f]
            ELSE IF \E i \in 1..n : Files[i] = f THEN new[f]
            ELSE IF torn /\ Files[n + 1] = f THEN Torn ELSE disk[f]]

Save ==
    /\ disk' = Written(3, FALSE)
    /\ UNCHANGED <<useRust, nextId, mem, call, life, lineage, mixed, forgotten>>

Loadable(d) == d.config \notin {NoFile, Torn} /\ d.index \notin {NoFile, Torn} /\ d.metadata # Torn

\* The process is gone; a new one starts from the files d, or from nothing: because it
\* does not ask for them, they are not there, or they cannot be read.
StartAgain(d) ==
    /\ life < MaxLives
    /\ life' = life + 1 /\ forgotten' = {}
    /\ call' = [c \in Call |-> IF call[c].at \in {"idle", "done", "raised"} THEN call[c]
                               ELSE Ended(call[c], "lost")]
    /\ disk' = d
    /\ \/ nextId' = 0 /\ mem' = NewMemory /\ lineage' = life + 1 /\ UNCHANGED mixed
       \/ /\ Loadable(d)
          /\ nextId' = d.config.value
          /\ IF d.metadata = NoFile
             THEN /\ mem' = [index |-> d.index.value, metadata |-> <<>>]
                  /\ lineage' = d.index.line /\ UNCHANGED mixed
             ELSE /\ mem' = [index |-> d.index.value, metadata |-> d.metadata.value]
                  /\ lineage' = d.metadata.line
                  /\ mixed' = (mixed \/ d.index.line # d.metadata.line)
    /\ UNCHANGED useRust

Restart == StartAgain(disk)
CrashInSave == \E n \in 0..2, torn \in BOOLEAN : StartAgain(Written(n, torn))

-----------------------------------------------------------------------------
Next ==
    \/ \E c \in Call :
          \/ \E t \in Text : RememberShort(c, t) \/ RememberLong(c, t)
          \/ \E t \in Query : BeginForget(c, t) \/ BeginRecall(c, t)
          \/ BeginReflect(c) \/ Reflects(c)
          \/ Searched(c) \/ Extract(c) \/ NextItem(c) \/ EndOfItems(c) \/ ExtractFails(c)
          \/ Stored(c) \/ EmbedFails(c) \/ Recalls(c) \/ Ranked(c) \/ Forget(c)
    \/ Clear \/ Save \/ Restart \/ CrashInSave
    \/ \E id \in 0..MaxId-1, r \in Role \cup {Unknown}, p \in Penalty : Feedback(id, r, p)

Spec == Init /\ [][Next]_vars

-----------------------------------------------------------------------------
\* Types, and that every id the memory and the pending stores hold was drawn.
DocId == 0..MaxId-1
TypeOK ==
    /\ useRust \in BOOLEAN /\ nextId \in 0..MaxId
    /\ life \in 0..MaxLives /\ lineage \in 0..life /\ mixed \in BOOLEAN
    /\ forgotten \subseteq DocId
    /\ \A v \in mem.index : v.id \in DocId /\ v.text \in Text /\ v.stamp \in 0..life
    /\ DOMAIN mem.metadata \subseteq DocId
    /\ \A i \in DOMAIN mem.metadata :
          TextOf(i) \in Text /\ mem.metadata[i].stamp \in 0..life
    /\ \A c \in Call :
          /\ call[c].at \in {"idle", "search", "rank", "extract", "next", "embed", "done", "raised", "lost"}
          /\ call[c].at = "embed" /\ call[c].for # "forget" => call[c].doc.id \in DocId
          /\ Cardinality(call[c].kept) <= MaxItems + 2

\* A memory_store that answered "Stored" has stored something, and what it, or a
\* reflection, says it stored, and what a search handed out, is still there with that text,
\* unless the memory was cleared or lost since, the document was deleted, or an id drawn in
\* another life took its place (memory.py:23-30, retainer.py:203-215, rag.py:122).
ToldIsKept ==
    \A c \in Call : call[c].at = "done" /\ call[c].for # "forget" =>
        /\ call[c].for \notin {"reflect", "recall"} => call[c].kept # {}
        /\ \A k \in call[c].kept : k.born = life =>
              \/ k.id \in forgotten
              \/ /\ k.id \in DOMAIN mem.metadata
                 /\ mem.metadata[k.id].stamp = k.stamp => TextOf(k.id) = k.text

\* Deleted documents keep their vectors.  A deletion by text still finds the nearest live
\* document as long as fewer than OverFetch deleted ones are as near (mod.rs:80-86, 117).
MissedOnlyWhenCrowded ==
    useRust => \A q \in Text, w \in Live(mem, mem.index) :
        LET nearer == {v \in mem.index \ Live(mem, mem.index) :
                         Distance(q, v.text) <= Distance(q, w.text)}
        IN  Cardinality(nearer) < OverFetch =>
              \A S \in Search(mem, q, 1) :
                  \E v \in S : Distance(q, v.text) <= Distance(q, w.text)

\* Whatever write of a save the process died in, every document of the memory it starts
\* again with can be found: its vector is in the index.  The index is written first, so
\* only files that a clear came between can miss one (io.rs:27-38).
FindableAfterLoad ==
    mixed \/ \A i \in DOMAIN mem.metadata : \E v \in mem.index : v.id = i

\* However often it reports, one role alone cannot take a memory's penalty above 0.4, nor
\* two above 0.7, nor reports without a role above 0.2 (memory.py:115-142).
PenaltyNeedsQuorum ==
    ~useRust => \A i \in DOMAIN mem.metadata :
        LET meta  == mem.metadata[i].meta
            roles == {meta.reports[n].role : n \in DOMAIN meta.reports} \ {Unknown}
        IN  /\ meta.score > 12 => roles # {}
            /\ meta.score > 24 => Cardinality(roles) >= 2
            /\ meta.score > 42 => Cardinality(roles) >= 3

==============================================================================
