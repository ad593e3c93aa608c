--------------------------- MODULE Memory_proofs ----------------------------
(***************************************************************************)
(* The memories: the one of a process (RagPipeline), and the one that the  *)
(* outbox fills (OutboxWorker).                                            *)
(*                                                                         *)
(* The memory of a process keeps what it said it stored, finds what it     *)
(* holds, after a start from files as well, and no role alone condemns a   *)
(* document, for any texts, calls, documents, clears and restarts.  The    *)
(* workers of the outbox call no row synced that was not written, and      *)
(* write none twice without a race, for any rows, processes, failures and  *)
(* crashes.                                                                *)
(***************************************************************************)
EXTENDS RagPipeline, OutboxWorker, FiniteSetTheorems, TLAPS

-----------------------------------------------------------------------------
(* Types                                                                   *)

Txt    == Text \cup {NoDoc}
Vector == [id : Nat, text : Txt, stamp : Nat]
Report == [role : Role \cup {Unknown}, penalty : Penalty]
Meta   == [reports : Seq(Report), score : 0..60]
Doc    == [text : Txt \cup Meta, meta : Txt \cup Meta, stamp : Nat]
Pend   == [id : Nat, text : Txt, stamp : Nat]
Kept   == [id : Nat, text : Txt \cup Meta, stamp : Nat, born : Nat]
Phases == {"idle", "search", "rank", "extract", "next", "embed", "done", "raised", "lost"}
Whys   == {"none", "short", "raw", "item", "error", "reflect", "recall", "forget"}
CallRec == [at : Phases, for : Whys, text : Txt, items : Seq(Fact), doc : Pend \cup {NoDoc},
            kept : SUBSET Kept]

IndexOK(ix) == ix \subseteq Vector /\ IsFiniteSet(ix)
DocsOK(md)  == DOMAIN md \subseteq Nat /\ md \in [DOMAIN md -> Doc]
Shared ==
    /\ useRust \in BOOLEAN /\ nextId \in Nat /\ life \in Nat /\ lineage \in 0..life
    /\ mixed \in BOOLEAN
    /\ mem = [index |-> mem.index, metadata |-> mem.metadata]
    /\ IndexOK(mem.index) /\ DocsOK(mem.metadata)

-----------------------------------------------------------------------------
(* The penalties                                                           *)

RolesOf(reports) == {reports[n].role : n \in DOMAIN reports} \ {Unknown}
Judged(meta) ==
    /\ meta \in Meta
    /\ meta.score > 12 => RolesOf(meta.reports) # {}
    /\ meta.score > 24 => Cardinality(RolesOf(meta.reports)) >= 2
    /\ meta.score > 42 => Cardinality(RolesOf(meta.reports)) >= 3

\* The fallback deletes vector and document together, too.
PenaltyInv ==
    ~useRust => /\ \A i \in DOMAIN mem.metadata : Judged(mem.metadata[i].meta)
                /\ \A v \in mem.index : v.id \in DOMAIN mem.metadata

-----------------------------------------------------------------------------
(* The files                                                               *)

Held(file)      == file \notin {NoFile, Torn}
Covered(md, ix) == \A i \in DOMAIN md : \E v \in ix : v.id = i
OfOld(md, l)    == \A i \in DOMAIN md : md[i].stamp <= l

\* The files d fit each other, and the memory, when they are of its lineage.
DiskInv(d) ==
    /\ DOMAIN d = {"index", "metadata", "config"}
    /\ ~useRust => ~Held(d.index) /\ ~Held(d.metadata) /\ ~Held(d.config)
    /\ Held(d.index) => IndexOK(d.index.value) /\ d.index.line \in 0..life
    /\ Held(d.metadata) => /\ DocsOK(d.metadata.value) /\ OfOld(d.metadata.value, life)
                           /\ d.metadata.line \in 0..life
    /\ Held(d.config) => d.config.value \in Nat
    /\ mixed \/ (Held(d.metadata) =>
          /\ d.metadata.line = lineage => Covered(d.metadata.value, mem.index)
          /\ Held(d.index) /\ d.index.line = d.metadata.line =>
                Covered(d.metadata.value, d.index.value))

FilesInv == DiskInv(disk) /\ (mixed \/ Covered(mem.metadata, mem.index))

-----------------------------------------------------------------------------
(* The calls                                                               *)

\* The call holds a document that is not stored yet.
Waits(x)    == x.at = "embed" /\ x.for # "forget"
Drawn(d, n) == d.stamp <= life /\ (d.stamp = life => d.id < n)
Differ(d, e) == d.id # e.id \/ d.stamp # e.stamp

TextIn(m, id) == IF useRust THEN m.metadata[id].meta ELSE m.metadata[id].text
There(k, m, gone) ==
    \/ k.id \in gone
    \/ /\ k.id \in DOMAIN m.metadata
       /\ m.metadata[k.id].stamp = k.stamp => TextIn(m, k.id) = k.text

Answers(x) ==
    /\ x.at = "done" /\ x.for \notin {"forget", "reflect", "recall"} => x.kept # {}
    /\ x.at = "rank" => x.for = "recall"

DocOf(m, i) == [id |-> i, stamp |-> m.metadata[i].stamp]

\* No two documents are drawn under one id in one life, whether they are held, handed out or
\* still to be stored.
CallsInv(cl, n, m, gone) ==
    /\ cl \in [Call -> CallRec]
    /\ \A c \in Call : Waits(cl[c]) =>
          cl[c].for \notin {"none", "recall"} /\ cl[c].doc \in Pend /\ Drawn(cl[c].doc, n)
    /\ \A c, d \in Call : Waits(cl[c]) /\ Waits(cl[d]) /\ c # d => Differ(cl[c].doc, cl[d].doc)
    /\ \A c \in Call : \A k \in cl[c].kept :
          /\ k.stamp <= k.born /\ k.born <= life
          /\ k.born = life =>
                /\ Drawn(k, n) /\ There(k, m, gone)
                /\ \A d \in Call : Waits(cl[d]) => Differ(k, cl[d].doc)
    /\ \A c \in Call : Answers(cl[c])
    /\ \A i \in DOMAIN m.metadata :
          /\ Drawn(DocOf(m, i), n)
          /\ \A c \in Call : Waits(cl[c]) => Differ(DocOf(m, i), cl[c].doc)

IInv == Shared /\ PenaltyInv /\ FilesInv /\ CallsInv(call, nextId, mem, forgotten)

-----------------------------------------------------------------------------
(* A deletion finds the nearest document                                   *)

\* Where the index is finite, this is so whatever it and the map hold: when the vectors that
\* were fetched are as many as were asked for, not all of them are of deleted documents.
LEMMA NearestIsFetched ==
  ASSUME IndexOK(mem.index), NEW q, NEW w \in Live(mem, mem.index),
         Cardinality({v \in mem.index \ Live(mem, mem.index) :
                        Distance(q, v.text) <= Distance(q, w.text)}) < OverFetch,
         NEW S \in Search(mem, q, 1)
  PROVE  \E v \in S : Distance(q, v.text) <= Distance(q, w.text)
  <1> DEFINE D(v) == Distance(q, v.text)
             nearer == {v \in mem.index \ Live(mem, mem.index) : D(v) <= D(w)}
             n == Cardinality(mem.index)
  <1>1. \A v : D(v) \in Nat BY DEF Distance
  <1>2. IsFiniteSet(mem.index) /\ n \in Nat /\ w \in mem.index
    BY FS_CardinalityType DEF IndexOK, Live
  <1>3. PICK F \in Nearest(mem.index, q, Fetched(1)) : S \in Nearest(Live(mem, F), q, 1)
    BY DEF Search
  <1>4. /\ F \subseteq mem.index /\ IsFiniteSet(F)
        /\ Cardinality(F) = IF n < OverFetch THEN n ELSE OverFetch
        /\ \A v \in F, u \in mem.index \ F : D(v) <= D(u)
    <2>1. Fetched(1) = OverFetch BY OverFetchAssumption DEF Fetched
    <2>2. F \subseteq mem.index BY <1>3 DEF Nearest
    <2> QED BY <1>2, <1>3, <2>1, <2>2, FS_Subset DEF Nearest
  <1>5. \E x \in Live(mem, F) : D(x) <= D(w)
    <2>1. CASE w \in F
      <3>1. w \in Live(mem, F) BY <2>1 DEF Live
      <3> QED BY <3>1, <1>1
    <2>2. CASE w \notin F
      <3>1. Cardinality(F) = OverFetch
        <4>1. CASE n < OverFetch
          <5>1. F = mem.index BY <1>2, <1>4, <4>1, FS_Subset
          <5> QED BY <5>1, <1>2, <2>2
        <4> QED BY <4>1, <1>4
      <3>2. \A v \in F : D(v) <= D(w) BY <1>2, <1>4, <2>2
      <3>3. ~(F \subseteq nearer)
        <4>1. IsFiniteSet(nearer) /\ Cardinality(nearer) \in Nat
          BY <1>2, FS_Subset, FS_CardinalityType
        <4>2. Cardinality(nearer) < OverFetch OBVIOUS
        <4> SUFFICES ASSUME F \subseteq nearer PROVE FALSE OBVIOUS
        <4>3. Cardinality(F) <= Cardinality(nearer) BY <4>1, FS_Subset
        <4> HIDE DEF nearer
        <4> QED BY <3>1, <4>1, <4>2, <4>3, OverFetchAssumption
      <3>4. PICK x \in F : x \notin nearer BY <3>3
      <3>5. x \in Live(mem, F) BY <1>4, <3>2, <3>4 DEF Live
      <3> QED BY <3>2, <3>5
    <2> QED BY <2>1, <2>2
  <1>6. PICK x \in Live(mem, F) : D(x) <= D(w) BY <1>5
  <1>7. /\ S \subseteq Live(mem, F) /\ IsFiniteSet(Live(mem, F)) /\ S # {}
        /\ \A v \in S, u \in Live(mem, F) \ S : D(v) <= D(u)
    <2>1. Live(mem, F) \subseteq F BY DEF Live
    <2>2. IsFiniteSet(Live(mem, F)) BY <1>4, <2>1, FS_Subset
    <2>3. Cardinality(Live(mem, F)) \in Nat /\ Cardinality(Live(mem, F)) # 0
      BY <2>2, <1>6, FS_CardinalityType, FS_EmptySet
    <2>4. Cardinality(S) = 1
      <3>1. Cardinality(S) = IF Cardinality(Live(mem, F)) < 1
                             THEN Cardinality(Live(mem, F)) ELSE 1
        BY <1>3 DEF Nearest
      <3> QED BY <2>3, <3>1
    <2>5. S # {} BY <2>4, FS_EmptySet
    <2> QED BY <1>3, <2>2, <2>5 DEF Nearest
  <1>8. PICK v \in S : TRUE BY <1>7
  <1>9. CASE x \in S BY <1>6, <1>9
  <1>10. CASE x \notin S
    <2>1. D(v) <= D(x) BY <1>7, <1>8, <1>10, <1>6
    <2>2. D(v) <= D(w) BY <1>1, <1>6, <2>1
    <2> QED BY <1>8, <2>2
  <1> QED BY <1>9, <1>10

-----------------------------------------------------------------------------
(* The penalties                                                           *)

\* As many opinions as roles have one: a role that reports again changes its mind.
LEMMA OpinionsAreRoles ==
  ASSUME NEW reports \in Seq(Report)
  PROVE  /\ IsFiniteSet(Opinions(reports)) /\ IsFiniteSet(RolesOf(reports))
         /\ Cardinality(Opinions(reports)) \in Nat /\ Cardinality(RolesOf(reports)) \in Nat
         /\ Cardinality(Opinions(reports)) <= Cardinality(RolesOf(reports))
         /\ Opinions(reports) # {} => RolesOf(reports) # {}
  <1> DEFINE all == DOMAIN reports
             S   == Opinions(reports)
             T   == RolesOf(reports)
             f   == [n \in S |-> reports[n].role]
             g   == [n \in all |-> reports[n].role]
  <1>1. all = 1 .. Len(reports) /\ Len(reports) \in Nat OBVIOUS
  <1>2. IsFiniteSet(all) BY <1>1, FS_Interval
  <1>3. S \subseteq all /\ IsFiniteSet(S) BY <1>2, FS_Subset DEF Opinions
  <1>4. IsFiniteSet(T)
    <2>1. g \in Surjection(all, {reports[n].role : n \in all})
      BY DEF Surjection
    <2>2. IsFiniteSet({reports[n].role : n \in all}) BY <1>2, <2>1, FS_Surjection
    <2> QED BY <2>2, FS_Subset DEF RolesOf
  <1>5. f \in Injection(S, T)
    <2>1. f \in [S -> T] BY <1>3 DEF Opinions, RolesOf
    <2>2. ASSUME NEW m \in S, NEW n \in S, f[m] = f[n] PROVE m = n
      <3>1. m \in 1 .. Len(reports) /\ n \in 1 .. Len(reports) /\ Len(reports) \in Nat
        BY <1>1, <1>3
      <3>2. ~(m < n) BY <2>2, <3>1 DEF Opinions, Counts
      <3>3. ~(n < m) BY <2>2, <3>1 DEF Opinions, Counts
      <3> QED BY <3>1, <3>2, <3>3
    <2> QED BY <2>1, <2>2 DEF Injection, IsInjective
  <1>6. Cardinality(S) <= Cardinality(T) BY <1>4, <1>5, FS_Injection
  <1>7. S # {} => T # {} BY <1>3 DEF Opinions, RolesOf
  <1> QED BY <1>3, <1>4, <1>6, <1>7, FS_CardinalityType

\* The average of n opinions of at most r roles is within the tier of n, and so of r
\* (memory.py:130-144).
LEMMA TiersOfCap ==
  ASSUME NEW n \in Nat, NEW r \in Nat, n <= r, NEW score,
         n = 0 => score \in 0 .. 12, n # 0 => score \in 0 .. Cap(n)
  PROVE  /\ score \in 0 .. 60
         /\ score > 12 => n # 0
         /\ score > 24 => r >= 2
         /\ score > 42 => r >= 3
  <1>1. CASE n = 0 BY <1>1
  <1>2. CASE n = 1 BY <1>2 DEF Cap
  <1>3. CASE n = 2 BY <1>3 DEF Cap
  <1>4. CASE n > 2 BY <1>4 DEF Cap
  <1> QED BY <1>1, <1>2, <1>3, <1>4

\* A score stays within what the number of roles allows.
LEMMA ScoreIsJudged ==
  ASSUME NEW reports \in Seq(Report)
  PROVE  Judged(Json(reports, Score(reports)))
  <1> DEFINE n == Cardinality(Opinions(reports))
             r == Cardinality(RolesOf(reports))
             score == Score(reports)
  <1>1. /\ n \in Nat /\ r \in Nat /\ n <= r
        /\ n # 0 => RolesOf(reports) # {}
    BY OpinionsAreRoles, FS_EmptySet
  <1>2. \A a : \A most \in Nat : Within(a, most) \in 0 .. most BY DEF Within
  <1>3. /\ n = 0 => score \in 0 .. 12
        /\ n # 0 => score \in 0 .. Cap(n)
    <2>1. \A m \in Nat : Cap(m) \in Nat BY DEF Cap
    <2>2. n = 0 => score \in 0 .. 12 BY <1>2 DEF Score
    <2>3. n # 0 => score \in 0 .. Cap(n) BY <1>1, <1>2, <2>1 DEF Score
    <2> QED BY <2>2, <2>3
  <1> HIDE DEF n, r, score
  <1>4. /\ score \in 0 .. 60
        /\ score > 12 => n # 0
        /\ score > 24 => r >= 2
        /\ score > 42 => r >= 3
    BY <1>1, <1>3, TiersOfCap
  <1>5. Json(reports, score) \in Meta BY <1>4 DEF Json, Meta
  <1> QED BY <1>1, <1>4, <1>5 DEF Judged, Json, r, score

\* A document without reports has no penalty.
LEMMA FreshIsJudged == Judged(Fresh)
  <1>1. <<>> \in Seq(Report) OBVIOUS
  <1> QED BY <1>1 DEF Judged, Fresh, Json, Meta

-----------------------------------------------------------------------------
(* The calls                                                               *)

\* A call goes on without a document in its hands.
LEMMA CallMoves ==
  ASSUME NEW cl, NEW n \in Nat, NEW m, NEW gone, CallsInv(cl, n, m, gone), NEW c \in Call,
         NEW x \in CallRec, ~Waits(x), x.kept \subseteq cl[c].kept, Answers(x)
  PROVE  CallsInv([cl EXCEPT ![c] = x], n, m, gone)
  <1> DEFINE new == [cl EXCEPT ![c] = x]
  <1>1. cl \in [Call -> CallRec] BY DEF CallsInv
  <1>2. new \in [Call -> CallRec] /\ \A d \in Call : new[d] = IF d = c THEN x ELSE cl[d]
    BY <1>1
  <1>3. \A d \in Call : /\ new[d].kept \subseteq cl[d].kept /\ Answers(new[d])
                        /\ Waits(new[d]) => new[d] = cl[d] /\ Waits(cl[d])
    BY <1>2 DEF CallsInv
  <1> HIDE DEF new
  <1> QED BY <1>2, <1>3 DEF CallsInv, new

\* store: a call draws an id, which nothing of this life has.
LEMMA CallDraws ==
  ASSUME life \in Nat, NEW cl, NEW n \in Nat, NEW m, NEW gone, CallsInv(cl, n, m, gone),
         NEW c \in Call, NEW me \in CallRec, me.kept \subseteq cl[c].kept, NEW t \in Txt,
         NEW why \in Whys \ {"none", "recall", "forget"}, DOMAIN m.metadata \subseteq Nat
  PROVE  CallsInv([cl EXCEPT ![c] = [me EXCEPT !.at = "embed", !.for = why,
                                       !.doc = [id |-> n, text |-> t, stamp |-> life]]],
                  n + 1, m, gone)
  <1> DEFINE doc == [id |-> n, text |-> t, stamp |-> life]
             x   == [me EXCEPT !.at = "embed", !.for = why, !.doc = doc]
             new == [cl EXCEPT ![c] = x]
  <1>1. cl \in [Call -> CallRec] BY DEF CallsInv
  <1>2. doc \in Pend /\ doc.id = n /\ doc.stamp = life BY DEF Pend
  <1>3. /\ x \in CallRec /\ x.at = "embed" /\ x.doc = doc /\ x.kept = me.kept
        /\ x.for \notin {"none", "recall", "forget"}
    <2> HIDE DEF doc
    <2> QED BY <1>2 DEF CallRec, Phases
  <1> HIDE DEF x, doc
  <1>4. new \in [Call -> CallRec] /\ \A d \in Call : new[d] = IF d = c THEN x ELSE cl[d]
    BY <1>1, <1>3
  <1>5. \A d \in Call : /\ new[d].kept \subseteq cl[d].kept /\ Answers(new[d])
                        /\ d # c => new[d] = cl[d]
    BY <1>3, <1>4 DEF CallsInv, Answers
  <1>6. \A k \in Pend \cup Kept : Drawn(k, n) => Drawn(k, n + 1) /\ Differ(k, doc) /\ Differ(doc, k)
    BY <1>2 DEF Pend, Kept, Drawn, Differ
  <1>7. new[c] = x /\ Drawn(doc, n + 1) BY <1>2, <1>4 DEF Drawn
  <1>8. \A d \in Call : cl[d].kept \subseteq Kept BY <1>1 DEF CallRec
  <1> HIDE DEF new
  <1>9. \A d \in Call : Waits(new[d]) =>
           new[d].for \notin {"none", "recall"} /\ new[d].doc \in Pend /\ Drawn(new[d].doc, n + 1)
    BY <1>2, <1>3, <1>5, <1>6, <1>7 DEF CallsInv
  <1>10. \A d, e \in Call : Waits(new[d]) /\ Waits(new[e]) /\ d # e =>
                               Differ(new[d].doc, new[e].doc)
    BY <1>3, <1>5, <1>6, <1>7 DEF CallsInv
  <1>11. ASSUME NEW d \in Call, NEW k \in new[d].kept
         PROVE  /\ k.stamp <= k.born /\ k.born <= life
                /\ k.born = life =>
                      /\ Drawn(k, n + 1) /\ There(k, m, gone)
                      /\ \A e \in Call : Waits(new[e]) => Differ(k, new[e].doc)
    <2>1. k \in Kept /\ k \in cl[d].kept BY <1>5, <1>8
    <2>2. /\ k.stamp <= k.born /\ k.born <= life
          /\ k.born = life => /\ Drawn(k, n) /\ There(k, m, gone)
                              /\ \A e \in Call : Waits(cl[e]) => Differ(k, cl[e].doc)
      BY <2>1 DEF CallsInv
    <2> QED BY <1>3, <1>5, <1>6, <1>7, <2>1, <2>2
  <1>12. ASSUME NEW i \in DOMAIN m.metadata
         PROVE  /\ Drawn(DocOf(m, i), n + 1)
                /\ \A e \in Call : Waits(new[e]) => Differ(DocOf(m, i), new[e].doc)
    <2> DEFINE k == DocOf(m, i)
    <2>1. /\ Drawn(k, n) /\ k.id \in Nat
          /\ \A e \in Call : Waits(cl[e]) => Differ(k, cl[e].doc)
      BY DEF CallsInv, DocOf
    <2> HIDE DEF k
    <2>2. Drawn(k, n + 1) /\ Differ(k, doc) BY <1>2, <2>1 DEF Drawn, Differ
    <2>3. \A e \in Call : Waits(new[e]) => Differ(k, new[e].doc)
      BY <1>3, <1>5, <1>7, <2>1, <2>2
    <2> QED BY <2>2, <2>3 DEF k
  <1>13. CallsInv(new, n + 1, m, gone)
    BY <1>4, <1>5, <1>9, <1>10, <1>11, <1>12 DEF CallsInv
  <1> QED BY <1>13 DEF new, x, doc

\* The memory changes, and what was kept in this life is there as before or forgotten.
LEMMA MemoryMoves ==
  ASSUME NEW cl, NEW n, NEW m, NEW gone, CallsInv(cl, n, m, gone), NEW m2, NEW gone2,
         \A k \in Kept : There(k, m, gone) => There(k, m2, gone2),
         \A i \in DOMAIN m2.metadata :
            i \in DOMAIN m.metadata /\ m2.metadata[i].stamp = m.metadata[i].stamp
  PROVE  CallsInv(cl, n, m2, gone2)
  <1>1. \A c \in Call : cl[c].kept \subseteq Kept BY DEF CallsInv, CallRec
  <1>2. \A i \in DOMAIN m2.metadata : i \in DOMAIN m.metadata /\ DocOf(m2, i) = DocOf(m, i)
    BY DEF DocOf
  <1> QED BY <1>1, <1>2 DEF CallsInv

\* The embedding is there: the document joins the memory and what the call has kept.
StoredBy(me) == [me EXCEPT !.kept = @ \cup
                   {[id |-> me.doc.id, text |-> me.doc.text,
                     stamp |-> me.doc.stamp, born |-> life]}]

\* A store changes the document of its own id and no other, and its vector is in the index.
LEMMA WithDocHolds ==
  ASSUME Shared, NEW doc
  PROVE  /\ DOMAIN WithDoc(doc).metadata = DOMAIN mem.metadata \cup {doc.id}
         /\ \A i \in DOMAIN mem.metadata \ {doc.id} :
               WithDoc(doc).metadata[i] = mem.metadata[i]
         /\ WithDoc(doc).metadata[doc.id] =
               IF useRust THEN [text |-> Fresh, meta |-> doc.text, stamp |-> doc.stamp]
               ELSE [text |-> doc.text, meta |-> Fresh, stamp |-> doc.stamp]
         /\ WithDoc(doc) = [index |-> WithDoc(doc).index, metadata |-> WithDoc(doc).metadata]
         /\ [id |-> doc.id, text |-> doc.text, stamp |-> doc.stamp] \in WithDoc(doc).index
         /\ WithDoc(doc).index \subseteq
               mem.index \cup {[id |-> doc.id, text |-> doc.text, stamp |-> doc.stamp]}
         /\ \A v \in mem.index : v \in WithDoc(doc).index \/ (~useRust /\ v.id = doc.id)
  <1> DEFINE md(text, meta) ==
               [i \in DOMAIN mem.metadata \cup {doc.id} |->
                  IF i = doc.id THEN [text |-> text, meta |-> meta, stamp |-> doc.stamp]
                  ELSE mem.metadata[i]]
             new == [id |-> doc.id, text |-> doc.text, stamp |-> doc.stamp]
  <1>1. useRust \in BOOLEAN /\ mem = [index |-> mem.index, metadata |-> mem.metadata]
    BY DEF Shared
  <1>2. CASE useRust
    <2>1. WithDoc(doc) = [index |-> mem.index \cup {new}, metadata |-> md(Fresh, doc.text)]
      BY <1>2 DEF WithDoc, Insert
    <2> HIDE DEF new
    <2>2. WithDoc(doc).index = mem.index \cup {new} /\ WithDoc(doc).metadata = md(Fresh, doc.text)
      BY <2>1
    <2> QED BY <1>2, <2>1, <2>2 DEF new
  <1>3. CASE ~useRust
    <2> DEFINE rest == {v \in mem.index : v.id # doc.id}
    <2>1. [mem EXCEPT !.index = {v \in @ : v.id # doc.id}] =
             [index |-> rest, metadata |-> mem.metadata]
      <3>1. mem \in [index : {mem.index}, metadata : {mem.metadata}] BY <1>1
      <3> QED BY <3>1
    <2>2. WithDoc(doc) = [index |-> rest \cup {new}, metadata |-> md(doc.text, Fresh)]
      BY <1>3, <2>1 DEF WithDoc, Insert
    <2>3. WithDoc(doc).index = rest \cup {new} /\ WithDoc(doc).metadata = md(doc.text, Fresh)
      BY <2>2
    <2> QED BY <1>3, <2>2, <2>3
  <1> QED BY <1>1, <1>2, <1>3

\* What a call has stored it may count as stored: no other call has drawn the same.
LEMMA CallStores ==
  ASSUME Shared, CallsInv(call, nextId, mem, forgotten), NEW c \in Call, Waits(call[c]),
         NEW x, x = [StoredBy(call[c]) EXCEPT !.at = "next"]
  PROVE  /\ x \in CallRec
         /\ CallsInv([call EXCEPT ![c] = x], nextId, WithDoc(call[c].doc), forgotten)
  <1> DEFINE me  == call[c]
             doc == call[c].doc
             k0  == [id |-> doc.id, text |-> doc.text, stamp |-> doc.stamp, born |-> life]
             m2  == WithDoc(doc)
             new == [call EXCEPT ![c] = x]
  <1>0. useRust \in BOOLEAN /\ life \in Nat BY DEF Shared
  <1>1. call \in [Call -> CallRec] /\ me \in CallRec /\ doc \in Pend /\ Drawn(doc, nextId)
    BY DEF CallsInv
  <1>2. k0 \in Kept /\ k0.id = doc.id /\ k0.stamp = doc.stamp /\ k0.text = doc.text
        /\ k0.born = life
    BY <1>0, <1>1 DEF Kept, Pend
  <1>3. /\ x \in CallRec /\ x.at = "next" /\ x.kept = me.kept \cup {k0} /\ ~Waits(x)
    <2>1. x = [[me EXCEPT !.kept = me.kept \cup {k0}] EXCEPT !.at = "next"]
      BY DEF StoredBy
    <2> HIDE DEF k0
    <2>2. me.kept \cup {k0} \in SUBSET Kept BY <1>1, <1>2 DEF CallRec
    <2> QED BY <1>1, <2>1, <2>2 DEF CallRec, Phases, Waits
  <1>4. new \in [Call -> CallRec] /\ \A d \in Call : new[d] = IF d = c THEN x ELSE call[d]
    BY <1>1, <1>3
  <1>5. There(k0, m2, forgotten)
    <2>1. /\ doc.id \in DOMAIN m2.metadata
          /\ m2.metadata[doc.id] =
               IF useRust THEN [text |-> Fresh, meta |-> doc.text, stamp |-> doc.stamp]
               ELSE [text |-> doc.text, meta |-> Fresh, stamp |-> doc.stamp]
      BY WithDocHolds
    <2>2. TextIn(m2, doc.id) = doc.text
      <3> HIDE DEF m2
      <3> QED BY <1>0, <2>1 DEF TextIn
    <2> HIDE DEF k0, m2
    <2> QED BY <1>2, <2>1, <2>2 DEF There
  <1>6. ASSUME NEW k \in Kept, There(k, mem, forgotten), Differ(k, doc)
        PROVE  There(k, m2, forgotten)
    <2>1. CASE k.id \in forgotten BY <2>1 DEF There
    <2>2. CASE k.id \in DOMAIN mem.metadata /\ k.id = doc.id
      <3>1. m2.metadata[k.id].stamp = doc.stamp /\ k.id \in DOMAIN m2.metadata
        <4>1. /\ doc.id \in DOMAIN m2.metadata
              /\ m2.metadata[doc.id] =
                   IF useRust THEN [text |-> Fresh, meta |-> doc.text, stamp |-> doc.stamp]
                   ELSE [text |-> doc.text, meta |-> Fresh, stamp |-> doc.stamp]
          BY WithDocHolds
        <4> HIDE DEF m2
        <4> QED BY <1>0, <2>2, <4>1
      <3>2. k.stamp # doc.stamp BY <1>6, <2>2 DEF Differ
      <3> HIDE DEF m2
      <3> QED BY <3>1, <3>2 DEF There
    <2>3. CASE k.id \in DOMAIN mem.metadata /\ k.id # doc.id
      <3>1. m2.metadata[k.id] = mem.metadata[k.id] /\ k.id \in DOMAIN m2.metadata
        <4>1. /\ DOMAIN m2.metadata = DOMAIN mem.metadata \cup {doc.id}
              /\ \A i \in DOMAIN mem.metadata \ {doc.id} : m2.metadata[i] = mem.metadata[i]
          BY WithDocHolds
        <4> HIDE DEF m2, doc
        <4> QED BY <2>3, <4>1
      <3> HIDE DEF m2
      <3> QED BY <1>6, <2>3, <3>1 DEF There, TextIn
    <2> QED BY <1>6, <2>1, <2>2, <2>3 DEF There
  <1> HIDE DEF m2, k0, new
  <1>7. \A d \in Call : /\ Waits(new[d]) => d # c /\ new[d] = call[d]
                        /\ d # c => new[d] = call[d]
                        /\ \A k \in new[d].kept : k \in Kept
                        /\ \A k \in new[d].kept : k \in call[d].kept \/ k = k0
                        /\ Answers(new[d])
    <2> TAKE d \in Call
    <2>1. CASE d = c
      <3>1. new[d] = x BY <1>4, <2>1
      <3>2. \A k \in x.kept : k \in Kept /\ (k \in me.kept \/ k = k0)
        BY <1>1, <1>2, <1>3 DEF CallRec
      <3> QED BY <1>3, <2>1, <3>1, <3>2 DEF Answers
    <2>2. CASE d # c
      <3>1. new[d] = call[d] BY <1>4, <2>2
      <3>2. call[d] \in CallRec /\ Answers(call[d]) BY <1>1 DEF CallsInv
      <3> QED BY <2>2, <3>1, <3>2 DEF CallRec
    <2> QED BY <2>1, <2>2
  <1>8. \A d \in Call : Waits(new[d]) => /\ new[d].doc \in Pend /\ Drawn(new[d].doc, nextId)
                                         /\ Differ(k0, new[d].doc) /\ new[d].for \notin {"none", "recall"}
    BY <1>2, <1>7 DEF CallsInv, Differ
  <1>9. ASSUME NEW d \in Call, NEW k \in new[d].kept
        PROVE  /\ k.stamp <= k.born /\ k.born <= life
               /\ k.born = life =>
                     /\ Drawn(k, nextId) /\ There(k, m2, forgotten)
                     /\ \A e \in Call : Waits(new[e]) => Differ(k, new[e].doc)
    <2>1. CASE k = k0
      <3>1. k0.stamp <= k0.born /\ k0.born <= life /\ Drawn(k0, nextId)
        BY <1>0, <1>1, <1>2 DEF Drawn, Pend
      <3> QED BY <2>1, <3>1, <1>5, <1>8
    <2>2. CASE k \in call[d].kept
      <3>1. /\ k.stamp <= k.born /\ k.born <= life
            /\ k.born = life =>
                  /\ Drawn(k, nextId) /\ There(k, mem, forgotten)
                  /\ \A e \in Call : Waits(call[e]) => Differ(k, call[e].doc)
        BY <2>2 DEF CallsInv
      <3>2. k \in Kept BY <1>7
      <3>3. k.born = life => Differ(k, doc) BY <3>1
      <3>4. k.born = life => There(k, m2, forgotten) BY <1>6, <3>1, <3>2, <3>3
      <3> QED BY <3>1, <3>4, <1>7
    <2> QED BY <1>7, <2>1, <2>2
  <1>10. \A d, e \in Call : Waits(new[d]) /\ Waits(new[e]) /\ d # e =>
                               Differ(new[d].doc, new[e].doc)
    BY <1>7 DEF CallsInv
  <1>11. ASSUME NEW i \in DOMAIN m2.metadata
         PROVE  /\ Drawn(DocOf(m2, i), nextId)
                /\ \A e \in Call : Waits(new[e]) => Differ(DocOf(m2, i), new[e].doc)
    <2>1. CASE i = doc.id
      <3>1. m2.metadata[i].stamp = doc.stamp
        <4>1. m2.metadata[doc.id] =
                 IF useRust THEN [text |-> Fresh, meta |-> doc.text, stamp |-> doc.stamp]
                 ELSE [text |-> doc.text, meta |-> Fresh, stamp |-> doc.stamp]
          BY WithDocHolds DEF m2
        <4> QED BY <1>0, <2>1, <4>1
      <3>2. DocOf(m2, i).id = doc.id /\ DocOf(m2, i).stamp = doc.stamp
        BY <2>1, <3>1 DEF DocOf
      <3>3. \A e \in Call : Waits(new[e]) => Differ(doc, new[e].doc)
        BY <1>7 DEF CallsInv
      <3> QED BY <1>1, <3>2, <3>3 DEF Drawn, Differ
    <2>2. CASE i # doc.id
      <3>1. i \in DOMAIN mem.metadata /\ m2.metadata[i] = mem.metadata[i]
        <4>1. /\ DOMAIN m2.metadata = DOMAIN mem.metadata \cup {doc.id}
              /\ \A j \in DOMAIN mem.metadata \ {doc.id} : m2.metadata[j] = mem.metadata[j]
          BY WithDocHolds DEF m2
        <4> QED BY <2>2, <4>1
      <3>2. DocOf(m2, i) = DocOf(mem, i) BY <3>1 DEF DocOf
      <3> QED BY <1>7, <3>1, <3>2 DEF CallsInv
    <2> QED BY <2>1, <2>2
  <1>12. CallsInv(new, nextId, m2, forgotten)
    BY <1>4, <1>7, <1>8, <1>9, <1>10, <1>11 DEF CallsInv
  <1> QED BY <1>3, <1>12 DEF new, m2

-----------------------------------------------------------------------------
(* Every step keeps the invariant                                          *)

\* The memory is empty, no call is under way, and there are no files.
LEMMA Initially == Init => IInv
  <1> SUFFICES ASSUME Init PROVE IInv OBVIOUS
  <1>1. <<>> \in Seq(Fact) OBVIOUS
  <1>2. NewCall \in CallRec BY <1>1 DEF NewCall, CallRec, Phases, Whys, Txt
  <1>3. CallsInv(call, nextId, mem, forgotten)
    <2>1. DOMAIN mem.metadata = {} BY DEF Init, NewMemory
    <2> QED BY <1>2, <2>1 DEF Init, CallsInv, NewCall, Waits, Answers
  <1>4. Shared
    <2>1. <<>> \in [DOMAIN <<>> -> Doc]
      <3>1. <<>> \in Seq(Doc) OBVIOUS
      <3>2. <<>> \in [1 .. Len(<<>>) -> Doc] BY <3>1
      <3> QED BY <3>2
    <2>2. mem.index = {} /\ mem.metadata = <<>> BY DEF Init, NewMemory
    <2>3. mem = [index |-> mem.index, metadata |-> mem.metadata] BY DEF Init, NewMemory
    <2>4. IndexOK(mem.index) /\ DocsOK(mem.metadata)
      BY <2>1, <2>2, FS_EmptySet DEF IndexOK, DocsOK
    <2>5. useRust \in BOOLEAN /\ mixed \in BOOLEAN BY Zenon DEF Init
    <2>6. nextId \in Nat /\ life \in Nat /\ lineage \in 0..life BY DEF Init
    <2> QED BY <2>3, <2>4, <2>5, <2>6 DEF Shared
  <1>5. DOMAIN mem.metadata = {} /\ mem.index = {} BY DEF Init, NewMemory
  <1>6. PenaltyInv /\ Covered(mem.metadata, mem.index) BY <1>5 DEF PenaltyInv, Covered
  <1>7. DiskInv(disk) BY DEF Init, DiskInv, Held
  <1> QED BY <1>3, <1>4, <1>6, <1>7 DEF IInv, FilesInv

\* Steps of the calls that leave the memory alone.
LEMMA OnlyCalls ==
  ASSUME IInv, UNCHANGED <<useRust, mem, disk, history>>, nextId' \in Nat,
         CallsInv(call', nextId', mem, forgotten)
  PROVE  IInv'
  <1>1. UNCHANGED <<useRust, mem, disk, life, lineage, mixed, forgotten>> BY DEF history
  <1>2. Shared' BY <1>1 DEF IInv, Shared
  <1>3. PenaltyInv' BY <1>1 DEF IInv, PenaltyInv
  <1>4. FilesInv' BY <1>1 DEF IInv, FilesInv, DiskInv
  <1>5. CallsInv(call, nextId, mem, forgotten)'
    BY <1>1 DEF CallsInv, Drawn, There, TextIn, DocOf
  <1> QED BY <1>2, <1>3, <1>4, <1>5 DEF IInv

\* A call goes on, or ends, without drawing an id: it may only lose what it has kept.
LEMMA MoveKeepsIt ==
  ASSUME IInv, NEW c \in Call, NEW x \in CallRec, call' = [call EXCEPT ![c] = x],
         ~Waits(x), x.kept \subseteq call[c].kept, Answers(x),
         UNCHANGED <<useRust, nextId, mem, disk, history>>
  PROVE  IInv'
  <1>1. nextId \in Nat BY DEF IInv, Shared
  <1>2. CallsInv(call', nextId', mem, forgotten) BY <1>1, CallMoves DEF IInv
  <1> QED BY <1>1, <1>2, OnlyCalls

\* A call draws an id; nothing that is held, handed out or waiting has it in this life.
LEMMA StoreKeepsIt ==
  ASSUME IInv, NEW c \in Call, NEW me \in CallRec, me.kept \subseteq call[c].kept,
         NEW t \in Txt, NEW why \in Whys \ {"none", "recall", "forget"}, Store(c, me, t, why),
         UNCHANGED <<useRust, mem, disk, history>>
  PROVE  IInv'
  <1>1. nextId \in Nat /\ life \in Nat /\ DOMAIN mem.metadata \subseteq Nat
    BY DEF IInv, Shared, DocsOK
  <1>2. CallsInv(call', nextId', mem, forgotten)
    BY <1>1, CallDraws DEF IInv, Store, AfterDraw
  <1>3. nextId' \in Nat BY <1>1 DEF Store, AfterDraw
  <1> QED BY <1>2, <1>3, OnlyCalls

\* What a call is like when it has ended.
LEMMA EndedCall ==
  ASSUME NEW me \in CallRec, NEW how \in {"done", "raised", "lost"}
  PROVE  /\ Ended(me, how) \in CallRec /\ ~Waits(Ended(me, how))
         /\ Ended(me, how).at = how /\ Ended(me, how).for = me.for
         /\ Ended(me, how).kept = IF how = "done" THEN me.kept ELSE {}
  <1>1. <<>> \in Seq(Fact) OBVIOUS
  <1> QED BY <1>1 DEF Ended, NewCall, CallRec, Phases, Whys, Txt, Waits

\* The tools up to their next wait.
LEMMA ToolKeepsIt ==
  ASSUME IInv, NEW c \in Call,
         \/ \E t \in Text : RememberShort(c, t) \/ RememberLong(c, t)
         \/ \E t \in Query : BeginForget(c, t) \/ BeginRecall(c, t)
         \/ BeginReflect(c) \/ Reflects(c) \/ Searched(c) \/ Extract(c) \/ NextItem(c)
         \/ EndOfItems(c) \/ ExtractFails(c) \/ EmbedFails(c) \/ Ranked(c)
  PROVE  IInv'
  <1>0. call \in [Call -> CallRec] /\ call[c] \in CallRec /\ Answers(call[c])
    BY DEF IInv, CallsInv
  <1>1. ASSUME NEW at \in {"search", "extract", "next"}, NEW x \in CallRec, x.at = at,
               x.kept = call[c].kept, call' = [call EXCEPT ![c] = x],
               UNCHANGED <<useRust, nextId, mem, disk, history>>
        PROVE  IInv'
    BY <1>1, MoveKeepsIt DEF Waits, Answers
  <1>2. call[c].text \in Txt BY <1>0 DEF CallRec
  <1>3. ASSUME NEW t \in Text, RememberShort(c, t) PROVE IInv'
    <2>1. [call[c] EXCEPT !.text = t] \in CallRec
          /\ [call[c] EXCEPT !.text = t].kept = call[c].kept
      BY <1>0 DEF CallRec, Txt
    <2> QED BY <1>3, <2>1, StoreKeepsIt DEF RememberShort, Whys, Txt
  <1>4. ASSUME NEW t \in Text, RememberLong(c, t) PROVE IInv'
    <2> DEFINE x == [call[c] EXCEPT !.at = "search", !.text = t]
    <2>1. x \in CallRec /\ x.at = "search" /\ x.kept = call[c].kept
      BY <1>0 DEF CallRec, Phases, Txt
    <2>2. call' = [call EXCEPT ![c] = x] BY <1>0, <1>4 DEF RememberLong
    <2> HIDE DEF x
    <2> QED BY <1>1, <1>4, <2>1, <2>2 DEF RememberLong
  <1>5. ASSUME NEW t \in Query, BeginForget(c, t) PROVE IInv'
    <2> DEFINE x == [call[c] EXCEPT !.at = "embed", !.for = "forget", !.text = t]
    <2>1. x \in CallRec /\ ~Waits(x) /\ x.kept = call[c].kept /\ Answers(x)
      BY <1>0, TextAssumption DEF CallRec, Phases, Whys, Txt, Waits, Answers
    <2>2. call' = [call EXCEPT ![c] = x] BY <1>0, <1>5 DEF BeginForget
    <2> HIDE DEF x
    <2> QED BY <1>5, <2>1, <2>2, MoveKeepsIt DEF BeginForget
  <1>6. CASE BeginReflect(c)
    <2> DEFINE x == [call[c] EXCEPT !.at = "search", !.for = "reflect"]
    <2>1. x \in CallRec /\ x.at = "search" /\ x.kept = call[c].kept
      BY <1>0 DEF CallRec, Phases, Whys
    <2>2. call' = [call EXCEPT ![c] = x] BY <1>0, <1>6 DEF BeginReflect
    <2> HIDE DEF x
    <2> QED BY <1>1, <1>6, <2>1, <2>2 DEF BeginReflect
  <1>7. CASE Reflects(c)
    <2>1. CASE call' = [call EXCEPT ![c] = Ended(@, "done")]
      <3> DEFINE x == Ended(call[c], "done")
      <3>1. x \in CallRec /\ ~Waits(x) /\ x.kept = call[c].kept /\ Answers(x)
        BY <1>0, <1>7, EndedCall DEF Reflects, Answers
      <3>2. call' = [call EXCEPT ![c] = x] BY <2>1
      <3> HIDE DEF x
      <3> QED BY <1>7, <3>1, <3>2, MoveKeepsIt DEF Reflects
    <2>2. CASE call' = [call EXCEPT ![c].at = "extract"]
      <3> DEFINE x == [call[c] EXCEPT !.at = "extract"]
      <3>1. x \in CallRec /\ x.at = "extract" /\ x.kept = call[c].kept
        BY <1>0 DEF CallRec, Phases
      <3>2. call' = [call EXCEPT ![c] = x] BY <1>0, <2>2
      <3> HIDE DEF x
      <3> QED BY <1>1, <1>7, <3>1, <3>2 DEF Reflects
    <2> QED BY <1>7, <2>1, <2>2 DEF Reflects
  <1>8. CASE Searched(c)
    <2>1. CASE NothingRetained(c, call[c])
      BY <1>0, <1>2, <1>8, <2>1, StoreKeepsIt DEF Searched, NothingRetained, Whys
    <2>2. CASE call' = [call EXCEPT ![c].at = "extract"] /\ UNCHANGED nextId
      <3> DEFINE x == [call[c] EXCEPT !.at = "extract"]
      <3>1. x \in CallRec /\ x.at = "extract" /\ x.kept = call[c].kept
        BY <1>0 DEF CallRec, Phases
      <3>2. call' = [call EXCEPT ![c] = x] BY <1>0, <2>2
      <3> HIDE DEF x
      <3> QED BY <1>1, <1>8, <2>2, <3>1, <3>2 DEF Searched
    <2> QED BY <1>8, <2>1, <2>2 DEF Searched
  <1>9. CASE Extract(c)
    <2>1. PICK items \in Seq(Fact) :
             call' = [call EXCEPT ![c].at = "next", ![c].items = items]
      <3>1. PICK items \in UNION {[1..n -> Fact] : n \in 0..MaxItems} :
               call' = [call EXCEPT ![c].at = "next", ![c].items = items]
        BY <1>9, Zenon DEF Extract, FactLists
      <3>2. PICK n \in 0 .. MaxItems : items \in [1..n -> Fact] BY <3>1
      <3>3. n \in Nat BY <3>2
      <3>4. items \in Seq(Fact) BY <3>2, <3>3
      <3> QED BY <3>1, <3>4
    <2> DEFINE x == [call[c] EXCEPT !.at = "next", !.items = items]
    <2>2. x \in CallRec /\ x.at = "next" /\ x.kept = call[c].kept
      BY <1>0 DEF CallRec, Phases
    <2>3. call' = [call EXCEPT ![c] = x] BY <1>0, <2>1
    <2> HIDE DEF x
    <2> QED BY <1>1, <1>9, <2>2, <2>3 DEF Extract
  <1>10. CASE NextItem(c)
    <2>1. /\ call[c].items \in Seq(Fact) /\ Head(call[c].items) \in Txt
          /\ Tail(call[c].items) \in Seq(Fact)
      BY <1>0, <1>10, TextAssumption DEF NextItem, CallRec, Txt
    <2> DEFINE me == [call[c] EXCEPT !.items = Tail(@)]
    <2>2. me \in CallRec /\ me.kept = call[c].kept BY <1>0, <2>1 DEF CallRec
    <2> HIDE DEF me
    <2>3. PICK why \in {"reflect", "item"} : Store(c, me, Head(call[c].items), why)
      BY <1>10 DEF NextItem, me
    <2> QED BY <1>10, <2>1, <2>2, <2>3, StoreKeepsIt DEF NextItem, Whys
  <1>11. CASE EndOfItems(c)
    <2>1. CASE call[c].kept = {} /\ call[c].for # "reflect"
      BY <1>0, <1>2, <1>11, <2>1, StoreKeepsIt DEF EndOfItems, NothingRetained, Whys
    <2>2. CASE ~(call[c].kept = {} /\ call[c].for # "reflect")
      <3> DEFINE x == Ended(call[c], "done")
      <3>1. x \in CallRec /\ ~Waits(x) /\ x.kept = call[c].kept /\ Answers(x)
        BY <1>0, <2>2, EndedCall DEF Answers
      <3>2. call' = [call EXCEPT ![c] = x] BY <1>11, <2>2 DEF EndOfItems
      <3> HIDE DEF x
      <3> QED BY <1>11, <2>2, <3>1, <3>2, MoveKeepsIt DEF EndOfItems
    <2> QED BY <2>1, <2>2
  <1>12. ASSUME call[c].for = "reflect", NoRules(c),
                UNCHANGED <<useRust, nextId, mem, disk, history>>
         PROVE  IInv'
    <2> DEFINE y == Ended(call[c], "done")
               x == [y EXCEPT !.kept = {}]
    <2>1. y \in CallRec /\ ~Waits(y) /\ y.for = "reflect" /\ y.at = "done"
      BY <1>0, <1>12, EndedCall
    <2>2. call' = [call EXCEPT ![c] = x] BY <1>12 DEF NoRules
    <2> HIDE DEF y
    <2>3. x \in CallRec /\ ~Waits(x) /\ x.kept = {} /\ Answers(x)
      BY <2>1 DEF CallRec, Waits, Answers
    <2> HIDE DEF x
    <2> QED BY <1>12, <2>2, <2>3, MoveKeepsIt
  <1>13. CASE ExtractFails(c)
    <2>1. CASE call[c].for = "reflect" BY <1>12, <1>13, <2>1 DEF ExtractFails
    <2>2. CASE call[c].for # "reflect"
      BY <1>0, <1>2, <1>13, <2>2, StoreKeepsIt DEF ExtractFails, Whys
    <2> QED BY <2>1, <2>2
  <1>14. CASE EmbedFails(c)
    <2>1. CASE call[c].at = "embed" /\ call[c].for = "item"
      BY <1>0, <1>2, <1>14, <2>1, StoreKeepsIt DEF EmbedFails, Whys
    <2>2. CASE call[c].at = "embed" /\ call[c].for = "reflect"
      BY <1>12, <1>14, <2>2 DEF EmbedFails
    <2>3. CASE ~(call[c].at = "embed" /\ call[c].for \in {"item", "reflect"})
      <3> DEFINE how == IF useRust /\ call[c].for = "recall" THEN "done" ELSE "raised"
                 x   == Ended(call[c], how)
      <3>1. x \in CallRec /\ ~Waits(x) /\ x.kept \subseteq call[c].kept /\ Answers(x)
        BY <1>0, EndedCall DEF Answers
      <3>2. call' = [call EXCEPT ![c] = x] /\ UNCHANGED nextId
        BY <1>14, <2>3 DEF EmbedFails
      <3> HIDE DEF x
      <3> QED BY <1>14, <3>1, <3>2, MoveKeepsIt DEF EmbedFails
    <2> QED BY <2>1, <2>2, <2>3
  <1>15. ASSUME NEW t \in Query, BeginRecall(c, t) PROVE IInv'
    <2> DEFINE x == [call[c] EXCEPT !.at = "search", !.for = "recall", !.text = t]
    <2>1. x \in CallRec /\ x.at = "search" /\ x.kept = call[c].kept
      BY <1>0, TextAssumption DEF CallRec, Phases, Whys, Txt
    <2>2. call' = [call EXCEPT ![c] = x] BY <1>0, <1>15 DEF BeginRecall
    <2> HIDE DEF x
    <2> QED BY <1>1, <1>15, <2>1, <2>2 DEF BeginRecall
  <1>16. CASE Ranked(c)
    <2>1. PICK how \in {"done", "raised"} : call' = [call EXCEPT ![c] = Ended(call[c], how)]
      BY <1>16 DEF Ranked
    <2> DEFINE x == Ended(call[c], how)
    <2>2. x \in CallRec /\ ~Waits(x) /\ x.kept \subseteq call[c].kept
      BY <1>0, EndedCall
    <2>3. Answers(x) BY <1>0, <1>16, EndedCall DEF Ranked, Answers
    <2> HIDE DEF x
    <2> QED BY <1>16, <2>1, <2>2, <2>3, MoveKeepsIt DEF Ranked, x
  <1> QED BY <1>3, <1>4, <1>5, <1>6, <1>7, <1>8, <1>9, <1>10, <1>11, <1>13, <1>14, <1>15, <1>16

\* What a search finds is a document that the memory holds.
LEMMA CandidatesAreHeld ==
  ASSUME Shared, PenaltyInv, NEW q, NEW S \in Candidates(q), NEW v \in S
  PROVE  v.id \in DOMAIN mem.metadata
  <1>1. CASE useRust
    <2>1. PICK F \in Nearest(mem.index, q, Fetched(4)) : S \in Nearest(Live(mem, F), q, 4)
      BY <1>1 DEF Candidates, Search
    <2> QED BY <2>1 DEF Nearest, Live
  <1>2. CASE ~useRust
    BY <1>2 DEF Candidates, Nearest, PenaltyInv
  <1> QED BY <1>1, <1>2

\* A search looks its documents up as they are held, each under an id and with a stamp that no
\* store under way has.
LEMMA RecallKeepsIt ==
  ASSUME IInv, NEW c \in Call, Recalls(c)
  PROVE  IInv'
  <1>0. /\ call \in [Call -> CallRec] /\ call[c] \in CallRec /\ call[c].for = "recall"
        /\ nextId \in Nat /\ life \in Nat /\ Shared /\ PenaltyInv
    BY DEF IInv, CallsInv, Shared, Recalls
  <1>1. UNCHANGED <<useRust, nextId, mem, disk, history>> BY DEF Recalls
  <1>6. CASE ~useRust
    <2> DEFINE x == Ended(call[c], "raised")
    <2>1. x \in CallRec /\ ~Waits(x) /\ x.kept \subseteq call[c].kept /\ Answers(x)
      BY <1>0, EndedCall DEF Answers
    <2>2. call' = [call EXCEPT ![c] = x] BY <1>0, <1>6 DEF Recalls
    <2> HIDE DEF x
    <2> QED BY <1>1, <2>1, <2>2, MoveKeepsIt
  <1> SUFFICES ASSUME useRust PROVE IInv' BY <1>6
  <1>2. PICK S \in Candidates(call[c].text) : \E found \in Found(S) :
           call' = [call EXCEPT ![c] = IF found = {} THEN Ended(@, "done")
                                       ELSE [@ EXCEPT !.at = "rank", !.kept = found]]
    BY Zenon DEF Recalls
  <1>3. PICK found \in Found(S) :
           call' = [call EXCEPT ![c] = IF found = {} THEN Ended(call[c], "done")
                                       ELSE [call[c] EXCEPT !.at = "rank", !.kept = found]]
    BY <1>2
  <1>4. CASE found = {}
    <2> DEFINE x == Ended(call[c], "done")
    <2>1. x \in CallRec /\ ~Waits(x) /\ x.kept \subseteq call[c].kept /\ Answers(x)
      BY <1>0, EndedCall DEF Answers
    <2>2. call' = [call EXCEPT ![c] = x] BY <1>3, <1>4
    <2> HIDE DEF x
    <2> QED BY <1>1, <2>1, <2>2, MoveKeepsIt
  <1>5. CASE found # {}
    <2> DEFINE x   == [call[c] EXCEPT !.at = "rank", !.kept = found]
               new == [call EXCEPT ![c] = x]
    <2>1. \A k \in found : \E i \in DOMAIN mem.metadata : k = Handed(i)
      BY <1>0, CandidatesAreHeld DEF Found, Best
    <2>2. ASSUME NEW i \in DOMAIN mem.metadata
          PROVE  /\ Handed(i) \in Kept /\ Handed(i).born = life /\ Handed(i).stamp <= life
                 /\ Drawn(Handed(i), nextId) /\ There(Handed(i), mem, forgotten)
                 /\ \A d \in Call : Waits(call[d]) => Differ(Handed(i), call[d].doc)
      <3>1. /\ i \in Nat /\ mem.metadata[i] \in Doc BY <1>0 DEF Shared, DocsOK
      <3>2. /\ Drawn(DocOf(mem, i), nextId)
            /\ \A d \in Call : Waits(call[d]) => Differ(DocOf(mem, i), call[d].doc)
        BY DEF IInv, CallsInv
      <3>3. TextOf(i) = TextIn(mem, i) /\ TextIn(mem, i) \in Txt \cup Meta
        BY <3>1 DEF TextOf, TextIn, Doc
      <3> DEFINE k == Handed(i)
      <3>4. k.id = i /\ k.text = TextOf(i) /\ k.stamp = mem.metadata[i].stamp /\ k.born = life
        BY DEF Handed
      <3>5. k \in Kept BY <1>0, <3>1, <3>3 DEF Handed, Kept, Doc
      <3>6. DocOf(mem, i).id = k.id /\ DocOf(mem, i).stamp = k.stamp BY <3>4 DEF DocOf
      <3> HIDE DEF k
      <3>7. There(k, mem, forgotten) BY <3>3, <3>4 DEF There
      <3>8. Drawn(k, nextId) /\ \A d \in Call : Waits(call[d]) => Differ(k, call[d].doc)
        BY <3>2, <3>6 DEF Drawn, Differ
      <3> QED BY <3>4, <3>5, <3>7, <3>8 DEF k, Drawn
    <2>3. found \in SUBSET Kept BY <2>1, <2>2
    <2>4. /\ x \in CallRec /\ x.at = "rank" /\ x.kept = found /\ x.for = "recall" /\ ~Waits(x)
      BY <1>0, <2>3 DEF CallRec, Phases, Waits
    <2>5. \A k \in found : /\ k.born = life /\ k.stamp <= life
                          /\ Drawn(k, nextId) /\ There(k, mem, forgotten)
                          /\ \A d \in Call : Waits(call[d]) => Differ(k, call[d].doc)
      BY <2>1, <2>2
    <2>6. call' = new BY <1>3, <1>5
    <2> HIDE DEF x
    <2>7. new \in [Call -> CallRec] /\ \A d \in Call : new[d] = IF d = c THEN x ELSE call[d]
      BY <1>0, <2>4
    <2> HIDE DEF new
    <2>8. \A d \in Call : /\ Waits(new[d]) => new[d] = call[d]
                          /\ Answers(new[d])
                          /\ d # c => new[d] = call[d]
      BY <2>4, <2>7 DEF IInv, CallsInv, Answers
    <2>9. ASSUME NEW d \in Call, NEW k \in new[d].kept
          PROVE  /\ k.stamp <= k.born /\ k.born <= life
                 /\ k.born = life =>
                       /\ Drawn(k, nextId) /\ There(k, mem, forgotten)
                       /\ \A e \in Call : Waits(new[e]) => Differ(k, new[e].doc)
      <3>1. CASE d = c
        <4>1. k \in found BY <2>4, <2>7, <3>1
        <4> QED BY <1>0, <2>5, <2>8, <4>1
      <3>2. CASE d # c
        <4>1. k \in call[d].kept BY <2>8, <3>2
        <4>2. /\ k.stamp <= k.born /\ k.born <= life
              /\ k.born = life =>
                    /\ Drawn(k, nextId) /\ There(k, mem, forgotten)
                    /\ \A e \in Call : Waits(call[e]) => Differ(k, call[e].doc)
          BY <4>1 DEF IInv, CallsInv
        <4> QED BY <2>8, <4>2
      <3> QED BY <3>1, <3>2
    <2>10. \A d \in Call : Waits(new[d]) => Waits(call[d]) /\ new[d].doc = call[d].doc
                                           /\ new[d].for = call[d].for
      BY <2>8
    <2>11. CallsInv(call, nextId, mem, forgotten) BY DEF IInv
    <2>12. CallsInv(new, nextId, mem, forgotten)
      BY <2>7, <2>8, <2>9, <2>10, <2>11 DEF CallsInv
    <2> QED BY <1>0, <1>1, <2>6, <2>12, OnlyCalls
  <1> QED BY <1>4, <1>5

\* The embedding is there.  The memory holds one document more, and in the index a vector with
\* its id; what is not of the same draw stays as it was.
LEMMA StoredKeepsIt ==
  ASSUME IInv, NEW c \in Call, Stored(c)
  PROVE  IInv'
  <1> DEFINE me  == StoredBy(call[c])
             doc == call[c].doc
             m2  == WithDoc(doc)
             x   == [me EXCEPT !.at = "next"]
             cl  == [call EXCEPT ![c] = x]
  <1>0. /\ call \in [Call -> CallRec] /\ call[c] \in CallRec
        /\ nextId \in Nat /\ life \in Nat /\ useRust \in BOOLEAN
        /\ Waits(call[c]) /\ doc \in Pend /\ Drawn(doc, nextId)
        /\ call[c].for \notin {"none", "recall", "forget"}
    BY DEF IInv, CallsInv, Shared, Stored, Waits
  <1>1. x \in CallRec /\ CallsInv(cl, nextId, m2, forgotten)
    BY <1>0, CallStores DEF IInv
  <1>2. me \in CallRec /\ me.kept = x.kept /\ me.text = call[c].text /\ me.for = call[c].for
        /\ x.for = me.for /\ x.at = "next" /\ me.kept # {} /\ me.text \in Txt
    <2> DEFINE k0 == [id |-> doc.id, text |-> doc.text, stamp |-> doc.stamp, born |-> life]
    <2>1. k0 \in Kept BY <1>0 DEF Kept, Pend
    <2>2. me = [call[c] EXCEPT !.kept = call[c].kept \cup {k0}] BY DEF StoredBy
    <2> HIDE DEF k0, me
    <2>3. me \in CallRec /\ me.kept = call[c].kept \cup {k0} /\ me.for = call[c].for
          /\ me.text = call[c].text
      <3>1. call[c].kept \cup {k0} \in SUBSET Kept BY <1>0, <2>1 DEF CallRec
      <3> QED BY <1>0, <2>2, <3>1 DEF CallRec
    <2> QED BY <2>3 DEF CallRec
  <1>3. UNCHANGED <<useRust, disk, life, lineage, mixed, forgotten>> /\ mem' = m2
    BY DEF Stored, history, StoredBy
  <1> HIDE DEF me, m2, x
  <1>4. \A y : [cl EXCEPT ![c] = y] = [call EXCEPT ![c] = y] BY <1>0
  <1>5. cl[c] = x BY <1>0
  <1> HIDE DEF cl
  <1>6. CallsInv(call', nextId', m2, forgotten) /\ nextId' \in Nat
    <2>1. CASE me.for \in {"short", "raw"}
      <3>1. call' = [call EXCEPT ![c] = Ended(me, "done")] /\ nextId' = nextId
        BY <2>1 DEF Stored, me, StoredBy
      <3> DEFINE y == Ended(me, "done")
      <3>2. y \in CallRec /\ ~Waits(y) /\ y.kept = x.kept /\ Answers(y)
        BY <1>2, EndedCall DEF Answers
      <3> HIDE DEF y
      <3>3. CallsInv([cl EXCEPT ![c] = y], nextId, m2, forgotten)
        BY <1>0, <1>1, <1>5, <3>2, CallMoves
      <3> QED BY <1>0, <1>4, <3>1, <3>3 DEF y
    <2>2. CASE me.for \in {"item", "reflect"}
      <3>1. call' = [call EXCEPT ![c] = x] /\ nextId' = nextId
        BY <2>2 DEF Stored, me, StoredBy, x
      <3> QED BY <1>0, <1>1, <3>1 DEF cl
    <2>3. CASE me.for = "error"
      <3>1. Store(c, me, me.text, "raw")
        BY <2>3 DEF Stored, me, StoredBy, NothingRetained
      <3>2. "raw" \in Whys \ {"none", "recall", "forget"} BY DEF Whys
      <3>3. me.kept \subseteq cl[c].kept BY <1>2, <1>5
      <3> DEFINE y == [me EXCEPT !.at = "embed", !.for = "raw",
                         !.doc = [id |-> nextId, text |-> me.text, stamp |-> life]]
      <3>4. CallsInv([cl EXCEPT ![c] = y], nextId + 1, m2, forgotten)
        <4>1. DOMAIN m2.metadata \subseteq Nat
          <5>1. Shared /\ doc.id \in Nat BY <1>0 DEF IInv, Pend
          <5>2. DOMAIN m2.metadata = DOMAIN mem.metadata \cup {doc.id}
            BY <5>1, WithDocHolds DEF m2
          <5> QED BY <5>1, <5>2 DEF Shared, DocsOK
        <4> QED BY <1>0, <1>1, <1>2, <3>2, <3>3, <4>1, CallDraws
      <3>5. call' = [call EXCEPT ![c] = y] /\ nextId' = nextId + 1
        BY <3>1 DEF Store, AfterDraw
      <3> HIDE DEF y
      <3>6. call' = [cl EXCEPT ![c] = y] BY <1>4, <3>5
      <3>7. nextId' \in Nat BY <1>0, <3>5
      <3> QED BY <3>4, <3>5, <3>6, <3>7
    <2> QED BY <1>0, <1>2, <2>1, <2>2, <2>3 DEF CallRec, Whys
  <1>7. CallsInv(call, nextId, mem, forgotten)'
    BY <1>3, <1>6 DEF CallsInv, Drawn, There, TextIn, DocOf
  <1>8. Shared /\ PenaltyInv /\ FilesInv BY DEF IInv
  <1>9. /\ m2 = [index |-> m2.index, metadata |-> m2.metadata]
        /\ DOMAIN m2.metadata = DOMAIN mem.metadata \cup {doc.id}
        /\ \A i \in DOMAIN mem.metadata \ {doc.id} : m2.metadata[i] = mem.metadata[i]
        /\ m2.metadata[doc.id] =
               IF useRust THEN [text |-> Fresh, meta |-> doc.text, stamp |-> doc.stamp]
               ELSE [text |-> doc.text, meta |-> Fresh, stamp |-> doc.stamp]
        /\ \E v \in m2.index : v.id = doc.id
        /\ m2.index \subseteq
               mem.index \cup {[id |-> doc.id, text |-> doc.text, stamp |-> doc.stamp]}
        /\ \A v \in mem.index : v \in m2.index \/ (~useRust /\ v.id = doc.id)
    <2> USE DEF m2
    <2>1. Shared BY <1>8
    <2>2. /\ m2 = [index |-> m2.index, metadata |-> m2.metadata]
          /\ DOMAIN m2.metadata = DOMAIN mem.metadata \cup {doc.id}
          /\ \A i \in DOMAIN mem.metadata \ {doc.id} : m2.metadata[i] = mem.metadata[i]
      BY <2>1, WithDocHolds
    <2>3. m2.metadata[doc.id] =
             IF useRust THEN [text |-> Fresh, meta |-> doc.text, stamp |-> doc.stamp]
             ELSE [text |-> doc.text, meta |-> Fresh, stamp |-> doc.stamp]
      BY <2>1, WithDocHolds
    <2>4. [id |-> doc.id, text |-> doc.text, stamp |-> doc.stamp] \in m2.index
      BY <2>1, WithDocHolds
    <2>5. /\ m2.index \subseteq
                mem.index \cup {[id |-> doc.id, text |-> doc.text, stamp |-> doc.stamp]}
          /\ \A v \in mem.index : v \in m2.index \/ (~useRust /\ v.id = doc.id)
      BY <2>1, WithDocHolds
    <2> HIDE DEF m2
    <2>6. \E v \in m2.index : v.id = doc.id BY <2>4
    <2> QED BY <2>2, <2>3, <2>5, <2>6
  <1>10. Shared'
    <2>1. IndexOK(m2.index)
      <3> DEFINE v0 == [id |-> doc.id, text |-> doc.text, stamp |-> doc.stamp]
      <3>1. v0 \in Vector BY <1>0 DEF Vector, Pend
      <3>2. mem.index \cup {v0} \subseteq Vector /\ IsFiniteSet(mem.index \cup {v0})
        BY <1>8, <3>1, FS_AddElement DEF Shared, IndexOK
      <3> QED BY <1>9, <3>2, FS_Subset DEF IndexOK
    <2>2. DocsOK(m2.metadata)
      <3>1. m2.metadata[doc.id] \in Doc
        <4>1. doc.text \in Txt /\ doc.stamp \in Nat /\ useRust \in BOOLEAN /\ Fresh \in Meta
          BY <1>0, <1>8, FreshIsJudged DEF Pend, Shared, Judged
        <4>2. m2.metadata[doc.id] \in
                 {[text |-> Fresh, meta |-> doc.text, stamp |-> doc.stamp],
                  [text |-> doc.text, meta |-> Fresh, stamp |-> doc.stamp]}
          BY <1>9, <4>1
        <4> HIDE DEF m2, doc
        <4> QED BY <4>1, <4>2 DEF Doc
      <3>2. \A i \in DOMAIN mem.metadata : mem.metadata[i] \in Doc
        BY <1>8 DEF Shared, DocsOK
      <3>3. m2.metadata = [i \in DOMAIN m2.metadata |-> m2.metadata[i]]
        <4>1. CASE useRust BY <4>1 DEF m2, WithDoc, Insert
        <4>2. CASE ~useRust BY <4>2 DEF m2, WithDoc, Insert
        <4> QED BY <4>1, <4>2
      <3>4. \A i \in DOMAIN m2.metadata : m2.metadata[i] \in Doc BY <1>9, <3>1, <3>2
      <3>5. DOMAIN m2.metadata \subseteq Nat
        BY <1>0, <1>8, <1>9 DEF Pend, Shared, DocsOK
      <3> QED BY <3>3, <3>4, <3>5 DEF DocsOK
    <2>3. mem' = [index |-> mem'.index, metadata |-> mem'.metadata] BY <1>3, <1>9
    <2> QED BY <1>3, <1>6, <1>8, <2>1, <2>2, <2>3 DEF Shared
  <1>11. PenaltyInv'
    <2>1. ASSUME ~useRust, NEW i \in DOMAIN m2.metadata PROVE Judged(m2.metadata[i].meta)
      <3>1. CASE i = doc.id BY <1>9, <2>1, <3>1, FreshIsJudged
      <3>2. CASE i # doc.id BY <1>8, <1>9, <2>1, <3>2 DEF PenaltyInv
      <3> QED BY <3>1, <3>2
    <2>2. ASSUME ~useRust, NEW v \in m2.index PROVE v.id \in DOMAIN m2.metadata
      BY <1>8, <1>9, <2>2 DEF PenaltyInv
    <2> QED BY <1>3, <2>1, <2>2 DEF PenaltyInv
  <1>12. FilesInv'
    <2>1. \A i : (\E v \in mem.index : v.id = i) => \E v \in m2.index : v.id = i
      BY <1>9
    <2>2. \A md : Covered(md, mem.index) => Covered(md, m2.index) BY <2>1 DEF Covered
    <2>3. mixed \/ Covered(m2.metadata, m2.index)
      BY <1>8, <1>9, <2>1 DEF FilesInv, Covered
    <2>4. DiskInv(disk)' BY <1>3, <1>8, <2>2 DEF FilesInv, DiskInv
    <2> QED BY <1>3, <2>3, <2>4 DEF FilesInv
  <1> QED BY <1>7, <1>10, <1>11, <1>12 DEF IInv

Without(id) ==
    LET rest == Remove(mem, id) IN
    IF useRust THEN rest ELSE [rest EXCEPT !.index = {v \in @ : v.id # id}]

\* A document is forgotten; its vector stays where the backend is the Rust memory.
LEMMA ForgetKeepsIt ==
  ASSUME IInv, NEW c \in Call, Forget(c)
  PROVE  IInv'
  <1>0. /\ call \in [Call -> CallRec] /\ call[c] \in CallRec /\ call[c].for = "forget"
        /\ nextId \in Nat /\ useRust \in BOOLEAN
        /\ mem = [index |-> mem.index, metadata |-> mem.metadata]
    BY DEF IInv, CallsInv, Shared, Forget
  <1>1. Shared /\ PenaltyInv /\ FilesInv BY DEF IInv
  <1>2. UNCHANGED <<useRust, nextId, disk, life, lineage, mixed>> BY DEF Forget
  <1>3. PICK id : \E how \in {"done", "raised"} :
           /\ call' = [call EXCEPT ![c] = Ended(call[c], how)]
           /\ \/ mem' = mem /\ forgotten' = forgotten
              \/ forgotten' = forgotten \cup {id} /\ mem' = Without(id)
    <2>1. PICK S : LET hits == {v \in S : Distance(call[c].text, v.text) < 2}
                       id   == (CHOOSE v \in hits : TRUE).id
                   IN  \/ /\ hits = {}
                          /\ call' = [call EXCEPT ![c] = Ended(@, "done")]
                          /\ UNCHANGED <<mem, forgotten>>
                       \/ /\ hits # {}
                          /\ mem' = Without(id)
                          /\ forgotten' = forgotten \cup {id}
                          /\ call' = [call EXCEPT ![c] = Ended(@,
                                IF useRust /\ mem.metadata[id].meta \in Text THEN "raised" ELSE "done")]
      BY DEF Forget, Without
    <2> DEFINE hits == {v \in S : Distance(call[c].text, v.text) < 2}
               gone == (CHOOSE v \in hits : TRUE).id
               how  == IF useRust /\ mem.metadata[gone].meta \in Text THEN "raised" ELSE "done"
    <2>2. how \in {"done", "raised"} OBVIOUS
    <2>3. \/ mem' = mem /\ forgotten' = forgotten /\ call' = [call EXCEPT ![c] = Ended(call[c], "done")]
          \/ /\ forgotten' = forgotten \cup {gone} /\ mem' = Without(gone)
             /\ call' = [call EXCEPT ![c] = Ended(call[c], how)]
      BY <2>1
    <2> HIDE DEF gone, how
    <2> QED BY <2>2, <2>3
  <1>4. CallsInv(call', nextId, mem, forgotten)
    <2>0. PICK how \in {"done", "raised"} : call' = [call EXCEPT ![c] = Ended(call[c], how)]
      BY <1>3
    <2> DEFINE x == Ended(call[c], how)
    <2>1. x \in CallRec /\ ~Waits(x) /\ x.kept \subseteq call[c].kept /\ Answers(x)
      BY <1>0, EndedCall DEF Answers
    <2> HIDE DEF x
    <2>2. CallsInv([call EXCEPT ![c] = x], nextId, mem, forgotten)
      BY <1>0, <2>1, CallMoves DEF IInv
    <2> QED BY <2>0, <2>2 DEF x
  <1>5. CASE mem' = mem /\ forgotten' = forgotten
    <2>1. CallsInv(call, nextId, mem, forgotten)'
      BY <1>2, <1>4, <1>5 DEF CallsInv, Drawn, There, TextIn, DocOf
    <2>2. Shared' BY <1>1, <1>2, <1>5 DEF Shared
    <2>3. PenaltyInv' BY <1>1, <1>2, <1>5 DEF PenaltyInv
    <2>4. FilesInv' BY <1>1, <1>2, <1>5 DEF FilesInv, DiskInv
    <2> QED BY <2>1, <2>2, <2>3, <2>4 DEF IInv
  <1>6. CASE forgotten' = forgotten \cup {id} /\ mem' = Without(id)
    <2> DEFINE md == [i \in DOMAIN mem.metadata \ {id} |-> mem.metadata[i]]
               ix == IF useRust THEN mem.index ELSE {v \in mem.index : v.id # id}
    <2>1. mem' = [index |-> ix, metadata |-> md]
      <3>1. Remove(mem, id) = [index |-> mem.index, metadata |-> md]
        <4>1. mem \in [index : {mem.index}, metadata : {mem.metadata}] BY <1>0
        <4>2. Remove(mem, id) = [mem EXCEPT !.metadata = md] BY DEF Remove
        <4> HIDE DEF md
        <4> QED BY <4>1, <4>2
      <3>2. CASE useRust BY <1>6, <3>1, <3>2 DEF Without
      <3>3. CASE ~useRust
        <4>1. Remove(mem, id) \in [index : {mem.index}, metadata : {md}] BY <3>1
        <4>2. mem' = [Remove(mem, id) EXCEPT !.index = {v \in @ : v.id # id}]
          BY <1>6, <3>3 DEF Without
        <4>3. mem' = [Remove(mem, id) EXCEPT !.index = ix] BY <3>1, <3>3, <4>2
        <4> HIDE DEF ix, md
        <4> QED BY <4>1, <4>3
      <3> QED BY <3>2, <3>3
    <2>2. mem'.index = ix /\ mem'.metadata = md
          /\ mem' = [index |-> mem'.index, metadata |-> mem'.metadata]
      <3> HIDE DEF ix, md
      <3> QED BY <2>1
    <2>3. IndexOK(ix) BY <1>1, FS_Subset DEF Shared, IndexOK
    <2>4. DocsOK(md) BY <1>1 DEF Shared, DocsOK
    <2>5. ASSUME NEW k \in Kept, There(k, mem, forgotten)
          PROVE  There(k, mem', forgotten')
      BY <1>6, <2>2, <2>5 DEF There, TextIn
    <2>6. CallsInv(call', nextId, mem', forgotten')
      <3>1. \A i \in DOMAIN mem'.metadata : /\ i \in DOMAIN mem.metadata
                                           /\ mem'.metadata[i].stamp = mem.metadata[i].stamp
        BY <2>2
      <3> QED BY <1>4, <2>5, <3>1, MemoryMoves
    <2>7. CallsInv(call, nextId, mem, forgotten)'
      BY <1>2, <2>6 DEF CallsInv, Drawn, There, TextIn, DocOf
    <2>8. Shared' BY <1>1, <1>2, <2>2, <2>3, <2>4 DEF Shared
    <2>9. PenaltyInv' BY <1>1, <1>2, <2>2 DEF PenaltyInv
    <2>10. FilesInv'
      <3>1. DiskInv(disk) BY <1>1 DEF FilesInv
      <3>2. CASE useRust
        <4>1. mem'.index = mem.index BY <2>2, <3>2
        <4>2. DiskInv(disk)' BY <1>2, <3>1, <4>1 DEF DiskInv
        <4>3. (mixed \/ Covered(mem.metadata, mem.index))'
          BY <1>1, <1>2, <2>2, <4>1 DEF FilesInv, Covered
        <4> QED BY <4>2, <4>3 DEF FilesInv
      <3>3. CASE ~useRust
        <4>1. DiskInv(disk)' BY <1>2, <3>1, <3>3 DEF DiskInv
        <4>2. (mixed \/ Covered(mem.metadata, mem.index))'
          BY <1>1, <1>2, <2>2 DEF FilesInv, Covered
        <4> QED BY <4>1, <4>2 DEF FilesInv
      <3> QED BY <3>2, <3>3
    <2> QED BY <2>7, <2>8, <2>9, <2>10 DEF IInv
  <1> QED BY <1>3, <1>5, <1>6

\* An empty memory.
LEMMA EmptyMemory ==
  /\ NewMemory.index = {} /\ NewMemory.metadata = <<>> /\ DOMAIN <<>> = {}
  /\ NewMemory = [index |-> NewMemory.index, metadata |-> NewMemory.metadata]
  /\ IndexOK({}) /\ DocsOK(<<>>)
  <1>1. <<>> \in [DOMAIN <<>> -> Doc] /\ DOMAIN <<>> = {}
    <2>1. <<>> \in Seq(Doc) OBVIOUS
    <2>2. <<>> \in [1 .. Len(<<>>) -> Doc] BY <2>1
    <2> QED BY <2>2
  <1> QED BY <1>1, FS_EmptySet DEF NewMemory, IndexOK, DocsOK

\* When a new life begins, what the calls drew and kept is of an earlier one.
LEMMA CallsOfANewLife ==
  ASSUME IInv, life' = life + 1, call' \in [Call -> CallRec],
         \A c \in Call :
            \/ call'[c] = call[c]
            \/ ~Waits(call'[c]) /\ call'[c].kept = {} /\ Answers(call'[c]),
         \A i \in DOMAIN mem'.metadata :
            /\ mem'.metadata[i].stamp \in Nat /\ mem'.metadata[i].stamp <= life
            /\ \A c \in Call : ~Waits(call'[c])
  PROVE  CallsInv(call, nextId, mem, forgotten)'
  <1>1. life \in Nat /\ call \in [Call -> CallRec] BY DEF IInv, Shared, CallsInv
  <1>2. ASSUME NEW d, d.stamp \in Nat, d.stamp <= life
        PROVE  d.stamp <= life' /\ d.stamp # life'
    BY <1>1, <1>2
  <1>3. ASSUME NEW c \in Call, Waits(call'[c])
        PROVE  /\ call'[c] = call[c] /\ call'[c].for \notin {"none", "recall"} /\ call'[c].doc \in Pend
               /\ call'[c].doc.stamp <= life' /\ call'[c].doc.stamp # life'
    <2>1. /\ call'[c] = call[c] /\ call[c].for \notin {"none", "recall"} /\ call[c].doc \in Pend
          /\ Drawn(call[c].doc, nextId)
      BY <1>3 DEF IInv, CallsInv
    <2>2. call[c].doc.stamp \in Nat /\ call[c].doc.stamp <= life BY <2>1 DEF Pend, Drawn
    <2> QED BY <1>2, <2>1, <2>2
  <1>4. ASSUME NEW c \in Call, NEW k \in call'[c].kept
        PROVE  k.stamp <= k.born /\ k.born <= life' /\ k.born # life'
    <2>1. call'[c] = call[c] BY <1>4
    <2>2. k \in Kept /\ k.stamp <= k.born /\ k.born <= life
      BY <1>1, <2>1 DEF IInv, CallsInv, CallRec
    <2>3. k.born \in Nat BY <2>2 DEF Kept
    <2> QED BY <1>1, <2>2, <2>3
  <1>5. \A c \in Call : Answers(call'[c]) BY DEF IInv, CallsInv
  <1>6. \A c, d \in Call : Waits(call'[c]) /\ Waits(call'[d]) /\ c # d =>
                              Differ(call'[c].doc, call'[d].doc)
    BY <1>3 DEF IInv, CallsInv
  <1>7. ASSUME NEW i \in DOMAIN mem'.metadata
        PROVE  LET d == [id |-> i, stamp |-> mem'.metadata[i].stamp] IN
               d.stamp <= life' /\ d.stamp # life'
    BY <1>2
  <1> QED BY <1>3, <1>4, <1>5, <1>6, <1>7 DEF CallsInv, Drawn, DocOf

\* What is of an old life stays so.
LEMMA OldStaysOld ==
  ASSUME life \in Nat, life' = life + 1, NEW md, DocsOK(md), OfOld(md, life)
  PROVE  OfOld(md, life')
  <1>1. \A i \in DOMAIN md : md[i].stamp \in Nat BY DEF DocsOK, Doc
  <1> QED BY <1>1 DEF OfOld

\* The memory is cleared: what was drawn before is of an older life.
LEMMA ClearKeepsIt ==
  ASSUME IInv, Clear
  PROVE  IInv'
  <1>1. Shared /\ FilesInv /\ call \in [Call -> CallRec] /\ life \in Nat
    BY DEF IInv, CallsInv, Shared
  <1>2. /\ nextId' = 0 /\ mem' = NewMemory /\ life' = life + 1 /\ lineage' = life + 1
        /\ UNCHANGED <<useRust, call, disk, mixed>>
    BY DEF Clear
  <1>3. CallsInv(call, nextId, mem, forgotten)'
    <2>1. DOMAIN mem'.metadata = {} BY <1>2, EmptyMemory
    <2> QED BY <1>1, <1>2, <2>1, CallsOfANewLife
  <1>4. mem'.index = {} /\ mem'.metadata = <<>> /\ DOMAIN mem'.metadata = {}
        /\ mem' = [index |-> mem'.index, metadata |-> mem'.metadata]
    BY <1>2, EmptyMemory
  <1>5. Shared' BY <1>1, <1>2, <1>4, EmptyMemory DEF Shared
  <1>6. PenaltyInv' /\ Covered(mem.metadata, mem.index)' BY <1>4 DEF PenaltyInv, Covered
  <1>7. \A l \in 0..life : l \in 0..life' /\ l # lineage' BY <1>1, <1>2
  <1>8. DiskInv(disk)' BY <1>1, <1>2, <1>7, OldStaysOld DEF FilesInv, DiskInv
  <1> QED BY <1>3, <1>5, <1>6, <1>8 DEF IInv, FilesInv

\* A report is added: the new score is within the tier of the roles that have reported.
LEMMA FeedbackKeepsIt ==
  ASSUME IInv, NEW id, NEW r \in Role \cup {Unknown}, NEW p \in Penalty, Feedback(id, r, p)
  PROVE  IInv'
  <1>1. Shared /\ PenaltyInv /\ FilesInv /\ ~useRust /\ id \in DOMAIN mem.metadata
    BY DEF IInv, Feedback
  <1> DEFINE reports == Append(ReportsOf(id), [role |-> r, penalty |-> p])
             json    == Json(reports, Score(reports))
             md      == [mem.metadata EXCEPT ![id].meta = json]
  <1>2. reports \in Seq(Report)
    <2>1. ReportsOf(id) \in Seq(Report) BY <1>1 DEF PenaltyInv, Judged, Meta, ReportsOf
    <2>2. [role |-> r, penalty |-> p] \in Report BY DEF Report
    <2> QED BY <2>1, <2>2
  <1>3. Judged(json) BY <1>2, ScoreIsJudged
  <1>4. UNCHANGED <<useRust, nextId, call, disk, life, lineage, mixed, forgotten>>
        /\ mem' = UpdateMetadata(id, json)
    BY DEF Feedback, history
  <1> HIDE DEF json
  <1>5. mem' = [index |-> mem.index, metadata |-> md]
    <2>1. mem \in [index : {mem.index}, metadata : {mem.metadata}] BY <1>1 DEF Shared
    <2> QED BY <1>4, <2>1 DEF UpdateMetadata
  <1>6. /\ mem.metadata \in [DOMAIN mem.metadata -> Doc]
        /\ DOMAIN md = DOMAIN mem.metadata
        /\ \A i \in DOMAIN mem.metadata :
              /\ md[i].text = mem.metadata[i].text /\ md[i].stamp = mem.metadata[i].stamp
              /\ md[i].meta = IF i = id THEN json ELSE mem.metadata[i].meta
              /\ md[i] \in Doc
    <2>1. mem.metadata \in [DOMAIN mem.metadata -> Doc] BY <1>1 DEF Shared, DocsOK
    <2>2. json \in Meta BY <1>3 DEF Judged
    <2>3. mem.metadata[id] \in Doc BY <1>1, <2>1
    <2> DEFINE e == [mem.metadata[id] EXCEPT !.meta = json]
    <2>4. /\ e \in Doc /\ e.text = mem.metadata[id].text /\ e.stamp = mem.metadata[id].stamp
          /\ e.meta = json
      BY <2>2, <2>3 DEF Doc
    <2>5. md = [mem.metadata EXCEPT ![id] = e] BY <1>1, <2>1
    <2> HIDE DEF e
    <2>6. /\ DOMAIN md = DOMAIN mem.metadata
          /\ \A i \in DOMAIN mem.metadata : md[i] = IF i = id THEN e ELSE mem.metadata[i]
      BY <1>1, <2>1, <2>5
    <2> QED BY <2>1, <2>4, <2>6
  <1>7. md \in [DOMAIN md -> Doc] BY <1>6
  <1> HIDE DEF md
  <1>8. mem'.index = mem.index /\ mem'.metadata = md
        /\ mem' = [index |-> mem'.index, metadata |-> mem'.metadata]
    BY <1>5
  <1>9. Shared' BY <1>1, <1>4, <1>6, <1>7, <1>8 DEF Shared, DocsOK
  <1>10. PenaltyInv' BY <1>1, <1>3, <1>4, <1>6, <1>8 DEF PenaltyInv
  <1>11. FilesInv'
    <2>1. DiskInv(disk)' BY <1>1, <1>4, <1>8 DEF FilesInv, DiskInv
    <2>2. (mixed \/ Covered(mem.metadata, mem.index))'
      BY <1>1, <1>4, <1>6, <1>8 DEF FilesInv, Covered
    <2> QED BY <2>1, <2>2 DEF FilesInv
  <1>12. CallsInv(call, nextId, mem, forgotten)'
    <2>1. ASSUME NEW k \in Kept, There(k, mem, forgotten) PROVE There(k, mem', forgotten)
      BY <1>1, <1>6, <1>8, <2>1 DEF There, TextIn
    <2>2. CallsInv(call, nextId, mem', forgotten)
      BY <1>6, <1>8, <2>1, MemoryMoves DEF IInv
    <2> QED BY <1>4, <2>2 DEF CallsInv, Drawn, There, TextIn, DocOf
  <1> QED BY <1>9, <1>10, <1>11, <1>12 DEF IInv

\* Whatever part of a save was written, the files fit: the index comes first, and it holds the
\* vectors of the map that is still there from an earlier save.
LEMMA WrittenFits ==
  ASSUME Shared, FilesInv, OfOld(mem.metadata, life), NEW n \in 0..3, NEW torn \in BOOLEAN,
         torn => n < 3
  PROVE  DiskInv(Written(n, torn))
  <1> DEFINE w    == Written(n, torn)
             newI == [value |-> mem.index, line |-> lineage]
             newM == [value |-> mem.metadata, line |-> lineage]
             newC == [value |-> nextId, line |-> lineage]
  <1>0. /\ DiskInv(disk) /\ DOMAIN disk = {"index", "metadata", "config"}
        /\ mixed \/ Covered(mem.metadata, mem.index)
    BY DEF FilesInv, DiskInv
  <1>1. CASE ~useRust
    <2>1. /\ w = [f \in DOMAIN disk |-> disk[f]] BY <1>1 DEF Written
    <2>2. w.index = disk.index /\ w.metadata = disk.metadata /\ w.config = disk.config
          /\ DOMAIN w = {"index", "metadata", "config"}
      BY <1>0, <2>1
    <2> HIDE DEF w
    <2>3. DiskInv(w) BY <1>0, <2>2 DEF DiskInv
    <2> QED BY <2>3 DEF w
  <1>2. CASE useRust
    <2>1. Files[1] = "index" /\ Files[2] = "metadata" /\ Files[3] = "config" BY DEF Files
    <2>2. /\ (\E i \in 1..n : Files[i] = "index") <=> n >= 1
          /\ (\E i \in 1..n : Files[i] = "metadata") <=> n >= 2
          /\ (\E i \in 1..n : Files[i] = "config") <=> n >= 3
          /\ torn => /\ Files[n + 1] = "index" <=> n = 0
                     /\ Files[n + 1] = "metadata" <=> n = 1
                     /\ Files[n + 1] = "config" <=> n = 2
      <3>1. n = 0 \/ n = 1 \/ n = 2 \/ n = 3 OBVIOUS
      <3> QED BY <2>1, <3>1
    <2>3. DOMAIN w = {"index", "metadata", "config"} BY <1>0 DEF Written
    <2>4. w.index = IF n >= 1 THEN newI ELSE IF torn /\ n = 0 THEN Torn ELSE disk.index
      BY <1>0, <1>2, <2>2 DEF Written
    <2>5. w.metadata = IF n >= 2 THEN newM ELSE IF torn /\ n = 1 THEN Torn ELSE disk.metadata
      BY <1>0, <1>2, <2>2 DEF Written
    <2>6. w.config = IF n >= 3 THEN newC ELSE IF torn /\ n = 2 THEN Torn ELSE disk.config
      BY <1>0, <1>2, <2>2 DEF Written
    <2>7. /\ newI.value = mem.index /\ newI.line = lineage /\ newM.value = mem.metadata
          /\ newM.line = lineage /\ newC.value = nextId
      OBVIOUS
    <2> HIDE DEF w, newI, newM, newC
    <2>8. ~Held(Torn) BY DEF Held
    <2>9. Held(w.index) => IndexOK(w.index.value) /\ w.index.line \in 0..life
      BY <1>0, <2>4, <2>7, <2>8 DEF DiskInv, Shared
    <2>10. Held(w.metadata) => /\ DocsOK(w.metadata.value) /\ OfOld(w.metadata.value, life)
                               /\ w.metadata.line \in 0..life
      BY <1>0, <2>5, <2>7, <2>8 DEF DiskInv, Shared
    <2>11. Held(w.config) => w.config.value \in Nat
      BY <1>0, <2>6, <2>7, <2>8 DEF DiskInv, Shared
    <2>12. ASSUME ~mixed, Held(w.metadata)
           PROVE  /\ w.metadata.line = lineage => Covered(w.metadata.value, mem.index)
                  /\ Held(w.index) /\ w.index.line = w.metadata.line =>
                        Covered(w.metadata.value, w.index.value)
      <3>1. CASE n >= 2 BY <1>0, <2>4, <2>5, <2>7, <2>12, <3>1
      <3>2. CASE n = 1 BY <1>0, <2>4, <2>5, <2>7, <2>8, <2>12, <3>2 DEF DiskInv
      <3>3. CASE n = 0 BY <1>0, <2>4, <2>5, <2>7, <2>8, <2>12, <3>3 DEF DiskInv
      <3> QED BY <3>1, <3>2, <3>3
    <2>13. mixed \in BOOLEAN BY DEF Shared
    <2>14. DiskInv(w) BY <1>2, <2>3, <2>9, <2>10, <2>11, <2>12, <2>13 DEF DiskInv
    <2> QED BY <2>14 DEF w
  <1> QED BY <1>1, <1>2 DEF Shared

\* All files are written: they are of one moment.
LEMMA SaveKeepsIt ==
  ASSUME IInv, Save
  PROVE  IInv'
  <1>1. UNCHANGED <<useRust, nextId, mem, call, life, lineage, mixed, forgotten>>
        /\ disk' = Written(3, FALSE)
    BY DEF Save
  <1>2. DiskInv(Written(3, FALSE))
    <2>1. 3 \in 0..3 /\ FALSE \in BOOLEAN /\ (FALSE => 3 < 3) OBVIOUS
    <2>2. Shared /\ FilesInv /\ OfOld(mem.metadata, life)
      BY DEF IInv, CallsInv, Drawn, DocOf, OfOld
    <2> QED BY <2>1, <2>2, WrittenFits
  <1>3. DiskInv(disk)' BY <1>1, <1>2 DEF DiskInv
  <1>4. Shared' BY <1>1 DEF IInv, Shared
  <1>5. PenaltyInv' BY <1>1 DEF IInv, PenaltyInv
  <1>6. FilesInv' BY <1>1, <1>3 DEF IInv, FilesInv
  <1>7. CallsInv(call, nextId, mem, forgotten)'
    BY <1>1 DEF IInv, CallsInv, Drawn, There, TextIn, DocOf
  <1> QED BY <1>4, <1>5, <1>6, <1>7 DEF IInv

\* A process starts again from files that fit.
LEMMA StartKeepsIt ==
  ASSUME IInv, NEW d, DiskInv(d), StartAgain(d)
  PROVE  IInv'
  <1>1. Shared /\ call \in [Call -> CallRec] /\ life \in Nat /\ useRust \in BOOLEAN
        /\ mixed \in BOOLEAN
    BY DEF IInv, CallsInv, Shared
  <1>2. life' = life + 1 /\ disk' = d /\ useRust' = useRust BY DEF StartAgain
  <1>3. CallsInv(call, nextId, mem, forgotten)'
    <2>1. \A c \in Call : \/ call'[c] = call[c]
                          \/ call'[c] = Ended(call[c], "lost")
      BY DEF StartAgain
    <2>2. \A c \in Call : LET x == Ended(call[c], "lost") IN
                          x \in CallRec /\ ~Waits(x) /\ x.kept = {} /\ Answers(x)
      BY <1>1, EndedCall DEF Answers
    <2>3. call' \in [Call -> CallRec] BY <1>1, <2>2 DEF StartAgain
    <2>4. \A c \in Call : ~Waits(call'[c])
      BY <1>1, <2>2 DEF StartAgain, Waits
    <2>5. ASSUME NEW i \in DOMAIN mem'.metadata
          PROVE  mem'.metadata[i].stamp \in Nat /\ mem'.metadata[i].stamp <= life
      <3>1. d.metadata \notin {NoFile, Torn} /\ mem'.metadata = d.metadata.value
        BY EmptyMemory DEF StartAgain, Loadable
      <3>2. DocsOK(d.metadata.value) /\ OfOld(d.metadata.value, life)
        BY <3>1 DEF DiskInv, Held
      <3>3. d.metadata.value[i] \in Doc BY <3>1, <3>2 DEF DocsOK
      <3> QED BY <3>1, <3>2, <3>3 DEF OfOld, Doc
    <2> QED BY <1>2, <2>1, <2>2, <2>3, <2>4, <2>5, CallsOfANewLife
  <1>4. \A l \in 0..life : l \in 0..life' /\ l # life + 1 BY <1>1, <1>2
  <1>5. CASE nextId' = 0 /\ mem' = NewMemory /\ lineage' = life + 1 /\ UNCHANGED mixed
    <2>1. mem'.index = {} /\ mem'.metadata = <<>> /\ DOMAIN mem'.metadata = {}
          /\ mem' = [index |-> mem'.index, metadata |-> mem'.metadata]
      BY <1>5, EmptyMemory
    <2>2. Shared' BY <1>1, <1>2, <1>5, <2>1, EmptyMemory DEF Shared
    <2>3. PenaltyInv' /\ Covered(mem.metadata, mem.index)' BY <2>1 DEF PenaltyInv, Covered
    <2>4. DiskInv(disk)' BY <1>1, <1>2, <1>4, <1>5, OldStaysOld DEF DiskInv
    <2> QED BY <1>3, <2>2, <2>3, <2>4 DEF IInv, FilesInv
  <1>6. CASE /\ Loadable(d)
             /\ nextId' = d.config.value
             /\ IF d.metadata = NoFile
                THEN /\ mem' = [index |-> d.index.value, metadata |-> <<>>]
                     /\ lineage' = d.index.line /\ UNCHANGED mixed
                ELSE /\ mem' = [index |-> d.index.value, metadata |-> d.metadata.value]
                     /\ lineage' = d.metadata.line
                     /\ mixed' = (mixed \/ d.index.line # d.metadata.line)
    <2>1. Held(d.config) /\ Held(d.index) /\ d.metadata # Torn /\ useRust
      BY <1>1, <1>6 DEF Loadable, Held, DiskInv
    <2>2. /\ IndexOK(d.index.value) /\ d.index.line \in 0..life /\ nextId' \in Nat
          /\ d.index.line \in 0..life'
      BY <1>4, <1>6, <2>1 DEF DiskInv
    <2>3. PenaltyInv' BY <1>2, <2>1 DEF PenaltyInv
    <2>4. CASE d.metadata = NoFile
      <3>1. mem'.index = d.index.value /\ mem'.metadata = <<>> /\ DOMAIN mem'.metadata = {}
            /\ mem' = [index |-> mem'.index, metadata |-> mem'.metadata]
            /\ lineage' = d.index.line /\ mixed' = mixed
        BY <1>6, <2>4, EmptyMemory
      <3>2. Shared' BY <1>1, <1>2, <2>2, <3>1, EmptyMemory DEF Shared
      <3>3. Covered(mem.metadata, mem.index)' BY <3>1 DEF Covered
      <3>4. ~Held(d.metadata) BY <2>4 DEF Held
      <3>5. DiskInv(disk)' BY <1>2, <1>4, <3>1, <3>4, <2>1 DEF DiskInv
      <3> QED BY <1>3, <2>3, <3>2, <3>3, <3>5 DEF IInv, FilesInv
    <2>5. CASE d.metadata # NoFile
      <3>1. mem'.index = d.index.value /\ mem'.metadata = d.metadata.value
            /\ mem' = [index |-> mem'.index, metadata |-> mem'.metadata]
            /\ lineage' = d.metadata.line
            /\ mixed' = (mixed \/ d.index.line # d.metadata.line)
        BY <1>6, <2>5
      <3>2. Held(d.metadata) BY <2>1, <2>5 DEF Held
      <3>3. DocsOK(d.metadata.value) /\ d.metadata.line \in 0..life' BY <1>4, <3>2 DEF DiskInv
      <3>4. mixed' \in BOOLEAN BY <3>1
      <3>5. Shared' BY <1>1, <1>2, <2>2, <3>1, <3>3, <3>4 DEF Shared
      <3>6. ~mixed' => Covered(d.metadata.value, d.index.value)
        BY <2>1, <3>1, <3>2 DEF DiskInv
      <3>7. DiskInv(disk)' BY <1>1, <1>2, <1>4, <2>1, <2>2, <3>1, <3>2, <3>6, OldStaysOld DEF DiskInv
      <3>8. (mixed \/ Covered(mem.metadata, mem.index))' BY <3>1, <3>4, <3>6
      <3> QED BY <1>3, <2>3, <3>5, <3>7, <3>8 DEF IInv, FilesInv
    <2> QED BY <2>4, <2>5
  <1> QED BY <1>5, <1>6 DEF StartAgain

\* Every step is one of a call, of a report, of a clear, or of the files.
LEMMA Step == IInv /\ [Next]_vars => IInv'
  <1> SUFFICES ASSUME IInv, [Next]_vars PROVE IInv' OBVIOUS
  <1>1. CASE Restart
    BY <1>1, StartKeepsIt DEF Restart, IInv, FilesInv
  <1>2. CASE CrashInSave
    <2>1. PICK n \in 0..2, torn \in BOOLEAN : StartAgain(Written(n, torn))
      BY <1>2 DEF CrashInSave
    <2>2. n \in 0..3 /\ n < 3 OBVIOUS
    <2>3. OfOld(mem.metadata, life) BY DEF IInv, CallsInv, Drawn, DocOf, OfOld
    <2>4. DiskInv(Written(n, torn)) BY <2>2, <2>3, WrittenFits DEF IInv
    <2> QED BY <2>1, <2>4, StartKeepsIt
  <1>3. CASE UNCHANGED vars
    <2>1. UNCHANGED <<useRust, nextId, mem, call, disk, history>> BY <1>3 DEF vars, history
    <2>2. nextId \in Nat BY DEF IInv, Shared
    <2> QED BY <2>1, <2>2, OnlyCalls DEF IInv
  <1> QED BY <1>1, <1>2, <1>3, ToolKeepsIt, RecallKeepsIt, StoredKeepsIt, ForgetKeepsIt, ClearKeepsIt,
             FeedbackKeepsIt, SaveKeepsIt DEF Next

\* The invariant holds in every state.
LEMMA Invariant == Spec => []IInv
  BY Initially, Step, PTL DEF Spec

-----------------------------------------------------------------------------
(* What a run checks of the memory                                         *)

\* What a call answered that it stored, and what a search handed out, is still held with the
\* same text, unless it was forgotten or cleared: the
\* tool takes an empty answer of the retainer for "nothing kept" and stores the raw text itself
\* (memory.py:23-30, retainer.py:203-215), and no second document gets the id that a pending
\* store drew before its embedding (rag.py:118-126), except one of another life.
THEOREM StoredIsHeld == Spec => []ToldIsKept
  <1>1. IInv => ToldIsKept
    <2> SUFFICES ASSUME IInv, NEW c \in Call, call[c].at = "done", call[c].for # "forget"
                 PROVE  /\ call[c].for \notin {"reflect", "recall"} => call[c].kept # {}
                        /\ \A k \in call[c].kept : k.born = life =>
                              \/ k.id \in forgotten
                              \/ /\ k.id \in DOMAIN mem.metadata
                                 /\ mem.metadata[k.id].stamp = k.stamp => TextOf(k.id) = k.text
      BY DEF ToldIsKept
    <2>1. call[c].for \notin {"reflect", "recall"} => call[c].kept # {}
      BY DEF IInv, CallsInv, Answers
    <2>2. ASSUME NEW k \in call[c].kept, k.born = life
          PROVE  \/ k.id \in forgotten
                 \/ /\ k.id \in DOMAIN mem.metadata
                    /\ mem.metadata[k.id].stamp = k.stamp => TextOf(k.id) = k.text
      <3>1. There(k, mem, forgotten) BY <2>2 DEF IInv, CallsInv
      <3> QED BY <3>1 DEF There, TextIn, TextOf
    <2> QED BY <2>1, <2>2
  <1> QED BY <1>1, Invariant, PTL

\* Deleted documents keep their vectors in the index, and yet a search for one document finds
\* the nearest live one while fewer deleted ones are as near as the over-fetch allows for
\* (memory/mod.rs:80-86, 117).
THEOREM SearchSeesThroughDeletions == Spec => []MissedOnlyWhenCrowded
  <1>1. IInv => MissedOnlyWhenCrowded
    <2> SUFFICES ASSUME IInv, NEW q \in Text, NEW w \in Live(mem, mem.index),
                        Cardinality({v \in mem.index \ Live(mem, mem.index) :
                          Distance(q, v.text) <= Distance(q, w.text)}) < OverFetch,
                        NEW S \in Search(mem, q, 1)
                 PROVE  \E v \in S : Distance(q, v.text) <= Distance(q, w.text)
      BY DEF MissedOnlyWhenCrowded
    <2>1. IndexOK(mem.index) BY DEF IInv, Shared
    <2> QED BY <2>1, NearestIsFetched
  <1> QED BY <1>1, Invariant, PTL

\* In whatever write of a save the process died, every document it starts again with has its
\* vector in the index, because the index is written first; only files that a clear came
\* between can fail to fit (io.rs:27-38).
THEOREM SavedIsFindable == Spec => []FindableAfterLoad
  <1>1. IInv => FindableAfterLoad BY DEF IInv, FilesInv, Covered, FindableAfterLoad
  <1> QED BY <1>1, Invariant, PTL

\* However often and in whatever order the roles report, a high penalty has as many roles
\* behind it as its tier asks for (memory.py:115-142).
THEOREM NoRoleCondemnsAlone == Spec => []PenaltyNeedsQuorum
  <1>1. IInv => PenaltyNeedsQuorum
    BY DEF IInv, PenaltyInv, Judged, RolesOf, PenaltyNeedsQuorum
  <1> QED BY <1>1, Invariant, PTL

-----------------------------------------------------------------------------
(* The outbox: what its rows, batches and calls are                        *)

Requests == {"idle", "get", "create", "embed", "upsert", "query", "erase", "clear", "discard",
           "done", "raised"}
Texts  == {RowText[r] : r \in Row} \cup {NoText}
Intos  == {RowInto[r] : r \in Row} \cup {Base}
StepRec == [at : Requests, op : {"none", "store", "delete", "other", "clear"}, text : Texts, into : Intos,
            row : Row \cup {NoRow}]

\* What the task t asks of the server fits the operation it is for.
Route(s) ==
    /\ s.at = "upsert" => s.op = "store"
    /\ s.at \in {"query", "erase", "clear", "discard"} => s.op # "store"

Types ==
    /\ step \in [Task -> StepRec] /\ \A t \in Task : Route(step[t])
    /\ written \in Nat /\ \A pt \in points : pt.n \in Nat /\ pt.n <= written
    /\ row \in [Row -> {"absent", "PENDING", "SYNCED", "FAILED"}]
    /\ batch \in [Process -> Seq(Row)] /\ \A p \in Process : IsInjective(batch[p])
    /\ stored \in [Row -> Nat] /\ raced \subseteq ToStore

\* A worker is with the first row of its batch, or with none.
Works(p) ==
    LET s == step[Worker[p]] IN
    IF s.at = "idle" THEN s.row = NoRow
    ELSE /\ s.row \in Row /\ batch[p] # <<>> /\ s.row = Head(batch[p]) /\ s.op = RowOp[s.row]
         /\ s.at = "done" /\ s.op = "store" => stored[s.row] > 0

Decided(p, r) == step[Worker[p]].row = r /\ step[Worker[p]].at \in {"done", "raised"}

\* A row to store that nobody raced for is with one worker at most, waits as long as it is with
\* one, and was written only if its fate is decided.
Alone(r) ==
    /\ \A p, q \in Process : r \in Range(batch[p]) /\ r \in Range(batch[q]) => p = q
    /\ \A p \in Process : r \in Range(batch[p]) => row[r] = "PENDING"
    /\ stored[r] > 0 => \/ row[r] \in {"SYNCED", "FAILED"}
                        \/ \E p \in Process : Decided(p, r)

OutboxInv ==
    /\ Types
    /\ \A p \in Process : Works(p)
    /\ SyncedHasEffect /\ WrittenTwiceOnlyByRace
    /\ \A r \in Row : stored[r] > 0 => r \in ToStore
    /\ \A r \in ToStore \ raced : Alone(r)

-----------------------------------------------------------------------------
(* What the workers share                                                  *)

\* The worker of each process is a task of its own.
LEMMA Workers ==
  /\ \A p \in Process : Worker[p] \in Task
  /\ \A p, q \in Process : p # q => Worker[p] # Worker[q]
  BY OutboxAssumption

\* Between two requests of one call nothing but what it waits for changes, and a store ends well
\* only with a new point.
LEMMA CallProceeds ==
  ASSUME Types, NEW t \in Task, Proceeds(t)
  PROVE  /\ step' \in [Task -> StepRec] /\ \A u \in Task : Route(step'[u])
         /\ \A u \in Task \ {t} : step'[u] = step[u]
         /\ step'[t].op = step[t].op /\ step'[t].row = step[t].row
         /\ step[t].at \notin {"idle", "done", "raised"} /\ step'[t].at # "idle"
         /\ written' \in Nat /\ \A pt \in points' : pt.n \in Nat /\ pt.n <= written'
         /\ step[t].at # "upsert" /\ step'[t].at = "done" => step[t].op # "store"
         /\ step[t].at = "upsert" =>
               /\ step'[t].at = "done" => points' # points
               /\ points' # points => step'[t].at \in {"done", "raised"}
  <1> DEFINE s == step[t]
  <1>1. s \in StepRec /\ Route(s) BY DEF Types
  <1>2. ASSUME NEW next \in Requests \ {"idle"}, To(t, next), Route([s EXCEPT !.at = next])
        PROVE  /\ step' \in [Task -> StepRec] /\ \A u \in Task : Route(step'[u])
               /\ \A u \in Task \ {t} : step'[u] = step[u]
               /\ step'[t].op = s.op /\ step'[t].row = s.row /\ step'[t].at = next
    <2> DEFINE new == [s EXCEPT !.at = next]
    <2>1. new \in StepRec /\ new.op = s.op /\ new.row = s.row /\ new.at = next
      BY <1>1 DEF StepRec
    <2>2. step' = [step EXCEPT ![t] = new] BY <1>2 DEF To
    <2>3. Route(new) BY <1>2
    <2> HIDE DEF new
    <2> QED BY <2>1, <2>2, <2>3 DEF Types
  <1>3. \A next \in Requests : [s EXCEPT !.at = next].at = next /\ [s EXCEPT !.at = next].op = s.op
    BY <1>1 DEF StepRec
  <1>4. CASE GetCollection(t)
    <2>1. PICK next \in {"embed", "create"} : To(t, next) BY <1>4 DEF GetCollection
    <2>2. next \in Requests \ {"idle"} /\ Route([s EXCEPT !.at = next])
      BY <1>3 DEF Requests, Route
    <2>3. s.at = "get" /\ UNCHANGED <<points, written>> BY <1>4 DEF GetCollection, At
    <2> QED BY <1>2, <2>1, <2>2, <2>3 DEF Types
  <1>5. CASE GetFails(t) \/ CreateCollection(t)
    <2>1. PICK next \in {"create", "embed"} : To(t, next)
      BY <1>5 DEF GetFails, CreateCollection
    <2>2. next \in Requests \ {"idle"} /\ Route([s EXCEPT !.at = next])
      BY <1>3 DEF Requests, Route
    <2>3. s.at \in {"get", "create"} /\ UNCHANGED <<points, written>>
      BY <1>5 DEF GetFails, CreateCollection, At
    <2> QED BY <1>2, <2>1, <2>2, <2>3 DEF Types
  <1>6. CASE Embed(t)
    <2> DEFINE next == IF s.op = "store" THEN "upsert" ELSE "query"
    <2>1. To(t, next) /\ s.at = "embed" /\ UNCHANGED <<points, written>> BY <1>6 DEF Embed, At
    <2>2. next \in Requests \ {"idle", "done"} BY DEF Requests
    <2>3. Route([s EXCEPT !.at = next]) BY <1>3, <2>2 DEF Route
    <2> HIDE DEF next
    <2> QED BY <1>2, <2>1, <2>2, <2>3 DEF Types
  <1>7. CASE Upsert(t)
    <2> DEFINE pt == [n |-> written', text |-> step[t].text, in |-> step[t].into]
    <2>1. PICK next \in {"done", "raised"} : To(t, next) BY <1>7 DEF Upsert
    <2>2. next \in Requests \ {"idle"} /\ Route([s EXCEPT !.at = next])
      BY <1>3 DEF Requests, Route
    <2>3. s.at = "upsert" /\ written' = written + 1 /\ points' = points \cup {pt}
      BY <1>7 DEF Upsert, At
    <2>4. pt.n = written + 1 BY <2>3
    <2> HIDE DEF pt
    <2>5. written' \in Nat /\ \A x \in points' : x.n \in Nat /\ x.n <= written'
      BY <2>3, <2>4 DEF Types
    <2>6. points' # points
      <3>1. ~(written + 1 <= written) BY DEF Types
      <3> QED BY <2>3, <2>4, <3>1 DEF Types
    <2> QED BY <1>2, <2>1, <2>2, <2>3, <2>5, <2>6
  <1>8. CASE QueryPoints(t) \/ Erase(t) \/ DropCollection(t) \/ DropFails(t) \/ Discard(t)
    <2>1. PICK next \in {"erase", "done", "discard"} : To(t, next) /\ (next = "erase" => s.at = "query")
                                                       /\ (next = "discard" => s.at = "clear")
      BY <1>8 DEF QueryPoints, Erase, DropCollection, DropFails, Discard, At
    <2>2. s.at \in {"query", "erase", "clear", "discard"} /\ written' = written
          /\ points' \subseteq points
      BY <1>8 DEF QueryPoints, Erase, DropCollection, DropFails, Discard, At
    <2>3. s.op # "store" BY <1>1, <2>2 DEF Route
    <2>4. next \in Requests \ {"idle"} /\ Route([s EXCEPT !.at = next])
      BY <1>3, <2>3 DEF Requests, Route
    <2> QED BY <1>2, <2>1, <2>2, <2>3, <2>4 DEF Types
  <1>9. CASE Raises(t)
    <2> DEFINE next == IF s.at = "create" /\ s.op = "delete" THEN "done" ELSE "raised"
    <2>1. To(t, next) /\ s.at \in {"create", "embed", "upsert", "query", "erase"}
          /\ UNCHANGED <<points, written>>
      BY <1>9 DEF Raises, At
    <2>2. next \in {"done", "raised"} /\ (next = "done" => s.at = "create" /\ s.op = "delete")
      OBVIOUS
    <2>3. next \in Requests \ {"idle"} /\ Route([s EXCEPT !.at = next])
      BY <1>3, <2>2 DEF Requests, Route
    <2> HIDE DEF next
    <2> QED BY <1>2, <2>1, <2>2, <2>3 DEF Types
  <1> QED BY <1>4, <1>5, <1>6, <1>7, <1>8, <1>9 DEF Proceeds

\* While the worker is busy with a row of its own alone, nothing of it was written.
LEMMA NotYet ==
  ASSUME OutboxInv, NEW p \in Process, step[Worker[p]].at \notin {"idle", "done", "raised"},
         NEW r \in ToStore \ raced, step[Worker[p]].row = r
  PROVE  stored[r] = 0
  <1>1. r \in Range(batch[p]) /\ Alone(r)
    <2>1. batch[p] # <<>> /\ r = Head(batch[p]) /\ batch[p] \in Seq(Row)
      BY DEF OutboxInv, Works, Types
    <2>2. 1 \in DOMAIN batch[p] /\ r = batch[p][1] BY <2>1
    <2> QED BY <2>2 DEF Range, OutboxInv
  <1>2. \A q \in Process : Decided(q, r) => q = p
    <2> SUFFICES ASSUME NEW q \in Process, Decided(q, r) PROVE q = p OBVIOUS
    <2>1. batch[q] # <<>> /\ r = Head(batch[q]) /\ batch[q] \in Seq(Row)
      BY DEF OutboxInv, Works, Types, Decided
    <2>2. 1 \in DOMAIN batch[q] /\ r = batch[q][1] BY <2>1
    <2> QED BY <1>1, <2>2 DEF Range, Alone
  <1>3. row[r] = "PENDING" BY <1>1 DEF Alone
  <1>4. stored[r] \in Nat BY DEF OutboxInv, Types, ToStore
  <1> QED BY <1>1, <1>2, <1>3, <1>4 DEF Alone, Decided

\* A task that has no call under way.
LEMMA NothingDone ==
  /\ NoStep \in StepRec /\ Route(NoStep) /\ NoStep.at = "idle" /\ NoStep.row = NoRow
  BY DEF NoStep, StepRec, Route, Requests, Texts, Intos

\* No row has been taken, and no point is written.
LEMMA OutboxInitially == OutboxInit => OutboxInv
  <1> SUFFICES ASSUME OutboxInit PROVE OutboxInv OBVIOUS
  <1>1. /\ step = [t \in Task |-> NoStep] /\ points = {} /\ written = 0
        /\ row \in [Row -> {"absent", "PENDING"}] /\ batch = [p \in Process |-> <<>>]
        /\ stored = [r \in Row |-> 0] /\ raced = {}
    BY DEF OutboxInit, QdrantInit
  <1>2. <<>> \in Seq(Row) /\ IsInjective(<<>>) /\ Range(<<>>) = {} BY DEF IsInjective, Range
  <1>3. Types BY <1>1, <1>2, NothingDone DEF Types
  <1>4. \A p \in Process : Works(p) BY <1>1, NothingDone, Workers DEF Works
  <1>5. SyncedHasEffect /\ WrittenTwiceOnlyByRace /\ \A r \in Row : stored[r] > 0 => r \in ToStore
    BY <1>1 DEF SyncedHasEffect, WrittenTwiceOnlyByRace
  <1>6. \A r \in ToStore \ raced : Alone(r) BY <1>1, <1>2 DEF Alone, ToStore
  <1> QED BY <1>3, <1>4, <1>5, <1>6 DEF OutboxInv

\* The outbox does not notice what other tasks do.
LEMMA OthersKeepIt ==
  ASSUME OutboxInv, UNCHANGED outboxVars, Types', \A p \in Process : step'[Worker[p]] = step[Worker[p]]
  PROVE  OutboxInv'
  <1>1. row' = row /\ batch' = batch /\ stored' = stored /\ raced' = raced BY DEF outboxVars
  <1>2. \A p \in Process : Works(p)' BY <1>1 DEF OutboxInv, Works
  <1>3. \A r \in Row : Alone(r) => Alone(r)' BY <1>1 DEF Alone, Decided
  <1> QED BY <1>1, <1>2, <1>3 DEF OutboxInv, SyncedHasEffect, WrittenTwiceOnlyByRace, ToStore

\* A worker that leaves its batch leaves it as it was, but for the row it was with.
LEMMA LeftKeepsIt ==
  ASSUME OutboxInv, NEW p \in Process, UNCHANGED <<row, stored>>,
         batch' = [batch EXCEPT ![p] = <<>>],
         raced \subseteq raced', raced' \subseteq ToStore,
         step[Worker[p]].row \in ToStore => step[Worker[p]].row \in raced',
         Types', step'[Worker[p]].at = "idle", step'[Worker[p]].row = NoRow,
         \A q \in Process \ {p} : step'[Worker[q]] = step[Worker[q]]
  PROVE  OutboxInv'
  <1>1. \A q \in Process : batch'[q] = IF q = p THEN <<>> ELSE batch[q] BY DEF OutboxInv, Types
  <1>2. Range(<<>>) = {} BY DEF Range
  <1>3. \A q \in Process : Works(q)'
    <2> SUFFICES ASSUME NEW q \in Process PROVE Works(q)' OBVIOUS
    <2>1. CASE q = p BY <2>1 DEF Works
    <2>2. CASE q # p BY <1>1, <2>2 DEF OutboxInv, Works
    <2> QED BY <2>1, <2>2
  <1>4. ASSUME NEW r \in ToStore \ raced' PROVE Alone(r)'
    <2>1. Alone(r) /\ step[Worker[p]].row # r BY DEF OutboxInv
    <2>2. \A q \in Process : r \in Range(batch'[q]) => r \in Range(batch[q]) BY <1>1, <1>2
    <2>3. \A q \in Process : Decided(q, r) => Decided(q, r)' BY <2>1 DEF Decided
    <2> QED BY <2>1, <2>2, <2>3 DEF Alone
  <1>5. SyncedHasEffect' /\ WrittenTwiceOnlyByRace'
        /\ \A r \in Row : stored'[r] > 0 => r \in ToStore
    BY DEF OutboxInv, SyncedHasEffect, WrittenTwiceOnlyByRace
  <1> QED BY <1>3, <1>4, <1>5 DEF OutboxInv, ToStore

\* A worker takes rows; from then on it may race for them with who takes them too.
LEMMA FetchKeepsIt ==
  ASSUME OutboxInv, NEW p \in Process, Fetch(p)
  PROVE  OutboxInv'
  <1>1. UNCHANGED <<points, step, written, row, stored>> BY DEF Fetch, qdrantVars
  <1> DEFINE n == IF Cardinality(Fetchable) < Limit THEN Cardinality(Fetchable) ELSE Limit
  <1>2. PICK b \in Injection(1..n, Fetchable) : batch' = [batch EXCEPT ![p] = b]
    BY DEF Fetch
  <1>3. n \in Nat
    <2>1. IsFiniteSet(Fetchable) BY OutboxAssumption, FS_Subset DEF Fetchable, Pending
    <2>2. Cardinality(Fetchable) \in Nat BY <2>1, FS_CardinalityType
    <2> QED BY <2>2, OutboxAssumption
  <1> HIDE DEF n
  <1>4. b \in Seq(Row) /\ IsInjective(b) /\ Range(b) \subseteq Pending
    <2>1. b \in [1..n -> Pending] /\ IsInjective(b) BY <1>2 DEF Injection, Fetchable
    <2>2. b \in Seq(Row) BY <1>3, <2>1 DEF Pending
    <2> QED BY <2>1, <2>2 DEF Range
  <1>5. \A q \in Process : batch'[q] = IF q = p THEN b ELSE batch[q]
    BY <1>2 DEF OutboxInv, Types
  <1>6. batch[p] = <<>> /\ step[Worker[p]].at = "idle" /\ step[Worker[p]].row = NoRow
    BY DEF Fetch, At, OutboxInv, Works
  <1>7. raced' = raced \cup {r \in ToStore \cap Range(b) :
                              \E q \in Process \ {p} : r \in Range(batch[q])}
    BY <1>5 DEF Fetch
  <1>8. Types'
    <2>1. batch' \in [Process -> Seq(Row)] /\ \A q \in Process : IsInjective(batch'[q])
      BY <1>2, <1>4, <1>5 DEF OutboxInv, Types
    <2> QED BY <1>1, <1>7, <2>1 DEF OutboxInv, Types, ToStore
  <1>9. \A q \in Process : Works(q)' BY <1>1, <1>5, <1>6 DEF OutboxInv, Works
  <1>10. ASSUME NEW r \in ToStore \ raced' PROVE Alone(r)'
    <2>1. Alone(r) BY <1>7 DEF OutboxInv
    <2>2. \A q \in Process \ {p} : ~(r \in Range(b) /\ r \in Range(batch[q])) BY <1>7
    <2>3. \A q \in Process : r \in Range(batch'[q]) => row'[r] = "PENDING"
      BY <1>1, <1>4, <1>5, <2>1 DEF Alone, Pending
    <2>4. \A q, o \in Process : r \in Range(batch'[q]) /\ r \in Range(batch'[o]) => q = o
      BY <1>5, <2>1, <2>2 DEF Alone
    <2> QED BY <1>1, <2>1, <2>3, <2>4 DEF Alone, Decided
  <1>11. SyncedHasEffect' /\ WrittenTwiceOnlyByRace'
         /\ \A r \in Row : stored'[r] > 0 => r \in ToStore
    BY <1>1, <1>7 DEF OutboxInv, SyncedHasEffect, WrittenTwiceOnlyByRace
  <1> QED BY <1>8, <1>9, <1>10, <1>11 DEF OutboxInv, ToStore

\* A worker begins the row at the head of its batch.
LEMMA StartRowKeepsIt ==
  ASSUME OutboxInv, NEW p \in Process, StartRow(p)
  PROVE  OutboxInv'
  <1> DEFINE t == Worker[p]
             r == Head(batch[p])
  <1>1. batch[p] # <<>> /\ batch[p] \in Seq(Row) /\ r \in Row /\ RowOp[r] # "unreadable"
    BY DEF StartRow, OutboxInv, Types
  <1>2. \/ RowOp[r] \in {"store", "delete"} /\ Begin(t, RowOp[r], RowText[r], RowInto[r], r)
        \/ RowOp[r] = "other" /\ Nothing(t, r)
    BY DEF StartRow
  <1>3. /\ step[t].at = "idle" /\ UNCHANGED <<points, written, row, batch, stored, raced>>
        /\ step[t].row = NoRow
    BY <1>2 DEF StartRow, Begin, Nothing, At, outboxVars, OutboxInv, Works
  <1>4. PICK new \in StepRec :
           /\ step' = [step EXCEPT ![t] = new] /\ Route(new) /\ new.row = r /\ new.op = RowOp[r]
           /\ new.at \in {"embed", "get"} \/ (new.at = "done" /\ new.op = "other")
    <2>1. CASE RowOp[r] \in {"store", "delete"} /\ Begin(t, RowOp[r], RowText[r], RowInto[r], r)
      <3>1. PICK next \in {"embed", "get"} :
               step' = [step EXCEPT ![t] = [at |-> next, op |-> RowOp[r], text |-> RowText[r],
                                            into |-> RowInto[r], row |-> r]]
        <4>1. RowOp[r] # "clear" BY <2>1
        <4> HIDE DEF r
        <4>2. CASE RowInto[r] \in Mine(t) BY <2>1, <4>1, <4>2 DEF Begin
        <4>3. CASE RowInto[r] \notin Mine(t) BY <2>1, <4>1, <4>3 DEF Begin
        <4> QED BY <4>2, <4>3
      <3> DEFINE begun == [at |-> next, op |-> RowOp[r], text |-> RowText[r],
                           into |-> RowInto[r], row |-> r]
      <3>2. next \in Requests BY DEF Requests
      <3> HIDE DEF r
      <3>3. begun.at = next /\ begun.op = RowOp[r] /\ begun.row = r OBVIOUS
      <3>4. begun \in StepRec /\ Route(begun)
        BY <1>1, <2>1, <3>1, <3>2, <3>3 DEF StepRec, Route, Texts, Intos
      <3> HIDE DEF begun
      <3>5. step' = [step EXCEPT ![t] = begun] BY <3>1 DEF begun
      <3> QED BY <3>1, <3>3, <3>4, <3>5
    <2>2. CASE RowOp[r] = "other" /\ Nothing(t, r)
      <3> DEFINE skipped == [NoStep EXCEPT !.at = "done", !.op = "other", !.row = r]
      <3> HIDE DEF r
      <3>1. skipped \in StepRec /\ Route(skipped) /\ skipped.row = r /\ skipped.op = "other"
            /\ skipped.at = "done"
        BY <1>1 DEF NoStep, StepRec, Route, Requests, Texts, Intos
      <3>2. step' = [step EXCEPT ![t] = skipped] BY <2>2 DEF Nothing
      <3> HIDE DEF skipped
      <3> QED BY <2>2, <3>1, <3>2
    <2> QED BY <1>2, <2>1, <2>2
  <1> HIDE DEF r
  <1>7. t \in Task /\ step \in [Task -> StepRec] BY Workers DEF OutboxInv, Types
  <1>8. /\ step'[t] = new /\ step' \in [Task -> StepRec]
        /\ \A u \in Task \ {t} : step'[u] = step[u]
    BY <1>4, <1>7
  <1>9. Types' BY <1>3, <1>4, <1>7, <1>8 DEF OutboxInv, Types, ToStore
  <1>10. \A q \in Process \ {p} : step'[Worker[q]] = step[Worker[q]] BY <1>8, Workers
  <1>11. \A q \in Process : Works(q)'
    <2> SUFFICES ASSUME NEW q \in Process PROVE Works(q)' OBVIOUS
    <2>1. CASE q = p BY <1>1, <1>3, <1>4, <1>8, <2>1 DEF Works, r
    <2>2. CASE q # p BY <1>3, <1>10, <2>2 DEF OutboxInv, Works
    <2> QED BY <2>1, <2>2
  <1>12. \A q \in Process, x \in Row : Decided(q, x) => Decided(q, x)'
    BY <1>3, <1>10 DEF Decided
  <1>13. \A x \in Row : Alone(x) => Alone(x)' BY <1>3, <1>12 DEF Alone
  <1> QED BY <1>3, <1>9, <1>11, <1>13
          DEF OutboxInv, SyncedHasEffect, WrittenTwiceOnlyByRace, ToStore

\* The memory goes on with the call of a row, whose point may be written by it.
LEMMA ProceedsKeepsIt ==
  ASSUME OutboxInv, NEW p \in Process, WorkerProceeds(p)
  PROVE  OutboxInv'
  <1> DEFINE t == Worker[p]
             r == step[t].row
             wrote == At(t, "upsert") /\ points' # points
  <1>1. t \in Task /\ Types /\ Proceeds(t) BY Workers DEF OutboxInv, WorkerProceeds
  <1>2. /\ step' \in [Task -> StepRec] /\ \A u \in Task : Route(step'[u])
        /\ \A u \in Task \ {t} : step'[u] = step[u]
        /\ step'[t].op = step[t].op /\ step'[t].row = r
        /\ step[t].at \notin {"idle", "done", "raised"} /\ step'[t].at # "idle"
        /\ written' \in Nat /\ \A pt \in points' : pt.n \in Nat /\ pt.n <= written'
        /\ step'[t].at = "done" /\ step[t].op = "store" => wrote
        /\ wrote => step'[t].at \in {"done", "raised"}
    BY <1>1, CallProceeds DEF At
  <1>3. /\ r \in Row /\ batch[p] # <<>> /\ r = Head(batch[p]) /\ step[t].op = RowOp[r]
        /\ wrote => r \in ToStore
    <2>1. Works(p) /\ Route(step[t]) BY <1>1 DEF OutboxInv, Types
    <2> QED BY <1>2, <2>1 DEF Works, Route, At, ToStore
  <1>4. /\ UNCHANGED <<row, batch, raced>>
        /\ \A x \in Row : /\ stored[x] \in Nat
                          /\ stored'[x] = IF wrote /\ x = r THEN stored[x] + 1 ELSE stored[x]
        /\ stored' \in [Row -> Nat]
    <2>1. stored \in [Row -> Nat] BY <1>1 DEF Types
    <2>2. stored' = IF wrote THEN [stored EXCEPT ![r] = @ + 1] ELSE stored
      BY DEF WorkerProceeds
    <2>3. UNCHANGED <<row, batch, raced>> BY DEF WorkerProceeds
    <2> HIDE DEF wrote, r
    <2>4. CASE wrote
      <3>1. stored' = [stored EXCEPT ![r] = stored[r] + 1] BY <2>2, <2>4
      <3>2. \A x \in Row : stored[x] \in Nat BY <2>1
      <3>3. r \in Row /\ stored[r] + 1 \in Nat BY <1>3, <3>2
      <3> QED BY <2>1, <2>3, <2>4, <3>1, <3>2, <3>3
    <2>5. CASE ~wrote BY <2>1, <2>2, <2>3, <2>5
    <2> QED BY <2>4, <2>5
  <1>5. wrote /\ r \notin raced => stored[r] = 0
    BY <1>2, <1>3, NotYet
  <1> HIDE DEF wrote, r
  <1>6. Types' BY <1>1, <1>2, <1>4 DEF Types, ToStore
  <1>7. \A q \in Process \ {p} : step'[Worker[q]] = step[Worker[q]] BY <1>2, Workers
  <1>8. \A q \in Process : Works(q)'
    <2> SUFFICES ASSUME NEW q \in Process PROVE Works(q)' OBVIOUS
    <2>1. CASE q = p
      <3>1. step'[t].at = "done" /\ step'[t].op = "store" => stored'[r] > 0
        BY <1>2, <1>3, <1>4
      <3> QED BY <1>2, <1>3, <1>4, <2>1, <3>1 DEF Works
    <2>2. CASE q # p BY <1>4, <1>7, <2>2 DEF OutboxInv, Works
    <2> QED BY <2>1, <2>2
  <1>9. SyncedHasEffect' BY <1>4 DEF OutboxInv, SyncedHasEffect
  <1>10. WrittenTwiceOnlyByRace' BY <1>4, <1>5 DEF OutboxInv, WrittenTwiceOnlyByRace
  <1>11. \A x \in Row : stored'[x] > 0 => x \in ToStore BY <1>3, <1>4 DEF OutboxInv
  <1>12. ASSUME NEW x \in ToStore \ raced PROVE Alone(x)'
    <2>1. Alone(x) /\ x \in Row BY DEF OutboxInv, ToStore
    <2>2. \A q \in Process : Decided(q, x) => Decided(q, x)' BY <1>2, <1>7 DEF Decided
    <2>3. wrote /\ x = r => Decided(p, x)' BY <1>2 DEF Decided
    <2> QED BY <1>4, <2>1, <2>2, <2>3 DEF Alone
  <1> QED BY <1>4, <1>6, <1>8, <1>9, <1>10, <1>11, <1>12 DEF OutboxInv, ToStore

\* A row is marked, SYNCED only after its call has succeeded, and the batch goes on behind it
\* or is left.
LEMMA MarkKeepsIt ==
  ASSUME OutboxInv, NEW p \in Process, NEW status \in {"SYNCED", "FAILED"}, NEW rest,
         Mark(p, status, rest), rest \in {Tail(batch[p]), <<>>},
         step[Worker[p]].at \in {"done", "raised"},
         status = "SYNCED" => step[Worker[p]].at = "done"
  PROVE  OutboxInv'
  <1> DEFINE t == Worker[p]
             r == step[t].row
  <1>1. t \in Task /\ Types /\ Works(p) BY Workers DEF OutboxInv
  <1>2. /\ step[t].at \in {"done", "raised"} /\ UNCHANGED <<points, written, stored, raced>>
        /\ row' = [row EXCEPT ![r] = status]
        /\ batch' = [batch EXCEPT ![p] = rest]
        /\ step' = [step EXCEPT ![t] = NoStep]
    BY DEF Mark
  <1>3. /\ r \in Row /\ batch[p] # <<>> /\ r = Head(batch[p]) /\ step[t].op = RowOp[r]
        /\ step[t].at = "done" /\ step[t].op = "store" => stored[r] > 0
    BY <1>1, <1>2 DEF Works
  <1>4. status \in {"SYNCED", "FAILED"} /\ (status = "SYNCED" => step[t].at = "done") OBVIOUS
  <1> HIDE DEF r, t
  <1>5. /\ \A x \in Row : row'[x] = IF x = r THEN status ELSE row[x]
        /\ row' \in [Row -> {"absent", "PENDING", "SYNCED", "FAILED"}]
    BY <1>1, <1>2, <1>3, <1>4 DEF Types
  <1>6. /\ rest \in Seq(Row) /\ IsInjective(rest)
        /\ Range(rest) \subseteq Range(batch[p]) \ {r}
    <2>1. batch[p] \in Seq(Row) /\ IsInjective(batch[p]) BY <1>1 DEF Types
    <2>2. /\ Tail(batch[p]) \in Seq(Row) /\ Len(batch[p]) \in Nat /\ Len(batch[p]) > 0
          /\ DOMAIN Tail(batch[p]) = 1 .. Len(batch[p]) - 1
          /\ \A i \in 1 .. Len(batch[p]) - 1 : Tail(batch[p])[i] = batch[p][i + 1]
          /\ r = batch[p][1] /\ DOMAIN batch[p] = 1 .. Len(batch[p])
      BY <1>3, <2>1
    <2>3. \A i \in 1 .. Len(batch[p]) - 1 : i + 1 \in 1 .. Len(batch[p]) /\ i + 1 # 1
      BY <2>2
    <2>4. IsInjective(Tail(batch[p]))
      <3> SUFFICES ASSUME NEW i \in 1 .. Len(batch[p]) - 1, NEW j \in 1 .. Len(batch[p]) - 1,
                          batch[p][i + 1] = batch[p][j + 1]
                   PROVE  i = j
        BY <2>2 DEF IsInjective
      <3>1. i + 1 = j + 1 BY <2>1, <2>2, <2>3 DEF IsInjective
      <3> QED BY <2>2, <3>1
    <2>5. Range(Tail(batch[p])) \subseteq Range(batch[p]) \ {r}
      BY <2>1, <2>2, <2>3 DEF IsInjective, Range
    <2>6. <<>> \in Seq(Row) /\ IsInjective(<<>>) /\ Range(<<>>) = {} BY DEF IsInjective, Range
    <2>7. CASE rest = <<>> BY <2>6, <2>7
    <2>8. CASE rest = Tail(batch[p]) BY <2>2, <2>4, <2>5, <2>8
    <2> QED BY <2>7, <2>8
  <1>7. \A q \in Process : batch'[q] = IF q = p THEN rest ELSE batch[q]
    BY <1>1, <1>2 DEF Types
  <1>8. /\ step' \in [Task -> StepRec] /\ step'[t] = NoStep
        /\ \A q \in Process \ {p} : step'[Worker[q]] = step[Worker[q]]
        /\ \A u \in Task : Route(step'[u])
    BY <1>1, <1>2, NothingDone, Workers DEF Types, t
  <1>9. Types'
    <2>1. batch' \in [Process -> Seq(Row)] /\ \A q \in Process : IsInjective(batch'[q])
      BY <1>1, <1>2, <1>6, <1>7 DEF Types
    <2> QED BY <1>1, <1>2, <1>5, <1>8, <2>1 DEF Types, ToStore
  <1>10. \A q \in Process : Works(q)'
    <2> SUFFICES ASSUME NEW q \in Process PROVE Works(q)' OBVIOUS
    <2>1. CASE q = p BY <1>8, <2>1, NothingDone DEF Works, t
    <2>2. CASE q # p BY <1>2, <1>7, <1>8, <2>2 DEF OutboxInv, Works
    <2> QED BY <2>1, <2>2
  <1>11. SyncedHasEffect' BY <1>2, <1>3, <1>4, <1>5 DEF OutboxInv, SyncedHasEffect
  <1>12. WrittenTwiceOnlyByRace' /\ \A x \in Row : stored'[x] > 0 => x \in ToStore
    BY <1>2 DEF OutboxInv, WrittenTwiceOnlyByRace
  <1>13. ASSUME NEW x \in ToStore \ raced PROVE Alone(x)'
    <2>1. Alone(x) /\ x \in Row BY DEF OutboxInv, ToStore
    <2>2. r \in Range(batch[p])
      <3>1. batch[p] \in Seq(Row) BY <1>1 DEF Types
      <3>2. 1 \in DOMAIN batch[p] /\ r = batch[p][1] BY <1>3, <3>1
      <3> QED BY <3>2 DEF Range
    <2>3. /\ \A q \in Process : x \in Range(batch'[q]) => x \in Range(batch[q])
          /\ x = r => \A q \in Process : x \notin Range(batch'[q])
      BY <1>6, <1>7, <2>1, <2>2 DEF Alone
    <2>4. CASE x = r BY <1>2, <1>4, <1>5, <2>1, <2>3, <2>4 DEF Alone
    <2>5. CASE x # r
      <3>1. \A q \in Process : Decided(q, x) => Decided(q, x)' BY <1>8, <2>5 DEF Decided, r, t
      <3> QED BY <1>2, <1>5, <2>1, <2>3, <2>5, <3>1 DEF Alone
    <2> QED BY <2>4, <2>5
  <1> QED BY <1>2, <1>9, <1>10, <1>11, <1>12, <1>13 DEF OutboxInv, ToStore

\* Every step is one of a worker, of a tool call or of the faults.
LEMMA OutboxStep == OutboxInv /\ [OutboxNext]_systemVars => OutboxInv'
  <1> SUFFICES ASSUME OutboxInv, [OutboxNext]_systemVars PROVE OutboxInv' OBVIOUS
  <1> USE Workers
  <1>1. ASSUME NEW p \in Process, Unreadable(p) PROVE OutboxInv'
    <2>1. /\ UNCHANGED <<points, step, written, row, stored, raced>>
          /\ batch' = [batch EXCEPT ![p] = <<>>] /\ step[Worker[p]].at = "idle"
      BY <1>1 DEF Unreadable, qdrantVars, At
    <2>2. step[Worker[p]].row = NoRow BY <2>1 DEF OutboxInv, Works
    <2>3. Types' BY <2>1 DEF OutboxInv, Types, IsInjective, ToStore
    <2>4. raced \subseteq ToStore /\ NoRow \notin ToStore
      BY OutboxAssumption DEF OutboxInv, Types, ToStore
    <2> QED BY <2>1, <2>2, <2>3, <2>4, LeftKeepsIt
  <1>2. ASSUME NEW p \in Process, ConnectionLost(p) PROVE OutboxInv'
    <2>1. CASE Mark(p, Outcome(Worker[p]), <<>>)
      <3>1. step[Worker[p]].at \in {"done", "raised"} BY <1>2 DEF ConnectionLost
      <3> QED BY <2>1, <3>1, MarkKeepsIt DEF Outcome, At
    <2>2. CASE ~Mark(p, Outcome(Worker[p]), <<>>)
      <3>1. /\ UNCHANGED <<points, written, row, stored>>
            /\ raced' = raced \cup (ToStore \cap {step[Worker[p]].row})
            /\ batch' = [batch EXCEPT ![p] = <<>>]
            /\ step' = [step EXCEPT ![Worker[p]] = NoStep]
        BY <1>2, <2>2 DEF ConnectionLost
      <3>2. raced' \subseteq ToStore BY <3>1 DEF OutboxInv, Types
      <3>3. /\ step'[Worker[p]] = NoStep /\ step' \in [Task -> StepRec]
            /\ \A q \in Process \ {p} : step'[Worker[q]] = step[Worker[q]]
            /\ \A u \in Task : Route(step'[u])
        BY <3>1, NothingDone DEF OutboxInv, Types
      <3>4. Types' BY <3>1, <3>2, <3>3 DEF OutboxInv, Types, IsInjective, ToStore
      <3> QED BY <3>1, <3>2, <3>3, <3>4, NothingDone, LeftKeepsIt
    <2> QED BY <2>1, <2>2
  <1>3. ASSUME NEW p \in Process, Crash(p) PROVE OutboxInv'
    <2>1. /\ UNCHANGED <<points, written, row, stored>>
          /\ raced' = raced \cup (ToStore \cap {step[Worker[p]].row})
          /\ batch' = [batch EXCEPT ![p] = <<>>]
          /\ step' = [t \in Task |-> IF ProcessOf[t] = p THEN NoStep ELSE step[t]]
      BY <1>3 DEF Crash, Stops
    <2>2. raced' \subseteq ToStore BY <2>1 DEF OutboxInv, Types
    <2>3. /\ step'[Worker[p]] = NoStep /\ step' \in [Task -> StepRec]
          /\ \A q \in Process \ {p} : step'[Worker[q]] = step[Worker[q]]
          /\ \A u \in Task : Route(step'[u])
      BY <2>1, NothingDone, OutboxAssumption DEF OutboxInv, Types
    <2>4. Types' BY <2>1, <2>2, <2>3 DEF OutboxInv, Types, IsInjective, ToStore
    <2> QED BY <2>1, <2>2, <2>3, <2>4, NothingDone, LeftKeepsIt
  <1>4. ASSUME NEW t \in ToolTask, UNCHANGED outboxVars, MemoryClear(t) \/ Proceeds(t) \/ ToolEnds(t)
        PROVE  OutboxInv'
    <2>1. t \in Task /\ (\A p \in Process : Worker[p] # t) /\ Types BY DEF ToolTask, OutboxInv
    <2>2. /\ step' \in [Task -> StepRec] /\ \A u \in Task : Route(step'[u])
          /\ \A u \in Task \ {t} : step'[u] = step[u]
          /\ written' \in Nat /\ \A pt \in points' : pt.n \in Nat /\ pt.n <= written'
      <3>1. CASE Proceeds(t) BY <2>1, <3>1, CallProceeds
      <3>2. CASE ToolEnds(t) BY <2>1, <3>2, NothingDone DEF ToolEnds, Types
      <3>3. CASE MemoryClear(t)
        <4> DEFINE new == [at |-> "clear", op |-> "clear", text |-> NoText, into |-> Base, row |-> NoRow]
        <4>1. step' = [step EXCEPT ![t] = new] /\ UNCHANGED <<points, written>>
          <5>1. Begin(t, "clear", NoText, Base, NoRow) BY <3>3 DEF MemoryClear
          <5> QED BY <5>1 DEF Begin
        <4>2. new \in StepRec /\ Route(new) BY DEF StepRec, Route, Requests, Texts, Intos
        <4> QED BY <2>1, <4>1, <4>2 DEF Types
      <3> QED BY <1>4, <3>1, <3>2, <3>3
    <2>3. Types' BY <1>4, <2>1, <2>2 DEF Types, outboxVars, ToStore
    <2> QED BY <1>4, <2>1, <2>2, <2>3, OthersKeepIt
  <1>5. ASSUME NEW id, MemoryDelete(id), UNCHANGED outboxVars PROVE OutboxInv'
    <2>1. points' \subseteq points /\ UNCHANGED <<step, written>> BY <1>5 DEF MemoryDelete
    <2>2. Types' BY <1>5, <2>1 DEF OutboxInv, Types, outboxVars, ToStore
    <2> QED BY <1>5, <2>1, <2>2, OthersKeepIt
  <1>6. CASE UNCHANGED systemVars
    <2>1. UNCHANGED <<points, step, written, outboxVars>>
      BY <1>6 DEF systemVars, qdrantVars
    <2>2. Types' BY <2>1 DEF OutboxInv, Types, outboxVars, ToStore
    <2> QED BY <2>1, <2>2, OthersKeepIt
  <1>7. ASSUME NEW p \in Process, Settle(p) PROVE OutboxInv'
    <2>1. /\ step[Worker[p]].at \in {"done", "raised"}
          /\ Mark(p, Outcome(Worker[p]), Tail(batch[p]))
      BY <1>7 DEF Settle
    <2> QED BY <2>1, MarkKeepsIt DEF Outcome, At
  <1>8. ASSUME NEW p \in Process, UpdateFails(p) PROVE OutboxInv'
    <2>1. step[Worker[p]].at = "done" /\ Mark(p, "FAILED", Tail(batch[p]))
      BY <1>8 DEF UpdateFails, At
    <2> QED BY <2>1, MarkKeepsIt
  <1> QED BY <1>1, <1>2, <1>3, <1>4, <1>5, <1>6, <1>7, <1>8, FetchKeepsIt, StartRowKeepsIt,
             ProceedsKeepsIt DEF OutboxNext, WorkerNext

\* The invariant holds in every state.
LEMMA OutboxInvariant == OutboxSpec => []OutboxInv
  BY OutboxInitially, OutboxStep, PTL DEF OutboxSpec

\* A row to store that is SYNCED was written to the memory at least once, whatever other workers
\* did with it, and whichever connection broke before or after the row was marked: the status
\* follows from the call of the worker that sets it (memory_recorder.py:144-173).  It says
\* nothing of rows of other kinds, which may be SYNCED without any effect.
THEOREM SyncedWasWritten == OutboxSpec => []SyncedHasEffect
  <1>1. OutboxInv => SyncedHasEffect BY DEF OutboxInv
  <1> QED BY <1>1, OutboxInvariant, PTL

\* A row is written at most once, unless two workers had it at a time, or one had it when it lost
\* its process or its connection (memory_recorder.py:126-132, 152).
THEOREM OnlyARaceWritesTwice == OutboxSpec => []WrittenTwiceOnlyByRace
  <1>1. OutboxInv => WrittenTwiceOnlyByRace BY DEF OutboxInv
  <1> QED BY <1>1, OutboxInvariant, PTL

==============================================================================
