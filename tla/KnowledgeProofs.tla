-------------------------- MODULE KnowledgeProofs --------------------------
(***************************************************************************)
(* What answers are drawn from, for any contents, imports, pieces and      *)
(* bounds: what a query of the knowledge base finds after the worker, the  *)
(* console, a search and a restart have rewritten manifest, index and      *)
(* fingerprints in any order; whose passages the index gives out; and what *)
(* the pieces of a document still say of it.                               *)
(***************************************************************************)
EXTENDS Knowledge, RagIndex, Retrieval, Chunking, SequenceTheorems, FiniteSetTheorems, TLAPS
Actors == {"worker", "web"}
SourceKinds == {"pdf", "text", "image"}
StageStates == {"pending", "running", "ready", "failed"}
ManifestRows ==
  [status : {"none", "draft", "published", "review_required", "revoked", "revoke_pending"},
   parse : StageStates, chunk : StageStates, index : StageStates \cup {"indexed", "withdrawn"},
   class : Classes]
Indexing == {"index", "load", "write", "fail", "end"}
Staging == {"stage", "parse", "split", "chunk", "undo", "leave"}
JobsOf(a) == {"idle"} \cup Indexing \cup IF a = "worker" THEN Staging ELSE {"enqueue", "clear"}
JobStates == [at : JobsOf("worker") \cup JobsOf("web"), doc : Docs, class : Classes]
Changes == (UNION {[ds -> Classes] : ds \in SUBSET Docs}) \cup {<<>>}
SearchStates ==
  [at : {"idle", "prune", "build", "record", "query"}, active : SUBSET Docs, stale : SUBSET Docs,
   changed : Changes, gone : SUBSET Docs, disturbed : SUBSET Docs]
Entries == Classes \cup {"none"}
KnowledgeTypeInv ==
  /\ kind \in [Sources -> SourceKinds] /\ rows \in [Docs -> ManifestRows]
  /\ store \in [Docs -> Entries] /\ marks \in [Docs -> Entries]
  /\ queue \in Seq(Docs) /\ job \in [Actors -> JobStates] /\ search \in SearchStates

Known(d) == rows[d].status # "none"
\* The imports of a source are numbered without gaps, so the next one is new.
ImportsInOrder ==
  \A s \in Sources : \E n \in 0..MaxGeneration :
    \A g \in 1..MaxGeneration : Known(<<s, g>>) <=> g <= n

\* A document not imported yet is nowhere; the worker has PDFs, a request no text.
QueueFits == \A k \in 1..Len(queue) : Known(queue[k]) /\ KindOf(queue[k]) = "pdf"
JobFits(a, j) ==
  /\ j.at \in JobsOf(a)
  /\ j.at # "idle" => /\ Known(j.doc) /\ KindOf(j.doc) # "text"
                      /\ a = "worker" \/ j.at = "enqueue" => KindOf(j.doc) = "pdf"
NewIsNowhere ==
  /\ \A d \in Docs : ~Known(d) => store[d] = "none" /\ marks[d] = "none"
  /\ QueueFits /\ \A a \in Actors : JobFits(a, job[a])
  /\ search.at # "idle" => \A d \in search.active : Known(d)

\* What no retry brings back.
Lost(d) == d \in damaged \/ rows[d].status \in Withdrawn
\* While the worker has a PDF nobody else unmakes its stages.
WorkerReady(w) ==
  w.at # "idle" =>
    /\ rows[w.doc].status = "review_required" => w.at = "leave"
    /\ w.at \in {"split", "chunk"} \cup Indexing => rows[w.doc].parse = "ready" \/ Lost(w.doc)
    /\ w.at \in Indexing => rows[w.doc].chunk = "ready" \/ Lost(w.doc)
    /\ w.at = "undo" => rows[w.doc].status \in Withdrawn
WorkerInv == WorkerReady(job["worker"])

\* A fingerprint that says a document is indexed as it is classified tells the
\* truth, unless somebody is rebuilding it or it was left torn.
Rebuilds(j, d) == j.doc = d /\ j.at \in {"clear", "index", "load", "write"}
Rebuilding(d) == \E a \in Actors : Rebuilds(job[a], d)
Ending(d) == \E a \in Actors : job[a].doc = d /\ job[a].at = "end"
Faithful(d) == marks[d] = rows[d].class => store[d] = rows[d].class
Offerable(d) == Recordable(d) \/ (Ending(d) /\ ~Lost(d))
Settled(d) == d \notin torn /\ ~Rebuilding(d) /\ Offerable(d) => Faithful(d)
Marked(d) ==
  KindOf(d) = "text" => /\ rows[d].status # "review_required"
                        /\ rows[d].status \notin Withdrawn => store[d] = marks[d]
IndexInv == \A d \in Docs : Settled(d) /\ Marked(d)

\* What the search under way may vouch for, of a document nobody disturbed.
Reconciling == search.at \in {"prune", "build"}
Vouched(d) ==
  /\ d \notin search.stale
  /\ Reconciling /\ d \in DOMAIN search.changed => search.changed[d] = rows[d].class
  /\ ~(Reconciling /\ d \in DOMAIN search.changed) => d \in torn \/ store[d] = rows[d].class
Pruned(d) ==
  /\ store[d] = "none" \/ (search.at = "prune" /\ d \in search.stale)
  /\ Reconciling => d \notin DOMAIN search.changed
SearchInv ==
  search.at # "idle" =>
    /\ Reconciling => /\ DOMAIN search.changed \subseteq search.active
                      /\ \A d \in DOMAIN search.changed : search.changed[d] \in Classes
    /\ \A d \in search.active \ search.disturbed : Vouched(d)
    /\ \A d \in search.gone \ search.disturbed : Pruned(d)

KnowledgeInv ==
  KnowledgeTypeInv /\ ImportsInOrder /\ NewIsNowhere /\ WorkerInv /\ IndexInv /\ SearchInv

LEMMA DocsAre == /\ Docs # {} /\ NoJob \in JobStates /\ NoJob.at = "idle"
                 /\ \A d \in Docs : d[1] \in Sources
                 /\ \A s \in Sources, g \in 1..MaxGeneration : <<s, g>> \in Docs
<1>1. Docs # {} /\ \A d \in Docs : d[1] \in Sources
  <2>1. 1 \in 1..MaxGeneration
    BY KnowledgeAssumption
  <2>2. PICK s \in Sources : TRUE
    BY KnowledgeAssumption
  <2>3. <<s, 1>> \in Docs
    BY <2>1 DEF Docs
  <2> QED
    BY <2>3 DEF Docs
<1>2. \A s \in Sources, g \in 1..MaxGeneration : <<s, g>> \in Docs
  BY DEF Docs
<1>3. (CHOOSE d \in Docs : TRUE) \in Docs
  BY <1>1
<1> QED
  BY <1>1, <1>2, <1>3 DEF NoJob, JobStates, JobsOf, Classes

\* Reading a row alters only the stages of one whose file is damaged.
LEMMA RowIs ==
  ASSUME KnowledgeTypeInv, NEW d \in Docs
  PROVE  /\ Row(d) \in ManifestRows /\ Row(d).status = rows[d].status /\ Row(d).class = rows[d].class
         /\ d \notin damaged => Row(d) = rows[d]
         /\ d \in damaged /\ rows[d].status \notin {"none", "revoked"} => Row(d).parse = "failed"
         /\ rows[d] \in ManifestRows /\ KindOf(d) \in SourceKinds
<1>1. rows[d] \in ManifestRows /\ KindOf(d) \in SourceKinds
  BY DocsAre DEF KnowledgeTypeInv, KindOf
<1>2. CASE d \in damaged /\ rows[d].status \notin {"none", "revoked"}
  <2>1. PICK r \in ManifestRows : r = [rows[d] EXCEPT !.parse = "failed", !.chunk = "failed", !.index = "failed"]
    BY <1>1 DEF ManifestRows, StageStates
  <2>2. r.status = rows[d].status /\ r.class = rows[d].class /\ r.parse = "failed"
    BY <1>1, <2>1 DEF ManifestRows
  <2> QED
    BY <1>1, <1>2, <2>1, <2>2 DEF Row
<1> QED
  BY <1>1, <1>2 DEF Row

LEMMA KnowledgeInitial == ASSUME KnowledgeInit PROVE KnowledgeInv
<1>1. /\ kind \in [Sources -> Kinds] /\ rows = [d \in Docs |-> Absent]
      /\ damaged = {} /\ torn = {} /\ queue = <<>>
      /\ store = [d \in Docs |-> "none"] /\ marks = [d \in Docs |-> "none"]
      /\ job = [a \in Actors |-> NoJob] /\ search = NoSearch
  BY DEF KnowledgeInit, Actors
<1>2. /\ Absent \in ManifestRows /\ Absent.status = "none"
      /\ NoSearch \in SearchStates /\ NoSearch.at = "idle"
  <2>1. Absent \in ManifestRows /\ Absent.status = "none"
    BY DEF Absent, ManifestRows, StageStates, Classes
  <2>2. <<>> \in Changes
    BY DEF Changes
  <2> QED
    BY <2>1, <2>2 DEF NoSearch, SearchStates
<1>3. KnowledgeTypeInv
  <2>1. kind \in [Sources -> SourceKinds]
    BY <1>1, KnowledgeAssumption DEF SourceKinds
  <2> QED
    BY <1>1, <1>2, <2>1, DocsAre DEF KnowledgeTypeInv, Entries
<1>4. \A d \in Docs : rows[d] = Absent /\ store[d] = "none" /\ marks[d] = "none"
  BY <1>1
<1>5. ImportsInOrder
  <2>1. 0 \in 0..MaxGeneration /\ \A g \in 1..MaxGeneration : ~(g <= 0)
    BY KnowledgeAssumption
  <2>2. \A s \in Sources, g \in 1..MaxGeneration : ~Known(<<s, g>>)
    BY <1>2, <1>4, DocsAre DEF Known
  <2> QED
    BY <2>1, <2>2 DEF ImportsInOrder
<1>6. NewIsNowhere
  BY <1>1, <1>2, <1>4, DocsAre DEF NewIsNowhere, QueueFits, JobFits, JobsOf
<1>7. WorkerInv
  BY <1>1, DocsAre DEF WorkerInv, WorkerReady, Actors
<1>8. IndexInv
  <2>1. \A d \in Docs : ~Recordable(d) /\ ~Ending(d)
    BY <1>1, <1>2, <1>3, <1>4, RowIs, DocsAre DEF Recordable, Ending
  <2> QED
    BY <1>2, <1>4, <2>1 DEF IndexInv, Settled, Marked, Offerable
<1>9. SearchInv
  BY <1>1, <1>2 DEF SearchInv
<1> QED
  BY <1>3, <1>5, <1>6, <1>7, <1>8, <1>9 DEF KnowledgeInv

-----------------------------------------------------------------------------
(* Steps about one document.                                                  *)

LEMMA ImportsStay ==
  ASSUME ImportsInOrder, \A d \in Docs : Known(d)' <=> Known(d) PROVE ImportsInOrder'
BY DocsAre DEF ImportsInOrder

LEMMA QueueStays ==
  ASSUME KnowledgeInv, queue' = queue, kind' = kind, \A d \in Docs : Known(d) => Known(d)'
  PROVE  queue' \in Seq(Docs) /\ QueueFits'
<1>1. queue \in Seq(Docs) /\ QueueFits
  BY DEF KnowledgeInv, KnowledgeTypeInv, NewIsNowhere
<1>2. \A k \in 1..Len(queue) : queue[k] \in Docs
  BY <1>1
<1> QED
  BY <1>1, <1>2 DEF QueueFits, KindOf

\* The search goes on, and knows which documents it can no longer vouch for.
LEMMA SearchStays ==
  ASSUME KnowledgeInv, NEW ds \in SUBSET Docs,
         (ds = {} /\ search' = search) \/ Disturbed(ds),
         \A d \in Docs \ ds : /\ store'[d] = store[d] /\ (Known(d) => rows'[d].class = rows[d].class)
                              /\ (d \in torn => d \in torn')
  PROVE  /\ SearchInv' /\ search' \in SearchStates
         /\ search'.active = search.active /\ (search'.at = "idle" <=> search.at = "idle")
<1>1. PICK s \in SearchStates : s = search
  BY DEF KnowledgeInv, KnowledgeTypeInv
<1>2. PICK t \in SearchStates : t = search'
  <2>1. CASE ds = {} /\ search' = search
    BY <1>1, <2>1
  <2>2. CASE Disturbed(ds)
    BY <1>1, <2>2 DEF Disturbed, SearchStates
  <2> QED
    BY <2>1, <2>2
<1>3. /\ t.at = s.at /\ t.active = s.active /\ t.stale = s.stale /\ t.changed = s.changed /\ t.gone = s.gone
      /\ s.at # "idle" => t.disturbed = s.disturbed \cup ds
  <2>1. CASE ds = {} /\ search' = search
    BY <1>1, <1>2, <2>1
  <2>2. CASE Disturbed(ds)
    BY <1>1, <1>2, <2>2 DEF Disturbed, SearchStates
  <2> QED
    BY <2>1, <2>2
<1>4. ASSUME s.at # "idle" PROVE SearchInv'
  <2>1. /\ Reconciling => /\ DOMAIN s.changed \subseteq s.active
                          /\ \A d \in DOMAIN s.changed : s.changed[d] \in Classes
        /\ \A d \in s.active \ s.disturbed : Vouched(d)
        /\ \A d \in s.gone \ s.disturbed : Pruned(d)
        /\ \A d \in s.active : Known(d)
    BY <1>1, <1>4 DEF KnowledgeInv, SearchInv, NewIsNowhere
  <2>2. Reconciling' <=> Reconciling
    BY <1>1, <1>2, <1>3 DEF Reconciling
  <2>3. ASSUME NEW d \in t.active \ t.disturbed PROVE Vouched(d)'
    <3>1. Vouched(d) /\ d \in Docs \ ds /\ Known(d)
      BY <1>3, <1>4, <2>1, <2>3 DEF SearchStates
    <3> QED
      BY <1>1, <1>2, <1>3, <2>2, <3>1 DEF Vouched
  <2>4. ASSUME NEW d \in t.gone \ t.disturbed PROVE Pruned(d)'
    <3>1. Pruned(d) /\ d \in Docs \ ds
      BY <1>3, <1>4, <2>1, <2>4 DEF SearchStates
    <3> QED
      BY <1>1, <1>2, <1>3, <2>2, <3>1 DEF Pruned
  <2> QED
    BY <1>1, <1>2, <1>3, <2>1, <2>2, <2>3, <2>4 DEF SearchInv
<1> QED
  BY <1>1, <1>2, <1>3, <1>4 DEF SearchInv

\* Only jobs about the document move.
JobsAbout(d) ==
  /\ job' \in [Actors -> JobStates]
  /\ \A a \in Actors :
       \/ job'[a] = job[a]
       \/ /\ job[a].at # "idle" => job[a].doc = d
          /\ JobFits(a, job[a])' /\ (job'[a].at # "idle" => job'[a].doc = d)

\* One document's row, entry and jobs move.
LEMMA DocumentMoves ==
  ASSUME KnowledgeInv, NEW d \in Docs, Known(d) \/ ImportsInOrder', Known(d)', kind' = kind, marks' = marks,
         rows' \in [Docs -> ManifestRows], store' \in [Docs -> Entries],
         \A e \in Docs \ {d} : /\ rows'[e] = rows[e] /\ store'[e] = store[e] /\ (e \in torn' <=> e \in torn)
                                /\ (e \in damaged' <=> e \in damaged),
         queue' = queue \/ (queue' \in Seq(Docs) /\ QueueFits'),
         JobsAbout(d), WorkerInv',
         \/ /\ search' = search /\ store'[d] = store[d] /\ (d \in torn => d \in torn')
            /\ Known(d) => rows'[d].class = rows[d].class
         \/ Disturbed({d}),
         Settled(d)', Marked(d)'
  PROVE  KnowledgeInv'
<1>t. KnowledgeTypeInv /\ NewIsNowhere /\ ImportsInOrder /\ IndexInv
  BY DEF KnowledgeInv
<1>1. \A e \in Docs : /\ Known(e) => Known(e)'
                      /\ Known(d) => (Known(e)' <=> Known(e))
                      /\ ~Known(e)' => ~Known(e)
  BY DEF Known
<1>j. job' \in [Actors -> JobStates]
  BY DEF JobsAbout
<1>2. queue' \in Seq(Docs) /\ QueueFits'
  BY <1>1, QueueStays
<1>3. /\ SearchInv' /\ search' \in SearchStates
      /\ search'.active = search.active /\ (search'.at = "idle" <=> search.at = "idle")
  <2>1. CASE /\ search' = search /\ store'[d] = store[d] /\ (d \in torn => d \in torn')
             /\ Known(d) => rows'[d].class = rows[d].class
    <3>0. PICK ds \in SUBSET Docs : ds = {}
      OBVIOUS
    <3>1. \A e \in Docs \ ds : /\ store'[e] = store[e] /\ (Known(e) => rows'[e].class = rows[e].class)
                               /\ (e \in torn => e \in torn')
      BY <2>1
    <3> QED
      BY <2>1, <3>0, <3>1, SearchStays
  <2>2. CASE Disturbed({d})
    <3>1. \A e \in Docs \ {d} : /\ store'[e] = store[e] /\ (Known(e) => rows'[e].class = rows[e].class)
                                /\ (e \in torn => e \in torn')
      OBVIOUS
    <3> QED
      BY <2>2, <3>1, SearchStays
  <2> QED
    BY <2>1, <2>2
<1>4. KnowledgeTypeInv'
  BY <1>t, <1>2, <1>3, <1>j DEF KnowledgeTypeInv
<1>5. ImportsInOrder'
  BY <1>t, <1>1, ImportsStay
<1>6. NewIsNowhere'
  <2>1. \A e \in Docs : ~Known(e)' => store'[e] = "none" /\ marks'[e] = "none"
    BY <1>t, <1>1 DEF NewIsNowhere
  <2>2. ASSUME NEW a \in Actors PROVE JobFits(a, job[a])'
    <3>1. job[a].doc \in Docs /\ job'[a].doc \in Docs
      BY <1>t, <1>j DEF KnowledgeTypeInv, JobStates
    <3>2. CASE job'[a] = job[a]
      <4>1. JobFits(a, job[a])
        BY <1>t DEF NewIsNowhere
      <4> QED
        BY <1>1, <3>1, <3>2, <4>1 DEF JobFits, KindOf
    <3> QED
      BY <3>2 DEF JobsAbout
  <2>3. search'.at # "idle" => \A e \in search'.active : Known(e)'
    <3>1. search.at # "idle" => \A e \in search.active : Known(e) /\ e \in Docs
      BY <1>t DEF NewIsNowhere, KnowledgeTypeInv, SearchStates
    <3> QED
      BY <1>1, <1>3, <3>1
  <2> QED
    BY <1>2, <2>1, <2>2, <2>3 DEF NewIsNowhere
<1>7. IndexInv'
  <2>1. ASSUME NEW e \in Docs \ {d} PROVE Settled(e)' /\ Marked(e)'
    <3>1. Settled(e) /\ Marked(e)
      BY <1>t DEF IndexInv
    <3>2. \A a \in Actors : /\ Rebuilds(job[a], e)' <=> Rebuilds(job[a], e)
                            /\ (job'[a].doc = e /\ job'[a].at = "end") <=> (job[a].doc = e /\ job[a].at = "end")
      BY <2>1 DEF Rebuilds, JobsAbout
    <3>3. (Rebuilding(e)' <=> Rebuilding(e)) /\ (Ending(e)' <=> Ending(e))
      BY <3>2 DEF Rebuilding, Ending
    <3>4. /\ rows'[e] = rows[e] /\ (Recordable(e)' <=> Recordable(e)) /\ (Lost(e)' <=> Lost(e))
          /\ (Faithful(e)' <=> Faithful(e)) /\ KindOf(e)' = KindOf(e)
      BY <2>1 DEF Recordable, Row, Lost, Faithful, KindOf
    <3> QED
      BY <2>1, <3>1, <3>3, <3>4 DEF Settled, Offerable, Marked
  <2> QED
    BY <2>1 DEF IndexInv
<1> QED
  BY <1>3, <1>4, <1>5, <1>6, <1>7 DEF KnowledgeInv

\* What a request does to a row leaves the worker's stages as they are.
LEMMA WorkerStays ==
  ASSUME KnowledgeInv, NEW d \in Docs, job'["worker"] = job["worker"], damaged' = damaged,
         \A e \in Docs \ {d} : rows'[e] = rows[e],
         Known(d) =>
           /\ rows'[d].status = "review_required" => rows[d].status = "review_required"
           /\ rows[d].status \in Withdrawn => rows'[d].status \in Withdrawn
           /\ d \notin damaged /\ rows[d].parse = "ready" =>
                rows'[d].parse = "ready" /\ (rows[d].chunk = "ready" => rows'[d].chunk = "ready")
  PROVE  WorkerInv'
<1>1. PICK w \in JobStates : w = job["worker"]
  BY DEF KnowledgeInv, KnowledgeTypeInv, Actors
<1>2. WorkerReady(w) /\ w.doc \in Docs /\ (w.at # "idle" => Known(w.doc))
  BY <1>1 DEF KnowledgeInv, WorkerInv, JobStates, NewIsNowhere, JobFits, Actors
<1>3. WorkerReady(w)'
  <2>1. CASE w.doc # d
    BY <1>2, <2>1 DEF WorkerReady, Lost
  <2>2. CASE w.doc = d
    BY <1>2, <2>2 DEF WorkerReady, Lost, Indexing
  <2> QED
    BY <2>1, <2>2
<1> QED
  BY <1>1, <1>3 DEF WorkerInv

\* Nothing of the document moves but who is busy with it.
LEMMA SettledStays ==
  ASSUME KnowledgeInv, NEW d \in Docs, UNCHANGED <<kind, rows, store, marks, torn, damaged>>,
         Rebuilding(d) => Rebuilding(d)', Ending(d)' => Ending(d)
  PROVE  Settled(d)' /\ Marked(d)'
<1>1. Settled(d) /\ Marked(d)
  BY DEF KnowledgeInv, IndexInv
<1>2. /\ Recordable(d)' <=> Recordable(d)
      /\ Lost(d)' <=> Lost(d)
      /\ Faithful(d)' <=> Faithful(d)
      /\ Marked(d)' <=> Marked(d)
  BY DEF Recordable, Row, Prepared, Lost, Faithful, Marked, KindOf, Withdrawn
<1> QED
  BY <1>1, <1>2 DEF Settled, Offerable

\* A job about a document is taken up, or moves.
LEMMA JobBegins ==
  ASSUME KnowledgeInv, NEW a \in Actors, NEW d \in Docs, NEW j \in JobStates, job' = [job EXCEPT ![a] = j],
         job[a].at # "idle" => job[a].doc = d, j.at \in JobsOf(a), j.at # "idle" => j.doc = d,
         Known(d)', kind' = kind, KindOf(d) # "text", a = "worker" \/ j.at = "enqueue" => KindOf(d) = "pdf"
  PROVE  JobsAbout(d) /\ job'[a] = j /\ \A b \in Actors \ {a} : job'[b] = job[b]
<1>1. job \in [Actors -> JobStates]
  BY DEF KnowledgeInv, KnowledgeTypeInv
<1>2. job' \in [Actors -> JobStates] /\ job'[a] = j /\ \A b \in Actors \ {a} : job'[b] = job[b]
  BY <1>1
<1>3. JobFits(a, j)'
  BY DEF JobFits, KindOf
<1>4. JobFits(a, job[a])'
  BY <1>2, <1>3 DEF JobFits, KindOf
<1> QED
  BY <1>2, <1>4 DEF JobsAbout

LEMMA JobIs ==
  ASSUME KnowledgeInv, NEW a \in Actors, job[a].at # "idle"
  PROVE  /\ job[a] \in JobStates /\ job[a].doc \in Docs /\ job[a].class \in Classes
         /\ Known(job[a].doc) /\ KindOf(job[a].doc) # "text"
         /\ a = "worker" \/ job[a].at = "enqueue" => KindOf(job[a].doc) = "pdf"
         /\ job[a].at \in JobsOf(a)
BY DEF KnowledgeInv, NewIsNowhere, KnowledgeTypeInv, JobFits, JobStates

\* A job that goes on with its document, or ends.
LEMMA JobGoesOn ==
  ASSUME KnowledgeInv, NEW a \in Actors, NEW d, job[a].doc = d, job[a].at # "idle",
         NEW at \in JobsOf(a) \ {"enqueue"}, Does(a, at), Known(d)', kind' = kind
  PROVE  /\ JobsAbout(d) /\ \A b \in Actors \ {a} : job'[b] = job[b]
         /\ job'[a].at = at /\ (at # "idle" => job'[a].doc = d)
<1>1. PICK j \in JobStates : j = job[a]
  BY JobIs
<1>2. at \in JobsOf("worker") \cup JobsOf("web") /\ job \in [Actors -> JobStates]
  BY DEF Actors, KnowledgeInv, KnowledgeTypeInv
<1>3. PICK k \in JobStates : job' = [job EXCEPT ![a] = k] /\ k.at = at /\ (at # "idle" => k.doc = j.doc)
  <2>1. CASE at = "idle"
    BY <2>1, DocsAre DEF Does
  <2>2. CASE at # "idle"
    <3>1. PICK c \in Classes : c = IF at = "write" THEN j.class ELSE "internal"
      BY DEF Classes, JobStates
    <3>2. job' = [job EXCEPT ![a] = [j EXCEPT !.at = at, !.class = c]]
      BY <1>1, <2>2, <3>1 DEF Does
    <3>3. [j EXCEPT !.at = at, !.class = c] \in JobStates
      BY <1>2, <3>1 DEF JobStates
    <3>4. [j EXCEPT !.at = at, !.class = c].at = at /\ [j EXCEPT !.at = at, !.class = c].doc = j.doc
      BY DEF JobStates
    <3> QED
      BY <3>2, <3>3, <3>4
  <2> QED
    BY <2>1, <2>2
<1>5. /\ d \in Docs /\ KindOf(d) # "text" /\ j.doc = d
      /\ a = "worker" => KindOf(d) = "pdf"
  BY <1>1, JobIs
<1>6. JobsAbout(d) /\ job'[a] = k /\ \A b \in Actors \ {a} : job'[b] = job[b]
  BY <1>1, <1>3, <1>5, JobBegins
<1> QED
  BY <1>3, <1>5, <1>6

\* Nobody's job moves.
LEMMA JobsRest == ASSUME KnowledgeInv, job' = job, NEW d PROVE JobsAbout(d)
BY DEF KnowledgeInv, KnowledgeTypeInv, JobsAbout

-----------------------------------------------------------------------------
(* The steps.                                                                 *)

LEMMA EnqueueKeeps == ASSUME KnowledgeInv, Enqueue PROVE KnowledgeInv'
<1>t. KnowledgeTypeInv
  BY DEF KnowledgeInv
<1>1. PICK d \in Docs : d = job["web"].doc
  BY JobIs DEF Enqueue, Actors
<1>2. Known(d) /\ KindOf(d) = "pdf" /\ Known(d)' /\ job["web"].at = "enqueue"
  BY <1>1, JobIs DEF Enqueue, Actors, Known
<1>3. UNCHANGED <<kind, rows, damaged, store, marks, search, torn>> /\ Does("web", "idle")
  BY DEF Enqueue
<1>4. /\ JobsAbout(d) /\ \A b \in Actors \ {"web"} : job'[b] = job[b]
      /\ job'["web"].at = "idle"
  <2>1. "idle" \in JobsOf("web") \ {"enqueue"} /\ "web" \in Actors
    BY DEF JobsOf, Actors
  <2> QED
    BY <1>1, <1>2, <1>3, <2>1, JobGoesOn
<1>5. queue' = queue \/ (queue' \in Seq(Docs) /\ QueueFits')
  <2>1. CASE queue' = Append(queue, d)
    <3>1. queue \in Seq(Docs) /\ QueueFits
      BY DEF KnowledgeInv, KnowledgeTypeInv, NewIsNowhere
    <3>2. queue' \in Seq(Docs) /\ \A k \in 1..Len(queue') : queue'[k] = d \/ (k \in 1..Len(queue) /\ queue'[k] = queue[k])
      BY <2>1, <3>1
    <3> QED
      BY <1>2, <1>3, <3>1, <3>2 DEF QueueFits, Known, KindOf
  <2> QED
    BY <1>1, <2>1 DEF Enqueue
<1>6. Settled(d)' /\ Marked(d)'
  <2>1. (Rebuilding(d) => Rebuilding(d)') /\ (Ending(d)' => Ending(d))
    BY <1>2, <1>4 DEF Rebuilding, Rebuilds, Ending, Actors
  <2> QED
    BY <1>3, <2>1, SettledStays
<1>7. WorkerInv'
  BY <1>3, <1>4, WorkerStays DEF Actors
<1> QED
  BY <1>t, <1>2, <1>3, <1>4, <1>5, <1>6, <1>7, DocumentMoves DEF KnowledgeTypeInv

\* Only jobs move, and the queue.
LEMMA JobsMove ==
  ASSUME KnowledgeInv, NEW d \in Docs, Known(d), UNCHANGED <<kind, rows, damaged, store, marks, search, torn>>,
         queue' = queue \/ (queue' \in Seq(Docs) /\ QueueFits'), JobsAbout(d), WorkerInv', Settled(d)'
  PROVE  KnowledgeInv'
<1>1. rows' \in [Docs -> ManifestRows] /\ store' \in [Docs -> Entries]
  BY DEF KnowledgeInv, KnowledgeTypeInv
<1>2. Known(d)' /\ Marked(d)'
  BY DEF Known, KnowledgeInv, IndexInv, Marked, KindOf
<1> QED
  BY <1>1, <1>2, DocumentMoves

LEMMA LeaveKeeps == ASSUME KnowledgeInv, Leave PROVE KnowledgeInv'
<1>1. PICK d \in Docs : d = job["worker"].doc
  BY JobIs DEF Leave, Actors
<1>2. UNCHANGED <<kind, rows, damaged, store, marks, search, torn, queue>> /\ Does("worker", "idle")
  BY DEF Leave
<1>3. Known(d) /\ Known(d)' /\ job["worker"].at = "leave"
  BY <1>1, <1>2, JobIs DEF Leave, Actors, Known
<1>4. /\ JobsAbout(d) /\ \A b \in Actors \ {"worker"} : job'[b] = job[b]
      /\ job'["worker"].at = "idle"
  <2>1. "idle" \in JobsOf("worker") \ {"enqueue"} /\ "worker" \in Actors
    BY DEF JobsOf, Actors
  <2> QED
    BY <1>1, <1>2, <1>3, <2>1, JobGoesOn
<1>5. Settled(d)'
  <2>1. (Rebuilding(d) => Rebuilding(d)') /\ (Ending(d)' => Ending(d))
    BY <1>3, <1>4 DEF Rebuilding, Rebuilds, Ending, Actors
  <2> QED
    BY <1>2, <2>1, SettledStays
<1>6. WorkerInv'
  BY <1>4 DEF WorkerInv, WorkerReady
<1> QED
  BY <1>2, <1>3, <1>4, <1>5, <1>6, JobsMove

LEMMA TakeJobKeeps == ASSUME KnowledgeInv, TakeJob PROVE KnowledgeInv'
<1>1. PICK d : d = Head(queue)
  OBVIOUS
<1>2. /\ UNCHANGED <<kind, rows, damaged, store, marks, search, torn>> /\ queue' = Tail(queue)
      /\ job["worker"].at = "idle" /\ queue # <<>>
  BY DEF TakeJob
<1>3. queue \in Seq(Docs) /\ QueueFits /\ Len(queue) \in Nat \ {0} /\ d = queue[1]
  <2>1. queue \in Seq(Docs) /\ QueueFits
    BY DEF KnowledgeInv, KnowledgeTypeInv, NewIsNowhere
  <2> QED
    BY <1>1, <1>2, <2>1
<1>4. d \in Docs /\ Known(d) /\ KindOf(d) = "pdf"
  BY <1>3 DEF QueueFits
<1>5. queue' \in Seq(Docs) /\ QueueFits'
  <2>1. queue' \in Seq(Docs) /\ \A k \in 1..Len(queue') : k + 1 \in 1..Len(queue) /\ queue'[k] = queue[k + 1]
    BY <1>2, <1>3
  <2> QED
    BY <1>2, <1>3, <2>1 DEF QueueFits, Known, KindOf
<1>6. PICK at \in {"leave", "stage", "index"} :
        /\ job' = [job EXCEPT !["worker"] = [at |-> at, doc |-> d, class |-> "internal"]]
        /\ rows[d].status = "review_required" => at = "leave"
        /\ at = "index" => Prepared(Row(d))
  <2>1. Row(d).status = rows[d].status
    BY <1>4, RowIs DEF KnowledgeInv
  <2> QED
    BY <1>1, <2>1 DEF TakeJob, Takes
<1>7. PICK j \in JobStates : j = [at |-> at, doc |-> d, class |-> "internal"]
  BY <1>4, <1>6 DEF JobStates, Classes, JobsOf, Staging, Indexing
<1>8. Known(d)' /\ at \in JobsOf("worker") /\ at \notin {"idle", "enqueue"} /\ "worker" \in Actors
  BY <1>2, <1>4, <1>6 DEF Known, JobsOf, Staging, Indexing, Actors
<1>9. /\ JobsAbout(d) /\ \A b \in Actors \ {"worker"} : job'[b] = job[b]
      /\ job'["worker"] = j
  BY <1>2, <1>4, <1>6, <1>7, <1>8, JobBegins
<1>10. Settled(d)'
  <2>1. (Rebuilding(d) => Rebuilding(d)') /\ (Ending(d)' => Ending(d))
    BY <1>2, <1>6, <1>7, <1>9 DEF Rebuilding, Rebuilds, Ending, Actors
  <2> QED
    BY <1>2, <1>4, <2>1, SettledStays
<1>11. WorkerInv'
  <2>1. at = "index" => (rows[d].parse = "ready" /\ rows[d].chunk = "ready") \/ d \in damaged
    BY <1>4, <1>6, RowIs DEF KnowledgeInv, Prepared
  <2>2. WorkerReady(j)'
    BY <1>2, <1>6, <1>7, <2>1 DEF WorkerReady, Lost, Indexing
  <2> QED
    BY <1>9, <2>2 DEF WorkerInv
<1> QED
  BY <1>2, <1>4, <1>5, <1>9, <1>10, <1>11, JobsMove

\* A request begins, with the worker as it was.
LEMMA RequestBegins ==
  ASSUME KnowledgeInv, NEW d \in Docs, NEW at \in {"enqueue", "index", "clear"}, Begins(at, d),
         job["web"].at = "idle", Known(d)', kind' = kind, KindOf(d) # "text", at = "enqueue" => KindOf(d) = "pdf"
  PROVE  /\ JobsAbout(d) /\ job'["worker"] = job["worker"]
         /\ job'["web"].at = at /\ job'["web"].doc = d
<1>1. PICK j \in JobStates : j = [NoJob EXCEPT !.at = at, !.doc = d]
  BY DocsAre DEF JobStates, JobsOf, Indexing
<1>2. j.at = at /\ j.doc = d /\ at \in JobsOf("web") /\ "web" \in Actors /\ "worker" \in Actors
  BY <1>1, DocsAre DEF JobsOf, Indexing, Actors, JobStates
<1>3. job' = [job EXCEPT !["web"] = j]
  BY <1>1 DEF Begins
<1>4. /\ JobsAbout(d) /\ \A b \in Actors \ {"web"} : job'[b] = job[b]
      /\ job'["web"] = j
  BY <1>2, <1>3, JobBegins
<1> QED
  BY <1>2, <1>4

LEMMA RetryImageKeeps == ASSUME KnowledgeInv, NEW d \in Docs, RetryImage(d) PROVE KnowledgeInv'
<1>1. /\ UNCHANGED <<kind, rows, damaged, store, marks, search, torn, queue>>
      /\ job["web"].at = "idle" /\ KindOf(d) = "image" /\ Row(d).status = "published" /\ Begins("index", d)
  BY DEF RetryImage, WebMay
<1>2. Known(d) /\ Known(d)'
  BY <1>1, RowIs DEF KnowledgeInv, Known
<1>3. /\ JobsAbout(d) /\ job'["worker"] = job["worker"]
      /\ job'["web"].at = "index" /\ job'["web"].doc = d
  BY <1>1, <1>2, RequestBegins
<1>4. Settled(d)'
  <2>1. Rebuilding(d)'
    BY <1>3 DEF Rebuilding, Rebuilds, Actors
  <2> QED
    BY <2>1 DEF Settled
<1>5. WorkerInv'
  BY <1>1, <1>3, WorkerStays
<1> QED
  BY <1>1, <1>2, <1>3, <1>4, <1>5, JobsMove

-----------------------------------------------------------------------------
(* Indexing.                                                                  *)

\* One that cannot be indexed now is not just being finished by the other.
LEMMA NobodyEnds ==
  ASSUME KnowledgeInv, NEW d \in Docs, NEW a \in Actors, job[a].doc = d, job[a].at \in Indexing, ~Lost(d),
         rows[d].status \notin {"draft", "published"} \/ ~Prepared(Row(d)),
         NEW b \in Actors \ {a}, job[b].doc = d, job[b].at = "end"
  PROVE  FALSE
<1>1. PICK w \in JobStates : w = job["worker"] /\ w.doc = d /\ w.at \in Indexing
  BY DEF KnowledgeInv, KnowledgeTypeInv, Actors, Indexing
<1>2. WorkerReady(w) /\ Known(d) /\ rows[d] \in ManifestRows
  BY <1>1, JobIs DEF KnowledgeInv, WorkerInv, Actors, Indexing, KnowledgeTypeInv
<1>3. rows[d].parse = "ready" /\ rows[d].chunk = "ready" /\ rows[d].status # "review_required"
  BY <1>1, <1>2 DEF WorkerReady, Indexing
<1>4. Row(d) = rows[d]
  BY RowIs DEF KnowledgeInv, Lost
<1>5. rows[d].status \in {"draft", "published"}
  BY <1>2, <1>3 DEF Known, Lost, ManifestRows, Withdrawn
<1> QED
  BY <1>3, <1>4, <1>5 DEF Prepared

\* A document that somebody stops rebuilding because it cannot be indexed.
LEMMA GivenUp ==
  ASSUME KnowledgeInv, NEW d \in Docs, NEW a \in Actors, job[a].doc = d, job[a].at \in Indexing,
         UNCHANGED <<rows, damaged>>, \A b \in Actors \ {a} : job'[b] = job[b], job'[a].at # "end",
         rows[d].status \notin {"draft", "published"} \/ ~Prepared(Row(d))
  PROVE  ~Offerable(d)'
<1>1. ~Recordable(d)'
  BY DEF Recordable, Row, Prepared
<1>2. ASSUME Ending(d)', ~Lost(d)' PROVE FALSE
  <2>1. PICK b \in Actors : job'[b].doc = d /\ job'[b].at = "end"
    BY <1>2 DEF Ending
  <2>2. b # a /\ job[b].doc = d /\ job[b].at = "end" /\ ~Lost(d)
    BY <1>2, <2>1 DEF Lost
  <2> QED
    BY <2>2, NobodyEnds
<1> QED
  BY <1>1, <1>2 DEF Offerable

LEMMA LoadKeeps == ASSUME KnowledgeInv, NEW a \in Actors, Load(a) PROVE KnowledgeInv'
<1>1. PICK d \in Docs : d = job[a].doc
  BY JobIs DEF Load
<1>2. UNCHANGED <<kind, rows, damaged, store, marks, search, torn, queue>> /\ job[a].at = "load"
  BY DEF Load, Kept
<1>3. Known(d) /\ Known(d)' /\ KindOf(d) # "text" /\ (a = "worker" => KindOf(d) = "pdf")
  BY <1>1, <1>2, JobIs DEF Known
<1>4. /\ Row(d).status = rows[d].status /\ Row(d).class \in Classes /\ KindOf(d) \in SourceKinds
      /\ d \in damaged /\ rows[d].status \notin {"none", "revoked"} => Row(d).parse = "failed"
  BY RowIs DEF KnowledgeInv, ManifestRows
<1>5. /\ JobsAbout(d) /\ \A b \in Actors \ {a} : job'[b] = job[b]
      /\ job'[a].doc = d
      /\ \/ job'[a].at = "write"
         \/ job'[a].at = "fail" /\ (rows[d].status \notin {"draft", "published"} \/ d \in damaged)
  <2>1. CASE Does(a, "write") /\ KindOf(d) = "image"
    <3>1. "write" \in JobsOf(a) \ {"enqueue"}
      BY DEF JobsOf, Indexing
    <3> QED
      BY <1>1, <1>2, <1>3, <2>1, <3>1, JobGoesOn
  <2>2. CASE Does(a, "fail") /\ (rows[d].status \notin {"draft", "published"} \/ d \in damaged)
    <3>1. "fail" \in JobsOf(a) \ {"enqueue"}
      BY DEF JobsOf, Indexing
    <3> QED
      BY <1>1, <1>2, <1>3, <2>2, <3>1, JobGoesOn
  <2>3. CASE Takes(a, "write", d, Row(d).class)
    <3>1. PICK j \in JobStates : j = [at |-> "write", doc |-> d, class |-> Row(d).class]
      BY <1>4 DEF JobStates, JobsOf, Indexing
    <3>2. job' = [job EXCEPT ![a] = j] /\ j.at \in JobsOf(a) /\ j.doc = d /\ j.at = "write"
      BY <2>3, <3>1 DEF Takes, JobsOf, Indexing
    <3>3. job[a].doc = d /\ KindOf(d) # "text" /\ (a = "worker" \/ j.at = "enqueue" => KindOf(d) = "pdf")
      BY <1>1, <1>3, <3>2
    <3>4. JobsAbout(d) /\ job'[a] = j /\ \A b \in Actors \ {a} : job'[b] = job[b]
      BY <1>2, <1>3, <3>2, <3>3, JobBegins
    <3> QED
      BY <3>2, <3>4
  <2> QED
    BY <1>1, <1>4, <2>1, <2>2, <2>3 DEF Load
<1>6. Settled(d)'
  <2>1. CASE job'[a].at = "write"
    BY <1>5, <2>1 DEF Settled, Rebuilding, Rebuilds
  <2>2. CASE job'[a].at = "fail" /\ (rows[d].status \notin {"draft", "published"} \/ d \in damaged)
    <3>1. rows[d].status \notin {"draft", "published"} \/ ~Prepared(Row(d))
      BY <1>4, <2>2 DEF Prepared
    <3>2. ~Offerable(d)'
      BY <1>1, <1>2, <1>5, <2>2, <3>1, GivenUp DEF Indexing
    <3> QED
      BY <3>2 DEF Settled
  <2> QED
    BY <1>5, <2>1, <2>2
<1>7. WorkerInv'
  <2>1. CASE a = "web"
    BY <1>2, <1>5, <2>1, WorkerStays DEF Actors
  <2>2. CASE a = "worker"
    <3>1. WorkerReady(job["worker"])
      BY DEF KnowledgeInv, WorkerInv
    <3> QED
      BY <1>1, <1>2, <1>5, <2>2, <3>1 DEF WorkerInv, WorkerReady, Indexing, Lost
  <2> QED
    BY <2>1, <2>2 DEF Actors
<1> QED
  BY <1>2, <1>3, <1>5, <1>6, <1>7, JobsMove

LEMMA RowWritten ==
  ASSUME KnowledgeInv, NEW d \in Docs, NEW r \in ManifestRows, SetRow(d, r)
  PROVE  /\ rows' \in [Docs -> ManifestRows] /\ rows'[d] = r
         /\ \A e \in Docs \ {d} : rows'[e] = rows[e]
BY DEF KnowledgeInv, KnowledgeTypeInv, SetRow
LEMMA EntryWritten ==
  ASSUME KnowledgeInv, NEW d \in Docs, NEW c \in Entries, store' = [store EXCEPT ![d] = c]
  PROVE  /\ store' \in [Docs -> Entries] /\ store'[d] = c
         /\ \A e \in Docs \ {d} : store'[e] = store[e]
BY DEF KnowledgeInv, KnowledgeTypeInv

LEMMA ClearKeeps == ASSUME KnowledgeInv, Clear PROVE KnowledgeInv'
<1>1. PICK d \in Docs : d = job["web"].doc
  BY JobIs DEF Clear, Actors
<1>2. /\ UNCHANGED <<kind, rows, damaged, marks, torn, queue>> /\ job["web"].at = "clear"
      /\ store' = [store EXCEPT ![d] = "none"] /\ Does("web", "index") /\ Disturbed({d})
  BY <1>1 DEF Clear
<1>3. Known(d) /\ Known(d)' /\ KindOf(d) # "text"
  BY <1>1, <1>2, JobIs DEF Known, Actors
<1>4. /\ JobsAbout(d) /\ \A b \in Actors \ {"web"} : job'[b] = job[b]
      /\ job'["web"].at = "index" /\ job'["web"].doc = d
  <2>1. "index" \in JobsOf("web") \ {"enqueue"} /\ "web" \in Actors
    BY DEF JobsOf, Actors, Indexing
  <2> QED
    BY <1>1, <1>2, <1>3, <2>1, JobGoesOn
<1>5. Settled(d)' /\ Marked(d)'
  <2>1. Rebuilding(d)'
    BY <1>4 DEF Rebuilding, Rebuilds, Actors
  <2> QED
    BY <1>2, <1>3, <2>1 DEF Settled, Marked, KindOf
<1>6. WorkerInv'
  BY <1>2, <1>4, WorkerStays DEF Actors
<1>7. /\ rows' \in [Docs -> ManifestRows] /\ store' \in [Docs -> Entries]
      /\ \A e \in Docs \ {d} : store'[e] = store[e]
  <2>1. "none" \in Entries
    BY DEF Entries
  <2> QED
    BY <1>2, <2>1, EntryWritten DEF KnowledgeInv, KnowledgeTypeInv
<1> QED
  BY <1>2, <1>3, <1>4, <1>5, <1>6, <1>7, DocumentMoves

LEMMA WriteKeeps == ASSUME KnowledgeInv, NEW a \in Actors, Write(a) PROVE KnowledgeInv'
<1>1. PICK d \in Docs : d = job[a].doc
  BY JobIs DEF Write
<1>2. PICK c \in Classes : c = job[a].class
  BY JobIs DEF Write
<1>3. UNCHANGED <<kind, rows, damaged, marks, queue>> /\ job[a].at = "write" /\ Disturbed({d})
  BY <1>1 DEF Write, Kept
<1>4. Known(d) /\ Known(d)' /\ KindOf(d) # "text" /\ (a = "worker" => KindOf(d) = "pdf")
  BY <1>1, <1>3, JobIs DEF Known
<1>5. PICK at \in {"end", "fail"}, f \in Entries :
        /\ store' = [store EXCEPT ![d] = f] /\ Does(a, at)
        /\ \A e \in Docs \ {d} : e \in torn' <=> e \in torn
        /\ d \notin torn' => f = rows[d].class
  <2>1. c \in Entries /\ "none" \in Entries
    BY DEF Entries
  <2>2. CASE /\ store' = [store EXCEPT ![d] = c] /\ Does(a, "end")
             /\ torn' = IF c = rows[d].class THEN torn \ {d} ELSE torn \cup {d}
    BY <2>1, <2>2
  <2>3. CASE store' = [store EXCEPT ![d] = "none"] /\ Does(a, "fail") /\ torn' = torn \cup {d}
    BY <2>1, <2>3
  <2> QED
    BY <1>1, <1>2, <2>2, <2>3 DEF Write
<1>6. /\ JobsAbout(d) /\ \A b \in Actors \ {a} : job'[b] = job[b]
      /\ job'[a].at = at /\ job'[a].doc = d
  <2>1. at \in JobsOf(a) \ {"enqueue"} /\ at # "idle"
    BY DEF JobsOf, Indexing
  <2> QED
    BY <1>1, <1>3, <1>4, <1>5, <2>1, JobGoesOn
<1>7. /\ rows' \in [Docs -> ManifestRows] /\ store' \in [Docs -> Entries] /\ store'[d] = f
      /\ \A e \in Docs \ {d} : store'[e] = store[e]
  BY <1>3, <1>5, EntryWritten DEF KnowledgeInv, KnowledgeTypeInv
<1>8. Settled(d)' /\ Marked(d)'
  BY <1>3, <1>4, <1>5, <1>7 DEF Settled, Marked, KindOf, Faithful
<1>9. WorkerInv'
  <2>1. CASE a = "web"
    BY <1>3, <1>6, <2>1, WorkerStays DEF Actors
  <2>2. CASE a = "worker"
    <3>1. WorkerReady(job["worker"])
      BY DEF KnowledgeInv, WorkerInv
    <3> QED
      BY <1>1, <1>3, <1>6, <2>2, <3>1 DEF WorkerInv, WorkerReady, Indexing, Lost
  <2> QED
    BY <2>1, <2>2 DEF Actors
<1> QED
  BY <1>3, <1>4, <1>5, <1>6, <1>7, <1>8, <1>9, DocumentMoves

LEMMA UndoKeeps == ASSUME KnowledgeInv, Undo PROVE KnowledgeInv'
<1>1. PICK d \in Docs : d = job["worker"].doc
  BY JobIs DEF Undo, Actors
<1>2. /\ UNCHANGED <<kind, rows, damaged, marks, torn, queue>> /\ job["worker"].at = "undo"
      /\ store' = [store EXCEPT ![d] = "none"] /\ Does("worker", "leave") /\ Disturbed({d})
  BY <1>1 DEF Undo, Kept
<1>3. Known(d) /\ Known(d)' /\ rows[d].status \in Withdrawn
  BY <1>1, <1>2, JobIs DEF Known, Actors, KnowledgeInv, WorkerInv, WorkerReady
<1>4. /\ JobsAbout(d) /\ \A b \in Actors \ {"worker"} : job'[b] = job[b]
      /\ job'["worker"].at = "leave"
  <2>1. "leave" \in JobsOf("worker") \ {"enqueue"} /\ "worker" \in Actors
    BY DEF JobsOf, Actors, Staging
  <2> QED
    BY <1>1, <1>2, <1>3, <2>1, JobGoesOn
<1>5. Settled(d)' /\ Marked(d)'
  <2>1. Row(d)'.status = rows'[d].status
    BY <1>2, RowIs DEF KnowledgeInv, Row
  <2>2. ~Recordable(d)' /\ Lost(d)'
    BY <1>2, <1>3, <2>1 DEF Recordable, Lost, Withdrawn
  <2> QED
    BY <1>2, <1>3, <2>2 DEF Settled, Offerable, Marked, Withdrawn
<1>6. WorkerInv'
  BY <1>2, <1>3, <1>4 DEF WorkerInv, WorkerReady, Indexing
<1>7. /\ rows' \in [Docs -> ManifestRows] /\ store' \in [Docs -> Entries]
      /\ \A e \in Docs \ {d} : store'[e] = store[e]
  <2>1. "none" \in Entries
    BY DEF Entries
  <2> QED
    BY <1>2, <2>1, EntryWritten DEF KnowledgeInv, KnowledgeTypeInv
<1> QED
  BY <1>2, <1>3, <1>4, <1>5, <1>6, <1>7, DocumentMoves

\* A document that is torn if it was, and not offered unless it was.
LEMMA SettledKept ==
  ASSUME KnowledgeInv, NEW d \in Docs, marks' = marks, store'[d] = store[d], rows'[d].class = rows[d].class,
         d \in torn => d \in torn', Rebuilding(d) => Rebuilding(d)', Offerable(d)' => Offerable(d)
  PROVE  Settled(d)'
<1>1. Settled(d)
  BY DEF KnowledgeInv, IndexInv
<1> QED
  BY <1>1 DEF Settled, Faithful

LEMMA AfterIndexIs ==
  ASSUME NEW a \in Actors
  PROVE  AfterIndex(a) \in JobsOf(a) \ ({"enqueue"} \cup Indexing \cup {"clear"}) /\ AfterIndex(a) \in {"leave", "idle"}
BY DEF AfterIndex, JobsOf, Indexing, Staging, Actors

LEMMA IndexBeginKeeps == ASSUME KnowledgeInv, NEW a \in Actors, IndexBegin(a) PROVE KnowledgeInv'
<1>1. PICK d \in Docs : d = job[a].doc
  BY JobIs DEF IndexBegin
<1>2. /\ UNCHANGED <<kind, damaged, marks, store, search, torn, queue>> /\ job[a].at = "index"
      /\ IF Indexable(d)
         THEN SetRow(d, [Row(d) EXCEPT !.index = "running"]) /\ Takes(a, "load", d, Row(d).class)
         ELSE Does(a, AfterIndex(a)) /\ UNCHANGED rows
  BY <1>1 DEF IndexBegin, Kept
<1>3. Known(d) /\ KindOf(d) # "text" /\ (a = "worker" => KindOf(d) = "pdf")
  BY <1>1, <1>2, JobIs
<1>4. /\ Row(d) \in ManifestRows /\ Row(d).status = rows[d].status /\ Row(d).class = rows[d].class
      /\ d \notin damaged => Row(d) = rows[d]
  BY RowIs DEF KnowledgeInv
<1>5. /\ store' \in [Docs -> Entries] /\ store'[d] = store[d] /\ \A e \in Docs \ {d} : store'[e] = store[e]
  BY <1>2 DEF KnowledgeInv, KnowledgeTypeInv
<1>6. CASE Indexable(d)
  <2>1. PICK r \in ManifestRows : r = [Row(d) EXCEPT !.index = "running"]
    BY <1>4 DEF ManifestRows, StageStates
  <2>2. /\ r.status = rows[d].status /\ r.class = rows[d].class
        /\ r.parse = Row(d).parse /\ r.chunk = Row(d).chunk
    BY <1>4, <2>1 DEF ManifestRows
  <2>3. /\ rows' \in [Docs -> ManifestRows] /\ rows'[d] = r
        /\ \A e \in Docs \ {d} : rows'[e] = rows[e]
    BY <1>2, <1>6, <2>1, RowWritten
  <2>4. Known(d)'
    BY <1>3, <2>2, <2>3 DEF Known
  <2>5. PICK j \in JobStates : j = [at |-> "load", doc |-> d, class |-> Row(d).class]
    BY <1>4 DEF JobStates, JobsOf, Indexing, ManifestRows
  <2>6. job' = [job EXCEPT ![a] = j] /\ j.at \in JobsOf(a) /\ j.doc = d /\ j.at = "load"
    BY <1>2, <1>6, <2>5 DEF Takes, JobsOf, Indexing
  <2>7. JobsAbout(d) /\ job'[a] = j /\ \A b \in Actors \ {a} : job'[b] = job[b]
    BY <1>1, <1>2, <1>3, <2>4, <2>6, JobBegins
  <2>8. Rebuilding(d)'
    BY <2>6, <2>7 DEF Rebuilding, Rebuilds
  <2>9. Settled(d)' /\ Marked(d)'
    BY <1>2, <1>3, <2>8 DEF Settled, Marked, KindOf
  <2>10. WorkerInv'
    <3>1. CASE a = "web"
      BY <1>2, <1>4, <2>2, <2>3, <2>7, <3>1, WorkerStays DEF Actors
    <3>2. CASE a = "worker"
      <4>1. r.parse = "ready" /\ r.chunk = "ready" /\ r.status \in {"draft", "published"}
        BY <1>3, <1>4, <1>6, <2>2 DEF Indexable, Prepared
      <4> QED
        BY <2>3, <2>6, <2>7, <3>2, <4>1 DEF WorkerInv, WorkerReady
    <3> QED
      BY <3>1, <3>2 DEF Actors
  <2> QED
    BY <1>2, <1>3, <1>5, <2>2, <2>3, <2>4, <2>7, <2>9, <2>10, DocumentMoves
<1>7. CASE ~Indexable(d)
  <2>1. UNCHANGED rows /\ Does(a, AfterIndex(a)) /\ Known(d)'
    BY <1>2, <1>3, <1>7 DEF Known
  <2>2. /\ JobsAbout(d) /\ \A b \in Actors \ {a} : job'[b] = job[b]
        /\ job'[a].at \in {"leave", "idle"}
    BY <1>1, <1>2, <2>1, AfterIndexIs, JobGoesOn
  <2>3. ~Offerable(d)'
    <3>1. CASE KindOf(d) = "pdf"
      <4>1. rows[d].status \notin {"draft", "published"} \/ ~Prepared(Row(d))
        BY <1>4, <1>7, <3>1 DEF Indexable
      <4> QED
        BY <1>1, <1>2, <2>1, <2>2, <4>1, GivenUp DEF Indexing
    <3>2. CASE KindOf(d) # "pdf"
      <4>1. ~Recordable(d)
        BY <1>4, <1>7, <3>2 DEF Indexable, Recordable
      <4>2. ~Recordable(d)'
        BY <1>2, <2>1, <4>1 DEF Recordable, Row, Prepared
      <4>3. a = "web" /\ (job["worker"].at # "idle" => job["worker"].doc # d)
        BY <1>3, <3>2, JobIs DEF Actors
      <4>4. ~Ending(d)'
        BY <2>2, <4>3 DEF Ending, Actors
      <4> QED
        BY <4>2, <4>4 DEF Offerable
    <3> QED
      BY <3>1, <3>2
  <2>4. Settled(d)'
    BY <2>3 DEF Settled
  <2>5. WorkerInv'
    <3>1. CASE a = "web"
      BY <1>2, <2>1, <2>2, <3>1, WorkerStays DEF Actors
    <3>2. CASE a = "worker"
      BY <2>2, <3>2 DEF WorkerInv, WorkerReady, Indexing
    <3> QED
      BY <3>1, <3>2 DEF Actors
  <2> QED
    BY <1>2, <1>3, <2>1, <2>2, <2>4, <2>5, JobsMove
<1> QED
  BY <1>6, <1>7

LEMMA IndexFailedKeeps == ASSUME KnowledgeInv, NEW a \in Actors, IndexFailed(a) PROVE KnowledgeInv'
<1>1. PICK d \in Docs : d = job[a].doc
  BY JobIs DEF IndexFailed
<1>2. /\ UNCHANGED <<kind, damaged, marks, store, search, torn, queue>> /\ job[a].at = "fail"
      /\ UNCHANGED rows \/ SetRow(d, [Row(d) EXCEPT !.index = "failed"])
      /\ Does(a, AfterIndex(a))
  BY <1>1 DEF IndexFailed, Kept
<1>3. Known(d) /\ KindOf(d) # "text" /\ (a = "worker" => KindOf(d) = "pdf")
  BY <1>1, <1>2, JobIs
<1>4. /\ Row(d) \in ManifestRows /\ Row(d).status = rows[d].status /\ Row(d).class = rows[d].class
      /\ d \notin damaged => Row(d) = rows[d]
      /\ d \in damaged /\ rows[d].status \notin {"none", "revoked"} => Row(d).parse = "failed"
  BY RowIs DEF KnowledgeInv
<1>5. /\ store' \in [Docs -> Entries] /\ store'[d] = store[d] /\ \A e \in Docs \ {d} : store'[e] = store[e]
  BY <1>2 DEF KnowledgeInv, KnowledgeTypeInv
<1>6. PICK r \in ManifestRows :
        /\ r.status = rows[d].status /\ r.class = rows[d].class
        /\ rows' \in [Docs -> ManifestRows] /\ rows'[d] = r /\ \A e \in Docs \ {d} : rows'[e] = rows[e]
        /\ d \notin damaged => r.parse = rows[d].parse /\ r.chunk = rows[d].chunk
  <2>1. CASE UNCHANGED rows
    BY <2>1 DEF KnowledgeInv, KnowledgeTypeInv
  <2>2. CASE SetRow(d, [Row(d) EXCEPT !.index = "failed"])
    <3>1. PICK r \in ManifestRows : r = [Row(d) EXCEPT !.index = "failed"]
      BY <1>4 DEF ManifestRows, StageStates
    <3>2. /\ r.status = rows[d].status /\ r.class = rows[d].class
          /\ r.parse = Row(d).parse /\ r.chunk = Row(d).chunk
      BY <1>4, <3>1 DEF ManifestRows
    <3> QED
      BY <1>4, <2>2, <3>1, <3>2, RowWritten
  <2> QED
    BY <1>2, <2>1, <2>2
<1>7. Known(d)'
  BY <1>3, <1>6 DEF Known
<1>8. /\ JobsAbout(d) /\ \A b \in Actors \ {a} : job'[b] = job[b]
      /\ job'[a].at \in {"leave", "idle"}
  BY <1>1, <1>2, <1>7, AfterIndexIs, JobGoesOn
<1>9. Offerable(d)' => Offerable(d)
  <2>1. Recordable(d)' => Recordable(d)
    BY <1>2, <1>4, <1>6 DEF Recordable, Row, Prepared
  <2>2. (Ending(d)' => Ending(d)) /\ (Lost(d) => Lost(d)')
    BY <1>2, <1>6, <1>8 DEF Ending, Lost, Withdrawn
  <2> QED
    BY <2>1, <2>2 DEF Offerable
<1>10. Rebuilding(d) => Rebuilding(d)'
  BY <1>2, <1>8 DEF Rebuilding, Rebuilds
<1>11. Settled(d)' /\ Marked(d)'
  BY <1>2, <1>3, <1>5, <1>6, <1>9, <1>10, SettledKept DEF Marked, KindOf
<1>12. WorkerInv'
  <2>1. CASE a = "web"
    BY <1>2, <1>6, <1>8, <2>1, WorkerStays DEF Actors
  <2>2. CASE a = "worker"
    BY <1>8, <2>2 DEF WorkerInv, WorkerReady, Indexing
  <2> QED
    BY <2>1, <2>2 DEF Actors
<1> QED
  BY <1>2, <1>3, <1>5, <1>6, <1>7, <1>8, <1>11, <1>12, DocumentMoves

LEMMA IndexEndKeeps == ASSUME KnowledgeInv, NEW a \in Actors, IndexEnd(a) PROVE KnowledgeInv'
<1>1. PICK d \in Docs : d = job[a].doc
  BY JobIs DEF IndexEnd
<1>2. PICK at \in {"undo", "leave", "idle"} :
        /\ Does(a, at) /\ at \in JobsOf(a) /\ (at = "undo" => a = "worker" /\ Row(d).status \in Withdrawn)
  <2>1. CASE a = "worker" /\ Row(d).status \in Withdrawn
    BY <1>1, <2>1 DEF IndexEnd, JobsOf, Staging
  <2>2. CASE ~(a = "worker" /\ Row(d).status \in Withdrawn)
    BY <1>1, <2>2, AfterIndexIs DEF IndexEnd
  <2> QED
    BY <2>1, <2>2
<1>3. /\ UNCHANGED <<kind, damaged, marks, store, search, torn, queue>> /\ job[a].at = "end"
      /\ SetRow(d, Published(d))
  BY <1>1 DEF IndexEnd, Kept
<1>4. Known(d) /\ KindOf(d) # "text" /\ (a = "worker" => KindOf(d) = "pdf")
  BY <1>1, <1>3, JobIs
<1>5. /\ Row(d) \in ManifestRows /\ Row(d).status = rows[d].status /\ Row(d).class = rows[d].class
      /\ d \notin damaged => Row(d) = rows[d]
      /\ d \in damaged /\ rows[d].status \notin {"none", "revoked"} => Row(d).parse = "failed"
  BY RowIs DEF KnowledgeInv
<1>6. PICK r \in ManifestRows :
        /\ r = Published(d) /\ r.class = rows[d].class /\ r.parse = Row(d).parse /\ r.chunk = Row(d).chunk
        /\ r.status = IF KindOf(d) = "image" \/ rows[d].status \in Withdrawn THEN rows[d].status ELSE "published"
  <2>1. CASE KindOf(d) = "image"
    <3>1. PICK r \in ManifestRows : r = [Row(d) EXCEPT !.index = "indexed"]
      BY <1>5 DEF ManifestRows, StageStates
    <3>2. /\ r.status = rows[d].status /\ r.class = rows[d].class
          /\ r.parse = Row(d).parse /\ r.chunk = Row(d).chunk
      BY <1>5, <3>1 DEF ManifestRows
    <3>3. r = Published(d)
      BY <2>1, <3>1 DEF Published
    <3> QED
      BY <2>1, <3>2, <3>3
  <2>2. CASE KindOf(d) # "image" /\ Row(d).status \in Withdrawn
    BY <1>5, <2>2 DEF Published
  <2>3. CASE KindOf(d) # "image" /\ Row(d).status \notin Withdrawn
    <3>1. PICK r \in ManifestRows : r = [Row(d) EXCEPT !.status = "published", !.index = "indexed"]
      BY <1>5 DEF ManifestRows, StageStates
    <3>2. /\ r.status = "published" /\ r.class = rows[d].class
          /\ r.parse = Row(d).parse /\ r.chunk = Row(d).chunk
      BY <1>5, <3>1 DEF ManifestRows
    <3>3. r = Published(d)
      BY <2>3, <3>1 DEF Published
    <3> QED
      BY <1>5, <2>3, <3>2, <3>3
  <2> QED
    BY <2>1, <2>2, <2>3
<1>7. /\ rows' \in [Docs -> ManifestRows] /\ rows'[d] = r
      /\ \A e \in Docs \ {d} : rows'[e] = rows[e]
  BY <1>3, <1>6, RowWritten
<1>8. Known(d)'
  BY <1>4, <1>6, <1>7 DEF Known
<1>9. /\ JobsAbout(d) /\ \A b \in Actors \ {a} : job'[b] = job[b]
      /\ job'[a].at = at /\ (at # "idle" => job'[a].doc = d)
  BY <1>1, <1>2, <1>3, <1>8, JobGoesOn
<1>10. /\ store' \in [Docs -> Entries] /\ store'[d] = store[d] /\ \A e \in Docs \ {d} : store'[e] = store[e]
  BY <1>3 DEF KnowledgeInv, KnowledgeTypeInv
<1>11. Offerable(d)' => Offerable(d)
  <2>1. (Ending(d)' => Ending(d)) /\ Ending(d)
    BY <1>1, <1>3, <1>9 DEF Ending
  <2>2. Lost(d) => Lost(d)'
    BY <1>3, <1>6, <1>7 DEF Lost, Withdrawn
  <2>3. ASSUME Recordable(d)' PROVE ~Lost(d)
    <3>1. Row(d)'.status = r.status /\ (d \in damaged /\ r.status \notin {"none", "revoked"} => Row(d)'.parse = "failed")
      BY <1>3, <1>6, <1>7 DEF Row, ManifestRows
    <3>2. r.status = "published" /\ Row(d)'.parse = "ready"
      BY <2>3, <3>1 DEF Recordable, Prepared
    <3>3. d \notin damaged
      BY <3>1, <3>2
    <3> QED
      BY <1>6, <3>2, <3>3 DEF Lost, Withdrawn
  <2> QED
    BY <2>1, <2>2, <2>3 DEF Offerable
<1>12. Rebuilding(d) => Rebuilding(d)'
  BY <1>3, <1>9 DEF Rebuilding, Rebuilds
<1>13. Settled(d)' /\ Marked(d)'
  BY <1>3, <1>4, <1>6, <1>7, <1>10, <1>11, <1>12, SettledKept DEF Marked, KindOf
<1>14. WorkerInv'
  <2>1. CASE a = "web"
    BY <1>3, <1>5, <1>6, <1>7, <1>9, <2>1, WorkerStays DEF Actors
  <2>2. CASE a = "worker" /\ at # "undo"
    BY <1>9, <2>2 DEF WorkerInv, WorkerReady, Indexing
  <2>3. CASE a = "worker" /\ at = "undo"
    BY <1>2, <1>5, <1>6, <1>7, <1>9, <2>3 DEF WorkerInv, WorkerReady, Indexing, Withdrawn
  <2> QED
    BY <2>1, <2>2, <2>3 DEF Actors
<1> QED
  BY <1>3, <1>4, <1>6, <1>7, <1>8, <1>9, <1>10, <1>13, <1>14, DocumentMoves

-----------------------------------------------------------------------------
(* The worker's stages.                                                       *)

\* One stage of a PDF that was not withdrawn; it is offered only by the index.
LEMMA StageMoves ==
  ASSUME KnowledgeInv, NEW d \in Docs, d = job["worker"].doc, NEW r \in ManifestRows, SetRow(d, r),
         job["worker"].at \in {"stage", "parse", "split", "chunk"},
         NEW next \in {"parse", "split", "chunk", "index", "leave"}, Does("worker", next),
         UNCHANGED <<kind, damaged, marks, queue, store, search, torn>>,
         rows[d].status \notin Withdrawn, r.class = rows[d].class, r.status \in {"draft", "published", "review_required"},
         r.status = "review_required" => next = "leave",
         next \in {"split", "chunk", "index"} => r.parse = "ready" \/ d \in damaged,
         next = "index" => r.chunk = "ready" \/ d \in damaged,
         next # "index" /\ r.status = "published" /\ Prepared(r) => rows[d].status = "published" /\ Prepared(rows[d])
  PROVE  KnowledgeInv'
<1>1. Known(d) /\ KindOf(d) = "pdf" /\ Known(d)' /\ rows'[d] = r /\ rows' \in [Docs -> ManifestRows]
      /\ \A e \in Docs \ {d} : rows'[e] = rows[e]
  <2>1. Known(d) /\ KindOf(d) = "pdf"
    BY JobIs DEF Actors
  <2>2. rows'[d] = r /\ rows' \in [Docs -> ManifestRows] /\ \A e \in Docs \ {d} : rows'[e] = rows[e]
    BY RowWritten
  <2> QED
    BY <2>1, <2>2 DEF Known
<1>2. /\ JobsAbout(d) /\ \A b \in Actors \ {"worker"} : job'[b] = job[b]
      /\ job'["worker"].at = next /\ job'["worker"].doc = d
  <2>1. "worker" \in Actors /\ next \in JobsOf("worker") \ {"enqueue"} /\ next # "idle" /\ job["worker"].at # "idle"
    BY DEF Actors, JobsOf, Staging, Indexing
  <2> QED
    BY <1>1, <2>1, JobGoesOn
<1>3. /\ store' \in [Docs -> Entries] /\ store'[d] = store[d] /\ \A e \in Docs \ {d} : store'[e] = store[e]
  BY DEF KnowledgeInv, KnowledgeTypeInv
<1>4. Settled(d)' /\ Marked(d)'
  <2>1. Marked(d)'
    BY <1>1 DEF Marked, KindOf
  <2>2. CASE next = "index"
    BY <1>2, <2>1, <2>2 DEF Settled, Rebuilding, Rebuilds, Actors
  <2>3. CASE next # "index"
    <3>1. Rebuilding(d) => Rebuilding(d)'
      BY <1>2 DEF Rebuilding, Rebuilds
    <3>2. Ending(d)' => Ending(d)
      BY <1>2 DEF Ending
    <3>3. Recordable(d)' => Recordable(d)
      <4>1. CASE d \in damaged
        BY <1>1, <4>1 DEF Recordable, Row, Prepared, ManifestRows
      <4>2. CASE d \notin damaged
        BY <1>1, <2>3, <4>2 DEF Recordable, Row, Prepared
      <4> QED
        BY <4>1, <4>2
    <3>4. Lost(d) => Lost(d)'
      BY DEF Lost
    <3>5. Offerable(d)' => Offerable(d)
      BY <3>2, <3>3, <3>4 DEF Offerable
    <3> QED
      BY <1>1, <1>3, <2>1, <3>1, <3>5, SettledKept
  <2> QED
    BY <2>2, <2>3
<1>5. WorkerInv'
  BY <1>1, <1>2 DEF WorkerInv, WorkerReady, Indexing, Lost
<1> QED
  BY <1>1, <1>2, <1>3, <1>4, <1>5, DocumentMoves

LEMMA StageKeeps ==
  ASSUME KnowledgeInv, NEW at \in {"stage", "parse", "split", "chunk"}, job["worker"].at = at,
         NEW d \in Docs, d = job["worker"].doc, NEW r, NEW next \in {"parse", "split", "chunk", "index", "leave"},
         UNCHANGED <<kind, damaged, marks, queue, store, search, torn>>,
         IF Row(d).status \in Withdrawn THEN Does("worker", "leave") /\ UNCHANGED rows
         ELSE SetRow(d, r) /\ Does("worker", next),
         Row(d).status \in {"draft", "published"} /\ (at \in {"split", "chunk"} => Row(d).parse = "ready" \/ d \in damaged) =>
           /\ r \in ManifestRows /\ r.class = Row(d).class /\ r.status \in {"draft", "published", "review_required"}
           /\ r.status = "review_required" => next = "leave"
           /\ next \in {"split", "chunk", "index"} => r.parse = "ready" \/ d \in damaged
           /\ next = "index" => r.chunk = "ready" \/ d \in damaged
           /\ next # "index" /\ r.status = "published" /\ Prepared(r) => r = Row(d) /\ d \notin damaged
  PROVE  KnowledgeInv'
<1>1. Known(d) /\ KindOf(d) = "pdf" /\ at # "idle" /\ "worker" \in Actors
  BY JobIs DEF Actors
<1>2. /\ Row(d) \in ManifestRows /\ Row(d).status = rows[d].status /\ Row(d).class = rows[d].class
      /\ d \notin damaged => Row(d) = rows[d]
  BY RowIs DEF KnowledgeInv
<1>3. CASE Row(d).status \in Withdrawn
  <2>1. UNCHANGED rows /\ Does("worker", "leave") /\ Known(d)' /\ rows[d].status \in Withdrawn
    BY <1>1, <1>2, <1>3 DEF Known
  <2>2. /\ JobsAbout(d) /\ \A b \in Actors \ {"worker"} : job'[b] = job[b]
        /\ job'["worker"].at = "leave"
    <3>1. "leave" \in JobsOf("worker") \ {"enqueue"}
      BY DEF JobsOf, Staging
    <3> QED
      BY <1>1, <2>1, <3>1, JobGoesOn
  <2>3. Settled(d)'
    <3>1. (Rebuilding(d) => Rebuilding(d)') /\ (Ending(d)' => Ending(d))
      BY <2>2 DEF Rebuilding, Rebuilds, Ending
    <3> QED
      BY <2>1, <3>1, SettledStays
  <2>4. WorkerInv'
    BY <2>2 DEF WorkerInv, WorkerReady, Indexing
  <2> QED
    BY <1>1, <2>1, <2>2, <2>3, <2>4, JobsMove
<1>4. CASE Row(d).status \notin Withdrawn
  <2>1. WorkerReady(job["worker"])
    BY DEF KnowledgeInv, WorkerInv
  <2>2. rows[d].status # "review_required" /\ (at \in {"split", "chunk"} => rows[d].parse = "ready" \/ Lost(d))
    BY <1>1, <2>1 DEF WorkerReady
  <2>3. Row(d).status \in {"draft", "published"} /\ (at \in {"split", "chunk"} => Row(d).parse = "ready" \/ d \in damaged)
    BY <1>1, <1>2, <1>4, <2>2 DEF Known, ManifestRows, Withdrawn, Lost
  <2> QED
    BY <1>2, <1>4, <2>3, StageMoves
<1> QED
  BY <1>3, <1>4

LEMMA StageRowsAre ==
  ASSUME NEW r \in ManifestRows
  PROVE  /\ ParseBegins(r) \in ManifestRows
         /\ Parsed("draft", r) \in ManifestRows /\ Parsed("review_required", r) \in ManifestRows
         /\ StageFailed("parse", r) \in ManifestRows /\ StageFailed("chunk", r) \in ManifestRows
<1>1. ParseBegins(r) \in ManifestRows
  BY DEF ParseBegins, ManifestRows, StageStates
<1>2. Parsed("draft", r) \in ManifestRows /\ Parsed("review_required", r) \in ManifestRows
  BY DEF Parsed, ManifestRows, StageStates
<1>3. StageFailed("parse", r) \in ManifestRows
  BY DEF StageFailed, ManifestRows, StageStates
<1>4. StageFailed("chunk", r) \in ManifestRows
  BY DEF StageFailed, ManifestRows, StageStates
<1> QED
  BY <1>1, <1>2, <1>3, <1>4

LEMMA ProcessStagedKeeps == ASSUME KnowledgeInv, ProcessStaged PROVE KnowledgeInv'
<1>0. job["worker"].at \in {"stage", "parse", "split", "chunk"}
  BY DEF ProcessStaged, Stage
<1>1. PICK d \in Docs : d = job["worker"].doc
  BY <1>0, JobIs DEF Actors
<1>2. Row(d) \in ManifestRows
  BY RowIs DEF KnowledgeInv
<1>3. UNCHANGED <<kind, damaged, marks, queue, store, search, torn>>
  BY DEF ProcessStaged, Stage, Kept
<1> DEFINE Goes(r, next) ==
      IF Row(d).status \in Withdrawn THEN Does("worker", "leave") /\ UNCHANGED rows
      ELSE SetRow(d, r) /\ Does("worker", next)
<1>4. CASE Row(d).parse # "ready" /\ job["worker"].at = "stage" /\ Goes(ParseBegins(Row(d)), "parse")
  <2>1. PICK r \in ManifestRows : r = ParseBegins(Row(d))
    BY <1>2, StageRowsAre
  <2>2. r.class = Row(d).class /\ r.status = "draft"
    BY <1>2, <2>1 DEF ParseBegins, ManifestRows
  <2> QED
    BY <1>1, <1>3, <1>4, <2>1, <2>2, StageKeeps
<1>5. CASE Row(d).parse = "ready" /\ job["worker"].at = "stage" /\ Goes(Row(d), "split")
  <2>1. d \notin damaged \/ Row(d).status \in {"none", "revoked"}
    BY <1>5, RowIs DEF KnowledgeInv
  <2> QED
    BY <1>1, <1>2, <1>3, <1>5, <2>1, StageKeeps
<1>6. CASE job["worker"].at = "parse" /\ Goes(Parsed("draft", Row(d)), "split")
  <2>1. PICK r \in ManifestRows : r = Parsed("draft", Row(d))
    BY <1>2, StageRowsAre
  <2>2. r.class = Row(d).class /\ r.status = "draft" /\ r.parse = "ready"
    BY <1>2, <2>1 DEF Parsed, ManifestRows
  <2> QED
    BY <1>1, <1>3, <1>6, <2>1, <2>2, StageKeeps
<1>7. CASE job["worker"].at = "parse" /\ Goes(Parsed("review_required", Row(d)), "leave")
  <2>1. PICK r \in ManifestRows : r = Parsed("review_required", Row(d))
    BY <1>2, StageRowsAre
  <2>2. r.class = Row(d).class /\ r.status = "review_required" /\ r.parse = "ready"
    BY <1>2, <2>1 DEF Parsed, ManifestRows
  <2> QED
    BY <1>1, <1>3, <1>7, <2>1, <2>2, StageKeeps
<1>8. CASE job["worker"].at = "parse" /\ Goes(StageFailed("parse", Row(d)), "leave")
  <2>1. PICK r \in ManifestRows : r = StageFailed("parse", Row(d))
    BY <1>2, StageRowsAre
  <2>2. r.class = Row(d).class /\ r.status = "draft"
    BY <1>2, <2>1 DEF StageFailed, ManifestRows
  <2> QED
    BY <1>1, <1>3, <1>8, <2>1, <2>2, StageKeeps
<1>9. CASE job["worker"].at = "split" /\ Goes([Row(d) EXCEPT !.chunk = "running"], "chunk")
  <2>1. PICK r \in ManifestRows : r = [Row(d) EXCEPT !.chunk = "running"]
    BY <1>2 DEF ManifestRows, StageStates
  <2>2. r.class = Row(d).class /\ r.status = Row(d).status /\ r.parse = Row(d).parse /\ r.chunk = "running"
    BY <1>2, <2>1 DEF ManifestRows
  <2> QED
    <3>1. ~Prepared(r)
      BY <2>2 DEF Prepared
    <3>2. "split" \in {"stage", "parse", "split", "chunk"} /\ "chunk" \in {"parse", "split", "chunk", "index", "leave"}
      OBVIOUS
    <3> QED
      BY <1>1, <1>3, <1>9, <2>1, <2>2, <3>1, <3>2, StageKeeps
<1>10. CASE job["worker"].at = "chunk" /\ Goes([Row(d) EXCEPT !.chunk = "ready", !.index = "pending"], "index")
  <2>1. PICK r \in ManifestRows : r = [Row(d) EXCEPT !.chunk = "ready", !.index = "pending"]
    BY <1>2 DEF ManifestRows, StageStates
  <2>2. r.class = Row(d).class /\ r.status = Row(d).status /\ r.parse = Row(d).parse /\ r.chunk = "ready"
    BY <1>2, <2>1 DEF ManifestRows
  <2> QED
    <3>1. "chunk" \in {"stage", "parse", "split", "chunk"} /\ "index" \in {"parse", "split", "chunk", "index", "leave"}
      OBVIOUS
    <3>2. /\ job["worker"].at = "chunk" /\ r \in ManifestRows /\ r.class = Row(d).class /\ r.chunk = "ready"
          /\ IF Row(d).status \in Withdrawn THEN Does("worker", "leave") /\ UNCHANGED rows
             ELSE SetRow(d, r) /\ Does("worker", "index")
      BY <1>10, <2>1, <2>2
    <3>3. Row(d).status \in {"draft", "published"} /\ (Row(d).parse = "ready" \/ d \in damaged) =>
            /\ r.status \in {"draft", "published", "review_required"} /\ r.status # "review_required"
            /\ r.parse = "ready" \/ d \in damaged
      BY <2>2
    <3> QED
      BY <1>1, <1>3, <3>1, <3>2, <3>3, StageKeeps
<1>11. CASE job["worker"].at = "chunk" /\ Goes(StageFailed("chunk", Row(d)), "leave")
  <2>1. PICK r \in ManifestRows : r = StageFailed("chunk", Row(d))
    BY <1>2, StageRowsAre
  <2>2. r.class = Row(d).class /\ r.status = "draft"
    BY <1>2, <2>1 DEF StageFailed, ManifestRows
  <2> QED
    BY <1>1, <1>3, <1>11, <2>1, <2>2, StageKeeps
<1> QED
  BY <1>1, <1>4, <1>5, <1>6, <1>7, <1>8, <1>9, <1>10, <1>11 DEF ProcessStaged, Stage

-----------------------------------------------------------------------------
(* The console's other requests.                                              *)

LEMMA ApproveReviewKeeps == ASSUME KnowledgeInv, NEW d \in Docs, ApproveReview(d) PROVE KnowledgeInv'
<1>1. /\ UNCHANGED <<kind, damaged, store, marks, search, torn, queue>> /\ job["web"].at = "idle"
      /\ Row(d).status = "review_required" /\ Row(d).parse = "ready" /\ Begins("index", d)
      /\ SetRow(d, [Row(d) EXCEPT !.status = "published", !.chunk = "ready", !.index = "pending"])
  BY DEF ApproveReview, WebMay
<1>2. /\ Row(d) \in ManifestRows /\ Row(d).status = rows[d].status /\ Row(d).class = rows[d].class
  BY RowIs DEF KnowledgeInv
<1>3. PICK r \in ManifestRows : r = [Row(d) EXCEPT !.status = "published", !.chunk = "ready", !.index = "pending"]
  BY <1>2 DEF ManifestRows, StageStates
<1>4. r.status = "published" /\ r.class = rows[d].class /\ r.parse = "ready" /\ r.chunk = "ready"
  BY <1>1, <1>2, <1>3 DEF ManifestRows
<1>5. rows' \in [Docs -> ManifestRows] /\ rows'[d] = r /\ \A e \in Docs \ {d} : rows'[e] = rows[e]
  BY <1>1, <1>3, RowWritten
<1>6. Known(d) /\ Known(d)' /\ KindOf(d) # "text"
  BY <1>1, <1>2, <1>4, <1>5 DEF Known, KnowledgeInv, IndexInv, Marked
<1>7. /\ JobsAbout(d) /\ job'["worker"] = job["worker"]
      /\ job'["web"].at = "index" /\ job'["web"].doc = d
  BY <1>1, <1>6, RequestBegins
<1>8. Settled(d)' /\ Marked(d)'
  <2>1. Rebuilding(d)'
    BY <1>7 DEF Rebuilding, Rebuilds, Actors
  <2> QED
    BY <1>1, <1>6, <2>1 DEF Settled, Marked, KindOf
<1>9. WorkerInv'
  BY <1>1, <1>2, <1>4, <1>5, <1>7, WorkerStays DEF Withdrawn
<1>10. store' \in [Docs -> Entries] /\ store'[d] = store[d] /\ \A e \in Docs \ {d} : store'[e] = store[e]
  BY <1>1 DEF KnowledgeInv, KnowledgeTypeInv
<1> QED
  BY <1>1, <1>4, <1>5, <1>6, <1>7, <1>8, <1>9, <1>10, DocumentMoves

LEMMA ClassifyKeeps ==
  ASSUME KnowledgeInv, NEW d \in Docs, NEW c \in Classes, Classify(d, c) PROVE KnowledgeInv'
<1>1. /\ UNCHANGED <<kind, damaged, store, marks, queue>> /\ job["web"].at = "idle"
      /\ Row(d).status \notin {"none", "revoked"} /\ SetRow(d, [Row(d) EXCEPT !.class = c]) /\ Disturbed({d})
  BY DEF Classify, WebMay
<1>2. /\ Row(d) \in ManifestRows /\ Row(d).status = rows[d].status
      /\ d \notin damaged => Row(d) = rows[d]
  BY RowIs DEF KnowledgeInv
<1>3. PICK r \in ManifestRows : r = [Row(d) EXCEPT !.class = c]
  BY <1>2 DEF ManifestRows
<1>4. r.status = rows[d].status /\ r.parse = Row(d).parse /\ r.chunk = Row(d).chunk /\ r.class = c
  BY <1>2, <1>3 DEF ManifestRows
<1>5. rows' \in [Docs -> ManifestRows] /\ rows'[d] = r /\ \A e \in Docs \ {d} : rows'[e] = rows[e]
  BY <1>1, <1>3, RowWritten
<1>6. Known(d) /\ Known(d)'
  BY <1>1, <1>2, <1>4, <1>5 DEF Known
<1>7. /\ JobsAbout(d) /\ job'["worker"] = job["worker"]
      /\ \A e \in Docs \ {d} : e \in torn' <=> e \in torn
      /\ \/ job'["web"].at = "clear" /\ job'["web"].doc = d
         \/ job' = job /\ (KindOf(d) # "text" => d \in torn')
  <2>1. CASE Begins("clear", d) /\ KindOf(d) # "text" /\ UNCHANGED torn
    BY <1>1, <1>6, <2>1, RequestBegins
  <2>2. CASE UNCHANGED job /\ torn' = torn \cup ({d} \ {e \in Docs : KindOf(e) = "text"})
    BY <2>2, JobsRest
  <2> QED
    BY <2>1, <2>2 DEF Classify
<1>8. Marked(d)'
  BY <1>1, <1>4, <1>5 DEF KnowledgeInv, IndexInv, Marked, KindOf
<1>9. Settled(d)'
  <2>1. CASE job'["web"].at = "clear" /\ job'["web"].doc = d
    BY <2>1 DEF Settled, Rebuilding, Rebuilds, Actors
  <2>2. CASE d \in torn'
    BY <2>2 DEF Settled
  <2>3. CASE job' = job /\ KindOf(d) = "text"
    <3>1. ~Ending(d)
      BY <2>3, JobIs DEF Ending
    <3>2. ~Ending(d)'
      BY <2>3, <3>1 DEF Ending
    <3>3. Recordable(d)' => rows'[d].status = "published"
      BY <1>1, <1>4, <1>5 DEF Recordable, Row, ManifestRows
    <3>4. Recordable(d)' => store'[d] = marks'[d]
      BY <1>1, <1>8, <2>3, <3>3 DEF Marked, KindOf, Withdrawn
    <3> QED
      BY <3>2, <3>4 DEF Settled, Offerable, Faithful
  <2> QED
    BY <1>7, <2>1, <2>2, <2>3
<1>10. WorkerInv'
  BY <1>1, <1>2, <1>4, <1>5, <1>7, WorkerStays
<1>11. store' \in [Docs -> Entries] /\ \A e \in Docs \ {d} : store'[e] = store[e]
  BY <1>1 DEF KnowledgeInv, KnowledgeTypeInv
<1> QED
  BY <1>1, <1>5, <1>6, <1>7, <1>8, <1>9, <1>10, <1>11, DocumentMoves

LEMMA RetryPdfKeeps == ASSUME KnowledgeInv, NEW d \in Docs, RetryPdf(d) PROVE KnowledgeInv'
<1>1. /\ UNCHANGED <<kind, damaged, store, marks, search, torn, queue>> /\ job["web"].at = "idle"
      /\ KindOf(d) = "pdf" /\ Row(d).status \notin Withdrawn \cup {"none"} /\ Begins("enqueue", d)
  BY DEF RetryPdf, WebMay
<1>2. /\ Row(d) \in ManifestRows /\ Row(d).status = rows[d].status /\ Row(d).class = rows[d].class
      /\ d \notin damaged => Row(d) = rows[d]
  BY RowIs DEF KnowledgeInv
<1>3. PICK q \in ManifestRows : q = [Row(d) EXCEPT !.status = "draft", !.index = "pending"]
  BY <1>2 DEF ManifestRows, StageStates
<1>4. q.status = "draft" /\ q.class = rows[d].class /\ q.parse = Row(d).parse /\ q.chunk = Row(d).chunk
  BY <1>2, <1>3 DEF ManifestRows
<1>5. PICK r \in ManifestRows :
        /\ SetRow(d, r) /\ r.status = "draft" /\ r.class = rows[d].class
        /\ q.parse = "ready" => r.parse = "ready" /\ (q.chunk = "ready" => r.chunk = "ready")
  <2>1. CASE q.parse = "failed" /\ SetRow(d, [q EXCEPT !.parse = "pending", !.chunk = "pending"])
    <3>1. PICK r \in ManifestRows : r = [q EXCEPT !.parse = "pending", !.chunk = "pending"]
      BY DEF ManifestRows, StageStates
    <3>2. r.status = q.status /\ r.class = q.class
      BY <3>1 DEF ManifestRows
    <3> QED
      BY <1>4, <2>1, <3>1, <3>2
  <2>2. CASE q.chunk = "failed" /\ SetRow(d, [q EXCEPT !.chunk = "pending"])
    <3>1. PICK r \in ManifestRows : r = [q EXCEPT !.chunk = "pending"]
      BY DEF ManifestRows, StageStates
    <3>2. r.status = q.status /\ r.class = q.class /\ r.parse = q.parse
      BY <3>1 DEF ManifestRows
    <3> QED
      BY <1>4, <2>2, <3>1, <3>2
  <2>3. CASE SetRow(d, q)
    BY <1>4, <2>3
  <2> QED
    BY <1>3, <2>1, <2>2, <2>3 DEF RetryPdf
<1>6. rows' \in [Docs -> ManifestRows] /\ rows'[d] = r /\ \A e \in Docs \ {d} : rows'[e] = rows[e]
  BY <1>5, RowWritten
<1>7. Known(d) /\ Known(d)'
  BY <1>1, <1>2, <1>5, <1>6 DEF Known
<1>8. /\ JobsAbout(d) /\ job'["worker"] = job["worker"]
      /\ job'["web"].at = "enqueue" /\ job'["web"].doc = d
  BY <1>1, <1>7, RequestBegins
<1>9. store' \in [Docs -> Entries] /\ store'[d] = store[d] /\ \A e \in Docs \ {d} : store'[e] = store[e]
  BY <1>1 DEF KnowledgeInv, KnowledgeTypeInv
<1>10. Settled(d)' /\ Marked(d)'
  <2>1. ~Recordable(d)'
    BY <1>1, <1>5, <1>6 DEF Recordable, Row, ManifestRows
  <2>2. (Ending(d)' => Ending(d)) /\ (Rebuilding(d) => Rebuilding(d)')
    BY <1>1, <1>8 DEF Ending, Rebuilding, Rebuilds, Actors
  <2>3. Lost(d) => Lost(d)'
    BY <1>1, <1>2 DEF Lost
  <2> QED
    BY <1>1, <1>5, <1>6, <1>9, <2>1, <2>2, <2>3, SettledKept DEF Offerable, Marked, KindOf
<1>11. WorkerInv'
  BY <1>1, <1>2, <1>4, <1>5, <1>6, <1>8, WorkerStays
<1> QED
  BY <1>1, <1>5, <1>6, <1>7, <1>8, <1>9, <1>10, <1>11, DocumentMoves

LEMMA RevokeKeeps == ASSUME KnowledgeInv, NEW d \in Docs, Revoke(d) PROVE KnowledgeInv'
<1>1. /\ UNCHANGED <<kind, damaged, marks, queue, job, torn>>
      /\ Row(d).status \notin {"none", "revoked"} /\ Disturbed({d})
  BY DEF Revoke
<1>2. /\ Row(d) \in ManifestRows /\ Row(d).status = rows[d].status
      /\ d \notin damaged => Row(d) = rows[d]
  BY RowIs DEF KnowledgeInv
<1>3. PICK status \in Withdrawn, index \in {"withdrawn", "failed"} :
        SetRow(d, [Row(d) EXCEPT !.status = status, !.index = index])
  BY DEF Revoke, Withdrawn
<1>4. PICK r \in ManifestRows : r = [Row(d) EXCEPT !.status = status, !.index = index]
  BY <1>2 DEF ManifestRows, StageStates, Withdrawn
<1>5. r.status \in Withdrawn /\ r.parse = Row(d).parse /\ r.chunk = Row(d).chunk
  BY <1>2, <1>4 DEF ManifestRows
<1>6. rows' \in [Docs -> ManifestRows] /\ rows'[d] = r /\ \A e \in Docs \ {d} : rows'[e] = rows[e]
  BY <1>3, <1>4, RowWritten
<1>7. Known(d) /\ Known(d)'
  BY <1>1, <1>2, <1>5, <1>6 DEF Known, Withdrawn
<1>8. store' \in [Docs -> Entries] /\ \A e \in Docs \ {d} : store'[e] = store[e]
  <2>1. store' = store \/ store' = [store EXCEPT ![d] = "none"]
    BY DEF Revoke
  <2> QED
    BY <2>1 DEF KnowledgeInv, KnowledgeTypeInv, Entries
<1>9. Settled(d)' /\ Marked(d)'
  <2>1. ~Recordable(d)' /\ Lost(d)'
    BY <1>5, <1>6 DEF Recordable, Row, Lost, Withdrawn, ManifestRows
  <2> QED
    BY <1>5, <1>6, <2>1 DEF Settled, Offerable, Marked, Withdrawn
<1>10. WorkerInv'
  BY <1>1, <1>2, <1>5, <1>6, WorkerStays DEF Withdrawn
<1>11. JobsAbout(d)
  BY <1>1, JobsRest
<1> QED
  BY <1>1, <1>6, <1>7, <1>8, <1>9, <1>10, <1>11, DocumentMoves

LEMMA ImportKeeps ==
  ASSUME KnowledgeInv, NEW s \in Sources, NEW c \in Imported, Import(s, c) PROVE KnowledgeInv'
<1>1. PICK d \in Docs : d = NextDoc(s)
  BY DEF Import
<1>2. PICK n \in 0..MaxGeneration : \A g \in 1..MaxGeneration : Known(<<s, g>>) <=> g <= n
  BY DEF KnowledgeInv, ImportsInOrder
<1>3. d = <<s, n + 1>> /\ n + 1 \in 1..MaxGeneration
  <2>1. Cardinality({<<s, g>> : g \in 1..n}) = n
    <3> DEFINE f == [g \in 1..n |-> <<s, g>>]
    <3>0. /\ f \in [1..n -> {<<s, g>> : g \in 1..n}] /\ \A g \in 1..n : f[g] = <<s, g>>
          /\ \A t \in {<<s, g>> : g \in 1..n} : \E g \in 1..n : f[g] = t
      OBVIOUS
    <3>1. f \in Bijection(1..n, {<<s, g>> : g \in 1..n})
      <4>1. \A g, h \in 1..n : f[g] = f[h] => g = h
        BY <3>0
      <4> HIDE DEF f
      <4> QED
        BY <3>0, <4>1 DEF Bijection, Injection, Surjection, IsInjective
    <3>2. ExistsBijection(1..n, {<<s, g>> : g \in 1..n})
      BY <3>1 DEF ExistsBijection
    <3>3. IsFiniteSet(1..n) /\ Cardinality(1..n) = n
      BY FS_Interval, KnowledgeAssumption
    <3> QED
      BY <3>2, <3>3, FS_Bijection
  <2>2. {e \in Docs : e[1] = s /\ rows[e].status # "none"} = {<<s, g>> : g \in 1..n}
    <3>1. ASSUME NEW e \in Docs, e[1] = s, rows[e].status # "none" PROVE e \in {<<s, g>> : g \in 1..n}
      <4>1. PICK g \in 1..MaxGeneration : e = <<s, g>>
        BY <3>1 DEF Docs
      <4> QED
        BY <1>2, <3>1, <4>1, KnowledgeAssumption DEF Known
    <3>2. ASSUME NEW g \in 1..n PROVE <<s, g>> \in Docs /\ rows[<<s, g>>].status # "none" /\ <<s, g>>[1] = s
      BY <1>2, DocsAre, KnowledgeAssumption DEF Known
    <3>3. \A e \in {<<s, g>> : g \in 1..n} : e \in Docs /\ rows[e].status # "none" /\ e[1] = s
      BY <3>2
    <3> QED
      BY <3>1, <3>3
  <2>3. d = <<s, n + 1>>
    <3>1. NextDoc(s) = <<s, 1 + Cardinality({e \in Docs : e[1] = s /\ rows[e].status # "none"})>>
      BY DEF NextDoc
    <3>2. Cardinality({e \in Docs : e[1] = s /\ rows[e].status # "none"}) = n
      BY <2>1, <2>2
    <3>3. NextDoc(s) = <<s, n + 1>>
      BY <3>1, <3>2
    <3> QED
      BY <1>1, <3>3
  <2> QED
    BY <2>3, KnowledgeAssumption DEF Docs
<1>4. ~Known(d) /\ d[1] = s /\ c \in Classes
  BY <1>2, <1>3, KnowledgeAssumption DEF Classes
<1>5. UNCHANGED <<kind, damaged, store, marks, search, torn, queue>> /\ job["web"].at = "idle"
  BY DEF Import, WebMay
<1>6. PICK r \in ManifestRows :
        /\ SetRow(d, r) /\ r.class = c /\ r.status \notin {"none", "revoked", "revoke_pending"}
        /\ r.status = "review_required" => KindOf(d) = "image"
        /\ UNCHANGED job \/ \E at \in {"enqueue", "index"} :
             Begins(at, d) /\ KindOf(d) # "text" /\ (at = "enqueue" => KindOf(d) = "pdf")
  <2>0. Absent \in ManifestRows
    BY DEF Absent, ManifestRows, StageStates, Classes
  <2>1. CASE kind[s] = "pdf" /\ SetRow(d, [Absent EXCEPT !.status = "draft", !.class = c]) /\ Begins("enqueue", d)
    <3>1. PICK r \in ManifestRows : r = [Absent EXCEPT !.status = "draft", !.class = c]
      BY <1>4, <2>0 DEF ManifestRows
    <3>2. r.class = c /\ r.status = "draft"
      BY <2>0, <3>1 DEF ManifestRows
    <3> QED
      BY <1>4, <2>1, <3>1, <3>2 DEF KindOf
  <2>2. CASE /\ SetRow(d, [Absent EXCEPT !.status = "published", !.parse = "ready", !.chunk = "ready", !.class = c])
             /\ UNCHANGED job \/ (kind[s] = "image" /\ Begins("index", d))
    <3>1. PICK r \in ManifestRows :
            r = [Absent EXCEPT !.status = "published", !.parse = "ready", !.chunk = "ready", !.class = c]
      BY <1>4, <2>0 DEF ManifestRows, StageStates
    <3>2. r.class = c /\ r.status = "published"
      BY <2>0, <3>1 DEF ManifestRows
    <3> QED
      BY <1>4, <2>2, <3>1, <3>2 DEF KindOf
  <2>3. CASE /\ kind[s] = "image" /\ UNCHANGED job
             /\ SetRow(d, [Absent EXCEPT !.status = "review_required", !.parse = "ready", !.class = c])
    <3>1. PICK r \in ManifestRows : r = [Absent EXCEPT !.status = "review_required", !.parse = "ready", !.class = c]
      BY <1>4, <2>0 DEF ManifestRows, StageStates
    <3>2. r.class = c /\ r.status = "review_required"
      BY <2>0, <3>1 DEF ManifestRows
    <3> QED
      BY <1>4, <2>3, <3>1, <3>2 DEF KindOf
  <2> QED
    BY <1>1, <2>1, <2>2, <2>3 DEF Import
<1>7. rows' \in [Docs -> ManifestRows] /\ rows'[d] = r /\ \A e \in Docs \ {d} : rows'[e] = rows[e]
  BY <1>6, RowWritten
<1>8. Known(d)'
  BY <1>6, <1>7 DEF Known
<1>9. JobsAbout(d) /\ job'["worker"] = job["worker"]
  BY <1>5, <1>6, <1>8, JobsRest, RequestBegins
<1>10. ImportsInOrder'
  <2>1. ASSUME NEW t \in Sources \ {s} PROVE \E m \in 0..MaxGeneration :
                                             \A g \in 1..MaxGeneration : Known(<<t, g>>)' <=> g <= m
    <3>1. PICK m \in 0..MaxGeneration : \A g \in 1..MaxGeneration : Known(<<t, g>>) <=> g <= m
      BY DEF KnowledgeInv, ImportsInOrder
    <3>2. \A g \in 1..MaxGeneration : <<t, g>> \in Docs \ {d}
      BY <1>3, <2>1, DocsAre
    <3> QED
      BY <1>7, <3>1, <3>2 DEF Known
  <2>2. \A g \in 1..MaxGeneration : Known(<<s, g>>)' <=> g <= n + 1
    <3>1. ASSUME NEW g \in 1..MaxGeneration, g # n + 1 PROVE Known(<<s, g>>)' <=> g <= n
      <4>1. <<s, g>> \in Docs \ {d}
        BY <1>3, <3>1, DocsAre
      <4> QED
        BY <1>2, <1>7, <4>1 DEF Known
    <3>2. Known(<<s, n + 1>>)'
      BY <1>3, <1>8
    <3> QED
      BY <3>1, <3>2, KnowledgeAssumption
  <2>3. n + 1 \in 0..MaxGeneration
    BY <1>3, KnowledgeAssumption
  <2> QED
    BY <2>1, <2>2, <2>3 DEF ImportsInOrder
<1>11. store[d] = "none" /\ marks[d] = "none"
  BY <1>4 DEF KnowledgeInv, NewIsNowhere
<1>12. Settled(d)' /\ Marked(d)'
  BY <1>4, <1>5, <1>6, <1>7, <1>11 DEF Settled, Faithful, Marked, KindOf, Classes
<1>13. WorkerInv'
  BY <1>4, <1>5, <1>7, <1>9, WorkerStays
<1>14. store' \in [Docs -> Entries] /\ store'[d] = store[d] /\ \A e \in Docs \ {d} : store'[e] = store[e]
  BY <1>5 DEF KnowledgeInv, KnowledgeTypeInv
<1> QED
  BY <1>4, <1>5, <1>7, <1>8, <1>9, <1>10, <1>12, <1>13, <1>14, DocumentMoves

-----------------------------------------------------------------------------
(* Faults.                                                                    *)

LEMMA DamageKeeps == ASSUME KnowledgeInv, NEW d \in Docs, Damage(d) PROVE KnowledgeInv'
<1>1. /\ UNCHANGED <<kind, rows, store, marks, search, torn, queue, job>>
      /\ rows[d].status \notin {"none", "revoked"} /\ damaged' = damaged \cup {d}
  BY DEF Damage
<1>2. rows' \in [Docs -> ManifestRows] /\ store' \in [Docs -> Entries] /\ Known(d) /\ Known(d)'
  BY <1>1 DEF KnowledgeInv, KnowledgeTypeInv, Known
<1>3. JobsAbout(d)
  BY <1>1, JobsRest
<1>4. Settled(d)' /\ Marked(d)'
  <2>1. ~Recordable(d)' /\ Lost(d)'
    BY <1>1, <1>2 DEF Recordable, Row, Prepared, Lost, ManifestRows
  <2> QED
    BY <1>1, <2>1 DEF Settled, Offerable, Marked, KindOf, KnowledgeInv, IndexInv
<1>5. WorkerInv'
  BY <1>1 DEF KnowledgeInv, WorkerInv, WorkerReady, Lost
<1> QED
  BY <1>1, <1>2, <1>3, <1>4, <1>5, DocumentMoves

LEMMA ProcessDiesKeeps == ASSUME KnowledgeInv, ProcessDies PROVE KnowledgeInv'
<1>t. KnowledgeTypeInv /\ NewIsNowhere /\ IndexInv /\ ImportsInOrder
  BY DEF KnowledgeInv
<1>1. /\ UNCHANGED <<kind, rows, damaged, store, marks, search>> /\ queue' = <<>>
      /\ job' = [a \in DOMAIN job |-> NoJob]
      /\ torn' = torn \cup {job[a].doc : a \in {b \in DOMAIN job : job[b].at \in {"clear", "index", "load", "write"}}}
  BY DEF ProcessDies
<1>2. \A a \in Actors : job'[a] = NoJob /\ job'[a].at = "idle"
  BY <1>t, <1>1, DocsAre DEF KnowledgeTypeInv
<1>3. KnowledgeTypeInv'
  BY <1>t, <1>1, DocsAre DEF KnowledgeTypeInv
<1>4. ImportsInOrder'
  BY <1>t, <1>1, ImportsStay DEF Known
<1>5. NewIsNowhere'
  <2>1. queue' = <<>> => QueueFits'
    BY DEF QueueFits
  <2>2. \A a \in Actors : JobFits(a, job[a])'
    BY <1>2 DEF JobFits, JobsOf
  <2> QED
    BY <1>t, <1>1, <2>1, <2>2 DEF NewIsNowhere, Known
<1>6. WorkerInv'
  BY <1>2 DEF WorkerInv, WorkerReady, Actors
<1>7. IndexInv'
  <2>1. ASSUME NEW d \in Docs, d \notin torn', Offerable(d)' PROVE Faithful(d)'
    <3>1. ~Rebuilding(d) /\ d \notin torn
      BY <1>t, <1>1, <2>1 DEF Rebuilding, Rebuilds, KnowledgeTypeInv
    <3>2. ~Ending(d)'
      BY <1>2 DEF Ending
    <3>3. Recordable(d)
      BY <1>1, <2>1, <3>2 DEF Offerable, Recordable, Row
    <3> QED
      BY <1>t, <1>1, <3>1, <3>3 DEF IndexInv, Settled, Offerable, Faithful
  <2> QED
    BY <1>t, <1>1, <2>1 DEF IndexInv, Settled, Marked, KindOf
<1>8. SearchInv'
  <2>1. PICK ds \in SUBSET Docs : ds = {}
    OBVIOUS
  <2>2. \A d \in Docs \ ds : /\ store'[d] = store[d] /\ (Known(d) => rows'[d].class = rows[d].class)
                             /\ (d \in torn => d \in torn')
    BY <1>1
  <2> QED
    BY <1>1, <2>1, <2>2, SearchStays
<1> QED
  BY <1>3, <1>4, <1>5, <1>6, <1>7, <1>8 DEF KnowledgeInv

-----------------------------------------------------------------------------
(* The search.                                                                *)

\* What leaves alone who is busy with what, and the stages of every whole file.
LEMMA IndexMoves ==
  ASSUME KnowledgeInv, UNCHANGED <<kind, damaged, job>>, rows' \in [Docs -> ManifestRows],
         \A d \in Docs : /\ rows'[d].status = rows[d].status /\ rows'[d].class = rows[d].class
                         /\ d \notin damaged => rows'[d].parse = rows[d].parse /\ rows'[d].chunk = rows[d].chunk
                         /\ ~Known(d) => store'[d] = "none" /\ marks'[d] = "none"
                         /\ d \notin torn' /\ ~Rebuilding(d) /\ Offerable(d) => Faithful(d)'
                         /\ KindOf(d) = "text" /\ store[d] = marks[d] => store'[d] = marks'[d],
         store' \in [Docs -> Entries], marks' \in [Docs -> Entries],
         queue' = queue \/ (queue' \in Seq(Docs) /\ QueueFits'),
         search' \in SearchStates, search'.at # "idle" => \A d \in search'.active : Known(d), SearchInv'
  PROVE  KnowledgeInv'
<1>t. KnowledgeTypeInv /\ NewIsNowhere /\ ImportsInOrder /\ IndexInv
  BY DEF KnowledgeInv
<1>1. \A d \in Docs : Known(d)' <=> Known(d)
  BY DEF Known
<1>2. queue' \in Seq(Docs) /\ QueueFits'
  BY <1>1, QueueStays
<1>3. KnowledgeTypeInv'
  BY <1>t, <1>2 DEF KnowledgeTypeInv
<1>4. ImportsInOrder'
  BY <1>t, <1>1, ImportsStay
<1>5. NewIsNowhere'
  <2>1. \A d \in Docs : ~Known(d)' => store'[d] = "none" /\ marks'[d] = "none"
    BY <1>1
  <2>2. \A a \in Actors : JobFits(a, job[a])'
    <3>1. \A a \in Actors : JobFits(a, job[a]) /\ job[a].doc \in Docs
      BY <1>t DEF NewIsNowhere, KnowledgeTypeInv, JobStates
    <3> QED
      BY <1>1, <3>1 DEF JobFits, KindOf
  <2>3. search'.at # "idle" => \A d \in search'.active : Known(d)'
    BY <1>1 DEF SearchStates
  <2> QED
    BY <1>2, <2>1, <2>2, <2>3 DEF NewIsNowhere
<1>6. WorkerInv'
  <2>1. PICK w \in JobStates : w = job["worker"]
    BY <1>t DEF KnowledgeTypeInv, Actors
  <2>2. WorkerReady(w) /\ w.doc \in Docs
    BY <2>1 DEF KnowledgeInv, WorkerInv, JobStates
  <2>3. WorkerReady(w)'
    BY <2>2 DEF WorkerReady, Lost
  <2> QED
    BY <2>1, <2>3 DEF WorkerInv
<1>7. IndexInv'
  <2>1. ASSUME NEW d \in Docs PROVE Settled(d)' /\ Marked(d)'
    <3>1. /\ Rebuilding(d)' <=> Rebuilding(d)
          /\ Ending(d)' <=> Ending(d)
          /\ Lost(d)' <=> Lost(d)
          /\ KindOf(d)' = KindOf(d)
      BY DEF Rebuilding, Rebuilds, Ending, Lost, KindOf
    <3>2. Recordable(d)' => Recordable(d)
      <4>1. rows[d] \in ManifestRows /\ rows'[d] \in ManifestRows
        BY <1>t DEF KnowledgeTypeInv
      <4> QED
        BY <4>1 DEF Recordable, Row, Prepared, ManifestRows
    <3>3. Settled(d)'
      BY <3>1, <3>2 DEF Settled, Offerable
    <3>4. Marked(d)'
      BY <1>t, <3>1 DEF Marked, IndexInv
    <3> QED
      BY <3>3, <3>4
  <2> QED
    BY <2>1 DEF IndexInv
<1> QED
  BY <1>3, <1>4, <1>5, <1>6, <1>7 DEF KnowledgeInv

LEMMA RowsStay ==
  ASSUME KnowledgeInv, rows' = rows, UNCHANGED damaged
  PROVE  /\ rows' \in [Docs -> ManifestRows]
         /\ \A d \in Docs : /\ rows'[d].status = rows[d].status /\ rows'[d].class = rows[d].class
                            /\ d \notin damaged => rows'[d].parse = rows[d].parse /\ rows'[d].chunk = rows[d].chunk
         /\ store \in [Docs -> Entries] /\ marks \in [Docs -> Entries]
BY DEF KnowledgeInv, KnowledgeTypeInv
LEMMA IndexStays ==
  ASSUME KnowledgeInv, UNCHANGED <<store, marks, torn>>, \A d \in Docs : rows'[d].class = rows[d].class,
         NEW d \in Docs
  PROVE  /\ ~Known(d) => store'[d] = "none" /\ marks'[d] = "none"
         /\ d \notin torn' /\ ~Rebuilding(d) /\ Offerable(d) => Faithful(d)'
         /\ KindOf(d) = "text" /\ store[d] = marks[d] => store'[d] = marks'[d]
BY DEF KnowledgeInv, NewIsNowhere, IndexInv, Settled, Faithful

LEMMA SearchIs ==
  ASSUME KnowledgeInv
  PROVE  /\ search \in SearchStates /\ search.active \subseteq Docs /\ search.gone \subseteq Docs
         /\ NoSearch \in SearchStates /\ NoSearch.at = "idle"
<1>1. NoSearch \in SearchStates /\ NoSearch.at = "idle"
  <2>1. <<>> \in Changes
    BY DEF Changes
  <2> QED
    BY <2>1 DEF NoSearch, SearchStates
<1> QED
  BY <1>1 DEF KnowledgeInv, KnowledgeTypeInv, SearchStates

LEMMA QueryKeeps == ASSUME KnowledgeInv, Query PROVE KnowledgeInv'
<1>1. UNCHANGED <<kind, damaged, queue, job, rows, store, marks, torn>> /\ search' = NoSearch
  BY DEF Query, SearchKept
<1>2. SearchInv'
  BY <1>1, SearchIs DEF SearchInv
<1>3. \A d \in Docs : /\ ~Known(d) => store'[d] = "none" /\ marks'[d] = "none"
                      /\ d \notin torn' /\ ~Rebuilding(d) /\ Offerable(d) => Faithful(d)'
                      /\ KindOf(d) = "text" /\ store[d] = marks[d] => store'[d] = marks'[d]
  BY <1>1, IndexStays
<1> QED
  BY <1>1, <1>2, <1>3, RowsStay, SearchIs, IndexMoves

LEMMA SearchBeginKeeps == ASSUME KnowledgeInv, SearchBegin PROVE KnowledgeInv'
<1>1. UNCHANGED <<kind, rows, damaged, store, marks, queue, job, torn>>
  BY DEF SearchBegin
<1> DEFINE busy == {d \in Docs : \E a \in DOMAIN job : job[a].at # "idle" /\ job[a].doc = d}
           t == [at |-> "prune", active |-> ActiveDocs, stale |-> {d \in Docs : IsStale(d)},
                 changed |-> [d \in Changed |-> Row(d).class],
                 gone |-> {d \in Docs : rows[d].status = "revoked"}, disturbed |-> busy]
<1>2. search' = t
  BY DEF SearchBegin
<1>3. \A d \in Docs : Row(d).class = rows[d].class /\ Row(d).status = rows[d].status /\ rows[d].class \in Classes
  BY RowIs DEF KnowledgeInv, ManifestRows
<1>4. search' \in SearchStates
  <2>1. Changed \in SUBSET Docs
    BY DEF Changed, ActiveDocs
  <2>2. [d \in Changed |-> Row(d).class] \in [Changed -> Classes]
    BY <1>3, <2>1
  <2>3. [d \in Changed |-> Row(d).class] \in Changes
    BY <2>1, <2>2 DEF Changes
  <2>4. ActiveDocs \in SUBSET Docs
    BY DEF ActiveDocs
  <2> QED
    BY <1>2, <2>3, <2>4 DEF SearchStates
<1>5. /\ search'.at = "prune" /\ search'.active = ActiveDocs /\ search'.stale = {d \in Docs : IsStale(d)}
      /\ search'.changed = [d \in Changed |-> Row(d).class]
      /\ search'.gone = {d \in Docs : rows[d].status = "revoked"} /\ search'.disturbed = busy
  BY <1>2
<1>6. \A d \in ActiveDocs : Recordable(d) /\ Known(d) /\ d \in Docs
  BY <1>3 DEF ActiveDocs, Active, Recordable, Known
<1>7. SearchInv'
  <2>1. /\ DOMAIN search'.changed \subseteq search'.active
        /\ \A d \in DOMAIN search'.changed : search'.changed[d] \in Classes
    BY <1>3, <1>5 DEF Changed, ActiveDocs
  <2>2. ASSUME NEW d \in ActiveDocs \ busy PROVE Vouched(d)'
    <3>1. d \in Docs /\ Active(d) /\ Recordable(d) /\ d \notin {e \in Docs : IsStale(e)}
      BY <1>6 DEF ActiveDocs, IsStale
    <3>2. ~Rebuilding(d)
      BY <2>2, <3>1 DEF Rebuilding, Rebuilds, KnowledgeInv, KnowledgeTypeInv
    <3>3. d \in torn \/ Faithful(d)
      BY <3>1, <3>2 DEF KnowledgeInv, IndexInv, Settled, Offerable
    <3>4. d \notin Changed => marks[d] = rows[d].class
      BY <1>3, <3>1 DEF Changed, ActiveDocs
    <3> QED
      BY <1>1, <1>3, <1>5, <3>1, <3>3, <3>4 DEF Vouched, Faithful, Reconciling
  <2>3. ASSUME NEW d \in search'.gone PROVE Pruned(d)'
    <3>1. d \in Docs /\ rows[d].status = "revoked" /\ ~Active(d)
      BY <1>3, <1>5, <2>3 DEF Active
    <3>2. d \notin Changed
      BY <3>1 DEF Changed, ActiveDocs
    <3>3. store[d] = "none" \/ d \in {e \in Docs : IsStale(e)}
      BY <3>1 DEF IsStale
    <3> QED
      BY <1>1, <1>5, <3>2, <3>3 DEF Pruned
  <2> QED
    BY <1>5, <2>1, <2>2, <2>3 DEF SearchInv
<1>8. \A d \in Docs : /\ ~Known(d) => store'[d] = "none" /\ marks'[d] = "none"
                      /\ d \notin torn' /\ ~Rebuilding(d) /\ Offerable(d) => Faithful(d)'
                      /\ KindOf(d) = "text" /\ store[d] = marks[d] => store'[d] = marks'[d]
  BY <1>1, IndexStays
<1>9. store' \in [Docs -> Entries] /\ marks' \in [Docs -> Entries] /\ \A d \in search'.active : Known(d)
  BY <1>1, <1>5, <1>6, RowsStay
<1> QED
  BY <1>1, <1>4, <1>7, <1>8, <1>9, RowsStay, IndexMoves

LEMMA PruneKeeps == ASSUME KnowledgeInv, Prune PROVE KnowledgeInv'
<1>1. /\ UNCHANGED <<kind, rows, damaged, queue, job, torn>> /\ search.at = "prune"
      /\ store' = Without(store, search.stale) /\ marks' = Without(marks, search.stale)
      /\ search' = [search EXCEPT !.at = "build", !.stale = {}]
  BY DEF Prune, SearchKept
<1>2. /\ search' \in SearchStates /\ search'.at = "build" /\ search'.stale = {}
      /\ search'.changed = search.changed /\ search'.active = search.active /\ search'.gone = search.gone
      /\ search'.disturbed = search.disturbed
  <2>1. PICK s \in SearchStates : s = search
    BY SearchIs
  <2> QED
    BY <1>1, <2>1 DEF SearchStates
<1>3. \A d \in Docs : /\ store'[d] = IF d \in search.stale THEN "none" ELSE store[d]
                      /\ marks'[d] = IF d \in search.stale THEN "none" ELSE marks[d]
  BY <1>1 DEF Without
<1>4. store' \in [Docs -> Entries] /\ marks' \in [Docs -> Entries]
  BY <1>1, RowsStay DEF Without, Entries
<1>5. /\ DOMAIN search.changed \subseteq search.active
      /\ \A d \in DOMAIN search.changed : search.changed[d] \in Classes
      /\ \A d \in search.active \ search.disturbed : Vouched(d)
      /\ \A d \in search.gone \ search.disturbed : Pruned(d)
      /\ \A d \in search.active : Known(d)
  BY <1>1 DEF KnowledgeInv, SearchInv, Reconciling, NewIsNowhere
<1>6. SearchInv'
  <2>1. Reconciling /\ Reconciling'
    BY <1>1, <1>2 DEF Reconciling
  <2>2. ASSUME NEW d \in search.active \ search.disturbed PROVE Vouched(d)'
    <3>1. Vouched(d) /\ d \in Docs
      BY <1>5, SearchIs
    <3> QED
      BY <1>1, <1>2, <1>3, <2>1, <3>1 DEF Vouched
  <2>3. ASSUME NEW d \in search.gone \ search.disturbed PROVE Pruned(d)'
    <3>1. Pruned(d) /\ d \in Docs
      BY <1>5, SearchIs
    <3> QED
      BY <1>1, <1>2, <1>3, <2>1, <3>1 DEF Pruned
  <2> QED
    BY <1>2, <1>5, <2>2, <2>3 DEF SearchInv
<1>7. \A d \in Docs : /\ ~Known(d) => store'[d] = "none" /\ marks'[d] = "none"
                      /\ d \notin torn' /\ ~Rebuilding(d) /\ Offerable(d) => Faithful(d)'
                      /\ KindOf(d) = "text" /\ store[d] = marks[d] => store'[d] = marks'[d]
  <2>1. \A d \in Docs : rows'[d].class = rows[d].class /\ rows[d].class \in Classes
    BY <1>1, RowIs DEF KnowledgeInv, ManifestRows
  <2> QED
    BY <1>1, <1>3, <2>1 DEF KnowledgeInv, NewIsNowhere, IndexInv, Settled, Faithful, Classes
<1> QED
  BY <1>1, <1>2, <1>4, <1>5, <1>6, <1>7, RowsStay, IndexMoves

LEMMA BuildKeeps == ASSUME KnowledgeInv, Build PROVE KnowledgeInv'
<1>1. /\ UNCHANGED <<kind, rows, damaged, queue, job>> /\ search.at = "build"
      /\ store' = Overlaid(store, search.changed) /\ marks' = Overlaid(marks, search.changed)
      /\ torn' = torn \ DOMAIN search.changed
      /\ search' = [search EXCEPT !.at = "record", !.changed = <<>>]
  BY DEF Build, SearchKept
<1>2. /\ search' \in SearchStates /\ search'.at = "record" /\ search'.changed = <<>>
      /\ search'.stale = search.stale /\ search'.active = search.active /\ search'.gone = search.gone
      /\ search'.disturbed = search.disturbed
  <2>1. PICK s \in SearchStates : s = search
    BY SearchIs
  <2>2. <<>> \in Changes
    BY DEF Changes
  <2> QED
    BY <1>1, <2>1, <2>2 DEF SearchStates
<1>3. \A d \in Docs :
        /\ store'[d] = IF d \in DOMAIN search.changed THEN search.changed[d] ELSE store[d]
        /\ marks'[d] = IF d \in DOMAIN search.changed THEN search.changed[d] ELSE marks[d]
  BY <1>1 DEF Overlaid
<1>4. /\ DOMAIN search.changed \subseteq search.active
      /\ \A d \in DOMAIN search.changed : search.changed[d] \in Classes
      /\ \A d \in search.active \ search.disturbed : Vouched(d)
      /\ \A d \in search.gone \ search.disturbed : Pruned(d)
      /\ \A d \in search.active : Known(d)
  BY <1>1 DEF KnowledgeInv, SearchInv, Reconciling, NewIsNowhere
<1>5. store' \in [Docs -> Entries] /\ marks' \in [Docs -> Entries]
  BY <1>1, <1>4, RowsStay DEF Overlaid, Entries
<1>6. SearchInv'
  <2>1. Reconciling /\ ~Reconciling'
    BY <1>1, <1>2 DEF Reconciling
  <2>2. ASSUME NEW d \in search.active \ search.disturbed PROVE Vouched(d)'
    <3>1. Vouched(d) /\ d \in Docs
      BY <1>4, SearchIs
    <3> QED
      BY <1>1, <1>2, <1>3, <2>1, <3>1 DEF Vouched
  <2>3. ASSUME NEW d \in search.gone \ search.disturbed PROVE Pruned(d)'
    <3>1. Pruned(d) /\ d \in Docs
      BY <1>4, SearchIs
    <3> QED
      BY <1>1, <1>2, <1>3, <2>1, <3>1 DEF Pruned
  <2> QED
    BY <1>2, <2>1, <2>2, <2>3 DEF SearchInv
<1>7. \A d \in Docs : /\ ~Known(d) => store'[d] = "none" /\ marks'[d] = "none"
                      /\ d \notin torn' /\ ~Rebuilding(d) /\ Offerable(d) => Faithful(d)'
                      /\ KindOf(d) = "text" /\ store[d] = marks[d] => store'[d] = marks'[d]
  BY <1>1, <1>3, <1>4 DEF KnowledgeInv, NewIsNowhere, IndexInv, Settled, Faithful
<1> QED
  BY <1>1, <1>2, <1>4, <1>5, <1>6, <1>7, RowsStay, IndexMoves

LEMMA RecordKeeps == ASSUME KnowledgeInv, Record PROVE KnowledgeInv'
<1>1. UNCHANGED <<kind, damaged, queue, job, store, marks, torn>> /\ search.at = "record"
  BY DEF Record, SearchKept
<1>2. PICK ds \in SUBSET {d \in search.active : Recordable(d)} :
        /\ rows' = [d \in Docs |-> IF d \in ds THEN [Row(d) EXCEPT !.index = "indexed"] ELSE rows[d]]
        /\ SearchGoes("query") \/ search' = NoSearch
  BY DEF Record
<1>3. \A d \in Docs : /\ rows'[d] \in ManifestRows
                      /\ rows'[d].status = rows[d].status /\ rows'[d].class = rows[d].class
                      /\ d \notin damaged => rows'[d].parse = rows[d].parse /\ rows'[d].chunk = rows[d].chunk
  <2>1. ASSUME NEW d \in ds
        PROVE  /\ rows'[d] \in ManifestRows
               /\ rows'[d].status = rows[d].status /\ rows'[d].class = rows[d].class
               /\ d \notin damaged => rows'[d].parse = rows[d].parse /\ rows'[d].chunk = rows[d].chunk
    <3>1. d \in Docs
      BY SearchIs
    <3>2. /\ Row(d) \in ManifestRows /\ Row(d).status = rows[d].status /\ Row(d).class = rows[d].class
          /\ d \notin damaged => Row(d) = rows[d]
      BY <3>1, RowIs DEF KnowledgeInv
    <3>3. PICK r \in ManifestRows : r = [Row(d) EXCEPT !.index = "indexed"]
      BY <3>2 DEF ManifestRows, StageStates
    <3>4. /\ r.status = rows[d].status /\ r.class = rows[d].class
          /\ r.parse = Row(d).parse /\ r.chunk = Row(d).chunk
      BY <3>2, <3>3 DEF ManifestRows
    <3>5. rows'[d] = r
      BY <1>2, <3>1, <3>3
    <3> QED
      BY <3>2, <3>4, <3>5
  <2>2. \A d \in Docs \ ds : rows'[d] = rows[d] /\ rows[d] \in ManifestRows
    BY <1>2 DEF KnowledgeInv, KnowledgeTypeInv
  <2> QED
    BY <2>1, <2>2
<1>4. rows' \in [Docs -> ManifestRows]
  <2>1. rows' = [d \in Docs |-> rows'[d]]
    BY <1>2
  <2> QED
    BY <1>3, <2>1
<1>5. /\ search' \in SearchStates /\ SearchInv'
      /\ search'.at # "idle" => \A d \in search'.active : Known(d)
  <2>1. CASE search' = NoSearch
    BY <2>1, SearchIs DEF SearchInv
  <2>2. CASE SearchGoes("query")
    <3>1. /\ search' \in SearchStates /\ search'.at = "query" /\ search'.stale = search.stale
          /\ search'.changed = search.changed /\ search'.active = search.active /\ search'.gone = search.gone
          /\ search'.disturbed = search.disturbed
      <4>1. PICK s \in SearchStates : s = search
        BY SearchIs
      <4> QED
        BY <2>2, <4>1 DEF SearchStates, SearchGoes
    <3>2. /\ \A d \in search.active \ search.disturbed : Vouched(d)
          /\ \A d \in search.gone \ search.disturbed : Pruned(d)
          /\ \A d \in search.active : Known(d)
      BY <1>1 DEF KnowledgeInv, SearchInv, NewIsNowhere
    <3>3. ~Reconciling /\ ~Reconciling'
      BY <1>1, <3>1 DEF Reconciling
    <3>4. ASSUME NEW d \in search.active \ search.disturbed PROVE Vouched(d)'
      <4>1. Vouched(d) /\ d \in Docs
        BY <3>2, SearchIs
      <4> QED
        BY <1>1, <1>3, <3>1, <3>3, <4>1 DEF Vouched
    <3>5. ASSUME NEW d \in search.gone \ search.disturbed PROVE Pruned(d)'
      <4>1. Pruned(d) /\ d \in Docs
        BY <3>2, SearchIs
      <4> QED
        BY <1>1, <3>1, <3>3, <4>1 DEF Pruned
    <3> QED
      BY <3>1, <3>2, <3>3, <3>4, <3>5 DEF SearchInv
  <2> QED
    BY <1>2, <2>1, <2>2
<1>6. \A d \in Docs : /\ ~Known(d) => store'[d] = "none" /\ marks'[d] = "none"
                      /\ d \notin torn' /\ ~Rebuilding(d) /\ Offerable(d) => Faithful(d)'
                      /\ KindOf(d) = "text" /\ store[d] = marks[d] => store'[d] = marks'[d]
  BY <1>1, <1>3, IndexStays
<1>7. store' \in [Docs -> Entries] /\ marks' \in [Docs -> Entries]
  BY <1>1 DEF KnowledgeInv, KnowledgeTypeInv
<1> QED
  BY <1>1, <1>3, <1>4, <1>5, <1>6, <1>7, IndexMoves

LEMMA DocsAreFinite == IsFiniteSet(Docs) /\ \A ds \in SUBSET Docs : Cardinality(ds) \in Nat
<1>1. IsFiniteSet(1..MaxGeneration)
  BY FS_Interval, KnowledgeAssumption
<1>2. IsFiniteSet(Docs)
  BY <1>1, FS_Product, KnowledgeAssumption DEF Docs
<1> QED
  BY <1>2, FS_Subset, FS_CardinalityType

LEMMA StartupKeeps == ASSUME KnowledgeInv, Startup PROVE KnowledgeInv'
<1> DEFINE gone == {d \in Docs : IsStale(d)}
           built == [d \in Changed |-> Row(d).class]
<1>1. /\ UNCHANGED <<kind, damaged, job>> /\ Disturbed(Docs) /\ torn' = torn \ Changed
      /\ store' = Overlaid(Without(store, gone), built) /\ marks' = Overlaid(Without(marks, gone), built)
      /\ rows' = [d \in Docs |-> IF Active(d) THEN [Row(d) EXCEPT !.index = "indexed"] ELSE Row(d)]
  BY DEF Startup
<1>2. \A d \in Docs : /\ rows'[d] \in ManifestRows
                      /\ rows'[d].status = rows[d].status /\ rows'[d].class = rows[d].class
                      /\ d \notin damaged => rows'[d].parse = rows[d].parse /\ rows'[d].chunk = rows[d].chunk
  <2>1. ASSUME NEW d \in Docs
        PROVE  /\ rows'[d] \in ManifestRows
               /\ rows'[d].status = rows[d].status /\ rows'[d].class = rows[d].class
               /\ d \notin damaged => rows'[d].parse = rows[d].parse /\ rows'[d].chunk = rows[d].chunk
    <3>1. /\ Row(d) \in ManifestRows /\ Row(d).status = rows[d].status /\ Row(d).class = rows[d].class
          /\ d \notin damaged => Row(d) = rows[d]
      BY <2>1, RowIs DEF KnowledgeInv
    <3>2. PICK r \in ManifestRows : r = [Row(d) EXCEPT !.index = "indexed"]
      BY <3>1 DEF ManifestRows, StageStates
    <3>3. /\ r.status = rows[d].status /\ r.class = rows[d].class
          /\ r.parse = Row(d).parse /\ r.chunk = Row(d).chunk
      BY <3>1, <3>2 DEF ManifestRows
    <3>4. rows'[d] = r \/ rows'[d] = Row(d)
      BY <1>1, <2>1, <3>2
    <3> QED
      BY <3>1, <3>3, <3>4
  <2> QED
    BY <2>1
<1>3. rows' \in [Docs -> ManifestRows]
  <2>1. rows' = [d \in Docs |-> rows'[d]]
    BY <1>1
  <2> QED
    BY <1>2, <2>1
<1>4. \A d \in Docs : /\ Row(d).class = rows[d].class /\ rows[d].class \in Classes
                      /\ Row(d).status = rows[d].status
  BY RowIs DEF KnowledgeInv, ManifestRows
<1>5. \A d \in Docs : /\ d \in Changed => Active(d) /\ store'[d] = rows[d].class /\ marks'[d] = rows[d].class
                      /\ d \notin Changed => /\ store'[d] = IF IsStale(d) THEN "none" ELSE store[d]
                                             /\ marks'[d] = IF IsStale(d) THEN "none" ELSE marks[d]
  BY <1>1, <1>4 DEF Overlaid, Without, Changed, ActiveDocs
<1>6. store' \in [Docs -> Entries] /\ marks' \in [Docs -> Entries]
  <2>1. /\ store' = [d \in Docs |-> store'[d]] /\ marks' = [d \in Docs |-> marks'[d]]
        /\ store \in [Docs -> Entries] /\ marks \in [Docs -> Entries]
    BY <1>1 DEF Overlaid, KnowledgeInv, KnowledgeTypeInv
  <2>2. \A d \in Docs : store'[d] \in Entries /\ marks'[d] \in Entries
    BY <1>4, <1>5, <2>1 DEF Entries
  <2> QED
    BY <2>1, <2>2
<1>7. SearchInv' /\ search' \in SearchStates /\ (search'.at # "idle" => \A d \in search'.active : Known(d))
  <2>1. Docs \in SUBSET Docs
    OBVIOUS
  <2>2. /\ SearchInv' /\ search' \in SearchStates
        /\ search'.active = search.active /\ (search'.at = "idle" <=> search.at = "idle")
    BY <1>1, <2>1, SearchStays
  <2> QED
    BY <2>2 DEF KnowledgeInv, NewIsNowhere
<1>8. queue' \in Seq(Docs) /\ QueueFits'
  <2>1. PICK due \in SUBSET Docs : /\ due = {d \in Docs : Unfinished(d) /\ ~Active(d)}
                                   /\ queue' \in [1..Cardinality(due) -> due]
    BY DEF Startup
  <2>2. Cardinality(due) \in Nat
    BY DocsAreFinite
  <2>3. queue' \in Seq(Docs) /\ \A k \in 1..Len(queue') : queue'[k] \in due
    <3>1. ASSUME NEW n \in Nat, NEW q \in [1..n -> due]
          PROVE  q \in Seq(Docs) /\ \A k \in 1..Len(q) : q[k] \in due
      <4>1. q \in Seq(due) /\ Len(q) = n
        BY <3>1
      <4>2. Seq(due) \subseteq Seq(Docs)
        OBVIOUS
      <4> QED
        BY <3>1, <4>1, <4>2
    <3> QED
      BY <2>1, <2>2, <3>1
  <2>4. \A d \in due : d \in Docs /\ KindOf(d) = "pdf" /\ Known(d)
    BY <1>4, <2>1 DEF Unfinished, Known
  <2>5. \A d \in due : KindOf(d)' = "pdf" /\ Known(d)'
    BY <1>1, <1>2, <2>4 DEF KindOf, Known
  <2> QED
    BY <2>3, <2>5 DEF QueueFits
<1>9. ASSUME NEW d \in Docs
      PROVE  /\ ~Known(d) => store'[d] = "none" /\ marks'[d] = "none"
             /\ d \notin torn' /\ ~Rebuilding(d) /\ Offerable(d) => Faithful(d)'
             /\ KindOf(d) = "text" /\ store[d] = marks[d] => store'[d] = marks'[d]
  <2>1. ~Known(d) => ~Active(d) /\ store[d] = "none" /\ marks[d] = "none"
    BY <1>4 DEF KnowledgeInv, NewIsNowhere, Known, Active
  <2>2. CASE d \in Changed
    BY <1>2, <1>5, <2>1, <2>2 DEF Faithful
  <2>3. CASE d \notin Changed /\ IsStale(d)
    BY <1>2, <1>4, <1>5, <2>3 DEF Faithful, Classes
  <2>4. CASE d \notin Changed /\ ~IsStale(d)
    <3>1. Settled(d) /\ (d \notin torn' => d \notin torn)
      BY <1>1, <2>4 DEF KnowledgeInv, IndexInv
    <3> QED
      BY <1>2, <1>5, <2>1, <2>4, <3>1 DEF Settled, Faithful
  <2> QED
    BY <2>2, <2>3, <2>4
<1> QED
  BY <1>1, <1>2, <1>3, <1>6, <1>7, <1>8, <1>9, IndexMoves

-----------------------------------------------------------------------------
LEMMA KnowledgeStep == KnowledgeInv /\ [KnowledgeNext]_vars => KnowledgeInv'
<1> SUFFICES ASSUME KnowledgeInv, [KnowledgeNext]_vars PROVE KnowledgeInv'
  OBVIOUS
<1>1. CASE WebStep
  BY <1>1, ImportKeeps, ClassifyKeeps, ApproveReviewKeeps, RetryPdfKeeps, RetryImageKeeps, RevokeKeeps DEF WebStep
<1>2. CASE RequestStep
  <2>1. "web" \in Actors
    BY DEF Actors
  <2> QED
    BY <1>2, <2>1, EnqueueKeeps, ClearKeeps, IndexBeginKeeps, LoadKeeps, WriteKeeps, IndexFailedKeeps,
       IndexEndKeeps DEF RequestStep
<1>3. CASE WorkerStep
  <2>1. "worker" \in Actors
    BY DEF Actors
  <2> QED
    BY <1>3, <2>1, TakeJobKeeps, ProcessStagedKeeps, UndoKeeps, LeaveKeeps, IndexBeginKeeps, LoadKeeps,
       WriteKeeps, IndexFailedKeeps, IndexEndKeeps DEF WorkerStep
<1>4. CASE SearchStep
  BY <1>4, SearchBeginKeeps, PruneKeeps, BuildKeeps, RecordKeeps, QueryKeeps DEF SearchStep
<1>5. CASE FaultStep
  BY <1>5, ProcessDiesKeeps, DamageKeeps DEF FaultStep
<1>6. CASE Startup
  BY <1>6, StartupKeeps
<1>7. CASE UNCHANGED vars
  <2>1. UNCHANGED <<kind, rows, damaged, store, marks, queue, job, search, torn>>
    BY <1>7 DEF vars
  <2>2. \A d \in Docs : /\ ~Known(d) => store'[d] = "none" /\ marks'[d] = "none"
                        /\ d \notin torn' /\ ~Rebuilding(d) /\ Offerable(d) => Faithful(d)'
                        /\ KindOf(d) = "text" /\ store[d] = marks[d] => store'[d] = marks'[d]
    BY <2>1, IndexStays
  <2>3. search' \in SearchStates /\ (search'.at # "idle" => \A d \in search'.active : Known(d))
    BY <2>1, SearchIs DEF KnowledgeInv, NewIsNowhere
  <2>4. SearchInv'
    <3>1. PICK ds \in SUBSET Docs : ds = {}
      OBVIOUS
    <3> QED
      BY <2>1, <3>1, SearchStays
  <2>5. store' \in [Docs -> Entries] /\ marks' \in [Docs -> Entries]
    BY <2>1 DEF KnowledgeInv, KnowledgeTypeInv
  <2> QED
    BY <2>1, <2>2, <2>3, <2>4, <2>5, RowsStay, IndexMoves
<1> QED
  BY <1>1, <1>2, <1>3, <1>4, <1>5, <1>6, <1>7 DEF KnowledgeNext

\* A query answers from no document revoked before it began and finds every
\* offered one as it is classified, but for those somebody was writing into the
\* index meanwhile or whose rebuilding was cut off: whatever the worker, the
\* console, the restarts and the searches do between the fingerprints' being
\* read and the answer (server.py, sqlite_index.py, pipeline.py).
THEOREM SearchAnswersExactly == KnowledgeSpec => []SearchIsExact
<1>1. KnowledgeInv => SearchIsExact
  <2> SUFFICES ASSUME KnowledgeInv, search.at = "query"
               PROVE  /\ \A d \in search.gone \ search.disturbed : store[d] = "none"
                      /\ \A d \in search.active \ (search.disturbed \cup torn) : store[d] = rows[d].class
    BY DEF SearchIsExact
  <2>1. /\ \A d \in search.active \ search.disturbed : Vouched(d)
        /\ \A d \in search.gone \ search.disturbed : Pruned(d)
    BY DEF KnowledgeInv, SearchInv
  <2> QED
    BY <2>1 DEF Vouched, Pruned, Reconciling
<1> QED
  BY <1>1, KnowledgeInitial, KnowledgeStep, PTL DEF KnowledgeSpec

-----------------------------------------------------------------------------
(* RagIndex: the audience of a passage.                                       *)

RagRows == [version : Versions, piece : Pieces, audience : Audiences]
Deletions == {"semantic", "keyword", "parents"}
Additions == {"add parents", "add semantic", "add keyword"}
RagTasks == [kind : {"none", "index", "delete", "undo"}, at : {"start", "end"} \cup Deletions \cup Additions,
             versions : SUBSET Versions, audience : Audiences \cup {"none"},
             pieces : SUBSET Pieces, errors : BOOLEAN,
             result : {"none", "indexed", "deleted", "failed", "crashed"}, alone : BOOLEAN]

RagTypeInv ==
  /\ deployment \in {"sqlite", "servers"}
  /\ document \in [Versions -> Audiences \cup {"none"}]
  /\ parents \subseteq RagRows /\ semantic \subseteq RagRows /\ inverted \subseteq RagRows
  /\ task \in [{"indexer", "desk"} -> RagTasks]
  /\ I.kind = "index" => I.audience \in Audiences
  /\ (Busy("indexer") /\ I.at \in Additions) => I.kind = "index"

Stored == parents \cup semantic \cup inverted

\* On SQLite the row of a version says the audience of every passage of it.
RowSpeaksForAll == \A r \in Stored : document[r.version] = r.audience

\* What the indexer has cleared stays clear, until it writes passages of its own.
Clears ==
  (Busy("indexer") /\ I.kind = "index" /\ ~I.errors) =>
    /\ I.at \in {"keyword", "parents"} => Of(semantic, I.versions) = {}
    /\ I.at = "parents" => Of(inverted, I.versions) = {}
OnlyItsOwn ==
  (Busy("indexer") /\ I.at \in Additions) =>
    \A r \in Of(Stored, I.versions) : r.audience = I.audience

AudienceInv == RagTypeInv /\ (OnSqlite => RowSpeaksForAll /\ Clears /\ OnlyItsOwn)

LEMMA NoTaskIsOne ==
  /\ NoTask \in RagTasks /\ NoTask.kind = "none" /\ NoTask.result = "none"
  /\ NoTask.at = "start" /\ NoTask.errors = FALSE
BY DEF NoTask, RagTasks, Deletions, Additions

LEMMA AudienceInitial == RagInit => AudienceInv
<1> SUFFICES ASSUME RagInit PROVE AudienceInv
  OBVIOUS
<1>1. /\ deployment \in {"sqlite", "servers"} /\ document = [v \in Versions |-> "none"]
      /\ parents = {} /\ semantic = {} /\ inverted = {}
      /\ task = [a \in {"indexer", "desk"} |-> NoTask]
  BY DEF RagInit
<1>2. task["indexer"] = NoTask /\ task \in [{"indexer", "desk"} -> RagTasks]
  BY <1>1, NoTaskIsOne
<1>3. ~Busy("indexer") /\ I.kind # "index"
  BY <1>2, NoTaskIsOne DEF Busy, I
<1> QED
  BY <1>1, <1>2, <1>3 DEF AudienceInv, RagTypeInv, RowSpeaksForAll, Stored, Clears, OnlyItsOwn

\* What a task is made into keeps its shape, and the rest of it.
LEMMA TaskAlone ==
  ASSUME NEW t \in RagTasks, NEW b \in BOOLEAN, NEW u, u = [t EXCEPT !.alone = b]
  PROVE  /\ u \in RagTasks /\ u.kind = t.kind /\ u.at = t.at
         /\ u.versions = t.versions /\ u.audience = t.audience
         /\ u.pieces = t.pieces /\ u.errors = t.errors /\ u.result = t.result
BY DEF RagTasks
LEMMA TaskMoves ==
  ASSUME NEW t \in RagTasks, NEW at \in Deletions \cup Additions, NEW u, u = [t EXCEPT !.at = at]
  PROVE  /\ u \in RagTasks /\ u.kind = t.kind /\ u.at = at
         /\ u.versions = t.versions /\ u.audience = t.audience
         /\ u.pieces = t.pieces /\ u.errors = t.errors /\ u.result = t.result
BY DEF RagTasks
LEMMA TaskUndoes ==
  ASSUME NEW t \in RagTasks, NEW u, u = [t EXCEPT !.kind = "undo", !.at = "semantic"]
  PROVE  u \in RagTasks /\ u.kind = "undo" /\ u.at = "semantic"
BY DEF RagTasks, Deletions
\* Passages only leave, and the rows of versions without any are cleaned up.
LEMMA PassagesLeave ==
  ASSUME RowSpeaksForAll, RagTypeInv, Stored' \subseteq Stored,
         NEW vs,
         \/ document' = document
         \/ document' = [v \in Versions |->
               IF v \in vs /\ Of(Stored', {v}) = {} THEN "none" ELSE document[v]]
  PROVE  RowSpeaksForAll'
<1> SUFFICES ASSUME NEW r \in Stored' PROVE document'[r.version] = r.audience
  BY DEF RowSpeaksForAll
<1>1. r \in Stored /\ document[r.version] = r.audience /\ r.version \in Versions
  BY DEF RowSpeaksForAll, RagTypeInv, Stored, RagRows
<1>2. r \in Of(Stored', {r.version})
  BY DEF Of
<1> QED
  BY <1>1, <1>2

\* The desk at work: the indexer is where it was, and passages only leave.
LEMMA IndexerWaits ==
  ASSUME Clears, OnlyItsOwn, Stored' \subseteq Stored, semantic' \subseteq semantic,
         inverted' \subseteq inverted,
         \/ /\ I'.kind = I.kind /\ I'.at = I.at /\ I'.versions = I.versions
            /\ I'.audience = I.audience /\ I'.errors = I.errors /\ I'.result = I.result
         \/ I'.kind = "none"
         \/ I'.result # "none"
  PROVE  Clears' /\ OnlyItsOwn'
BY DEF Clears, OnlyItsOwn, Busy, I, Of

\* What a task becomes that has run one of its deletions.
LEMMA AfterDeleteIs ==
  ASSUME NEW a \in {"indexer", "desk"}, NEW side \in Deletions, AfterDelete(a, side),
         task \in [{"indexer", "desk"} -> RagTasks], Busy(a)
  PROVE  /\ task' \in [{"indexer", "desk"} -> RagTasks]
         /\ \A b \in {"indexer", "desk"} \ {a} : task'[b] = task[b]
         /\ task'[a].kind = task[a].kind /\ task'[a].audience = task[a].audience
         /\ \/ task'[a].result # "none"
            \/ /\ task'[a].versions = task[a].versions /\ task'[a].errors = task[a].errors
               /\ \/ side = "semantic" /\ task'[a].at = "keyword"
                  \/ side = "keyword" /\ task'[a].at = "parents"
                  \/ /\ side = "parents" /\ task'[a].at = "add parents"
                     /\ ~task[a].errors /\ task[a].kind \notin {"delete", "undo"}
<1>t. task[a] \in RagTasks
  OBVIOUS
<1>1. ASSUME NEW at \in Deletions \cup Additions, Step(a, at)
      PROVE  /\ task' \in [{"indexer", "desk"} -> RagTasks]
             /\ \A b \in {"indexer", "desk"} \ {a} : task'[b] = task[b]
             /\ task'[a].kind = task[a].kind /\ task'[a].audience = task[a].audience
             /\ task'[a].versions = task[a].versions /\ task'[a].errors = task[a].errors
             /\ task'[a].at = at
  <2> DEFINE u == [task[a] EXCEPT !.at = at]
  <2>1. /\ u \in RagTasks /\ u.kind = task[a].kind /\ u.audience = task[a].audience
        /\ u.versions = task[a].versions /\ u.errors = task[a].errors /\ u.at = at
    BY <1>t, TaskMoves
  <2>2. task' = [task EXCEPT ![a] = u]
    BY <1>1 DEF Step
  <2> HIDE DEF u
  <2> QED
    BY <2>1, <2>2
<1>2. ASSUME NEW result \in {"failed", "deleted"}, Ends(a, result)
      PROVE  /\ task' \in [{"indexer", "desk"} -> RagTasks]
             /\ \A b \in {"indexer", "desk"} \ {a} : task'[b] = task[b]
             /\ task'[a].kind = task[a].kind /\ task'[a].audience = task[a].audience
             /\ task'[a].result # "none"
  <2> DEFINE u == [task[a] EXCEPT !.at = "end", !.result = result]
  <2>0. result \in {"indexed", "deleted", "failed", "crashed"}
    OBVIOUS
  <2>1. /\ u \in RagTasks /\ u.kind = task[a].kind /\ u.audience = task[a].audience
        /\ u.result = result
    BY <1>t, <2>0 DEF RagTasks
  <2>2. task' = [task EXCEPT ![a] = u]
    BY <1>2 DEF Ends
  <2> HIDE DEF u
  <2> QED
    BY <2>1, <2>2
<1>3. CASE side = "semantic"
  BY <1>1, <1>3 DEF AfterDelete, Deletions, Additions
<1>4. CASE side = "keyword"
  BY <1>1, <1>4 DEF AfterDelete, Deletions, Additions
<1>5. CASE side = "parents"
  <2>1. \/ Ends(a, "failed") \/ Ends(a, "deleted")
        \/ Step(a, "add parents") /\ ~task[a].errors /\ task[a].kind \notin {"delete", "undo"}
    BY <1>5 DEF AfterDelete
  <2> QED
    BY <1>1, <1>2, <1>5, <2>1 DEF Additions
<1> QED
  BY <1>3, <1>4, <1>5 DEF Deletions

\* A deletion by either task, from one of the three stores.
LEMMA DeletionKeepsAudience ==
  ASSUME AudienceInv, deployment' = deployment,
         NEW a \in {"indexer", "desk"}, NEW side \in Deletions, Busy(a), task[a].at = side,
         AfterDelete(a, side),
         parents' \subseteq parents, semantic' \subseteq semantic, inverted' \subseteq inverted,
         side = "semantic" => Of(semantic', task[a].versions) = {},
         side = "keyword" => Of(inverted', task[a].versions) = {},
         side = "parents" => Of(parents', task[a].versions) = {},
         NEW vs, ~OnSqlite => document' = document,
         \/ document' = document
         \/ document' = [v \in Versions |->
               IF v \in vs /\ Of(Stored', {v}) = {} THEN "none" ELSE document[v]]
  PROVE  AudienceInv'
<1>1. RagTypeInv /\ task \in [{"indexer", "desk"} -> RagTasks]
  BY DEF AudienceInv, RagTypeInv
<1>2. /\ task' \in [{"indexer", "desk"} -> RagTasks]
      /\ \A b \in {"indexer", "desk"} \ {a} : task'[b] = task[b]
      /\ task'[a].kind = task[a].kind /\ task'[a].audience = task[a].audience
      /\ \/ task'[a].result # "none"
         \/ /\ task'[a].versions = task[a].versions /\ task'[a].errors = task[a].errors
            /\ \/ side = "semantic" /\ task'[a].at = "keyword"
               \/ side = "keyword" /\ task'[a].at = "parents"
               \/ /\ side = "parents" /\ task'[a].at = "add parents"
                  /\ ~task[a].errors /\ task[a].kind \notin {"delete", "undo"}
  BY <1>1, AfterDeleteIs
<1>3. Stored' \subseteq Stored
  BY DEF Stored
<1>4. \/ a = "desk" /\ I' = I
      \/ a = "indexer" /\ I'.kind = I.kind /\ I'.audience = I.audience
  BY <1>2 DEF I
<1>5. RagTypeInv'
  <2>1. document' \in [Versions -> Audiences \cup {"none"}]
    BY <1>1 DEF RagTypeInv
  <2>2. parents' \subseteq RagRows /\ semantic' \subseteq RagRows /\ inverted' \subseteq RagRows
    BY <1>1 DEF RagTypeInv
  <2>3. I'.kind = "index" => I'.audience \in Audiences
    BY <1>1, <1>4 DEF RagTypeInv
  <2>4. ASSUME Busy("indexer")', I'.at \in Additions PROVE I'.kind = "index"
    <3>1. CASE a = "desk"
      BY <1>1, <1>4, <2>4, <3>1 DEF RagTypeInv, Busy, I
    <3>2. CASE a = "indexer"
      <4>1. task'[a].result = "none" /\ task'[a] = I' /\ task[a] = I
        BY <2>4, <3>2 DEF Busy, I
      <4>2. I.kind \notin {"delete", "undo"} /\ I.kind # "none" /\ I.kind \in {"none", "index", "delete", "undo"}
        BY <1>1, <1>2, <2>4, <3>2, <4>1 DEF Additions, Busy, RagTasks
      <4> QED
        BY <1>4, <3>2, <4>2
    <3> QED
      BY <3>1, <3>2
  <2>5. deployment' \in {"sqlite", "servers"}
    BY <1>1 DEF RagTypeInv
  <2> QED
    BY <1>2, <2>1, <2>2, <2>3, <2>4, <2>5 DEF RagTypeInv
<1>6. ASSUME OnSqlite PROVE RowSpeaksForAll' /\ Clears' /\ OnlyItsOwn'
  <2>1. RowSpeaksForAll /\ Clears /\ OnlyItsOwn
    BY <1>6 DEF AudienceInv
  <2>2. RowSpeaksForAll'
    BY <1>1, <1>3, <2>1, PassagesLeave
  <2>3. CASE a = "desk"
    BY <1>3, <1>4, <2>1, <2>2, <2>3, IndexerWaits
  <2>4. CASE a = "indexer" /\ I'.result # "none"
    BY <1>3, <2>1, <2>2, <2>4, IndexerWaits
  <2>5. CASE a = "indexer" /\ I'.result = "none"
    <3>1. /\ I'.versions = I.versions /\ I'.errors = I.errors /\ I'.kind = I.kind
          /\ I.at = side /\ I.kind # "none"
          /\ \/ side = "semantic" /\ I'.at = "keyword"
             \/ side = "keyword" /\ I'.at = "parents"
             \/ /\ side = "parents" /\ I'.at = "add parents"
                /\ ~I.errors /\ I.kind \notin {"delete", "undo"}
      BY <1>2, <2>5 DEF I, Busy
    <3>2. /\ side = "semantic" => Of(semantic', I.versions) = {}
          /\ side = "keyword" => Of(inverted', I.versions) = {}
          /\ side = "parents" => Of(parents', I.versions) = {}
      BY <2>5 DEF I
    <3>3. /\ Of(semantic', I.versions) \subseteq Of(semantic, I.versions)
          /\ Of(inverted', I.versions) \subseteq Of(inverted, I.versions)
      BY DEF Of
    <3>c. Busy("indexer")
      BY <2>5
    <3>4. Clears'
      BY <2>1, <3>1, <3>2, <3>3, <3>c DEF Clears, Deletions
    <3>5. OnlyItsOwn'
      <4>1. CASE side \in {"semantic", "keyword"}
        BY <3>1, <4>1 DEF OnlyItsOwn, Additions
      <4>2. CASE side = "parents"
        <5>1. I.kind = "index"
          BY <1>1, <3>1, <4>2 DEF RagTasks, I
        <5>2. Of(semantic, I.versions) = {} /\ Of(inverted, I.versions) = {}
          BY <2>1, <3>1, <3>c, <4>2, <5>1 DEF Clears
        <5>3. Of(Stored', I.versions) = {}
          BY <3>2, <3>3, <4>2, <5>2 DEF Of, Stored
        <5> QED
          BY <3>1, <5>3 DEF OnlyItsOwn
      <4> QED
        BY <4>1, <4>2 DEF Deletions
    <3> QED
      BY <2>2, <3>4, <3>5
  <2> QED
    BY <2>3, <2>4, <2>5
<1> QED
  BY <1>5, <1>6 DEF AudienceInv, OnSqlite

\* The indexer's passages, written to one store after another.
LEMMA PreparedAreItsOwn ==
  ASSUME RagTypeInv, Busy("indexer"), I.at \in Additions
  PROVE  /\ PreparedRows \subseteq RagRows
         /\ \A r \in PreparedRows : r.version \in I.versions /\ r.audience = I.audience
         /\ I.kind = "index" /\ I.audience \in Audiences /\ I \in RagTasks
<1>1. I.kind = "index" /\ I.audience \in Audiences /\ I \in RagTasks
  BY DEF RagTypeInv, I
<1>2. I.versions \subseteq Versions /\ I.pieces \subseteq Pieces
  BY <1>1 DEF RagTasks
<1>3. \A v \in I.versions, p \in I.pieces :
        /\ RagRow(v, p, I.audience) \in RagRows
        /\ RagRow(v, p, I.audience).version = v /\ RagRow(v, p, I.audience).audience = I.audience
  BY <1>1, <1>2 DEF RagRow, RagRows
<1> QED
  BY <1>1, <1>3 DEF PreparedRows

LEMMA AdditionKeepsAudience ==
  ASSUME AudienceInv, deployment' = deployment, Busy("indexer"), I.at \in Additions,
         document' = Described,
         \/ parents' = Upserted(parents, PreparedRows) \/ parents' = parents,
         \/ semantic' = Upserted(semantic, PreparedRows) \/ semantic' = semantic,
         \/ inverted' = Upserted(inverted, PreparedRows) \/ inverted' = inverted,
         task' \in [{"indexer", "desk"} -> RagTasks],
         I'.kind = I.kind, I'.audience = I.audience,
         \/ I'.result # "none"
         \/ I'.at \in Additions /\ I'.versions = I.versions
  PROVE  AudienceInv'
<1>1. /\ RagTypeInv /\ PreparedRows \subseteq RagRows
      /\ \A r \in PreparedRows : r.version \in I.versions /\ r.audience = I.audience
      /\ I.kind = "index" /\ I.audience \in Audiences /\ I \in RagTasks
  BY PreparedAreItsOwn DEF AudienceInv
<1>2. \A r \in Stored' : r \in Stored \/ r \in PreparedRows
  BY DEF Stored, Upserted
<1>3. RagTypeInv'
  <2>1. document' \in [Versions -> Audiences \cup {"none"}]
    BY <1>1 DEF RagTypeInv, Described
  <2>2. parents' \subseteq RagRows /\ semantic' \subseteq RagRows /\ inverted' \subseteq RagRows
    BY <1>1 DEF RagTypeInv, Upserted
  <2> QED
    BY <1>1, <2>1, <2>2 DEF RagTypeInv
<1>4. ASSUME OnSqlite PROVE RowSpeaksForAll' /\ Clears' /\ OnlyItsOwn'
  <2>1. RowSpeaksForAll /\ OnlyItsOwn
    BY <1>4 DEF AudienceInv
  <2>2. \A r \in Stored : r.version \in I.versions => r.audience = I.audience
    BY <2>1 DEF OnlyItsOwn, Of
  <2>3. \A r \in Stored' : r.version \in I.versions => r.audience = I.audience
    BY <1>1, <1>2, <2>2
  <2>4. \A r \in Stored' : r.version \in Versions
    BY <1>3 DEF RagTypeInv, Stored, RagRows
  <2>5. \A v \in Versions : document'[v] = IF v \in I.versions THEN I.audience ELSE document[v]
    BY <1>4 DEF Described
  <2>6. RowSpeaksForAll'
    <3> SUFFICES ASSUME NEW r \in Stored' PROVE document'[r.version] = r.audience
      BY DEF RowSpeaksForAll
    <3>1. CASE r.version \in I.versions
      BY <2>3, <2>4, <2>5, <3>1
    <3>2. CASE r.version \notin I.versions
      <4>1. r \in Stored
        BY <1>1, <1>2, <3>2
      <4> QED
        BY <2>1, <2>4, <2>5, <3>2, <4>1 DEF RowSpeaksForAll
    <3> QED
      BY <3>1, <3>2
  <2>7. Clears'
    BY DEF Clears, Busy, I, Additions
  <2>8. OnlyItsOwn'
    BY <2>3 DEF OnlyItsOwn, Busy, I, Of
  <2> QED
    BY <2>6, <2>7, <2>8
<1> QED
  BY <1>3, <1>4 DEF AudienceInv, OnSqlite

LEMMA AudienceStep == ASSUME AudienceInv, [RagNext]_ragVars PROVE AudienceInv'
<1>t. /\ RagTypeInv /\ task \in [{"indexer", "desk"} -> RagTasks] /\ DOMAIN task = {"indexer", "desk"}
      /\ I = task["indexer"] /\ I \in RagTasks /\ I' = task'["indexer"]
  BY DEF AudienceInv, RagTypeInv, I
\* A task begins: nothing is stored, and the other task is remembered while it runs.
<1>b. ASSUME NEW a \in {"indexer", "desk"}, NEW t \in RagTasks, Begin(a, t),
             UNCHANGED <<deployment, document, parents, semantic, inverted>>,
             a = "indexer" => t.at = "semantic" /\ (t.kind = "index" => t.audience \in Audiences)
      PROVE  AudienceInv'
  <2>1. \A c \in {"indexer", "desk"} : \A alone \in BOOLEAN :
          [task[c] EXCEPT !.alone = alone] \in RagTasks
    BY <1>t, TaskAlone
  <2>2. \A alone \in BOOLEAN : [t EXCEPT !.alone = alone] \in RagTasks
    BY TaskAlone
  <2>3. task' \in [{"indexer", "desk"} -> RagTasks]
    BY <1>b, <1>t, <2>1, <2>2, NoTaskIsOne DEF Begin
  <2>4. CASE a = "indexer"
    <3>1. PICK alone \in BOOLEAN : I' = [t EXCEPT !.alone = alone]
      BY <1>b, <1>t, <2>4 DEF Begin
    <3>2. I'.at = "semantic" /\ I'.kind = t.kind /\ I'.audience = t.audience
      BY <1>b, <2>4, <3>1, TaskAlone
    <3>3. RagTypeInv'
      BY <1>b, <1>t, <2>3, <2>4, <3>2 DEF RagTypeInv, Additions
    <3> QED
      BY <1>b, <3>2, <3>3
         DEF AudienceInv, OnSqlite, RowSpeaksForAll, Stored, Clears, OnlyItsOwn, Additions
  <2>5. CASE a = "desk"
    <3>1. \/ I' = [I EXCEPT !.alone = FALSE]
          \/ I' = NoTask
      BY <1>b, <1>t, <2>5 DEF Begin
    <3>2. \/ /\ I'.kind = I.kind /\ I'.at = I.at /\ I'.versions = I.versions
             /\ I'.audience = I.audience /\ I'.errors = I.errors /\ I'.result = I.result
          \/ I'.kind = "none"
      BY <1>t, <3>1, NoTaskIsOne DEF RagTasks
    <3>3. RagTypeInv'
      BY <1>b, <1>t, <2>3, <3>2 DEF RagTypeInv, Busy
    <3>4. ASSUME OnSqlite PROVE RowSpeaksForAll' /\ Clears' /\ OnlyItsOwn'
      <4>1. RowSpeaksForAll /\ Clears /\ OnlyItsOwn
        BY <3>4 DEF AudienceInv
      <4>2. Stored' = Stored /\ semantic' = semantic /\ inverted' = inverted /\ document' = document
        BY <1>b DEF Stored
      <4> QED
        BY <3>2, <4>1, <4>2, IndexerWaits DEF RowSpeaksForAll
    <3> QED
      BY <1>b, <3>3, <3>4 DEF AudienceInv, OnSqlite
  <2> QED
    BY <2>4, <2>5
<1>1. ASSUME NEW v \in Versions, NEW audience \in Audiences, NEW given \in SUBSET Pieces \ {{}},
             BeginIndex(v, audience, given)
      PROVE  AudienceInv'
  <2> DEFINE t == [NoTask EXCEPT !.kind = "index", !.at = "semantic", !.versions = {v},
                                 !.audience = audience, !.pieces = given]
  <2>1. t \in RagTasks /\ t.at = "semantic" /\ t.audience = audience
    BY DEF NoTask, RagTasks, Deletions
  <2>2. Begin("indexer", t) /\ UNCHANGED <<deployment, document, parents, semantic, inverted>>
    BY <1>1 DEF BeginIndex
  <2> HIDE DEF t
  <2> QED
    BY <1>b, <2>1, <2>2
<1>2. CASE BeginDelete
  <2> DEFINE t == [NoTask EXCEPT !.kind = "delete", !.at = "semantic", !.versions = Versions]
  <2>1. t \in RagTasks
    BY DEF NoTask, RagTasks, Deletions
  <2>2. Begin("desk", t) /\ UNCHANGED <<deployment, document, parents, semantic, inverted>>
    BY <1>2 DEF BeginDelete
  <2> HIDE DEF t
  <2> QED
    BY <1>b, <2>1, <2>2
<1>3. ASSUME NEW a \in {"indexer", "desk"}, DeleteSemantic(a) PROVE AudienceInv'
  <2>1. /\ deployment' = deployment /\ Busy(a) /\ task[a].at = "semantic" /\ AfterDelete(a, "semantic")
        /\ semantic' = semantic \ Of(semantic, task[a].versions)
        /\ parents' = parents /\ inverted' = inverted
        /\ document' = IF OnSqlite THEN Cleaned(task[a].versions, parents, semantic', inverted)
                                   ELSE document
    BY <1>3 DEF DeleteSemantic, TaskAt
  <2>2. Of(semantic', task[a].versions) = {}
    BY <2>1 DEF Of
  <2>3. ~OnSqlite => document' = document
    BY <2>1
  <2>4. \/ document' = document
        \/ document' = [v \in Versions |->
              IF v \in task[a].versions /\ Of(Stored', {v}) = {} THEN "none" ELSE document[v]]
    BY <2>1 DEF Cleaned, Stored
  <2>5. "semantic" \in Deletions
    BY DEF Deletions
  <2> QED
    BY <2>1, <2>2, <2>3, <2>4, <2>5, DeletionKeepsAudience
<1>4. ASSUME NEW a \in {"indexer", "desk"}, DeleteKeyword(a) PROVE AudienceInv'
  <2>1. /\ deployment' = deployment /\ Busy(a) /\ task[a].at = "keyword" /\ AfterDelete(a, "keyword")
        /\ inverted' = inverted \ Of(inverted, task[a].versions)
        /\ parents' = parents /\ semantic' = semantic
        /\ document' = IF OnSqlite THEN Cleaned(task[a].versions, parents, semantic, inverted')
                                   ELSE document
    BY <1>4 DEF DeleteKeyword, TaskAt
  <2>2. Of(inverted', task[a].versions) = {}
    BY <2>1 DEF Of
  <2>3. ~OnSqlite => document' = document
    BY <2>1
  <2>4. \/ document' = document
        \/ document' = [v \in Versions |->
              IF v \in task[a].versions /\ Of(Stored', {v}) = {} THEN "none" ELSE document[v]]
    BY <2>1 DEF Cleaned, Stored
  <2>5. "keyword" \in Deletions
    BY DEF Deletions
  <2> QED
    BY <2>1, <2>2, <2>3, <2>4, <2>5, DeletionKeepsAudience
<1>5. ASSUME NEW a \in {"indexer", "desk"}, DeleteParents(a) PROVE AudienceInv'
  <2> DEFINE cleaned == task[a].versions \cap
                          (IF task[a].kind = "delete" THEN {r.version : r \in parents}
                                                      ELSE task[a].versions)
  <2>1. /\ deployment' = deployment /\ Busy(a) /\ task[a].at = "parents" /\ AfterDelete(a, "parents")
        /\ parents' = parents \ Of(parents, task[a].versions)
        /\ semantic' = semantic /\ inverted' = inverted
        /\ document' = IF OnSqlite THEN Cleaned(cleaned, parents', semantic, inverted) ELSE document
    BY <1>5 DEF DeleteParents, TaskAt
  <2> HIDE DEF cleaned
  <2>2. Of(parents', task[a].versions) = {}
    BY <2>1 DEF Of
  <2>3. ~OnSqlite => document' = document
    BY <2>1
  <2>4. \/ document' = document
        \/ document' = [v \in Versions |->
              IF v \in cleaned /\ Of(Stored', {v}) = {} THEN "none" ELSE document[v]]
    BY <2>1 DEF Cleaned, Stored
  <2>5. "parents" \in Deletions
    BY DEF Deletions
  <2> QED
    BY <2>1, <2>2, <2>3, <2>4, <2>5, DeletionKeepsAudience
<1>6. ASSUME NEW a \in {"indexer", "desk"}, NEW side \in Stores, DeleteFails(a, side)
      PROVE  AudienceInv'
  <2> DEFINE at == CASE side = "semantic" -> "keyword" [] side = "keyword" -> "parents"
                     [] OTHER -> "end"
             result == IF side = "parents" THEN "failed" ELSE task[a].result
             u == [task[a] EXCEPT !.errors = TRUE, !.at = at, !.result = result]
  <2>1. at \in {"keyword", "parents", "end"} /\ result \in {task[a].result, "failed"}
    BY DEF Stores
  <2>2. task' = [task EXCEPT ![a] = u]
    BY <1>6, <1>t DEF DeleteFails
  <2> HIDE DEF at, result
  <2>a. task[a] \in RagTasks
    BY <1>t
  <2>3. u \in RagTasks /\ u.kind = task[a].kind /\ u.audience = task[a].audience /\ u.errors = TRUE
        /\ u.at = at /\ u.result = result
    BY <2>a, <2>1 DEF RagTasks, Deletions
  <2> HIDE DEF u
  <2>4. /\ task' \in [{"indexer", "desk"} -> RagTasks] /\ task'[a] = u
        /\ \A b \in {"indexer", "desk"} \ {a} : task'[b] = task[b]
    BY <1>t, <2>2, <2>3
  <2>5. /\ deployment' = deployment /\ document' = document /\ parents' = parents
        /\ semantic' \subseteq semantic /\ inverted' \subseteq inverted
    BY <1>6 DEF DeleteFails
  <2>6. RagTypeInv'
    BY <1>t, <2>1, <2>3, <2>4, <2>5 DEF RagTypeInv, Busy, Additions
  <2>7. ASSUME OnSqlite PROVE RowSpeaksForAll' /\ Clears' /\ OnlyItsOwn'
    <3>1. RowSpeaksForAll /\ Clears /\ OnlyItsOwn
      BY <2>7 DEF AudienceInv
    <3>2. RowSpeaksForAll' /\ Stored' \subseteq Stored
      BY <2>5, <3>1 DEF RowSpeaksForAll, Stored
    <3>3. CASE a = "indexer"
      BY <2>1, <2>3, <2>4, <3>2, <3>3 DEF Clears, OnlyItsOwn, Additions, I
    <3>4. CASE a = "desk"
      BY <1>t, <2>4, <2>5, <3>1, <3>2, <3>4, IndexerWaits
    <3> QED
      BY <3>3, <3>4
  <2> QED
    BY <2>5, <2>6, <2>7 DEF AudienceInv, OnSqlite
<1>7. CASE AddParents
  <2>1. /\ Busy("indexer") /\ I.at = "add parents" /\ deployment' = deployment /\ document' = Described
        /\ parents' = Upserted(parents, PreparedRows) /\ semantic' = semantic /\ inverted' = inverted
        /\ task' = [task EXCEPT !["indexer"].at = "add semantic"]
    BY <1>7, <1>t DEF AddParents, TaskAt, Step
  <2> DEFINE u == [I EXCEPT !.at = "add semantic"]
  <2>2. "add semantic" \in Deletions \cup Additions /\ "add semantic" \in Additions /\ I.at \in Additions
    BY <2>1 DEF Additions
  <2>3. u \in RagTasks /\ u.kind = I.kind /\ u.audience = I.audience /\ u.at = "add semantic"
        /\ u.versions = I.versions
    BY <1>t, <2>2 DEF RagTasks
  <2>4. task' = [task EXCEPT !["indexer"] = u]
    BY <1>t, <2>1
  <2> HIDE DEF u
  <2>5. task' \in [{"indexer", "desk"} -> RagTasks] /\ I' = u
    BY <1>t, <2>3, <2>4
  <2> QED
    BY <2>1, <2>2, <2>3, <2>5, AdditionKeepsAudience
<1>8. CASE AddSemantic
  <2>1. /\ Busy("indexer") /\ I.at = "add semantic" /\ deployment' = deployment /\ document' = Described
        /\ semantic' = Upserted(semantic, PreparedRows) /\ parents' = parents /\ inverted' = inverted
        /\ task' = [task EXCEPT !["indexer"].at = "add keyword"]
    BY <1>8, <1>t DEF AddSemantic, TaskAt, Step
  <2> DEFINE u == [I EXCEPT !.at = "add keyword"]
  <2>2. "add keyword" \in Deletions \cup Additions /\ "add keyword" \in Additions /\ I.at \in Additions
    BY <2>1 DEF Additions
  <2>3. u \in RagTasks /\ u.kind = I.kind /\ u.audience = I.audience /\ u.at = "add keyword"
        /\ u.versions = I.versions
    BY <1>t, <2>2 DEF RagTasks
  <2>4. task' = [task EXCEPT !["indexer"] = u]
    BY <1>t, <2>1
  <2> HIDE DEF u
  <2>5. task' \in [{"indexer", "desk"} -> RagTasks] /\ I' = u
    BY <1>t, <2>3, <2>4
  <2> QED
    BY <2>1, <2>2, <2>3, <2>5, AdditionKeepsAudience
<1>9. CASE AddKeyword
  <2>1. /\ Busy("indexer") /\ I.at = "add keyword" /\ deployment' = deployment /\ document' = Described
        /\ inverted' = Upserted(inverted, PreparedRows) /\ parents' = parents /\ semantic' = semantic
        /\ task' = [task EXCEPT !["indexer"].at = "end", !["indexer"].result = "indexed"]
    BY <1>9, <1>t DEF AddKeyword, TaskAt, Ends
  <2> DEFINE u == [I EXCEPT !.at = "end", !.result = "indexed"]
  <2>2. I.at \in Additions
    BY <2>1 DEF Additions
  <2>3. u \in RagTasks /\ u.kind = I.kind /\ u.audience = I.audience /\ u.result = "indexed"
    BY <1>t DEF RagTasks
  <2>4. task' = [task EXCEPT !["indexer"] = u]
    BY <1>t, <2>1
  <2> HIDE DEF u
  <2>5. task' \in [{"indexer", "desk"} -> RagTasks] /\ I' = u
    BY <1>t, <2>3, <2>4
  <2> QED
    BY <2>1, <2>2, <2>3, <2>5, AdditionKeepsAudience
<1>10. CASE AddFails
  <2>1. /\ Busy("indexer") /\ I.at \in Additions /\ deployment' = deployment /\ document' = document
        /\ parents' = parents
        /\ \/ semantic' = semantic
           \/ \E part \in AnyOrAll(PreparedRows) : semantic' = Upserted(semantic, part)
        /\ \/ inverted' = inverted
           \/ \E part \in AnyOrAll(PreparedRows) : inverted' = Upserted(inverted, part)
        /\ task' = [task EXCEPT !["indexer"].kind = "undo", !["indexer"].at = "semantic"]
    BY <1>10, <1>t DEF AddFails, Additions
  <2> DEFINE u == [I EXCEPT !.kind = "undo", !.at = "semantic"]
  <2>2. u \in RagTasks /\ u.kind = "undo" /\ u.at = "semantic"
    BY <1>t, TaskUndoes
  <2>3. task' = [task EXCEPT !["indexer"] = u]
    BY <1>t, <2>1
  <2> HIDE DEF u
  <2>4. task' \in [{"indexer", "desk"} -> RagTasks] /\ I' = u
    BY <1>t, <2>2, <2>3
  <2>5. PreparedRows \subseteq RagRows
    BY <1>t, <2>1, PreparedAreItsOwn
  <2>6. semantic' \subseteq RagRows /\ inverted' \subseteq RagRows
    BY <1>t, <2>1, <2>5 DEF RagTypeInv, AnyOrAll, Upserted
  <2>7. RagTypeInv'
    BY <1>t, <2>1, <2>2, <2>4, <2>6 DEF RagTypeInv, Additions
  <2>8. ASSUME OnSqlite PROVE RowSpeaksForAll' /\ Clears' /\ OnlyItsOwn'
    <3>1. semantic' = semantic /\ inverted' = inverted
      BY <2>1, <2>8 DEF AnyOrAll, Upserted
    <3>2. RowSpeaksForAll'
      BY <2>1, <2>8, <3>1 DEF AudienceInv, RowSpeaksForAll, Stored
    <3> QED
      BY <2>2, <2>4, <3>2 DEF Clears, OnlyItsOwn, Additions
  <2> QED
    BY <2>1, <2>7, <2>8 DEF AudienceInv, OnSqlite
<1>11. ASSUME NEW a \in {"indexer", "desk"}, IndexCrash(a) PROVE AudienceInv'
  <2>1. /\ deployment' = deployment /\ document' = document /\ parents' = parents
        /\ semantic' = semantic /\ inverted' = inverted
        /\ task' = [task EXCEPT ![a].at = "end", ![a].result = "crashed"]
    BY <1>11 DEF IndexCrash, Ends
  <2> DEFINE u == [task[a] EXCEPT !.at = "end", !.result = "crashed"]
  <2>a. task[a] \in RagTasks
    BY <1>t
  <2>2. u \in RagTasks /\ u.kind = task[a].kind /\ u.audience = task[a].audience
        /\ u.result = "crashed"
    BY <2>a DEF RagTasks
  <2>3. task' = [task EXCEPT ![a] = u]
    BY <1>t, <2>1
  <2> HIDE DEF u
  <2>4. /\ task' \in [{"indexer", "desk"} -> RagTasks] /\ task'[a] = u
        /\ \A b \in {"indexer", "desk"} \ {a} : task'[b] = task[b]
    BY <1>t, <2>2, <2>3
  <2>5. \/ I' = I
        \/ I'.result # "none" /\ I'.kind = I.kind /\ I'.audience = I.audience
    BY <1>t, <2>2, <2>4
  <2>6. RagTypeInv'
    BY <1>t, <2>1, <2>4, <2>5 DEF RagTypeInv, Busy
  <2>7. ASSUME OnSqlite PROVE RowSpeaksForAll' /\ Clears' /\ OnlyItsOwn'
    <3>1. RowSpeaksForAll /\ Clears /\ OnlyItsOwn
      BY <2>7 DEF AudienceInv
    <3>2. Stored' = Stored /\ RowSpeaksForAll'
      BY <2>1, <3>1 DEF RowSpeaksForAll, Stored
    <3> QED
      BY <2>1, <2>5, <3>1, <3>2, IndexerWaits
  <2> QED
    BY <2>1, <2>6, <2>7 DEF AudienceInv, OnSqlite
<1>12. CASE Backfill \/ UNCHANGED ragVars
  <2>1. UNCHANGED <<deployment, document, parents, semantic, inverted, task>>
    BY <1>12 DEF Backfill, ragVars
  <2> QED
    BY <2>1 DEF AudienceInv, RagTypeInv, OnSqlite, RowSpeaksForAll, Clears, OnlyItsOwn, Stored,
                Busy, I, Of
<1> QED
  BY <1>1, <1>2, <1>3, <1>4, <1>5, <1>6, <1>7, <1>8, <1>9, <1>10, <1>11, <1>12 DEF RagNext

\* Whatever stores the passages are in, and whichever calls fail in whatever
\* order, no passage is found by customers that was not prepared for them
\* (index_prepared, delete_by_document, SqliteKnowledgeDatabase.visibility).
THEOREM PassagesKeepAudience == RagSpec => []AudienceKept
<1>1. AudienceInv => AudienceKept
  <2> SUFFICES ASSUME AudienceInv,
                      NEW r \in FindsSemantic \cup FindsKeyword \cup FindsParents
               PROVE  r.audience = Public
    BY DEF AudienceKept
  <2>1. r \in Stored /\ Tested(r) = Public
    BY DEF FindsSemantic, FindsKeyword, FindsParents, Stored
  <2> QED
    BY <2>1 DEF AudienceInv, RowSpeaksForAll, Tested
<1> QED
  BY <1>1, AudienceInitial, AudienceStep, PTL DEF RagSpec

-----------------------------------------------------------------------------
(* Retrieval. Induction over the naturals comes from the well-foundedness of <: *)
(* a set of naturals has a least element, so what holds at 0 and is kept from   *)
(* k - 1 to k holds everywhere, and a recursion over an interval has a solution.*)

\* Induction over data, from the well-foundedness of < on the naturals.
LEMMA LeastElement ==
  ASSUME NEW S, S \subseteq Nat, S # {}
  PROVE  \E m \in S : \A k \in S : m <= k
<1>1. PICK m \in S : \A k \in S : ~(<<k, m>> \in OpToRel(<, Nat))
  BY WFMin, NatLessThanWellFounded
<1>2. \A k \in S : ~(k < m)
  BY <1>1 DEF OpToRel
<1> QED
  BY <1>2

LEMMA UpFrom ==
  ASSUME NEW n \in Nat, NEW P, 0 \in P, \A k \in 1..n : k - 1 \in P => k \in P
  PROVE  \A k \in 0..n : k \in P
<1> DEFINE bad == {k \in 0..n : k \notin P}
<1>1. SUFFICES ASSUME bad # {} PROVE FALSE
  OBVIOUS
<1>2. bad \subseteq Nat
  OBVIOUS
<1>3. PICK m \in bad : \A k \in bad : m <= k
  <2> HIDE DEF bad
  <2> QED
    BY <1>1, <1>2, LeastElement
<1>4. m \in 1..n /\ m - 1 \in 0..n /\ m - 1 \notin bad
  BY <1>3
<1> QED
  BY <1>3, <1>4

\* A recursion over an interval has a solution.
Solves(f, m, S, base, step) ==
  f \in [0..m -> S] /\ f[0] = base /\ \A k \in 1..m : f[k] = step[k][f[k - 1]]

LEMMA RecursionHas ==
  ASSUME NEW S, NEW n \in Nat, NEW base \in S, NEW step \in [1..n -> [S -> S]]
  PROVE  \E f : Solves(f, n, S, base, step)
<1> DEFINE P == {m \in 0..n : \E f : Solves(f, m, S, base, step)}
<1>1. 0 \in P
  <2> DEFINE f == [k \in 0..0 |-> base]
  <2>1. f \in [0..0 -> S] /\ f[0] = base
    OBVIOUS
  <2>2. Solves(f, 0, S, base, step)
    BY <2>1 DEF Solves
  <2> QED
    BY <2>2
<1>2. ASSUME NEW m \in 1..n, m - 1 \in P PROVE m \in P
  <2>1. PICK f : Solves(f, m - 1, S, base, step)
    BY <1>2
  <2>2. f \in [0..m-1 -> S] /\ f[m - 1] \in S /\ step[m] \in [S -> S] /\ f[0] = base
    BY <2>1 DEF Solves
  <2> DEFINE g == [k \in 0..m |-> IF k = m THEN step[m][f[m - 1]] ELSE f[k]]
  <2>3. g \in [0..m -> S]
    BY <2>2
  <2>4. g[0] = base
    BY <2>2
  <2>5. ASSUME NEW k \in 1..m PROVE g[k] = step[k][g[k - 1]]
    <3>1. g[k - 1] = f[k - 1]
      OBVIOUS
    <3>2. CASE k = m
      BY <3>1, <3>2
    <3>3. CASE k # m
      <4>1. k \in 1..(m - 1) /\ g[k] = f[k]
        BY <3>3
      <4> QED
        BY <2>1, <3>1, <4>1 DEF Solves
    <3> QED
      BY <3>2, <3>3
  <2>6. Solves(g, m, S, base, step)
    BY <2>3, <2>4, <2>5 DEF Solves
  <2> QED
    BY <2>6
<1> HIDE DEF P
<1>3. \A k \in 0..n : k \in P
  BY <1>1, <1>2, UpFrom
<1> QED
  BY <1>3, n \in 0..n DEF P

Distinct(list) == \A i, j \in DOMAIN list : list[i] = list[j] => i = j

\* Those of S that R puts before y.
Before(S, R, y) == {x \in S \ {y} : <<x, y>> \in R}
StrictOrder(S, R) ==
  /\ \A x, y \in S : ~(<<x, y>> \in R /\ <<y, x>> \in R)
  /\ \A x, y \in S : x # y => <<x, y>> \in R \/ <<y, x>> \in R
  /\ \A x, y, z \in S : <<x, y>> \in R /\ <<y, z>> \in R => <<x, z>> \in R

LEMMA BeforeIsCounted ==
  ASSUME NEW S, IsFiniteSet(S), NEW R, NEW y \in S
  PROVE  IsFiniteSet(Before(S, R, y)) /\ Cardinality(Before(S, R, y)) \in 0..Cardinality(S) - 1
<1>1. IsFiniteSet(S \ {y}) /\ Cardinality(S \ {y}) = Cardinality(S) - 1 /\ Cardinality(S) \in Nat
  BY FS_RemoveElement, FS_CardinalityType
<1>2. Before(S, R, y) \in SUBSET (S \ {y})
  BY DEF Before
<1>3. IsFiniteSet(Before(S, R, y)) /\ Cardinality(Before(S, R, y)) <= Cardinality(S \ {y})
  BY <1>1, <1>2, FS_Subset
<1> QED
  BY <1>1, <1>3, FS_CardinalityType

LEMMA RanksGrow ==
  ASSUME NEW S, IsFiniteSet(S), NEW R, StrictOrder(S, R), NEW x \in S, NEW y \in S, <<x, y>> \in R
  PROVE  Cardinality(Before(S, R, x)) < Cardinality(Before(S, R, y))
<1>1. x \in Before(S, R, y) /\ x \notin Before(S, R, x)
  BY DEF Before, StrictOrder
<1>2. Before(S, R, x) \cup {x} \in SUBSET Before(S, R, y)
  BY <1>1 DEF Before, StrictOrder
<1>3. Cardinality(Before(S, R, x) \cup {x}) = Cardinality(Before(S, R, x)) + 1
  BY <1>1, BeforeIsCounted, FS_AddElement
<1>4. Cardinality(Before(S, R, x) \cup {x}) <= Cardinality(Before(S, R, y))
  BY <1>2, BeforeIsCounted, FS_Subset
<1> QED
  BY <1>3, <1>4, BeforeIsCounted

LEMMA EveryRankIsTaken ==
  ASSUME NEW S, IsFiniteSet(S), NEW R, StrictOrder(S, R), NEW i \in 1..Cardinality(S)
  PROVE  \E y \in S : Cardinality(Before(S, R, y)) = i - 1
<1>1. SUFFICES ASSUME \A y \in S : Cardinality(Before(S, R, y)) # i - 1 PROVE FALSE
  OBVIOUS
<1> DEFINE n == Cardinality(S)
           T == (0..n-1) \ {i - 1}
           f == [y \in S |-> Cardinality(Before(S, R, y))]
<1>2. n \in Nat
  BY FS_CardinalityType
<1>3. f \in [S -> T]
  BY <1>1, BeforeIsCounted
<1>4. IsFiniteSet(T) /\ Cardinality(T) = n - 1
  <2> DEFINE U == 0..n-1
  <2>1. n - 1 \in Int /\ n > 0 /\ 0 \in Int
    BY <1>2
  <2>2. IsFiniteSet(U) /\ Cardinality(U) = IF 0 > n - 1 THEN 0 ELSE (n - 1) - 0 + 1
    BY <2>1, FS_Interval
  <2>3. Cardinality(U) = n /\ i - 1 \in U
    BY <1>2, <2>1, <2>2
  <2> HIDE DEF U
  <2>4. IsFiniteSet(U \ {i - 1}) /\ Cardinality(U \ {i - 1}) = Cardinality(U) - 1
    BY <2>2, <2>3, FS_RemoveElement
  <2> QED
    BY <2>3, <2>4 DEF U
<1>5. PICK x \in S, y \in S : x # y /\ f[x] = f[y]
  <2>1. Cardinality(T) < Cardinality(S)
    BY <1>2, <1>4
  <2> HIDE DEF T, f
  <2> QED
    BY <1>3, <1>4, <2>1, FS_PigeonHole
<1>6. Cardinality(Before(S, R, x)) = Cardinality(Before(S, R, y))
  BY <1>5
<1>7. <<x, y>> \in R \/ <<y, x>> \in R
  BY <1>5 DEF StrictOrder
<1> QED
  BY <1>6, <1>7, RanksGrow, BeforeIsCounted

\* A list that ranks S holds every element of S once, and begins with the one ahead of all.
Ranked(list, S, R) ==
  /\ IsFiniteSet(S) /\ StrictOrder(S, R) /\ list \in [1..Cardinality(S) -> S]
  /\ \A i \in 1..Cardinality(S) : Cardinality(Before(S, R, list[i])) = i - 1

LEMMA RankedList ==
  ASSUME NEW S, NEW R, NEW list, Ranked(list, S, R)
  PROVE  /\ list \in Seq(S) /\ Len(list) = Cardinality(S) /\ Distinct(list) /\ Members(list) = S
         /\ \A p \in S : (\A x \in S \ {p} : <<p, x>> \in R) => Cardinality(S) > 0 /\ list[1] = p
<1> USE DEF Ranked
<1>1. Cardinality(S) \in Nat
  BY FS_CardinalityType
<1>2. list \in Seq(S) /\ Len(list) = Cardinality(S)
  BY <1>1
<1>3. ASSUME NEW p \in S PROVE \E i \in 1..Cardinality(S) : list[i] = p /\ Cardinality(Before(S, R, p)) = i - 1
  <2> DEFINE i == Cardinality(Before(S, R, p)) + 1
  <2>1. i \in 1..Cardinality(S)
    BY <1>1, BeforeIsCounted
  <2>2. list[i] \in S /\ Cardinality(Before(S, R, list[i])) = Cardinality(Before(S, R, p))
    BY <2>1, BeforeIsCounted
  <2>3. ~(<<p, list[i]>> \in R) /\ ~(<<list[i], p>> \in R)
    BY <2>2, RanksGrow, BeforeIsCounted
  <2>4. list[i] = p
    BY <2>2, <2>3 DEF StrictOrder
  <2> QED
    BY <2>1, <2>4, BeforeIsCounted
<1>4. Distinct(list)
  BY <1>1, <1>2 DEF Distinct
<1>5. Members(list) = S
  BY <1>2, <1>3 DEF Members
<1>6. ASSUME NEW p \in S, \A x \in S \ {p} : <<p, x>> \in R PROVE Cardinality(S) > 0 /\ list[1] = p
  <2>1. Before(S, R, p) = {}
    BY <1>6 DEF Before, StrictOrder
  <2>2. Cardinality(Before(S, R, p)) = 0
    BY <2>1, FS_EmptySet
  <2> QED
    BY <1>1, <1>3, <2>2
<1> QED
  BY <1>2, <1>4, <1>5, <1>6

\* What the loop over a list has gathered, element by element.
Gathers(sofar, list, V, S) ==
  /\ sofar \in [0..Len(list) -> Seq(S)] /\ sofar[0] = <<>>
  /\ \A k \in 1..Len(list) : sofar[k] = IF list[k] \in V THEN Append(sofar[k - 1], list[k]) ELSE sofar[k - 1]

LEMMA AmongGathers ==
  ASSUME NEW S, NEW list \in Seq(S), NEW V
  PROVE  \E sofar : Gathers(sofar, list, V, S) /\ Among(list, V) = sofar[Len(list)]
<1> DEFINE n == Len(list)
           T == Seq(S)
           base == <<>>
           Next1(k, v) == IF list[k] \in V THEN Append(v, list[k]) ELSE v
           F(g) == [k \in 0..n |-> IF k = 0 THEN <<>>
                                   ELSE IF list[k] \in V THEN Append(g[k - 1], list[k]) ELSE g[k - 1]]
           sofar == CHOOSE g : g = F(g)
           step == [k \in 1..n |-> [v \in T |-> Next1(k, v)]]
<1>1. Among(list, V) = sofar[n]
  BY DEF Among
<1>2. n \in Nat /\ base \in T
  OBVIOUS
<1>3. \A k \in 1..n : \A v \in T : Next1(k, v) \in T
  OBVIOUS
<1> HIDE DEF T, Next1, n
<1>4. step \in [1..n -> [T -> T]]
  BY <1>3
<1> HIDE DEF base
<1>5. PICK f : Solves(f, n, T, base, step)
  <2> HIDE DEF step
  <2> QED
    BY <1>2, <1>4, RecursionHas
<1>6. f \in [0..n -> T] /\ f[0] = base /\ \A k \in 1..n : f[k] = Next1(k, f[k - 1])
  <2>1. f \in [0..n -> T] /\ f[0] = base /\ \A k \in 1..n : f[k] = step[k][f[k - 1]]
    BY <1>5 DEF Solves
  <2>2. ASSUME NEW k \in 1..n PROVE f[k - 1] \in T
    BY <1>2, <2>1
  <2> QED
    BY <2>1, <2>2
<1>7. f = F(f)
  <2>1. ASSUME NEW k \in 0..n PROVE f[k] = F(f)[k]
    <3>1. F(f)[k] = IF k = 0 THEN base ELSE Next1(k, f[k - 1])
      BY <2>1 DEF Next1, base
    <3>2. k = 0 \/ k \in 1..n
      BY <1>2
    <3> HIDE DEF F
    <3> QED
      BY <1>6, <3>1, <3>2
  <2> HIDE DEF F
  <2>2. DOMAIN F(f) = 0..n /\ F(f) = [k \in 0..n |-> F(f)[k]]
    BY DEF F
  <2> QED
    BY <1>6, <2>1, <2>2
<1>8. sofar = F(sofar)
  <2> HIDE DEF F
  <2> QED
    BY <1>7
<1> HIDE DEF sofar
<1>9. sofar[0] = base /\ \A k \in 1..n : sofar[k] = Next1(k, sofar[k - 1])
  <2>1. \A k \in 0..n : sofar[k] = IF k = 0 THEN <<>>
          ELSE IF list[k] \in V THEN Append(sofar[k - 1], list[k]) ELSE sofar[k - 1]
    BY <1>8
  <2> QED
    BY <1>2, <2>1 DEF Next1, base
<1> DEFINE P == {k \in 0..n : sofar[k] \in T}
<1>10. 0 \in P /\ \A k \in 1..n : k - 1 \in P => k \in P
  BY <1>2, <1>3, <1>9
<1>11. \A k \in 0..n : k \in P
  <2> HIDE DEF P
  <2> QED
    BY <1>2, <1>10, UpFrom
<1>12. sofar \in [0..n -> T]
  <2>1. sofar = [k \in 0..n |-> sofar[k]]
    BY <1>8
  <2> QED
    BY <1>11, <2>1
<1> QED
  BY <1>1, <1>9, <1>12 DEF Gathers, T, n, base, Next1

LEMMA AppendedOnce ==
  ASSUME NEW S, NEW s \in Seq(S), NEW e \in S
  PROVE  /\ Append(s, e) \in Seq(S) /\ Append(s, e) # <<>> /\ Members(Append(s, e)) = Members(s) \cup {e}
         /\ Distinct(s) /\ e \notin Members(s) => Distinct(Append(s, e))
         /\ Append(s, e)[1] = IF s = <<>> THEN e ELSE s[1]
<1> DEFINE a == Append(s, e)
<1>1. /\ a \in Seq(S) /\ Len(a) = Len(s) + 1 /\ a[Len(s) + 1] = e /\ Len(s) \in Nat
      /\ \A j \in 1..Len(s) : a[j] = s[j]
  OBVIOUS
<1>2. DOMAIN a = 1..Len(s) + 1 /\ DOMAIN s = 1..Len(s)
  BY <1>1
<1> HIDE DEF a
<1>3. Members(a) = Members(s) \cup {e}
  BY <1>1, <1>2 DEF Members
<1>4. Distinct(s) /\ e \notin Members(s) => Distinct(a)
  BY <1>1, <1>2 DEF Distinct, Members
<1>5. a # <<>> /\ a[1] = IF s = <<>> THEN e ELSE s[1]
  BY <1>1
<1> QED
  BY <1>1, <1>3, <1>4, <1>5 DEF a

\* What Among keeps is in V and in the list, once each when the list holds it
\* once, and what the list begins with stays first.
LEMMA AmongIsASublist ==
  ASSUME NEW S, NEW list \in Seq(S), NEW V
  PROVE  /\ Among(list, V) \in Seq(S) /\ Members(Among(list, V)) \subseteq Members(list) \cap V
         /\ Distinct(list) => Distinct(Among(list, V))
         /\ list # <<>> /\ list[1] \in V => Among(list, V) # <<>> /\ Among(list, V)[1] = list[1]
<1>1. PICK sofar : Gathers(sofar, list, V, S) /\ Among(list, V) = sofar[Len(list)]
  BY AmongGathers
<1> DEFINE n == Len(list)
           To(k) == {list[i] : i \in 1..k}
           Good(k) == /\ Members(sofar[k]) \subseteq To(k) \cap V
                      /\ Distinct(list) => Distinct(sofar[k])
                      /\ k > 0 /\ list[1] \in V => sofar[k] # <<>> /\ sofar[k][1] = list[1]
           P == {k \in 0..n : Good(k)}
<1>2. n \in Nat /\ sofar \in [0..n -> Seq(S)] /\ sofar[0] = <<>> /\ \A k \in 1..n : list[k] \in S
  BY <1>1 DEF Gathers
<1>3. 0 \in P
  BY <1>2 DEF Distinct, Members
<1>4. ASSUME NEW k \in 1..n, k - 1 \in P PROVE k \in P
  <2>1. Good(k - 1) /\ sofar[k - 1] \in Seq(S) /\ list[k] \in S /\ k - 1 \in 0..n
    BY <1>2, <1>4
  <2>2. To(k) = To(k - 1) \cup {list[k]}
    <3>1. 1..k = (1..(k - 1)) \cup {k}
      BY <1>2
    <3> QED
      BY <3>1
  <2>3. Distinct(list) => list[k] \notin To(k - 1)
    BY <1>2 DEF Distinct
  <2>4. CASE list[k] \notin V
    <3>1. sofar[k] = sofar[k - 1]
      BY <1>1, <2>4 DEF Gathers
    <3>2. k > 0 /\ list[1] \in V => k - 1 > 0
      BY <1>2, <2>4
    <3> QED
      BY <1>2, <2>1, <2>2, <3>1, <3>2
  <2>5. CASE list[k] \in V
    <3>1. sofar[k] = Append(sofar[k - 1], list[k])
      BY <1>1, <2>5 DEF Gathers
    <3>2. /\ sofar[k] # <<>> /\ Members(sofar[k]) = Members(sofar[k - 1]) \cup {list[k]}
          /\ Distinct(sofar[k - 1]) /\ list[k] \notin Members(sofar[k - 1]) => Distinct(sofar[k])
          /\ sofar[k][1] = IF sofar[k - 1] = <<>> THEN list[k] ELSE sofar[k - 1][1]
      BY <2>1, <3>1, AppendedOnce
    <3>3. list[1] \in V => sofar[k][1] = list[1]
      <4>1. CASE k = 1
        BY <1>2, <3>2, <4>1
      <4>2. CASE k > 1
        BY <2>1, <3>2, <4>2
      <4> QED
        BY <1>2, <4>1, <4>2
    <3>4. Members(sofar[k]) \subseteq To(k) \cap V
      BY <2>1, <2>2, <2>5, <3>2
    <3>5. Distinct(list) => Distinct(sofar[k])
      BY <2>1, <2>3, <3>2
    <3> QED
      BY <1>2, <3>2, <3>3, <3>4, <3>5
  <2> QED
    BY <2>4, <2>5
<1>5. \A k \in 0..n : k \in P
  <2> HIDE DEF P, n
  <2> QED
    BY <1>2, <1>3, <1>4, UpFrom
<1>6. n \in 0..n /\ To(n) = Members(list) /\ (list # <<>> => n > 0)
  BY <1>2 DEF Members
<1>7. Good(n) /\ sofar[n] \in Seq(S)
  BY <1>2, <1>5, <1>6
<1> QED
  BY <1>1, <1>6, <1>7

\* The width tried last is one of the index.
LEMMA WidthIsWithin ==
  ASSUME NEW near, NEW visible, NEW limit \in Nat \ {0}, Len(near) \in Nat \ {0}
  PROVE  Width(near, visible, limit) \in 1..Len(near)
<1> DEFINE n == Len(near)
           next(k) == Least(n, Most(k + 1, 2 * k))
           Stop(k) == WideEnough(near, visible, limit, k)
           F(g) == [k \in 1..n |-> IF Stop(k) THEN k ELSE g[next(k)]]
           grown == CHOOSE g : g = F(g)
           start == Least(n, Most(limit * Widening, limit))
<1>1. Width(near, visible, limit) = grown[start]
  BY DEF Width
<1>2. n \in Nat \ {0} /\ Widening \in Nat /\ start \in 1..n
  <2>1. n \in Nat \ {0} /\ Widening \in Nat \ {0}
    BY RetrievalAssumption
  <2>2. limit * Widening \in Nat
    BY <2>1
  <2>3. Most(limit * Widening, limit) \in Nat \ {0}
    BY <2>2 DEF Most
  <2> QED
    BY <2>1, <2>3 DEF Least
<1>3. Stop(n) \in BOOLEAN /\ Stop(n)
  BY <1>2 DEF WideEnough, Enough
<1>4. \A k \in 1..n : ~Stop(k) => next(k) \in k+1..n
  BY <1>2, <1>3 DEF Least, Most
<1> HIDE DEF n, next, Stop, start
\* a solution from m on, and the values a solution takes
<1> DEFINE From(g, m) == \A k \in m..n : g[k] = IF Stop(k) THEN k ELSE g[next(k)]
           P == {j \in 0..n-1 : \E g \in [1..n -> 1..n] : From(g, n - j)}
<1>5. 0 \in P
  <2>1. From([k \in 1..n |-> n], n) /\ [k \in 1..n |-> n] \in [1..n -> 1..n]
    BY <1>2, <1>3
  <2> QED
    BY <1>2, <2>1
<1>6. ASSUME NEW j \in 1..n-1, j - 1 \in P PROVE j \in P
  <2> DEFINE m == n - j
  <2>1. PICK g \in [1..n -> 1..n] : From(g, m + 1)
    BY <1>2, <1>6
  <2>2. m \in 1..n-1
    BY <1>2
  <2> HIDE DEF m
  <2> DEFINE v == IF Stop(m) THEN m ELSE g[next(m)]
             h == [g EXCEPT ![m] = v]
  <2>3. h \in [1..n -> 1..n]
    <3>1. m \in 1..n
      BY <1>2, <2>2
    <3>2. ~Stop(m) => next(m) \in m+1..n
      BY <1>4, <3>1
    <3>3. ~Stop(m) => next(m) \in 1..n
      BY <1>2, <2>2, <3>2
    <3>4. v \in 1..n
      BY <2>1, <3>1, <3>3
    <3> HIDE DEF v
    <3> QED
      BY <2>1, <3>1, <3>4
  <2>4. ASSUME NEW k \in m..n PROVE h[k] = IF Stop(k) THEN k ELSE h[next(k)]
    <3>1. ASSUME ~Stop(k) PROVE next(k) # m /\ next(k) \in 1..n
      <4>1. k \in 1..n
        BY <1>2, <2>2
      <4>2. PICK w \in k+1..n : w = next(k)
        BY <1>4, <3>1, <4>1
      <4> HIDE DEF v, h
      <4>3. w # m /\ w \in 1..n
        BY <1>2, <2>2, <4>1
      <4> QED
        BY <4>2, <4>3
    <3>2. CASE k = m
      BY <2>1, <2>2, <3>1, <3>2
    <3>3. CASE k # m
      <4>1. k \in m+1..n
        BY <1>2, <2>2, <3>3
      <4>2. g[k] = IF Stop(k) THEN k ELSE g[next(k)]
        BY <2>1, <4>1
      <4>3. h[k] = g[k] /\ (~Stop(k) => h[next(k)] = g[next(k)])
        BY <1>2, <2>1, <2>2, <3>1, <3>3, <4>1
      <4> QED
        BY <4>2, <4>3
    <3> QED
      BY <3>2, <3>3
  <2>5. From(h, m)
    BY <2>4
  <2>6. From(h, n - j) /\ j \in 0..n-1
    BY <1>2, <2>5 DEF m
  <2> HIDE DEF From, h
  <2> QED
    BY <2>3, <2>6
<1> HIDE DEF P, From
<1>7. n - 1 \in P
  <2>1. n - 1 \in Nat /\ n - 1 \in 0..n-1
    BY <1>2
  <2>2. \A k \in 0..n-1 : k \in P
    BY <1>5, <1>6, <2>1, UpFrom
  <2> QED
    BY <2>1, <2>2
<1>8. PICK f \in [1..n -> 1..n] : From(f, 1)
  <2>1. n - (n - 1) = 1
    BY <1>2
  <2> QED
    BY <1>7, <2>1 DEF P
<1>9. f = F(f)
  <2>1. \A k \in 1..n : f[k] = IF Stop(k) THEN k ELSE f[next(k)]
    BY <1>8 DEF From
  <2> QED
    BY <1>8, <2>1
<1>10. grown = F(grown)
  <2> HIDE DEF F
  <2> QED
    BY <1>9
<1> HIDE DEF grown
<1>11. \A k \in 1..n : grown[k] = IF Stop(k) THEN k ELSE grown[next(k)]
  BY <1>10
<1> DEFINE Q == {j \in 0..n-1 : grown[n - j] \in 1..n}
           Q2 == {j \in 0..n-1 : \A i \in 0..j : i \in Q}
<1>12. 0 \in Q2
  BY <1>2, <1>3, <1>11
<1>13. ASSUME NEW j \in 1..n-1, j - 1 \in Q2 PROVE j \in Q2
  <2>1. n - j \in 1..n
    BY <1>2
  <2>2. CASE Stop(n - j)
    BY <1>2, <1>11, <1>13, <2>1, <2>2
  <2>3. CASE ~Stop(n - j)
    <3>1. PICK i \in 0..j-1 : next(n - j) = n - i
      <4>1. PICK q \in n-j+1..n : q = next(n - j)
        BY <1>4, <2>1, <2>3
      <4>2. n - q \in 0..j-1 /\ q = n - (n - q)
        BY <1>2
      <4> QED
        BY <4>1, <4>2
    <3>2. grown[n - i] \in 1..n
      BY <1>13
    <3>3. grown[n - j] \in 1..n
      BY <1>11, <2>1, <2>3, <3>1, <3>2
    <3> QED
      BY <1>2, <1>13, <3>3
  <2> QED
    BY <2>2, <2>3
<1>14. \A k \in 1..n : grown[k] \in 1..n
  <2>1. n - 1 \in Nat
    BY <1>2
  <2>2. \A j \in 0..n-1 : j \in Q2
    <3> HIDE DEF Q2
    <3> QED
      BY <1>12, <1>13, <2>1, UpFrom
  <2>3. ASSUME NEW k \in 1..n PROVE grown[k] \in 1..n
    <3>1. n - k \in 0..n-1 /\ n - (n - k) = k
      BY <1>2
    <3>2. n - k \in 0..n-k
      BY <1>2
    <3>3. n - k \in Q
      BY <2>2, <3>1, <3>2
    <3> QED
      BY <3>1, <3>3
  <2> QED
    BY <2>3
<1> QED
  BY <1>1, <1>2, <1>14 DEF n

LEMMA FirstOnes ==
  ASSUME NEW S, NEW list \in Seq(S), NEW n \in Nat \ {0}
  PROVE  /\ FirstOf(list, n) \in Seq(S) /\ Members(FirstOf(list, n)) \subseteq Members(list)
         /\ Distinct(list) => Distinct(FirstOf(list, n))
         /\ (list = <<>>) <=> (FirstOf(list, n) = <<>>)
         /\ list # <<>> => FirstOf(list, n)[1] = list[1]
<1> DEFINE m == Least(n, Len(list))
           f == SubSeq(list, 1, m)
<1>1. m \in 0..Len(list) /\ Len(list) \in Nat /\ (m = 0 <=> Len(list) = 0)
  BY DEF Least
<1>2. f \in Seq(S) /\ Len(f) = m /\ \A i \in 1..m : f[i] = list[i]
  BY <1>1
<1>3. f = FirstOf(list, n)
  BY DEF FirstOf
<1> HIDE DEF m, f
<1>4. DOMAIN f = 1..m /\ DOMAIN list = 1..Len(list) /\ \A i \in DOMAIN f : i \in DOMAIN list
  BY <1>1, <1>2
<1> QED
  BY <1>1, <1>2, <1>3, <1>4 DEF Members, Distinct

SearchLists == {list \in Seq(Passages) : Distinct(list)}
RawQueries == {"variant", "unusable", "question"}
Asked == Questions \cup OtherQuestions

LEMMA PassagesAreFinite == IsFiniteSet(Passages) /\ Cardinality(Passages) \in Nat
BY RetrievalAssumption, FS_CardinalityType

\* A list without repeats is no longer than there are passages.
LEMMA NoLonger ==
  ASSUME NEW list \in SearchLists PROVE Len(list) <= Cardinality(Passages)
<1> DEFINE n == Len(list)
<1>1. n \in Nat /\ list \in [1..n -> Passages] /\ Distinct(list) /\ DOMAIN list = 1..n
  BY DEF SearchLists
<1> HIDE DEF n
<1>2. list \in Injection(1..n, Passages)
  BY <1>1 DEF Distinct, Injection, IsInjective
<1>3. Cardinality(1..n) <= Cardinality(Passages)
  BY <1>2, PassagesAreFinite, FS_Injection
<1>4. Cardinality(1..n) = n
  <2>1. Cardinality(1..n) = IF 1 > n THEN 0 ELSE n - 1 + 1
    BY <1>1, FS_Interval
  <2> QED
    BY <1>1, <2>1
<1> QED
  BY <1>3, <1>4 DEF n

LEMMA OrdersAreLists ==
  ASSUME NEW near \in Orders
  PROVE  near \in SearchLists /\ Len(near) = Cardinality(Passages)
<1> DEFINE n == Cardinality(Passages)
<1>1. n \in Nat
  BY PassagesAreFinite
<1>2. near \in [1..n -> Passages] /\ Members(near) = Passages
  BY DEF Orders
<1>3. near \in Seq(Passages) /\ Len(near) = n /\ DOMAIN near = 1..n
  BY <1>1, <1>2
<1>4. near \in Surjection(1..n, Passages)
  BY <1>2, <1>3 DEF Surjection, Members
<1>5. IsFiniteSet(1..n) /\ Cardinality(1..n) = n
  <2>1. IsFiniteSet(1..n) /\ Cardinality(1..n) = IF 1 > n THEN 0 ELSE n - 1 + 1
    BY <1>1, FS_Interval
  <2> QED
    BY <1>1, <2>1
<1>6. near \in Injection(1..n, Passages)
  <2> HIDE DEF n
  <2>1. Cardinality(1..n) = Cardinality(Passages)
    BY <1>5 DEF n
  <2> QED
    BY <1>4, <1>5, <2>1, FS_SurjSameCardinalityImpliesInj
<1>7. Distinct(near)
  BY <1>3, <1>6 DEF Distinct, Injection, IsInjective
<1> QED
  BY <1>3, <1>7 DEF SearchLists

LEMMA AnOrderExists == Orders # {}
<1> DEFINE n == Cardinality(Passages)
<1>1. ExistsBijection(1..n, Passages) /\ n \in Nat
  BY RetrievalAssumption, FS_CardinalityType
<1> HIDE DEF n
<1>2. PICK f : f \in [1..n -> Passages] /\ \A p \in Passages : \E i \in 1..n : f[i] = p
  BY <1>1 DEF ExistsBijection, Bijection, Surjection
<1>3. Members(f) = Passages
  BY <1>2 DEF Members
<1> QED
  BY <1>2, <1>3 DEF Orders, n

LEMMA TuplesAreSequences ==
  ASSUME NEW S
  PROVE  /\ <<>> \in Seq(S)
         /\ \A a \in S : <<a>> \in Seq(S)
         /\ \A a, b \in S : /\ <<a, b>> \in Seq(S) /\ DOMAIN <<a, b>> = {1, 2}
                            /\ <<a, b>>[1] = a /\ <<a, b>>[2] = b
OBVIOUS

LEMMA AskedShape ==
  ASSUME NEW q \in Asked
  PROVE  /\ q.visible \subseteq Passages /\ q.cosine \in Cosines /\ q.parsed \in Seq(RawQueries)
         /\ \A i \in 1..NumQueries : q.found[i].near \in Orders /\ q.found[i].matches \in SearchLists
<1>1. ASSUME NEW m \in KeywordLists PROVE m \in SearchLists
  <2>1. CASE m = <<>>
    BY <2>1 DEF SearchLists, Distinct
  <2>2. ASSUME NEW p \in Passages, m = <<p>> PROVE m \in SearchLists
    <3>1. m \in Seq(Passages) /\ DOMAIN m = {1}
      BY <2>2
    <3> QED
      BY <3>1 DEF SearchLists, Distinct
  <2>3. CASE m \in Passages \X Passages /\ m[1] # m[2]
    <3>1. PICK a \in Passages, b \in Passages : m = <<a, b>> /\ a # b
      BY <2>3
    <3>2. m \in Seq(Passages) /\ DOMAIN m = {1, 2} /\ m[1] # m[2]
      BY <3>1, TuplesAreSequences
    <3> QED
      BY <3>2 DEF SearchLists, Distinct
  <2> QED
    BY <2>1, <2>2, <2>3 DEF KeywordLists
<1>2. /\ <<"variant">> \in Seq(RawQueries) /\ <<>> \in Seq(RawQueries) /\ <<"unusable">> \in Seq(RawQueries)
      /\ <<"question">> \in Seq(RawQueries) /\ <<"variant", "variant">> \in Seq(RawQueries)
  BY TuplesAreSequences DEF RawQueries
<1>3. CASE q \in Questions
  <2>1. /\ q.found \in [1..NumQueries -> Found] /\ q.cosine \in Cosines /\ q.parsed = <<"variant">>
        /\ q.visible \in {Passages} \cup {Passages \ {p} : p \in Passages}
    BY <1>3 DEF Questions
  <2>2. \A i \in 1..NumQueries : q.found[i].near \in Orders /\ q.found[i].matches \in KeywordLists
    BY <2>1 DEF Found
  <2>3. q.visible \subseteq Passages
    BY <2>1
  <2> QED
    BY <1>1, <1>2, <2>1, <2>2, <2>3
<1>4. CASE q \in OtherQuestions
  <2> DEFINE any == CHOOSE o \in Orders : TRUE
  <2>1. any \in Orders /\ <<>> \in SearchLists
    BY AnOrderExists DEF SearchLists, Distinct
  <2>2. /\ q.visible = Passages /\ q.cosine \in Cosines
        /\ q.parsed \in {<<>>, <<"unusable">>, <<"question">>, <<"variant", "variant">>}
        /\ \A i \in 1..NumQueries : q.found[i] = [near |-> any, matches |-> <<>>]
    BY <1>4 DEF OtherQuestions
  <2>3. q.parsed \in Seq(RawQueries)
    BY <1>2, <2>2
  <2>4. ASSUME NEW i \in 1..NumQueries
        PROVE  q.found[i].near \in Orders /\ q.found[i].matches \in SearchLists
    <3> HIDE DEF any
    <3>1. q.found[i].near = any /\ q.found[i].matches = <<>>
      BY <2>2
    <3> QED
      BY <2>1, <3>1
  <2> QED
    BY <2>2, <2>3, <2>4
<1> QED
  BY <1>3, <1>4 DEF Asked

\* What a store answers is a list of passages without repeats.
LEMMA StoresAnswerLists ==
  ASSUME NEW q \in Asked, NEW i \in 1..NumQueries, Passages # {}
  PROVE  Semantic(q, i) \in SearchLists /\ Keyword(q, i) \in SearchLists
<1>1. <<>> \in SearchLists /\ RecallLimit \in Nat \ {0}
  BY RetrievalAssumption DEF SearchLists, Distinct
<1>2. q.found[i].near \in Orders /\ q.found[i].matches \in SearchLists
  BY AskedShape
<1>3. ASSUME NEW list \in SearchLists, NEW V PROVE FirstOf(Among(list, V), RecallLimit) \in SearchLists
  <2>1. list \in Seq(Passages) /\ Distinct(list)
    BY <1>3 DEF SearchLists
  <2>2. Among(list, V) \in Seq(Passages) /\ Distinct(Among(list, V))
    BY <2>1, AmongIsASublist
  <2> QED
    BY <1>1, <2>2, FirstOnes DEF SearchLists
<1>4. Keyword(q, i) \in SearchLists
  BY <1>1, <1>2, <1>3 DEF Keyword, SearchKeyword
<1> DEFINE near == q.found[i].near
           w == Width(near, q.visible, RecallLimit)
<1>5. near \in SearchLists /\ Len(near) \in Nat \ {0}
  <2>1. Cardinality(Passages) # 0
    BY PassagesAreFinite, FS_EmptySet
  <2> QED
    BY <1>2, <2>1, OrdersAreLists, PassagesAreFinite
<1>6. w \in 1..Len(near)
  BY <1>1, <1>5, WidthIsWithin
<1> HIDE DEF w, near
<1>7. SubSeq(near, 1, w) \in SearchLists
  <2> DEFINE cut == SubSeq(near, 1, w)
  <2>1. near \in Seq(Passages) /\ Distinct(near)
    BY <1>5 DEF SearchLists
  <2>2. cut \in Seq(Passages) /\ DOMAIN cut = 1..w /\ \A j \in 1..w : j \in DOMAIN near /\ cut[j] = near[j]
    BY <1>6, <2>1
  <2> HIDE DEF cut
  <2>3. Distinct(cut)
    BY <2>1, <2>2 DEF Distinct
  <2> QED
    BY <2>2, <2>3 DEF SearchLists, cut
<1>8. Semantic(q, i) \in SearchLists
  BY <1>1, <1>3, <1>7 DEF Semantic, SearchSemantic, near, w
<1> QED
  BY <1>4, <1>8

LEMMA PlacesAreIndices ==
  ASSUME NEW S, NEW list \in Seq(S)
  PROVE  /\ \A x \in Members(list) : PlaceOf(list, x) \in 1..Len(list) /\ list[PlaceOf(list, x)] = x
         /\ Distinct(list) /\ list # <<>> => list[1] \in Members(list) /\ PlaceOf(list, list[1]) = 1
<1>1. ASSUME NEW x \in Members(list) PROVE PlaceOf(list, x) \in 1..Len(list) /\ list[PlaceOf(list, x)] = x
  <2>1. \E i \in DOMAIN list : list[i] = x
    BY DEF Members
  <2>2. PlaceOf(list, x) \in DOMAIN list /\ list[PlaceOf(list, x)] = x
    BY <2>1 DEF PlaceOf
  <2> QED
    BY <2>2
<1>2. ASSUME Distinct(list), list # <<>> PROVE list[1] \in Members(list) /\ PlaceOf(list, list[1]) = 1
  <2>1. 1 \in DOMAIN list /\ DOMAIN list = 1..Len(list)
    BY <1>2
  <2>2. list[1] \in Members(list)
    BY <2>1 DEF Members
  <2> QED
    BY <1>1, <1>2, <2>1, <2>2 DEF Distinct
<1> QED
  BY <1>1, <1>2

LEMMA DivisionShrinks ==
  ASSUME NEW a \in Nat, NEW b \in Nat \ {0}, NEW c \in Nat \ {0}, b <= c
  PROVE  a \div c \in Nat /\ a \div c <= a \div b
<1>1. PICK q \in Int, r \in Int : q = a \div b /\ a = b * q + r /\ 0 <= r /\ r < b
  OBVIOUS
<1>2. PICK s \in Int, t \in Int : s = a \div c /\ a = c * s + t /\ 0 <= t /\ t < c
  OBVIOUS
<1>3. s >= 0
  <2>1. ASSUME s <= -1 PROVE FALSE
    <3>1. c * s <= c * (-1)
      BY <2>1
    <3> QED
      BY <1>2, <3>1
  <2> QED
    BY <2>1
<1>4. ASSUME s >= q + 1 PROVE FALSE
  <2>1. b * s <= c * s
    BY <1>3
  <2>2. b * (q + 1) <= b * s
    BY <1>4
  <2>3. b * (q + 1) = b * q + b
    OBVIOUS
  <2> QED
    BY <1>1, <1>2, <2>1, <2>2, <2>3
<1> QED
  BY <1>1, <1>2, <1>3, <1>4

\* By score, then by the place first met in.
ByScore(S, R, score, a, b) ==
  /\ score \in [S -> Int] /\ a \in [S -> Int] /\ b \in [S -> Int]
  /\ \A x, y \in S : a[x] = a[y] /\ b[x] = b[y] => x = y
  /\ \A x, y \in S : <<x, y>> \in R <=> \/ score[x] > score[y]
                                        \/ /\ score[x] = score[y]
                                           /\ a[x] < a[y] \/ (a[x] = a[y] /\ b[x] < b[y])

LEMMA ScoresOrder ==
  ASSUME NEW S, NEW R, NEW score, NEW a, NEW b, ByScore(S, R, score, a, b)
  PROVE  StrictOrder(S, R)
<1>0. /\ \A x, y \in S : a[x] = a[y] /\ b[x] = b[y] => x = y
      /\ \A x, y \in S : <<x, y>> \in R <=> \/ score[x] > score[y]
                                            \/ /\ score[x] = score[y]
                                               /\ a[x] < a[y] \/ (a[x] = a[y] /\ b[x] < b[y])
  BY DEF ByScore
<1>1. \A x \in S : score[x] \in Int /\ a[x] \in Int /\ b[x] \in Int
  BY DEF ByScore
<1>2. ASSUME NEW x \in S, NEW y \in S, <<x, y>> \in R PROVE <<y, x>> \notin R
  <2>1. score[x] > score[y] \/ (score[x] = score[y] /\ (a[x] < a[y] \/ (a[x] = a[y] /\ b[x] < b[y])))
    BY <1>0, <1>2
  <2>2. ~(score[y] > score[x] \/ (score[y] = score[x] /\ (a[y] < a[x] \/ (a[y] = a[x] /\ b[y] < b[x]))))
    BY <1>1, <2>1
  <2> QED
    BY <1>0, <2>2
<1>3. \A x, y \in S : x # y => <<x, y>> \in R \/ <<y, x>> \in R
  BY <1>0, <1>1
<1>4. \A x, y, z \in S : <<x, y>> \in R /\ <<y, z>> \in R => <<x, z>> \in R
  BY <1>0, <1>1
<1> QED
  BY <1>2, <1>3, <1>4 DEF StrictOrder

LEMMA ReciprocalsShrink ==
  ASSUME NEW list \in SearchLists, list # <<>>, NEW x
  PROVE  Reciprocal(list, x) \in Nat /\ Reciprocal(list, x) <= Reciprocal(list, list[1])
<1>1. RankBase \in Nat \ {0}
  BY RetrievalAssumption
<1>2. Scale \in Nat
  BY <1>1 DEF Scale
<1>3. /\ \A y \in Members(list) : PlaceOf(list, y) \in 1..Len(list)
      /\ list[1] \in Members(list) /\ PlaceOf(list, list[1]) = 1
  BY PlacesAreIndices DEF SearchLists
<1>4. Len(list) \in Nat
  BY DEF SearchLists
<1>5. ASSUME NEW m \in 1..Len(list)
      PROVE  Scale \div (RankBase + m) \in Nat /\ Scale \div (RankBase + m) <= Scale \div (RankBase + 1)
  <2>1. RankBase + m \in Nat \ {0} /\ RankBase + 1 \in Nat \ {0} /\ RankBase + 1 <= RankBase + m
    BY <1>1, <1>4
  <2> HIDE DEF Scale
  <2> QED
    BY <1>2, <2>1, DivisionShrinks
<1>6. Reciprocal(list, list[1]) = Scale \div (RankBase + 1)
  BY <1>3 DEF Reciprocal
<1>7. CASE x \in Members(list)
  BY <1>3, <1>5, <1>6, <1>7 DEF Reciprocal
<1>8. CASE x \notin Members(list)
  <2>1. 1 \in 1..Len(list)
    BY <1>3, <1>4
  <2> QED
    BY <1>5, <1>6, <1>8, <2>1 DEF Reciprocal
<1> QED
  BY <1>7, <1>8

\* _fuse: what leads both lists leads the fused one.
LEMMA StoresFuse ==
  ASSUME NEW sem \in SearchLists, NEW key \in SearchLists, NEW p,
         sem # <<>>, key # <<>>, sem[1] = p, key[1] = p
  PROVE  /\ FuseStores(sem, key) \in SearchLists /\ FuseStores(sem, key) # <<>>
         /\ FuseStores(sem, key)[1] = p
<1> DEFINE met == Met(sem, key)
           S == Members(met)
           Ahead(x, y) == \/ Fused(sem, key, x) > Fused(sem, key, y)
                          \/ /\ Fused(sem, key, x) = Fused(sem, key, y)
                             /\ PlaceOf(met, x) < PlaceOf(met, y)
           R == {r \in S \X S : Ahead(r[1], r[2])}
           list == [i \in 1..Cardinality(S) |->
                      CHOOSE y \in S : Cardinality({x \in S \ {y} : Ahead(x, y)}) = i - 1]
<1>1. FuseStores(sem, key) = FirstOf(list, RecallLimit)
  BY DEF FuseStores, Ordered
<1>2. /\ met \in Seq(Passages) /\ Distinct(met) /\ met # <<>> /\ met[1] = p
  <2> DEFINE more == Among(key, Members(key) \ Members(sem))
  <2>1. sem \in Seq(Passages) /\ Distinct(sem) /\ key \in Seq(Passages) /\ Distinct(key)
    BY DEF SearchLists
  <2>2. more \in Seq(Passages) /\ Distinct(more) /\ Members(more) \cap Members(sem) = {}
    BY <2>1, AmongIsASublist
  <2>3. met = sem \o more
    BY DEF Met
  <2> HIDE DEF more, met
  <2>4. /\ met \in Seq(Passages) /\ Len(met) = Len(sem) + Len(more) /\ Len(sem) \in Nat /\ Len(more) \in Nat
        /\ \A i \in 1..Len(sem) : met[i] = sem[i]
        /\ \A i \in 1..Len(more) : met[Len(sem) + i] = more[i]
    BY <2>1, <2>2, <2>3
  <2>5. DOMAIN met = 1..Len(met) /\ DOMAIN sem = 1..Len(sem) /\ DOMAIN more = 1..Len(more)
    BY <2>1, <2>2, <2>4
  <2>6. ASSUME NEW i \in DOMAIN met, NEW j \in DOMAIN met, met[i] = met[j] PROVE i = j
    <3>1. ASSUME NEW k \in DOMAIN met, k > Len(sem) PROVE k - Len(sem) \in DOMAIN more /\ met[k] = more[k - Len(sem)]
      BY <2>4, <2>5, <3>1
    <3>2. \A k \in DOMAIN met : k <= Len(sem) => k \in DOMAIN sem /\ met[k] = sem[k]
      BY <2>4, <2>5
    <3>3. CASE i <= Len(sem) /\ j <= Len(sem)
      BY <2>1, <2>6, <3>2, <3>3 DEF Distinct
    <3>4. CASE i > Len(sem) /\ j > Len(sem)
      <4>1. i - Len(sem) = j - Len(sem)
        BY <2>2, <2>6, <3>1, <3>4 DEF Distinct
      <4> QED
        BY <2>4, <2>5, <4>1
    <3>5. \A k, l \in DOMAIN met : k <= Len(sem) /\ l > Len(sem) => met[k] # met[l]
      BY <2>2, <3>1, <3>2 DEF Members
    <3> QED
      BY <2>4, <2>5, <2>6, <3>3, <3>4, <3>5
  <2>7. 1 \in DOMAIN sem /\ met # <<>> /\ met[1] = p
    BY <2>1, <2>4, <2>5
  <2> QED
    BY <2>4, <2>6, <2>7 DEF Distinct
<1> HIDE DEF met
<1>3. /\ p \in S /\ PlaceOf(met, p) = 1 /\ S \subseteq Passages
      /\ \A x \in S : PlaceOf(met, x) \in 1..Len(met) /\ met[PlaceOf(met, x)] = x
  <2>1. S \subseteq Passages
    BY <1>2 DEF Members
  <2> QED
    BY <1>2, <2>1, PlacesAreIndices
<1>4. IsFiniteSet(S)
  BY <1>3, PassagesAreFinite, FS_Subset
<1>5. ASSUME NEW x PROVE Fused(sem, key, x) \in Int /\ Fused(sem, key, x) <= Fused(sem, key, p)
  <2> DEFINE s == Reciprocal(sem, x)
             k == Reciprocal(key, x)
             sp == Reciprocal(sem, p)
             kp == Reciprocal(key, p)
             m == 10 - SemanticTenths
  <2>1. s \in Nat /\ k \in Nat /\ sp \in Nat /\ kp \in Nat /\ s <= sp /\ k <= kp
    BY ReciprocalsShrink
  <2>2. SemanticTenths \in Nat /\ m \in Nat
    BY RetrievalAssumption
  <2>3. Fused(sem, key, x) = SemanticTenths * s + m * k /\ Fused(sem, key, p) = SemanticTenths * sp + m * kp
    BY DEF Fused
  <2> HIDE DEF s, k, sp, kp, m
  <2>4. SemanticTenths * s <= SemanticTenths * sp /\ m * k <= m * kp
    BY <2>1, <2>2
  <2>5. SemanticTenths * s \in Nat /\ m * k \in Nat /\ SemanticTenths * sp \in Nat /\ m * kp \in Nat
    BY <2>1, <2>2
  <2> QED
    BY <2>3, <2>4, <2>5
<1> HIDE DEF S
<1> DEFINE score == [x \in S |-> Fused(sem, key, x)]
           place == [x \in S |-> PlaceOf(met, x)]
           zero == [x \in S |-> 0]
<1>6. StrictOrder(S, R)
  <2>1. score \in [S -> Int] /\ place \in [S -> Int] /\ zero \in [S -> Int]
    BY <1>3, <1>5
  <2>2. \A x, y \in S : place[x] = place[y] /\ zero[x] = zero[y] => x = y
    BY <1>3
  <2>3. ASSUME NEW x \in S, NEW y \in S
        PROVE  <<x, y>> \in R <=> \/ score[x] > score[y]
                                  \/ /\ score[x] = score[y]
                                     /\ place[x] < place[y] \/ (place[x] = place[y] /\ zero[x] < zero[y])
    BY <1>3
  <2>4. \A x, y \in S : <<x, y>> \in R <=> \/ score[x] > score[y]
                                  \/ /\ score[x] = score[y]
                                     /\ place[x] < place[y] \/ (place[x] = place[y] /\ zero[x] < zero[y])
    BY <2>3
  <2> HIDE DEF R, score, place, zero
  <2>5. ByScore(S, R, score, place, zero)
    BY <2>1, <2>2, <2>4 DEF ByScore
  <2> QED
    BY <2>5, ScoresOrder
<1>7. \A y \in S : {x \in S \ {y} : Ahead(x, y)} = Before(S, R, y)
  BY DEF Before
<1>8. \A x \in S \ {p} : <<p, x>> \in R
  <2>1. ASSUME NEW x \in S \ {p} PROVE Ahead(p, x)
    <3>1. PlaceOf(met, x) \in 1..Len(met) /\ PlaceOf(met, x) # 1 /\ Len(met) \in Nat
      BY <1>2, <1>3
    <3> QED
      BY <1>3, <1>5, <3>1
  <2> QED
    BY <1>3, <2>1
<1> HIDE DEF R, Ahead
<1>9. ASSUME NEW i \in 1..Cardinality(S) PROVE list[i] \in S /\ Cardinality(Before(S, R, list[i])) = i - 1
  <2>1. \E y \in S : Cardinality({x \in S \ {y} : Ahead(x, y)}) = i - 1
    <3>1. PICK y \in S : Cardinality(Before(S, R, y)) = i - 1
      BY <1>4, <1>6, EveryRankIsTaken
    <3> QED
      BY <1>7, <3>1
  <2>2. list[i] \in S /\ Cardinality({x \in S \ {list[i]} : Ahead(x, list[i])}) = i - 1
    BY <2>1
  <2> HIDE DEF list
  <2> QED
    BY <1>7, <2>2
<1>10. list \in [1..Cardinality(S) -> S]
  BY <1>9
<1> HIDE DEF list
<1>11. /\ list \in Seq(S) /\ Len(list) = Cardinality(S) /\ Distinct(list)
       /\ Cardinality(S) > 0 /\ list[1] = p
  <2>1. \A i \in 1..Cardinality(S) : Cardinality(Before(S, R, list[i])) = i - 1
    BY <1>9
  <2>2. /\ list \in Seq(S) /\ Len(list) = Cardinality(S) /\ Distinct(list)
        /\ \A q \in S : (\A x \in S \ {q} : <<q, x>> \in R) => Cardinality(S) > 0 /\ list[1] = q
    <3>1. Ranked(list, S, R)
      BY <1>4, <1>6, <1>10, <2>1 DEF Ranked
    <3> QED
      BY <3>1, RankedList
  <2> QED
    BY <1>3, <1>8, <2>2
<1>12. list \in Seq(Passages) /\ list # <<>>
  BY <1>3, <1>11
<1>13. RecallLimit \in Nat \ {0}
  BY RetrievalAssumption
<1>14. LET f == FirstOf(list, RecallLimit)
       IN  f \in Seq(Passages) /\ Distinct(f) /\ f # <<>> /\ f[1] = p
  BY <1>11, <1>12, <1>13, FirstOnes
<1> QED
  BY <1>1, <1>14 DEF SearchLists

SearchResults == [list : SearchLists, relevance : [Passages -> Int]]
\* All searches put p first.
LedBy(searches, p) ==
  /\ searches \in Seq(SearchResults) /\ searches # <<>>
  /\ \A i \in 1..Len(searches) : searches[i].list # <<>> /\ searches[i].list[1] = p

LEMMA LedShape ==
  ASSUME NEW searches, NEW p, LedBy(searches, p)
  PROVE  /\ Len(searches) \in Nat \ {0} /\ DOMAIN searches = 1..Len(searches)
         /\ \A i \in 1..Len(searches) :
              /\ searches[i].list \in SearchLists /\ searches[i].list # <<>> /\ searches[i].list[1] = p
              /\ searches[i].relevance \in [Passages -> Int]
              /\ p \in Members(searches[i].list) /\ PlaceOf(searches[i].list, p) = 1
              /\ Members(searches[i].list) \subseteq Passages
              /\ \A x \in Members(searches[i].list) :
                   /\ PlaceOf(searches[i].list, x) \in 1..Len(searches[i].list)
                   /\ searches[i].list[PlaceOf(searches[i].list, x)] = x
<1>1. Len(searches) \in Nat \ {0} /\ DOMAIN searches = 1..Len(searches)
  BY DEF LedBy
<1>2. ASSUME NEW i \in 1..Len(searches)
      PROVE  /\ searches[i].list \in SearchLists /\ searches[i].list # <<>> /\ searches[i].list[1] = p
             /\ searches[i].relevance \in [Passages -> Int]
  <2>1. searches[i] \in SearchResults
    BY DEF LedBy
  <2> QED
    BY <2>1 DEF SearchResults, LedBy
<1>3. ASSUME NEW list \in SearchLists, list # <<>>
      PROVE  /\ list[1] \in Members(list) /\ PlaceOf(list, list[1]) = 1 /\ Members(list) \subseteq Passages
             /\ \A x \in Members(list) : PlaceOf(list, x) \in 1..Len(list) /\ list[PlaceOf(list, x)] = x
  <2>1. list \in Seq(Passages) /\ Distinct(list)
    BY DEF SearchLists
  <2>2. Members(list) \subseteq Passages
    BY <2>1 DEF Members
  <2> QED
    BY <1>3, <2>1, <2>2, PlacesAreIndices
<1> QED
  BY <1>1, <1>2, <1>3

\* The sum over the searches, one by one.
Sums(sum, searches, x) ==
  /\ sum \in [0..Len(searches) -> Nat] /\ sum[0] = 0
  /\ \A k \in 1..Len(searches) : sum[k] = sum[k - 1] + Reciprocal(searches[k].list, x)

LEMMA TotalIsASum ==
  ASSUME NEW searches, NEW p, LedBy(searches, p), NEW x
  PROVE  \E sum : Sums(sum, searches, x) /\ Total(searches, x) = sum[Len(searches)]
<1> DEFINE n == Len(searches)
           part(k) == Reciprocal(searches[k].list, x)
           F(g) == [k \in 0..n |-> IF k = 0 THEN 0 ELSE g[k - 1] + part(k)]
           sum == CHOOSE g : g = F(g)
           step == [k \in 1..n |-> [v \in Nat |-> v + part(k)]]
<1>1. Total(searches, x) = sum[n]
  BY DEF Total
<1>2. n \in Nat /\ \A k \in 1..n : part(k) \in Nat
  BY LedShape, ReciprocalsShrink
<1> HIDE DEF part, n
<1>3. step \in [1..n -> [Nat -> Nat]]
  BY <1>2
<1>4. PICK f : Solves(f, n, Nat, 0, step)
  <2> HIDE DEF step
  <2> QED
    BY <1>2, <1>3, RecursionHas
<1>5. f \in [0..n -> Nat] /\ f[0] = 0 /\ \A k \in 1..n : f[k] = f[k - 1] + part(k)
  <2>1. f \in [0..n -> Nat] /\ f[0] = 0 /\ \A k \in 1..n : f[k] = step[k][f[k - 1]]
    BY <1>4 DEF Solves
  <2>2. ASSUME NEW k \in 1..n PROVE f[k - 1] \in Nat
    BY <1>2, <2>1
  <2> QED
    BY <2>1, <2>2
<1>6. f = F(f)
  <2>1. ASSUME NEW k \in 0..n PROVE f[k] = IF k = 0 THEN 0 ELSE f[k - 1] + part(k)
    BY <1>2, <1>5
  <2> QED
    BY <1>5, <2>1
<1>7. sum = F(sum)
  <2> HIDE DEF F
  <2> QED
    BY <1>6
<1> HIDE DEF sum
<1>8. sum[0] = 0 /\ \A k \in 1..n : sum[k] = sum[k - 1] + part(k)
  <2>1. \A k \in 0..n : sum[k] = IF k = 0 THEN 0 ELSE sum[k - 1] + part(k)
    BY <1>7
  <2> QED
    BY <1>2, <2>1
<1> DEFINE P == {k \in 0..n : sum[k] \in Nat}
<1>9. 0 \in P /\ \A k \in 1..n : k - 1 \in P => k \in P
  BY <1>2, <1>8
<1>10. \A k \in 0..n : k \in P
  <2> HIDE DEF P
  <2> QED
    BY <1>2, <1>9, UpFrom
<1>11. sum \in [0..n -> Nat]
  <2>1. sum = [k \in 0..n |-> sum[k]]
    BY <1>7
  <2> QED
    BY <1>10, <2>1
<1>12. Sums(sum, searches, x)
  BY <1>8, <1>11 DEF Sums, n, part
<1> QED
  BY <1>1, <1>12 DEF n

LEMMA LeaderHasTheTotal ==
  ASSUME NEW searches, NEW p, LedBy(searches, p), NEW x
  PROVE  Total(searches, x) \in Nat /\ Total(searches, x) <= Total(searches, p)
<1>1. PICK s : Sums(s, searches, x) /\ Total(searches, x) = s[Len(searches)]
  BY TotalIsASum
<1>2. PICK t : Sums(t, searches, p) /\ Total(searches, p) = t[Len(searches)]
  BY TotalIsASum
<1> DEFINE n == Len(searches)
           P == {k \in 0..n : s[k] <= t[k]}
<1>3. n \in Nat
  BY LedShape
<1>4. s \in [0..n -> Nat] /\ t \in [0..n -> Nat] /\ s[0] = 0 /\ t[0] = 0
  BY <1>1, <1>2 DEF Sums
<1>5. ASSUME NEW k \in 1..n, k - 1 \in P PROVE k \in P
  <2>1. /\ Reciprocal(searches[k].list, x) \in Nat /\ Reciprocal(searches[k].list, p) \in Nat
        /\ Reciprocal(searches[k].list, x) <= Reciprocal(searches[k].list, p)
    BY LedShape, ReciprocalsShrink
  <2>2. /\ s[k] = s[k - 1] + Reciprocal(searches[k].list, x)
        /\ t[k] = t[k - 1] + Reciprocal(searches[k].list, p)
    BY <1>1, <1>2 DEF Sums
  <2>3. s[k - 1] \in Nat /\ t[k - 1] \in Nat /\ s[k - 1] <= t[k - 1]
    BY <1>3, <1>4, <1>5
  <2> QED
    BY <1>3, <2>1, <2>2, <2>3
<1>6. \A k \in 0..n : k \in P
  <2>1. 0 \in P
    BY <1>3, <1>4
  <2> HIDE DEF P, n
  <2> QED
    BY <1>3, <1>5, <2>1, UpFrom
<1> QED
  BY <1>1, <1>2, <1>3, <1>4, <1>6


\* The search a passage is first met in.
FirstSearch(searches, y) ==
  CHOOSE i \in DOMAIN searches :
    /\ y \in Members(searches[i].list)
    /\ \A j \in 1..(i - 1) : y \notin Members(searches[j].list)
AllMembers(searches) == UNION {Members(searches[i].list) : i \in DOMAIN searches}

LEMMA FirstSearchIsOne ==
  ASSUME NEW searches, NEW p, LedBy(searches, p)
  PROVE  /\ \A y \in AllMembers(searches) : FirstSearch(searches, y) \in 1..Len(searches)
                                            /\ y \in Members(searches[FirstSearch(searches, y)].list)
         /\ p \in AllMembers(searches) /\ FirstSearch(searches, p) = 1
         /\ AllMembers(searches) \subseteq Passages
<1>1. Len(searches) \in Nat \ {0} /\ DOMAIN searches = 1..Len(searches)
  BY LedShape
<1>2. ASSUME NEW y \in AllMembers(searches)
      PROVE  \E i \in DOMAIN searches : /\ y \in Members(searches[i].list)
                                        /\ \A j \in 1..(i - 1) : y \notin Members(searches[j].list)
  <2> DEFINE H == {i \in 1..Len(searches) : y \in Members(searches[i].list)}
  <2>1. H \subseteq Nat /\ H # {}
    BY <1>1 DEF AllMembers
  <2>2. PICK m \in H : \A k \in H : m <= k
    <3> HIDE DEF H
    <3> QED
      BY <2>1, LeastElement
  <2>3. \A j \in 1..(m - 1) : j \notin H
    BY <1>1, <2>2
  <2> QED
    BY <1>1, <2>2, <2>3
<1>3. \A y \in AllMembers(searches) :
        /\ FirstSearch(searches, y) \in DOMAIN searches
        /\ y \in Members(searches[FirstSearch(searches, y)].list)
        /\ \A j \in 1..(FirstSearch(searches, y) - 1) : y \notin Members(searches[j].list)
  BY <1>2 DEF FirstSearch
<1>4. \A i \in 1..Len(searches) : p \in Members(searches[i].list) /\ Members(searches[i].list) \subseteq Passages
  BY LedShape
<1>5. p \in AllMembers(searches) /\ AllMembers(searches) \subseteq Passages
  BY <1>1, <1>4 DEF AllMembers
<1>6. FirstSearch(searches, p) = 1
  BY <1>1, <1>3, <1>4, <1>5
<1> QED
  BY <1>1, <1>3, <1>5, <1>6

\* reciprocal_rank_fusion: what leads every search leads what they are fused to.
LEMMA QueriesFuse ==
  ASSUME NEW searches, NEW p, LedBy(searches, p)
  PROVE  /\ FuseQueries(searches) \in SearchLists /\ FuseQueries(searches) # <<>>
         /\ FuseQueries(searches)[1] = p
         /\ Members(FuseQueries(searches)) \subseteq AllMembers(searches)
<1> DEFINE S == AllMembers(searches)
           at(x) == FirstSearch(searches, x)
           place(x) == PlaceOf(searches[at(x)].list, x)
           Ahead(x, y) == \/ Total(searches, x) > Total(searches, y)
                          \/ Total(searches, x) = Total(searches, y) /\ Earlier(searches, x, y)
           R == {r \in S \X S : Ahead(r[1], r[2])}
           list == [i \in 1..Cardinality(S) |->
                      CHOOSE y \in S : Cardinality({x \in S \ {y} : Ahead(x, y)}) = i - 1]
<1>1. FuseQueries(searches) = FirstOf(list, Pool)
  BY DEF FuseQueries, Ordered, AllMembers
<1>2. ASSUME NEW x, NEW y
      PROVE  Earlier(searches, x, y) <=> at(x) < at(y) \/ (at(x) = at(y) /\ place(x) < place(y))
  BY DEF Earlier, FirstSearch
<1>3. /\ p \in S /\ at(p) = 1 /\ S \subseteq Passages
      /\ \A x \in S : at(x) \in 1..Len(searches) /\ x \in Members(searches[at(x)].list)
  BY FirstSearchIsOne
<1>4. IsFiniteSet(S)
  BY <1>3, PassagesAreFinite, FS_Subset
<1>5. \A x : Total(searches, x) \in Nat /\ Total(searches, x) <= Total(searches, p)
  BY LeaderHasTheTotal
<1>6. /\ \A x \in S : place(x) \in 1..Len(searches[at(x)].list) /\ searches[at(x)].list[place(x)] = x
      /\ place(p) = 1 /\ Len(searches) \in Nat
      /\ \A x \in S : place(x) \in Nat \ {0}
  <2>1. \A i \in 1..Len(searches) : Len(searches[i].list) \in Nat
    BY LedShape DEF SearchLists
  <2>2. \A x \in S : place(x) \in 1..Len(searches[at(x)].list) /\ searches[at(x)].list[place(x)] = x
    BY <1>3, LedShape
  <2>3. place(p) = 1 /\ Len(searches) \in Nat
    BY <1>3, LedShape
  <2> HIDE DEF S, place, at
  <2> QED
    BY <1>3, <2>1, <2>2, <2>3
<1> HIDE DEF S, at
<1> DEFINE score == [x \in S |-> Total(searches, x)]
           a == [x \in S |-> at(x)]
           b == [x \in S |-> place(x)]
<1>7. StrictOrder(S, R)
  <2>1. score \in [S -> Int] /\ a \in [S -> Int] /\ b \in [S -> Int]
    BY <1>3, <1>5, <1>6
  <2>2. \A x, y \in S : a[x] = a[y] /\ b[x] = b[y] => x = y
    BY <1>6
  <2>3. ASSUME NEW x \in S, NEW y \in S
        PROVE  <<x, y>> \in R <=> \/ score[x] > score[y]
                                  \/ /\ score[x] = score[y]
                                     /\ a[x] < a[y] \/ (a[x] = a[y] /\ b[x] < b[y])
    BY <1>2
  <2>4. \A x, y \in S : <<x, y>> \in R <=> \/ score[x] > score[y]
                                  \/ /\ score[x] = score[y]
                                     /\ a[x] < a[y] \/ (a[x] = a[y] /\ b[x] < b[y])
    BY <2>3
  <2> HIDE DEF R, score, a, b
  <2>5. ByScore(S, R, score, a, b)
    BY <2>1, <2>2, <2>4 DEF ByScore
  <2> QED
    BY <2>5, ScoresOrder
<1>8. \A y \in S : {x \in S \ {y} : Ahead(x, y)} = Before(S, R, y)
  BY DEF Before
<1>9. \A x \in S \ {p} : <<p, x>> \in R
  <2>1. ASSUME NEW x \in S \ {p} PROVE Ahead(p, x)
    <3>1. at(x) = 1 => place(x) # 1
      BY <1>3, <1>6
    <3>2. at(x) \in Nat /\ at(x) >= 1 /\ place(x) >= 1 /\ place(x) \in Nat
      BY <1>3, <1>6
    <3>3. Earlier(searches, p, x)
      BY <1>2, <1>3, <1>6, <3>1, <3>2
    <3> QED
      BY <1>5, <3>3
  <2> QED
    BY <1>3, <2>1
<1> HIDE DEF R, Ahead
<1>10. ASSUME NEW i \in 1..Cardinality(S) PROVE list[i] \in S /\ Cardinality(Before(S, R, list[i])) = i - 1
  <2>1. \E y \in S : Cardinality({x \in S \ {y} : Ahead(x, y)}) = i - 1
    <3>1. PICK y \in S : Cardinality(Before(S, R, y)) = i - 1
      BY <1>4, <1>7, EveryRankIsTaken
    <3> QED
      BY <1>8, <3>1
  <2>2. list[i] \in S /\ Cardinality({x \in S \ {list[i]} : Ahead(x, list[i])}) = i - 1
    BY <2>1
  <2> HIDE DEF list
  <2> QED
    BY <1>8, <2>2
<1>11. list \in [1..Cardinality(S) -> S]
  BY <1>10
<1> HIDE DEF list
<1>12. /\ list \in Seq(S) /\ Distinct(list) /\ Members(list) = S
       /\ Len(list) = Cardinality(S) /\ Cardinality(S) > 0 /\ list[1] = p
  <2>1. \A i \in 1..Cardinality(S) : Cardinality(Before(S, R, list[i])) = i - 1
    BY <1>10
  <2>2. /\ list \in Seq(S) /\ Len(list) = Cardinality(S) /\ Distinct(list) /\ Members(list) = S
        /\ \A q \in S : (\A x \in S \ {q} : <<q, x>> \in R) => Cardinality(S) > 0 /\ list[1] = q
    <3>1. Ranked(list, S, R)
      BY <1>4, <1>7, <1>11, <2>1 DEF Ranked
    <3> QED
      BY <3>1, RankedList
  <2> QED
    BY <1>3, <1>9, <2>2
<1>13. list \in Seq(Passages) /\ list # <<>> /\ Distinct(list) /\ list[1] = p
  BY <1>3, <1>12
<1>14. Pool \in Nat \ {0}
  BY RetrievalAssumption
<1> DEFINE f == FirstOf(list, Pool)
<1>15. /\ f \in Seq(Passages) /\ Members(f) \subseteq Members(list)
       /\ Distinct(list) => Distinct(f)
       /\ (list = <<>>) <=> (f = <<>>)
       /\ list # <<>> => f[1] = list[1]
  BY <1>13, <1>14, FirstOnes
<1> HIDE DEF f
<1>16. FuseQueries(searches) = f
  BY <1>1 DEF f
<1> QED
  BY <1>12, <1>13, <1>15, <1>16 DEF SearchLists, S

LEMMA WholeShare ==
  ASSUME NEW s \in Nat \ {0} PROVE (100 * s) \div s = 100
<1>1. 100 * s = s * 100 + 0
  OBVIOUS
<1> QED
  BY <1>1

\* A score as a share of the best of its list: the first of a list has it all.
Scored(list, score) == list \in SearchLists /\ score \in [1..Cardinality(Passages) -> Int]

LEMMA SharesOfAList ==
  ASSUME NEW list, NEW score, Scored(list, score)
  PROVE  /\ \A x : Share(list, score, x) \in Int
         /\ (list # <<>> /\ score[1] > 0) => (Share(list, score, list[1]) = 100)
<1> USE DEF Scored
<1>1. Cardinality(Passages) \in Nat /\ Len(list) <= Cardinality(Passages) /\ Len(list) \in Nat
  BY PassagesAreFinite, NoLonger DEF SearchLists
<1>2. \A x \in Members(list) : PlaceOf(list, x) \in 1..Len(list)
  BY PlacesAreIndices DEF SearchLists
<1>3. ASSUME NEW x, x \in Members(list), score[1] > 0 PROVE Share(list, score, x) \in Int
  <2> DEFINE v == score[PlaceOf(list, x)]
  <2>1. 1 \in 1..Cardinality(Passages) /\ PlaceOf(list, x) \in 1..Cardinality(Passages)
    BY <1>1, <1>2, <1>3
  <2>2. score[1] \in Int /\ v \in Int
    BY <2>1
  <2> HIDE DEF v
  <2>3. 100 * Positive(v) \in Int
    BY <2>2 DEF Positive, Most
  <2>4. (100 * Positive(v)) \div score[1] \in Int
    BY <1>3, <2>2, <2>3
  <2> QED
    BY <1>3, <2>4 DEF Share, v
<1>4. \A x : ~(x \in Members(list) /\ score[1] > 0) => Share(list, score, x) = 0
  BY DEF Share
<1>5. ASSUME list # <<>>, score[1] > 0 PROVE Share(list, score, list[1]) = 100
  <2>1. list[1] \in Members(list) /\ PlaceOf(list, list[1]) = 1
    BY <1>5, PlacesAreIndices DEF SearchLists
  <2>2. 1 \in 1..Cardinality(Passages)
    BY <1>1, <1>5, <1>2, <2>1
  <2>3. score[1] \in Nat \ {0} /\ Positive(score[1]) = score[1]
    BY <1>5, <2>2 DEF Positive, Most
  <2>4. (100 * score[1]) \div score[1] = 100
    BY <2>3, WholeShare
  <2> QED
    BY <1>5, <2>1, <2>3, <2>4 DEF Share
<1> QED
  BY <1>3, <1>4, <1>5

\* _fuse: a search's relevances are whole numbers, and a passage that leads both
\* lists with a positive cosine has the highest.
LEMMA RelevancesOfASearch ==
  ASSUME NEW sem \in SearchLists, NEW key \in SearchLists, NEW cosine \in Cosines, Passages # {}
  PROVE  /\ \A x : Relevance(sem, cosine, key, x) \in Int
         /\ sem # <<>> /\ key # <<>> /\ sem[1] = key[1] /\ cosine[1] > 0 =>
              Relevance(sem, cosine, key, sem[1]) = 100
<1>1. /\ cosine \in [1..Cardinality(Passages) -> Int] /\ Strengths \in [1..Cardinality(Passages) -> Int]
      /\ Strengths[1] > 0 /\ SemanticTenths \in 0..10
  BY RetrievalAssumption
<1>2. ASSUME NEW s \in Int, NEW k \in Int
      PROVE  /\ (SemanticTenths * s + (10 - SemanticTenths) * k) \div 10 \in Int
             /\ s = 100 /\ k = 100 => (SemanticTenths * s + (10 - SemanticTenths) * k) \div 10 = 100
  <2>1. SemanticTenths * s + (10 - SemanticTenths) * k \in Int
    BY <1>1
  <2>2. SemanticTenths * 100 + (10 - SemanticTenths) * 100 = 1000
    BY <1>1
  <2>3. 1000 \div 10 = 100
    OBVIOUS
  <2> QED
    BY <2>1, <2>2, <2>3
<1>3. Scored(sem, cosine) /\ Scored(key, Strengths)
  BY <1>1 DEF Scored
<1>4. \A x : Share(sem, cosine, x) \in Int /\ Share(key, Strengths, x) \in Int
  BY <1>3, SharesOfAList
<1>5. ASSUME sem # <<>>, key # <<>>, sem[1] = key[1], cosine[1] > 0
      PROVE  Share(sem, cosine, sem[1]) = 100 /\ Share(key, Strengths, sem[1]) = 100
  <2>1. Strengths[1] > 0
    BY <1>1
  <2>2. Share(sem, cosine, sem[1]) = 100
    BY <1>3, <1>5, SharesOfAList
  <2>3. Share(key, Strengths, key[1]) = 100
    BY <1>3, <1>5, <2>1, SharesOfAList
  <2> QED
    BY <1>5, <2>2, <2>3
<1> QED
  BY <1>2, <1>4, <1>5 DEF Relevance

LEMMA GreatestOf ==
  ASSUME NEW n \in Nat, NEW f \in [1..n -> Int], NEW H, H \subseteq 1..n, H # {}
  PROVE  \E i \in H : \A j \in H : f[j] <= f[i]
<1> DEFINE Great(k, i) == i \in H /\ i <= k /\ \A j \in H : j <= k => f[j] <= f[i]
           P == {k \in 0..n : (\E i \in H : i <= k) => \E i \in H : Great(k, i)}
<1>1. \A i \in H : i \in Nat /\ 0 < i /\ i <= n /\ f[i] \in Int
  OBVIOUS
<1>2. 0 \in P
  BY <1>1
<1>3. ASSUME NEW k \in 1..n, k - 1 \in P PROVE k \in P
  <2>1. CASE \A i \in H : ~(i <= k - 1)
    <3>1. \A i \in H : i <= k => i = k
      BY <1>1, <2>1
    <3> QED
      BY <1>1, <3>1
  <2>2. CASE \E i \in H : i <= k - 1
    <3>1. PICK i \in H : Great(k - 1, i)
      BY <1>3, <2>2
    <3>2. \A j \in H : j <= k => j = k \/ j <= k - 1
      BY <1>1
    <3>3. CASE k \in H /\ f[i] < f[k]
      <4>1. Great(k, k)
        BY <1>1, <3>1, <3>2, <3>3
      <4> QED
        BY <3>3, <4>1
    <3>4. CASE ~(k \in H /\ f[i] < f[k])
      <4>1. Great(k, i)
        BY <1>1, <3>1, <3>2, <3>4
      <4> QED
        BY <4>1
    <3> QED
      BY <3>3, <3>4
  <2> QED
    BY <2>1, <2>2
<1>4. n \in P
  <2> HIDE DEF P
  <2> QED
    BY <1>2, <1>3, UpFrom, n \in 0..n
<1>5. \E i \in H : Great(n, i)
  BY <1>1, <1>4
<1> QED
  BY <1>1, <1>5

\* What the fusion says a passage is worth, one of the searches said.
LEMMA BestIsOneOfThem ==
  ASSUME NEW searches, NEW p, LedBy(searches, p), NEW x \in AllMembers(searches)
  PROVE  \E i \in 1..Len(searches) : BestRelevance(searches, x) = searches[i].relevance[x]
<1> DEFINE n == Len(searches)
           H == {j \in DOMAIN searches : x \in Members(searches[j].list)}
           f == [i \in 1..n |-> searches[i].relevance[x]]
           values == {searches[i].relevance[x] : i \in H}
<1>1. n \in Nat /\ DOMAIN searches = 1..n /\ x \in Passages
  BY LedShape, FirstSearchIsOne
<1>2. f \in [1..n -> Int]
  BY <1>1, LedShape
<1>3. H \subseteq 1..n /\ H # {}
  BY <1>1 DEF AllMembers
<1>4. PICK i \in H : \A j \in H : f[j] <= f[i]
  <2> HIDE DEF H, f, n
  <2> QED
    BY <1>1, <1>2, <1>3, GreatestOf
<1>5. \E v \in values : \A w \in values : w <= v
  BY <1>3, <1>4
<1>6. BestRelevance(searches, x) \in values
  <2>1. BestRelevance(searches, x) = CHOOSE v \in values : \A w \in values : w <= v
    BY DEF BestRelevance
  <2> HIDE DEF values
  <2> QED
    BY <1>5, <2>1
<1> QED
  BY <1>3, <1>6

\* RagPipeline.query asks at least one query, and no more than the limit.
LEMMA SomeAreAsked ==
  ASSUME NEW q \in Asked PROVE Rewritten(q) \in 1..NumQueries
<1> DEFINE usable == Among(q.parsed, Members(q.parsed) \ {"unusable"})
           candidates == Append(usable, "question")
           new == {i \in DOMAIN candidates : \A j \in 1..(i - 1) : candidates[j] # candidates[i]}
<1>1. Rewritten(q) = Least(NumQueries, Cardinality(new))
  BY DEF Rewritten
<1>2. usable \in Seq(RawQueries)
  BY AskedShape, AmongIsASublist
<1>3. "question" \in RawQueries
  BY DEF RawQueries
<1> HIDE DEF usable
<1>4. candidates \in Seq(RawQueries) /\ Len(candidates) \in Nat /\ Len(candidates) > 0
  BY <1>2, <1>3
<1> HIDE DEF candidates
<1>5. DOMAIN candidates = 1..Len(candidates) /\ 1 \in new
  BY <1>4
<1>6. IsFiniteSet(new) /\ Cardinality(new) \in Nat
  <2>1. IsFiniteSet(1..Len(candidates))
    BY <1>4, FS_Interval
  <2>2. new \subseteq 1..Len(candidates)
    BY <1>5
  <2> HIDE DEF new
  <2> QED
    BY <2>1, <2>2, FS_Subset, FS_CardinalityType
<1> HIDE DEF new
<1>7. Cardinality(new) # 0
  BY <1>5, <1>6, FS_EmptySet
<1> QED
  BY <1>1, <1>6, <1>7, RetrievalAssumption DEF Least

\* Every search of q is led by p on both sides.
AgreedOn(q, p) ==
  /\ q \in Asked /\ p \in Passages /\ q.cosine[1] > 0
  /\ \A i \in 1..Rewritten(q) : /\ Semantic(q, i) # <<>> /\ Semantic(q, i)[1] = p
                                /\ Keyword(q, i) # <<>> /\ Keyword(q, i)[1] = p
SearchesOf(q) == [i \in 1..Rewritten(q) |-> SearchResult(q, i)]

LEMMA SearchesAreLed ==
  ASSUME NEW q, NEW p, AgreedOn(q, p)
  PROVE  /\ LedBy(SearchesOf(q), p) /\ Len(SearchesOf(q)) = Rewritten(q)
         /\ \A i \in 1..Rewritten(q) : SearchesOf(q)[i].relevance[p] = 100
<1> DEFINE n == Rewritten(q)
<1>1. q \in Asked /\ p \in Passages /\ Passages # {} /\ q.cosine[1] > 0
  BY DEF AgreedOn
<1>2. n \in 1..NumQueries /\ NumQueries \in Nat \ {0} /\ q.cosine \in Cosines
  BY <1>1, SomeAreAsked, AskedShape, RetrievalAssumption
<1>3. ASSUME NEW i \in 1..n
      PROVE  /\ SearchResult(q, i) \in SearchResults /\ SearchResult(q, i).list # <<>>
             /\ SearchResult(q, i).list[1] = p /\ SearchResult(q, i).relevance[p] = 100
  <2> DEFINE sem == Semantic(q, i)
             key == Keyword(q, i)
  <2>1. sem # <<>> /\ sem[1] = p /\ key # <<>> /\ key[1] = p
    BY <1>3 DEF AgreedOn
  <2>2. sem \in SearchLists /\ key \in SearchLists
    <3>1. i \in 1..NumQueries
      BY <1>2
    <3> QED
      BY <1>1, <3>1, StoresAnswerLists
  <2>3. /\ SearchResult(q, i).list = FuseStores(sem, key)
        /\ SearchResult(q, i).relevance = [x \in Passages |-> Relevance(sem, q.cosine, key, x)]
        /\ SearchResult(q, i) = [list |-> FuseStores(sem, key),
                                 relevance |-> [x \in Passages |-> Relevance(sem, q.cosine, key, x)]]
    BY DEF SearchResult
  <2> HIDE DEF sem, key
  <2>4. FuseStores(sem, key) \in SearchLists /\ FuseStores(sem, key) # <<>> /\ FuseStores(sem, key)[1] = p
    BY <2>1, <2>2, StoresFuse
  <2>5. (\A x : Relevance(sem, q.cosine, key, x) \in Int) /\ Relevance(sem, q.cosine, key, p) = 100
    BY <1>1, <1>2, <2>1, <2>2, RelevancesOfASearch
  <2>6. [x \in Passages |-> Relevance(sem, q.cosine, key, x)] \in [Passages -> Int]
    BY <2>5
  <2>7. SearchResult(q, i) \in SearchResults
    BY <2>3, <2>4, <2>6 DEF SearchResults
  <2> QED
    BY <1>1, <2>3, <2>4, <2>5, <2>7
<1>4. /\ SearchesOf(q) \in Seq(SearchResults) /\ Len(SearchesOf(q)) = n
      /\ \A i \in 1..n : SearchesOf(q)[i] = SearchResult(q, i)
  BY <1>2, <1>3 DEF SearchesOf
<1>5. SearchesOf(q) # <<>>
  BY <1>2, <1>4
<1> QED
  BY <1>3, <1>4, <1>5 DEF LedBy

\* Another parent's passage is as relevant as p's, as far as the searches say.
RivalIn(list, relevance, p) ==
  \E r \in Members(list) : ParentOf(r) # ParentOf(p) /\ Apart(relevance[p], relevance[r]) < 2

\* QualityGate: a first passage of the highest relevance is refused only for a rival.
LEMMA GateLetsThrough ==
  ASSUME NEW list \in SearchLists, list # <<>>, NEW relevance, relevance[list[1]] = 100
  PROVE  \/ GateStatus(list, relevance) = "HIGH_CONFIDENCE"
         \/ GateStatus(list, relevance) = "AMBIGUOUS" /\ RivalIn(list, relevance, list[1])
<1> DEFINE rivals == {i \in DOMAIN list : ParentOf(list[i]) # ParentOf(list[1])}
           at == CHOOSE i \in rivals : \A j \in rivals : i <= j
<1>1. ~(list = <<>> \/ relevance[list[1]] <= 0) /\ ~(relevance[list[1]] < 15)
  OBVIOUS
<1>2. GateStatus(list, relevance) =
        IF rivals # {} /\ Apart(relevance[list[1]], relevance[list[at]]) < 2
        THEN "AMBIGUOUS" ELSE "HIGH_CONFIDENCE"
  BY <1>1 DEF GateStatus
<1>3. ASSUME rivals # {} PROVE at \in rivals
  <2>1. rivals \subseteq Nat
    BY DEF SearchLists
  <2> HIDE DEF rivals
  <2>2. \E i \in rivals : \A j \in rivals : i <= j
    BY <1>3, <2>1, LeastElement
  <2> QED
    BY <2>2
<1>4. at \in rivals => list[at] \in Members(list) /\ ParentOf(list[at]) # ParentOf(list[1])
  BY DEF Members
<1> HIDE DEF rivals, at
<1> QED
  BY <1>2, <1>3, <1>4 DEF RivalIn

\* What is kept of a list, one passage a parent, begins with the list's first.
LEMMA FirstIsKept ==
  ASSUME NEW list \in SearchLists, list # <<>> PROVE UniqueParents(list)[1] = list[1]
<1> DEFINE new == {p \in Members(list) : \A i \in 1..(PlaceOf(list, p) - 1) :
                                            ParentOf(list[i]) # ParentOf(p)}
           kept == Among(list, new)
<1>1. UniqueParents(list) = FirstOf(kept, TopK)
  BY DEF UniqueParents
<1>2. list \in Seq(Passages) /\ TopK \in Nat \ {0}
  BY RetrievalAssumption DEF SearchLists
<1>3. list[1] \in new
  BY PlacesAreIndices DEF SearchLists
<1> HIDE DEF new
<1>4. kept \in Seq(Passages) /\ kept # <<>> /\ kept[1] = list[1]
  BY <1>2, <1>3, AmongIsASublist
<1> HIDE DEF kept
<1>5. FirstOf(kept, TopK)[1] = kept[1]
  BY <1>2, <1>4, FirstOnes
<1> QED
  BY <1>1, <1>4, <1>5

\* The question all searches agree on is answered, unless it has a rival.
LEMMA AgreedResult ==
  ASSUME NEW q, NEW p, AgreedOn(q, p), q.scores = <<>>, q.words = {}
  PROVE  \/ QueryResult(q) = [status |-> "ANSWERED", cites |-> p]
         \/ /\ QueryResult(q) = Refused("AMBIGUOUS")
            /\ \E i, j \in 1..Rewritten(q), r \in Passages :
                 /\ ParentOf(r) # ParentOf(p)
                 /\ Apart(SearchResult(q, i).relevance[r], SearchResult(q, j).relevance[p]) < 2
<1> DEFINE searches == SearchesOf(q)
           list == FuseQueries(searches)
           relevance == [x \in Members(list) |-> BestRelevance(searches, x)]
           status == GateStatus(list, relevance)
           kept == UniqueParents(IF status = "HIGH_CONFIDENCE" THEN Reranked(list, q.scores) ELSE list)
<1>1. QueryResult(q) = AnswerWithCitations(kept, status)
  <2>1. Route(q.words) = "rag"
    BY DEF Route
  <2> QED
    BY <2>1 DEF QueryResult, SearchesOf
<1>2. /\ LedBy(searches, p) /\ Len(searches) = Rewritten(q)
      /\ \A i \in 1..Rewritten(q) : searches[i].relevance[p] = 100 /\ searches[i] = SearchResult(q, i)
  <2>1. /\ LedBy(searches, p) /\ Len(searches) = Rewritten(q)
        /\ \A i \in 1..Rewritten(q) : searches[i].relevance[p] = 100
    BY SearchesAreLed
  <2>2. \A i \in 1..Rewritten(q) : searches[i] = SearchResult(q, i)
    BY DEF SearchesOf
  <2> QED
    BY <2>1, <2>2
<1> HIDE DEF searches
<1>3. /\ list \in SearchLists /\ list # <<>> /\ list[1] = p
      /\ Members(list) \subseteq AllMembers(searches) /\ AllMembers(searches) \subseteq Passages
      /\ p \in Members(list)
  <2>1. /\ list \in SearchLists /\ list # <<>> /\ list[1] = p
        /\ Members(list) \subseteq AllMembers(searches) /\ AllMembers(searches) \subseteq Passages
    BY <1>2, QueriesFuse, FirstSearchIsOne
  <2>2. p \in Members(list)
    <3> HIDE DEF list
    <3> QED
      BY <2>1, PlacesAreIndices DEF SearchLists
  <2> QED
    BY <2>1, <2>2
<1>4. kept = UniqueParents(list)
  BY DEF Reranked
<1> HIDE DEF list
<1>5. kept[1] = p
  BY <1>3, <1>4, FirstIsKept
<1>6. \A x \in Members(list) : \E i \in 1..Rewritten(q) : relevance[x] = searches[i].relevance[x]
  BY <1>2, <1>3, BestIsOneOfThem
<1>7. relevance[p] = 100
  BY <1>2, <1>3, <1>6
<1> HIDE DEF relevance, kept
<1>8. \/ status = "HIGH_CONFIDENCE"
      \/ status = "AMBIGUOUS" /\ RivalIn(list, relevance, p)
  BY <1>3, <1>7, GateLetsThrough
<1> HIDE DEF status
<1>9. CASE status = "HIGH_CONFIDENCE"
  BY <1>1, <1>5, <1>9 DEF AnswerWithCitations
<1>10. CASE status = "AMBIGUOUS" /\ RivalIn(list, relevance, p)
  <2>1. QueryResult(q) = Refused("AMBIGUOUS")
    BY <1>1, <1>10 DEF AnswerWithCitations
  <2>2. PICK r \in Members(list) : ParentOf(r) # ParentOf(p) /\ Apart(relevance[p], relevance[r]) < 2
    BY <1>10 DEF RivalIn
  <2>3. PICK i \in 1..Rewritten(q) : relevance[r] = searches[i].relevance[r]
    BY <1>6
  <2>4. PICK j \in 1..Rewritten(q) : relevance[p] = searches[j].relevance[p]
    BY <1>3, <1>6
  <2>5. r \in Passages /\ relevance[r] \in Int /\ relevance[p] \in Int
    <3>1. r \in Passages /\ p \in Passages
      BY <1>3
    <3>2. searches[i].relevance \in [Passages -> Int] /\ searches[j].relevance \in [Passages -> Int]
      BY <1>2, LedShape
    <3> QED
      BY <2>3, <2>4, <3>1, <3>2
  <2>6. Apart(relevance[r], relevance[p]) < 2
    BY <2>2, <2>5 DEF Apart, Most
  <2> QED
    BY <1>2, <2>1, <2>2, <2>3, <2>4, <2>5, <2>6
<1> QED
  BY <1>8, <1>9, <1>10

AskInv == question \in Asked /\ (answer.status # "none" => answer = QueryResult(question))

\* When every store leads with the same passage for every query and no reranker
\* moves it, the answer cites it, or names another parent as relevant: no fusion,
\* cut, gate or choice of parents on the way loses it (RagPipeline.query).
THEOREM AgreedIsAlwaysAnswered == AskSpec => []AgreedIsAnswered
<1>1. AskInit => AskInv
  BY DEF AskInit, AskInv, Asked, Refused
<1>2. AskInv /\ [Ask]_askVars => AskInv'
  BY DEF AskInv, Ask, askVars
<1>3. AskInv => AgreedIsAnswered
  <2> SUFFICES ASSUME AskInv, NEW p \in Passages, answer.status # "none",
                      question.scores = <<>>, Agreed(p)
               PROVE  \/ answer = [status |-> "ANSWERED", cites |-> p]
                      \/ Rivalled(p) /\ answer = Refused("AMBIGUOUS")
    BY DEF AgreedIsAnswered
  <2>1. question \in Asked /\ answer = QueryResult(question) /\ question.words = {}
    BY DEF AskInv, Agreed
  <2>2. AgreedOn(question, p)
    <3>1. ASSUME NEW i \in 1..Rewritten(question)
          PROVE  /\ Semantic(question, i) # <<>> /\ Semantic(question, i)[1] = p
                 /\ Keyword(question, i) # <<>> /\ Keyword(question, i)[1] = p
      <4>1. /\ Len(Semantic(question, i)) > 0 /\ Semantic(question, i)[1] = p
            /\ Len(Keyword(question, i)) > 0 /\ Keyword(question, i)[1] = p
        BY DEF Agreed
      <4>2. Len(<<>>) = 0
        OBVIOUS
      <4> QED
        BY <4>1, <4>2
    <3> QED
      BY <2>1, <3>1 DEF AgreedOn, Agreed
  <2> QED
    BY <2>1, <2>2, AgreedResult DEF Rivalled
<1> QED
  BY <1>1, <1>2, <1>3, PTL DEF AskSpec

-----------------------------------------------------------------------------
(* Splitting of documents.  A recursion over an interval has one solution,  *)
(* and what Without, FlattenSeq and the splitters' loops return is the last *)
(* value of one; so what they keep is shown one element after the other.    *)

\* Whatever satisfies a recursion over an interval is its solution.
LEMMA TheSolution ==
  ASSUME NEW S, NEW n \in Nat, NEW base \in S, NEW step \in [1..n -> [S -> S]], NEW g,
         g = [k \in 0..n |-> g[k]], g[0] = base,
         \A k \in 1..n : g[k - 1] \in S => g[k] = step[k][g[k - 1]]
  PROVE  Solves(g, n, S, base, step)
<1> DEFINE P == {k \in 0..n : g[k] \in S}
<1>1. 0 \in P
  OBVIOUS
<1>2. ASSUME NEW k \in 1..n, k - 1 \in P PROVE k \in P
  <2>1. g[k] = step[k][g[k - 1]] /\ step[k] \in [S -> S]
    BY <1>2
  <2> QED
    BY <1>2, <2>1
<1>3. \A k \in 0..n : k \in P
  <2> HIDE DEF P
  <2> QED
    BY <1>1, <1>2, UpFrom
<1>4. g \in [0..n -> S]
  <2>1. [k \in 0..n |-> g[k]] \in [0..n -> S]
    BY <1>3
  <2> QED
    BY <2>1
<1>5. ASSUME NEW k \in 1..n PROVE g[k] = step[k][g[k - 1]]
  <2>1. g[k - 1] \in S
    BY <1>3
  <2> QED
    BY <2>1
<1> QED
  BY <1>4, <1>5 DEF Solves

\* Two solutions agree as far as their steps do.
Alike(f, n, stepF, g, m, stepG, S, base, j) ==
  /\ {n, m, j} \subseteq Nat /\ j <= n /\ j <= m
  /\ Solves(f, n, S, base, stepF) /\ Solves(g, m, S, base, stepG)
  /\ \A k \in 1..j : \A v \in S : stepF[k][v] = stepG[k][v]

LEMMA SolutionsAgree ==
  ASSUME NEW f, NEW n, NEW stepF, NEW g, NEW m, NEW stepG, NEW S, NEW base, NEW j,
         Alike(f, n, stepF, g, m, stepG, S, base, j)
  PROVE  f[j] = g[j]
<1> USE DEF Alike
<1> DEFINE P == {k \in 0..j : f[k] = g[k]}
<1>1. /\ f \in [0..n -> S] /\ f[0] = base /\ \A k \in 1..n : f[k] = stepF[k][f[k - 1]]
      /\ g \in [0..m -> S] /\ g[0] = base /\ \A k \in 1..m : g[k] = stepG[k][g[k - 1]]
  BY DEF Solves
<1>2. 0 \in P
  BY <1>1
<1>3. ASSUME NEW k \in 1..j, k - 1 \in P PROVE k \in P
  <2>1. f[k - 1] = g[k - 1] /\ f[k - 1] \in S
    BY <1>1, <1>3
  <2>2. f[k] = stepF[k][f[k - 1]] /\ g[k] = stepG[k][g[k - 1]]
    BY <1>1
  <2> QED
    BY <2>1, <2>2
<1>4. \A k \in 0..j : k \in P
  <2> HIDE DEF P
  <2> QED
    BY <1>2, <1>3, UpFrom
<1> QED
  BY <1>4

\* Induction over sequences, for a set of them.
LEMMA EverySequence ==
  ASSUME NEW S, NEW P, <<>> \in P, \A s \in Seq(S) : \A e \in S : s \in P => Append(s, e) \in P
  PROVE  \A s \in Seq(S) : s \in P
<1>1. SUFFICES ASSUME NEW s \in Seq(S) PROVE s \in P
  OBVIOUS
<1> DEFINE n == Len(s)
           cut(k) == SubSeq(s, 1, k)
           Q == {k \in 0..n : cut(k) \in P}
<1>2. n \in Nat /\ cut(0) = <<>> /\ cut(n) = s
  BY SubSeqEmpty, SubSeqFull
<1>3. ASSUME NEW k \in 1..n PROVE cut(k - 1) \in Seq(S) /\ s[k] \in S /\ cut(k) = Append(cut(k - 1), s[k])
  <2> DEFINE r == SubSeq(s, 1, k - 1)
  <2>1. r \in Seq(S) /\ s[k] \in S
    BY <1>2
  <2>2. SubSeq(s, 1, k) = r \o <<s[k]>>
    BY SubSeqRecursiveSecond
  <2> HIDE DEF r
  <2>3. SubSeq(s, 1, k) = Append(r, s[k])
    BY <2>1, <2>2, AppendIsConcat
  <2> QED
    BY <2>1, <2>3 DEF r
<1> HIDE DEF cut
<1>4. 0 \in Q
  BY <1>2
<1>5. ASSUME NEW k \in 1..n, k - 1 \in Q PROVE k \in Q
  <2>1. cut(k - 1) \in P
    BY <1>5
  <2>2. Append(cut(k - 1), s[k]) \in P
    BY <1>3, <2>1
  <2>3. cut(k) \in P
    BY <1>3, <2>2
  <2> QED
    BY <1>2, <2>3
<1>6. \A k \in 0..n : k \in Q
  <2> HIDE DEF Q, n
  <2> QED
    BY <1>2, <1>4, <1>5, UpFrom
<1> QED
  BY <1>2, <1>6

\* Outside, one element after the other.
SiftStep(s, V, T) == [k \in 1..Len(s) |-> [v \in T |-> IF s[k] \in V THEN v ELSE Append(v, s[k])]]

LEMMA OutsideFolds ==
  ASSUME NEW S, NEW s \in Seq(S), NEW V
  PROVE  \E g : /\ Solves(g, Len(s), Seq(S), <<>>, SiftStep(s, V, Seq(S)))
                /\ Outside(s, V) = g[Len(s)]
<1> DEFINE n == Len(s)
           T == Seq(S)
           step == SiftStep(s, V, T)
           F(g) == [k \in 0..n |-> IF k = 0 THEN <<>>
                                   ELSE IF s[k] \in V THEN g[k - 1] ELSE Append(g[k - 1], s[k])]
           g == CHOOSE h : h = F(h)
<1>1. Outside(s, V) = g[n]
  BY DEF Outside, Along
<1>2. n \in Nat /\ <<>> \in T
  OBVIOUS
<1>3. ASSUME NEW k \in 1..n, NEW v \in T
      PROVE  (IF s[k] \in V THEN v ELSE Append(v, s[k])) \in T
  OBVIOUS
<1> HIDE DEF T
<1>4. step \in [1..n -> [T -> T]]
  BY <1>3 DEF SiftStep
<1>5. \A k \in 1..n : \A v \in T : step[k][v] = IF s[k] \in V THEN v ELSE Append(v, s[k])
  BY DEF SiftStep
<1> HIDE DEF step, n
<1>6. PICK f : Solves(f, n, T, <<>>, step)
  BY <1>2, <1>4, RecursionHas
<1>7. f = F(f)
  <2>1. f \in [0..n -> T] /\ f[0] = <<>> /\ \A k \in 1..n : f[k] = step[k][f[k - 1]]
    BY <1>6 DEF Solves
  <2>2. ASSUME NEW k \in 0..n PROVE f[k] = F(f)[k]
    <3>1. CASE k = 0
      BY <2>1, <3>1
    <3>2. CASE k # 0
      <4>1. k \in 1..n /\ f[k - 1] \in T
        BY <1>2, <2>1, <3>2
      <4> QED
        BY <1>5, <2>1, <3>2, <4>1
    <3> QED
      BY <3>1, <3>2
  <2> HIDE DEF F
  <2>3. F(f) = [k \in 0..n |-> F(f)[k]]
    BY DEF F
  <2> QED
    BY <2>1, <2>2, <2>3
<1>8. g = F(g)
  <2> HIDE DEF F
  <2> QED
    BY <1>7
<1> HIDE DEF g
<1>9. g = [k \in 0..n |-> g[k]] /\ g[0] = <<>>
  <2>1. g = [k \in 0..n |-> g[k]]
    BY <1>8
  <2>2. g[0] = <<>>
    BY <1>2, <1>8
  <2> QED
    BY <2>1, <2>2
<1>10. ASSUME NEW k \in 1..n, g[k - 1] \in T PROVE g[k] = step[k][g[k - 1]]
  <2>1. \A i \in 0..n : g[i] = IF i = 0 THEN <<>>
                                ELSE IF s[i] \in V THEN g[i - 1] ELSE Append(g[i - 1], s[i])
    BY <1>8
  <2>2. g[k] = IF s[k] \in V THEN g[k - 1] ELSE Append(g[k - 1], s[k])
    BY <1>2, <2>1
  <2> QED
    BY <1>5, <1>10, <2>2
<1>11. Solves(g, n, T, <<>>, step)
  <2> HIDE DEF F
  <2> QED
    BY <1>2, <1>4, <1>9, <1>10, TheSolution
<1> QED
  BY <1>1, <1>11 DEF T, n, step

\* What is left out at the end of a sequence, and what is kept there.
LEMMA OutsideSnoc ==
  ASSUME NEW S, NEW V, NEW s \in Seq(S), NEW e \in S
  PROVE  Outside(Append(s, e), V) = IF e \in V THEN Outside(s, V) ELSE Append(Outside(s, V), e)
<1> DEFINE n == Len(s)
           r == Append(s, e)
           T == Seq(S)
<1>1. r \in Seq(S) /\ Len(r) = n + 1 /\ n \in Nat /\ r[n + 1] = e /\ \A k \in 1..n : r[k] = s[k]
  OBVIOUS
<1> HIDE DEF n, r
<1>2. PICK f : Solves(f, n, T, <<>>, SiftStep(s, V, T)) /\ Outside(s, V) = f[n]
  BY OutsideFolds DEF n
<1>3. PICK g : Solves(g, n + 1, T, <<>>, SiftStep(r, V, T)) /\ Outside(r, V) = g[n + 1]
  BY <1>1, OutsideFolds
<1>4. \A k \in 1..n : \A v \in T : SiftStep(s, V, T)[k][v] = SiftStep(r, V, T)[k][v]
  BY <1>1 DEF SiftStep, n
<1> HIDE DEF T
<1>5. f[n] = g[n]
  <2>1. Alike(f, n, SiftStep(s, V, T), g, n + 1, SiftStep(r, V, T), T, <<>>, n)
    BY <1>1, <1>2, <1>3, <1>4 DEF Alike
  <2> QED
    BY <2>1, SolutionsAgree
<1>6. f[n] \in T /\ g[n + 1] = SiftStep(r, V, T)[n + 1][g[n]]
  <2>1. n \in 0..n /\ n + 1 \in 1..(n + 1) /\ (n + 1) - 1 = n
    BY <1>1
  <2>2. f[n] \in T
    BY <1>2, <2>1 DEF Solves
  <2>3. g[n + 1] = SiftStep(r, V, T)[n + 1][g[(n + 1) - 1]]
    BY <1>3, <2>1 DEF Solves
  <2> QED
    BY <2>1, <2>2, <2>3
<1>7. SiftStep(r, V, T)[n + 1][g[n]] = IF e \in V THEN g[n] ELSE Append(g[n], e)
  BY <1>1, <1>5, <1>6 DEF SiftStep
<1> QED
  BY <1>2, <1>3, <1>5, <1>6, <1>7 DEF r, T

\* Appending to a joined sequence is appending to its second part.
LEMMA AppendMoves ==
  ASSUME NEW S, NEW a \in Seq(S), NEW b \in Seq(S), NEW e \in S
  PROVE  a \o Append(b, e) = Append(a \o b, e)
<1>1. a \o Append(b, e) \in Seq(S) /\ Append(a \o b, e) \in Seq(S)
  OBVIOUS
<1>2. Len(a \o Append(b, e)) = Len(Append(a \o b, e))
  OBVIOUS
<1>3. ASSUME NEW i \in 1..Len(a \o Append(b, e)) PROVE (a \o Append(b, e))[i] = Append(a \o b, e)[i]
  OBVIOUS
<1> DEFINE l == a \o Append(b, e)
           r == Append(a \o b, e)
<1> HIDE DEF l, r
<1>4. l \in Seq(S) /\ r \in Seq(S) /\ Len(l) = Len(r) /\ \A i \in 1..Len(l) : l[i] = r[i]
  BY <1>1, <1>2, <1>3 DEF l, r
<1> QED
  BY <1>4, SeqEqual DEF l, r

\* Leaving elements out of a sequence gives a sequence of the others.
LEMMA OutsideIsOne ==
  ASSUME NEW S, NEW V, NEW s \in Seq(S)
  PROVE  Outside(s, V) \in Seq(S) /\ Outside(<<>>, V) = <<>>
<1>1. \A r \in Seq(S) : Outside(r, V) \in Seq(S)
  <2>1. ASSUME NEW r \in Seq(S) PROVE Outside(r, V) \in Seq(S)
    <3>1. PICK f : Solves(f, Len(r), Seq(S), <<>>, SiftStep(r, V, Seq(S))) /\ Outside(r, V) = f[Len(r)]
      BY OutsideFolds
    <3>2. Len(r) \in 0..Len(r)
      OBVIOUS
    <3> QED
      BY <3>1, <3>2 DEF Solves
  <2> QED
    BY <2>1
<1>2. Outside(<<>>, V) = <<>>
  <2>1. <<>> \in Seq(S) /\ Len(<<>>) = 0
    OBVIOUS
  <2> DEFINE T == Seq(S)
             none == <<>>
  <2>2. PICK h : Solves(h, Len(none), T, none, SiftStep(none, V, T)) /\ Outside(none, V) = h[Len(none)]
    BY <2>1, OutsideFolds
  <2> HIDE DEF T
  <2> QED
    BY <2>1, <2>2 DEF Solves
<1> QED
  BY <1>1, <1>2

\* Leaving elements out of two joined sequences is leaving them out of each.
LEMMA OutsideJoins ==
  ASSUME NEW S, NEW V, NEW a \in Seq(S), NEW b \in Seq(S)
  PROVE  Outside(a \o b, V) = Outside(a, V) \o Outside(b, V)
<1> DEFINE P == {c \in Seq(S) : Outside(a \o c, V) = Outside(a, V) \o Outside(c, V)}
<1>1. <<>> \in P
  <2>1. a \o <<>> = a /\ Outside(a, V) \in Seq(S) /\ Outside(<<>>, V) = <<>>
    BY ConcatEmptySeq, OutsideIsOne
  <2>2. Outside(a, V) \o <<>> = Outside(a, V)
    BY <2>1, ConcatEmptySeq
  <2> QED
    BY <2>1, <2>2
<1>2. ASSUME NEW c \in Seq(S), NEW e \in S, c \in P PROVE Append(c, e) \in P
  <2>1. a \o Append(c, e) = Append(a \o c, e) /\ a \o c \in Seq(S) /\ Append(c, e) \in Seq(S)
    BY AppendMoves
  <2>2. Outside(Append(a \o c, e), V) = IF e \in V THEN Outside(a \o c, V) ELSE Append(Outside(a \o c, V), e)
    <3>1. \A u \in Seq(S) : Outside(Append(u, e), V) = IF e \in V THEN Outside(u, V) ELSE Append(Outside(u, V), e)
      BY OutsideSnoc
    <3> QED
      BY <2>1, <3>1
  <2>3. Outside(Append(c, e), V) = IF e \in V THEN Outside(c, V) ELSE Append(Outside(c, V), e)
    BY OutsideSnoc
  <2>4. Outside(a \o c, V) = Outside(a, V) \o Outside(c, V)
    BY <1>2
  <2>5. Outside(a, V) \o Append(Outside(c, V), e) = Append(Outside(a, V) \o Outside(c, V), e)
    BY OutsideIsOne, AppendMoves
  <2> QED
    BY <2>1, <2>2, <2>3, <2>4, <2>5
<1>3. \A c \in Seq(S) : c \in P
  <2> HIDE DEF P
  <2> QED
    BY <1>1, <1>2, EverySequence
<1> QED
  BY <1>3

\* FlattenSeq, one sequence after the other.
LEMMA FlattenFolds ==
  ASSUME NEW S, NEW s \in Seq(Seq(S))
  PROVE  \E g : /\ g \in [0..Len(s) -> Seq(S)] /\ g[0] = <<>> /\ FlattenSeq(s) = g[Len(s)]
                /\ \A k \in 1..Len(s) : g[k] = g[k - 1] \o s[k]
<1> DEFINE n == Len(s)
           T == Seq(S)
           step == [k \in 1..n |-> [v \in T |-> v \o s[k]]]
           F(h) == [i \in 1..n |-> IF i = 1 THEN s[i] ELSE h[i - 1] \o s[i]]
           h == CHOOSE f : f = F(f)
<1>1. n \in Nat /\ <<>> \in T /\ \A k \in 1..n : s[k] \in T
  OBVIOUS
<1>2. \A u, v \in T : u \o v \in T
  OBVIOUS
<1>3. \A u \in T : <<>> \o u = u
  BY ConcatEmptySeq
<1>4. FlattenSeq(s) = IF n = 0 THEN s ELSE h[n]
  BY DEF FlattenSeq
<1>5. n = 0 => s = <<>>
  OBVIOUS
<1> HIDE DEF n, T, h
<1>6. \A k \in 1..n : \A v \in T : v \o s[k] \in T
  BY <1>1, <1>2
<1>7. step \in [1..n -> [T -> T]]
  BY <1>6
<1>8. \A k \in 1..n : \A v \in T : step[k][v] = v \o s[k]
  OBVIOUS
<1> HIDE DEF step
<1>9. PICK g : Solves(g, n, T, <<>>, step)
  BY <1>1, <1>7, RecursionHas
<1>10. g \in [0..n -> T] /\ g[0] = <<>> /\ \A k \in 1..n : g[k] = step[k][g[k - 1]] /\ g[k - 1] \in T
  BY <1>1, <1>9 DEF Solves
<1>11. \A k \in 1..n : g[k] = g[k - 1] \o s[k]
  BY <1>8, <1>10
<1>20. 1 \in 1..n => g[1] = s[1]
  <2>1. SUFFICES ASSUME 1 \in 1..n PROVE g[1] = s[1]
    OBVIOUS
  <2>2. g[1] = g[1 - 1] \o s[1] /\ s[1] \in T
    BY <1>1, <1>11, <2>1
  <2>3. g[1 - 1] = <<>>
    BY <1>10
  <2> QED
    BY <1>3, <2>2, <2>3
<1>12. n # 0 => h[n] = g[n]
  <2> DEFINE f == [i \in 1..n |-> g[i]]
  <2>1. ASSUME NEW i \in 1..n PROVE f[i] = IF i = 1 THEN s[i] ELSE f[i - 1] \o s[i]
    <3>1. CASE i = 1
      <4>1. f[i] = g[i] /\ g[i] = s[i]
        BY <1>20, <3>1
      <4> QED
        BY <3>1, <4>1
    <3>2. CASE i # 1
      <4>1. i - 1 \in 1..n
        BY <1>1, <3>2
      <4>3. g[i] = g[i - 1] \o s[i]
        BY <1>11
      <4>2. f[i] = g[i] /\ f[i - 1] = g[i - 1]
        BY <4>1
      <4> QED
        BY <3>2, <4>2, <4>3
    <3> QED
      BY <3>1, <3>2
  <2>2. f = F(f)
    BY <2>1
  <2> HIDE DEF F, f
  <2>3. h = F(h)
    BY <2>2 DEF h
  <2>4. ASSUME NEW i \in 1..n PROVE h[i] = IF i = 1 THEN s[i] ELSE h[i - 1] \o s[i]
    BY <2>3 DEF F
  <2> DEFINE P == {k \in 0..n : k = 0 \/ h[k] = g[k]}
  <2>5. 0 \in P
    BY <1>1
  <2>6. ASSUME NEW k \in 1..n, k - 1 \in P PROVE k \in P
    <3>1. CASE k = 1
      <4>1. h[1] = s[1]
        BY <2>4, <3>1
      <4> QED
        BY <1>20, <3>1, <4>1
    <3>2. CASE k # 1
      <4>1. h[k - 1] = g[k - 1] /\ h[k] = h[k - 1] \o s[k]
        <5>1. h[k] = h[k - 1] \o s[k]
          BY <2>4, <3>2
        <5>2. h[k - 1] = g[k - 1]
          BY <2>6, <3>2
        <5> QED
          BY <5>1, <5>2
      <4>2. h[k] = g[k]
        BY <1>11, <4>1
      <4> QED
        BY <4>2
    <3> QED
      BY <3>1, <3>2
  <2>7. \A k \in 0..n : k \in P
    <3> HIDE DEF P
    <3> QED
      BY <1>1, <2>5, <2>6, UpFrom
  <2>8. n \in P
    BY <1>1, <2>7
  <2> QED
    BY <2>8
<1>13. FlattenSeq(s) = g[n]
  BY <1>4, <1>5, <1>10, <1>12
<1> QED
  BY <1>10, <1>11, <1>13 DEF n, T

\* Flattening gives a sequence of the same elements.
LEMMA FlattenIsOne ==
  ASSUME NEW S, NEW s \in Seq(Seq(S))
  PROVE  FlattenSeq(s) \in Seq(S) /\ FlattenSeq(<<>>) = <<>>
<1>1. PICK g : g \in [0..Len(s) -> Seq(S)] /\ FlattenSeq(s) = g[Len(s)]
  BY FlattenFolds
<1>2. Len(s) \in 0..Len(s)
  OBVIOUS
<1>3. FlattenSeq(<<>>) = <<>>
  BY DEF FlattenSeq
<1> QED
  BY <1>1, <1>2, <1>3

\* A sequence added at the end is joined at the end.
LEMMA FlattenSnoc ==
  ASSUME NEW S, NEW s \in Seq(Seq(S)), NEW e \in Seq(S)
  PROVE  FlattenSeq(Append(s, e)) = FlattenSeq(s) \o e
<1> DEFINE n == Len(s)
           r == Append(s, e)
<1>1. r \in Seq(Seq(S)) /\ Len(r) = n + 1 /\ n \in Nat /\ r[n + 1] = e /\ \A k \in 1..n : r[k] = s[k]
  OBVIOUS
<1> HIDE DEF n, r
<1>2. PICK f : /\ f \in [0..n -> Seq(S)] /\ f[0] = <<>> /\ FlattenSeq(s) = f[n]
               /\ \A k \in 1..n : f[k] = f[k - 1] \o s[k]
  BY FlattenFolds DEF n
<1>3. PICK g : /\ g \in [0..n+1 -> Seq(S)] /\ g[0] = <<>> /\ FlattenSeq(r) = g[n + 1]
               /\ \A k \in 1..n+1 : g[k] = g[k - 1] \o r[k]
  <2>1. PICK g : /\ g \in [0..Len(r) -> Seq(S)] /\ g[0] = <<>> /\ FlattenSeq(r) = g[Len(r)]
                 /\ \A k \in 1..Len(r) : g[k] = g[k - 1] \o r[k]
    BY <1>1, FlattenFolds
  <2>2. Len(r) = n + 1
    BY <1>1
  <2> QED
    BY <2>1, <2>2
<1> DEFINE P == {k \in 0..n : f[k] = g[k]}
<1>4. 0 \in P
  BY <1>1, <1>2, <1>3
<1>5. ASSUME NEW k \in 1..n, k - 1 \in P PROVE k \in P
  <2>1. f[k - 1] = g[k - 1] /\ r[k] = s[k]
    BY <1>1, <1>5
  <2>2. f[k] = f[k - 1] \o s[k]
    BY <1>2
  <2>3. k \in 1..n+1
    BY <1>1
  <2>4. g[k] = g[k - 1] \o r[k]
    BY <1>3, <2>3
  <2>5. f[k] = g[k]
    BY <2>1, <2>2, <2>4
  <2> QED
    BY <1>1, <2>5
<1>6. n \in P
  <2>1. \A k \in 0..n : k \in P
    <3> HIDE DEF P
    <3> QED
      BY <1>1, <1>4, <1>5, UpFrom
  <2> QED
    BY <1>1, <2>1
<1>7. g[n + 1] = g[n] \o r[n + 1]
  <2>1. n + 1 \in 1..n+1 /\ (n + 1) - 1 = n
    BY <1>1
  <2> QED
    BY <1>3, <2>1
<1> QED
  BY <1>1, <1>2, <1>3, <1>6, <1>7 DEF r

\* Flattening two joined lists is joining what each flattens to.
LEMMA FlattenJoins ==
  ASSUME NEW S, NEW a \in Seq(Seq(S)), NEW b \in Seq(Seq(S))
  PROVE  FlattenSeq(a \o b) = FlattenSeq(a) \o FlattenSeq(b)
<1> DEFINE T == Seq(S)
           P == {c \in Seq(T) : FlattenSeq(a \o c) = FlattenSeq(a) \o FlattenSeq(c)}
<1>1. \A c \in Seq(T) : FlattenSeq(c) \in T /\ FlattenSeq(<<>>) = <<>>
  BY FlattenIsOne
<1>2. <<>> \in P
  <2>1. a \o <<>> = a /\ FlattenSeq(a) \o <<>> = FlattenSeq(a)
    BY <1>1, ConcatEmptySeq
  <2> QED
    BY <1>1, <2>1
<1>3. ASSUME NEW c \in Seq(T), NEW e \in T, c \in P PROVE Append(c, e) \in P
  <2>1. a \o Append(c, e) = Append(a \o c, e)
    BY AppendMoves
  <2>2. a \o c \in Seq(T) /\ Append(c, e) \in Seq(T)
    OBVIOUS
  <2>3. \A u \in Seq(T) : FlattenSeq(Append(u, e)) = FlattenSeq(u) \o e
    BY FlattenSnoc
  <2>4. FlattenSeq(Append(a \o c, e)) = FlattenSeq(a \o c) \o e
    BY <2>2, <2>3
  <2>5. FlattenSeq(Append(c, e)) = FlattenSeq(c) \o e
    BY <2>3
  <2>6. FlattenSeq(a \o c) = FlattenSeq(a) \o FlattenSeq(c)
    BY <1>3
  <2>7. (FlattenSeq(a) \o FlattenSeq(c)) \o e = FlattenSeq(a) \o (FlattenSeq(c) \o e)
    <3> DEFINE x == FlattenSeq(a)
               y == FlattenSeq(c)
    <3>1. x \in Seq(S) /\ y \in Seq(S) /\ e \in Seq(S)
      BY <1>1
    <3> HIDE DEF x, y
    <3>2. (x \o y) \o e = x \o (y \o e)
      BY <3>1, ConcatAssociative
    <3> QED
      BY <3>2 DEF x, y
  <2> QED
    BY <2>1, <2>2, <2>4, <2>5, <2>6, <2>7
<1>4. \A c \in Seq(T) : c \in P
  <2> HIDE DEF P, T
  <2> QED
    BY <1>2, <1>3, EverySequence
<1> QED
  BY <1>4

-----------------------------------------------------------------------------
(* What a text says: its characters without the blanks. *)
Text == Seq(Characters)
Parts == Seq(Text)
Said(parts) == Ink(FlattenSeq(parts))

\* The empty text, and texts of one character.
LEMMA NothingIsLess == <<>> \in Text /\ \A c \in Characters : <<c>> \in Text
BY DEF Text

\* The ink of a text is a text; nothing has none.
LEMMA InkIsText ==
  ASSUME NEW t \in Text
  PROVE  Ink(t) \in Text /\ Ink(<<>>) = <<>>
BY OutsideIsOne DEF Ink, Text

\* The ink of two joined texts is the ink of each.
LEMMA InkJoins ==
  ASSUME NEW a \in Text, NEW b \in Text
  PROVE  Ink(a \o b) = Ink(a) \o Ink(b) /\ a \o b \in Text
<1>1. Ink(a \o b) = Ink(a) \o Ink(b)
  BY OutsideJoins DEF Ink, Text
<1>2. a \o b \in Text
  BY DEF Text
<1> QED
  BY <1>1, <1>2

\* A blank text has no ink.
LEMMA BlankSaysNothing ==
  ASSUME NEW t \in Text, Blank(t)
  PROVE  Ink(t) = <<>>
<1> DEFINE P == {u \in Text : Blank(u) => Ink(u) = <<>>}
<1>1. <<>> \in P
  BY InkIsText, NothingIsLess
<1>2. ASSUME NEW u \in Text, NEW c \in Characters, u \in P PROVE Append(u, c) \in P
  <2>1. Append(u, c) \in Text /\ Len(Append(u, c)) = Len(u) + 1 /\ Append(u, c)[Len(u) + 1] = c
    BY DEF Text
  <2>2. \A i \in DOMAIN u : i \in DOMAIN Append(u, c) /\ Append(u, c)[i] = u[i]
    BY DEF Text
  <2>3. Len(u) + 1 \in DOMAIN Append(u, c)
    BY DEF Text
  <2>4. Blank(Append(u, c)) => Blank(u) /\ c \in Space
    BY <2>1, <2>2, <2>3 DEF Blank
  <2>5. Ink(Append(u, c)) = IF c \in Space THEN Ink(u) ELSE Append(Ink(u), c)
    BY OutsideSnoc DEF Ink, Text
  <2> QED
    BY <1>2, <2>1, <2>4, <2>5
<1>3. \A u \in Text : u \in P
  <2> HIDE DEF P
  <2> QED
    BY <1>1, <1>2, EverySequence DEF Text
<1> QED
  BY <1>3

\* What parts say, and what one more part adds.
LEMMA SaidOfParts ==
  ASSUME NEW a \in Parts, NEW p \in Text
  PROVE  /\ FlattenSeq(a) \in Text /\ Said(a) \in Text /\ Said(<<>>) = <<>>
         /\ Append(a, p) \in Parts /\ Said(Append(a, p)) = Said(a) \o Ink(p)
         /\ <<p>> \in Parts /\ FlattenSeq(<<p>>) = p /\ Said(<<p>>) = Ink(p)
<1>1. /\ \A b \in Parts : FlattenSeq(b) \in Text
      /\ FlattenSeq(<<>>) = <<>>
  BY FlattenIsOne DEF Text, Parts
<1>2. Said(a) \in Text /\ Said(<<>>) = <<>>
  BY <1>1, InkIsText DEF Said
<1>3. Append(a, p) \in Parts /\ <<p>> \in Parts /\ <<>> \in Parts /\ <<p>> = Append(<<>>, p)
  BY DEF Parts
<1>4. \A b \in Parts : FlattenSeq(Append(b, p)) = FlattenSeq(b) \o p
  BY FlattenSnoc DEF Text, Parts
<1>5. Said(Append(a, p)) = Said(a) \o Ink(p)
  BY <1>1, <1>4, InkJoins DEF Said
<1>6. FlattenSeq(<<p>>) = p
  <2>1. FlattenSeq(<<p>>) = <<>> \o p
    BY <1>1, <1>3, <1>4
  <2> QED
    BY <2>1, ConcatEmptySeq DEF Text
<1> QED
  BY <1>1, <1>2, <1>3, <1>5, <1>6 DEF Said

\* Two joined lists of parts say what each says.
LEMMA SaidJoins ==
  ASSUME NEW a \in Parts, NEW b \in Parts
  PROVE  a \o b \in Parts /\ Said(a \o b) = Said(a) \o Said(b)
<1>1. a \o b \in Parts
  BY DEF Parts
<1>2. FlattenSeq(a \o b) = FlattenSeq(a) \o FlattenSeq(b)
  BY FlattenJoins DEF Parts, Text
<1>3. FlattenSeq(a) \in Text /\ FlattenSeq(b) \in Text
  BY FlattenIsOne DEF Parts, Text
<1> QED
  BY <1>1, <1>2, <1>3, InkJoins DEF Said

\* The ends of a set of positions.
LEMMA EndsOf ==
  ASSUME NEW n \in Nat, NEW H, H \subseteq 1..n, H # {}
  PROVE  /\ Max(H) \in H /\ \A j \in H : j <= Max(H)
         /\ Min(H) \in H /\ \A j \in H : Min(H) <= j
<1>1. \E i \in H : \A j \in H : i >= j
  <2> DEFINE f == [k \in 1..n |-> k]
  <2>1. f \in [1..n -> Int]
    OBVIOUS
  <2>2. \A j \in H : f[j] = j
    OBVIOUS
  <2> HIDE DEF f
  <2>3. PICK i \in H : \A j \in H : f[j] <= f[i]
    BY <2>1, GreatestOf
  <2> QED
    BY <2>2, <2>3
<1>2. \E i \in H : \A j \in H : i <= j
  <2>1. H \subseteq Nat
    OBVIOUS
  <2> QED
    BY <2>1, LeastElement
<1> QED
  BY <1>1, <1>2 DEF Max, Min

\* The prefixes of a sequence, each one element longer than the one before.
LEMMA OneMore ==
  ASSUME NEW S, NEW s \in Seq(S)
  PROVE  /\ SubSeq(s, 1, 0) = <<>> /\ SubSeq(s, 1, Len(s)) = s
         /\ \A k \in 0..Len(s) : SubSeq(s, 1, k) \in Seq(S)
         /\ \A k \in 1..Len(s) : s[k] \in S /\ SubSeq(s, 1, k) = Append(SubSeq(s, 1, k - 1), s[k])
<1>1. SubSeq(s, 1, 0) = <<>> /\ SubSeq(s, 1, Len(s)) = s
  BY SubSeqEmpty, SubSeqFull
<1>2. \A k \in 0..Len(s) : SubSeq(s, 1, k) \in Seq(S)
  OBVIOUS
<1>3. ASSUME NEW k \in 1..Len(s)
      PROVE  s[k] \in S /\ SubSeq(s, 1, k) = Append(SubSeq(s, 1, k - 1), s[k])
  <2> DEFINE r == SubSeq(s, 1, k - 1)
  <2>1. r \in Seq(S) /\ s[k] \in S
    OBVIOUS
  <2>2. SubSeq(s, 1, k) = r \o <<s[k]>>
    BY SubSeqRecursiveSecond
  <2> HIDE DEF r
  <2>3. SubSeq(s, 1, k) = Append(r, s[k])
    BY <2>1, <2>2, AppendIsConcat
  <2> QED
    BY <2>1, <2>3 DEF r
<1> QED
  BY <1>1, <1>2, <1>3

\* A text in three: before, from, and after.
LEMMA InThree ==
  ASSUME NEW t \in Text, NEW i \in 1..Len(t), NEW j \in i..Len(t)
  PROVE  /\ t = (SubSeq(t, 1, i - 1) \o SubSeq(t, i, j)) \o SubSeq(t, j + 1, Len(t))
         /\ SubSeq(t, 1, i - 1) \in Text /\ SubSeq(t, i, j) \in Text /\ SubSeq(t, j + 1, Len(t)) \in Text
         /\ SubSeq(t, 1, i - 1) \o SubSeq(t, i, j) = SubSeq(t, 1, j)
<1> USE DEF Text
<1>1. SubSeq(t, 1, i - 1) \in Text /\ SubSeq(t, i, j) \in Text /\ SubSeq(t, j + 1, Len(t)) \in Text
  OBVIOUS
<1>2. SubSeq(t, 1, i - 1) \o SubSeq(t, (i - 1) + 1, j) = SubSeq(t, 1, j)
  <2>1. 1 \in 1..Len(t)+1 /\ i - 1 \in 1-1..Len(t) /\ j \in i-1..Len(t)
    OBVIOUS
  <2> QED
    BY <2>1, ConcatAdjacentSubSeq
<1>3. SubSeq(t, 1, j) \o SubSeq(t, j + 1, Len(t)) = SubSeq(t, 1, Len(t))
  <2>1. 1 \in 1..Len(t)+1 /\ j \in 1-1..Len(t) /\ Len(t) \in j..Len(t)
    OBVIOUS
  <2> QED
    BY <2>1, ConcatAdjacentSubSeq
<1>4. (i - 1) + 1 = i
  OBVIOUS
<1> QED
  BY <1>1, <1>2, <1>3, <1>4, SubSeqFull

\* Strip takes away blanks only.
LEMMA StripKeepsInk ==
  ASSUME NEW t \in Text
  PROVE  Strip(t) \in Text /\ Ink(Strip(t)) = Ink(t)
<1> DEFINE ink == {i \in DOMAIN t : t[i] \notin Space}
<1>1. DOMAIN t = 1..Len(t) /\ Len(t) \in Nat
  BY DEF Text
<1>2. CASE ink = {}
  <2>1. Blank(t)
    BY <1>2 DEF Blank
  <2>2. Strip(t) = <<>>
    BY <1>2 DEF Strip
  <2> QED
    BY <2>1, <2>2, BlankSaysNothing, InkIsText, NothingIsLess
<1>3. CASE ink # {}
  <2> DEFINE m == Min(ink)
             x == Max(ink)
             a == SubSeq(t, 1, m - 1)
             b == SubSeq(t, m, x)
             c == SubSeq(t, x + 1, Len(t))
  <2>1. /\ x \in ink /\ m \in ink /\ \A j \in ink : m <= j /\ j <= x
    <3>1. ink \subseteq 1..Len(t)
      BY <1>1
    <3> HIDE DEF ink
    <3> QED
      BY <1>1, <1>3, <3>1, EndsOf
  <2>2. Strip(t) = b
    BY <1>3 DEF Strip
  <2> HIDE DEF m, x
  <2>3. m \in 1..Len(t) /\ x \in m..Len(t)
    BY <1>1, <2>1
  <2>4. t = (a \o b) \o c /\ a \in Text /\ b \in Text /\ c \in Text
    BY <2>3, InThree
  <2>5. Blank(a)
    <3>1. ASSUME NEW i \in DOMAIN a PROVE a[i] \in Space
      <4>1. i \in 1..(m - 1) /\ a[i] = t[i]
        <5>1. \A u \in 1..(m - 1) : t[u] \in Characters
          BY <1>1, <2>3 DEF Text
        <5>2. Len(a) = m - 1 /\ \A u \in 1..((m - 1) - 1 + 1) : a[u] = t[1 + u - 1]
          BY <1>1, <2>3, <5>1, SubSeqProperties
        <5>3. DOMAIN a = 1..Len(a)
          BY <2>4 DEF Text
        <5> QED
          BY <1>1, <2>3, <5>2, <5>3
      <4>2. i \notin ink /\ i \in DOMAIN t
        BY <1>1, <2>1, <2>3, <4>1
      <4> QED
        BY <4>1, <4>2
    <3> QED
      BY <3>1 DEF Blank
  <2>6. Blank(c)
    <3>1. ASSUME NEW i \in DOMAIN c PROVE c[i] \in Space
      <4>1. i \in 1..(Len(t) - x) /\ c[i] = t[x + i]
        <5>1. \A u \in (x + 1)..Len(t) : t[u] \in Characters
          BY <1>1, <2>3 DEF Text
        <5>2. /\ Len(c) = IF x + 1 <= Len(t) THEN Len(t) - (x + 1) + 1 ELSE 0
              /\ \A u \in 1..(Len(t) - (x + 1) + 1) : c[u] = t[(x + 1) + u - 1]
          <6>1. x + 1 \in Int /\ Len(t) \in Int
            BY <1>1, <2>3
          <6> QED
            BY <5>1, <6>1, SubSeqProperties
        <5>3. DOMAIN c = 1..Len(c)
          BY <2>4 DEF Text
        <5>4. i \in 1..(Len(t) - x)
          <6> HIDE DEF c
          <6>1. i \in 1..Len(c) /\ x \in Int /\ Len(t) \in Int
            BY <1>1, <2>3, <5>3
          <6>2. Len(c) = IF x + 1 <= Len(t) THEN Len(t) - (x + 1) + 1 ELSE 0
            BY <5>2
          <6> QED
            BY <6>1, <6>2
        <5>5. c[i] = t[(x + 1) + i - 1] /\ (x + 1) + i - 1 = x + i
          BY <1>1, <2>3, <5>2, <5>4
        <5> QED
          BY <5>4, <5>5
      <4>2. x + i \notin ink /\ x + i \in DOMAIN t
        BY <1>1, <2>1, <2>3, <4>1
      <4> QED
        BY <4>1, <4>2
    <3> QED
      BY <3>1 DEF Blank
  <2> HIDE DEF a, b, c
  <2>7. Ink(a) = <<>> /\ Ink(c) = <<>> /\ Ink(b) \in Text
    BY <2>4, <2>5, <2>6, BlankSaysNothing, InkIsText
  <2>20. \A u, v \in Text : Ink(u \o v) = Ink(u) \o Ink(v) /\ u \o v \in Text
    BY InkJoins
  <2>21. a \o b \in Text
    BY <2>4, <2>20
  <2>22. Ink(a \o b) = Ink(a) \o Ink(b)
    BY <2>4, <2>20
  <2>8. a \o b \in Text /\ Ink(a \o b) = <<>> \o Ink(b)
    BY <2>7, <2>21, <2>22
  <2>9. Ink((a \o b) \o c) = (<<>> \o Ink(b)) \o <<>>
    BY <2>4, <2>7, <2>8, <2>20
  <2>10. (<<>> \o Ink(b)) \o <<>> = Ink(b)
    BY <2>7, ConcatEmptySeq DEF Text
  <2> QED
    BY <2>2, <2>4, <2>9, <2>10
<1> QED
  BY <1>2, <1>3

\* What each piece says, they say together.
LEMMA SaidOfPieces ==
  ASSUME NEW p \in Parts, NEW f \in Seq(Parts), Len(f) = Len(p),
         \A k \in 1..Len(p) : Said(f[k]) = Ink(p[k])
  PROVE  FlattenSeq(f) \in Parts /\ Said(FlattenSeq(f)) = Said(p)
<1> DEFINE n == Len(p)
           pk(k) == SubSeq(p, 1, k)
           fk(k) == SubSeq(f, 1, k)
           P == {k \in 0..n : Said(FlattenSeq(fk(k))) = Said(pk(k))}
<1>1. n \in Nat /\ n \in 0..n
  BY DEF Parts
<1>2. /\ pk(0) = <<>> /\ pk(n) = p /\ fk(0) = <<>> /\ fk(n) = f
      /\ \A k \in 0..n : pk(k) \in Parts /\ fk(k) \in Seq(Parts)
      /\ \A k \in 1..n : p[k] \in Text /\ pk(k) = Append(pk(k - 1), p[k])
      /\ \A k \in 1..n : f[k] \in Parts /\ fk(k) = Append(fk(k - 1), f[k])
  BY OneMore DEF Parts
<1> HIDE DEF n, pk, fk
<1>3. \A g \in Seq(Parts) : FlattenSeq(g) \in Parts /\ FlattenSeq(<<>>) = <<>>
  BY FlattenIsOne DEF Parts
<1>4. 0 \in P
  BY <1>1, <1>2, <1>3
<1>5. ASSUME NEW k \in 1..n, k - 1 \in P PROVE k \in P
  <2> DEFINE g == fk(k - 1)
             q == pk(k - 1)
  <2>0. k \in 0..n /\ k - 1 \in 0..n
    BY <1>1
  <2>1. g \in Seq(Parts) /\ f[k] \in Parts /\ q \in Parts /\ p[k] \in Text /\ k \in 0..n
    BY <1>2, <2>0
  <2>2. fk(k) = Append(g, f[k]) /\ pk(k) = Append(q, p[k]) /\ Said(FlattenSeq(g)) = Said(q)
    BY <1>2, <1>5
  <2>3. Said(f[k]) = Ink(p[k])
    BY DEF n
  <2> HIDE DEF g, q
  <2>4. FlattenSeq(Append(g, f[k])) = FlattenSeq(g) \o f[k]
    BY <2>1, FlattenSnoc DEF Parts
  <2>5. Said(FlattenSeq(g) \o f[k]) = Said(FlattenSeq(g)) \o Said(f[k])
    BY <1>3, <2>1, SaidJoins
  <2>6. Said(Append(q, p[k])) = Said(q) \o Ink(p[k])
    BY <2>1, SaidOfParts
  <2> QED
    BY <2>1, <2>2, <2>3, <2>4, <2>5, <2>6
<1>6. \A k \in 0..n : k \in P
  <2> HIDE DEF P
  <2> QED
    BY <1>1, <1>4, <1>5, UpFrom
<1>7. Said(FlattenSeq(fk(n))) = Said(pk(n))
  BY <1>1, <1>6
<1> QED
  BY <1>2, <1>3, <1>7

\* More at the end of the last one.
LEMMA LastGrows ==
  ASSUME NEW S, NEW v \in Seq(Seq(S)), v # <<>>, NEW q \in Seq(S)
  PROVE  /\ Front(v) \o <<Last(v) \o q>> \in Seq(Seq(S))
         /\ FlattenSeq(Front(v) \o <<Last(v) \o q>>) = FlattenSeq(v) \o q
         /\ Last(v) \in Seq(S) /\ Front(v) \in Seq(Seq(S)) /\ v = Append(Front(v), Last(v))
         /\ Front(v) \o <<Last(v) \o q>> # <<>>
<1> DEFINE T == Seq(S)
           f == Front(v)
           l == Last(v)
<1>1. f \in Seq(T) /\ l \in T /\ v = Append(f, l)
  <2>1. v \in Seq(T) /\ Len(v) \in Nat /\ Len(v) # 0 /\ Len(v) \in 1..Len(v)
    OBVIOUS
  <2>2. SubSeq(v, 1, Len(v)) = v
    BY <2>1, SubSeqFull
  <2>3. v[Len(v)] \in T /\ SubSeq(v, 1, Len(v)) = Append(SubSeq(v, 1, Len(v) - 1), v[Len(v)])
    BY <2>1, OneMore
  <2>4. SubSeq(v, 1, Len(v) - 1) \in Seq(T)
    BY <2>1, OneMore
  <2> QED
    BY <2>2, <2>3, <2>4 DEF Front, Last
<1> HIDE DEF f, l
<1>2. l \o q \in T /\ q \in T
  BY <1>1
<1> HIDE DEF T
<1>3. f \o <<l \o q>> = Append(f, l \o q) /\ Append(f, l \o q) \in Seq(T) /\ Append(f, l \o q) # <<>>
  <2>1. \A e \in T : f \o <<e>> = Append(f, e) /\ Append(f, e) \in Seq(T) /\ Append(f, e) # <<>>
    BY <1>1, AppendIsConcat, AppendProperties
  <2> QED
    BY <1>2, <2>1
<1>4. \A u \in Seq(T) : \A e \in T : FlattenSeq(Append(u, e)) = FlattenSeq(u) \o e /\ FlattenSeq(u) \in T
  BY FlattenSnoc, FlattenIsOne DEF T
<1>5. FlattenSeq(v) = FlattenSeq(f) \o l /\ FlattenSeq(f) \in T
  BY <1>1, <1>4
<1>6. FlattenSeq(Append(f, l \o q)) = FlattenSeq(f) \o (l \o q)
  BY <1>1, <1>2, <1>4
<1>7. (FlattenSeq(f) \o l) \o q = FlattenSeq(f) \o (l \o q)
  <2>1. FlattenSeq(f) \in Seq(S) /\ l \in Seq(S) /\ q \in Seq(S)
    BY <1>1, <1>2, <1>5 DEF T
  <2> QED
    BY <2>1, ConcatAssociative
<1> QED
  BY <1>1, <1>3, <1>5, <1>6, <1>7 DEF f, l, T

\* MergeSmall, one part after the other.
LEMMA MergeFolds ==
  ASSUME NEW parts \in Parts, NEW size
  PROVE  \E g : /\ g \in [0..Len(parts) -> Parts] /\ g[0] = <<>> /\ MergeSmall(parts, size) = g[Len(parts)]
                /\ \A k \in 1..Len(parts) :
                     g[k] = IF Blank(parts[k]) THEN g[k - 1]
                            ELSE IF g[k - 1] # <<>> /\ Len(Last(g[k - 1])) + Len(parts[k]) <= size
                            THEN Front(g[k - 1]) \o <<Last(g[k - 1]) \o parts[k]>>
                            ELSE Append(g[k - 1], parts[k])
<1> DEFINE T == Parts
           n == Len(parts)
           base == <<>>
           op(v, k) == IF Blank(parts[k]) THEN v
                       ELSE IF v # <<>> /\ Len(Last(v)) + Len(parts[k]) <= size
                       THEN Front(v) \o <<Last(v) \o parts[k]>>
                       ELSE Append(v, parts[k])
           step == [k \in 1..n |-> [v \in T |-> op(v, k)]]
           F(h) == [k \in 0..n |-> IF k = 0 THEN base ELSE op(h[k - 1], k)]
           g == CHOOSE h : h = F(h)
<1>1. MergeSmall(parts, size) = g[n]
  BY DEF MergeSmall, Along
<1>2. n \in Nat /\ base \in T
  BY DEF Parts
<1>3. ASSUME NEW k \in 1..n, NEW v \in T PROVE op(v, k) \in T
  <2>1. parts[k] \in Text
    BY DEF Parts
  <2>2. Append(v, parts[k]) \in Parts
    BY <2>1 DEF Parts
  <2>3. v # <<>> => Front(v) \o <<Last(v) \o parts[k]>> \in Parts
    BY <2>1, LastGrows DEF Parts, Text
  <2> QED
    BY <2>2, <2>3
<1> HIDE DEF T, n, base, op
<1>4. step \in [1..n -> [T -> T]] /\ \A k \in 1..n : \A v \in T : step[k][v] = op(v, k)
  BY <1>3
<1> HIDE DEF step
<1>5. PICK f : Solves(f, n, T, base, step)
  BY <1>2, <1>4, RecursionHas
<1>6. f = F(f)
  <2>1. f = [k \in 0..n |-> f[k]] /\ f[0] = base
    BY <1>5 DEF Solves
  <2>2. ASSUME NEW k \in 0..n, k # 0 PROVE f[k] = op(f[k - 1], k)
    <3>1. k \in 1..n /\ k - 1 \in 0..n
      BY <1>2, <2>2
    <3>2. f[k - 1] \in T /\ f[k] = step[k][f[k - 1]]
      BY <1>5, <3>1 DEF Solves
    <3> QED
      BY <1>4, <3>1, <3>2
  <2>3. \A k \in 0..n : f[k] = IF k = 0 THEN base ELSE op(f[k - 1], k)
    BY <2>1, <2>2
  <2> QED
    BY <2>1, <2>3
<1>7. g = F(g)
  <2> HIDE DEF F
  <2> QED
    BY <1>6
<1> HIDE DEF g
<1>8. /\ g = [k \in 0..n |-> g[k]] /\ g[0] = base
      /\ \A k \in 1..n : g[k] = op(g[k - 1], k)
  <2>1. g = [k \in 0..n |-> g[k]] /\ g[0] = base
    BY <1>2, <1>7
  <2>2. \A k \in 0..n : g[k] = IF k = 0 THEN base ELSE op(g[k - 1], k)
    BY <1>7
  <2>3. \A k \in 1..n : k \in 0..n /\ k # 0
    BY <1>2
  <2> QED
    BY <2>1, <2>2, <2>3
<1>9. Solves(g, n, T, base, step)
  <2>1. \A k \in 1..n : g[k - 1] \in T => g[k] = step[k][g[k - 1]]
    BY <1>4, <1>8
  <2> HIDE DEF F
  <2> QED
    BY <1>2, <1>4, <1>8, <2>1, TheSolution
<1> QED
  BY <1>1, <1>8, <1>9 DEF Solves, T, n, base, op

\* One more element at the end of the last sequence.
LEMMA GrowsByOne ==
  ASSUME NEW S, NEW v \in Seq(Seq(S)), v # <<>>, NEW e \in S
  PROVE  /\ Front(v) \o <<Append(Last(v), e)>> \in Seq(Seq(S))
         /\ FlattenSeq(Front(v) \o <<Append(Last(v), e)>>) = Append(FlattenSeq(v), e)
         /\ Front(v) \o <<Append(Last(v), e)>> # <<>>
<1>1. \A u \in Seq(S) : Append(u, e) = u \o <<e>>
  BY AppendIsConcat
<1>2. <<e>> \in Seq(S) /\ Last(v) \in Seq(S) /\ FlattenSeq(v) \in Seq(S)
  <2>1. <<e>> \in Seq(S)
    OBVIOUS
  <2>2. FlattenSeq(v) \in Seq(S)
    BY FlattenIsOne
  <2>3. \A q \in Seq(S) : Last(v) \in Seq(S)
    BY LastGrows
  <2> QED
    BY <2>1, <2>2, <2>3
<1>3. Append(Last(v), e) = Last(v) \o <<e>> /\ Append(FlattenSeq(v), e) = FlattenSeq(v) \o <<e>>
  BY <1>1, <1>2
<1>4. \A q \in Seq(S) : /\ Front(v) \o <<Last(v) \o q>> \in Seq(Seq(S))
                        /\ FlattenSeq(Front(v) \o <<Last(v) \o q>>) = FlattenSeq(v) \o q
                        /\ Front(v) \o <<Last(v) \o q>> # <<>>
  BY LastGrows
<1> QED
  BY <1>2, <1>3, <1>4

\* The positions of a text are counted from one.
LEMMA PositionsOf ==
  ASSUME NEW t \in Text
  PROVE  Len(Positions(t)) = Len(t) /\ \A k \in 1..Len(t) : Positions(t)[k] = k
<1>1. DOMAIN t = 1..Len(t) /\ Len(t) \in Nat
  BY DEF Text
<1> QED
  BY <1>1 DEF Positions

\* CutBefore, one character after the other.
LEMMA CutFolds ==
  ASSUME NEW t \in Text, NEW S
  PROVE  \E g : /\ g \in [0..Len(Positions(t)) -> Parts]
                /\ g[0] = <<>>
                /\ CutBefore(t, S) = g[Len(Positions(t))]
                /\ \A k \in 1..Len(Positions(t)) :
                     g[k] = IF g[k - 1] = <<>> \/ Positions(t)[k] \in S THEN Append(g[k - 1], <<t[Positions(t)[k]]>>)
                            ELSE Front(g[k - 1]) \o <<Append(Last(g[k - 1]), t[Positions(t)[k]])>>
<1> DEFINE T == Parts
           n == Len(Positions(t))
           base == <<>>
           op(v, k) == IF v = <<>> \/ Positions(t)[k] \in S THEN Append(v, <<t[Positions(t)[k]]>>)
                       ELSE Front(v) \o <<Append(Last(v), t[Positions(t)[k]])>>
           step == [k \in 1..n |-> [v \in T |-> op(v, k)]]
           F(h) == [k \in 0..n |-> IF k = 0 THEN base ELSE op(h[k - 1], k)]
           g == CHOOSE h : h = F(h)
<1>1. CutBefore(t, S) = g[n]
  BY DEF CutBefore, Along
<1>2. n \in Nat /\ base \in T /\ n = Len(t)
  BY PositionsOf DEF Parts, Text
<1>3. ASSUME NEW k \in 1..n, NEW v \in T PROVE op(v, k) \in T
  <2>1. Positions(t)[k] = k /\ t[k] \in Characters
    BY <1>2, PositionsOf DEF Text
  <2>2. Append(v, <<t[k]>>) \in Parts
    BY <2>1 DEF Parts, Text
  <2>3. v # <<>> => Front(v) \o <<Append(Last(v), t[k])>> \in Parts
    BY <2>1, GrowsByOne DEF Parts, Text
  <2> QED
    BY <2>1, <2>2, <2>3
<1> HIDE DEF T, n, base, op
<1>4. step \in [1..n -> [T -> T]] /\ \A k \in 1..n : \A v \in T : step[k][v] = op(v, k)
  BY <1>3
<1> HIDE DEF step
<1>5. PICK f : Solves(f, n, T, base, step)
  BY <1>2, <1>4, RecursionHas
<1>6. f = F(f)
  <2>1. f = [k \in 0..n |-> f[k]] /\ f[0] = base
    BY <1>5 DEF Solves
  <2>2. ASSUME NEW k \in 0..n, k # 0 PROVE f[k] = op(f[k - 1], k)
    <3>1. k \in 1..n /\ k - 1 \in 0..n
      BY <1>2, <2>2
    <3>2. f[k - 1] \in T /\ f[k] = step[k][f[k - 1]]
      BY <1>5, <3>1 DEF Solves
    <3> QED
      BY <1>4, <3>1, <3>2
  <2>3. \A k \in 0..n : f[k] = IF k = 0 THEN base ELSE op(f[k - 1], k)
    BY <2>1, <2>2
  <2> QED
    BY <2>1, <2>3
<1>7. g = F(g)
  <2> HIDE DEF F
  <2> QED
    BY <1>6
<1> HIDE DEF g
<1>8. /\ g = [k \in 0..n |-> g[k]] /\ g[0] = base
      /\ \A k \in 1..n : g[k] = op(g[k - 1], k)
  <2>1. g = [k \in 0..n |-> g[k]] /\ g[0] = base
    BY <1>2, <1>7
  <2>2. \A k \in 0..n : g[k] = IF k = 0 THEN base ELSE op(g[k - 1], k)
    BY <1>7
  <2>3. \A k \in 1..n : k \in 0..n /\ k # 0
    BY <1>2
  <2> QED
    BY <2>1, <2>2, <2>3
<1>9. Solves(g, n, T, base, step)
  <2>1. \A k \in 1..n : g[k - 1] \in T => g[k] = step[k][g[k - 1]]
    BY <1>4, <1>8
  <2> HIDE DEF F
  <2> QED
    BY <1>2, <1>4, <1>8, <2>1, TheSolution
<1> QED
  BY <1>1, <1>8, <1>9 DEF Solves, T, n, base, op

\* Cutting a text keeps all of it.
LEMMA CutKeeps ==
  ASSUME NEW t \in Text, NEW S
  PROVE  CutBefore(t, S) \in Parts /\ FlattenSeq(CutBefore(t, S)) = t
<1> DEFINE n == Len(t)
           pt(k) == SubSeq(t, 1, k)
<1>1. PICK g : /\ g \in [0..Len(Positions(t)) -> Parts] /\ g[0] = <<>> /\ CutBefore(t, S) = g[Len(Positions(t))]
               /\ \A k \in 1..Len(Positions(t)) :
                    g[k] = IF g[k - 1] = <<>> \/ Positions(t)[k] \in S
                           THEN Append(g[k - 1], <<t[Positions(t)[k]]>>)
                           ELSE Front(g[k - 1]) \o <<Append(Last(g[k - 1]), t[Positions(t)[k]])>>
  BY CutFolds
<1>2. n \in Nat /\ Len(Positions(t)) = n /\ \A k \in 1..n : Positions(t)[k] = k
  BY PositionsOf DEF Text
<1>3. /\ pt(0) = <<>> /\ pt(n) = t
      /\ \A k \in 1..n : t[k] \in Characters /\ pt(k) = Append(pt(k - 1), t[k])
      /\ \A k \in 0..n : pt(k) \in Text
  BY OneMore DEF Text
<1> HIDE DEF n, pt
<1> DEFINE P == {k \in 0..n : FlattenSeq(g[k]) = pt(k)}
<1>4. 0 \in P
  <2>1. FlattenSeq(<<>>) = <<>>
    BY DEF FlattenSeq
  <2> QED
    BY <1>1, <1>2, <1>3, <2>1
<1>5. ASSUME NEW k \in 1..n, k - 1 \in P PROVE k \in P
  <2> DEFINE v == g[k - 1]
             c == t[k]
  <2>1. k - 1 \in 0..n /\ k \in 0..n
    BY <1>2
  <2>2. v \in Parts /\ c \in Characters /\ FlattenSeq(v) = pt(k - 1) /\ pt(k) = Append(pt(k - 1), c)
    BY <1>1, <1>2, <1>3, <1>5, <2>1
  <2>3. g[k] = IF v = <<>> \/ k \in S THEN Append(v, <<c>>) ELSE Front(v) \o <<Append(Last(v), c)>>
    BY <1>1, <1>2
  <2> HIDE DEF v, c
  <2>4. FlattenSeq(Append(v, <<c>>)) = FlattenSeq(v) \o <<c>>
    <3>1. <<c>> \in Text
      BY <2>2 DEF Text
    <3> QED
      BY <2>2, <3>1, FlattenSnoc DEF Parts, Text
  <2>5. FlattenSeq(v) \o <<c>> = Append(FlattenSeq(v), c)
    BY <1>3, <2>1, <2>2, AppendIsConcat DEF Text
  <2>6. v # <<>> => FlattenSeq(Front(v) \o <<Append(Last(v), c)>>) = Append(FlattenSeq(v), c)
    BY <2>2, GrowsByOne DEF Parts, Text
  <2>7. FlattenSeq(g[k]) = pt(k)
    BY <2>2, <2>3, <2>4, <2>5, <2>6
  <2> QED
    BY <2>1, <2>7
<1>6. \A k \in 0..n : k \in P
  <2> HIDE DEF P
  <2> QED
    BY <1>2, <1>4, <1>5, UpFrom
<1>7. FlattenSeq(g[n]) = pt(n) /\ g[n] \in Parts
  BY <1>1, <1>2, <1>6
<1> QED
  BY <1>1, <1>2, <1>3, <1>7

\* FixedSlices keeps all of the text.
LEMMA SlicesKeep ==
  ASSUME NEW t \in Text, NEW size
  PROVE  FixedSlices(t, size) \in Parts /\ FlattenSeq(FixedSlices(t, size)) = t
BY CutKeeps DEF FixedSlices

\* Cutting at one separator loses nothing but blanks.
LEMMA CutAtKeeps ==
  ASSUME NEW t \in Text, NEW sep, NEW size
  PROVE  CutAt(t, sep, size) \in Parts /\ Said(CutAt(t, sep, size)) = Ink(t)
<1>1. <<>> \in Parts /\ <<t>> \in Parts /\ Said(<<>>) = <<>> /\ Said(<<t>>) = Ink(t)
  <2>1. <<>> \in Parts
    BY DEF Parts
  <2> QED
    BY <2>1, SaidOfParts
<1>2. Blank(t) => Ink(t) = <<>>
  BY BlankSaysNothing
<1>3. FixedSlices(t, size) \in Parts /\ Said(FixedSlices(t, size)) = Ink(t)
  BY SlicesKeep DEF Said
<1>4. CutBefore(t, Finds(t, sep)) \in Parts /\ Said(CutBefore(t, Finds(t, sep))) = Ink(t)
  BY CutKeeps DEF Said
<1> QED
  BY <1>1, <1>2, <1>3, <1>4 DEF CutAt

\* Cutting every part at the next separator loses nothing but blanks.
LEMMA FurtherKeeps ==
  ASSUME NEW v \in Parts, NEW sep, NEW size
  PROVE  /\ FlattenSeq([j \in DOMAIN v |-> CutAt(v[j], sep, size)]) \in Parts
         /\ Said(FlattenSeq([j \in DOMAIN v |-> CutAt(v[j], sep, size)])) = Said(v)
<1> DEFINE f == [j \in DOMAIN v |-> CutAt(v[j], sep, size)]
<1>1. DOMAIN v = 1..Len(v) /\ Len(v) \in Nat /\ \A j \in 1..Len(v) : v[j] \in Text
  BY DEF Parts
<1>2. \A j \in 1..Len(v) : CutAt(v[j], sep, size) \in Parts /\ Said(CutAt(v[j], sep, size)) = Ink(v[j])
  BY <1>1, CutAtKeeps
<1>3. f \in Seq(Parts) /\ Len(f) = Len(v) /\ \A j \in 1..Len(v) : f[j] = CutAt(v[j], sep, size)
  BY <1>1, <1>2
<1> HIDE DEF f
<1>4. \A j \in 1..Len(v) : Said(f[j]) = Ink(v[j])
  BY <1>2, <1>3
<1>5. FlattenSeq(f) \in Parts /\ Said(FlattenSeq(f)) = Said(v)
  BY <1>3, <1>4, SaidOfPieces
<1> QED
  BY <1>5 DEF f

\* Recursive, one separator after the other.
LEMMA RecursiveFolds ==
  ASSUME NEW t \in Text, NEW size
  PROVE  \E g : /\ g \in [0..Len(Separators) -> Parts]
                /\ g[0] = <<t>>
                /\ Recursive(t, size) = g[Len(Separators)]
                /\ \A k \in 1..Len(Separators) :
                     g[k] = FlattenSeq([j \in DOMAIN g[k - 1] |-> CutAt(g[k - 1][j], Separators[k], size)])
<1> DEFINE T == Parts
           n == Len(Separators)
           base == <<t>>
           op(v, k) == FlattenSeq([j \in DOMAIN v |-> CutAt(v[j], Separators[k], size)])
           step == [k \in 1..n |-> [v \in T |-> op(v, k)]]
           F(h) == [k \in 0..n |-> IF k = 0 THEN base ELSE op(h[k - 1], k)]
           g == CHOOSE h : h = F(h)
<1>1. Recursive(t, size) = g[n]
  BY DEF Recursive, Along
<1>2. n \in Nat /\ base \in T
  BY DEF Parts, Separators
<1>3. ASSUME NEW k \in 1..n, NEW v \in T PROVE op(v, k) \in T
  BY FurtherKeeps
<1> HIDE DEF T, n, base, op
<1>4. step \in [1..n -> [T -> T]] /\ \A k \in 1..n : \A v \in T : step[k][v] = op(v, k)
  BY <1>3
<1> HIDE DEF step
<1>5. PICK f : Solves(f, n, T, base, step)
  BY <1>2, <1>4, RecursionHas
<1>6. f = F(f)
  <2>1. f = [k \in 0..n |-> f[k]] /\ f[0] = base
    BY <1>5 DEF Solves
  <2>2. ASSUME NEW k \in 0..n, k # 0 PROVE f[k] = op(f[k - 1], k)
    <3>1. k \in 1..n /\ k - 1 \in 0..n
      BY <1>2, <2>2
    <3>2. f[k - 1] \in T /\ f[k] = step[k][f[k - 1]]
      BY <1>5, <3>1 DEF Solves
    <3> QED
      BY <1>4, <3>1, <3>2
  <2>3. \A k \in 0..n : f[k] = IF k = 0 THEN base ELSE op(f[k - 1], k)
    BY <2>1, <2>2
  <2> QED
    BY <2>1, <2>3
<1>7. g = F(g)
  <2> HIDE DEF F
  <2> QED
    BY <1>6
<1> HIDE DEF g
<1>8. /\ g = [k \in 0..n |-> g[k]] /\ g[0] = base
      /\ \A k \in 1..n : g[k] = op(g[k - 1], k)
  <2>1. g = [k \in 0..n |-> g[k]] /\ g[0] = base
    BY <1>2, <1>7
  <2>2. \A k \in 0..n : g[k] = IF k = 0 THEN base ELSE op(g[k - 1], k)
    BY <1>7
  <2>3. \A k \in 1..n : k \in 0..n /\ k # 0
    BY <1>2
  <2> QED
    BY <2>1, <2>2, <2>3
<1>9. Solves(g, n, T, base, step)
  <2>1. \A k \in 1..n : g[k - 1] \in T => g[k] = step[k][g[k - 1]]
    BY <1>4, <1>8
  <2> HIDE DEF F
  <2> QED
    BY <1>2, <1>4, <1>8, <2>1, TheSolution
<1> QED
  BY <1>1, <1>8, <1>9 DEF Solves, T, n, base, op

\* What Recursive returns says what the text says.
LEMMA RecursiveKeeps ==
  ASSUME NEW t \in Text, NEW size
  PROVE  Recursive(t, size) \in Parts /\ Said(Recursive(t, size)) = Ink(t)
<1>0. PICK g : /\ g \in [0..Len(Separators) -> Parts]
               /\ g[0] = <<t>>
               /\ Recursive(t, size) = g[Len(Separators)]
               /\ \A k \in 1..Len(Separators) :
                    g[k] = FlattenSeq([j \in DOMAIN g[k - 1] |-> CutAt(g[k - 1][j], Separators[k], size)])
  BY Zenon, RecursiveFolds
<1> DEFINE n == Len(Separators)
<1>1. /\ g \in [0..n -> Parts] /\ g[0] = <<t>> /\ Recursive(t, size) = g[n]
      /\ \A k \in 1..n :
           g[k] = FlattenSeq([j \in DOMAIN g[k - 1] |-> CutAt(g[k - 1][j], Separators[k], size)])
  BY Zenon, <1>0
<1>2. n \in Nat
  BY DEF Separators
<1> HIDE DEF n
<1> DEFINE P == {k \in 0..n : Said(g[k]) = Ink(t)}
<1>3. 0 \in P
  <2>1. <<>> \in Parts
    BY DEF Parts
  <2>2. Said(<<t>>) = Ink(t)
    BY <2>1, SaidOfParts
  <2> QED
    BY <1>1, <1>2, <2>2
<1>4. ASSUME NEW k \in 1..n, k - 1 \in P PROVE k \in P
  <2>1. k - 1 \in 0..n /\ k \in 0..n
    BY <1>2
  <2>2. g[k - 1] \in Parts /\ Said(g[k - 1]) = Ink(t)
    BY <1>1, <1>4, <2>1
  <2>3. Said(g[k]) = Said(g[k - 1])
    <3> DEFINE v == g[k - 1]
    <3>1. g[k] = FlattenSeq([j \in DOMAIN v |-> CutAt(v[j], Separators[k], size)])
      BY <1>1
    <3>2. v \in Parts
      BY <2>2
    <3> HIDE DEF v
    <3>3. Said(FlattenSeq([j \in DOMAIN v |-> CutAt(v[j], Separators[k], size)])) = Said(v)
      BY <3>2, FurtherKeeps
    <3>4. Said(g[k]) = Said(v)
      BY <3>1, <3>3
    <3> QED
      BY <3>4 DEF v
  <2> QED
    BY <2>1, <2>2, <2>3
<1>5. \A k \in 0..n : k \in P
  <2> HIDE DEF P
  <2> QED
    BY <1>2, <1>3, <1>4, UpFrom
<1> QED
  BY <1>1, <1>2, <1>5

\* What MergeSmall returns says what the parts say.
LEMMA MergeKeeps ==
  ASSUME NEW parts \in Parts, NEW size
  PROVE  MergeSmall(parts, size) \in Parts /\ Said(MergeSmall(parts, size)) = Said(parts)
<1> DEFINE n == Len(parts)
           upTo(k) == SubSeq(parts, 1, k)
<1>1. PICK g : /\ g \in [0..n -> Parts] /\ g[0] = <<>> /\ MergeSmall(parts, size) = g[n]
               /\ \A k \in 1..n :
                    g[k] = IF Blank(parts[k]) THEN g[k - 1]
                           ELSE IF g[k - 1] # <<>> /\ Len(Last(g[k - 1])) + Len(parts[k]) <= size
                           THEN Front(g[k - 1]) \o <<Last(g[k - 1]) \o parts[k]>>
                           ELSE Append(g[k - 1], parts[k])
  BY MergeFolds
<1>2. n \in Nat
  BY DEF Parts
<1>3. /\ upTo(0) = <<>> /\ upTo(n) = parts
      /\ \A k \in 1..n : parts[k] \in Text /\ upTo(k) = Append(upTo(k - 1), parts[k])
      /\ \A k \in 0..n : upTo(k) \in Parts
  BY OneMore DEF Parts
<1> HIDE DEF n, upTo
<1> DEFINE P == {k \in 0..n : Said(g[k]) = Said(upTo(k))}
<1>4. 0 \in P
  BY <1>1, <1>2, <1>3
<1>5. ASSUME NEW k \in 1..n, k - 1 \in P PROVE k \in P
  <2> DEFINE v == g[k - 1]
             u == upTo(k - 1)
             p == parts[k]
  <2>1. k - 1 \in 0..n /\ k \in 0..n
    BY <1>2
  <2>2. v \in Parts /\ u \in Parts /\ p \in Text /\ Said(v) = Said(u) /\ upTo(k) = Append(u, p)
    BY <1>1, <1>3, <1>5, <2>1
  <2>3. \/ g[k] = v /\ Blank(p)
        \/ v # <<>> /\ g[k] = Front(v) \o <<Last(v) \o p>>
        \/ g[k] = Append(v, p)
    BY <1>1
  <2> HIDE DEF v, u, p
  <2>4. /\ Said(Append(u, p)) = Said(u) \o Ink(p) /\ Said(Append(v, p)) = Said(v) \o Ink(p)
        /\ Said(u) \in Text /\ FlattenSeq(v) \in Text
    BY <2>2, SaidOfParts
  <2>5. Blank(p) => Said(u) \o Ink(p) = Said(u)
    BY <2>2, <2>4, BlankSaysNothing, ConcatEmptySeq DEF Text
  <2>6. v # <<>> => Said(Front(v) \o <<Last(v) \o p>>) = Said(v) \o Ink(p)
    <3>1. v # <<>> => FlattenSeq(Front(v) \o <<Last(v) \o p>>) = FlattenSeq(v) \o p
      BY <2>2, LastGrows DEF Parts, Text
    <3>2. Ink(FlattenSeq(v) \o p) = Ink(FlattenSeq(v)) \o Ink(p)
      BY <2>2, <2>4, InkJoins
    <3> QED
      BY <3>1, <3>2 DEF Said
  <2>7. Said(g[k]) = Said(u) \o Ink(p)
    BY <2>2, <2>3, <2>4, <2>5, <2>6
  <2> QED
    BY <2>1, <2>2, <2>4, <2>7
<1>6. \A k \in 0..n : k \in P
  <2> HIDE DEF P
  <2> QED
    BY <1>2, <1>4, <1>5, UpFrom
<1>7. Said(g[n]) = Said(upTo(n)) /\ g[n] \in Parts
  BY <1>1, <1>2, <1>6
<1> QED
  BY <1>1, <1>3, <1>7

\* What the headings are joined to, so far.
Joined == {r \in [done : Parts, open : BOOLEAN] : r.open => r.done # <<>>}


\* JoinHeadings, one part after the other.
LEMMA JoinFolds ==
  ASSUME NEW parts \in Parts
  PROVE  \E g : /\ g \in [0..Len(parts) -> Joined]
                /\ g[0] = [done |-> <<>>, open |-> FALSE]
                /\ JoinHeadings(parts) = g[Len(parts)].done
                /\ \A k \in 1..Len(parts) :
                     g[k] = IF g[k - 1].open
                            THEN [done |-> Front(g[k - 1].done) \o <<Last(g[k - 1].done) \o parts[k]>>, open |-> FALSE]
                            ELSE [done |-> Append(g[k - 1].done, parts[k]), open |-> IsHeading(parts[k])]
<1> DEFINE T == Joined
           n == Len(parts)
           base == [done |-> <<>>, open |-> FALSE]
           op(v, k) == IF v.open
                       THEN [done |-> Front(v.done) \o <<Last(v.done) \o parts[k]>>, open |-> FALSE]
                       ELSE [done |-> Append(v.done, parts[k]), open |-> IsHeading(parts[k])]
           step == [k \in 1..n |-> [v \in T |-> op(v, k)]]
           F(h) == [k \in 0..n |-> IF k = 0 THEN base ELSE op(h[k - 1], k)]
           g == CHOOSE h : h = F(h)
<1>1. JoinHeadings(parts) = g[n].done
  BY DEF JoinHeadings, Along
<1>2. n \in Nat /\ base \in T
  BY DEF Parts, Joined
<1>3. ASSUME NEW k \in 1..n, NEW v \in T PROVE op(v, k) \in T
  <2>1. parts[k] \in Text /\ v.done \in Parts /\ v.open \in BOOLEAN /\ (v.open => v.done # <<>>)
    BY DEF Parts, Joined
  <2>2. Append(v.done, parts[k]) \in Parts /\ Append(v.done, parts[k]) # <<>>
    BY <2>1, AppendProperties DEF Parts
  <2>3. v.open => Front(v.done) \o <<Last(v.done) \o parts[k]>> \in Parts
    BY <2>1, LastGrows DEF Parts, Text
  <2>4. IsHeading(parts[k]) \in BOOLEAN
    BY DEF IsHeading
  <2> QED
    BY <2>1, <2>2, <2>3, <2>4 DEF Joined
<1> HIDE DEF T, n, base, op
<1>4. step \in [1..n -> [T -> T]] /\ \A k \in 1..n : \A v \in T : step[k][v] = op(v, k)
  BY <1>3
<1> HIDE DEF step
<1>5. PICK f : Solves(f, n, T, base, step)
  BY <1>2, <1>4, RecursionHas
<1>6. f = F(f)
  <2>1. f = [k \in 0..n |-> f[k]] /\ f[0] = base
    BY <1>5 DEF Solves
  <2>2. ASSUME NEW k \in 0..n, k # 0 PROVE f[k] = op(f[k - 1], k)
    <3>1. k \in 1..n /\ k - 1 \in 0..n
      BY <1>2, <2>2
    <3>2. f[k - 1] \in T /\ f[k] = step[k][f[k - 1]]
      BY <1>5, <3>1 DEF Solves
    <3> QED
      BY <1>4, <3>1, <3>2
  <2>3. \A k \in 0..n : f[k] = IF k = 0 THEN base ELSE op(f[k - 1], k)
    BY <2>1, <2>2
  <2> QED
    BY <2>1, <2>3
<1>7. g = F(g)
  <2> HIDE DEF F
  <2> QED
    BY <1>6
<1> HIDE DEF g
<1>8. /\ g = [k \in 0..n |-> g[k]] /\ g[0] = base
      /\ \A k \in 1..n : g[k] = op(g[k - 1], k)
  <2>1. g = [k \in 0..n |-> g[k]] /\ g[0] = base
    BY <1>2, <1>7
  <2>2. \A k \in 0..n : g[k] = IF k = 0 THEN base ELSE op(g[k - 1], k)
    BY <1>7
  <2>3. \A k \in 1..n : k \in 0..n /\ k # 0
    BY <1>2
  <2> QED
    BY <2>1, <2>2, <2>3
<1>9. Solves(g, n, T, base, step)
  <2>1. \A k \in 1..n : g[k - 1] \in T => g[k] = step[k][g[k - 1]]
    BY <1>4, <1>8
  <2> HIDE DEF F
  <2> QED
    BY <1>2, <1>4, <1>8, <2>1, TheSolution
<1> QED
  BY <1>1, <1>8, <1>9 DEF Solves, T, n, base, op

\* What JoinHeadings returns says what the parts say.
LEMMA JoinKeeps ==
  ASSUME NEW parts \in Parts
  PROVE  JoinHeadings(parts) \in Parts /\ Said(JoinHeadings(parts)) = Said(parts)
<1> DEFINE n == Len(parts)
           upTo(k) == SubSeq(parts, 1, k)
<1>1. PICK g : /\ g \in [0..n -> Joined] /\ g[0] = [done |-> <<>>, open |-> FALSE]
               /\ JoinHeadings(parts) = g[n].done
               /\ \A k \in 1..n :
                    g[k] = IF g[k - 1].open
                           THEN [done |-> Front(g[k - 1].done) \o <<Last(g[k - 1].done) \o parts[k]>>, open |-> FALSE]
                           ELSE [done |-> Append(g[k - 1].done, parts[k]), open |-> IsHeading(parts[k])]
  BY JoinFolds
<1>2. n \in Nat
  BY DEF Parts
<1>3. /\ upTo(0) = <<>> /\ upTo(n) = parts
      /\ \A k \in 1..n : parts[k] \in Text /\ upTo(k) = Append(upTo(k - 1), parts[k])
      /\ \A k \in 0..n : upTo(k) \in Parts
  BY OneMore DEF Parts
<1> HIDE DEF n, upTo
<1> DEFINE P == {k \in 0..n : Said(g[k].done) = Said(upTo(k))}
<1>4. 0 \in P
  BY <1>1, <1>2, <1>3
<1>5. ASSUME NEW k \in 1..n, k - 1 \in P PROVE k \in P
  <2> DEFINE v == g[k - 1].done
             u == upTo(k - 1)
             p == parts[k]
  <2>1. k - 1 \in 0..n /\ k \in 0..n
    BY <1>2
  <2>2. v \in Parts /\ u \in Parts /\ p \in Text /\ Said(v) = Said(u) /\ upTo(k) = Append(u, p)
    BY <1>1, <1>3, <1>5, <2>1 DEF Joined
  <2>3. \/ v # <<>> /\ g[k].done = Front(v) \o <<Last(v) \o p>>
        \/ g[k].done = Append(v, p)
    <3>1. g[k - 1].open => v # <<>>
      BY <1>1, <2>1 DEF Joined
    <3>2. g[k] = IF g[k - 1].open
                 THEN [done |-> Front(v) \o <<Last(v) \o p>>, open |-> FALSE]
                 ELSE [done |-> Append(v, p), open |-> IsHeading(p)]
      BY <1>1
    <3> HIDE DEF v, p
    <3> QED
      BY <3>1, <3>2
  <2> HIDE DEF v, u, p
  <2>4. /\ Said(Append(u, p)) = Said(u) \o Ink(p) /\ Said(Append(v, p)) = Said(v) \o Ink(p)
        /\ Said(u) \in Text /\ FlattenSeq(v) \in Text
    BY <2>2, SaidOfParts
  <2>5. v # <<>> => Said(Front(v) \o <<Last(v) \o p>>) = Said(v) \o Ink(p)
    <3>1. v # <<>> => FlattenSeq(Front(v) \o <<Last(v) \o p>>) = FlattenSeq(v) \o p
      BY <2>2, LastGrows DEF Parts, Text
    <3>2. Ink(FlattenSeq(v) \o p) = Ink(FlattenSeq(v)) \o Ink(p)
      BY <2>2, <2>4, InkJoins
    <3> QED
      BY <3>1, <3>2 DEF Said
  <2>6. Said(g[k].done) = Said(u) \o Ink(p)
    BY <2>2, <2>3, <2>4, <2>5
  <2> QED
    BY <2>1, <2>2, <2>4, <2>6
<1>6. \A k \in 0..n : k \in P
  <2> HIDE DEF P
  <2> QED
    BY <1>2, <1>4, <1>5, UpFrom
<1>7. Said(g[n].done) = Said(upTo(n)) /\ g[n].done \in Parts
  BY <1>1, <1>2, <1>6 DEF Joined
<1> QED
  BY <1>1, <1>3, <1>7

\* What the records of a list say, each in its text.
Texted(S) == \A r \in S : r.text \in Text

\* The texts of a list of records.
LEMMA TextsOfList ==
  ASSUME NEW S, Texted(S), NEW a \in Seq(S)
  PROVE  /\ TextsOf(a) \in Parts /\ Len(TextsOf(a)) = Len(a) /\ TextsOf(<<>>) = <<>>
         /\ \A k \in 1..Len(a) : TextsOf(a)[k] = a[k].text /\ a[k] \in S
         /\ \A r \in S : TextsOf(<<r>>) = <<r.text>>
<1>1. DOMAIN a = 1..Len(a) /\ Len(a) \in Nat /\ \A k \in 1..Len(a) : a[k] \in S /\ a[k].text \in Text
  BY DEF Texted
<1>2. TextsOf(a) \in Parts /\ Len(TextsOf(a)) = Len(a)
  BY <1>1 DEF TextsOf, Parts
<1>3. \A k \in 1..Len(a) : TextsOf(a)[k] = a[k].text
  BY <1>1 DEF TextsOf
<1>4. TextsOf(<<>>) = <<>>
  BY DEF TextsOf
<1>5. ASSUME NEW r \in S PROVE TextsOf(<<r>>) = <<r.text>>
  BY DEF TextsOf
<1> QED
  BY <1>1, <1>2, <1>3, <1>4, <1>5

\* The texts of two joined lists are the texts of each.
LEMMA TextsJoin ==
  ASSUME NEW S, Texted(S), NEW a \in Seq(S), NEW b \in Seq(S)
  PROVE  TextsOf(a \o b) = TextsOf(a) \o TextsOf(b)
<1> DEFINE l == TextsOf(a \o b)
           x == TextsOf(a)
           y == TextsOf(b)
           c == a \o b
<1>1. c \in Seq(S) /\ Len(c) = Len(a) + Len(b) /\ Len(a) \in Nat /\ Len(b) \in Nat
  OBVIOUS
<1>2. \A k \in 1..Len(c) : c[k] = IF k <= Len(a) THEN a[k] ELSE b[k - Len(a)]
  OBVIOUS
<1>3. x \in Parts /\ y \in Parts /\ Len(x) = Len(a) /\ Len(y) = Len(b)
  BY TextsOfList
<1>4. (\A k \in 1..Len(a) : x[k] = a[k].text) /\ (\A k \in 1..Len(b) : y[k] = b[k].text)
  BY TextsOfList
<1> HIDE DEF c
<1>5. l \in Parts /\ Len(l) = Len(c) /\ \A k \in 1..Len(c) : l[k] = c[k].text
  BY <1>1, TextsOfList DEF c
<1> HIDE DEF l, x, y
<1>6. x \o y \in Parts /\ Len(x \o y) = Len(c)
  <2>1. x \o y \in Parts
    BY <1>3 DEF Parts
  <2>2. Len(x \o y) = Len(x) + Len(y)
    BY <1>3 DEF Parts
  <2> QED
    BY <1>1, <1>3, <2>1, <2>2
<1>7. ASSUME NEW k \in 1..Len(l) PROVE l[k] = (x \o y)[k]
  <2>1. k \in 1..Len(c) /\ l[k] = c[k].text
    BY <1>5
  <2>2. CASE k <= Len(a)
    <3>1. k \in 1..Len(a) /\ l[k] = x[k]
      BY <1>1, <1>2, <1>4, <2>1, <2>2
    <3>2. (x \o y)[k] = x[k]
      BY <1>3, <3>1 DEF Parts
    <3> QED
      BY <3>1, <3>2
  <2>3. CASE ~(k <= Len(a))
    <3>1. k - Len(a) \in 1..Len(b)
      BY <1>1, <2>1, <2>3
    <3>2. l[k] = y[k - Len(a)]
      BY <1>2, <1>4, <2>1, <2>3, <3>1
    <3>3. (x \o y)[k] = y[k - Len(a)]
      BY <1>1, <1>3, <2>1, <2>3 DEF Parts
    <3> QED
      BY <3>2, <3>3
  <2> QED
    BY <2>2, <2>3
<1>8. l = x \o y
  <2> DEFINE r == x \o y
  <2>1. l \in Seq(Text) /\ r \in Seq(Text) /\ Len(l) = Len(r) /\ \A k \in 1..Len(l) : l[k] = r[k]
    BY <1>5, <1>6, <1>7 DEF Parts
  <2> HIDE DEF r
  <2>2. l = r
    BY <2>1, SeqEqual
  <2> QED
    BY <2>2 DEF r
<1> QED
  BY <1>8 DEF l, x, y, c

\* The pieces between the fences, and the fences.
Piece == [text : Text, atomic : BOOLEAN]
Plain(t, from, to) ==
  IF from > to THEN <<>> ELSE <<[text |-> SubSeq(t, from, to), atomic |-> FALSE]>>
Fence(t, i) == [text |-> SubSeq(t, i, Max(FenceEnds(t, i))), atomic |-> TRUE]

\* A fence ends after the position it opens at, within the text.
LEMMA FenceEndsLater ==
  ASSUME NEW t \in Text, NEW i \in 1..Len(t), FenceEnds(t, i) # {}
  PROVE  Max(FenceEnds(t, i)) \in i+1..Len(t)
<1> DEFINE End(c, j) == Blank(SubSeq(t, c + 1, j)) /\ (j = Len(t) \/ t[j + 1] = "/")
           closes == {c \in i+1..Len(t) : t[c] = "~" /\ t[c - 1] = "/" /\ \E j \in c..Len(t) : End(c, j)}
           J == {j \in Min(closes)..Len(t) : End(Min(closes), j)}
<1>1. Len(t) \in Nat
  BY DEF Text
<1>2. closes # {} /\ FenceEnds(t, i) = {Max(J)}
  BY DEF FenceEnds
<1>3. closes \subseteq 1..Len(t)
  BY <1>1
<1>4. Min(closes) \in closes
  <2> HIDE DEF closes
  <2> QED
    BY <1>1, <1>2, <1>3, EndsOf
<1> DEFINE m == Min(closes)
<1>5. m \in i+1..Len(t) /\ \E j \in m..Len(t) : End(m, j)
  BY <1>4
<1> HIDE DEF m, End
<1>6. J = {j \in m..Len(t) : End(m, j)}
  BY DEF m
<1>7. J # {} /\ J \subseteq 1..Len(t) /\ J \subseteq i+1..Len(t)
  <2>1. J # {}
    <3>1. PICK j \in m..Len(t) : End(m, j)
      BY <1>5
    <3>2. j \in J
      BY <1>6, <3>1
    <3> QED
      BY <3>2
  <2>2. J \subseteq i+1..Len(t)
    <3>1. i \in Nat /\ Len(t) \in Nat /\ m \in i+1..Len(t)
      BY <1>1, <1>5 DEF Text
    <3>2. m..Len(t) \subseteq i+1..Len(t)
      BY <3>1
    <3> QED
      BY <1>6, <3>2
  <2>3. i+1..Len(t) \subseteq 1..Len(t)
    BY DEF Text
  <2> QED
    BY <2>1, <2>2, <2>3
<1> HIDE DEF J
<1>8. Max(J) \in J
  BY <1>1, <1>7, EndsOf
<1> DEFINE x == Max(J)
<1>9. x \in i+1..Len(t) /\ FenceEnds(t, i) = {x}
  BY <1>2, <1>7, <1>8
<1> HIDE DEF x
<1>10. {x} \subseteq 1..Len(t) /\ {x} # {}
  BY <1>1, <1>9
<1>11. Max({x}) \in {x}
  BY <1>1, <1>10, EndsOf
<1> QED
  BY <1>9, <1>11

\* Pieces carry texts.
LEMMA PiecesAreTexted == Texted(Piece)
BY DEF Texted, Piece

\* What lies between two fences is taken as it stands.
LEMMA PlainSays ==
  ASSUME NEW t \in Text, NEW from \in 1..Len(t)+1, NEW to \in from-1..Len(t)
  PROVE  /\ Plain(t, from, to) \in Seq(Piece)
         /\ FlattenSeq(TextsOf(Plain(t, from, to))) = SubSeq(t, from, to)
<1>1. Len(t) \in Nat /\ from \in Int /\ to \in Int
  BY DEF Text
<1>2. CASE from > to
  <2>1. Plain(t, from, to) = <<>> /\ SubSeq(t, from, to) = <<>>
    BY <1>1, <1>2, SubSeqEmpty DEF Plain
  <2>2. TextsOf(<<>>) = <<>> /\ FlattenSeq(<<>>) = <<>>
    BY DEF TextsOf, FlattenSeq
  <2> QED
    BY <2>1, <2>2
<1>3. CASE ~(from > to)
  <2> DEFINE u == SubSeq(t, from, to)
             r == [text |-> u, atomic |-> FALSE]
  <2>1. u \in Text
    BY <1>1, <1>3 DEF Text
  <2>2. Plain(t, from, to) = <<r>>
    BY <1>3 DEF Plain
  <2> HIDE DEF u
  <2>3. r \in Piece /\ r.text = u
    BY <2>1 DEF Piece
  <2> HIDE DEF r
  <2>4. <<r>> \in Seq(Piece) /\ <<>> \in Seq(Piece)
    BY <2>3
  <2>5. TextsOf(<<r>>) = <<u>>
    BY <2>3, <2>4, PiecesAreTexted, TextsOfList
  <2>6. FlattenSeq(<<u>>) = u
    <3>1. <<>> \in Parts
      BY DEF Parts
    <3> QED
      BY <2>1, <3>1, SaidOfParts
  <2> QED
    BY <2>2, <2>4, <2>5, <2>6 DEF u
<1> QED
  BY <1>2, <1>3

\* ProtectedPieces, one position after the other: what is done, up to where.
Cut(t) == [done : Seq(Piece), cursor : 1..Len(t)+1]


\* ProtectedPieces, one position after the other.
LEMMA ProtectedFolds ==
  ASSUME NEW t \in Text
  PROVE  \E g : /\ g \in [0..Len(Positions(t)) -> Cut(t)]
                /\ g[0] = [done |-> <<>>, cursor |-> 1]
                /\ ProtectedPieces(t) = g[Len(Positions(t))].done \o Plain(t, g[Len(Positions(t))].cursor, Len(t))
                /\ \A k \in 1..Len(Positions(t)) :
                     g[k] = IF Positions(t)[k] >= g[k - 1].cursor /\ t[Positions(t)[k]] = "~" /\ LineStart(t, Positions(t)[k])
                               /\ FenceEnds(t, Positions(t)[k]) # {}
                            THEN [done |-> g[k - 1].done \o Plain(t, g[k - 1].cursor, Positions(t)[k] - 1)
                                             \o <<Fence(t, Positions(t)[k])>>,
                                  cursor |-> Max(FenceEnds(t, Positions(t)[k])) + 1]
                            ELSE g[k - 1]
<1> DEFINE T == Cut(t)
           n == Len(Positions(t))
           base == [done |-> <<>>, cursor |-> 1]
           op(v, k) == IF Positions(t)[k] >= v.cursor /\ t[Positions(t)[k]] = "~" /\ LineStart(t, Positions(t)[k])
                          /\ FenceEnds(t, Positions(t)[k]) # {}
                       THEN [done |-> v.done \o Plain(t, v.cursor, Positions(t)[k] - 1) \o <<Fence(t, Positions(t)[k])>>,
                             cursor |-> Max(FenceEnds(t, Positions(t)[k])) + 1]
                       ELSE v
           step == [k \in 1..n |-> [v \in T |-> op(v, k)]]
           F(h) == [k \in 0..n |-> IF k = 0 THEN base ELSE op(h[k - 1], k)]
           g == CHOOSE h : h = F(h)
<1>1. ProtectedPieces(t) = g[n].done \o Plain(t, g[n].cursor, Len(t))
  BY DEF ProtectedPieces, Along, Plain, Fence
<1>2. n \in Nat /\ base \in T /\ n = Len(t)
  BY PositionsOf DEF Cut, Text
<1>3. ASSUME NEW k \in 1..n, NEW v \in T PROVE op(v, k) \in T
  <2>1. Positions(t)[k] = k /\ k \in 1..Len(t) /\ Len(t) \in Nat
    BY <1>2, PositionsOf
  <2>2. v.done \in Seq(Piece) /\ v.cursor \in 1..Len(t)+1
    BY DEF Cut
  <2>3. SUFFICES ASSUME k >= v.cursor, FenceEnds(t, k) # {}
        PROVE  /\ v.done \o Plain(t, v.cursor, k - 1) \o <<Fence(t, k)>> \in Seq(Piece)
               /\ Max(FenceEnds(t, k)) + 1 \in 1..Len(t)+1
    BY <2>1 DEF Cut
  <2>4. Max(FenceEnds(t, k)) \in k+1..Len(t)
    BY <2>1, <2>3, FenceEndsLater
  <2>5. k - 1 \in v.cursor-1..Len(t)
    BY <2>1, <2>2, <2>3
  <2>6. Plain(t, v.cursor, k - 1) \in Seq(Piece)
    BY <2>2, <2>5, PlainSays
  <2>7. Fence(t, k) \in Piece
    <3>1. SubSeq(t, k, Max(FenceEnds(t, k))) \in Text
      BY <2>1, <2>4 DEF Text
    <3> QED
      BY <3>1 DEF Fence, Piece
  <2>8. v.done \o Plain(t, v.cursor, k - 1) \o <<Fence(t, k)>> \in Seq(Piece)
    BY <2>2, <2>6, <2>7
  <2> QED
    BY <2>1, <2>4, <2>8
<1> HIDE DEF T, n, base, op
<1>4. step \in [1..n -> [T -> T]] /\ \A k \in 1..n : \A v \in T : step[k][v] = op(v, k)
  BY <1>3
<1> HIDE DEF step
<1>5. PICK f : Solves(f, n, T, base, step)
  BY <1>2, <1>4, RecursionHas
<1>6. f = F(f)
  <2>1. f = [k \in 0..n |-> f[k]] /\ f[0] = base
    BY <1>5 DEF Solves
  <2>2. ASSUME NEW k \in 0..n, k # 0 PROVE f[k] = op(f[k - 1], k)
    <3>1. k \in 1..n /\ k - 1 \in 0..n
      BY <1>2, <2>2
    <3>2. f[k - 1] \in T /\ f[k] = step[k][f[k - 1]]
      BY <1>5, <3>1 DEF Solves
    <3> QED
      BY <1>4, <3>1, <3>2
  <2>3. \A k \in 0..n : f[k] = IF k = 0 THEN base ELSE op(f[k - 1], k)
    BY <2>1, <2>2
  <2> QED
    BY <2>1, <2>3
<1>7. g = F(g)
  <2> HIDE DEF F
  <2> QED
    BY <1>6
<1> HIDE DEF g
<1>8. /\ g = [k \in 0..n |-> g[k]] /\ g[0] = base
      /\ \A k \in 1..n : g[k] = op(g[k - 1], k)
  <2>1. g = [k \in 0..n |-> g[k]] /\ g[0] = base
    BY <1>2, <1>7
  <2>2. \A k \in 0..n : g[k] = IF k = 0 THEN base ELSE op(g[k - 1], k)
    BY <1>7
  <2>3. \A k \in 1..n : k \in 0..n /\ k # 0
    BY <1>2
  <2> QED
    BY <2>1, <2>2, <2>3
<1>9. Solves(g, n, T, base, step)
  <2>1. \A k \in 1..n : g[k - 1] \in T => g[k] = step[k][g[k - 1]]
    BY <1>4, <1>8
  <2> HIDE DEF F
  <2> QED
    BY <1>2, <1>4, <1>8, <2>1, TheSolution
<1> QED
  BY <1>1, <1>8, <1>9 DEF Solves, T, n, base, op

\* Protecting the fences loses nothing of the text.
LEMMA ProtectedKeeps ==
  ASSUME NEW t \in Text
  PROVE  /\ ProtectedPieces(t) \in Seq(Piece)
         /\ FlattenSeq(TextsOf(ProtectedPieces(t))) = t
<1> DEFINE n == Len(t)
<1>1. n \in Nat /\ Len(Positions(t)) = n /\ \A k \in 1..n : Positions(t)[k] = k
  BY PositionsOf DEF Text
<1>2. PICK g : /\ g \in [0..n -> Cut(t)] /\ g[0] = [done |-> <<>>, cursor |-> 1]
               /\ ProtectedPieces(t) = g[n].done \o Plain(t, g[n].cursor, n)
               /\ \A k \in 1..n :
                    \/ g[k] = g[k - 1]
                    \/ /\ k >= g[k - 1].cursor /\ FenceEnds(t, k) # {}
                       /\ g[k] = [done |-> g[k - 1].done \o Plain(t, g[k - 1].cursor, k - 1) \o <<Fence(t, k)>>,
                                  cursor |-> Max(FenceEnds(t, k)) + 1]
  <2>1. PICK g : /\ g \in [0..Len(Positions(t)) -> Cut(t)] /\ g[0] = [done |-> <<>>, cursor |-> 1]
                 /\ ProtectedPieces(t) = g[Len(Positions(t))].done \o Plain(t, g[Len(Positions(t))].cursor, Len(t))
                 /\ \A k \in 1..Len(Positions(t)) :
                      g[k] = IF Positions(t)[k] >= g[k - 1].cursor /\ t[Positions(t)[k]] = "~"
                                /\ LineStart(t, Positions(t)[k]) /\ FenceEnds(t, Positions(t)[k]) # {}
                             THEN [done |-> g[k - 1].done \o Plain(t, g[k - 1].cursor, Positions(t)[k] - 1)
                                              \o <<Fence(t, Positions(t)[k])>>,
                                   cursor |-> Max(FenceEnds(t, Positions(t)[k])) + 1]
                             ELSE g[k - 1]
    BY ProtectedFolds
  <2>2. \A k \in 1..n :
          \/ g[k] = g[k - 1]
          \/ /\ k >= g[k - 1].cursor /\ FenceEnds(t, k) # {}
             /\ g[k] = [done |-> g[k - 1].done \o Plain(t, g[k - 1].cursor, k - 1) \o <<Fence(t, k)>>,
                        cursor |-> Max(FenceEnds(t, k)) + 1]
    <3>1. SUFFICES ASSUME NEW k \in 1..n
                   PROVE  \/ g[k] = g[k - 1]
                          \/ /\ k >= g[k - 1].cursor /\ FenceEnds(t, k) # {}
                             /\ g[k] = [done |-> g[k - 1].done \o Plain(t, g[k - 1].cursor, k - 1) \o <<Fence(t, k)>>,
                                        cursor |-> Max(FenceEnds(t, k)) + 1]
      OBVIOUS
    <3>2. k \in 1..Len(Positions(t)) /\ Positions(t)[k] = k
      BY <1>1
    <3> HIDE DEF n
    <3> QED
      BY <2>1, <3>2
  <2> QED
    BY <1>1, <2>1, <2>2
<1> HIDE DEF n
<1> DEFINE Reads(v) == FlattenSeq(TextsOf(v.done)) = SubSeq(t, 1, v.cursor - 1)
           P == {k \in 0..n : Reads(g[k])}
<1>3. 0 \in P
  <2>1. g[0].done = <<>> /\ g[0].cursor = 1
    BY <1>2
  <2>2. TextsOf(<<>>) = <<>> /\ FlattenSeq(<<>>) = <<>>
    BY DEF TextsOf, FlattenSeq
  <2>3. SubSeq(t, 1, 1 - 1) = <<>>
    BY SubSeqEmpty
  <2>4. Reads(g[0])
    BY <2>1, <2>2, <2>3
  <2> QED
    BY <1>1, <2>4
<1>4. ASSUME NEW v \in Cut(t), Reads(v), NEW to \in v.cursor-1..n
      PROVE  /\ v.done \o Plain(t, v.cursor, to) \in Seq(Piece)
             /\ FlattenSeq(TextsOf(v.done \o Plain(t, v.cursor, to))) = SubSeq(t, 1, to)
  <2> DEFINE c == v.cursor
             a == v.done
             b == Plain(t, c, to)
  <2>1. a \in Seq(Piece) /\ c \in 1..n+1 /\ n = Len(t)
    BY DEF Cut, n
  <2>2. b \in Seq(Piece) /\ FlattenSeq(TextsOf(b)) = SubSeq(t, c, to)
    BY <2>1, PlainSays
  <2>3. FlattenSeq(TextsOf(a)) = SubSeq(t, 1, c - 1)
    BY <1>4
  <2> HIDE DEF a, b
  <2>4. TextsOf(a \o b) = TextsOf(a) \o TextsOf(b) /\ TextsOf(a) \in Parts /\ TextsOf(b) \in Parts
    BY <2>1, <2>2, TextsJoin, TextsOfList, PiecesAreTexted
  <2>5. FlattenSeq(TextsOf(a) \o TextsOf(b)) = FlattenSeq(TextsOf(a)) \o FlattenSeq(TextsOf(b))
    BY <2>4, FlattenJoins DEF Parts, Text
  <2>6. SubSeq(t, 1, c - 1) \o SubSeq(t, c, to) = SubSeq(t, 1, to)
    <3>1. 1 \in 1..Len(t)+1 /\ c - 1 \in 1-1..Len(t) /\ to \in (c - 1)..Len(t) /\ (c - 1) + 1 = c
      BY <1>1, <2>1
    <3> HIDE DEF c
    <3>2. SubSeq(t, 1, c - 1) \o SubSeq(t, (c - 1) + 1, to) = SubSeq(t, 1, to)
      BY <3>1, ConcatAdjacentSubSeq DEF Text
    <3> QED
      BY <3>1, <3>2
  <2>7. a \o b \in Seq(Piece)
    BY <2>1, <2>2
  <2> QED
    BY <2>2, <2>3, <2>4, <2>5, <2>6, <2>7 DEF a, b
<1>5. ASSUME NEW k \in 1..n, k - 1 \in P PROVE k \in P
  <2> DEFINE v == g[k - 1]
  <2>1. k - 1 \in 0..n /\ k \in 0..n /\ v \in Cut(t) /\ Reads(v) /\ n = Len(t)
    BY <1>1, <1>2, <1>5 DEF n
  <2>2. CASE g[k] = v
    BY <2>1, <2>2
  <2>3. CASE g[k] # v
    <3> DEFINE e == Max(FenceEnds(t, k))
               a == v.done \o Plain(t, v.cursor, k - 1)
               f == SubSeq(t, k, e)
    <3>1. k >= v.cursor /\ FenceEnds(t, k) # {} /\ g[k] = [done |-> a \o <<Fence(t, k)>>, cursor |-> e + 1]
      BY <1>2, <2>3
    <3>2. e \in k+1..Len(t)
      BY <2>1, <3>1, FenceEndsLater
    <3>3. v.cursor \in 1..n+1
      BY <2>1 DEF Cut
    <3>4. k - 1 \in v.cursor-1..n
      BY <1>1, <3>1, <3>3
    <3>5. a \in Seq(Piece) /\ FlattenSeq(TextsOf(a)) = SubSeq(t, 1, k - 1)
      BY <1>4, <2>1, <3>4
    <3>6. Fence(t, k) \in Piece /\ Fence(t, k).text = f /\ f \in Text
      <4>1. f \in Text
        BY <1>1, <2>1, <3>2 DEF Text
      <4> QED
        BY <4>1 DEF Fence, Piece
    <3> HIDE DEF a, e
    <3>7. TextsOf(a \o <<Fence(t, k)>>) = TextsOf(a) \o <<f>> /\ TextsOf(a) \in Parts
      <4> DEFINE r == Fence(t, k)
      <4>1. r \in Piece /\ r.text = f
        BY <3>6
      <4> HIDE DEF r, f
      <4>2. <<r>> \in Seq(Piece)
        BY <4>1
      <4>3. TextsOf(<<r>>) = <<f>> /\ TextsOf(a) \in Parts
        BY <3>5, <4>1, TextsOfList, PiecesAreTexted
      <4>4. TextsOf(a \o <<r>>) = TextsOf(a) \o TextsOf(<<r>>)
        BY <3>5, <4>2, TextsJoin, PiecesAreTexted
      <4> QED
        BY <4>3, <4>4 DEF r
    <3>8. FlattenSeq(TextsOf(a) \o <<f>>) = FlattenSeq(TextsOf(a)) \o f
      <4>1. <<f>> \in Parts /\ FlattenSeq(<<f>>) = f
        BY <3>6, <3>7, SaidOfParts
      <4> HIDE DEF f
      <4> QED
        BY <3>7, <4>1, FlattenJoins DEF Parts, Text
    <3>9. SubSeq(t, 1, k - 1) \o f = SubSeq(t, 1, e)
      <4>1. k \in 1..Len(t) /\ e \in k..Len(t)
        BY <1>1, <2>1, <3>2
      <4> QED
        BY <4>1, InThree
    <3>10. (e + 1) - 1 = e
      BY <1>1, <2>1, <3>2
    <3>11. Reads(g[k])
      <4>1. g[k].done = a \o <<Fence(t, k)>> /\ g[k].cursor = e + 1
        BY <3>1
      <4> HIDE DEF f
      <4> QED
        BY <3>5, <3>7, <3>8, <3>9, <3>10, <4>1
    <3> QED
      BY <2>1, <3>11
  <2> QED
    BY <2>2, <2>3
<1>6. \A k \in 0..n : k \in P
  <2> HIDE DEF P
  <2> QED
    BY <1>1, <1>3, <1>5, UpFrom
<1>7. g[n] \in Cut(t) /\ Reads(g[n])
  BY <1>1, <1>2, <1>6
<1>8. n \in g[n].cursor-1..n
  <2>1. g[n].cursor \in 1..Len(t)+1
    BY <1>7 DEF Cut
  <2> QED
    BY <1>1, <2>1 DEF n
<1>9. SubSeq(t, 1, n) = t
  BY OneMore DEF Text, n
<1> QED
  BY <1>2, <1>4, <1>7, <1>8, <1>9

\* What the pieces of a plain text say is what the text says.
LEMMA RawKeeps ==
  ASSUME NEW t \in Text, NEW size
  PROVE  Raw(t, size) \in Parts /\ Said(Raw(t, size)) = Ink(t)
<1> DEFINE ps == ProtectedPieces(t)
           cut(p) == IF p.atomic THEN <<p.text>> ELSE Recursive(p.text, size)
           f == [k \in DOMAIN ps |-> cut(ps[k])]
           q == TextsOf(ps)
<1>1. CASE Blank(t)
  <2>1. <<>> \in Parts /\ Raw(t, size) = <<>> /\ Ink(t) = <<>>
    BY <1>1, BlankSaysNothing DEF Raw, Parts
  <2>2. Said(<<>>) = <<>>
    BY <2>1, NothingIsLess, SaidOfParts
  <2> QED
    BY <2>1, <2>2
<1>2. CASE ~Blank(t)
  <2>1. Raw(t, size) = JoinHeadings(MergeSmall(FlattenSeq(f), size))
    BY <1>2 DEF Raw
  <2>2. ps \in Seq(Piece) /\ FlattenSeq(q) = t
    BY ProtectedKeeps
  <2> HIDE DEF ps
  <2>3. q \in Parts /\ Len(q) = Len(ps) /\ \A k \in 1..Len(ps) : q[k] = ps[k].text
    <3>1. ps \in Seq(Piece)
      BY <2>2
    <3> QED
      BY <3>1, TextsOfList, PiecesAreTexted
  <2> HIDE DEF q
  <2>4. DOMAIN ps = 1..Len(ps) /\ Len(ps) \in Nat /\ \A k \in 1..Len(ps) : ps[k].text \in Text
    <3>1. DOMAIN ps = 1..Len(ps) /\ Len(ps) \in Nat /\ \A k \in 1..Len(ps) : ps[k] \in Piece
      BY <2>2
    <3> QED
      BY <3>1, PiecesAreTexted DEF Texted
  <2>5. ASSUME NEW k \in 1..Len(ps) PROVE cut(ps[k]) \in Parts /\ Said(cut(ps[k])) = Ink(ps[k].text)
    <3> DEFINE p == ps[k].text
    <3>1. p \in Text
      BY <2>4
    <3> HIDE DEF p
    <3>2. <<p>> \in Parts /\ Said(<<p>>) = Ink(p)
      <4>1. <<>> \in Parts
        BY DEF Parts
      <4> QED
        BY <3>1, <4>1, SaidOfParts
    <3>3. Recursive(p, size) \in Parts /\ Said(Recursive(p, size)) = Ink(p)
      BY <3>1, RecursiveKeeps
    <3> QED
      BY <3>2, <3>3 DEF p
  <2> HIDE DEF cut
  <2>6. f \in Seq(Parts) /\ Len(f) = Len(q) /\ \A k \in 1..Len(q) : Said(f[k]) = Ink(q[k])
    BY <2>3, <2>4, <2>5
  <2> HIDE DEF f
  <2>7. FlattenSeq(f) \in Parts /\ Said(FlattenSeq(f)) = Said(q)
    BY <2>3, <2>6, SaidOfPieces
  <2>8. Said(q) = Ink(t)
    BY <2>2 DEF Said
  <2> DEFINE a == FlattenSeq(f)
  <2> HIDE DEF a
  <2>9. a \in Parts /\ Said(a) = Ink(t)
    BY <2>7, <2>8 DEF a
  <2>10. MergeSmall(a, size) \in Parts /\ Said(MergeSmall(a, size)) = Ink(t)
    BY <2>9, MergeKeeps
  <2> DEFINE b == MergeSmall(a, size)
  <2> HIDE DEF b
  <2>11. b \in Parts /\ Said(b) = Ink(t)
    BY <2>10 DEF b
  <2>12. JoinHeadings(b) \in Parts /\ Said(JoinHeadings(b)) = Ink(t)
    BY <2>11, JoinKeeps
  <2> QED
    BY <2>1, <2>12 DEF a, b
<1> QED
  BY <1>1, <1>2

\* What follows a prefix of its own length.
LEMMA AfterPrefix ==
  ASSUME NEW S, NEW a \in Seq(S), NEW b \in Seq(S)
  PROVE  SubSeq(a \o b, Len(a) + 1, Len(a \o b)) = b
<1> DEFINE c == a \o b
           r == SubSeq(c, Len(a) + 1, Len(c))
<1>1. c \in Seq(S) /\ Len(c) = Len(a) + Len(b) /\ Len(a) \in Nat /\ Len(b) \in Nat
  OBVIOUS
<1>2. \A i \in 1..Len(b) : c[Len(a) + i] = b[i]
  <2>1. ASSUME NEW i \in 1..Len(b) PROVE c[Len(a) + i] = b[i]
    <3>1. Len(a) + i \in 1..Len(c) /\ ~(Len(a) + i <= Len(a)) /\ (Len(a) + i) - Len(a) = i
      BY <1>1
    <3>2. \A j \in 1..Len(c) : ~(j <= Len(a)) => c[j] = b[j - Len(a)]
      OBVIOUS
    <3> QED
      BY <3>1, <3>2
  <2> QED
    BY <2>1
<1> HIDE DEF c
<1>3. \A i \in (Len(a) + 1)..Len(c) : c[i] \in S
  BY <1>1
<1>4. r \in Seq(S) /\ Len(r) = (IF Len(a) + 1 <= Len(c) THEN Len(c) - (Len(a) + 1) + 1 ELSE 0)
      /\ \A i \in 1..(Len(c) - (Len(a) + 1) + 1) : r[i] = c[(Len(a) + 1) + i - 1]
  <2>1. Len(a) + 1 \in Int /\ Len(c) \in Int
    BY <1>1
  <2> QED
    BY <1>3, <2>1, SubSeqProperties
<1> HIDE DEF r
<1>5. Len(r) = Len(b)
  BY <1>1, <1>4
<1>6. ASSUME NEW i \in 1..Len(r) PROVE r[i] = b[i]
  <2>1. i \in 1..(Len(c) - (Len(a) + 1) + 1) /\ (Len(a) + 1) + i - 1 = Len(a) + i /\ i \in 1..Len(b)
    BY <1>1, <1>5
  <2> QED
    BY <1>2, <1>4, <2>1
<1>7. r = b
  BY <1>4, <1>5, <1>6, SeqEqual
<1> QED
  BY <1>7 DEF r, c

\* The overlap is a text, as long as asked for or as the text is.
LEMMA TailOfText ==
  ASSUME NEW t \in Text, NEW n \in Nat
  PROVE  Tail_(t, n) \in Text /\ Len(Tail_(t, n)) = IF Len(t) < n THEN Len(t) ELSE n
<1> DEFINE m == IF Len(t) > n THEN Len(t) - n + 1 ELSE 1
<1>1. Len(t) \in Nat /\ m \in 1..Len(t)+1 /\ Len(t) \in Int /\ m \in Int
  BY DEF Text
<1>2. Tail_(t, n) = SubSeq(t, m, Len(t))
  BY DEF Tail_
<1>3. Len(t) - m + 1 = IF Len(t) < n THEN Len(t) ELSE n
  <2> DEFINE l == Len(t)
  <2>1. l \in Nat
    BY <1>1
  <2> HIDE DEF l
  <2>2. l - (IF l > n THEN l - n + 1 ELSE 1) + 1 = IF l < n THEN l ELSE n
    <3>1. CASE l > n
      BY <2>1, <3>1
    <3>2. CASE ~(l > n)
      BY <2>1, <3>2
    <3> QED
      BY <3>1, <3>2
  <2> QED
    BY <2>2 DEF l
<1> HIDE DEF m
<1>4. \A i \in m..Len(t) : t[i] \in Characters
  BY <1>1 DEF Text
<1>5. SubSeq(t, m, Len(t)) \in Seq(Characters)
      /\ Len(SubSeq(t, m, Len(t))) = IF m <= Len(t) THEN Len(t) - m + 1 ELSE 0
  BY <1>1, <1>4, SubSeqProperties
<1>6. Len(SubSeq(t, m, Len(t))) = Len(t) - m + 1
  BY <1>1, <1>5
<1> QED
  BY <1>2, <1>3, <1>5, <1>6 DEF Text

\* Taking off the overlap gives back what it was put on.
LEMMA OverlapReadsBack ==
  ASSUME NEW raw \in Parts, NEW n \in Nat, NEW t, Said(raw) = Ink(t)
  PROVE  Overlapped(raw, n) \in Parts /\ ReadsBack(Overlapped(raw, n), n, t)
<1> DEFINE m == Len(raw)
           parts == Overlapped(raw, n)
           lap(own) == IF Len(own) < n THEN Len(own) ELSE n
           G(h) == [k \in DOMAIN parts |->
                      IF k = 1 THEN parts[1] ELSE SubSeq(parts[k], lap(h[k - 1]) + 1, Len(parts[k]))]
           own == CHOOSE h : h = G(h)
<1>1. DOMAIN raw = 1..m /\ m \in Nat /\ (\A k \in 1..m : raw[k] \in Text) /\ raw = [k \in 1..m |-> raw[k]]
  BY DEF Parts
<1>2. /\ DOMAIN parts = 1..m
      /\ \A k \in 1..m : parts[k] = IF k = 1 THEN raw[1] ELSE Tail_(raw[k - 1], n) \o raw[k]
  BY <1>1 DEF Overlapped
<1>3. ASSUME NEW k \in 1..m, k # 1
      PROVE  /\ parts[k] \in Text /\ Len(parts[k]) = lap(raw[k - 1]) + Len(raw[k])
             /\ SubSeq(parts[k], lap(raw[k - 1]) + 1, Len(parts[k])) = raw[k]
  <2> DEFINE a == Tail_(raw[k - 1], n)
             b == raw[k]
  <2>1. raw[k - 1] \in Text /\ b \in Text
    BY <1>1, <1>3
  <2>2. a \in Text /\ Len(a) = lap(raw[k - 1])
    BY <2>1, TailOfText
  <2>3. parts[k] = a \o b
    BY <1>2, <1>3
  <2> HIDE DEF a, b, parts, lap
  <2>4. a \o b \in Text /\ Len(a \o b) = Len(a) + Len(b)
    <3>1. a \o b \in Text
      BY <2>1, <2>2 DEF Text
    <3>2. \A u, v \in Text : Len(u \o v) = Len(u) + Len(v)
      BY DEF Text
    <3>3. Len(a \o b) = Len(a) + Len(b)
      BY <2>1, <2>2, <3>2
    <3> QED
      BY <3>1, <3>3
  <2>5. SubSeq(a \o b, Len(a) + 1, Len(a \o b)) = b
    BY <2>1, <2>2, AfterPrefix DEF Text
  <2> QED
    BY <2>2, <2>3, <2>4, <2>5 DEF b
<1>4. parts \in Parts
  <2>1. \A k \in 1..m : parts[k] \in Text
    BY <1>1, <1>2, <1>3
  <2>2. parts = [k \in 1..m |-> parts[k]]
    BY <1>1 DEF Overlapped
  <2> HIDE DEF parts
  <2> QED
    BY <1>1, <2>1, <2>2 DEF Parts
<1>5. ReadsBack(parts, n, t) <=>
        /\ Ink(FlattenSeq([k \in DOMAIN parts |-> own[k]])) = Ink(t)
        /\ \A k \in DOMAIN parts \ {1} : Len(own[k]) + lap(own[k - 1]) = Len(parts[k])
  <2> HIDE DEF parts
  <2> QED
    BY DEF ReadsBack
<1> HIDE DEF m, parts, own
<1>6. raw = G(raw)
  <2>1. ASSUME NEW k \in 1..m
        PROVE  raw[k] = IF k = 1 THEN parts[1] ELSE SubSeq(parts[k], lap(raw[k - 1]) + 1, Len(parts[k]))
    BY <1>2, <1>3
  <2> HIDE DEF lap
  <2> QED
    BY <1>1, <1>2, <2>1
<1>7. own = G(own)
  <2> HIDE DEF G
  <2> QED
    BY <1>6 DEF own
<1>8. \A k \in 1..m : own[k] = IF k = 1 THEN parts[1] ELSE SubSeq(parts[k], lap(own[k - 1]) + 1, Len(parts[k]))
  <2> HIDE DEF lap
  <2> QED
    BY <1>2, <1>7
<1> HIDE DEF G
<1> DEFINE P == {k \in 0..m : k = 0 \/ own[k] = raw[k]}
<1>9. 0 \in P
  BY <1>1
<1>10. ASSUME NEW k \in 1..m, k - 1 \in P PROVE k \in P
  <2>1. CASE k = 1
    <3>1. own[1] = parts[1] /\ parts[1] = raw[1]
      BY <1>2, <1>8, <2>1
    <3> QED
      BY <1>1, <2>1, <3>1
  <2>2. CASE k # 1
    <3>1. own[k - 1] = raw[k - 1]
      BY <1>10, <2>2
    <3>2. own[k] = raw[k]
      BY <1>3, <1>8, <2>2, <3>1
    <3> QED
      BY <1>1, <3>2
  <2> QED
    BY <2>1, <2>2
<1>11. \A k \in 1..m : own[k] = raw[k]
  <2>1. \A k \in 0..m : k \in P
    <3> HIDE DEF P
    <3> QED
      BY <1>1, <1>9, <1>10, UpFrom
  <2>2. ASSUME NEW k \in 1..m PROVE own[k] = raw[k]
    <3>1. k \in P /\ k # 0
      BY <1>1, <2>1
    <3> QED
      BY <3>1
  <2> QED
    BY <2>2
<1>12. [k \in DOMAIN parts |-> own[k]] = raw
  BY <1>1, <1>2, <1>11
<1>13. \A k \in DOMAIN parts \ {1} : Len(own[k]) + lap(own[k - 1]) = Len(parts[k])
  <2>1. ASSUME NEW k \in DOMAIN parts \ {1} PROVE Len(own[k]) + lap(own[k - 1]) = Len(parts[k])
    <3>1. k \in 1..m /\ k # 1 /\ k - 1 \in 1..m
      BY <1>1, <1>2
    <3>2. own[k] = raw[k] /\ own[k - 1] = raw[k - 1] /\ raw[k] \in Text /\ raw[k - 1] \in Text
      BY <1>1, <1>11, <3>1
    <3>3. Len(parts[k]) = lap(raw[k - 1]) + Len(raw[k])
      BY <1>3, <3>1
    <3>4. Len(raw[k]) \in Nat /\ Len(raw[k - 1]) \in Nat
      BY <3>2 DEF Text
    <3>5. lap(raw[k - 1]) \in Int
      BY <3>4
    <3> HIDE DEF lap
    <3>6. Len(raw[k]) + lap(raw[k - 1]) = Len(parts[k])
      BY <3>3, <3>4, <3>5
    <3> QED
      BY <3>2, <3>6
  <2> QED
    BY <2>1
<1>14. ReadsBack(parts, n, t)
  <2>1. Ink(FlattenSeq([k \in DOMAIN parts |-> own[k]])) = Ink(t)
    BY <1>12 DEF Said
  <2> HIDE DEF lap
  <2> QED
    BY <1>5, <1>13, <2>1
<1> QED
  BY <1>4, <1>14 DEF parts

\* What Split returns reads back as the text it was made of.
LEMMA SplitReadsBack ==
  ASSUME NEW t \in Text, NEW size, NEW n \in Nat
  PROVE  Split(t, size, n) \in Parts /\ ReadsBack(Split(t, size, n), n, t)
BY RawKeeps, OverlapReadsBack DEF Split

-----------------------------------------------------------------------------
(* What one text says in the order of another.                              *)
Within(a, b) ==
  \E f \in [1..Len(a) -> 1..Len(b)] :
    /\ \A i, j \in 1..Len(a) : i < j => f[i] < f[j]
    /\ \A i \in 1..Len(a) : a[i] = b[f[i]]

\* Every text is within itself, the empty one within any.
LEMMA WithinItself ==
  ASSUME NEW a \in Text, NEW b \in Text
  PROVE  Within(a, a) /\ Within(<<>>, b)
<1>1. Within(a, a)
  <2> DEFINE f == [i \in 1..Len(a) |-> i]
  <2>1. f \in [1..Len(a) -> 1..Len(a)] /\ \A i \in 1..Len(a) : f[i] = i
    OBVIOUS
  <2> HIDE DEF f
  <2>2. \A i, j \in 1..Len(a) : i < j => f[i] < f[j]
    BY <2>1
  <2> QED
    BY <2>1, <2>2 DEF Within
<1>2. Within(<<>>, b)
  <2> DEFINE f == [i \in 1..0 |-> i]
  <2>1. Len(<<>>) = 0 /\ f \in [1..0 -> 1..Len(b)] /\ \A i \in 1..0 : FALSE
    OBVIOUS
  <2> HIDE DEF f
  <2> QED
    BY <2>1 DEF Within
<1> QED
  BY <1>1, <1>2

\* What is within two texts is, joined, within the two joined.
LEMMA WithinJoins ==
  ASSUME NEW a \in Text, NEW b \in Text, NEW c \in Text, NEW d \in Text, Within(a, b), Within(c, d)
  PROVE  Within(a \o c, b \o d)
<1> DEFINE x == a \o c
           y == b \o d
<1>1. PICK f \in [1..Len(a) -> 1..Len(b)] :
        /\ \A i, j \in 1..Len(a) : i < j => f[i] < f[j]
        /\ \A i \in 1..Len(a) : a[i] = b[f[i]]
  BY DEF Within
<1>2. PICK g \in [1..Len(c) -> 1..Len(d)] :
        /\ \A i, j \in 1..Len(c) : i < j => g[i] < g[j]
        /\ \A i \in 1..Len(c) : c[i] = d[g[i]]
  BY DEF Within
<1>3. Len(a) \in Nat /\ Len(b) \in Nat /\ Len(c) \in Nat /\ Len(d) \in Nat
  BY DEF Text
<1>4. Len(x) = Len(a) + Len(c) /\ Len(y) = Len(b) + Len(d)
  <2>1. \A u, v \in Text : Len(u \o v) = Len(u) + Len(v)
    BY DEF Text
  <2> QED
    BY <2>1
<1>5. /\ \A i \in 1..Len(x) : x[i] = IF i <= Len(a) THEN a[i] ELSE c[i - Len(a)]
      /\ \A i \in 1..Len(y) : y[i] = IF i <= Len(b) THEN b[i] ELSE d[i - Len(b)]
  BY DEF Text
<1> HIDE DEF x, y
<1> DEFINE h == [i \in 1..Len(x) |-> IF i <= Len(a) THEN f[i] ELSE Len(b) + g[i - Len(a)]]
<1>6. \A i \in 1..Len(a) : f[i] \in 1..Len(b)
  OBVIOUS
<1>7. \A i \in 1..Len(c) : g[i] \in 1..Len(d)
  OBVIOUS
<1>8. ASSUME NEW i \in 1..Len(x)
      PROVE  /\ i <= Len(a) => i \in 1..Len(a) /\ h[i] = f[i] /\ h[i] \in 1..Len(b)
             /\ ~(i <= Len(a)) => /\ i - Len(a) \in 1..Len(c) /\ h[i] = Len(b) + g[i - Len(a)]
                                  /\ g[i - Len(a)] \in 1..Len(d)
  <2>1. CASE i <= Len(a)
    <3>1. i \in 1..Len(a) /\ h[i] = f[i]
      BY <1>3, <1>4, <2>1
    <3> QED
      BY <1>6, <2>1, <3>1
  <2>2. CASE ~(i <= Len(a))
    <3>1. i - Len(a) \in 1..Len(c) /\ h[i] = Len(b) + g[i - Len(a)]
      BY <1>3, <1>4, <2>2
    <3> QED
      BY <1>7, <2>2, <3>1
  <2> QED
    BY <2>1, <2>2
<1>9. ASSUME NEW i \in 1..Len(x) PROVE h[i] \in 1..Len(y) /\ x[i] = y[h[i]]
  <2>1. CASE i <= Len(a)
    <3>1. i \in 1..Len(a) /\ h[i] = f[i] /\ h[i] \in 1..Len(b)
      BY <1>8, <2>1
    <3> HIDE DEF h
    <3>2. h[i] \in 1..Len(y) /\ h[i] <= Len(b)
      BY <1>3, <1>4, <3>1
    <3>3. y[h[i]] = b[f[i]]
      BY <1>5, <3>1, <3>2
    <3>4. x[i] = a[i] /\ a[i] = b[f[i]]
      BY <1>1, <1>5, <2>1, <3>1
    <3> QED
      BY <3>2, <3>3, <3>4
  <2>2. CASE ~(i <= Len(a))
    <3> DEFINE k == i - Len(a)
    <3>1. k \in 1..Len(c) /\ h[i] = Len(b) + g[k] /\ g[k] \in 1..Len(d)
      BY <1>8, <2>2
    <3> HIDE DEF h
    <3>2. h[i] \in 1..Len(y) /\ ~(h[i] <= Len(b)) /\ h[i] - Len(b) = g[k]
      BY <1>3, <1>4, <3>1
    <3>3. y[h[i]] = d[g[k]]
      BY <1>5, <3>2
    <3>4. x[i] = c[k]
      BY <1>5, <2>2
    <3>5. c[k] = d[g[k]]
      BY <1>2, <3>1
    <3> QED
      BY <3>2, <3>3, <3>4, <3>5
  <2> QED
    BY <2>1, <2>2
<1>10. ASSUME NEW i \in 1..Len(x), NEW j \in 1..Len(x), i < j PROVE h[i] < h[j]
  <2> HIDE DEF h
  <2>1. CASE j <= Len(a)
    <3>1. i <= Len(a)
      BY <1>3, <1>10, <2>1
    <3>2. i \in 1..Len(a) /\ j \in 1..Len(a) /\ h[i] = f[i] /\ h[j] = f[j]
      BY <1>8, <2>1, <3>1
    <3> QED
      BY <1>1, <1>10, <3>2
  <2>2. CASE ~(j <= Len(a)) /\ i <= Len(a)
    <3>1. h[i] \in 1..Len(b) /\ h[j] = Len(b) + g[j - Len(a)] /\ g[j - Len(a)] \in 1..Len(d)
      BY <1>8, <2>2
    <3> QED
      BY <1>3, <3>1
  <2>3. CASE ~(j <= Len(a)) /\ ~(i <= Len(a))
    <3> DEFINE p == i - Len(a)
               q == j - Len(a)
    <3>1. p < q
      BY <1>3, <1>10
    <3>2. p \in 1..Len(c) /\ q \in 1..Len(c) /\ h[i] = Len(b) + g[p] /\ h[j] = Len(b) + g[q]
      BY <1>8, <2>3
    <3> HIDE DEF p, q
    <3>3. g[p] < g[q] /\ g[p] \in 1..Len(d) /\ g[q] \in 1..Len(d)
      BY <1>2, <1>7, <3>1, <3>2
    <3> QED
      BY <1>3, <3>2, <3>3
  <2> QED
    BY <2>1, <2>2, <2>3
<1>11. h \in [1..Len(x) -> 1..Len(y)]
  BY <1>9
<1> HIDE DEF h
<1>12. Within(x, y)
  BY <1>9, <1>10, <1>11 DEF Within
<1> QED
  BY <1>12 DEF x, y

\* What is within a text is within a longer one.
LEMMA WithinMore ==
  ASSUME NEW a \in Text, NEW b \in Text, NEW c \in Text, Within(a, b)
  PROVE  Within(a, b \o c) /\ Within(a, c \o b)
<1>1. <<>> \in Text /\ Within(<<>>, c) /\ a \o <<>> = a /\ <<>> \o a = a
  BY NothingIsLess, WithinItself, ConcatEmptySeq DEF Text
<1>2. Within(a \o <<>>, b \o c)
  BY <1>1, WithinJoins
<1>3. Within(<<>> \o a, c \o b)
  BY <1>1, WithinJoins
<1> QED
  BY <1>1, <1>2, <1>3

\* Within is transitive.
LEMMA WithinWithin ==
  ASSUME NEW a \in Text, NEW b \in Text, NEW c \in Text, Within(a, b), Within(b, c)
  PROVE  Within(a, c)
<1>1. PICK f \in [1..Len(a) -> 1..Len(b)] :
        /\ \A i, j \in 1..Len(a) : i < j => f[i] < f[j]
        /\ \A i \in 1..Len(a) : a[i] = b[f[i]]
  BY DEF Within
<1>2. PICK g \in [1..Len(b) -> 1..Len(c)] :
        /\ \A i, j \in 1..Len(b) : i < j => g[i] < g[j]
        /\ \A i \in 1..Len(b) : b[i] = c[g[i]]
  BY DEF Within
<1> DEFINE h == [i \in 1..Len(a) |-> g[f[i]]]
<1>3. \A i \in 1..Len(a) : f[i] \in 1..Len(b) /\ h[i] = g[f[i]]
  OBVIOUS
<1>4. h \in [1..Len(a) -> 1..Len(c)]
  OBVIOUS
<1> HIDE DEF h
<1>5. \A i, j \in 1..Len(a) : i < j => h[i] < h[j]
  BY <1>1, <1>2, <1>3
<1>6. \A i \in 1..Len(a) : a[i] = c[h[i]]
  BY <1>1, <1>2, <1>3
<1> QED
  BY <1>4, <1>5, <1>6 DEF Within

\* IsWithin, one character of the whole after the other.
LEMMA FoundFolds ==
  ASSUME NEW t \in Text, NEW whole \in Text
  PROVE  \E g : /\ g \in [0..Len(whole) -> 1..Len(t)+1]
                /\ g[0] = 1
                /\ IsWithin(t, whole) = (g[Len(whole)] = Len(t) + 1)
                /\ \A k \in 1..Len(whole) :
                     g[k] = IF g[k - 1] <= Len(t) /\ t[g[k - 1]] = whole[k] THEN g[k - 1] + 1 ELSE g[k - 1]
<1> DEFINE T == 1..Len(t)+1
           n == Len(whole)
           base == 1
           op(v, k) == IF v <= Len(t) /\ t[v] = whole[k] THEN v + 1 ELSE v
           step == [k \in 1..n |-> [v \in T |-> op(v, k)]]
           F(h) == [k \in 0..n |-> IF k = 0 THEN base ELSE op(h[k - 1], k)]
           g == CHOOSE h : h = F(h)
<1>1. IsWithin(t, whole) = (g[n] = Len(t) + 1)
  BY DEF IsWithin, Along
<1>2. n \in Nat /\ base \in T
  BY DEF Text
<1>3. ASSUME NEW k \in 1..n, NEW v \in T PROVE op(v, k) \in T
  <2>1. Len(t) \in Nat
    BY DEF Text
  <2> QED
    BY <2>1
<1> HIDE DEF T, n, base, op
<1>4. step \in [1..n -> [T -> T]] /\ \A k \in 1..n : \A v \in T : step[k][v] = op(v, k)
  BY <1>3
<1> HIDE DEF step
<1>5. PICK f : Solves(f, n, T, base, step)
  BY <1>2, <1>4, RecursionHas
<1>6. f = F(f)
  <2>1. f = [k \in 0..n |-> f[k]] /\ f[0] = base
    BY <1>5 DEF Solves
  <2>2. ASSUME NEW k \in 0..n, k # 0 PROVE f[k] = op(f[k - 1], k)
    <3>1. k \in 1..n /\ k - 1 \in 0..n
      BY <1>2, <2>2
    <3>2. f[k - 1] \in T /\ f[k] = step[k][f[k - 1]]
      BY <1>5, <3>1 DEF Solves
    <3> QED
      BY <1>4, <3>1, <3>2
  <2>3. \A k \in 0..n : f[k] = IF k = 0 THEN base ELSE op(f[k - 1], k)
    BY <2>1, <2>2
  <2> QED
    BY <2>1, <2>3
<1>7. g = F(g)
  <2> HIDE DEF F
  <2> QED
    BY <1>6
<1> HIDE DEF g
<1>8. /\ g = [k \in 0..n |-> g[k]] /\ g[0] = base
      /\ \A k \in 1..n : g[k] = op(g[k - 1], k)
  <2>1. g = [k \in 0..n |-> g[k]] /\ g[0] = base
    BY <1>2, <1>7
  <2>2. \A k \in 0..n : g[k] = IF k = 0 THEN base ELSE op(g[k - 1], k)
    BY <1>7
  <2>3. \A k \in 1..n : k \in 0..n /\ k # 0
    BY <1>2
  <2> QED
    BY <2>1, <2>2, <2>3
<1>9. Solves(g, n, T, base, step)
  <2>1. \A k \in 1..n : g[k - 1] \in T => g[k] = step[k][g[k - 1]]
    BY <1>4, <1>8
  <2> HIDE DEF F
  <2> QED
    BY <1>2, <1>4, <1>8, <2>1, TheSolution
<1> QED
  BY <1>1, <1>8, <1>9 DEF Solves, T, n, base, op

\* The search from the left finds it where it is.
LEMMA WithinIsFound ==
  ASSUME NEW t \in Text, NEW whole \in Text, Within(t, whole)
  PROVE  IsWithin(t, whole)
<1> DEFINE n == Len(whole)
           m == Len(t)
<1>1. PICK f \in [1..m -> 1..n] :
        /\ \A i, j \in 1..m : i < j => f[i] < f[j]
        /\ \A i \in 1..m : t[i] = whole[f[i]]
  BY DEF Within
<1>2. PICK g : /\ g \in [0..n -> 1..m+1] /\ g[0] = 1 /\ IsWithin(t, whole) = (g[n] = m + 1)
               /\ \A k \in 1..n : g[k] = IF g[k - 1] <= m /\ t[g[k - 1]] = whole[k] THEN g[k - 1] + 1 ELSE g[k - 1]
  BY FoundFolds
<1>3. n \in Nat /\ m \in Nat
  BY DEF Text
<1> HIDE DEF n, m
<1> DEFINE P == {k \in 0..n : \A i \in 1..m : f[i] <= k => i < g[k]}
<1>4. 0 \in P
  <2>1. \A i \in 1..m : ~(f[i] <= 0)
    BY <1>3
  <2> QED
    BY <1>3, <2>1
<1>5. ASSUME NEW k \in 1..n, k - 1 \in P PROVE k \in P
  <2> DEFINE c == g[k - 1]
  <2>1. k - 1 \in 0..n /\ k \in 0..n /\ c \in 1..m+1 /\ g[k] = IF c <= m /\ t[c] = whole[k] THEN c + 1 ELSE c
    BY <1>2, <1>3
  <2>2. ASSUME NEW i \in 1..m, f[i] <= k - 1 PROVE i < c
    BY <1>5, <2>2
  <2> HIDE DEF c
  <2>3. ASSUME NEW i \in 1..m, f[i] <= k PROVE i < g[k]
    <3>1. CASE i < c
      BY <1>3, <2>1, <3>1
    <3>2. CASE ~(i < c)
      <4>1. f[i] = k
        <5>1. ~(f[i] <= k - 1) /\ f[i] \in 1..n
          BY <2>2, <3>2
        <5> QED
          BY <1>3, <2>3, <5>1
      <4>2. i = c
        <5>1. CASE i = 1
          BY <1>3, <2>1, <3>2, <5>1
        <5>2. CASE i # 1
          <6>1. i - 1 \in 1..m /\ i - 1 < i
            BY <1>3, <5>2
          <6>2. f[i - 1] < f[i] /\ f[i - 1] \in 1..n
            BY <1>1, <6>1
          <6>3. f[i - 1] <= k - 1
            BY <1>3, <4>1, <6>2
          <6>4. i - 1 < c
            BY <2>2, <6>1, <6>3
          <6> QED
            BY <1>3, <2>1, <3>2, <6>4
        <5> QED
          BY <5>1, <5>2
      <4>3. t[c] = whole[k] /\ c <= m
        BY <1>1, <1>3, <4>1, <4>2
      <4> QED
        BY <1>3, <2>1, <4>2, <4>3
    <3> QED
      BY <3>1, <3>2
  <2> QED
    BY <2>1, <2>3
<1>6. \A k \in 0..n : k \in P
  <2> HIDE DEF P
  <2> QED
    BY <1>3, <1>4, <1>5, UpFrom
<1>7. g[n] \in 1..m+1 /\ \A i \in 1..m : f[i] <= n => i < g[n]
  BY <1>2, <1>3, <1>6
<1>8. g[n] = m + 1
  <2>1. CASE m = 0
    BY <1>3, <1>7, <2>1
  <2>2. CASE m # 0
    <3>1. m \in 1..m /\ f[m] \in 1..n
      BY <1>3, <2>2
    <3>2. m < g[n]
      BY <1>3, <1>7, <3>1
    <3> QED
      BY <1>3, <1>7, <3>2
  <2> QED
    BY <2>1, <2>2
<1> QED
  BY <1>2, <1>8

-----------------------------------------------------------------------------
(* Lines, tables.                                                           *)
LEMMA OutsideLeaves ==
  ASSUME NEW S, NEW V, NEW s \in Seq(S)
  PROVE  Outside(s, V) \in Seq(S \ V)
<1> DEFINE P == {r \in Seq(S) : Outside(r, V) \in Seq(S \ V)}
<1>1. <<>> \in P
  <2>1. <<>> \in Seq(S) /\ <<>> \in Seq(S \ V)
    OBVIOUS
  <2> QED
    BY <2>1, OutsideIsOne
<1>2. ASSUME NEW r \in Seq(S), NEW e \in S, r \in P PROVE Append(r, e) \in P
  <2>1. Outside(Append(r, e), V) = IF e \in V THEN Outside(r, V) ELSE Append(Outside(r, V), e)
    BY OutsideSnoc
  <2>2. Outside(r, V) \in Seq(S \ V) /\ (e \notin V => e \in S \ V)
    BY <1>2
  <2> DEFINE w == Outside(r, V)
             N == S \ V
  <2> HIDE DEF w, N
  <2>3. w \in Seq(N) /\ (e \notin V => e \in N)
    BY <2>2 DEF w, N
  <2>4. e \notin V => Append(w, e) \in Seq(N)
    BY <2>3
  <2>5. Append(r, e) \in Seq(S)
    OBVIOUS
  <2> QED
    BY <2>1, <2>2, <2>4, <2>5 DEF w, N
<1>3. \A r \in Seq(S) : r \in P
  <2> HIDE DEF P
  <2> QED
    BY <1>1, <1>2, EverySequence
<1> QED
  BY <1>3

\* Lists whose parts have the same ink say the same.
LEMMA AlikeSay ==
  ASSUME NEW p \in Parts, NEW q \in Parts, Len(p) = Len(q), \A k \in 1..Len(p) : Ink(q[k]) = Ink(p[k])
  PROVE  Said(q) = Said(p)
<1> DEFINE n == Len(p)
           pk(k) == SubSeq(p, 1, k)
           qk(k) == SubSeq(q, 1, k)
           P == {k \in 0..n : Said(qk(k)) = Said(pk(k))}
<1>1. n \in Nat /\ n \in 0..n
  BY DEF Parts
<1>2. /\ pk(0) = <<>> /\ pk(n) = p /\ qk(0) = <<>> /\ qk(n) = q
      /\ \A k \in 0..n : pk(k) \in Parts /\ qk(k) \in Parts
      /\ \A k \in 1..n : p[k] \in Text /\ pk(k) = Append(pk(k - 1), p[k])
      /\ \A k \in 1..n : q[k] \in Text /\ qk(k) = Append(qk(k - 1), q[k])
  BY OneMore DEF Parts
<1>3. \A k \in 1..n : Ink(q[k]) = Ink(p[k])
  OBVIOUS
<1> HIDE DEF n, pk, qk
<1>4. 0 \in P
  BY <1>1, <1>2
<1>5. ASSUME NEW k \in 1..n, k - 1 \in P PROVE k \in P
  <2> DEFINE u == pk(k - 1)
             w == qk(k - 1)
  <2>0. k \in 0..n /\ k - 1 \in 0..n
    BY <1>1
  <2>1. u \in Parts /\ w \in Parts /\ p[k] \in Text /\ q[k] \in Text /\ Said(w) = Said(u)
    BY <1>2, <1>5, <2>0
  <2>2. pk(k) = Append(u, p[k]) /\ qk(k) = Append(w, q[k]) /\ Ink(q[k]) = Ink(p[k])
    BY <1>2, <1>3
  <2> HIDE DEF u, w
  <2>3. Said(Append(u, p[k])) = Said(u) \o Ink(p[k])
    BY <2>1, SaidOfParts
  <2>4. Said(Append(w, q[k])) = Said(w) \o Ink(q[k])
    BY <2>1, SaidOfParts
  <2> QED
    BY <2>0, <2>1, <2>2, <2>3, <2>4
<1>6. \A k \in 0..n : k \in P
  <2> HIDE DEF P
  <2> QED
    BY <1>1, <1>4, <1>5, UpFrom
<1>7. Said(qk(n)) = Said(pk(n))
  BY <1>1, <1>6
<1> QED
  BY <1>2, <1>7

\* Stripping every part loses nothing but blanks.
LEMMA StrippedKeeps ==
  ASSUME NEW p \in Parts
  PROVE  Stripped(p) \in Parts /\ Said(Stripped(p)) = Said(p)
<1> DEFINE q == Stripped(p)
<1>1. DOMAIN p = 1..Len(p) /\ Len(p) \in Nat /\ \A k \in 1..Len(p) : p[k] \in Text
  BY DEF Parts
<1>2. \A k \in 1..Len(p) : Strip(p[k]) \in Text /\ Ink(Strip(p[k])) = Ink(p[k])
  BY <1>1, StripKeepsInk
<1>3. q = [k \in 1..Len(p) |-> Strip(p[k])]
  BY <1>1 DEF Stripped
<1> HIDE DEF q
<1>4. q \in Parts /\ Len(q) = Len(p) /\ \A k \in 1..Len(p) : q[k] = Strip(p[k])
  BY <1>1, <1>2, <1>3 DEF Parts
<1>5. \A k \in 1..Len(p) : Ink(q[k]) = Ink(p[k])
  BY <1>2, <1>4
<1>6. Said(q) = Said(p)
  BY <1>4, <1>5, AlikeSay
<1> QED
  BY <1>4, <1>6 DEF q

Spoken == Text \ {<<>>}

\* Leaving out empty parts loses nothing.
LEMMA EmptyPartsSayNothing ==
  ASSUME NEW p \in Parts
  PROVE  /\ Outside(p, {<<>>}) \in Seq(Spoken) /\ Outside(p, {<<>>}) \in Parts
         /\ Said(Outside(p, {<<>>})) = Said(p)
<1> DEFINE V == {<<>>}
           P == {r \in Parts : Said(Outside(r, V)) = Said(r)}
<1>1. \A r \in Parts : Outside(r, V) \in Parts /\ Outside(<<>>, V) = <<>>
  BY OutsideIsOne DEF Parts
<1>2. <<>> \in P
  <2>1. <<>> \in Parts
    BY DEF Parts
  <2> QED
    BY <1>1, <2>1
<1>3. ASSUME NEW r \in Parts, NEW e \in Text, r \in P PROVE Append(r, e) \in P
  <2>1. Outside(Append(r, e), V) = IF e \in V THEN Outside(r, V) ELSE Append(Outside(r, V), e)
    BY OutsideSnoc DEF Parts
  <2>2. Said(Append(r, e)) = Said(r) \o Ink(e) /\ Append(r, e) \in Parts /\ Said(r) \in Text
    BY SaidOfParts
  <2>3. Said(Append(Outside(r, V), e)) = Said(Outside(r, V)) \o Ink(e)
    BY <1>1, SaidOfParts
  <2>4. e \in V => Ink(e) = <<>>
    BY InkIsText
  <2>5. Said(r) \o <<>> = Said(r)
    BY <2>2, ConcatEmptySeq DEF Text
  <2>6. Said(Outside(r, V)) = Said(r)
    BY <1>3
  <2> HIDE DEF V
  <2>7. Said(Outside(Append(r, e), V)) = Said(r) \o Ink(e)
    BY <2>1, <2>3, <2>4, <2>5, <2>6
  <2> QED
    BY <2>2, <2>7
<1>4. \A r \in Parts : r \in P
  <2> HIDE DEF P
  <2> QED
    BY <1>2, <1>3, EverySequence DEF Parts
<1>5. Outside(p, V) \in Seq(Spoken)
  BY OutsideLeaves DEF Parts, Spoken
<1> QED
  BY <1>1, <1>4, <1>5

\* The lines of a text say what the text says.
LEMMA LinesKeep ==
  ASSUME NEW t \in Text
  PROVE  Lines(t) \in Seq(Spoken) /\ Lines(t) \in Parts /\ Said(Lines(t)) = Ink(t)
<1> DEFINE c == CutBefore(t, {i \in DOMAIN t : t[i] = "/"})
<1>1. c \in Parts /\ FlattenSeq(c) = t
  BY CutKeeps
<1>2. Lines(t) = Outside(Stripped(c), {<<>>})
  BY DEF Lines
<1> HIDE DEF c
<1>3. Said(c) = Ink(t) /\ Stripped(c) \in Parts /\ Said(Stripped(c)) = Said(c)
  BY <1>1, StrippedKeeps DEF Said
<1> DEFINE d == Stripped(c)
<1> HIDE DEF d
<1>4. d \in Parts /\ Said(d) = Ink(t)
  BY <1>3 DEF d
<1>5. Outside(d, {<<>>}) \in Seq(Spoken) /\ Outside(d, {<<>>}) \in Parts /\ Said(Outside(d, {<<>>})) = Said(d)
  BY <1>4, EmptyPartsSayNothing
<1> QED
  BY <1>2, <1>4, <1>5 DEF d

\* Joining parts by a blank separator adds nothing to what they say.
LEMMA JoinSays ==
  ASSUME NEW p \in Parts, NEW sep \in Text, Blank(sep)
  PROVE  Join(p, sep) \in Text /\ Ink(Join(p, sep)) = Said(p)
<1> DEFINE q == [k \in DOMAIN p |-> IF k = 1 THEN p[1] ELSE sep \o p[k]]
<1>1. DOMAIN p = 1..Len(p) /\ Len(p) \in Nat /\ \A k \in 1..Len(p) : p[k] \in Text
  BY DEF Parts
<1>2. \A k \in 1..Len(p) : sep \o p[k] \in Text /\ Ink(sep \o p[k]) = Ink(p[k])
  <2>1. ASSUME NEW k \in 1..Len(p) PROVE sep \o p[k] \in Text /\ Ink(sep \o p[k]) = Ink(p[k])
    <3> DEFINE e == p[k]
    <3>1. e \in Text
      BY <1>1
    <3> HIDE DEF e
    <3>2. sep \o e \in Text /\ Ink(sep \o e) = Ink(sep) \o Ink(e) /\ Ink(sep) = <<>> /\ Ink(e) \in Text
      BY <3>1, InkJoins, InkIsText, BlankSaysNothing
    <3>3. <<>> \o Ink(e) = Ink(e)
      BY <3>2, ConcatEmptySeq DEF Text
    <3> QED
      BY <3>2, <3>3 DEF e
  <2> QED
    BY <2>1
<1>3. q \in Parts /\ Len(q) = Len(p) /\ \A k \in 1..Len(p) : q[k] = IF k = 1 THEN p[1] ELSE sep \o p[k]
  <2>1. \A k \in 1..Len(p) : (IF k = 1 THEN p[1] ELSE sep \o p[k]) \in Text
    BY <1>1, <1>2
  <2> QED
    BY <1>1, <2>1 DEF Parts
<1> HIDE DEF q
<1>4. \A k \in 1..Len(p) : Ink(q[k]) = Ink(p[k])
  BY <1>2, <1>3
<1>5. Said(q) = Said(p) /\ FlattenSeq(q) \in Text
  BY <1>3, <1>4, AlikeSay, FlattenIsOne DEF Parts, Text
<1>6. Join(p, sep) = FlattenSeq(q)
  BY DEF Join, q
<1> QED
  BY <1>5, <1>6 DEF Said

\* The line breaks that parts are joined by are blank.
LEMMA BlankSeparators ==
  /\ <<"/">> \in Text /\ <<"/", "/">> \in Text /\ Blank(<<"/">>) /\ Blank(<<"/", "/">>)
  /\ Ink(<<"/">>) = <<>>
<1>1. "/" \in Characters
  BY SourcesAssumption
<1>2. <<"/">> \in Text /\ <<"/", "/">> \in Text
  BY <1>1 DEF Text
<1>3. Blank(<<"/">>)
  <2>1. DOMAIN <<"/">> = {1} /\ <<"/">>[1] = "/"
    OBVIOUS
  <2> QED
    BY <2>1 DEF Blank, Space
<1>4. Blank(<<"/", "/">>)
  <2>1. DOMAIN <<"/", "/">> = {1, 2} /\ <<"/", "/">>[1] = "/" /\ <<"/", "/">>[2] = "/"
    OBVIOUS
  <2> QED
    BY <2>1 DEF Blank, Space
<1> QED
  BY <1>2, <1>3, <1>4, BlankSaysNothing

\* The header of a table, and the rows below it.
LEMMA HeaderIsPart ==
  ASSUME NEW ls \in Parts, ls # <<>>
  PROVE  /\ HeaderRows(ls) \in 1..Len(ls)
         /\ TableHeader(ls) \in Text /\ Ink(TableHeader(ls)) = Said(SubSeq(ls, 1, HeaderRows(ls)))
<1> DEFINE column == {k \in DOMAIN ls : \E i \in DOMAIN ls[k] : ls[k][i] = "|"}
           n == IF column = {} THEN 1 ELSE Min(column)
<1>1. DOMAIN ls = 1..Len(ls) /\ Len(ls) \in Nat /\ Len(ls) # 0
  BY DEF Parts
<1>2. n \in 1..Len(ls)
  <2>1. column \subseteq 1..Len(ls)
    BY <1>1
  <2> HIDE DEF column
  <2>2. column # {} => Min(column) \in column
    BY <1>1, <2>1, EndsOf
  <2>3. 1 \in 1..Len(ls)
    BY <1>1
  <2>4. column # {} => Min(column) \in 1..Len(ls)
    BY <2>1, <2>2
  <2> QED
    BY <2>3, <2>4
<1>3. HeaderRows(ls) \in {n, n + 1} /\ (HeaderRows(ls) = n + 1 /\ n + 1 # n => Len(ls) > n)
  BY DEF HeaderRows
<1> HIDE DEF n
<1>4. HeaderRows(ls) \in 1..Len(ls)
  BY <1>1, <1>2, <1>3
<1> DEFINE top == SubSeq(ls, 1, HeaderRows(ls))
<1>5. top \in Parts
  BY <1>1, <1>4, OneMore DEF Parts
<1>6. TableHeader(ls) = Join(top, <<"/">>)
  BY DEF TableHeader
<1> HIDE DEF top
<1>7. Join(top, <<"/">>) \in Text /\ Ink(Join(top, <<"/">>)) = Said(top)
  BY <1>5, BlankSeparators, JoinSays
<1> QED
  BY <1>4, <1>6, <1>7 DEF top

\* What is under the header says the header and the row.
LEMMA RowSaysBoth ==
  ASSUME NEW header \in Text, NEW row \in Spoken, NEW limit
  PROVE  /\ RowUnderHeader(header, row, limit) \in Parts /\ RowUnderHeader(header, row, limit) # <<>>
         /\ Within(Ink(header) \o Ink(row), Said(RowUnderHeader(header, row, limit)))
<1> DEFINE room == IF limit - Len(header) - 1 > 1 THEN limit - Len(header) - 1 ELSE 1
           sl == FixedSlices(row, room)
           out == [k \in DOMAIN sl |-> header \o <<"/">> \o sl[k]]
           n == Len(sl)
           H == Ink(header)
           sk(k) == SubSeq(sl, 1, k)
           ok(k) == SubSeq(out, 1, k)
<1>1. RowUnderHeader(header, row, limit) = out
  BY DEF RowUnderHeader
<1>2. sl \in Parts /\ FlattenSeq(sl) = row /\ row \in Text /\ row # <<>>
  BY SlicesKeep DEF Spoken
<1> HIDE DEF sl
<1>3. n \in Nat /\ n # 0 /\ DOMAIN sl = 1..n /\ \A k \in 1..n : sl[k] \in Text
  <2>1. FlattenSeq(<<>>) = <<>>
    BY DEF FlattenSeq
  <2>2. sl # <<>>
    BY <1>2, <2>1
  <2> QED
    BY <1>2, <2>2 DEF Parts
<1>4. H \in Text
  BY InkIsText
<1>5. ASSUME NEW e \in Text
      PROVE  header \o <<"/">> \o e \in Text /\ Ink(header \o <<"/">> \o e) = H \o Ink(e)
  <2>1. <<"/">> \in Text /\ Ink(<<"/">>) = <<>>
    BY BlankSeparators
  <2>2. header \o <<"/">> \in Text /\ Ink(header \o <<"/">>) = H \o <<>>
    <3> DEFINE b == <<"/">>
    <3>1. b \in Text /\ Ink(b) = <<>>
      BY <2>1
    <3> HIDE DEF b
    <3>2. header \o b \in Text /\ Ink(header \o b) = H \o Ink(b)
      BY <3>1, InkJoins
    <3> QED
      BY <3>1, <3>2 DEF b
  <2>3. H \o <<>> = H
    BY <1>4, ConcatEmptySeq DEF Text
  <2> DEFINE x == header \o <<"/">>
  <2> HIDE DEF x, H
  <2>4. x \in Text /\ Ink(x) = H
    BY <2>2, <2>3 DEF x
  <2>5. x \o e \in Text /\ Ink(x \o e) = H \o Ink(e)
    BY <2>4, InkJoins
  <2> QED
    BY <2>5 DEF x
<1>6. out \in Parts /\ Len(out) = n /\ \A k \in 1..n : out[k] \in Text /\ Ink(out[k]) = H \o Ink(sl[k])
  <2>1. out = [k \in 1..n |-> header \o <<"/">> \o sl[k]]
    BY <1>3
  <2>2. \A k \in 1..n : header \o <<"/">> \o sl[k] \in Text /\ Ink(header \o <<"/">> \o sl[k]) = H \o Ink(sl[k])
    BY <1>3, <1>5
  <2> HIDE DEF out, n
  <2>3. out \in Seq(Text) /\ Len(out) = n
    BY <1>3, <2>1, <2>2
  <2> QED
    BY <2>1, <2>2, <2>3 DEF Parts
<1> HIDE DEF out, H
<1>7. /\ sk(0) = <<>> /\ sk(n) = sl /\ \A k \in 0..n : sk(k) \in Parts
      /\ \A k \in 1..n : sk(k) = Append(sk(k - 1), sl[k])
  BY <1>2, OneMore DEF Parts
<1>8. /\ ok(0) = <<>> /\ ok(n) = out /\ \A k \in 0..n : ok(k) \in Parts
      /\ \A k \in 1..n : ok(k) = Append(ok(k - 1), out[k])
  BY <1>6, OneMore DEF Parts
<1> HIDE DEF n, sk, ok
<1> DEFINE P == {k \in 0..n : k = 0 \/ Within(H \o Said(sk(k)), Said(ok(k)))}
<1>9. 0 \in P
  BY <1>3
<1>10. ASSUME NEW k \in 1..n, k - 1 \in P PROVE k \in P
  <2> DEFINE s == sk(k - 1)
             o == ok(k - 1)
             e == Ink(sl[k])
  <2>1. k - 1 \in 0..n /\ k \in 0..n
    BY <1>3
  <2>2. /\ s \in Parts /\ o \in Parts /\ sl[k] \in Text /\ out[k] \in Text
        /\ sk(k) = Append(s, sl[k]) /\ ok(k) = Append(o, out[k])
    BY <1>3, <1>6, <1>7, <1>8, <2>1
  <2>3. Said(sk(k)) = Said(s) \o e /\ Said(s) \in Text /\ e \in Text
    <3> HIDE DEF s
    <3> QED
      BY <2>2, SaidOfParts, InkIsText
  <2>4. Said(ok(k)) = Said(o) \o (H \o e) /\ Said(o) \in Text
    <3>1. Ink(out[k]) = H \o e
      BY <1>6
    <3> HIDE DEF o, e
    <3> QED
      BY <2>2, <3>1, SaidOfParts
  <2>5. H \o e \in Text /\ Within(H \o e, H \o e) /\ Within(e, H \o e) /\ Within(e, e)
    <3>1. H \o e \in Text
      BY <1>4, <2>3 DEF Text
    <3>2. Within(e, e) /\ Within(H \o e, H \o e)
      BY <2>3, <3>1, WithinItself
    <3>3. Within(e, H \o e)
      BY <1>4, <2>3, <3>2, WithinMore
    <3> QED
      BY <3>1, <3>2, <3>3
  <2>6. CASE k = 1
    <3>1. s = <<>> /\ o = <<>>
      BY <1>7, <1>8, <2>6
    <3>2. Said(<<>>) = <<>>
      BY <2>2, SaidOfParts
    <3> HIDE DEF s, o, e
    <3>3. <<>> \o e = e /\ <<>> \o (H \o e) = H \o e
      BY <2>3, <2>5, ConcatEmptySeq DEF Text
    <3>4. Within(H \o Said(sk(k)), Said(ok(k)))
      BY <2>3, <2>4, <2>5, <3>1, <3>2, <3>3
    <3> QED
      BY <2>1, <3>4
  <2>7. CASE k # 1
    <3>1. Within(H \o Said(s), Said(o))
      BY <1>10, <2>7
    <3> HIDE DEF s, o, e
    <3>2. H \o Said(s) \in Text
      BY <1>4, <2>3 DEF Text
    <3>3. Within((H \o Said(s)) \o e, Said(o) \o (H \o e))
      BY <2>3, <2>4, <2>5, <3>1, <3>2, WithinJoins
    <3>4. (H \o Said(s)) \o e = H \o (Said(s) \o e)
      BY <1>4, <2>3, ConcatAssociative DEF Text
    <3>5. Within(H \o Said(sk(k)), Said(ok(k)))
      BY <2>3, <2>4, <3>3, <3>4
    <3> QED
      BY <2>1, <3>5
  <2> QED
    BY <2>6, <2>7
<1>11. \A k \in 0..n : k \in P
  <2> HIDE DEF P
  <2> QED
    BY <1>3, <1>9, <1>10, UpFrom
<1>12. Within(H \o Said(sl), Said(out))
  BY <1>3, <1>7, <1>8, <1>11
<1>13. out # <<>>
  BY <1>3, <1>6
<1>14. Said(sl) = Ink(row)
  BY <1>2 DEF Said
<1> QED
  BY <1>1, <1>6, <1>12, <1>13, <1>14 DEF H

\* A table so far: what is done, and the piece that still grows.
Table == [done : Parts, current : Text]

\* A row put below the header or below the piece that grows.
LEMMA UnderHeader ==
  ASSUME NEW u \in Text, NEW row \in Text
  PROVE  /\ u \o <<"/">> \o row \in Text /\ Ink(u \o <<"/">> \o row) = Ink(u) \o Ink(row)
         /\ Len(u \o <<"/">> \o row) = Len(u) + 1 + Len(row)
<1> DEFINE x == u \o <<"/">>
<1>1. <<"/">> \in Text /\ Ink(<<"/">>) = <<>> /\ Len(<<"/">>) = 1
  BY BlankSeparators
<1>2. \A a, b \in Text : a \o b \in Text /\ Ink(a \o b) = Ink(a) \o Ink(b)
  BY InkJoins
<1>3. \A a, b \in Text : Len(a \o b) = Len(a) + Len(b)
  BY DEF Text
<1>4. x \in Text /\ Ink(x) = Ink(u) \o <<>> /\ Len(x) = Len(u) + 1
  BY <1>1, <1>2, <1>3
<1>5. Ink(u) \o <<>> = Ink(u)
  BY InkIsText, ConcatEmptySeq DEF Text
<1> HIDE DEF x
<1>6. x \o row \in Text /\ Ink(x \o row) = Ink(u) \o Ink(row)
  <2>1. x \o row \in Text
    BY <1>2, <1>4
  <2>2. Ink(x \o row) = Ink(x) \o Ink(row)
    BY <1>2, <1>4
  <2>3. Ink(x) = Ink(u)
    BY <1>4, <1>5
  <2> QED
    BY <2>1, <2>2, <2>3
<1>7. Len(x \o row) = Len(u) + 1 + Len(row)
  BY <1>3, <1>4
<1> QED
  BY <1>6, <1>7 DEF x

\* One row more is said by the pieces of a table, below its header.
LEMMA TableStep ==
  ASSUME NEW header \in Text, NEW row \in Spoken, NEW limit, NEW v \in Table, Len(header) <= Len(v.current),
         NEW X \in Text, Within(X, Said(TableOut(header, v)))
  PROVE  /\ TableRow(header, row, limit, v) \in Table
         /\ Len(header) <= Len(TableRow(header, row, limit, v).current)
         /\ Within(X \o Ink(row), Said(TableOut(header, TableRow(header, row, limit, v))))
<1> DEFINE w == TableRow(header, row, limit, v)
           d == v.done
           c == v.current
           cand == c \o <<"/">> \o row
           fresh == header \o <<"/">> \o row
           H == Ink(header)
           R == Ink(row)
           C == Ink(c)
           under == RowUnderHeader(header, row, limit)
<1>1. /\ v = [done |-> d, current |-> c] /\ d \in Parts /\ c \in Text /\ row \in Text
      /\ Len(row) \in Nat /\ Len(header) \in Nat /\ Len(c) \in Nat
  BY DEF Table, Spoken, Text
<1>2. cand \in Text /\ Ink(cand) = C \o R /\ Len(cand) = Len(c) + 1 + Len(row)
  BY <1>1, UnderHeader
<1>3. fresh \in Text /\ Ink(fresh) = H \o R /\ Len(fresh) = Len(header) + 1 + Len(row)
  BY <1>1, UnderHeader
<1>4. /\ under \in Parts /\ under # <<>> /\ Within(H \o R, Said(under))
  BY RowSaysBoth
<1>5. /\ H \in Text /\ R \in Text /\ C \in Text /\ Said(d) \in Text /\ Said(under) \in Text
      /\ Said(<<header>>) = H /\ Said(<<>>) = <<>>
  BY <1>1, <1>4, InkIsText, SaidOfParts
<1>6. \A a \in Parts : \A e \in Text : /\ Append(a, e) \in Parts /\ Append(a, e) # <<>>
                                       /\ Said(Append(a, e)) = Said(a) \o Ink(e)
  <2>1. ASSUME NEW a \in Parts, NEW e \in Text
        PROVE  Append(a, e) \in Parts /\ Said(Append(a, e)) = Said(a) \o Ink(e)
    BY SaidOfParts
  <2>2. ASSUME NEW a \in Parts, NEW e \in Text PROVE Append(a, e) # <<>>
    BY AppendProperties DEF Parts
  <2> QED
    BY <2>1, <2>2
<1>7. \A a, b \in Parts : a \o b \in Parts /\ Said(a \o b) = Said(a) \o Said(b)
  BY SaidJoins
<1>8. \A a, b, e \in Text : a \o b \in Text /\ (a \o b) \o e = a \o (b \o e) /\ <<>> \o a = a
  <2>1. ASSUME NEW a \in Text, NEW b \in Text, NEW e \in Text
        PROVE  a \o b \in Text /\ (a \o b) \o e = a \o (b \o e) /\ <<>> \o a = a
    <3>1. a \o b \in Text
      BY DEF Text
    <3>2. (a \o b) \o e = a \o (b \o e)
      BY ConcatAssociative DEF Text
    <3>3. <<>> \o a = a
      BY ConcatEmptySeq DEF Text
    <3> QED
      BY <3>1, <3>2, <3>3
  <2> QED
    BY <2>1
<1>9. w = IF Len(cand) <= limit THEN [v EXCEPT !.current = cand]
          ELSE IF c = header THEN [v EXCEPT !.done = @ \o under]
          ELSE [done |-> Append(d, c), current |-> fresh]
  BY DEF TableRow
<1>10. TableOut(header, v) = IF c # header THEN Append(d, c) ELSE IF d = <<>> THEN <<header>> ELSE d
  BY DEF TableOut
<1> HIDE DEF w, d, c, cand, fresh, H, R, C, under
<1>11. Within(R, R) /\ Within(R, H \o R)
  <2>1. Within(R, R)
    BY <1>5, WithinItself
  <2> QED
    BY <1>5, <2>1, WithinMore
<1>12. Len(cand) <= limit => w = [done |-> d, current |-> cand]
  BY <1>1, <1>9
<1>13. ~(Len(cand) <= limit) /\ c = header => w = [done |-> d \o under, current |-> c]
  BY <1>1, <1>9
<1>14. ~(Len(cand) <= limit) /\ c # header => w = [done |-> Append(d, c), current |-> fresh]
  BY <1>9
<1>20. Len(header) <= Len(c)
  BY DEF c
<1>15. CASE Len(cand) <= limit
  <2>1. w.done = d /\ w.current = cand /\ w \in Table
    BY <1>1, <1>2, <1>12, <1>15 DEF Table
  <2>2. Len(header) < Len(cand)
    BY <1>1, <1>2, <1>20
  <2>3. cand # header
    BY <1>1, <2>2
  <2>4. TableOut(header, w) = Append(d, cand)
    BY <2>1, <2>3 DEF TableOut
  <2>5. Said(TableOut(header, w)) = Said(d) \o (C \o R)
    BY <1>1, <1>2, <1>6, <2>4
  <2>6. CASE c # header
    <3>1. Said(TableOut(header, v)) = Said(d) \o C
      BY <1>1, <1>6, <1>10, <2>6 DEF C
    <3>2. Within(X \o R, (Said(d) \o C) \o R)
      <4> DEFINE y == Said(d) \o C
      <4>1. y \in Text /\ Within(X, y)
        BY <1>5, <1>8, <3>1
      <4> HIDE DEF y
      <4>2. Within(X \o R, y \o R)
        BY <1>5, <1>11, <4>1, WithinJoins
      <4> QED
        BY <4>2 DEF y
    <3>3. (Said(d) \o C) \o R = Said(d) \o (C \o R)
      <4> DEFINE y == Said(d)
      <4>1. y \in Seq(Characters) /\ C \in Seq(Characters) /\ R \in Seq(Characters)
        BY <1>5 DEF Text
      <4> HIDE DEF y
      <4>2. (y \o C) \o R = y \o (C \o R)
        BY <4>1, ConcatAssociative
      <4> QED
        BY <4>2 DEF y
    <3>4. Within(X \o R, Said(TableOut(header, w)))
      BY <2>5, <3>2, <3>3
    <3> QED
      BY <1>1, <2>1, <2>2, <3>4 DEF w, R
  <2>7. CASE c = header /\ d = <<>>
    <3>1. Said(TableOut(header, v)) = C /\ C = H
      BY <1>5, <1>10, <2>7 DEF C, H
    <3>2. Within(X \o R, C \o R)
      BY <1>5, <1>11, <3>1, WithinJoins
    <3>3. Said(d) \o (C \o R) = C \o R
      BY <1>5, <1>8, <2>7
    <3>4. Within(X \o R, Said(TableOut(header, w)))
      BY <2>5, <3>2, <3>3
    <3> QED
      BY <1>1, <2>1, <2>2, <3>4 DEF w, R
  <2>8. CASE c = header /\ d # <<>>
    <3>1. Said(TableOut(header, v)) = Said(d) /\ C = H
      BY <1>10, <2>8 DEF C, H
    <3>2. C \o R \in Text /\ Within(R, C \o R)
      BY <1>5, <1>8, <1>11, <3>1
    <3>3. Within(X \o R, Said(d) \o (C \o R))
      BY <1>5, <3>1, <3>2, WithinJoins
    <3>4. Within(X \o R, Said(TableOut(header, w)))
      BY <2>5, <3>3
    <3> QED
      BY <1>1, <2>1, <2>2, <3>4 DEF w, R
  <2> QED
    BY <2>6, <2>7, <2>8
<1>16. CASE ~(Len(cand) <= limit) /\ c = header
  <2>0. d \o under \in Parts
    BY <1>1, <1>4, <1>7
  <2>1. w.done = d \o under /\ w.current = header /\ d \o under \in Parts /\ w \in Table
    <3> DEFINE e == d \o under
    <3>1. w = [done |-> e, current |-> c] /\ e \in Parts
      BY <1>13, <1>16, <2>0
    <3> HIDE DEF e
    <3>2. w \in Table /\ w.done = e /\ w.current = header
      BY <1>1, <1>16, <3>1 DEF Table
    <3> QED
      BY <2>0, <3>2 DEF e
  <2>2. d \o under # <<>>
    <3>1. Len(d) \in Nat /\ Len(under) \in Nat /\ Len(under) # 0
      BY <1>1, <1>4 DEF Parts
    <3>2. Len(d \o under) = Len(d) + Len(under)
      BY <1>1, <1>4 DEF Parts
    <3> QED
      BY <3>1, <3>2
  <2>3. TableOut(header, w) = d \o under
    BY <2>1, <2>2 DEF TableOut
  <2>4. Said(TableOut(header, w)) = Said(d) \o Said(under)
    BY <1>1, <1>4, <1>7, <2>3
  <2>5. CASE d = <<>>
    <3>1. Said(TableOut(header, v)) = H
      BY <1>5, <1>10, <1>16, <2>5
    <3>2. Within(X \o R, H \o R)
      BY <1>5, <1>11, <3>1, WithinJoins
    <3>3. X \o R \in Text /\ H \o R \in Text
      BY <1>5, <1>8
    <3>4. Within(X \o R, Said(under))
      BY <1>4, <1>5, <3>2, <3>3, WithinWithin
    <3>5. Said(d) \o Said(under) = Said(under)
      BY <1>5, <1>8, <2>5
    <3>6. Within(X \o R, Said(TableOut(header, w)))
      BY <2>4, <3>4, <3>5
    <3> QED
      BY <1>1, <2>1, <3>6 DEF w, R
  <2>6. CASE d # <<>>
    <3>1. Said(TableOut(header, v)) = Said(d)
      BY <1>10, <1>16, <2>6
    <3>2. H \o R \in Text
      BY <1>5, <1>8
    <3>3. Within(R, Said(under))
      BY <1>4, <1>5, <1>11, <3>2, WithinWithin
    <3>4. Within(X \o R, Said(d) \o Said(under))
      BY <1>5, <3>1, <3>3, WithinJoins
    <3>5. Within(X \o R, Said(TableOut(header, w)))
      BY <2>4, <3>4
    <3> QED
      BY <1>1, <2>1, <3>5 DEF w, R
  <2> QED
    BY <2>5, <2>6
<1>17. CASE ~(Len(cand) <= limit) /\ c # header
  <2> DEFINE e == Append(d, c)
  <2>1. e \in Parts /\ Said(e) = Said(d) \o C
    BY <1>1, <1>6 DEF C
  <2>20. w = [done |-> e, current |-> fresh]
    BY <1>14, <1>17
  <2>21. Said(TableOut(header, v)) = Said(e)
    BY <1>10, <1>17
  <2> HIDE DEF e
  <2>2. w.done = e /\ w.current = fresh /\ w \in Table
    BY <1>3, <2>1, <2>20 DEF Table
  <2>3. Len(header) < Len(fresh)
    BY <1>1, <1>3
  <2>4. fresh # header
    BY <1>1, <2>3
  <2>5. TableOut(header, w) = Append(e, fresh)
    BY <2>2, <2>4 DEF TableOut
  <2>6. Said(TableOut(header, w)) = Said(e) \o (H \o R)
    <3>1. Said(Append(e, fresh)) = Said(e) \o Ink(fresh)
      BY <1>3, <1>6, <2>1
    <3> QED
      BY <1>3, <2>5, <3>1
  <2>7. Said(TableOut(header, v)) = Said(e) /\ Said(e) \in Text
    BY <1>5, <1>8, <2>1, <2>21
  <2>8. H \o R \in Text
    BY <1>5, <1>8
  <2>9. Within(X \o R, Said(TableOut(header, w)))
    BY <1>5, <1>11, <2>6, <2>7, <2>8, WithinJoins
  <2> QED
    BY <1>1, <2>2, <2>3, <2>9 DEF w, R
<1> QED
  BY <1>15, <1>16, <1>17

HeaderOf(t) == TableHeader(Lines(t))
RowsOf(t) == SubSeq(Lines(t), HeaderRows(Lines(t)) + 1, Len(Lines(t)))

\* A table says what its header and its rows say.
LEMMA HeaderAndRows ==
  ASSUME NEW t \in Text, Lines(t) # <<>>
  PROVE  /\ HeaderOf(t) \in Text /\ RowsOf(t) \in Seq(Spoken) /\ RowsOf(t) \in Parts
         /\ Ink(t) = Ink(HeaderOf(t)) \o Said(RowsOf(t))
<1> DEFINE ls == Lines(t)
           h == HeaderRows(ls)
           n == Len(ls)
           top == SubSeq(ls, 1, h)
           under == SubSeq(ls, h + 1, n)
<1>1. ls \in Seq(Spoken) /\ ls \in Parts /\ Said(ls) = Ink(t) /\ ls # <<>>
  BY LinesKeep
<1> HIDE DEF ls
<1>2. h \in 1..n /\ TableHeader(ls) \in Text /\ Ink(TableHeader(ls)) = Said(top) /\ n \in Nat
  BY <1>1, HeaderIsPart DEF Parts
<1> HIDE DEF h
<1>3. top \o under = ls
  <2>1. 1 \in 1..Len(ls)+1 /\ h \in 1-1..Len(ls) /\ n \in h..Len(ls)
    BY <1>2
  <2>2. SubSeq(ls, 1, h) \o SubSeq(ls, h + 1, n) = SubSeq(ls, 1, n)
    BY <1>1, <2>1, ConcatAdjacentSubSeq DEF Parts
  <2> QED
    BY <1>1, <2>2, SubSeqFull DEF Parts
<1>4. top \in Parts
  BY <1>1, <1>2, OneMore DEF Parts
<1>5. under \in Seq(Spoken)
  <2>1. \A i \in (h + 1)..n : ls[i] \in Spoken
    BY <1>1, <1>2
  <2>2. h + 1 \in Int /\ n \in Int
    BY <1>2
  <2> QED
    BY <2>1, <2>2, SubSeqProperties
<1>6. under \in Parts
  <2>1. \A i \in (h + 1)..n : ls[i] \in Text
    BY <1>1, <1>2 DEF Parts
  <2>2. h + 1 \in Int /\ n \in Int
    BY <1>2
  <2> QED
    BY <2>1, <2>2, SubSeqProperties DEF Parts
<1> HIDE DEF top, under, n
<1>7. Said(top \o under) = Said(top) \o Said(under)
  BY <1>4, <1>6, SaidJoins
<1> QED
  BY <1>1, <1>2, <1>3, <1>5, <1>6, <1>7 DEF HeaderOf, RowsOf, under, n, h, ls

\* SplitTable, one row after the other.
LEMMA TableFolds ==
  ASSUME NEW t \in Text, NEW limit, Lines(t) # <<>>
  PROVE  \E g : /\ g \in [0..Len(RowsOf(t)) -> Table]
                /\ g[0] = [done |-> <<>>, current |-> HeaderOf(t)]
                /\ SplitTable(t, limit) =
                     (IF Len(Lines(t)) = 1 THEN FixedSlices(Lines(t)[1], limit)
                      ELSE TableOut(HeaderOf(t), g[Len(RowsOf(t))]))
                /\ \A k \in 1..Len(RowsOf(t)) :
                     g[k] = TableRow(HeaderOf(t), RowsOf(t)[k], limit, g[k - 1])
<1> DEFINE T == Table
           n == Len(RowsOf(t))
           base == [done |-> <<>>, current |-> HeaderOf(t)]
           op(v, k) == TableRow(HeaderOf(t), RowsOf(t)[k], limit, v)
           step == [k \in 1..n |-> [v \in T |-> op(v, k)]]
           F(h) == [k \in 0..n |-> IF k = 0 THEN base ELSE op(h[k - 1], k)]
           g == CHOOSE h : h = F(h)
<1>1. SplitTable(t, limit) =
        (IF Len(Lines(t)) = 1 THEN FixedSlices(Lines(t)[1], limit) ELSE TableOut(HeaderOf(t), g[n]))
  <2>1. SplitTable(t, limit) =
          IF Lines(t) = <<>> THEN <<>>
          ELSE IF Len(Lines(t)) = 1 THEN FixedSlices(Lines(t)[1], limit)
          ELSE TableOut(HeaderOf(t), g[n])
    BY Zenon DEF SplitTable, Along, HeaderOf, RowsOf
  <2> HIDE DEF g, n
  <2> QED
    BY <2>1
<1>2. n \in Nat /\ base \in T
  BY HeaderAndRows DEF Table, Parts
<1>3. ASSUME NEW k \in 1..n, NEW v \in T PROVE op(v, k) \in T
  <2> DEFINE row == RowsOf(t)[k]
             header == HeaderOf(t)
  <2>1. row \in Spoken /\ row \in Text /\ header \in Text
    BY HeaderAndRows DEF Spoken
  <2> HIDE DEF row, header
  <2>2. v = [done |-> v.done, current |-> v.current] /\ v.done \in Parts /\ v.current \in Text
    BY DEF Table
  <2>3. v.current \o <<"/">> \o row \in Text /\ header \o <<"/">> \o row \in Text
    BY <2>1, <2>2, UnderHeader
  <2>4. Append(v.done, v.current) \in Parts
    BY <2>2 DEF Parts
  <2>5. v.done \o RowUnderHeader(header, row, limit) \in Parts
    BY <2>1, <2>2, RowSaysBoth, SaidJoins
  <2>6. TableRow(header, row, limit, v) \in Table
    BY <2>2, <2>3, <2>4, <2>5 DEF TableRow, Table
  <2> QED
    BY <2>6 DEF row, header
<1> HIDE DEF T, n, base, op
<1>4. step \in [1..n -> [T -> T]] /\ \A k \in 1..n : \A v \in T : step[k][v] = op(v, k)
  BY <1>3
<1> HIDE DEF step
<1>5. PICK f : Solves(f, n, T, base, step)
  BY <1>2, <1>4, RecursionHas
<1>6. f = F(f)
  <2>1. f = [k \in 0..n |-> f[k]] /\ f[0] = base
    BY <1>5 DEF Solves
  <2>2. ASSUME NEW k \in 0..n, k # 0 PROVE f[k] = op(f[k - 1], k)
    <3>1. k \in 1..n /\ k - 1 \in 0..n
      BY <1>2, <2>2
    <3>2. f[k - 1] \in T /\ f[k] = step[k][f[k - 1]]
      BY <1>5, <3>1 DEF Solves
    <3> QED
      BY <1>4, <3>1, <3>2
  <2>3. \A k \in 0..n : f[k] = IF k = 0 THEN base ELSE op(f[k - 1], k)
    BY <2>1, <2>2
  <2> QED
    BY <2>1, <2>3
<1>7. g = F(g)
  <2> HIDE DEF F
  <2> QED
    BY <1>6
<1> HIDE DEF g
<1>8. /\ g = [k \in 0..n |-> g[k]] /\ g[0] = base
      /\ \A k \in 1..n : g[k] = op(g[k - 1], k)
  <2>1. g = [k \in 0..n |-> g[k]] /\ g[0] = base
    BY <1>2, <1>7
  <2>2. \A k \in 0..n : g[k] = IF k = 0 THEN base ELSE op(g[k - 1], k)
    BY <1>7
  <2>3. \A k \in 1..n : k \in 0..n /\ k # 0
    BY <1>2
  <2> QED
    BY <2>1, <2>2, <2>3
<1>9. Solves(g, n, T, base, step)
  <2>1. \A k \in 1..n : g[k - 1] \in T => g[k] = step[k][g[k - 1]]
    BY <1>4, <1>8
  <2> HIDE DEF F
  <2> QED
    BY <1>2, <1>4, <1>8, <2>1, TheSolution
<1> QED
  BY <1>1, <1>8, <1>9 DEF Solves, T, n, base, op

\* The pieces of a table say, in its order, what the table says.
LEMMA TableSays ==
  ASSUME NEW t \in Text, NEW limit
  PROVE  SplitTable(t, limit) \in Parts /\ Within(Ink(t), Said(SplitTable(t, limit)))
<1>1. Lines(t) \in Parts /\ Said(Lines(t)) = Ink(t) /\ Ink(t) \in Text
  <2>1. Ink(t) \in Text
    BY InkIsText
  <2> QED
    BY <2>1, LinesKeep
<1>2. CASE Lines(t) = <<>>
  <2>1. SplitTable(t, limit) = <<>> /\ <<>> \in Parts
    <3>1. SplitTable(t, limit) = <<>>
      BY <1>2, Zenon DEF SplitTable
    <3>2. <<>> \in Parts
      BY DEF Parts
    <3> QED
      BY <3>1, <3>2
  <2>2. Said(<<>>) = <<>>
    BY <2>1, NothingIsLess, SaidOfParts
  <2> QED
    BY <1>1, <1>2, <2>1, <2>2, NothingIsLess, WithinItself
<1>3. CASE Lines(t) # <<>>
  <2> DEFINE under == RowsOf(t)
             n == Len(under)
             header == HeaderOf(t)
             H == Ink(header)
             upTo(k) == SubSeq(under, 1, k)
             Out(v) == TableOut(header, v)
             ls == Lines(t)
  <2>1. /\ header \in Text /\ under \in Seq(Spoken) /\ under \in Parts /\ n \in Nat
        /\ Ink(t) = H \o Said(under)
    BY <1>3, HeaderAndRows DEF Parts
  <2>2. PICK g : /\ g \in [0..n -> Table] /\ g[0] = [done |-> <<>>, current |-> header]
                 /\ SplitTable(t, limit) = IF Len(ls) = 1 THEN FixedSlices(ls[1], limit) ELSE Out(g[n])
                 /\ \A k \in 1..n : g[k] = TableRow(header, under[k], limit, g[k - 1])
    BY <1>3, TableFolds
  <2>3. CASE Len(ls) = 1
    <3>1. ls[1] \in Text /\ ls = <<ls[1]>>
      BY <1>1, <2>3 DEF Parts
    <3>2. Said(<<ls[1]>>) = Ink(ls[1])
      BY <1>1, <3>1, SaidOfParts
    <3>3. FixedSlices(ls[1], limit) \in Parts /\ Said(FixedSlices(ls[1], limit)) = Ink(ls[1])
      BY <3>1, SlicesKeep DEF Said
    <3>4. Ink(ls[1]) = Ink(t)
      BY <1>1, <3>1, <3>2
    <3> QED
      BY <1>1, <2>2, <2>3, <3>3, <3>4, WithinItself
  <2>4. CASE Len(ls) # 1
    <3>1. SplitTable(t, limit) = TableOut(header, g[n])
      BY <2>2, <2>4
    <3> HIDE DEF ls, header, under
    <3>2. /\ upTo(0) = <<>> /\ upTo(n) = under /\ \A k \in 0..n : upTo(k) \in Parts
          /\ \A k \in 1..n : under[k] \in Text /\ upTo(k) = Append(upTo(k - 1), under[k])
      BY <2>1, OneMore DEF Parts
    <3>3. \A k \in 1..n : under[k] \in Spoken
      BY <2>1
    <3> HIDE DEF n, upTo
    <3> DEFINE P == {k \in 0..n : /\ Len(header) <= Len(g[k].current)
                                  /\ Within(H \o Said(upTo(k)), Said(TableOut(header, g[k])))}
    <3>4. H \in Text /\ H \o <<>> = H /\ Said(<<header>>) = H /\ Said(<<>>) = <<>>
      <4>1. <<>> \in Parts
        BY DEF Parts
      <4> QED
        BY <2>1, <4>1, InkIsText, SaidOfParts, ConcatEmptySeq DEF Text
    <3>5. 0 \in P
      <4>1. TableOut(header, g[0]) = <<header>> /\ g[0].current = header
        BY <2>2 DEF TableOut
      <4>2. Within(H, H)
        BY <3>4, WithinItself
      <4>3. Len(header) <= Len(header)
        BY <2>1 DEF Text
      <4>4. Within(H \o Said(upTo(0)), Said(TableOut(header, g[0])))
        <5>1. H \o Said(upTo(0)) = H
          BY <3>2, <3>4
        <5> QED
          BY <3>4, <4>1, <4>2, <5>1
      <4> QED
        BY <2>1, <4>1, <4>3, <4>4
    <3>6. ASSUME NEW k \in 1..n, k - 1 \in P PROVE k \in P
      <4> DEFINE v == g[k - 1]
                 row == under[k]
                 u == upTo(k - 1)
                 X == H \o Said(u)
      <4>0. k - 1 \in 0..n /\ k \in 0..n
        BY <2>1
      <4>1. v \in Table /\ u \in Parts /\ row \in Spoken /\ row \in Text /\ upTo(k) = Append(u, row)
        BY <2>2, <3>2, <3>3, <4>0
      <4>2. Len(header) <= Len(v.current) /\ Within(X, Said(TableOut(header, v)))
        BY <3>6
      <4>3. g[k] = TableRow(header, row, limit, v)
        BY <2>2
      <4> HIDE DEF v, row, u
      <4>4. Said(u) \in Text /\ Ink(row) \in Text /\ Said(Append(u, row)) = Said(u) \o Ink(row)
        BY <4>1, SaidOfParts, InkIsText
      <4>5. X \in Text /\ X \o Ink(row) = H \o (Said(u) \o Ink(row))
        <5>1. H \in Seq(Characters) /\ Said(u) \in Seq(Characters) /\ Ink(row) \in Seq(Characters)
          BY <3>4, <4>4 DEF Text
        <5>2. X \in Text
          BY <5>1 DEF Text
        <5>3. X \o Ink(row) = H \o (Said(u) \o Ink(row))
          BY <5>1, ConcatAssociative
        <5> QED
          BY <5>2, <5>3
      <4> HIDE DEF X
      <4>6. /\ Len(header) <= Len(TableRow(header, row, limit, v).current)
            /\ Within(X \o Ink(row), Said(TableOut(header, TableRow(header, row, limit, v))))
        BY <2>1, <4>1, <4>2, <4>5, TableStep
      <4>7. H \o Said(upTo(k)) = X \o Ink(row)
        BY <4>1, <4>4, <4>5
      <4> QED
        BY <4>0, <4>3, <4>6, <4>7
    <3>7. \A k \in 0..n : k \in P
      <4> HIDE DEF P
      <4> QED
        BY <2>1, <3>5, <3>6, UpFrom
    <3>8. Within(Ink(t), Said(TableOut(header, g[n])))
      <4>1. n \in P
        BY <2>1, <3>7
      <4> QED
        BY <2>1, <3>2, <4>1
    <3>9. TableOut(header, g[n]) \in Parts
      <4>1. g[n].done \in Parts /\ g[n].current \in Text
        BY <2>1, <2>2 DEF Table
      <4>2. Append(g[n].done, g[n].current) \in Parts /\ <<header>> \in Parts
        BY <2>1, <4>1 DEF Parts
      <4> QED
        BY <4>1, <4>2 DEF TableOut
    <3> QED
      BY <3>1, <3>8, <3>9
  <2> QED
    BY <2>3, <2>4
<1> QED
  BY <1>2, <1>3

-----------------------------------------------------------------------------
(* The pages of a PDF, their blocks, the units and the parents.             *)
Fragments == Parts \ {<<>>}

\* Taking page headers and footers off leaves pages of fragments.
LEMMA PagesAreStripped ==
  ASSUME NEW pages \in Seq(Seq(Fragments))
  PROVE  StripBoundaries(pages) \in Seq(Seq(Fragments))
<1> DEFINE header == RepeatedBoundary(pages, FirstLine)
           footer == RepeatedBoundary(pages, LastLine) \ header
           headless(page) == IF page # <<>> /\ FirstLine(page) \in header THEN WithoutFirst(page) ELSE page
           footless(page) == IF page # <<>> /\ LastLine(page) \in footer THEN WithoutLast(page) ELSE page
<1>1. StripBoundaries(pages) = [k \in DOMAIN pages |-> footless(headless(pages[k]))]
  BY Zenon DEF StripBoundaries
<1> HIDE DEF header, footer
<1>2. \A page \in Seq(Parts) : NoEmpty(page) \in Seq(Fragments)
  BY OutsideLeaves DEF NoEmpty, Fragments
<1>3. ASSUME NEW page \in Seq(Fragments), page # <<>>
      PROVE  WithoutFirst(page) \in Seq(Fragments) /\ WithoutLast(page) \in Seq(Fragments)
  <2>1. Head(page) \in Fragments /\ Tail(page) \in Seq(Fragments)
    BY <1>3, HeadTailProperties
  <2>2. Last(page) \in Fragments /\ Front(page) \in Seq(Fragments)
    <3>1. Len(page) \in Nat /\ Len(page) # 0
      BY <1>3
    <3>2. Len(page) \in 1..Len(page) /\ Len(page) - 1 \in 0..Len(page)
      BY <3>1
    <3> QED
      BY <3>2, OneMore DEF Last, Front
  <2> DEFINE h == Head(page)
             l == Last(page)
             t == Tail(page)
             f == Front(page)
  <2> HIDE DEF h, l, t, f
  <2>3. h \in Seq(Text) /\ h # <<>> /\ l \in Seq(Text) /\ l # <<>>
    BY <2>1, <2>2 DEF h, l, Fragments, Parts
  <2>4. Tail(h) \in Parts
    BY <2>3, HeadTailProperties DEF Parts
  <2>5. Front(l) \in Parts
    <3>1. Len(l) \in Nat /\ Len(l) # 0
      BY <2>3
    <3>2. Len(l) - 1 \in 0..Len(l)
      BY <3>1
    <3> QED
      BY <2>3, <3>2, OneMore DEF Front, Parts
  <2>6. t \in Seq(Parts) /\ f \in Seq(Parts)
    <3>1. Fragments \subseteq Parts
      BY DEF Fragments
    <3>2. \A s \in Seq(Fragments) : s \in Seq(Parts)
      BY <3>1
    <3> QED
      BY <2>1, <2>2, <3>2 DEF t, f
  <2>7. <<Tail(h)>> \o t \in Seq(Parts) /\ f \o <<Front(l)>> \in Seq(Parts)
    <3>1. \A x \in Parts : <<x>> \in Seq(Parts)
      OBVIOUS
    <3>2. \A x, y \in Seq(Parts) : x \o y \in Seq(Parts)
      OBVIOUS
    <3> QED
      BY <2>4, <2>5, <2>6, <3>1, <3>2
  <2>8. WithoutFirst(page) = NoEmpty(<<Tail(h)>> \o t) /\ WithoutLast(page) = NoEmpty(f \o <<Front(l)>>)
    BY DEF WithoutFirst, WithoutLast, h, t, l, f
  <2> QED
    BY <1>2, <2>7, <2>8
<1>4. \A page \in Seq(Fragments) : headless(page) \in Seq(Fragments)
  BY <1>3
<1>5. \A page \in Seq(Fragments) : footless(page) \in Seq(Fragments)
  BY <1>3
<1> HIDE DEF headless, footless
<1>6. \A page \in Seq(Fragments) : footless(headless(page)) \in Seq(Fragments)
  BY <1>4, <1>5
<1>7. [k \in DOMAIN pages |-> footless(headless(pages[k]))] \in Seq(Seq(Fragments))
  <2>1. DOMAIN pages = 1..Len(pages) /\ Len(pages) \in Nat /\ \A k \in 1..Len(pages) : pages[k] \in Seq(Fragments)
    OBVIOUS
  <2>2. \A k \in 1..Len(pages) : footless(headless(pages[k])) \in Seq(Fragments)
    BY <1>6, <2>1
  <2> DEFINE Z == Seq(Fragments)
  <2> HIDE DEF Z
  <2>3. \A k \in 1..Len(pages) : footless(headless(pages[k])) \in Z
    BY <2>2 DEF Z
  <2>4. [k \in DOMAIN pages |-> footless(headless(pages[k]))] \in Seq(Z)
    BY <2>1, <2>3
  <2> QED
    BY <2>4 DEF Z
<1> QED
  BY <1>1, <1>7

\* Blocks and units: what is known of the text is enough.
Noted(PG, SC, TY) == [text : Text, page : PG, section : SC, type : TY]

\* Blocks and units carry texts.
LEMMA NotedAreTexted ==
  ASSUME NEW PG, NEW SC, NEW TY
  PROVE  Texted(Noted(PG, SC, TY))
BY DEF Texted, Noted

\* What is found on the pages is a list of blocks.
LEMMA BlocksAreNoted ==
  ASSUME NEW pages \in Seq(Seq(Fragments))
  PROVE  \E PG, SC, TY : Blocks(pages) \in Seq(Noted(PG, SC, TY))
<1> DEFINE Z == [page : Nat, lines : Parts]
           each == [p \in DOMAIN pages |-> [k \in DOMAIN pages[p] |-> [page |-> p, lines |-> pages[p][k]]]]
           all == FlattenSeq(each)
           section == CHOOSE h : h = [k \in 0..Len(all) |->
                        IF k = 0 THEN <<>>
                        ELSE IF BlockType(all[k].lines) = "heading" THEN all[k].lines[1] ELSE h[k - 1]]
<1>1. Blocks(pages) = [k \in DOMAIN all |-> [text |-> Join(all[k].lines, <<"/">>), page |-> all[k].page,
                                            section |-> section[k], type |-> BlockType(all[k].lines)]]
  BY Zenon DEF Blocks
<1>2. each \in Seq(Seq(Z))
  <2>1. DOMAIN pages = 1..Len(pages) /\ Len(pages) \in Nat /\ \A p \in 1..Len(pages) : pages[p] \in Seq(Fragments)
    OBVIOUS
  <2>2. ASSUME NEW p \in 1..Len(pages)
        PROVE  [k \in DOMAIN pages[p] |-> [page |-> p, lines |-> pages[p][k]]] \in Seq(Z)
    <3> DEFINE q == pages[p]
    <3>1. q \in Seq(Fragments)
      BY <2>1
    <3> HIDE DEF q
    <3>2. DOMAIN q = 1..Len(q) /\ Len(q) \in Nat /\ \A k \in 1..Len(q) : q[k] \in Parts
      BY <3>1 DEF Fragments
    <3>3. p \in Nat
      BY <2>1
    <3>4. \A k \in 1..Len(q) : [page |-> p, lines |-> q[k]] \in Z
      BY <3>2, <3>3
    <3> HIDE DEF Z
    <3>5. [k \in DOMAIN q |-> [page |-> p, lines |-> q[k]]] \in Seq(Z)
      BY <3>2, <3>4
    <3> QED
      BY <3>5 DEF q
  <2> DEFINE Y == Seq(Z)
             one(p) == [k \in DOMAIN pages[p] |-> [page |-> p, lines |-> pages[p][k]]]
  <2> HIDE DEF Y, one
  <2>3. \A p \in 1..Len(pages) : one(p) \in Y
    BY <2>2 DEF one, Y
  <2>4. [p \in DOMAIN pages |-> one(p)] \in Seq(Y)
    BY <2>1, <2>3
  <2> QED
    BY <2>4 DEF one, Y
<1> HIDE DEF each
<1>3. all \in Seq(Z)
  BY <1>2, FlattenIsOne
<1> HIDE DEF all, section
<1>4. DOMAIN all = 1..Len(all) /\ Len(all) \in Nat /\ \A k \in 1..Len(all) : all[k].lines \in Parts
  <2> HIDE DEF Z
  <2>1. DOMAIN all = 1..Len(all) /\ Len(all) \in Nat /\ \A k \in 1..Len(all) : all[k] \in Z
    BY <1>3
  <2> QED
    BY <2>1 DEF Z
<1> DEFINE PG == {all[k].page : k \in 1..Len(all)}
           SC == {section[k] : k \in 1..Len(all)}
           TY == {BlockType(all[k].lines) : k \in 1..Len(all)}
           block(k) == [text |-> Join(all[k].lines, <<"/">>), page |-> all[k].page,
                        section |-> section[k], type |-> BlockType(all[k].lines)]
           N == Noted(PG, SC, TY)
<1>5. ASSUME NEW k \in 1..Len(all) PROVE block(k) \in N
  <2>1. Join(all[k].lines, <<"/">>) \in Text
    <3> DEFINE ls == all[k].lines
    <3>1. ls \in Parts
      BY <1>4
    <3> HIDE DEF ls
    <3>2. Join(ls, <<"/">>) \in Text
      BY <3>1, BlankSeparators, JoinSays
    <3> QED
      BY <3>2 DEF ls
  <2>2. all[k].page \in PG /\ section[k] \in SC /\ BlockType(all[k].lines) \in TY
    OBVIOUS
  <2> HIDE DEF PG, SC, TY
  <2> QED
    BY <2>1, <2>2 DEF Noted
<1> HIDE DEF block, N
<1>6. [k \in DOMAIN all |-> block(k)] \in Seq(N)
  BY <1>4, <1>5
<1>7. Blocks(pages) \in Seq(N)
  BY <1>1, <1>6 DEF block
<1> QED
  BY <1>7 DEF N

\* Outside overlap the pieces of a text say what it says.
LEMMA SplitSays ==
  ASSUME NEW t \in Text, NEW size
  PROVE  Split(t, size, 0) \in Parts /\ Said(Split(t, size, 0)) = Ink(t)
<1> DEFINE raw == Raw(t, size)
           q == Split(t, size, 0)
<1>1. raw \in Parts /\ Said(raw) = Ink(t)
  BY RawKeeps
<1>2. q = [k \in DOMAIN raw |-> IF k = 1 THEN raw[1] ELSE Tail_(raw[k - 1], 0) \o raw[k]]
  BY DEF Split, Overlapped
<1>3. q \in Parts
  BY SplitReadsBack
<1> HIDE DEF raw, q
<1>4. DOMAIN raw = 1..Len(raw) /\ Len(raw) \in Nat /\ \A k \in 1..Len(raw) : raw[k] \in Text
  BY <1>1 DEF Parts
<1>5. ASSUME NEW k \in 1..Len(raw) PROVE q[k] = raw[k]
  <2>1. CASE k = 1
    BY <1>2, <1>4, <2>1
  <2>2. CASE k # 1
    <3>1. k - 1 \in 1..Len(raw)
      BY <1>4, <2>2
    <3> DEFINE e == Tail_(raw[k - 1], 0)
    <3>2. raw[k - 1] \in Text
      BY <1>4, <3>1
    <3>3. e \in Text /\ Len(e) = IF Len(raw[k - 1]) < 0 THEN Len(raw[k - 1]) ELSE 0
      BY <3>2, TailOfText
    <3>4. Len(raw[k - 1]) \in Nat
      BY <3>2 DEF Text
    <3> HIDE DEF e
    <3>5. e = <<>>
      BY <3>3, <3>4 DEF Text
    <3>6. q[k] = e \o raw[k]
      BY <1>2, <1>4, <2>2 DEF e
    <3>7. <<>> \o raw[k] = raw[k]
      BY <1>4, ConcatEmptySeq DEF Text
    <3> QED
      BY <3>5, <3>6, <3>7
  <2> QED
    BY <2>1, <2>2
<1>6. Len(q) = Len(raw)
  BY <1>2, <1>3, <1>4 DEF Parts
<1>7. Said(q) = Said(raw)
  BY <1>1, <1>3, <1>5, <1>6, AlikeSay
<1> QED
  BY <1>1, <1>3, <1>7 DEF q

\* The units made so far and the tables that wait, and what they say together.
Made(PG, SC, TY) == [done : Seq(Noted(PG, SC, TY)), tables : Seq(Noted(PG, SC, TY))]
Told(v) == Said(TextsOf(v.done)) \o Said(TextsOf(v.tables))

\* The units made of one block carry the texts it was split into.
LEMMA UnitsSay ==
  ASSUME NEW PG, NEW SC, NEW TY, NEW b \in Noted(PG, SC, TY), NEW texts \in Parts
  PROVE  UnitsOf(b, texts) \in Seq(Noted(PG, SC, TY)) /\ TextsOf(UnitsOf(b, texts)) = texts
<1> DEFINE N == Noted(PG, SC, TY)
           u == UnitsOf(b, texts)
<1>1. DOMAIN texts = 1..Len(texts) /\ Len(texts) \in Nat /\ \A k \in 1..Len(texts) : texts[k] \in Text
  BY DEF Parts
<1>2. \A k \in 1..Len(texts) : [b EXCEPT !.text = texts[k]] \in N /\ [b EXCEPT !.text = texts[k]].text = texts[k]
  BY <1>1 DEF Noted
<1>3. u = [k \in 1..Len(texts) |-> [b EXCEPT !.text = texts[k]]]
  BY <1>1 DEF UnitsOf
<1> HIDE DEF N, u
<1>4. u \in Seq(N) /\ Len(u) = Len(texts) /\ DOMAIN u = 1..Len(texts)
  <2> DEFINE one(k) == [b EXCEPT !.text = texts[k]]
  <2>1. \A k \in 1..Len(texts) : one(k) \in N
    BY <1>2
  <2> HIDE DEF one
  <2>2. [k \in 1..Len(texts) |-> one(k)] \in Seq(N)
    BY <1>1, <2>1
  <2>3. u = [k \in 1..Len(texts) |-> one(k)]
    BY <1>3 DEF one
  <2>4. u \in Seq(N) /\ DOMAIN u = 1..Len(texts)
    BY <2>2, <2>3
  <2> QED
    BY <1>1, <2>4
<1>5. \A k \in 1..Len(texts) : u[k].text = texts[k]
  BY <1>2, <1>3
<1>6. TextsOf(u) = [k \in 1..Len(texts) |-> u[k].text]
  BY <1>4 DEF TextsOf
<1>7. texts = [k \in 1..Len(texts) |-> texts[k]]
  BY <1>1 DEF Parts
<1>8. TextsOf(u) = texts
  BY <1>5, <1>6, <1>7
<1> QED
  BY <1>4, <1>8 DEF N, u

\* A list that grows says what it said, and what was added.
LEMMA ListsSay ==
  ASSUME NEW PG, NEW SC, NEW TY, NEW a \in Seq(Noted(PG, SC, TY)), NEW b \in Seq(Noted(PG, SC, TY))
  PROVE  /\ a \o b \in Seq(Noted(PG, SC, TY))
         /\ TextsOf(a) \in Parts /\ Said(TextsOf(a)) \in Text
         /\ Said(TextsOf(a \o b)) = Said(TextsOf(a)) \o Said(TextsOf(b))
         /\ Said(TextsOf(<<>>)) = <<>>
<1> DEFINE N == Noted(PG, SC, TY)
           x == TextsOf(a)
           y == TextsOf(b)
<1>1. Texted(N)
  BY NotedAreTexted
<1>2. a \o b \in Seq(N)
  <2> HIDE DEF N
  <2>1. a \in Seq(N) /\ b \in Seq(N)
    BY DEF N
  <2> QED
    BY <2>1
<1>3. x \in Parts /\ y \in Parts /\ TextsOf(a \o b) = x \o y /\ TextsOf(<<>>) = <<>>
  BY <1>1, TextsOfList, TextsJoin
<1> HIDE DEF x, y
<1>4. Said(x) \in Text /\ Said(<<>>) = <<>>
  BY <1>3, NothingIsLess, SaidOfParts
<1>5. Said(x \o y) = Said(x) \o Said(y)
  BY <1>3, SaidJoins
<1> QED
  BY <1>2, <1>3, <1>4, <1>5 DEF N, x, y

\* A list of one block says what the block says.
LEMMA OneMoreSays ==
  ASSUME NEW PG, NEW SC, NEW TY, NEW a \in Seq(Noted(PG, SC, TY)), NEW e \in Noted(PG, SC, TY)
  PROVE  /\ Append(a, e) \in Seq(Noted(PG, SC, TY)) /\ <<e>> \in Seq(Noted(PG, SC, TY))
         /\ e.text \in Text /\ Ink(e.text) \in Text
         /\ Said(TextsOf(<<e>>)) = Ink(e.text)
<1> DEFINE N == Noted(PG, SC, TY)
           t == e.text
<1>1. Texted(N) /\ t \in Text
  BY NotedAreTexted DEF Noted
<1>2. a \in Seq(N) /\ e \in N
  OBVIOUS
<1> HIDE DEF N
<1>3. Append(a, e) = a \o <<e>> /\ <<e>> \in Seq(N) /\ Append(a, e) \in Seq(N)
  BY <1>2, AppendIsConcat
<1>4. TextsOf(<<e>>) = <<t>>
  BY <1>1, <1>2, TextsOfList
<1> HIDE DEF t
<1>5. Ink(t) \in Text /\ Said(<<t>>) = Ink(t)
  <2>1. <<>> \in Parts
    BY DEF Parts
  <2> QED
    BY <1>1, <2>1, InkIsText, SaidOfParts
<1> QED
  BY <1>1, <1>3, <1>4, <1>5 DEF N, t

\* A list with one block more says what the block says besides.
LEMMA AppendSays ==
  ASSUME NEW PG, NEW SC, NEW TY, NEW a \in Seq(Noted(PG, SC, TY)), NEW e \in Noted(PG, SC, TY)
  PROVE  Said(TextsOf(Append(a, e))) = Said(TextsOf(a)) \o Ink(e.text)
<1> DEFINE N == Noted(PG, SC, TY)
<1>1. \A x, y \in Seq(N) : Said(TextsOf(x \o y)) = Said(TextsOf(x)) \o Said(TextsOf(y))
  BY ListsSay
<1>2. a \in Seq(N) /\ <<e>> \in Seq(N) /\ Said(TextsOf(<<e>>)) = Ink(e.text)
  BY OneMoreSays
<1>3. a \in Seq(N) /\ e \in N
  OBVIOUS
<1> HIDE DEF N
<1>4. Append(a, e) = a \o <<e>>
  BY <1>3, AppendIsConcat
<1>5. Said(TextsOf(a \o <<e>>)) = Said(TextsOf(a)) \o Said(TextsOf(<<e>>))
  BY <1>1, <1>2
<1> QED
  BY <1>2, <1>4, <1>5

\* The tables waiting are said by the units they are flushed to.
LEMMA FlushSays ==
  ASSUME NEW PG, NEW SC, NEW TY, NEW v \in Made(PG, SC, TY)
  PROVE  /\ Flushed(v) \in Seq(Noted(PG, SC, TY)) /\ Told(v) \in Text
         /\ Within(Told(v), Said(TextsOf(Flushed(v))))
<1> DEFINE N == Noted(PG, SC, TY)
           d == v.done
           m == v.tables
           D == Said(TextsOf(d))
           M == Said(TextsOf(m))
<1>1. d \in Seq(N) /\ m \in Seq(N)
  BY DEF Made
<1> HIDE DEF d, m
<1>2. D \in Text /\ M \in Text /\ Said(TextsOf(<<>>)) = <<>> /\ TextsOf(m) \in Parts
  BY <1>1, ListsSay
<1> HIDE DEF D, M
<1>3. Told(v) = D \o M
  BY DEF Told, D, M, d, m
<1>4. D \o M \in Text
  BY <1>2 DEF Text
<1>5. CASE m = <<>>
  <2>1. Flushed(v) = d
    BY <1>5 DEF Flushed, d, m
  <2>2. M = <<>>
    BY <1>2, <1>5 DEF M
  <2>3. D \o <<>> = D
    BY <1>2, ConcatEmptySeq DEF Text
  <2>4. Within(D, D)
    BY <1>2, WithinItself
  <2>5. Told(v) = D
    BY <1>3, <2>2, <2>3
  <2>6. Within(Told(v), Said(TextsOf(Flushed(v))))
    BY <2>1, <2>4, <2>5 DEF D
  <2> QED
    BY <1>1, <1>3, <1>4, <2>1, <2>6
<1>6. CASE m # <<>>
  <2> DEFINE b == Head(m)
             j == Join(TextsOf(m), <<"/">>)
             sp == SplitTable(j, ParentSize)
             u == UnitsOf(b, sp)
  <2>1. b \in N
    BY <1>1, <1>6, HeadTailProperties
  <2>2. Flushed(v) = d \o u
    BY <1>6, Zenon DEF Flushed, d, m
  <2> HIDE DEF b, j, sp, u
  <2>3. j \in Text /\ Ink(j) = M
    <3> DEFINE p == TextsOf(m)
    <3>1. p \in Parts
      BY <1>2
    <3> HIDE DEF p
    <3>2. Join(p, <<"/">>) \in Text /\ Ink(Join(p, <<"/">>)) = Said(p)
      BY <3>1, BlankSeparators, JoinSays
    <3> QED
      BY <3>2 DEF j, M, p
  <2>4. sp \in Parts /\ Within(M, Said(sp))
    BY <2>3, TableSays DEF sp
  <2>5. u \in Seq(N) /\ TextsOf(u) = sp
    BY <2>1, <2>4, UnitsSay DEF u
  <2>6. d \o u \in Seq(N) /\ Said(TextsOf(d \o u)) = D \o Said(TextsOf(u))
    <3>1. \A x, y \in Seq(N) : Said(TextsOf(x \o y)) = Said(TextsOf(x)) \o Said(TextsOf(y)) /\ x \o y \in Seq(N)
      BY ListsSay
    <3> HIDE DEF N
    <3> QED
      BY <1>1, <2>5, <3>1 DEF D
  <2>7. Said(sp) \in Text
    BY <2>4, SaidOfParts, NothingIsLess
  <2>8. Within(D \o M, D \o Said(sp))
    <3>1. Within(D, D)
      BY <1>2, WithinItself
    <3> DEFINE z == Said(sp)
    <3>2. z \in Text /\ Within(M, z)
      BY <2>4, <2>7
    <3> HIDE DEF z
    <3>3. Within(D \o M, D \o z)
      BY <1>2, <3>1, <3>2, WithinJoins
    <3> QED
      BY <3>3 DEF z
  <2>9. Within(Told(v), Said(TextsOf(Flushed(v))))
    BY <1>3, <2>2, <2>5, <2>6, <2>8
  <2> QED
    BY <1>3, <1>4, <2>2, <2>6, <2>9
<1> QED
  BY <1>5, <1>6

\* A block is said by the units made so far, unless it is a page number.
LEMMA UnitStep ==
  ASSUME NEW PG, NEW SC, NEW TY, NEW v \in Made(PG, SC, TY), NEW b \in Noted(PG, SC, TY),
         NEW Y \in Text, Within(Y, Told(v))
  PROVE  /\ UnitAdd(v, b) \in Made(PG, SC, TY)
         /\ Within(IF IsArtifact(b.text) THEN Y ELSE Y \o Ink(b.text), Told(UnitAdd(v, b)))
<1> DEFINE N == Noted(PG, SC, TY)
           f == Flushed(v)
           F == Said(TextsOf(f))
           t == b.text
           ink == Ink(t)
           told == Told(v)
           w == UnitAdd(v, b)
           same == b.type = "table" /\ v.tables # <<>> /\ b.page = Head(v.tables).page
<1>1. v = [done |-> v.done, tables |-> v.tables] /\ v.done \in Seq(N) /\ v.tables \in Seq(N)
  BY DEF Made
<1>2. f \in Seq(N) /\ told \in Text /\ Within(told, F)
  BY FlushSays
<1>3. t \in Text /\ ink \in Text
  BY OneMoreSays, <1>1
<1>4. Said(TextsOf(<<>>)) = <<>> /\ <<>> \in Seq(N)
  <2>1. <<>> \in Seq(N)
    OBVIOUS
  <2> QED
    BY <1>1, <2>1, ListsSay
<1>5. w = IF same THEN [done |-> v.done, tables |-> Append(v.tables, b)]
          ELSE IF IsArtifact(t) THEN [done |-> f, tables |-> <<>>]
          ELSE IF b.type = "table" THEN [done |-> f, tables |-> <<b>>]
          ELSE [done |-> f \o UnitsOf(b, Stripped(Split(t, ParentSize, 0))), tables |-> <<>>]
  <2> HIDE DEF f
  <2>1. [v EXCEPT !.tables = Append(@, b)] = [done |-> v.done, tables |-> Append(v.tables, b)]
    <3>1. \A x : [v EXCEPT !.tables = x] = [done |-> v.done, tables |-> x]
      BY <1>1
    <3> QED
      BY Zenon, <3>1
  <2>2. w = IF same THEN [v EXCEPT !.tables = Append(@, b)]
            ELSE IF IsArtifact(t) THEN [done |-> f, tables |-> <<>>]
            ELSE IF b.type = "table" THEN [done |-> f, tables |-> <<b>>]
            ELSE [done |-> f \o UnitsOf(b, Stripped(Split(t, ParentSize, 0))), tables |-> <<>>]
    BY Zenon DEF UnitAdd, f
  <2> QED
    BY <2>1, <2>2
<1> HIDE DEF f, told, w, same
<1>6. F \in Text
  BY <1>2, <1>4, ListsSay
<1> HIDE DEF F
<1>7. Within(Y, F)
  BY <1>2, <1>6, WithinWithin DEF told
<1>8. \A x \in Text : x \o <<>> = x
  BY ConcatEmptySeq DEF Text
<1>9. \A x, y \in Text : x \o y \in Text
  BY DEF Text
<1> HIDE DEF ink
<1>10. CASE same
  <2>1. w = [done |-> v.done, tables |-> Append(v.tables, b)]
    BY <1>5, <1>10
  <2> DEFINE D == Said(TextsOf(v.done))
             M == Said(TextsOf(v.tables))
  <2>2. Append(v.tables, b) \in Seq(N) /\ Said(TextsOf(Append(v.tables, b))) = M \o ink
    <3> DEFINE m == v.tables
    <3>1. m \in Seq(N)
      BY <1>1
    <3> HIDE DEF m
    <3>2. Append(m, b) \in Seq(N)
      BY <3>1, OneMoreSays
    <3>3. Said(TextsOf(Append(m, b))) = Said(TextsOf(m)) \o Ink(b.text)
      BY <3>1, AppendSays
    <3> QED
      BY <3>2, <3>3 DEF ink, m
  <2>3. D \in Text /\ M \in Text
    BY <1>1, ListsSay
  <2>4. told = D \o M
    BY DEF told, Told
  <2> HIDE DEF D, M
  <2>5. Told(w) = D \o (M \o ink)
    BY <2>1, <2>2 DEF Told, D
  <2>6. D \o (M \o ink) = told \o ink
    <3>1. D \in Seq(Characters) /\ M \in Seq(Characters) /\ ink \in Seq(Characters)
      BY <1>3, <2>3 DEF Text
    <3>2. (D \o M) \o ink = D \o (M \o ink)
      BY <3>1, ConcatAssociative
    <3> QED
      BY <2>4, <3>2
  <2>7. Within(Y, told \o ink) /\ Within(Y \o ink, told \o ink)
    <3>1. Within(Y, told)
      BY DEF told
    <3>2. Within(ink, ink)
      BY <1>3, WithinItself
    <3>3. Within(Y, told \o ink)
      BY <1>2, <1>3, <3>1, WithinMore
    <3>4. Within(Y \o ink, told \o ink)
      BY <1>2, <1>3, <3>1, <3>2, WithinJoins
    <3> QED
      BY <3>3, <3>4
  <2>8. w \in Made(PG, SC, TY)
    BY <1>1, <2>1, <2>2 DEF Made
  <2> QED
    BY <2>5, <2>6, <2>7, <2>8 DEF w, ink
<1>11. CASE ~same /\ IsArtifact(t)
  <2>1. w = [done |-> f, tables |-> <<>>]
    BY <1>5, <1>11
  <2>2. w \in Made(PG, SC, TY)
    BY <1>2, <1>4, <2>1 DEF Made
  <2>3. Told(w) = F
    BY <1>4, <1>6, <1>8, <2>1 DEF Told, F
  <2> QED
    BY <1>7, <1>11, <2>2, <2>3 DEF w
<1>12. Within(Y \o ink, F \o ink)
  <2>1. Within(ink, ink)
    BY <1>3, WithinItself
  <2> QED
    BY <1>3, <1>6, <1>7, <2>1, WithinJoins
<1>13. CASE ~same /\ ~IsArtifact(t) /\ b.type = "table"
  <2>1. w = [done |-> f, tables |-> <<b>>]
    BY <1>5, <1>13
  <2>2. <<b>> \in Seq(N) /\ Said(TextsOf(<<b>>)) = ink
    BY <1>1, OneMoreSays DEF ink
  <2>3. w \in Made(PG, SC, TY)
    BY <1>2, <2>1, <2>2 DEF Made
  <2>4. Told(w) = F \o ink
    BY <2>1, <2>2 DEF Told, F
  <2> QED
    BY <1>12, <1>13, <2>3, <2>4 DEF w, ink
<1>14. CASE ~same /\ ~IsArtifact(t) /\ b.type # "table"
  <2> DEFINE q == Split(t, ParentSize, 0)
             p == Stripped(q)
             u == UnitsOf(b, p)
  <2>1. w = [done |-> f \o u, tables |-> <<>>]
    BY <1>5, <1>14
  <2>2. q \in Parts /\ Said(q) = ink
    BY <1>3, SplitSays DEF ink
  <2> HIDE DEF q
  <2>3. p \in Parts /\ Said(p) = ink
    BY <2>2, StrippedKeeps
  <2> HIDE DEF p
  <2>4. u \in Seq(N) /\ TextsOf(u) = p
    BY <2>3, UnitsSay
  <2> HIDE DEF u
  <2>5. f \o u \in Seq(N) /\ Said(TextsOf(f \o u)) = F \o Said(TextsOf(u))
    <3>1. \A x, y \in Seq(N) : Said(TextsOf(x \o y)) = Said(TextsOf(x)) \o Said(TextsOf(y)) /\ x \o y \in Seq(N)
      BY ListsSay
    <3> HIDE DEF N
    <3> QED
      BY <1>2, <2>4, <3>1 DEF F
  <2>6. w \in Made(PG, SC, TY)
    BY <1>4, <2>1, <2>5 DEF Made
  <2>7. Said(TextsOf(f \o u)) = F \o ink
    BY <2>3, <2>4, <2>5
  <2>8. F \o ink \in Text
    BY <1>3, <1>6, <1>9
  <2>9. Told(w) = F \o ink
    BY <1>4, <1>8, <2>1, <2>7, <2>8 DEF Told
  <2> QED
    BY <1>12, <1>14, <2>6, <2>9 DEF w, ink
<1> QED
  BY <1>10, <1>11, <1>13, <1>14

\* Units, one block after the other.
LEMMA UnitsFolds ==
  ASSUME NEW PG, NEW SC, NEW TY, NEW blocks \in Seq(Noted(PG, SC, TY))
  PROVE  \E g : /\ g \in [0..Len(blocks) -> Made(PG, SC, TY)]
                /\ g[0] = [done |-> <<>>, tables |-> <<>>]
                /\ Units(blocks) = Flushed(g[Len(blocks)])
                /\ \A k \in 1..Len(blocks) :
                     g[k] = UnitAdd(g[k - 1], blocks[k])
<1> DEFINE T == Made(PG, SC, TY)
           n == Len(blocks)
           base == [done |-> <<>>, tables |-> <<>>]
           op(v, k) == UnitAdd(v, blocks[k])
           step == [k \in 1..n |-> [v \in T |-> op(v, k)]]
           F(h) == [k \in 0..n |-> IF k = 0 THEN base ELSE op(h[k - 1], k)]
           g == CHOOSE h : h = F(h)
<1>1. Units(blocks) = Flushed(g[n])
  BY Zenon DEF Units, Along
<1>2. n \in Nat /\ base \in T
  BY DEF Made
<1>3. ASSUME NEW k \in 1..n, NEW v \in T PROVE op(v, k) \in T
  <2> DEFINE b == blocks[k]
  <2>1. b \in Noted(PG, SC, TY)
    OBVIOUS
  <2> HIDE DEF b
  <2>2. <<>> \in Text /\ Told(v) \in Text
    BY FlushSays, NothingIsLess
  <2>3. Within(<<>>, Told(v))
    BY <2>2, WithinItself
  <2>4. UnitAdd(v, b) \in Made(PG, SC, TY)
    BY <2>1, <2>2, <2>3, UnitStep
  <2> QED
    BY <2>4 DEF b
<1> HIDE DEF T, n, base, op
<1>4. step \in [1..n -> [T -> T]] /\ \A k \in 1..n : \A v \in T : step[k][v] = op(v, k)
  BY <1>3
<1> HIDE DEF step
<1>5. PICK f : Solves(f, n, T, base, step)
  BY <1>2, <1>4, RecursionHas
<1>6. f = F(f)
  <2>1. f = [k \in 0..n |-> f[k]] /\ f[0] = base
    BY <1>5 DEF Solves
  <2>2. ASSUME NEW k \in 0..n, k # 0 PROVE f[k] = op(f[k - 1], k)
    <3>1. k \in 1..n /\ k - 1 \in 0..n
      BY <1>2, <2>2
    <3>2. f[k - 1] \in T /\ f[k] = step[k][f[k - 1]]
      BY <1>5, <3>1 DEF Solves
    <3> QED
      BY <1>4, <3>1, <3>2
  <2>3. \A k \in 0..n : f[k] = IF k = 0 THEN base ELSE op(f[k - 1], k)
    BY <2>1, <2>2
  <2> QED
    BY <2>1, <2>3
<1>7. g = F(g)
  <2> HIDE DEF F
  <2> QED
    BY <1>6
<1> HIDE DEF g
<1>8. /\ g = [k \in 0..n |-> g[k]] /\ g[0] = base
      /\ \A k \in 1..n : g[k] = op(g[k - 1], k)
  <2>1. g = [k \in 0..n |-> g[k]] /\ g[0] = base
    BY <1>2, <1>7
  <2>2. \A k \in 0..n : g[k] = IF k = 0 THEN base ELSE op(g[k - 1], k)
    BY <1>7
  <2>3. \A k \in 1..n : k \in 0..n /\ k # 0
    BY <1>2
  <2> QED
    BY <2>1, <2>2, <2>3
<1>9. Solves(g, n, T, base, step)
  <2>1. \A k \in 1..n : g[k - 1] \in T => g[k] = step[k][g[k - 1]]
    BY <1>4, <1>8
  <2> HIDE DEF F
  <2> QED
    BY <1>2, <1>4, <1>8, <2>1, TheSolution
<1> QED
  BY <1>1, <1>8, <1>9 DEF Solves, T, n, base, op

\* The units say what the blocks say beside page numbers, in the order of the blocks.
LEMMA UnitsSayBlocks ==
  ASSUME NEW PG, NEW SC, NEW TY, NEW blocks \in Seq(Noted(PG, SC, TY))
  PROVE  /\ Units(blocks) \in Seq(Noted(PG, SC, TY))
         /\ TextsOf(Outside(blocks, {b \in ToSet(blocks) : IsArtifact(b.text)})) \in Parts
         /\ Within(Said(TextsOf(Outside(blocks, {b \in ToSet(blocks) : IsArtifact(b.text)}))),
                   Said(TextsOf(Units(blocks))))
<1> DEFINE N == Noted(PG, SC, TY)
           A == {b \in ToSet(blocks) : IsArtifact(b.text)}
           n == Len(blocks)
           kept(k) == Outside(SubSeq(blocks, 1, k), A)
           Y(k) == Said(TextsOf(kept(k)))
<1>1. PICK g : /\ g \in [0..n -> Made(PG, SC, TY)] /\ g[0] = [done |-> <<>>, tables |-> <<>>]
               /\ Units(blocks) = Flushed(g[n])
               /\ \A k \in 1..n : g[k] = UnitAdd(g[k - 1], blocks[k])
  BY UnitsFolds
<1>2. n \in Nat /\ blocks \in Seq(N)
  OBVIOUS
<1>3. \A k \in 1..n : blocks[k] \in N /\ (blocks[k] \in A <=> IsArtifact(blocks[k].text))
  BY DEF ToSet
<1> HIDE DEF A, N
<1>4. \A k \in 0..n : SubSeq(blocks, 1, k) \in Seq(N)
  BY <1>2, OneMore
<1> HIDE DEF n
<1>5. \A k \in 0..n : kept(k) \in Seq(N)
  BY <1>4, OutsideIsOne
<1>6. \A k \in 1..n : kept(k) = IF blocks[k] \in A THEN kept(k - 1) ELSE Append(kept(k - 1), blocks[k])
  <2> TAKE k \in 1..n
  <2> DEFINE s == SubSeq(blocks, 1, k - 1)
             e == blocks[k]
  <2>1. k - 1 \in 0..n
    BY <1>2
  <2>2. SubSeq(blocks, 1, k) = Append(s, e)
    BY <1>2, OneMore DEF n
  <2>3. s \in Seq(N) /\ e \in N
    BY <1>3, <1>4, <2>1
  <2> HIDE DEF s, e
  <2>4. Outside(Append(s, e), A) = IF e \in A THEN Outside(s, A) ELSE Append(Outside(s, A), e)
    BY <2>3, OutsideSnoc
  <2> QED
    BY <2>2, <2>4 DEF s, e
<1>7. kept(0) = <<>> /\ kept(n) = Outside(blocks, A)
  <2>1. SubSeq(blocks, 1, 0) = <<>> /\ SubSeq(blocks, 1, n) = blocks
    BY <1>2, OneMore DEF n
  <2>2. Outside(<<>>, A) = <<>>
    BY <1>2, OutsideIsOne
  <2> QED
    BY <2>1, <2>2
<1> HIDE DEF kept
<1>8. \A k \in 0..n : Y(k) \in Text /\ TextsOf(kept(k)) \in Parts
  BY <1>5, ListsSay DEF N
<1>9. Said(TextsOf(<<>>)) = <<>> /\ <<>> \in Seq(N)
  <2>1. <<>> \in Seq(N)
    OBVIOUS
  <2> QED
    BY <2>1, ListsSay DEF N
<1>10. \A k \in 1..n : Y(k) = IF IsArtifact(blocks[k].text) THEN Y(k - 1) ELSE Y(k - 1) \o Ink(blocks[k].text)
  <2> TAKE k \in 1..n
  <2> DEFINE x == kept(k - 1)
             e == blocks[k]
  <2>1. x \in Seq(N) /\ e \in N
    BY <1>2, <1>3, <1>5
  <2> HIDE DEF x, e
  <2>2. Said(TextsOf(Append(x, e))) = Said(TextsOf(x)) \o Ink(e.text)
    BY <2>1, AppendSays DEF N
  <2>3. kept(k) = IF IsArtifact(e.text) THEN x ELSE Append(x, e)
    BY <1>3, <1>6 DEF x, e
  <2> QED
    BY <2>2, <2>3 DEF x, e
<1>11. Y(0) = <<>>
  BY <1>7, <1>9
<1> HIDE DEF Y
<1> DEFINE P == {k \in 0..n : Within(Y(k), Told(g[k]))}
<1>12. 0 \in P
  <2>1. g[0] \in Made(PG, SC, TY) /\ 0 \in 0..n
    BY <1>1, <1>2
  <2> DEFINE z == Told(g[0])
  <2>2. z \in Text
    BY <2>1, FlushSays
  <2> HIDE DEF z
  <2>3. Within(<<>>, z)
    BY <2>2, NothingIsLess, WithinItself
  <2> QED
    BY <1>11, <2>1, <2>3 DEF z
<1>13. ASSUME NEW k \in 1..n, k - 1 \in P PROVE k \in P
  <2>1. k \in 0..n /\ k - 1 \in 0..n
    BY <1>2
  <2> DEFINE v == g[k - 1]
             b == blocks[k]
             y == Y(k - 1)
  <2>2. v \in Made(PG, SC, TY) /\ b \in Noted(PG, SC, TY) /\ y \in Text /\ Within(y, Told(v))
    BY <1>1, <1>3, <1>8, <1>13, <2>1 DEF Y, N
  <2>3. g[k] = UnitAdd(v, b) /\ Y(k) = IF IsArtifact(b.text) THEN y ELSE y \o Ink(b.text)
    BY <1>1, <1>10 DEF Y
  <2> HIDE DEF v, b, y
  <2>4. Within(IF IsArtifact(b.text) THEN y ELSE y \o Ink(b.text), Told(UnitAdd(v, b)))
    BY <2>2, UnitStep
  <2> QED
    BY <2>1, <2>3, <2>4
<1>14. \A k \in 0..n : k \in P
  <2> HIDE DEF P
  <2> QED
    BY <1>2, <1>12, <1>13, UpFrom
<1>15. Within(Y(n), Told(g[n])) /\ n \in 0..n
  BY <1>2, <1>14
<1>16. /\ Units(blocks) \in Seq(N) /\ Within(Y(n), Said(TextsOf(Units(blocks))))
  <2> DEFINE v == g[n]
             y == Y(n)
             z == Told(v)
             f == Flushed(v)
             F == Said(TextsOf(f))
  <2>1. v \in Made(PG, SC, TY) /\ y \in Text /\ Within(y, z)
    BY <1>1, <1>8, <1>15 DEF Y
  <2> HIDE DEF v, y
  <2>2. f \in Seq(N) /\ z \in Text /\ Within(z, F)
    BY <2>1, FlushSays DEF N
  <2> HIDE DEF z, f
  <2>3. F \in Text
    BY <2>2, ListsSay DEF N
  <2> HIDE DEF F
  <2>4. Within(y, F)
    BY <2>1, <2>2, <2>3, WithinWithin
  <2> QED
    BY <1>1, <2>2, <2>4 DEF f, v, y, F
<1> QED
  BY <1>7, <1>8, <1>15, <1>16 DEF N, A, Y

\* ParentGroups, one unit after the other.
LEMMA GroupsFolds ==
  ASSUME NEW S, NEW units \in Seq(S)
  PROVE  \E g : /\ g \in [0..Len(units) -> Seq(Seq(S))] /\ g[0] = <<>> /\ ParentGroups(units) = g[Len(units)]
                /\ \A k \in 1..Len(units) :
                     g[k] = IF g[k - 1] # <<>> /\ Fits(Last(g[k - 1]), units[k])
                            THEN Front(g[k - 1]) \o <<Append(Last(g[k - 1]), units[k])>> ELSE Append(g[k - 1], <<units[k]>>)
<1> DEFINE T == Seq(Seq(S))
           n == Len(units)
           base == <<>>
           op(v, k) == IF v # <<>> /\ Fits(Last(v), units[k])
                       THEN Front(v) \o <<Append(Last(v), units[k])>> ELSE Append(v, <<units[k]>>)
           step == [k \in 1..n |-> [v \in T |-> op(v, k)]]
           F(h) == [k \in 0..n |-> IF k = 0 THEN base ELSE op(h[k - 1], k)]
           g == CHOOSE h : h = F(h)
<1>1. ParentGroups(units) = g[n]
  BY Zenon DEF ParentGroups, Along
<1>2. n \in Nat /\ base \in T
  OBVIOUS
<1>3. ASSUME NEW k \in 1..n, NEW v \in T PROVE op(v, k) \in T
  <2> DEFINE e == units[k]
  <2>1. e \in S
    OBVIOUS
  <2> HIDE DEF e
  <2>2. Append(v, <<e>>) \in T
    BY <2>1
  <2>3. v # <<>> => Front(v) \o <<Append(Last(v), e)>> \in T
    BY <2>1, GrowsByOne
  <2> HIDE DEF T
  <2> QED
    BY <2>2, <2>3 DEF e
<1> HIDE DEF T, n, base, op
<1>4. step \in [1..n -> [T -> T]] /\ \A k \in 1..n : \A v \in T : step[k][v] = op(v, k)
  BY <1>3
<1> HIDE DEF step
<1>5. PICK f : Solves(f, n, T, base, step)
  BY <1>2, <1>4, RecursionHas
<1>6. f = F(f)
  <2>1. f = [k \in 0..n |-> f[k]] /\ f[0] = base
    BY <1>5 DEF Solves
  <2>2. ASSUME NEW k \in 0..n, k # 0 PROVE f[k] = op(f[k - 1], k)
    <3>1. k \in 1..n /\ k - 1 \in 0..n
      BY <1>2, <2>2
    <3>2. f[k - 1] \in T /\ f[k] = step[k][f[k - 1]]
      BY <1>5, <3>1 DEF Solves
    <3> QED
      BY <1>4, <3>1, <3>2
  <2>3. \A k \in 0..n : f[k] = IF k = 0 THEN base ELSE op(f[k - 1], k)
    BY <2>1, <2>2
  <2> QED
    BY <2>1, <2>3
<1>7. g = F(g)
  <2> HIDE DEF F
  <2> QED
    BY <1>6
<1> HIDE DEF g
<1>8. /\ g = [k \in 0..n |-> g[k]] /\ g[0] = base
      /\ \A k \in 1..n : g[k] = op(g[k - 1], k)
  <2>1. g = [k \in 0..n |-> g[k]] /\ g[0] = base
    BY <1>2, <1>7
  <2>2. \A k \in 0..n : g[k] = IF k = 0 THEN base ELSE op(g[k - 1], k)
    BY <1>7
  <2>3. \A k \in 1..n : k \in 0..n /\ k # 0
    BY <1>2
  <2> QED
    BY <2>1, <2>2, <2>3
<1>9. Solves(g, n, T, base, step)
  <2>1. \A k \in 1..n : g[k - 1] \in T => g[k] = step[k][g[k - 1]]
    BY <1>4, <1>8
  <2> HIDE DEF F
  <2> QED
    BY <1>2, <1>4, <1>8, <2>1, TheSolution
<1> QED
  BY <1>1, <1>8, <1>9 DEF Solves, T, n, base, op

\* The groups are the units, in their order.
LEMMA GroupsKeep ==
  ASSUME NEW S, NEW units \in Seq(S)
  PROVE  ParentGroups(units) \in Seq(Seq(S)) /\ FlattenSeq(ParentGroups(units)) = units
<1> DEFINE n == Len(units)
           T == Seq(Seq(S))
<1>1. PICK g : /\ g \in [0..n -> T] /\ g[0] = <<>> /\ ParentGroups(units) = g[n]
               /\ \A k \in 1..n :
                    g[k] = IF g[k - 1] # <<>> /\ Fits(Last(g[k - 1]), units[k])
                           THEN Front(g[k - 1]) \o <<Append(Last(g[k - 1]), units[k])>>
                           ELSE Append(g[k - 1], <<units[k]>>)
  BY GroupsFolds
<1>2. n \in Nat
  OBVIOUS
<1> HIDE DEF n
<1> DEFINE P == {k \in 0..n : FlattenSeq(g[k]) = SubSeq(units, 1, k)}
<1>3. 0 \in P
  <2>1. SubSeq(units, 1, 0) = <<>>
    BY OneMore
  <2>2. FlattenSeq(<<>>) = <<>>
    <3>1. <<>> \in Seq(Seq(S))
      OBVIOUS
    <3> QED
      BY <3>1, FlattenIsOne
  <2> QED
    BY <1>1, <1>2, <2>1, <2>2
<1>4. ASSUME NEW k \in 1..n, k - 1 \in P PROVE k \in P
  <2> DEFINE v == g[k - 1]
             e == units[k]
  <2>1. k \in 0..n /\ k - 1 \in 0..n
    BY <1>2
  <2>2. v \in T
    BY <1>1, <2>1
  <2>3. e \in S /\ SubSeq(units, 1, k) = Append(SubSeq(units, 1, k - 1), e)
    BY OneMore DEF n
  <2>4. FlattenSeq(v) = SubSeq(units, 1, k - 1)
    BY <1>4
  <2>5. g[k] = IF v # <<>> /\ Fits(Last(v), e) THEN Front(v) \o <<Append(Last(v), e)>> ELSE Append(v, <<e>>)
    BY <1>1
  <2> HIDE DEF v, e
  <2>6. v # <<>> => FlattenSeq(Front(v) \o <<Append(Last(v), e)>>) = Append(FlattenSeq(v), e)
    BY <2>2, <2>3, GrowsByOne
  <2>7. FlattenSeq(Append(v, <<e>>)) = Append(FlattenSeq(v), e)
    <3>1. <<e>> \in Seq(S)
      BY <2>3
    <3>2. FlattenSeq(Append(v, <<e>>)) = FlattenSeq(v) \o <<e>>
      BY <2>2, <3>1, FlattenSnoc
    <3> DEFINE z == FlattenSeq(v)
    <3>3. z \in Seq(S)
      BY <2>2, FlattenIsOne
    <3> HIDE DEF z
    <3>4. Append(z, e) = z \o <<e>>
      BY <2>3, <3>3, AppendIsConcat
    <3> QED
      BY <3>2, <3>4 DEF z
  <2>8. FlattenSeq(g[k]) = Append(FlattenSeq(v), e)
    BY <2>5, <2>6, <2>7
  <2> QED
    BY <2>1, <2>3, <2>4, <2>8
<1>5. \A k \in 0..n : k \in P
  <2> HIDE DEF P
  <2> QED
    BY <1>2, <1>3, <1>4, UpFrom
<1>6. n \in 0..n /\ SubSeq(units, 1, n) = units
  BY <1>2, OneMore DEF n
<1> QED
  BY <1>1, <1>5, <1>6

\* Parts that say each what a group says, say together what the groups say.
LEMMA GroupsSay ==
  ASSUME NEW PG, NEW SC, NEW TY, NEW groups \in Seq(Seq(Noted(PG, SC, TY))), NEW q \in Parts,
         Len(q) = Len(groups), \A k \in 1..Len(groups) : Ink(q[k]) = Said(TextsOf(groups[k]))
  PROVE  Said(q) = Said(TextsOf(FlattenSeq(groups)))
<1> DEFINE N == Noted(PG, SC, TY)
           Z == Seq(N)
           n == Len(groups)
           flat(k) == FlattenSeq(SubSeq(groups, 1, k))
           R(k) == Said(TextsOf(flat(k)))
           L(k) == Said(SubSeq(q, 1, k))
<1>1. groups \in Seq(Z) /\ n \in Nat /\ q \in Seq(Text) /\ Len(q) = n
  BY DEF Parts
<1>2. \A x, y \in Seq(N) : Said(TextsOf(x \o y)) = Said(TextsOf(x)) \o Said(TextsOf(y))
  BY ListsSay
<1>3. Said(TextsOf(<<>>)) = <<>>
  <2>1. <<>> \in Seq(N)
    OBVIOUS
  <2> QED
    BY <2>1, ListsSay
<1> HIDE DEF N, Z, n
<1>4. /\ \A k \in 0..n : SubSeq(groups, 1, k) \in Seq(Z)
      /\ \A k \in 1..n : groups[k] \in Z /\ SubSeq(groups, 1, k) = Append(SubSeq(groups, 1, k - 1), groups[k])
      /\ SubSeq(groups, 1, 0) = <<>> /\ SubSeq(groups, 1, n) = groups
  BY <1>1, OneMore DEF n
<1>5. /\ \A k \in 0..n : SubSeq(q, 1, k) \in Parts
      /\ \A k \in 1..n : q[k] \in Text /\ SubSeq(q, 1, k) = Append(SubSeq(q, 1, k - 1), q[k])
      /\ SubSeq(q, 1, 0) = <<>> /\ SubSeq(q, 1, n) = q
  BY <1>1, OneMore DEF Parts
<1>6. flat(0) = <<>> /\ \A k \in 0..n : flat(k) \in Z
  <2>1. \A s \in Seq(Seq(N)) : FlattenSeq(s) \in Seq(N) /\ FlattenSeq(<<>>) = <<>>
    BY FlattenIsOne
  <2>2. SubSeq(groups, 1, 0) \in Seq(Z) /\ 0 \in 0..n
    BY <1>1, <1>4
  <2> QED
    BY <1>4, <2>1, <2>2 DEF Z
<1>7. \A k \in 1..n : R(k) = R(k - 1) \o Said(TextsOf(groups[k]))
  <2> TAKE k \in 1..n
  <2> DEFINE s == SubSeq(groups, 1, k - 1)
             e == groups[k]
  <2>1. k - 1 \in 0..n
    BY <1>1
  <2>2. s \in Seq(Seq(N)) /\ e \in Seq(N) /\ SubSeq(groups, 1, k) = Append(s, e)
    BY <1>4, <2>1 DEF Z
  <2> HIDE DEF s, e
  <2>3. FlattenSeq(Append(s, e)) = FlattenSeq(s) \o e
    BY <2>2, FlattenSnoc
  <2> DEFINE z == FlattenSeq(s)
  <2>4. z \in Seq(N)
    BY <2>2, FlattenIsOne
  <2> HIDE DEF z
  <2>5. Said(TextsOf(z \o e)) = Said(TextsOf(z)) \o Said(TextsOf(e))
    BY <1>2, <2>2, <2>4
  <2> QED
    BY <2>2, <2>3, <2>5 DEF s, e, z
<1>8. R(0) = <<>>
  BY <1>3, <1>6
<1> HIDE DEF R
<1>9. \A k \in 1..n : L(k) = L(k - 1) \o Ink(q[k])
  <2> TAKE k \in 1..n
  <2> DEFINE s == SubSeq(q, 1, k - 1)
             e == q[k]
  <2>1. k - 1 \in 0..n
    BY <1>1
  <2>2. s \in Parts /\ e \in Text /\ SubSeq(q, 1, k) = Append(s, e)
    BY <1>5, <2>1
  <2> HIDE DEF s, e
  <2>3. Said(Append(s, e)) = Said(s) \o Ink(e)
    BY <2>2, SaidOfParts
  <2> QED
    BY <2>2, <2>3 DEF s, e
<1>10. L(0) = <<>>
  <2>1. <<>> \in Parts
    BY DEF Parts
  <2>2. Said(<<>>) = <<>>
    BY <2>1, NothingIsLess, SaidOfParts
  <2> QED
    BY <1>5, <2>2
<1> HIDE DEF L
<1> DEFINE P == {k \in 0..n : L(k) = R(k)}
<1>11. 0 \in P
  BY <1>1, <1>8, <1>10
<1>12. ASSUME NEW k \in 1..n, k - 1 \in P PROVE k \in P
  <2>1. k \in 0..n /\ L(k - 1) = R(k - 1)
    BY <1>1, <1>12
  <2>2. Ink(q[k]) = Said(TextsOf(groups[k]))
    BY DEF n
  <2> QED
    BY <1>7, <1>9, <2>1, <2>2
<1>13. \A k \in 0..n : k \in P
  <2> HIDE DEF P
  <2> QED
    BY <1>1, <1>11, <1>12, UpFrom
<1>14. n \in 0..n
  BY <1>1
<1>15. L(n) = R(n)
  BY <1>13, <1>14
<1> QED
  BY <1>4, <1>5, <1>15 DEF L, R

\* What the parents of a PDF say, and how they follow from its groups.
ParentText(group) == Strip(Join(TextsOf(group), <<"/", "/">>))

\* The text of a parent says what the units of its group say.
LEMMA ParentSays ==
  ASSUME NEW PG, NEW SC, NEW TY, NEW group \in Seq(Noted(PG, SC, TY))
  PROVE  ParentText(group) \in Text /\ Ink(ParentText(group)) = Said(TextsOf(group))
<1> DEFINE p == TextsOf(group)
           j == Join(p, <<"/", "/">>)
<1>1. p \in Parts
  BY ListsSay
<1> HIDE DEF p
<1>2. j \in Text /\ Ink(j) = Said(p)
  BY <1>1, BlankSeparators, JoinSays
<1> HIDE DEF j
<1>3. Strip(j) \in Text /\ Ink(Strip(j)) = Ink(j)
  BY <1>2, StripKeepsInk
<1> QED
  BY <1>2, <1>3 DEF ParentText, j, p

\* The parents say what the units of all groups say, in their order.
LEMMA ParentsSay ==
  ASSUME NEW PG, NEW SC, NEW TY, NEW groups \in Seq(Seq(Noted(PG, SC, TY)))
  PROVE  /\ [k \in DOMAIN groups |-> ParentText(groups[k])] \in Parts
         /\ Said([k \in DOMAIN groups |-> ParentText(groups[k])]) = Said(TextsOf(FlattenSeq(groups)))
<1> DEFINE N == Noted(PG, SC, TY)
           n == Len(groups)
           q == [k \in DOMAIN groups |-> ParentText(groups[k])]
<1>1. n \in Nat /\ DOMAIN groups = 1..n /\ \A k \in 1..n : groups[k] \in Seq(N)
  OBVIOUS
<1>2. \A k \in 1..n : ParentText(groups[k]) \in Text /\ Ink(ParentText(groups[k])) = Said(TextsOf(groups[k]))
  BY <1>1, ParentSays
<1>3. q = [k \in 1..n |-> ParentText(groups[k])]
  BY <1>1
<1> HIDE DEF q, n
<1>4. q \in Seq(Text) /\ Len(q) = n
  BY <1>1, <1>2, <1>3
<1>5. \A k \in 1..n : Ink(q[k]) = Said(TextsOf(groups[k]))
  BY <1>2, <1>3
<1>6. Said(q) = Said(TextsOf(FlattenSeq(groups)))
  BY <1>4, <1>5, GroupsSay DEF n, Parts
<1> QED
  BY <1>4, <1>6 DEF q, Parts

\* SplitPdf keeps what the pages say beside page numbers, headers and footers.
LEMMA PdfSays ==
  ASSUME NEW pages \in Seq(Seq(Fragments))
  PROVE  LET blocks == Blocks(StripBoundaries(pages))
             said == Outside(blocks, {b \in ToSet(blocks) : IsArtifact(b.text)})
         IN IsWithin(Ink(FlattenSeq(TextsOf(said))), Ink(FlattenSeq(TextsOf(SplitPdf(pages).parents))))
<1> DEFINE stripped == StripBoundaries(pages)
           blocks == Blocks(stripped)
           said == Outside(blocks, {b \in ToSet(blocks) : IsArtifact(b.text)})
           units == Units(blocks)
           groups == ParentGroups(units)
           q == [k \in DOMAIN groups |-> ParentText(groups[k])]
           X == Said(TextsOf(said))
           U == Said(TextsOf(units))
<1>1. SplitPdf(pages).parents =
        [k \in DOMAIN groups |->
           [text |-> ParentText(groups[k]),
            pages |-> {groups[k][j].page : j \in DOMAIN groups[k]},
            type |-> IF \E u \in ToSet(groups[k]) : u.type # Head(groups[k]).type
                     THEN "paragraph" ELSE Head(groups[k]).type]]
  <2> DEFINE top == [k \in DOMAIN groups |->
                           [text |-> ParentText(groups[k]),
                            pages |-> {groups[k][j].page : j \in DOMAIN groups[k]},
                            type |-> IF \E u \in ToSet(groups[k]) : u.type # Head(groups[k]).type
                                     THEN "paragraph" ELSE Head(groups[k]).type]]
             children == [k \in DOMAIN groups |-> PdfChildren(groups[k])]
  <2>1. SplitPdf(pages) = [parents |-> top, children |-> children]
    BY Zenon DEF SplitPdf, PdfUnits, ParentText
  <2> HIDE DEF top, children
  <2>2. SplitPdf(pages).parents = top
    BY <2>1
  <2> QED
    BY <2>2 DEF top
<1>2. stripped \in Seq(Seq(Fragments))
  BY PagesAreStripped
<1> HIDE DEF stripped
<1>3. PICK PG, SC, TY : blocks \in Seq(Noted(PG, SC, TY))
  BY <1>2, BlocksAreNoted
<1> DEFINE N == Noted(PG, SC, TY)
<1> HIDE DEF blocks
<1>4. units \in Seq(N) /\ TextsOf(said) \in Parts /\ Within(X, U)
  BY <1>3, UnitsSayBlocks
<1> HIDE DEF units
<1>5. groups \in Seq(Seq(N)) /\ FlattenSeq(groups) = units
  BY <1>4, GroupsKeep
<1> HIDE DEF groups
<1>6. q \in Parts /\ Said(q) = U
  BY <1>5, ParentsSay
<1>7. TextsOf(SplitPdf(pages).parents) = q
  <2> DEFINE pp(k) == {groups[k][j].page : j \in DOMAIN groups[k]}
             ty(k) == IF \E u \in ToSet(groups[k]) : u.type # Head(groups[k]).type
                      THEN "paragraph" ELSE Head(groups[k]).type
             r == SplitPdf(pages).parents
  <2>1. r = [k \in DOMAIN groups |-> [text |-> ParentText(groups[k]), pages |-> pp(k), type |-> ty(k)]]
    BY <1>1
  <2> HIDE DEF pp, ty, r
  <2>2. DOMAIN r = DOMAIN groups /\ \A k \in DOMAIN groups : r[k].text = ParentText(groups[k])
    BY <2>1
  <2>3. [k \in DOMAIN r |-> r[k].text] = q
    BY <2>2
  <2> QED
    BY <2>3 DEF TextsOf, r
<1>8. X \in Text /\ U \in Text
  <2>1. X \in Text
    <3> DEFINE p == TextsOf(said)
    <3>1. p \in Parts
      BY <1>4
    <3> HIDE DEF p
    <3>2. Said(p) \in Text
      BY <3>1, NothingIsLess, SaidOfParts
    <3> QED
      BY <3>2 DEF p
  <2>2. U \in Text
    BY <1>4, ListsSay
  <2> QED
    BY <2>1, <2>2
<1> HIDE DEF q
<1>9. IsWithin(X, Said(q))
  <2> HIDE DEF X, U
  <2>1. IsWithin(X, U)
    BY <1>4, <1>8, WithinIsFound
  <2> QED
    BY <1>6, <2>1
<1>10. IsWithin(Ink(FlattenSeq(TextsOf(said))), Ink(FlattenSeq(TextsOf(SplitPdf(pages).parents))))
  BY <1>7, <1>9 DEF Said
<1> HIDE DEF said
<1> QED
  BY <1>10 DEF said, blocks, stripped

\* SplitText reads back on both levels.
LEMMA TextSays ==
  ASSUME NEW t \in Text
  PROVE  LET made == SplitText(t)
         IN /\ ReadsBack(made.parents, 2 * ChunkOverlap, t)
            /\ \A k \in DOMAIN made.parents : ReadsBack(made.children[k], ChunkOverlap, made.parents[k])
<1> DEFINE top == Split(t, ParentSize, 2 * ChunkOverlap)
           children == [k \in DOMAIN top |-> Split(top[k], ChunkSize, ChunkOverlap)]
<1>1. ChunkOverlap \in Nat /\ 2 * ChunkOverlap \in Nat
  BY SizesAssumption
<1>2. top \in Parts /\ ReadsBack(top, 2 * ChunkOverlap, t)
  BY <1>1, SplitReadsBack
<1>3. SplitText(t) = [parents |-> top, children |-> children]
  BY Zenon DEF SplitText
<1> HIDE DEF top
<1>4. \A k \in DOMAIN top : top[k] \in Text
  BY <1>2 DEF Parts
<1>5. \A k \in DOMAIN top : ReadsBack(Split(top[k], ChunkSize, ChunkOverlap), ChunkOverlap, top[k])
  BY <1>1, <1>4, SplitReadsBack
<1>6. \A k \in DOMAIN top : children[k] = Split(top[k], ChunkSize, ChunkOverlap)
  OBVIOUS
<1> HIDE DEF children
<1>7. SplitText(t).parents = top /\ SplitText(t).children = children
  BY <1>3
<1> QED
  BY <1>2, <1>5, <1>6, <1>7

(* NothingIsLost: the pieces are those of the source, and the source is one *)
(* of the texts or documents that there are.                                *)
Sourced ==
  \/ source.kind = "text" /\ source.body \in Text
  \/ source.kind = "pdf" /\ source.body \in Seq(Seq(Fragments))
SplitOf(s) == IF s.kind = "text" THEN SplitText(s.body) ELSE SplitPdf(s.body)
PiecesOfSource == Sourced /\ (pieces = NotSplit \/ pieces = SplitOf(source))

\* Splitting the source makes its pieces, and nothing else changes.
LEMMA PiecesOfSourceStep == PiecesOfSource /\ [SplitSource]_chunkingVars => PiecesOfSource'
<1> SUFFICES ASSUME PiecesOfSource, [SplitSource]_chunkingVars PROVE PiecesOfSource'
  OBVIOUS
<1>1. CASE SplitSource
  <2>1. source' = source /\ pieces' = SplitOf(source)
    BY <1>1 DEF SplitSource, SplitOf
  <2> QED
    BY <2>1 DEF PiecesOfSource, Sourced
<1>2. CASE UNCHANGED chunkingVars
  BY <1>2 DEF chunkingVars, PiecesOfSource, Sourced
<1> QED
  BY <1>1, <1>2

\* Pieces made of their source have lost nothing of it.
LEMMA PiecesLoseNothing == PiecesOfSource => NothingIsLost
<1> SUFFICES ASSUME PiecesOfSource, pieces # NotSplit PROVE NothingIsLost
  BY Zenon DEF NothingIsLost
<1>1. pieces = SplitOf(source)
  BY DEF PiecesOfSource
<1>2. CASE source.kind = "text"
  <2>1. source.body \in Text
    BY <1>2 DEF PiecesOfSource, Sourced
  <2>2. pieces = SplitText(source.body)
    BY <1>1, <1>2 DEF SplitOf
  <2> QED
    BY <1>2, <2>1, <2>2, TextSays, Zenon DEF NothingIsLost
<1>3. CASE source.kind # "text"
  <2>1. source.body \in Seq(Seq(Fragments))
    BY <1>3 DEF PiecesOfSource, Sourced
  <2>2. pieces = SplitPdf(source.body)
    BY <1>1, <1>3 DEF SplitOf
  <2> QED
    BY <1>3, <2>1, <2>2, PdfSays, Zenon DEF NothingIsLost
<1> QED
  BY <1>2, <1>3

\* However a text or a PDF is split (RecursiveSplitter, ParentChildSplitter and the
\* PDF parser), nothing of it is lost: the pieces of a text read back as the text on
\* both levels once their overlaps are taken off, and what a PDF says beside page
\* numbers and repeated boundaries is in its parents in the order of the pages, for
\* every text, document and size.
THEOREM NothingIsEverLost == ChunkingSpec => []NothingIsLost
<1>1. ChunkingInit => PiecesOfSource
  <2> SUFFICES ASSUME ChunkingInit PROVE PiecesOfSource
    OBVIOUS
  <2>1. Sourced
    <3>1. CASE source \in {[kind |-> "text", body |-> t] : t \in Texts}
      <4>1. PICK t \in Texts : source = [kind |-> "text", body |-> t]
        BY <3>1
      <4>2. t \in Text
        BY SourcesAssumption DEF Text
      <4>3. source.kind = "text" /\ source.body = t
        BY <4>1
      <4> QED
        BY <4>2, <4>3 DEF Sourced
    <3>2. CASE source \in {[kind |-> "pdf", body |-> d] : d \in Documents}
      <4>1. PICK d \in Documents : source = [kind |-> "pdf", body |-> d]
        BY <3>2
      <4>2. d \in Seq(Seq(Fragments))
        BY Zenon, SourcesAssumption DEF Text, Parts, Fragments
      <4>3. source.kind = "pdf" /\ source.body = d
        BY <4>1
      <4> QED
        BY <4>2, <4>3 DEF Sourced
    <3> QED
      BY <3>1, <3>2 DEF ChunkingInit
  <2> QED
    BY <2>1 DEF ChunkingInit, PiecesOfSource
<1>2. PiecesOfSource /\ [SplitSource]_chunkingVars => PiecesOfSource'
  BY PiecesOfSourceStep
<1> QED
  BY <1>1, <1>2, PiecesLoseNothing, PTL DEF ChunkingSpec

=============================================================================
