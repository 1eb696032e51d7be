----------------------------- MODULE Knowledge -----------------------------
(***************************************************************************)
(* The knowledge base: the manifest of imported documents                  *)
(* (trade_rag/knowledge_repository.py), the single PDF worker              *)
(* (pdf_ingestion.py), the requests of the Web console that touch it       *)
(* (channels/web.py), the derived search index (pipeline.py) and the       *)
(* reconciliation that the search server runs before every query and the   *)
(* Web process once at its start (sqlite_index.py, server.py).             *)
(*                                                                         *)
(* A document is one import of a source: revoking a source and importing   *)
(* it again makes the next generation, with an identifier of its own.  An  *)
(* operation of the repository runs under its lock and is one step; what   *)
(* the code does outside the lock (parsing, splitting, writing the index)  *)
(* lies between two steps.  The three stores of the pipeline are written   *)
(* and deleted together and are one index here, whose entry for a document *)
(* is the classification it was built with; "marks" holds the fingerprints *)
(* the reconciliation remembers, of which only the classification moves.   *)
(***************************************************************************)
EXTENDS Naturals, Sequences, FiniteSets, Functions

CONSTANTS Sources,        \* contents somebody may import
          Imported,       \* the classifications an import may give
          Kinds,          \* the kinds a source may be of
          MaxGeneration,  \* imports of one source
          MaxEdits,       \* classifications and retries
          MaxKnowledgeFaults       \* crashes, damaged files, failed steps

ASSUME KnowledgeAssumption ==
    /\ IsFiniteSet(Sources) /\ Sources # {} /\ MaxGeneration \in Nat \ {0}
    /\ Imported \subseteq {"internal", "public"} /\ Kinds \subseteq {"pdf", "text", "image"}
    /\ MaxEdits \in Nat /\ MaxKnowledgeFaults \in Nat

Classes == {"internal", "public"}
Docs == Sources \X (1..MaxGeneration)

VARIABLES kind,      \* Sources -> Kinds
          rows,      \* the manifest
          damaged,   \* documents whose stored file no longer has its hash
          store,     \* the search index: what each document is found as
          marks,     \* the fingerprints of the reconciliation
          queue,     \* the worker's queue
          queued,    \* the identifiers it will not queue twice
          job,       \* what the worker and a Web request are doing
          search,    \* the search server
          up,        \* the Web process has started
          retried,   \* documents somebody asked to retry
          torn,      \* documents taken out of the index and not rebuilt, or built
                      \* as they were classified before
          edits, knowledgeFaults

vars == <<kind, rows, damaged, store, marks, queue, queued, job, search, up,
          retried, torn, edits, knowledgeFaults>>

Absent == [status |-> "none", parse |-> "pending", chunk |-> "pending",
           index |-> "pending", class |-> "internal"]
NoJob == [at |-> "idle", doc |-> CHOOSE d \in Docs : TRUE, class |-> "internal"]
NoSearch == [at |-> "idle", active |-> {}, stale |-> {}, changed |-> <<>>,
             gone |-> {}, disturbed |-> {}]

KnowledgeInit ==
    /\ kind \in [Sources -> Kinds]
    /\ rows = [d \in Docs |-> Absent]
    /\ damaged = {} /\ retried = {} /\ torn = {} /\ queued = {} /\ queue = <<>>
    /\ store = [d \in Docs |-> "none"] /\ marks = [d \in Docs |-> "none"]
    /\ job = [a \in {"worker", "web"} |-> NoJob]
    /\ search = NoSearch /\ up = TRUE /\ edits = 0 /\ knowledgeFaults = 0

-----------------------------------------------------------------------------
(* Reading the manifest. *)

KindOf(d) == kind[d[1]]
Withdrawn == {"revoked", "revoke_pending"}

\* Every read upgrades the rows first: one whose file is missing or altered
\* has all its stages failed, unless it is revoked.
Row(d) == IF d \in damaged /\ rows[d].status \notin {"none", "revoked"}
          THEN [rows[d] EXCEPT !.parse = "failed", !.chunk = "failed", !.index = "failed"]
          ELSE rows[d]
Stages(r) == {r.parse, r.chunk, r.index}
Prepared(r) == r.parse = "ready" /\ r.chunk = "ready"

\* list_pdf_processing_candidates.
Unfinished(d) ==
    /\ KindOf(d) = "pdf"
    /\ Row(d).status \in {"draft", "published"}
    /\ "failed" \notin Stages(Row(d))
    /\ Stages(Row(d)) \cap {"pending", "running"} # {}

\* load_published and list_pdf_index_candidates: what the index should hold.
Active(d) ==
    /\ Row(d).status = "published" /\ Prepared(Row(d))
    /\ Row(d).index \in {"pending", "indexed"}

\* Import refuses a content whose document is not revoked.
Current(s) == {d \in Docs : d[1] = s /\ rows[d].status \notin {"none", "revoked"}}
NextDoc(s) == <<s, 1 + Cardinality({d \in Docs : d[1] = s /\ rows[d].status # "none"})>>

SetRow(d, r) == rows' = [rows EXCEPT ![d] = r]
Does(a, at) == job' = [job EXCEPT ![a] =
                         IF at = "idle" THEN NoJob
                         ELSE [@ EXCEPT !.at = at,
                                        !.class = IF at = "write" THEN job[a].class ELSE "internal"]]
Begins(at, d) == job' = [job EXCEPT !["web"] = [NoJob EXCEPT !.at = at, !.doc = d]]
Takes(a, at, d, c) == job' = [job EXCEPT ![a] = [at |-> at, doc |-> d, class |-> c]]

\* The documents the search under way can no longer vouch for.
Disturbed(ds) == search' = [search EXCEPT !.disturbed =
                              IF search.at = "idle" THEN @ ELSE @ \cup ds]
Fails == knowledgeFaults < MaxKnowledgeFaults /\ knowledgeFaults' = knowledgeFaults + 1
Edit == edits < MaxEdits /\ edits' = edits + 1

-----------------------------------------------------------------------------
(* Imports, decisions and retries: the Web console. *)

WebMay == up /\ job["web"].at = "idle"

\* stage_pdf: the source is kept and the document queued afterwards.  A text
\* is published at once; an image when its text was recognised with confidence.
Import(s, c) ==
    /\ WebMay /\ Current(s) = {} /\ NextDoc(s) \in Docs
    /\ LET d == NextDoc(s)
           Publishes(next) == /\ SetRow(d, [Absent EXCEPT !.status = "published",
                                   !.parse = "ready", !.chunk = "ready", !.class = c])
                              /\ IF next = "idle" THEN UNCHANGED job ELSE Begins(next, d)
       IN \/ /\ kind[s] = "pdf"
             /\ SetRow(d, [Absent EXCEPT !.status = "draft", !.class = c])
             /\ Begins("enqueue", d)
          \/ kind[s] = "text" /\ Publishes("idle")
          \/ kind[s] = "image" /\ Publishes("index")
          \/ /\ kind[s] = "image"
             /\ SetRow(d, [Absent EXCEPT !.status = "review_required",
                             !.parse = "ready", !.class = c])
             /\ UNCHANGED job
    /\ UNCHANGED <<kind, damaged, store, marks, queue, queued, search, up, retried,
                   torn, edits, knowledgeFaults>>

\* PdfIngestionCoordinator.enqueue: not while the worker still has it.
Enqueue ==
    /\ job["web"].at = "enqueue"
    /\ LET d == job["web"].doc IN
         IF d \in queued THEN UNCHANGED <<queue, queued>>
         ELSE queue' = Append(queue, d) /\ queued' = queued \cup {d}
    /\ Does("web", "idle")
    /\ UNCHANGED <<kind, rows, damaged, store, marks, search, up, retried, torn, edits, knowledgeFaults>>

\* approve_review publishes the row; the same request indexes it.
ApproveReview(d) ==
    /\ WebMay /\ Row(d).status = "review_required" /\ Row(d).parse = "ready"
    /\ SetRow(d, [Row(d) EXCEPT !.status = "published", !.chunk = "ready",
                    !.index = "pending"])
    /\ Begins("index", d)
    /\ UNCHANGED <<kind, damaged, store, marks, queue, queued, search, up, retried,
                   torn, edits, knowledgeFaults>>

\* set_classification; an indexed PDF or image is taken out and built again.
Classify(d, c) ==
    /\ WebMay /\ Edit /\ Row(d).status \notin {"none", "revoked"}
    /\ SetRow(d, [Row(d) EXCEPT !.class = c])
    /\ IF KindOf(d) # "text" /\ Row(d).index = "indexed"
       THEN Begins("clear", d) /\ UNCHANGED torn
       ELSE torn' = torn \cup ({d} \ {e \in Docs : KindOf(e) = "text"}) /\ UNCHANGED job
    /\ Disturbed({d})
    /\ UNCHANGED <<kind, damaged, store, marks, queue, queued, up, retried, knowledgeFaults>>

Clear ==
    /\ job["web"].at = "clear"
    /\ store' = [store EXCEPT ![job["web"].doc] = "none"]
    /\ Does("web", "index") /\ Disturbed({job["web"].doc})
    /\ UNCHANGED <<kind, rows, damaged, marks, queue, queued, up, retried, torn, edits, knowledgeFaults>>

\* prepare_pdf_retry: the earliest failed stage is due again.
RetryPdf(d) ==
    /\ WebMay /\ Edit /\ KindOf(d) = "pdf"
    /\ Row(d).status \notin Withdrawn \cup {"none"} /\ "failed" \in Stages(Row(d))
    /\ LET r == [Row(d) EXCEPT !.status = "draft", !.index = "pending"] IN
         SetRow(d, CASE r.parse = "failed" -> [r EXCEPT !.parse = "pending", !.chunk = "pending"]
                     [] r.parse # "failed" /\ r.chunk = "failed" -> [r EXCEPT !.chunk = "pending"]
                     [] OTHER -> r)
    /\ Begins("enqueue", d) /\ retried' = retried \cup {d}
    /\ UNCHANGED <<kind, damaged, store, marks, queue, queued, search, up, torn, knowledgeFaults>>

RetryImage(d) ==
    /\ WebMay /\ Edit /\ KindOf(d) = "image"
    /\ Row(d).status = "published" /\ Row(d).index = "failed"
    /\ Begins("index", d)
    /\ UNCHANGED <<kind, rows, damaged, store, marks, queue, queued, search, up, retried,
                   torn, knowledgeFaults>>

\* revoke and retry_revoke run on the event loop with the lock held from the
\* first write to the last; a failed deletion leaves the request pending.
Revoke(d) ==
    /\ up /\ Row(d).status \notin {"none", "revoked"}
    /\ \/ /\ SetRow(d, [Row(d) EXCEPT !.status = "revoked", !.index = "withdrawn"])
          /\ store' = [store EXCEPT ![d] = "none"] /\ UNCHANGED knowledgeFaults
       \/ /\ Fails
          /\ SetRow(d, [Row(d) EXCEPT !.status = "revoke_pending", !.index = "failed"])
          /\ store' \in {store, [store EXCEPT ![d] = "none"]}
    /\ Disturbed({d})
    /\ UNCHANGED <<kind, damaged, marks, queue, queued, job, up, retried, torn, edits>>

-----------------------------------------------------------------------------
(* Indexing one document: the worker and a Web request share this code. *)

Kept == <<kind, damaged, marks, queue, queued, up, retried, edits>>

\* The entry of index_pdf and index_image.
Indexable(d) ==
    /\ Prepared(Row(d))
    /\ IF KindOf(d) = "pdf" THEN Row(d).status \in {"draft", "published"}
                            ELSE Row(d).status = "published"
AfterIndex(a) == IF a = "worker" THEN "leave" ELSE "idle"

IndexBegin(a) ==
    /\ job[a].at = "index"
    /\ LET d == job[a].doc IN
         IF Indexable(d)
         THEN SetRow(d, [Row(d) EXCEPT !.index = "running"]) /\ Takes(a, "load", d, Row(d).class)
         ELSE Does(a, AfterIndex(a)) /\ UNCHANGED rows
    /\ UNCHANGED <<Kept, store, search, torn, knowledgeFaults>>

\* load_pdf_chunks reads the row again, the classification with it; an image
\* is built from the row read at the entry.
Load(a) ==
    /\ job[a].at = "load"
    /\ LET d == job[a].doc IN
         IF KindOf(d) = "image" THEN Does(a, "write")
         ELSE IF Row(d).status \in {"draft", "published"} /\ d \notin damaged
         THEN Takes(a, "write", d, Row(d).class)
         ELSE Does(a, "fail")
    /\ UNCHANGED <<Kept, rows, store, search, torn, knowledgeFaults>>

\* index_prepared: delete, then write; a failed write deletes again.
Write(a) ==
    /\ job[a].at = "write"
    /\ \/ /\ store' = [store EXCEPT ![job[a].doc] = job[a].class]
          /\ Does(a, "end") /\ UNCHANGED knowledgeFaults
          /\ torn' = IF job[a].class = rows[job[a].doc].class THEN torn \ {job[a].doc}
                     ELSE torn \cup {job[a].doc}
       \/ /\ Fails /\ store' = [store EXCEPT ![job[a].doc] = "none"]
          /\ Does(a, "fail") /\ torn' = torn \cup {job[a].doc}
    /\ Disturbed({job[a].doc})
    /\ UNCHANGED <<Kept, rows>>

\* The except branch: a withdrawn PDF keeps its state.
IndexFailed(a) ==
    /\ job[a].at = "fail"
    /\ LET d == job[a].doc IN
         IF KindOf(d) = "pdf" /\ Row(d).status \in Withdrawn THEN UNCHANGED rows
         ELSE SetRow(d, [Row(d) EXCEPT !.index = "failed"])
    /\ Does(a, AfterIndex(a))
    /\ UNCHANGED <<Kept, store, search, torn, knowledgeFaults>>

\* Withdrawn meanwhile: index_pdf writes nothing, and the worker then deletes
\* what it wrote.  index_image does not look.
Published(d) ==
    IF KindOf(d) = "image" THEN [Row(d) EXCEPT !.index = "indexed"]
    ELSE IF Row(d).status \in Withdrawn THEN Row(d)
    ELSE [Row(d) EXCEPT !.status = "published", !.index = "indexed"]
IndexEnd(a) ==
    /\ job[a].at = "end"
    /\ SetRow(job[a].doc, Published(job[a].doc))
    /\ Does(a, IF a = "worker" /\ Row(job[a].doc).status \in Withdrawn THEN "undo"
               ELSE AfterIndex(a))
    /\ UNCHANGED <<Kept, store, search, torn, knowledgeFaults>>

-----------------------------------------------------------------------------
(* The PDF worker. *)

\* _process: nothing is done for a document withdrawn or under review.
TakeJob ==
    /\ up /\ job["worker"].at = "idle" /\ queue # <<>>
    /\ LET d == Head(queue) IN
         Takes("worker", IF \/ Row(d).status \notin {"draft", "published"}
                            \/ Prepared(Row(d)) /\ Row(d).index = "indexed" THEN "leave"
                         ELSE IF Prepared(Row(d)) THEN "index" ELSE "stage", d, "internal")
    /\ queue' = Tail(queue)
    /\ UNCHANGED <<kind, rows, damaged, store, marks, queued, search, up, retried, torn,
                   edits, knowledgeFaults>>

\* One stage of process_staged_pdf: a withdrawn document is left as it is,
\* any other row is updated and the worker goes on.
Stage(at, NewRow(_), next) ==
    /\ job["worker"].at = at
    /\ LET d == job["worker"].doc IN
         IF Row(d).status \in Withdrawn
         THEN Does("worker", "leave") /\ UNCHANGED rows
         ELSE SetRow(d, NewRow(Row(d))) /\ Does("worker", next)
    /\ UNCHANGED <<Kept, store, search, torn>>

ParseBegins(r) == [r EXCEPT !.status = "draft", !.parse = "running",
                            !.chunk = "pending", !.index = "pending"]
Parsed(status, r) == [r EXCEPT !.status = status, !.parse = "ready",
                               !.chunk = "pending", !.index = "pending"]
\* Mutant: the failure is swallowed and the stage still reads as running.
StageFailedQuietly(stage, r) == r

\* _mark_pdf_processing_failure: the stage and all after it.
StageFailed(stage, r) ==
    [r EXCEPT !.status = "draft", !.index = "failed", !.chunk = "failed",
              !.parse = IF stage = "parse" THEN "failed" ELSE @]

Undamaged == job["worker"].doc \notin damaged

ProcessStaged ==
    \/ /\ Row(job["worker"].doc).parse # "ready"
       /\ Stage("stage", ParseBegins, "parse") /\ UNCHANGED knowledgeFaults
    \/ /\ Row(job["worker"].doc).parse = "ready"
       /\ Stage("stage", LAMBDA r : r, "split") /\ UNCHANGED knowledgeFaults
    \/ Undamaged /\ Stage("parse", LAMBDA r : Parsed("draft", r), "split") /\ UNCHANGED knowledgeFaults
    \/ /\ Undamaged
       /\ Stage("parse", LAMBDA r : Parsed("review_required", r), "leave") /\ UNCHANGED knowledgeFaults
    \/ /\ IF Undamaged THEN Fails ELSE UNCHANGED knowledgeFaults
       /\ Stage("parse", LAMBDA r : StageFailed("parse", r), "leave")
    \/ Stage("split", LAMBDA r : [r EXCEPT !.chunk = "running"], "chunk") /\ UNCHANGED knowledgeFaults
    \/ /\ Stage("chunk", LAMBDA r : [r EXCEPT !.chunk = "ready", !.index = "pending"], "index")
       /\ UNCHANGED knowledgeFaults
    \/ /\ Fails
       /\ Stage("chunk", LAMBDA r : StageFailed("chunk", r), "leave")

\* pipeline.delete_by_document after an indexing that was overtaken.
Undo ==
    /\ job["worker"].at = "undo"
    /\ store' = [store EXCEPT ![job["worker"].doc] = "none"]
    /\ Does("worker", "leave") /\ Disturbed({job["worker"].doc})
    /\ UNCHANGED <<Kept, rows, torn, knowledgeFaults>>

Leave ==
    /\ job["worker"].at = "leave"
    /\ queued' = queued \ {job["worker"].doc}
    /\ Does("worker", "idle")
    /\ UNCHANGED <<kind, rows, damaged, store, marks, queue, search, up, retried, torn,
                   edits, knowledgeFaults>>

-----------------------------------------------------------------------------
(* The search server: every query reconciles the index with the manifest. *)

ActiveDocs == {d \in Docs : Active(d)}
\* Mutant: only documents the reconciliation itself indexed can be stale.
IsStaleByMark(d) == ~Active(d) /\ marks[d] # "none"
IsStale(d) == ~Active(d) /\ (store[d] # "none" \/ marks[d] # "none")
Changed == {d \in ActiveDocs : marks[d] # Row(d).class}

\* The manifest and the fingerprints are read once, without a lock.
SearchBegin ==
    /\ search.at = "idle"
    /\ search' = [at |-> "prune", active |-> ActiveDocs, stale |-> {d \in Docs : IsStale(d)},
                  changed |-> [d \in Changed |-> Row(d).class],
                  gone |-> {d \in Docs : rows[d].status = "revoked"},
                  disturbed |-> {d \in Docs : \E a \in DOMAIN job :
                                   job[a].at # "idle" /\ job[a].doc = d}]
    /\ UNCHANGED <<kind, rows, damaged, store, marks, queue, queued, job, up, retried,
                   torn, edits, knowledgeFaults>>

Without(f, ds) == [d \in Docs |-> IF d \in ds THEN "none" ELSE f[d]]
Overlaid(f, g) == [d \in Docs |-> IF d \in DOMAIN g THEN g[d] ELSE f[d]]
SearchGoes(at) == search' = [search EXCEPT !.at = at]
SearchKept == <<kind, damaged, queue, queued, job, up, retried, edits, knowledgeFaults>>

Prune ==
    /\ search.at = "prune"
    /\ store' = Without(store, search.stale) /\ marks' = Without(marks, search.stale)
    /\ search' = [search EXCEPT !.at = "build", !.stale = {}]
    /\ UNCHANGED <<SearchKept, rows, torn>>

Build ==
    /\ search.at = "build"
    /\ store' = Overlaid(store, search.changed) /\ marks' = Overlaid(marks, search.changed)
    /\ torn' = torn \ DOMAIN search.changed
    /\ search' = [search EXCEPT !.at = "record", !.changed = <<>>]
    /\ UNCHANGED <<SearchKept, rows>>

\* record_reconciled_index, document by document; one whose row has changed
\* state refuses, and the query answers that the index is unavailable.
Recordable(d) == Row(d).status = "published" /\ Prepared(Row(d))
Record ==
    /\ search.at = "record"
    /\ \E ds \in SUBSET {d \in search.active : Recordable(d)} :
         /\ rows' = [d \in Docs |-> IF d \in ds THEN [Row(d) EXCEPT !.index = "indexed"]
                                    ELSE rows[d]]
         /\ IF ds = search.active THEN SearchGoes("query")
            ELSE (\E d \in search.active : ~Recordable(d)) /\ search' = NoSearch
    /\ UNCHANGED <<SearchKept, store, marks, torn>>

\* The answer is whatever the index holds now.
Query == search.at = "query" /\ search' = NoSearch
         /\ UNCHANGED <<SearchKept, rows, store, marks, torn>>

-----------------------------------------------------------------------------
(* Faults and restarts. *)

\* A stored file is lost or altered outside the program.
Damage(d) ==
    /\ Fails /\ rows[d].status \notin {"none", "revoked"} /\ d \notin damaged
    /\ damaged' = damaged \cup {d}
    /\ UNCHANGED <<kind, rows, store, marks, queue, queued, job, search, up, retried, torn, edits>>

\* The Web process dies: its queue is memory.
ProcessDies ==
    /\ Fails /\ up /\ up' = FALSE
    /\ job' = [a \in DOMAIN job |-> NoJob] /\ queue' = <<>> /\ queued' = {}
    /\ torn' = torn \cup {job[a].doc : a \in {b \in DOMAIN job :
                                           job[b].at \in {"clear", "index", "load", "write"}}}
    /\ UNCHANGED <<kind, rows, damaged, store, marks, search, retried, edits>>

\* reconcile_indexes_once before the listeners start, then every unfinished
\* PDF is queued again, in manifest order.
Startup ==
    /\ ~up /\ up' = TRUE
    /\ store' = Overlaid(Without(store, {d \in Docs : IsStale(d)}),
                         [d \in Changed |-> Row(d).class])
    /\ marks' = Overlaid(Without(marks, {d \in Docs : IsStale(d)}),
                         [d \in Changed |-> Row(d).class])
    /\ rows' = [d \in Docs |-> IF Active(d) THEN [Row(d) EXCEPT !.index = "indexed"]
                               ELSE Row(d)]
    /\ LET due == {d \in Docs : Unfinished(d) /\ ~Active(d)} IN
         /\ queued' = due
         /\ queue' \in {q \in [1..Cardinality(due) -> due] : Range(q) = due}
    /\ torn' = torn \ Changed /\ Disturbed(Docs)
    /\ UNCHANGED <<kind, damaged, job, retried, edits, knowledgeFaults>>

-----------------------------------------------------------------------------
WebStep ==
    \/ \E s \in Sources, c \in Imported : Import(s, c)
    \/ \E d \in Docs, c \in Classes : Classify(d, c)
    \/ \E d \in Docs : ApproveReview(d) \/ RetryPdf(d) \/ RetryImage(d) \/ Revoke(d)
RequestStep ==
    \/ Enqueue \/ Clear \/ IndexBegin("web") \/ Load("web") \/ Write("web")
    \/ IndexFailed("web") \/ IndexEnd("web")
WorkerStep ==
    \/ TakeJob \/ ProcessStaged \/ Undo \/ Leave
    \/ IndexBegin("worker") \/ Load("worker") \/ Write("worker")
    \/ IndexFailed("worker") \/ IndexEnd("worker")
SearchStep == SearchBegin \/ Prune \/ Build \/ Record \/ Query
FaultStep == ProcessDies \/ \E d \in Docs : Damage(d)

KnowledgeNext == WebStep \/ RequestStep \/ WorkerStep \/ SearchStep \/ FaultStep \/ Startup
\* The worker thread, a running request and the process's supervisor keep
\* going; nobody is obliged to import, decide or search.
KnowledgeSpec == /\ KnowledgeInit /\ [][KnowledgeNext]_vars
                 /\ WF_vars(WorkerStep) /\ WF_vars(RequestStep) /\ WF_vars(Startup)

-----------------------------------------------------------------------------
(* Properties. *)

\* A query never answers from a document that was revoked before the query
\* began, unless a request was still writing it into the index meanwhile
\* (docs/project/PROJECT_CHANGELOG.md:516), and finds every document the manifest
\* offered when it began, as it is classified.  The index may hold a revoked
\* document: only the reconciliation removes what a Web request left behind.
\* The exceptions are real: a document taken out of the index whose rebuilding
\* failed or was cut off, or one classified while it was being built, may keep a
\* fingerprint and a row that say it is indexed as it should be.
SearchIsExact ==
    search.at = "query" =>
      /\ \A d \in search.gone \ search.disturbed : store[d] = "none"
      /\ \A d \in search.active \ (search.disturbed \cup torn) : store[d] = rows[d].class

\* A PDF taken in is eventually parsed and indexed, failed for good, put
\* before a reviewer or withdrawn, crashes included, unless somebody retried it:
\* a retry accepted while the worker still holds the document is not queued.
UnfinishedIsDecided ==
    \A d \in Docs : (Unfinished(d) /\ d \notin retried) ~> (~Unfinished(d) \/ d \in retried)
=============================================================================
