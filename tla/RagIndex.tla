------------------------------ MODULE RagIndex ------------------------------
(* RagPipeline over its three stores. One deployment keeps them in one SQLite  *)
(* file whose rag_document rows decide who may find a passage; the other keeps *)
(* a Milvus collection, an Elasticsearch index and a MySQL table, whose rows   *)
(* each carry their own audience. No transaction spans two stores. One indexer *)
(* prepares editions of a document while the web desk withdraws it.            *)
EXTENDS Integers, FiniteSets

CONSTANTS Pieces,        \* passages a document may be split into
          Versions,      \* of the document
          Audiences,     \* classifications; Public is what customers may find
          Public,
          MaxIndexFaults \* bound: failing store calls and crashes

ASSUME RagIndexAssumption == Public \in Audiences /\ MaxIndexFaults \in Nat

VARIABLES deployment,    \* "sqlite" or "servers"
          document,      \* rag_document: the audience of each version, or "none"
          parents, semantic, inverted,  \* rows of the stores
          retired,       \* the rows of Milvus generations the alias does not name
          task,          \* what the indexer and the desk are doing
          indexFaults

ragVars == <<deployment, document, parents, semantic, inverted, retired, task, indexFaults>>

RagRow(v, p, audience) == [version |-> v, piece |-> p, audience |-> audience]
NoTask == [kind |-> "none", at |-> "start", versions |-> {}, audience |-> "none", pieces |-> {},
           errors |-> FALSE, result |-> "none", alone |-> TRUE]

RagInit ==
  /\ deployment \in {"sqlite", "servers"}
  /\ document = [v \in Versions |-> "none"]
  /\ parents = {} /\ semantic = {} /\ inverted = {} /\ retired = {}
  /\ task = [a \in {"indexer", "desk"} |-> NoTask] /\ indexFaults = 0

OnSqlite == deployment = "sqlite"
TaskAt(a, where) == task[a].at = where
Busy(a) == task[a].kind # "none" /\ task[a].result = "none"
\* A task that finished earlier is forgotten, one still running is not alone.
Begin(a, t) ==
  task' = [b \in DOMAIN task |->
             IF b = a THEN [t EXCEPT !.alone = \A c \in DOMAIN task \ {a} : ~Busy(c)]
             ELSE IF Busy(b) THEN [task[b] EXCEPT !.alone = FALSE] ELSE NoTask]
Step(a, where) == task' = [task EXCEPT ![a].at = where]
Ends(a, result) == task' = [task EXCEPT ![a].at = "end", ![a].result = result]
IndexFault == indexFaults < MaxIndexFaults /\ indexFaults' = indexFaults + 1

-----------------------------------------------------------------------------
(* index_prepared and delete_by_document.                                     *)

BeginIndex(v, audience, pieces) ==
  /\ ~Busy("indexer")
  /\ Begin("indexer", [NoTask EXCEPT !.kind = "index", !.at = "semantic", !.versions = {v},
                                     !.audience = audience, !.pieces = pieces])
  /\ UNCHANGED <<deployment, document, parents, semantic, inverted, retired, indexFaults>>
\* A withdrawal names no version.
BeginDelete ==
  /\ ~Busy("desk")
  /\ Begin("desk", [NoTask EXCEPT !.kind = "delete", !.at = "semantic", !.versions = Versions])
  /\ UNCHANGED <<deployment, document, parents, semantic, inverted, retired, indexFaults>>

Of(rows, vs) == {r \in rows : r.version \in vs}
\* cleanup_document: the row stays while any of the three tables has one of its own.
Cleaned(vs, p, s, k) ==
  [v \in Versions |-> IF v \in vs /\ Of(p \cup s \cup k, {v}) = {} THEN "none" ELSE document[v]]

\* mutant: a failed deletion does not keep the index from being written
AfterDeleteRegardless(a, store) ==
  CASE store = "semantic" -> Step(a, "keyword")
    [] store = "keyword" -> Step(a, "parents")
    [] OTHER ->
         IF task[a].kind = "delete" THEN Ends(a, "deleted")
         ELSE IF task[a].kind = "undo" THEN Ends(a, "failed")
         ELSE Step(a, "add parents")
\* The three deletions run in turn, each a transaction, whatever the others raise.
AfterDelete(a, store) ==
  CASE store = "semantic" -> Step(a, "keyword")
    [] store = "keyword" -> Step(a, "parents")
    [] OTHER ->
         IF task[a].errors THEN Ends(a, "failed")
         ELSE IF task[a].kind = "delete" THEN Ends(a, "deleted")
         ELSE IF task[a].kind = "undo" THEN Ends(a, "failed")
         ELSE Step(a, "add parents")

\* Milvus deletes from every generation and looks whether anything remains.
RetiredAfter(vs) == retired \ Of(retired, vs)
DeleteSemantic(a) ==
  LET vs == task[a].versions
      s == semantic \ Of(semantic, vs)
  IN /\ Busy(a) /\ TaskAt(a, "semantic")
     /\ semantic' = s /\ retired' = RetiredAfter(vs)
     /\ document' = IF OnSqlite THEN Cleaned(vs, parents, s, inverted) ELSE document
     /\ AfterDelete(a, "semantic")
     /\ UNCHANGED <<deployment, parents, inverted, indexFaults>>
DeleteKeyword(a) ==
  LET vs == task[a].versions
      k == inverted \ Of(inverted, vs)
  IN /\ Busy(a) /\ TaskAt(a, "keyword")
     /\ inverted' = k
     /\ document' = IF OnSqlite THEN Cleaned(vs, parents, semantic, k) ELSE document
     /\ AfterDelete(a, "keyword")
     /\ UNCHANGED <<deployment, parents, semantic, retired, indexFaults>>
\* Without a version, only the versions that have parents are cleaned up after.
DeleteParents(a) ==
  LET vs == task[a].versions
      p == parents \ Of(parents, vs)
      seen == IF task[a].kind = "delete" THEN {r.version : r \in parents} ELSE vs
  IN /\ Busy(a) /\ TaskAt(a, "parents")
     /\ parents' = p
     /\ document' = IF OnSqlite THEN Cleaned(vs \cap seen, p, semantic, inverted) ELSE document
     /\ AfterDelete(a, "parents")
     /\ UNCHANGED <<deployment, semantic, inverted, retired, indexFaults>>

\* A call that raises has done nothing on SQLite and in MySQL, and any part of
\* its work on Milvus and Elasticsearch.
AnyOrAll(rows) == IF OnSqlite THEN {{}} ELSE SUBSET rows
DeleteFails(a, store) ==
  LET vs == task[a].versions
  IN /\ Busy(a) /\ TaskAt(a, store) /\ IndexFault
     /\ \/ /\ store = "semantic"
           /\ \E gone \in AnyOrAll(Of(semantic, vs)), old \in AnyOrAll(Of(retired, vs)) :
                semantic' = semantic \ gone /\ retired' = retired \ old
           /\ UNCHANGED inverted
        \/ /\ store = "keyword"
           /\ \E gone \in AnyOrAll(Of(inverted, vs)) : inverted' = inverted \ gone
           /\ UNCHANGED <<semantic, retired>>
        \/ store = "parents" /\ UNCHANGED <<semantic, inverted, retired>>
     /\ task' = [task EXCEPT ![a].errors = TRUE,
          ![a].at = CASE store = "semantic" -> "keyword" [] store = "keyword" -> "parents"
                      [] OTHER -> "end",
          ![a].result = IF store = "parents" THEN "failed" ELSE @]
     /\ UNCHANGED <<deployment, document, parents>>

-----------------------------------------------------------------------------

I == task["indexer"]
PreparedRows == {RagRow(v, p, I.audience) : v \in I.versions, p \in I.pieces}
\* Rows are found by their id, which the text decides: an upsert replaces them.
Upserted(rows, new) ==
  {r \in rows : \A n \in new : n.version # r.version \/ n.piece # r.piece} \cup new
\* upsert_document, in the transaction of each store
Described == IF OnSqlite THEN [v \in Versions |-> IF v \in I.versions THEN I.audience
                                                                   ELSE document[v]]
             ELSE document
AddParents ==
  /\ Busy("indexer") /\ TaskAt("indexer", "add parents")
  /\ parents' = Upserted(parents, PreparedRows) /\ document' = Described
  /\ Step("indexer", "add semantic")
  /\ UNCHANGED <<deployment, semantic, inverted, retired, indexFaults>>
AddSemantic ==
  /\ Busy("indexer") /\ TaskAt("indexer", "add semantic")
  /\ semantic' = Upserted(semantic, PreparedRows) /\ document' = Described
  /\ Step("indexer", "add keyword")
  /\ UNCHANGED <<deployment, parents, inverted, retired, indexFaults>>
AddKeyword ==
  /\ Busy("indexer") /\ TaskAt("indexer", "add keyword")
  /\ inverted' = Upserted(inverted, PreparedRows) /\ document' = Described
  /\ Ends("indexer", "indexed")
  /\ UNCHANGED <<deployment, parents, semantic, retired, indexFaults>>

\* Everything of the version is deleted again; a bulk may have been taken in part.
AddFails ==
  /\ Busy("indexer") /\ I.at \in {"add parents", "add semantic", "add keyword"} /\ IndexFault
  /\ \/ /\ I.at = "add semantic"
        /\ \E part \in AnyOrAll(PreparedRows) : semantic' = Upserted(semantic, part)
        /\ UNCHANGED inverted
     \/ /\ I.at = "add keyword"
        /\ \E part \in AnyOrAll(PreparedRows) : inverted' = Upserted(inverted, part)
        /\ UNCHANGED semantic
     \/ I.at = "add parents" /\ UNCHANGED <<semantic, inverted>>
  /\ task' = [task EXCEPT !["indexer"].kind = "undo", !["indexer"].at = "semantic"]
  /\ UNCHANGED <<deployment, document, parents, retired>>

IndexCrash(a) ==
  /\ Busy(a) /\ IndexFault /\ Ends(a, "crashed")
  /\ UNCHANGED <<deployment, document, parents, semantic, inverted, retired>>

\* A migration copies the collection the alias names (see Rehearsal).
Backfill ==
  /\ ~OnSqlite /\ retired # semantic /\ \A a \in DOMAIN task : ~Busy(a)
  /\ retired' = semantic
  /\ UNCHANGED <<deployment, document, parents, semantic, inverted, task, indexFaults>>

Stores == {"semantic", "keyword", "parents"}
RagNext ==
  \/ \E v \in Versions, audience \in Audiences, pieces \in SUBSET Pieces \ {{}} :
       BeginIndex(v, audience, pieces)
  \/ BeginDelete
  \/ \E a \in {"indexer", "desk"} :
       \/ DeleteSemantic(a) \/ DeleteKeyword(a) \/ DeleteParents(a) \/ IndexCrash(a)
       \/ \E store \in Stores : DeleteFails(a, store)
  \/ AddParents \/ AddSemantic \/ AddKeyword \/ AddFails \/ Backfill
RagSpec == RagInit /\ [][RagNext]_ragVars

-----------------------------------------------------------------------------
(* What a customer's search and its parent lookup may return.                 *)

\* visibility on SQLite, the filters of the other stores
Tested(r) == IF OnSqlite THEN document[r.version] ELSE r.audience
FindsSemantic == {r \in semantic : Tested(r) = Public}
\* On SQLite the text comes from the passage's own row.
FindsKeyword ==
  IF OnSqlite
  THEN {r \in FindsSemantic : \E k \in inverted : k.version = r.version /\ k.piece = r.piece}
  ELSE {r \in inverted : Tested(r) = Public}
FindsParents == {r \in parents : Tested(r) = Public}

-----------------------------------------------------------------------------
(* Properties.                                                                *)

\* No passage is ever returned to customers that was not prepared for them:
\* although on SQLite one row per version, rewritten by each store in turn,
\* speaks for every passage, and any call may fail or the process die between
\* two (index_prepared deletes before it writes, SqliteKnowledgeDatabase.visibility).
AudienceKept ==
  \A r \in FindsSemantic \cup FindsKeyword \cup FindsParents : r.audience = Public

=============================================================================
