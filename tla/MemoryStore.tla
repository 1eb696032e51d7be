----------------------------- MODULE MemoryStore -----------------------------
(* Long-term memory: the authoritative rows, the index outbox written in the   *)
(* same transaction, the worker that drains it into the keyword and the vector *)
(* index, and the coordinator that deletes an account. The customer store      *)
(* (consent first) and the workspace store (an operator confirms) have the     *)
(* same shape; realm says which of the two this is.                            *)
EXTENDS Integers, Sequences, FiniteSets, SequencesExt

CONSTANTS Items, BodyOf,       \* memories, and the content hash of each
          Consents, Mortal,    \* consent records; the items and consents with an expires_at
          Workers,             \* processes that drain the outbox
          NoItem, NoConsent,
          MaxAttempts,         \* attempts before an event is dead_letter (5 in the code)
          MaxVersion,          \* bound: no row is written past this version
          MaxFaults            \* bound: failed index writes plus restarts

ASSUME MemoryAssumption ==
  /\ MaxAttempts \in Nat \ {0} /\ MaxVersion \in Nat /\ MaxFaults \in Nat
  /\ NoItem \notin Items /\ NoConsent \notin Consents /\ IsFiniteSet(Items)

VARIABLES realm,       \* "customer" or "workspace"
          row,         \* the item table
          consents,    \* customer_memory_consent.status
          past,        \* items and consents whose expires_at has gone by
          events,      \* memory_index_outbox in created_at order
          keyword, vector,  \* the memory ids each derived index holds
          worker,      \* run_once of each worker
          job,         \* memory_governance_deletion_job and the run on it
          confirming,  \* what _confirm_correction read before its transaction
          faults       \* failed index writes and restarts so far

rows == <<row, events>>
indexes == <<keyword, vector>>
vars == <<realm, rows, consents, past, indexes, worker, job, confirming, faults>>
desk == <<job, confirming>>

Draft == [customer |-> "pending_consent", workspace |-> "pending_confirmation"]
Live == {"pending_consent", "pending_confirmation", "active"}
NoRow == [status |-> "none", version |-> 0, consent |-> NoConsent, supersedes |-> NoItem]
IdleWorker == [at |-> "idle", event |-> 0, kind |-> "none"]
NotConfirming == [item |-> NoItem, version |-> 0, oldVersion |-> 0]

MemoryInit ==
  /\ realm \in DOMAIN Draft
  /\ row = [i \in Items |-> NoRow] /\ events = <<>>
  /\ consents = [c \in Consents |-> "none"] /\ past = {}
  /\ keyword = {} /\ vector = {}
  /\ worker = [w \in Workers |-> IdleWorker]
  /\ job = [status |-> "none", ids |-> {}, saved |-> 0, at |-> 0]
  /\ confirming = NotConfirming /\ faults = 0

-----------------------------------------------------------------------------
(* Rows and the outbox.                                                       *)

Event(i, kind, v) ==
  [item |-> i, kind |-> kind, version |-> v, status |-> "pending", attempts |-> 0]

\* The queue with the events of a transaction: those of one moment are ordered by
\* their ids, which are hashes.
Queues(queue, news) == {queue \o s : s \in SetToSeqs(news)}
\* INSERT OR IGNORE under an id made of item, kind and version.
Queued(queue, e) ==
  \E k \in DOMAIN queue : [queue[k] EXCEPT !.status = "pending", !.attempts = 0] = e
\* The outbox row is keyed by the memory alone.
EnqueueOnce(queue, S) ==
  Queues(queue, {e \in S : \A k \in DOMAIN queue : queue[k].item # e.item})
Enqueue(queue, S) == Queues(queue, {e \in S : ~ Queued(queue, e)})

\* Every row of S moves to status s with the next version and a delete event.
Retire(S, s) ==
  /\ \A i \in S : row[i].version < MaxVersion
  /\ row' = [i \in Items |-> IF i \in S
               THEN [row[i] EXCEPT !.status = s, !.version = @ + 1] ELSE row[i]]
  /\ events' \in Enqueue(events, {Event(i, "delete", row[i].version + 1) : i \in S})

\* The unique index over the content hash of the live rows.
Unique(i) == \A j \in Items \ {i} : BodyOf[j] = BodyOf[i] => row[j].status \notin Live
\* Activation looks only at the consent's expiry.
ConsentHoldsByAge(c) == c \in Consents /\ consents[c] # "none" /\ c \notin past
ConsentHolds(c) == c \in Consents /\ consents[c] = "active" /\ c \notin past
WithStatus(s) == {i \in Items : row[i].status = s}
Undeleted == {i \in Items : row[i].status \notin {"none", "deleted"}}

GrantConsent(c) ==
  /\ realm = "customer" /\ consents[c] = "none"
  /\ consents' = [consents EXCEPT ![c] = "active"]
  /\ UNCHANGED <<realm, rows, past, indexes, worker, desk, faults>>

WithdrawConsent(c) ==
  /\ consents[c] # "none"
  /\ consents' = [consents EXCEPT ![c] = "withdrawn"]
  /\ Retire({i \in WithStatus("active") : row[i].consent = c}, "invalid")
  /\ UNCHANGED <<realm, past, indexes, worker, desk, faults>>

\* A candidate; in the workspace it may correct an active item.
CreateCandidate(i, old) ==
  /\ row[i].status = "none" /\ Unique(i)
  /\ old # NoItem => realm = "workspace" /\ row[old].status = "active"
  /\ row' = [row EXCEPT ![i] = [NoRow EXCEPT !.status = Draft[realm], !.version = 1,
                                             !.supersedes = old]]
  /\ UNCHANGED <<realm, events, consents, past, indexes, worker, desk, faults>>

Activated(i, c) ==
  /\ row' = [row EXCEPT ![i].status = "active", ![i].version = @ + 1, ![i].consent = c]
  /\ events' \in Enqueue(events, {Event(i, "upsert", row[i].version + 1)})

Activate(i, c) ==
  /\ row[i].status = "pending_consent" /\ row[i].version < MaxVersion
  /\ ConsentHolds(c)
  /\ Activated(i, c)
  /\ UNCHANGED <<realm, consents, past, indexes, worker, desk, faults>>

Confirm(i) ==
  /\ row[i].status = "pending_confirmation" /\ row[i].version < MaxVersion
  /\ row[i].supersedes = NoItem
  /\ Activated(i, NoConsent)
  /\ UNCHANGED <<realm, consents, past, indexes, worker, desk, faults>>

\* The corrected text replaces the active row; it keeps its consent and expiry.
Supersede(old, i) ==
  /\ realm = "customer"
  /\ row[old].status = "active" /\ consents[row[old].consent] = "active"
  /\ row[i].status = "none" /\ row[old].version < MaxVersion
  /\ \A j \in Items \ {i, old} : BodyOf[j] = BodyOf[i] => row[j].status \notin Live
  /\ old \in Mortal <=> i \in Mortal
  /\ row' = [row EXCEPT ![old].status = "superseded", ![old].version = @ + 1,
               ![i] = [status |-> "active", version |-> 1,
                       consent |-> row[old].consent, supersedes |-> old]]
  /\ events' \in Enqueue(events, {Event(old, "delete", row[old].version + 1),
                                  Event(i, "upsert", 1)})
  /\ past' = IF old \in past THEN past \union {i} ELSE past
  /\ UNCHANGED <<realm, consents, indexes, worker, desk, faults>>

\* _confirm_correction reads the candidate and its target, then writes.
ConfirmRead(i) ==
  /\ confirming = NotConfirming
  /\ row[i].status = "pending_confirmation" /\ row[i].supersedes # NoItem
  /\ row[row[i].supersedes].status = "active"
  /\ confirming' = [item |-> i, version |-> row[i].version,
                    oldVersion |-> row[row[i].supersedes].version]
  /\ UNCHANGED <<realm, rows, consents, past, indexes, worker, job, faults>>

\* The candidate's own UPDATE is filtered, and nobody looks at its row count.
StillDraft(i, v) == row[i].status = "pending_confirmation" /\ row[i].version = v

ConfirmWrite ==
  LET i == confirming.item
      old == row[i].supersedes
  IN /\ confirming # NotConfirming
     /\ row[old].status = "active" /\ row[old].version = confirming.oldVersion
     /\ row[old].version < MaxVersion /\ confirming.version < MaxVersion
     /\ row' = [j \in Items |->
          CASE j = old -> [row[j] EXCEPT !.status = "superseded", !.version = @ + 1]
            [] j = i /\ StillDraft(i, confirming.version)
                 -> [row[j] EXCEPT !.status = "active", !.version = @ + 1]
            [] OTHER -> row[j]]
     /\ events' \in Enqueue(events, {Event(old, "delete", row[old].version + 1),
                                     Event(i, "upsert", confirming.version + 1)})
     /\ confirming' = NotConfirming
     /\ UNCHANGED <<realm, consents, past, indexes, worker, job, faults>>

ConfirmConflict ==
  LET old == row[confirming.item].supersedes
  IN /\ confirming # NotConfirming
     /\ row[old].status # "active" \/ row[old].version # confirming.oldVersion
     /\ confirming' = NotConfirming
     /\ UNCHANGED <<realm, rows, consents, past, indexes, worker, job, faults>>

Reject(i) ==
  /\ realm = "workspace" /\ row[i].status \in {"pending_confirmation", "active", "superseded"}
  /\ Retire({i}, "invalid")
  /\ UNCHANGED <<realm, consents, past, indexes, worker, desk, faults>>

DeleteOwned(i) ==
  /\ i \in Undeleted
  /\ Retire({i}, "deleted")
  /\ UNCHANGED <<realm, consents, past, indexes, worker, desk, faults>>

\* "Delete all": its own memory_deletion_job row is written here and never again.
DeleteScope ==
  /\ Undeleted # {}
  /\ Retire(Undeleted, "deleted")
  /\ UNCHANGED <<realm, consents, past, indexes, worker, desk, faults>>

Lapse(x) ==
  /\ x \notin past
  /\ past' = past \union {x}
  /\ UNCHANGED <<realm, rows, consents, indexes, worker, desk, faults>>

Overdue(i) == i \in past \/ (realm = "customer" /\ ~ ConsentHolds(row[i].consent))

ExpireDue ==
  /\ consents' = [c \in Consents |->
       IF consents[c] = "active" /\ c \in past THEN "expired" ELSE consents[c]]
  /\ Retire({i \in WithStatus("active") : Overdue(i)}, "invalid")
  /\ UNCHANGED <<realm, past, indexes, worker, desk, faults>>

StoreStep ==
  \/ \E c \in Consents : GrantConsent(c) \/ WithdrawConsent(c)
  \/ \E i \in Items : \/ \E old \in Items \union {NoItem} : CreateCandidate(i, old)
                      \/ \E c \in Consents : Activate(i, c)
                      \/ \E old \in Items : Supersede(old, i)
                      \/ Confirm(i) \/ ConfirmRead(i) \/ Reject(i) \/ DeleteOwned(i)
  \/ ConfirmWrite \/ ConfirmConflict \/ DeleteScope \/ ExpireDue
  \/ \E x \in Mortal : Lapse(x)

-----------------------------------------------------------------------------
(* The index worker.                                                          *)

\* get_index_item: what may be put into an index now.
Recallable(i) == row[i].status = "active" /\ ~ Overdue(i)

\* A retry_wait event may be due or not; an older pending event always is.
Due == {k \in DOMAIN events :
          /\ events[k].status \in {"pending", "retry_wait"}
          /\ \A j \in 1..(k - 1) : events[j].status # "pending"}

Goes(w, at) == worker' = [worker EXCEPT ![w].at = at]
InHand(w) == events[worker[w].event]

ClaimIndexEvent(w) ==
  /\ worker[w].at = "idle"
  /\ \E k \in Due :
       /\ events' = [events EXCEPT ![k].status = "processing"]
       /\ worker' = [worker EXCEPT ![w] = [at |-> "read", event |-> k, kind |-> "none"]]
  /\ UNCHANGED <<realm, row, consents, past, indexes, desk, faults>>

GetIndexItem(w) ==
  /\ worker[w].at = "read"
  /\ worker' = [worker EXCEPT ![w].at = "keyword", ![w].kind =
       IF InHand(w).kind = "delete" \/ ~ Recallable(InHand(w).item) THEN "delete" ELSE "upsert"]
  /\ UNCHANGED <<realm, rows, consents, past, indexes, desk, faults>>

Written(index, w) ==
  IF worker[w].kind = "delete" THEN index \ {InHand(w).item} ELSE index \union {InHand(w).item}

WriteKeyword(w) ==
  /\ worker[w].at = "keyword" /\ Goes(w, "vector")
  /\ keyword' = Written(keyword, w)
  /\ UNCHANGED <<realm, rows, consents, past, vector, desk, faults>>

WriteVector(w) ==
  /\ worker[w].at = "vector" /\ Goes(w, "complete")
  /\ vector' = Written(vector, w)
  /\ UNCHANGED <<realm, rows, consents, past, keyword, desk, faults>>

CompleteIndexEvent(w) ==
  /\ worker[w].at = "complete"
  /\ events' = [events EXCEPT ![worker[w].event].status = "completed"]
  /\ worker' = [worker EXCEPT ![w] = IdleWorker]
  /\ UNCHANGED <<realm, row, consents, past, indexes, desk, faults>>

RetryStatus(attempts) == IF attempts >= MaxAttempts THEN "dead_letter" ELSE "retry_wait"

\* Any exception of run_once, a restricted item for an external embedding too.
RetryIndexEvent(w) ==
  LET attempts == InHand(w).attempts + 1
  IN /\ worker[w].at \in {"read", "keyword", "vector", "complete"} /\ faults < MaxFaults
     /\ faults' = faults + 1
     /\ events' = [events EXCEPT ![worker[w].event].attempts = attempts,
                                 ![worker[w].event].status = RetryStatus(attempts)]
     /\ worker' = [worker EXCEPT ![w] = IdleWorker]
     /\ UNCHANGED <<realm, row, consents, past, indexes, desk>>

\* The process dies and comes back with enqueue_active_for_indexing.
Restart(w) ==
  /\ faults < MaxFaults /\ faults' = faults + 1
  /\ worker' = [worker EXCEPT ![w] = IdleWorker]
  /\ events' \in Enqueue(events, {Event(i, "upsert", row[i].version) : i \in WithStatus("active")})
  /\ job' = [job EXCEPT !.at = 0] /\ confirming' = NotConfirming
  /\ UNCHANGED <<realm, row, consents, past, indexes>>

WorkerStep(w) ==
  \/ ClaimIndexEvent(w) \/ GetIndexItem(w) \/ WriteKeyword(w) \/ WriteVector(w)
  \/ CompleteIndexEvent(w)

-----------------------------------------------------------------------------
(* CustomerDeletionCoordinator. Conversations and working memory, in tables of *)
(* their own, go first; then long-term memory (1), indexes (2) and external    *)
(* caches (3). Steps done are saved only when a run ends.                      *)

RequestAccountDeletion ==
  /\ realm = "customer" /\ job.status = "none"
  /\ job' = [job EXCEPT !.status = "pending", !.ids = {i \in Items : row[i].status # "none"}]
  /\ UNCHANGED <<realm, rows, consents, past, indexes, worker, confirming, faults>>

RunDeletion ==
  /\ job.status \in {"pending", "retry_wait"} /\ job.at = 0
  /\ job' = [job EXCEPT !.at = job.saved + 1]
  /\ UNCHANGED <<realm, rows, consents, past, indexes, worker, confirming, faults>>

\* Only pending events count as outstanding, not the one in a worker's hand.
OutstandingPending(ids) == {k \in DOMAIN events : /\ events[k].status = "pending"
                                                  /\ ids = {} \/ events[k].item \in ids}
\* pending_index_events: with no ids it counts the events of everybody.
Outstanding(ids) == {k \in DOMAIN events : /\ events[k].status # "completed"
                                           /\ ids = {} \/ events[k].item \in ids}

StepSucceeds ==
  /\ job.at > 0
  /\ IF job.at = 1 THEN Retire(Undeleted, "deleted") ELSE UNCHANGED rows
  /\ job.at = 2 => Outstanding(job.ids) = {}
  /\ job' = IF job.at < 3 THEN [job EXCEPT !.at = @ + 1]
                          ELSE [job EXCEPT !.at = 0, !.saved = 3, !.status = "completed"]
  /\ UNCHANGED <<realm, consents, past, indexes, worker, confirming, faults>>

StepFails ==
  /\ job.at > 0
  /\ job' = [job EXCEPT !.at = 0, !.saved = job.at - 1, !.status = "retry_wait"]
  /\ UNCHANGED <<realm, rows, consents, past, indexes, worker, confirming, faults>>

DeletionStep == RequestAccountDeletion \/ RunDeletion \/ StepSucceeds \/ StepFails

MemoryNext ==
  \/ StoreStep \/ DeletionStep
  \/ \E w \in Workers : WorkerStep(w) \/ RetryIndexEvent(w) \/ Restart(w)

MemorySpec == MemoryInit /\ [][MemoryNext]_vars

-----------------------------------------------------------------------------
(* Properties.                                                                *)

MemoryTypeOK ==
  /\ realm \in DOMAIN Draft
  /\ row \in [Items -> [status : Live \union {"none", "superseded", "invalid", "deleted"},
                        version : 0..MaxVersion, consent : Consents \union {NoConsent},
                        supersedes : Items \union {NoItem}]]
  /\ consents \in [Consents -> {"none", "active", "withdrawn", "expired"}]
  /\ past \subseteq Mortal /\ keyword \subseteq Items /\ vector \subseteq Items
  /\ events \in Seq([item : Items, kind : {"upsert", "delete"}, version : 1..MaxVersion,
                     status : {"pending", "processing", "retry_wait", "completed", "dead_letter"},
                     attempts : 0..MaxAttempts])
  /\ \A w \in Workers : worker[w] = IdleWorker \/ worker[w].event \in DOMAIN events
  /\ job.saved \in 0..3 /\ job.at \in 0..3 /\ faults \in 0..MaxFaults

\* Once every event of a memory is completed, both derived indexes agree with
\* the authoritative row: a recallable memory is found, a retired one is gone.
\* True of one worker; two of them can apply an upsert after a delete.
SettledIsFaithful ==
  \A i \in Items : (\A k \in DOMAIN events : events[k].item = i => events[k].status = "completed")
    => /\ Recallable(i) => i \in keyword \intersect vector
       /\ row[i].status # "active" => i \notin keyword \union vector

\* An active customer memory stands on a consent that nobody has withdrawn:
\* withdrawal takes the memories down with it, corrections made since included.
ActiveHasConsent ==
  realm = "customer" =>
    \A i \in WithStatus("active") : row[i].consent \in Consents /\ consents[row[i].consent] = "active"

\* The coordinator "never reports early success": when its job is completed, the
\* memories it names are deleted and in neither index.
DeletionNeverEarly ==
  job.status = "completed" =>
    \A i \in job.ids : row[i].status = "deleted" /\ i \notin keyword \union vector

=============================================================================
