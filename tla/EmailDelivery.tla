---------------------------- MODULE EmailDelivery ----------------------------
(***************************************************************************)
(* The controlled-email outbox: the table ops_email_delivery, the SMTP     *)
(* worker loop of each process that has the table open, and the web        *)
(* process that queues and replays rows.                                   *)
(*                                                                         *)
(*   row       the table, one record per idempotency key                   *)
(*   worker    the local state of EmailDeliveryWorker.run_once, per process*)
(*   web       the request the (single) web event loop is handling         *)
(*   gate      what _gate and the recipient allowlist answer for a row;    *)
(*             an input here, computed from quotes in QuoteDelivery        *)
(*   taken     messages the mail server has taken, per row (external)      *)
(*                                                                         *)
(* Every database transaction of the code is one step; the steps between   *)
(* them (SMTP, the exception paths) are steps of their own.  Where a       *)
(* SELECT ... FOR UPDATE of the MySQL repository is, on SQLite, a SELECT   *)
(* in no transaction at all (tx() without immediate), the read and the     *)
(* write are two steps.  Time enters as two facts about a row: its lease   *)
(* is live or expired, its backoff has elapsed or not.                     *)
(***************************************************************************)
EXTENDS Naturals, FiniteSets

CONSTANTS
  Deliveries,   \* idempotency keys: account, quote, version, approval, recipient, hash
  Workers,      \* processes that may run the SMTP worker loop
  NoOwner,      \* lease_owner IS NULL
  Orphan,       \* the lease_owner of a process that no longer exists
  NoDelivery,   \* a worker or the web loop holds no row
  Backend,      \* the repository in use, "sqlite" or "mysql"
  MaxAttempts,  \* max_attempts of a row
  MaxFaults,    \* bound: crashes and failed steps in a behaviour
  MaxRetries    \* bound: manual replays in a behaviour

ASSUME OwnersAreDistinct ==
  /\ NoOwner \notin Workers
  /\ Orphan \notin Workers
  /\ NoOwner # Orphan
  /\ NoDelivery \notin Deliveries

ASSUME BackendIsKnown == Backend \in {"sqlite", "mysql"}

ASSUME WorkersAreFinite == IsFiniteSet(Workers)

ASSUME BoundsAreNaturals ==
  /\ MaxAttempts \in Nat \ {0}
  /\ MaxFaults \in Nat
  /\ MaxRetries \in Nat

VARIABLES row, stamp, worker, web, gate, taken,
          recovered, ambiguous, sawOpen, faults, retries

tableVars == <<row, stamp>>
ghostVars == <<recovered, ambiguous, sawOpen>>
vars == <<row, stamp, worker, web, gate, taken,
          recovered, ambiguous, sawOpen, faults, retries>>

Open == {"pending", "sending", "retry_wait"}
Terminal == {"accepted", "dead_letter", "stale", "outcome_unknown"}
Statuses == {"absent"} \cup Open \cup Terminal
\* mutant: a replay may also open a row the server has accepted
ReplayableWithAccepted == {"dead_letter", "stale", "accepted"}
Replayable == IF Backend = "mysql" THEN {"dead_letter"} ELSE {"dead_letter", "stale"}

\* "open": _gate passes and the recipient is on the allowlist;
\* "unlisted": _gate passes, the recipient is not on it; "closed": _gate raises.
Verdicts == {"open", "unlisted", "closed"}

\* What SmtpSslSender.send returns or raises, and whether the server may have
\* taken the message by then: an answer that is not a refusal may be lost on
\* the way, and a lost connection after DATA is an OSError or SMTPException.
Answers == {"accepted", "permanent", "temporary", "unknown"}
MayTake(answer) ==
  CASE answer = "accepted"  -> {TRUE}
    [] answer = "permanent" -> {FALSE}
    [] OTHER                -> BOOLEAN

Rows == [status: Statuses, attempts: Nat, owner: Workers \cup {NoOwner, Orphan},
         lease: {"none", "live", "expired"}, due: BOOLEAN, redacted: BOOLEAN,
         created: Nat]

Busy == {"claimed", "refused", "validated", "answered", "failing"}
WorkerStates == [pc: {"down", "idle"} \cup Busy, d: Deliveries \cup {NoDelivery},
                 answer: Answers \cup {"none"}, redacted: BOOLEAN,
                 status: Statuses]

WebStates == [pc: {"idle", "queueing", "retrying", "refusing"},
              d: Deliveries \cup {NoDelivery}]

NoRow == [status |-> "absent", attempts |-> 0, owner |-> NoOwner, lease |-> "none",
          due |-> TRUE, redacted |-> FALSE, created |-> 0]
WorkerAt(pc, d) == [pc |-> pc, d |-> d, answer |-> "none", redacted |-> FALSE,
                    status |-> "absent"]
Down == WorkerAt("down", NoDelivery)
Idle == WorkerAt("idle", NoDelivery)
WebIdle == [pc |-> "idle", d |-> NoDelivery]

-----------------------------------------------------------------------------
(* Rows, as each UPDATE leaves them *)

\* mutant: claim_delivery forgets the rows that wait for a retry
ClaimableNew(r) == r.status = "pending"

\* WHERE status='pending' OR (status='retry_wait' AND next_attempt_at<=now)
Claimable(r) == r.status = "pending" \/ (r.status = "retry_wait" /\ r.due)

\* ORDER BY created_at LIMIT 1
IsOldestClaimable(d) ==
  /\ Claimable(row[d])
  /\ \A e \in Deliveries : Claimable(row[e]) => row[d].created <= row[e].created

Claimed(r, w) == [r EXCEPT !.status = "sending", !.attempts = @ + 1,
                           !.owner = w, !.lease = "live"]

Released(r, status) == [r EXCEPT !.status = status, !.owner = NoOwner, !.lease = "none"]

\* WHERE status='sending' AND lease_owner=worker
Holds(w, d) == row[d].status = "sending" /\ row[d].owner = w

\* mutants: one attempt too many; a lost connection taken for an acceptance
StatusOffByOne(r, answer) ==
  CASE answer = "accepted"  -> "accepted"
    [] answer = "unknown"   -> "outcome_unknown"
    [] answer = "permanent" -> "dead_letter"
    [] answer = "temporary" -> IF r.attempts > MaxAttempts THEN "dead_letter"
                                                           ELSE "retry_wait"
StatusOptimistic(r, answer) ==
  CASE answer \in {"accepted", "unknown"} -> "accepted"
    [] answer = "permanent" -> "dead_letter"
    [] answer = "temporary" -> IF r.attempts >= MaxAttempts THEN "dead_letter"
                                                            ELSE "retry_wait"

\* mark_smtp_accepted and fail_delivery: the status an answer leads to
StatusAfter(r, answer) ==
  CASE answer = "accepted"  -> "accepted"
    [] answer = "unknown"   -> "outcome_unknown"
    [] answer = "permanent" -> "dead_letter"
    [] answer = "temporary" -> IF r.attempts >= MaxAttempts THEN "dead_letter"
                                                            ELSE "retry_wait"

Closed(r, status) == [Released(r, status) EXCEPT !.due = status # "retry_wait"]
Answered(r, answer) == Closed(r, StatusAfter(r, answer))

\* mutants: mark_stale without its status filter, or leaving accepted rows only
StaledUnfiltered(r) == Released(r, "stale")
StaledUnlessAccepted(r) == IF r.status = "accepted" THEN r ELSE Released(r, "stale")

\* mark_stale: no owner check
Staled(r) == IF r.status \in {"pending", "sending", "retry_wait", "dead_letter"}
             THEN Released(r, "stale") ELSE r

\* mutant: recovery does not look at the lease
ExpiredIgnoringLease(r) == r.status = "sending"

\* requeue_expired_leases: status='sending' AND lease_until<now
Expired(r) == r.status = "sending" /\ r.lease = "expired"
Requeued(r) == [Released(r, "retry_wait") EXCEPT !.due = TRUE]

\* retry_dead_letter: UPDATE ... WHERE status IN ('dead_letter','stale')
Replayed(r) == IF r.status \in Replayable
               THEN [r EXCEPT !.status = "pending", !.attempts = 0, !.due = TRUE]
               ELSE r

Redacted(r) == [r EXCEPT !.redacted = TRUE]

-----------------------------------------------------------------------------
Init ==
  /\ row = [d \in Deliveries |-> NoRow]
  /\ stamp = 0
  /\ worker = [w \in Workers |-> Down]
  /\ web = WebIdle
  /\ gate \in [Deliveries -> Verdicts]
  /\ taken = [d \in Deliveries |-> 0]
  /\ recovered = [d \in Deliveries |-> 0]
  /\ ambiguous = [d \in Deliveries |-> 0]
  /\ sawOpen = [w \in Workers |-> FALSE]
  /\ faults = 0
  /\ retries = 0

(* The worker process *)

\* run_real_smtp_delivery: one requeue_expired_leases, then the loop
Start(w) ==
  /\ worker[w].pc = "down"
  /\ worker' = [worker EXCEPT ![w] = Idle]
  /\ row' = [d \in Deliveries |-> IF Expired(row[d]) THEN Requeued(row[d]) ELSE row[d]]
  /\ recovered' = [d \in Deliveries |->
                     IF Expired(row[d]) THEN recovered[d] + 1 ELSE recovered[d]]
  /\ UNCHANGED <<stamp, web, gate, taken, ambiguous, sawOpen, faults, retries>>

\* claim_delivery
Claim(w) ==
  /\ worker[w].pc = "idle"
  /\ \E d \in Deliveries :
       /\ IsOldestClaimable(d)
       /\ row' = [row EXCEPT ![d] = Claimed(row[d], w)]
       /\ worker' = [worker EXCEPT ![w] = WorkerAt("claimed", d)]
       /\ sawOpen' = [sawOpen EXCEPT ![w] = gate[d] = "open"]
  /\ UNCHANGED <<stamp, web, gate, taken, recovered, ambiguous, faults, retries>>

\* mutant: revalidation asks for the lease and the hash, not for the gate
MayProceedUngated(w, d) == Holds(w, d) /\ ~row[d].redacted

\* revalidate_claim answers the row and the account ...
MayProceed(w, d) == Holds(w, d) /\ gate[d] = "open" /\ ~row[d].redacted

\* ... and the worker keeps that copy of the row,
Revalidate(w) ==
  /\ worker[w].pc = "claimed"
  /\ MayProceed(w, worker[w].d)
  /\ worker' = [worker EXCEPT ![w].pc = "validated",
                              ![w].redacted = row[worker[w].d].redacted]
  /\ UNCHANGED <<tableVars, web, gate, taken, ghostVars, faults, retries>>

\* or it raises (lease lost, gate, snapshot hash, recipient)
Refuse(w) ==
  /\ worker[w].pc = "claimed"
  /\ ~MayProceed(w, worker[w].d)
  /\ worker' = [worker EXCEPT ![w].pc = "refused"]
  /\ UNCHANGED <<tableVars, web, gate, taken, ghostVars, faults, retries>>

\* run_once, first except clause: mark_stale(claimed["delivery_id"], ...)
MarkStale(w) ==
  /\ worker[w].pc = "refused"
  /\ row' = [row EXCEPT ![worker[w].d] = Staled(@)]
  /\ worker' = [worker EXCEPT ![w] = Idle]
  /\ UNCHANGED <<stamp, web, gate, taken, ghostVars, faults, retries>>

\* sender.send: the server takes the message or not, the worker gets an answer
Submit(w, answer) ==
  /\ worker[w].pc = "validated"
  /\ \E took \in MayTake(answer) :
       /\ taken' = [taken EXCEPT ![worker[w].d] = @ + IF took THEN 1 ELSE 0]
       /\ ambiguous' = [ambiguous EXCEPT ![worker[w].d] =
                          @ + IF took /\ answer # "accepted" THEN 1 ELSE 0]
  /\ worker' = [worker EXCEPT ![w].pc = "answered", ![w].answer = answer]
  /\ UNCHANGED <<tableVars, web, gate, recovered, sawOpen, faults, retries>>

\* An accepted message whose row will not say so
Unrecorded(w) == IF worker[w].pc = "answered" /\ worker[w].answer = "accepted" THEN 1 ELSE 0
LoseAnswer(w) ==
  ambiguous' = IF worker[w].d \in Deliveries
               THEN [ambiguous EXCEPT ![worker[w].d] = @ + Unrecorded(w)]
               ELSE ambiguous

\* mark_smtp_accepted, or fail_delivery with the SmtpDeliveryError's flags
Record(w) ==
  /\ worker[w].pc = "answered"
  /\ worker[w].answer = "accepted" \/ Backend = "mysql"
  /\ Holds(w, worker[w].d)
  /\ row' = [row EXCEPT ![worker[w].d] = Answered(@, worker[w].answer)]
  /\ worker' = [worker EXCEPT ![w] = Idle]
  /\ UNCHANGED <<stamp, web, gate, taken, ghostVars, faults, retries>>

\* fail_delivery on SQLite: SELECT ... WHERE status='sending' AND lease_owner=?
\* in no transaction, ...
FailRead(w) ==
  /\ Backend = "sqlite"
  /\ worker[w].pc = "answered" /\ worker[w].answer # "accepted"
  /\ Holds(w, worker[w].d)
  /\ worker' = [worker EXCEPT ![w].pc = "failing",
                   ![w].status = StatusAfter(row[worker[w].d], worker[w].answer)]
  /\ UNCHANGED <<tableVars, web, gate, taken, ghostVars, faults, retries>>

\* ... then UPDATE ... WHERE delivery_id=?, whatever the row says by now
FailWrite(w) ==
  /\ worker[w].pc = "failing"
  /\ row' = [row EXCEPT ![worker[w].d] = Closed(@, worker[w].status)]
  /\ ambiguous' = [ambiguous EXCEPT ![worker[w].d] =
                     @ + IF row[worker[w].d].status = "accepted" THEN 1 ELSE 0]
  /\ worker' = [worker EXCEPT ![w] = Idle]
  /\ UNCHANGED <<stamp, web, gate, taken, recovered, sawOpen, faults, retries>>

\* mark_smtp_accepted and fail_delivery raise email_delivery_lease_lost; the
\* loop logs it and goes on
LeaseLost(w) ==
  /\ worker[w].pc = "answered"
  /\ ~Holds(w, worker[w].d)
  /\ LoseAnswer(w)
  /\ worker' = [worker EXCEPT ![w] = Idle]
  /\ UNCHANGED <<tableVars, web, gate, taken, recovered, sawOpen, faults, retries>>

\* any other exception (a locked database, a header the message refuses)
\* leaves run_once between two steps and is swallowed by the loop
StepFails(w) ==
  /\ worker[w].pc \in Busy
  /\ faults < MaxFaults
  /\ faults' = faults + 1
  /\ LoseAnswer(w)
  /\ worker' = [worker EXCEPT ![w] = Idle]
  /\ UNCHANGED <<tableVars, web, gate, taken, recovered, sawOpen, retries>>

\* The process dies.  The next one draws a fresh worker id, so what this one
\* owned belongs to nobody.
Crash(w) ==
  /\ worker[w].pc # "down"
  /\ faults < MaxFaults
  /\ faults' = faults + 1
  /\ LoseAnswer(w)
  /\ worker' = [worker EXCEPT ![w] = Down]
  /\ row' = [d \in Deliveries |-> IF row[d].owner = w THEN [row[d] EXCEPT !.owner = Orphan]
                                                      ELSE row[d]]
  /\ UNCHANGED <<stamp, web, gate, taken, recovered, sawOpen, retries>>

WorkerStep(w) ==
  \/ Claim(w)
  \/ Revalidate(w)
  \/ Refuse(w)
  \/ MarkStale(w)
  \/ \E answer \in Answers : Submit(w, answer)
  \/ Record(w) \/ FailRead(w) \/ FailWrite(w)
  \/ LeaseLost(w)

-----------------------------------------------------------------------------
(* The web event loop: one request at a time, its transactions apart *)

\* EmailDeliveryService.queue: approved_quote_snapshot and the allowlist ...
QueueCheck(d) ==
  /\ web = WebIdle
  /\ gate[d] = "open"
  /\ web' = [pc |-> "queueing", d |-> d]
  /\ UNCHANGED <<tableVars, worker, gate, taken, ghostVars, faults, retries>>

\* ... then queue_approved_email: _gate again and INSERT OR IGNORE
QueueInsert ==
  /\ web.pc = "queueing"
  /\ web' = WebIdle
  /\ IF gate[web.d] # "closed" /\ row[web.d].status = "absent"
     THEN /\ row' = [row EXCEPT ![web.d] = [NoRow EXCEPT !.status = "pending",
                                                         !.created = stamp]]
          /\ stamp' = stamp + 1
     ELSE UNCHANGED tableVars
  /\ UNCHANGED <<worker, gate, taken, ghostVars, faults, retries>>

\* retry_dead_letter: the read outside the transaction
RetryRead(d) ==
  /\ web = WebIdle
  /\ retries < MaxRetries
  /\ row[d].status \in Replayable
  /\ retries' = retries + 1
  /\ web' = [pc |-> "retrying", d |-> d]
  /\ UNCHANGED <<tableVars, worker, gate, taken, ghostVars, faults>>

RetryReplay ==
  /\ web.pc = "retrying"
  /\ gate[web.d] # "closed"
  /\ row' = [row EXCEPT ![web.d] = Replayed(@)]
  /\ recovered' = IF row[web.d].status \in Replayable
                  THEN [recovered EXCEPT ![web.d] = 0] ELSE recovered
  /\ web' = WebIdle
  /\ UNCHANGED <<stamp, worker, gate, taken, ambiguous, sawOpen, faults, retries>>

RetryRefuse ==
  /\ web.pc = "retrying"
  /\ gate[web.d] = "closed"
  /\ web' = [web EXCEPT !.pc = "refusing"]
  /\ UNCHANGED <<tableVars, worker, gate, taken, ghostVars, faults, retries>>

RetryMarkStale ==
  /\ web.pc = "refusing"
  /\ row' = [row EXCEPT ![web.d] = Staled(@)]
  /\ web' = WebIdle
  /\ UNCHANGED <<stamp, worker, gate, taken, ghostVars, faults, retries>>

\* the process is stopped, or the database refuses, between two transactions
WebFails ==
  /\ web.pc # "idle"
  /\ faults < MaxFaults
  /\ faults' = faults + 1
  /\ web' = WebIdle
  /\ UNCHANGED <<tableVars, worker, gate, taken, ghostVars, retries>>

WebStep == QueueInsert \/ RetryReplay \/ RetryRefuse \/ RetryMarkStale

\* email_governance: redact_terminal_content of one row past its retention
Redact(d) ==
  /\ row[d].status \in Terminal
  /\ ~row[d].redacted
  /\ row' = [row EXCEPT ![d] = Redacted(@)]
  /\ UNCHANGED <<stamp, worker, web, gate, taken, ghostVars, faults, retries>>

-----------------------------------------------------------------------------
(* Time, and what others do to the account, the quote and the approval *)

LeaseExpires(d) ==
  /\ row[d].lease = "live"
  /\ row' = [row EXCEPT ![d].lease = "expired"]
  /\ UNCHANGED <<stamp, worker, web, gate, taken, ghostVars, faults, retries>>

BackoffElapses(d) ==
  /\ ~row[d].due
  /\ row' = [row EXCEPT ![d].due = TRUE]
  /\ UNCHANGED <<stamp, worker, web, gate, taken, ghostVars, faults, retries>>

GateMoved ==
  /\ sawOpen' = [w \in Workers |-> sawOpen[w]
                   \/ (worker[w].d \in Deliveries /\ gate'[worker[w].d] = "open")]
  /\ UNCHANGED <<tableVars, worker, web, taken, recovered, ambiguous, faults, retries>>

GateChanges == gate' \in [Deliveries -> Verdicts] /\ GateMoved

DeliveryStep ==
  \/ \E w \in Workers : Start(w) \/ WorkerStep(w) \/ StepFails(w) \/ Crash(w)
  \/ \E d \in Deliveries : QueueCheck(d) \/ RetryRead(d) \/ Redact(d)
  \/ WebStep \/ WebFails
  \/ \E d \in Deliveries : LeaseExpires(d) \/ BackoffElapses(d)

Next == DeliveryStep \/ GateChanges

Spec == Init /\ [][Next]_vars

\* A supervisor restarts a dead process, a live loop keeps polling, clocks run.
Fairness ==
  /\ \A w \in Workers : WF_vars(Start(w)) /\ WF_vars(WorkerStep(w))
  /\ WF_vars(WebStep)
  /\ \A d \in Deliveries : WF_vars(LeaseExpires(d)) /\ WF_vars(BackoffElapses(d))

FairSpec == Spec /\ Fairness

-----------------------------------------------------------------------------
TypeOK ==
  /\ row \in [Deliveries -> Rows]
  /\ stamp \in Nat
  /\ worker \in [Workers -> WorkerStates]
  /\ web \in WebStates
  /\ gate \in [Deliveries -> Verdicts]
  /\ taken \in [Deliveries -> Nat]
  /\ recovered \in [Deliveries -> Nat]
  /\ ambiguous \in [Deliveries -> Nat]
  /\ sawOpen \in [Workers -> BOOLEAN]
  /\ faults \in 0..MaxFaults
  /\ retries \in 0..MaxRetries

(* Safety.  What is marked MySQL holds where fail_delivery locks the row it  *)
(* has read; on SQLite its second statement can undo what others wrote.      *)

\* MySQL.  The attempts of a row stay within max_attempts plus one for every time an
\* expired lease was requeued since the row was queued or replayed: claim and
\* requeue_expired_leases do not look at max_attempts, fail_delivery does.
AttemptsWithinBudget ==
  \A d \in Deliveries : row[d].attempts <= MaxAttempts + recovered[d]

\* A row says accepted only when the server has taken a message of that row,
\* whatever became of the leases under which it was sent.
AcceptedWasTaken ==
  \A d \in Deliveries : row[d].status = "accepted" => taken[d] > 0

\* What a worker is about to submit was vetted after its claim: account,
\* approval and allowlist were open at some moment since, and the copy it
\* holds is not the redacted text, though a redacted row can be replayed.
SubmissionIsVetted ==
  \A w \in Workers : worker[w].pc = "validated" => sawOpen[w] /\ ~worker[w].redacted

\* Workers that were told the message is accepted and have lost the row since.
Overtaken(d) == {w \in Workers : /\ worker[w].pc = "answered"
                                 /\ worker[w].answer = "accepted"
                                 /\ worker[w].d = d
                                 /\ ~Holds(w, d)}

\* A second copy of a message reaches the server only after an answer about an
\* earlier one was lost: by a dropped connection, a crash or failed update, by
\* a worker whose lease was taken over, or overwritten in the table.
CopiesNeedLostAnswers ==
  \A d \in Deliveries : taken[d] <= 1 + ambiguous[d] + Cardinality(Overtaken(d))

\* MySQL.  accepted and outcome_unknown are final: no worker, requeue, replay
\* or late mark_stale takes a row out of them.
FinalOutcomesKept ==
  [][\A d \in Deliveries : row[d].status \in {"accepted", "outcome_unknown"}
                             => row'[d].status = row[d].status]_vars

\* MySQL.  While its lease is live a row leaves sending only by its holder's own
\* answer or by being marked stale: no late answer of another worker and no
\* recovery at a process start ends a live claim.
AnswerOfHolder(d) ==
  \E w \in Workers : /\ row[d].owner = w
                      /\ worker[w].pc = "answered" /\ worker[w].d = d
                      /\ worker'[w] = Idle
LiveClaimKept ==
  [][\A d \in Deliveries :
       row[d].status = "sending" /\ row[d].lease = "live" /\ row'[d].status # "sending"
         => row'[d].status = "stale" \/ AnswerOfHolder(d)]_vars

(* The contract *)

OutcomeOf(status) ==
  CASE status = "absent"                    -> "none"
    [] status \in Open                      -> "open"
    [] status = "accepted"                  -> "accepted"
    [] status = "outcome_unknown"           -> "unknown"
    [] status \in {"dead_letter", "stale"}  -> "stopped"

Contract == INSTANCE EmailContract
              WITH outcome <- [d \in Deliveries |-> OutcomeOf(row[d].status)],
                   copies <- taken

\* MySQL.  Leases, retries, redaction and every order of the workers' steps keep the
\* contract: in particular no late mark_stale, requeue or replay of one actor
\* undoes an outcome another has written.
ImplementsContract == Contract!Spec

(* Liveness *)

\* Every queued row comes to rest, unless a process crashes or a step fails on
\* the way: whatever the gates do, the backoffs and the retries end.
QueuedComesToRest ==
  \A d \in Deliveries :
    row[d].status \in Open ~> row[d].status \in Terminal \/ faults > 0

=============================================================================
