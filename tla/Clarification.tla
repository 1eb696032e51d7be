---------------------------- MODULE Clarification ----------------------------
(* The outbox of automatic replies that ask a customer for missing RFQ fields: *)
(* queue_for_inbound after an extraction, and the delivery worker of each      *)
(* process. Unlike EmailDelivery it has one row per mail for ever, no replay,  *)
(* and leases that only a starting process takes back.                         *)
EXTENDS Integers, FiniteSets

CONSTANTS Enquiries, Gaps, Senders,  \* mails, what an extraction may miss, processes
          NoEnquiry, NoSender, Gone,  \* Gone owns the rows of a process that died
          Attempts,                \* max_attempts (5 in the code)
          MaxMisfortunes, MaxReadings  \* bounds: faults; extractions of one mail

ASSUME ClarificationAssumption ==
  /\ Attempts \in Nat \ {0} /\ MaxMisfortunes \in Nat /\ MaxReadings \in Nat
  /\ NoEnquiry \notin Enquiries /\ NoSender \notin Senders /\ Gone \notin Senders \cup {NoSender}

VARIABLES enquiry,   \* ops_inbound_email: status, fields still missing
          toAsk,     \* mails of the poll's result not yet passed to queue_for_inbound
          account,   \* whether inbound is enabled and the account healthy
          request,   \* ops_email_clarification_delivery
          queued,    \* how many rows there are: the order of created_at
          sender,    \* EmailDeliveryWorker.run_once of each process
          asked,     \* copies the mail server took (external)
          unrecorded,\* copies whose acceptance the table does not show
          misfortunes

clarVars == <<enquiry, toAsk, account, request, queued, sender, asked, unrecorded, misfortunes>>
mailSide == <<enquiry, toAsk, account>>
served == <<asked, unrecorded>>

NoRequest == [status |-> "absent", asks |-> {}, attempts |-> 0, owner |-> NoSender,
              expired |-> FALSE, due |-> TRUE, created |-> 0]
SenderAt(pc, m) == [pc |-> pc, mail |-> m, answer |-> "none", verdict |-> "none"]
Resting == SenderAt("idle", NoEnquiry)
Off == SenderAt("down", NoEnquiry)

ClarInit ==
  /\ enquiry = [m \in Enquiries |-> [status |-> "persisted", missing |-> {}, readings |-> 0]]
  /\ toAsk = {} /\ account = TRUE
  /\ request = [m \in Enquiries |-> NoRequest] /\ queued = 0
  /\ sender = [s \in Senders |-> Off]
  /\ asked = [m \in Enquiries |-> 0] /\ unrecorded = [m \in Enquiries |-> 0] /\ misfortunes = 0

Misfortune == misfortunes < MaxMisfortunes /\ misfortunes' = misfortunes + 1

-----------------------------------------------------------------------------
(* Ingestion and review.                                                      *)

\* complete_extraction; the poll hands what needs review to the outbox.
Extracted(m) ==
  /\ enquiry[m].status \in {"persisted", "retry_wait"} /\ enquiry[m].readings < MaxReadings
  /\ \E missing \in SUBSET Gaps :
       enquiry' = [enquiry EXCEPT ![m] = [status |-> "needs_review", missing |-> missing,
                                          readings |-> @.readings + 1]]
  /\ toAsk' = toAsk \cup {m}
  /\ UNCHANGED <<account, request, queued, sender, served, misfortunes>>

\* Nothing missing, the mail no longer under review, the account not healthy: an
\* EmailClarificationError, which the poll notes. An existing row is never refreshed.
Eligible(m) == enquiry[m].missing # {} /\ enquiry[m].status = "needs_review" /\ account
\* mutant: no look for an existing row
MayQueueAgain(m) == Eligible(m)
MayQueue(m) == request[m].status = "absent" /\ Eligible(m)
QueueForInbound(m) ==
  /\ m \in toAsk /\ toAsk' = toAsk \ {m}
  /\ IF MayQueue(m)
     THEN /\ request' = [request EXCEPT ![m] = [NoRequest EXCEPT !.status = "pending",
                            !.asks = enquiry[m].missing, !.created = queued + 1]]
          /\ queued' = queued + 1
     ELSE UNCHANGED <<request, queued>>
  /\ UNCHANGED <<enquiry, account, sender, served, misfortunes>>

\* The ingestion loop ends between the extraction and the queueing.
PollCrash ==
  /\ toAsk # {} /\ Misfortune /\ toAsk' = {}
  /\ UNCHANGED <<enquiry, account, request, queued, sender, served>>

Reviewed(m) ==
  /\ enquiry[m].status = "needs_review"
  /\ \E next \in {"confirmed", "retry_wait"} : enquiry' = [enquiry EXCEPT ![m].status = next]
  /\ UNCHANGED <<toAsk, account, request, queued, sender, served, misfortunes>>

AccountMoves ==
  /\ Misfortune /\ account' = ~account
  /\ UNCHANGED <<enquiry, toAsk, request, queued, sender, served>>

-----------------------------------------------------------------------------
(* The worker.                                                                *)

Put(s, r) == sender' = [sender EXCEPT ![s] = r]
Serves(s, pc) == sender[s].pc = pc
Let(m, status) == [request[m] EXCEPT !.status = status, !.owner = NoSender, !.expired = FALSE]
Holding(s) == LET m == sender[s].mail
              IN request[m].status = "sending" /\ request[m].owner = s

\* requeue_expired_leases, once, before the loop
Overdue(m) == request[m].status = "sending" /\ request[m].expired
SenderStart(s) ==
  /\ Serves(s, "down") /\ Put(s, Resting)
  /\ request' = [m \in Enquiries |-> IF Overdue(m) THEN [Let(m, "retry_wait") EXCEPT !.due = TRUE]
                                               ELSE request[m]]
  /\ UNCHANGED <<mailSide, queued, served, misfortunes>>

\* claim_delivery: an expired lease is no reason to claim
MayClaim(m) == \/ request[m].status = "pending"
               \/ request[m].status = "retry_wait" /\ request[m].due
ClaimRequest(s, m) ==
  /\ Serves(s, "idle") /\ MayClaim(m)
  /\ \A n \in Enquiries : MayClaim(n) => request[m].created <= request[n].created
  /\ request' = [request EXCEPT ![m].status = "sending", ![m].attempts = @ + 1,
                                ![m].owner = s, ![m].expired = FALSE]
  /\ Put(s, SenderAt("claimed", m))
  /\ UNCHANGED <<mailSide, queued, served, misfortunes>>

\* Neither the lease's end nor the review of the mail matters.
StillMine(s) == Holding(s) /\ account
RevalidateRequest(s) ==
  /\ Serves(s, "claimed") /\ StillMine(s)
  /\ Put(s, [sender[s] EXCEPT !.pc = "validated"])
  /\ UNCHANGED <<mailSide, request, queued, served, misfortunes>>
\* mark_stale: no owner is asked for
Withdraw(s) ==
  /\ Serves(s, "claimed") /\ ~StillMine(s)
  /\ LET m == sender[s].mail
     IN request' = [request EXCEPT ![m] =
          IF @.status \in {"pending", "sending", "retry_wait", "dead_letter"}
          THEN Let(m, "stale") ELSE @]
  /\ Put(s, Resting)
  /\ UNCHANGED <<mailSide, queued, served, misfortunes>>

\* sender.send: a copy the server took counts as unrecorded until the row says so
SendRequest(s, answer) ==
  LET m == sender[s].mail
  IN /\ Serves(s, "validated")
     /\ \E took \in CASE answer = "accepted" -> {1} [] answer = "permanent" -> {0}
                      [] OTHER -> {0, 1} :
          /\ asked' = [asked EXCEPT ![m] = @ + took]
          /\ unrecorded' = [unrecorded EXCEPT ![m] = @ + took]
     /\ Put(s, [sender[s] EXCEPT !.pc = "answered", !.answer = answer])
     /\ UNCHANGED <<mailSide, request, queued, misfortunes>>

\* mark_smtp_accepted: one conditional UPDATE
RecordAccepted(s) ==
  LET m == sender[s].mail
  IN /\ Serves(s, "answered") /\ sender[s].answer = "accepted" /\ Holding(s)
     /\ request' = [request EXCEPT ![m] = Let(m, "accepted")]
     /\ unrecorded' = [unrecorded EXCEPT ![m] = @ - 1]
     /\ Put(s, Resting)
     /\ UNCHANGED <<mailSide, queued, asked, misfortunes>>

Verdict(m, answer) ==
  CASE answer = "unknown" -> "outcome_unknown"
    [] answer = "permanent" \/ request[m].attempts >= Attempts -> "dead_letter"
    [] OTHER -> "retry_wait"
\* fail_delivery: the SELECT runs before the transaction begins, ...
ReadFailed(s) ==
  /\ Serves(s, "answered") /\ sender[s].answer # "accepted" /\ Holding(s)
  /\ Put(s, [sender[s] EXCEPT !.pc = "failing",
                              !.verdict = Verdict(sender[s].mail, sender[s].answer)])
  /\ UNCHANGED <<mailSide, request, queued, served, misfortunes>>
\* ... and the UPDATE asks neither for the status nor for the owner.
WriteFailed(s) ==
  LET m == sender[s].mail
  IN /\ Serves(s, "failing")
     /\ request' = [request EXCEPT ![m] = [Let(m, sender[s].verdict) EXCEPT !.due = FALSE]]
     /\ unrecorded' = [unrecorded EXCEPT ![m] =
                         @ + IF request[m].status = "accepted" THEN 1 ELSE 0]
     /\ Put(s, Resting)
     /\ UNCHANGED <<mailSide, queued, asked, misfortunes>>
ClaimWasLost(s) ==
  /\ Serves(s, "answered") /\ ~Holding(s) /\ Put(s, Resting)
  /\ UNCHANGED <<mailSide, request, queued, served, misfortunes>>

\* Any other exception: the loop logs it and goes on.
SenderFails(s) ==
  /\ ~Serves(s, "idle") /\ ~Serves(s, "down") /\ Misfortune /\ Put(s, Resting)
  /\ UNCHANGED <<mailSide, request, queued, served>>
\* The next process draws a worker id of its own.
SenderCrash(s) ==
  /\ ~Serves(s, "down") /\ Misfortune /\ Put(s, Off)
  /\ request' = [m \in Enquiries |-> IF request[m].owner = s THEN [request[m] EXCEPT !.owner = Gone]
                                                         ELSE request[m]]
  /\ UNCHANGED <<mailSide, queued, served>>

SixtySeconds(m) ==
  /\ request[m].status = "sending" /\ ~request[m].expired
  /\ request' = [request EXCEPT ![m].expired = TRUE]
  /\ UNCHANGED <<mailSide, queued, sender, served, misfortunes>>
BackoffOver(m) ==
  /\ request[m].status = "retry_wait" /\ ~request[m].due
  /\ request' = [request EXCEPT ![m].due = TRUE]
  /\ UNCHANGED <<mailSide, queued, sender, served, misfortunes>>

-----------------------------------------------------------------------------

Answers == {"accepted", "permanent", "temporary", "unknown"}
SenderStep(s) ==
  \/ \E m \in Enquiries : ClaimRequest(s, m)
  \/ RevalidateRequest(s) \/ Withdraw(s)
  \/ \E answer \in Answers : SendRequest(s, answer)
  \/ RecordAccepted(s) \/ ReadFailed(s) \/ WriteFailed(s) \/ ClaimWasLost(s)

ClarNext ==
  \/ \E m \in Enquiries : Extracted(m) \/ QueueForInbound(m) \/ Reviewed(m)
                      \/ SixtySeconds(m) \/ BackoffOver(m)
  \/ \E s \in Senders : SenderStart(s) \/ SenderStep(s) \/ SenderFails(s) \/ SenderCrash(s)
  \/ PollCrash \/ AccountMoves

ClarSpec == ClarInit /\ [][ClarNext]_clarVars

-----------------------------------------------------------------------------
(* Properties.                                                                *)

\* A customer is asked once, however often a reopened mail is extracted again:
\* every further copy of a request has one before it whose acceptance the table
\* does not show, because the answer was lost, the process died, or another
\* process took the row over (queue_for_inbound, claim_delivery).
AskedOnceUnlessLost ==
  \A m \in Enquiries : asked[m] <= 1 + unrecorded[m]

=============================================================================
