----------------------------- MODULE EmailIntake -----------------------------
(* Incoming mail: the poll of an IMAP folder under its cursor, the stored rows *)
(* and their extraction leases, the QQ notice written with the extraction, its *)
(* dispatcher, and the review whose confirmation lets a mail be quoted. Each   *)
(* repository method is one step; pollers and the desk interleave between them.*)
EXTENDS Integers, Sequences, FiniteSets, SequencesExt

CONSTANTS Mails, Verdicts,     \* messages; the ways the filter may classify them
          Pollers, Home,       \* loops that share the tables; the one that polls this folder
          Readings,            \* what an extraction may find
          NoMail, NoReading,
          MaxAttempts,         \* extractions before fail() gives up (3 in the code)
          MaxRowVersion,          \* bound: review_version of one mail
          MaxFaults            \* bound: crashes, lapsed leases, failures, resets, reopenings

ASSUME IntakeAssumption ==
  /\ MaxAttempts \in Nat \ {0} /\ MaxRowVersion \in Nat /\ MaxFaults \in Nat
  /\ Home \in Pollers /\ NoMail \notin Mails /\ NoReading \notin Readings
  /\ Verdicts \subseteq [Mails -> {"rfq", "other", "skip"}]

VARIABLES class,     \* the verdict on each mail: extract it, store it, or only a receipt
          box,       \* the folder: validity, and the mails in UID order
          cursor,    \* ops_email_sync_cursor
          row,       \* ops_inbound_email
          review,    \* ops_email_review_revision of each mail, oldest first
          notices,   \* ops_email_notification_outbox of each mail, oldest first
          poller,    \* poll_once of each loop
          dispatch,  \* dispatch_pending: what it read and still has to send
          confirming,      \* the confirmation in hand: what preview read
          faults

intakeVars == <<class, box, cursor, row, review, notices, poller, dispatch, confirming, faults>>
outside == <<class, review, dispatch, confirming>>

NoRow == [status |-> "none", attempts |-> 0, lease |-> "free", due |-> TRUE,
          extraction |-> NoReading, version |-> 0, review |-> 0]
IdlePoller == [at |-> "idle", batch |-> <<>>, validity |-> 0, mail |-> NoMail, todo |-> {}]
IdleDesk == [mail |-> NoMail, version |-> 0, base |-> NoReading]
FailureNotice == "failure"

IntakeInit ==
  /\ class \in Verdicts
  /\ box = [validity |-> 1, mails |-> <<>>] /\ cursor = [validity |-> 0, uid |-> 0]
  /\ row = [m \in Mails |-> NoRow] /\ review = [m \in Mails |-> <<>>]
  /\ notices = [m \in Mails |-> <<>>]
  /\ poller = [p \in Pollers |-> IdlePoller]
  /\ dispatch = <<>> /\ confirming = IdleDesk /\ faults = 0

-----------------------------------------------------------------------------
(* The folder.                                                                *)

MailArrives(m) ==
  /\ \A u \in DOMAIN box.mails : box.mails[u] # m
  /\ box' = [box EXCEPT !.mails = Append(@, m)]
  /\ UNCHANGED <<cursor, row, notices, poller, outside, faults>>

\* The server rebuilds the folder: a new UIDVALIDITY, the UIDs start again.
FolderReset ==
  /\ box.mails # <<>> /\ faults < MaxFaults /\ faults' = faults + 1
  /\ box' = [validity |-> box.validity + 1, mails |-> Tail(box.mails)]
  /\ UNCHANGED <<cursor, row, notices, poller, outside>>

-----------------------------------------------------------------------------
(* A poll.                                                                    *)

At(p, where) == poller[p].at = where
Goes(p, r) == poller' = [poller EXCEPT ![p] = r]
NextEnvelope(p) ==
  Goes(p, [poller[p] EXCEPT !.at = IF Len(poller[p].batch) > 1 THEN "envelope" ELSE "recover",
                            !.batch = Tail(@), !.mail = NoMail])

\* Only the last UID is passed to the search; "n:*" always names the last message.
FirstNew(after) == IF after < Len(box.mails) THEN after + 1 ELSE Len(box.mails)
Fetched(first) == [k \in 1..(Len(box.mails) - first + 1) |->
                     [mail |-> box.mails[first + k - 1], uid |-> first + k - 1]]
FetchAfter(p) ==
  /\ At(p, "idle") /\ p = Home
  /\ Goes(p, [poller[p] EXCEPT !.at = IF box.mails = <<>> THEN "recover" ELSE "envelope",
                !.validity = box.validity,
                !.batch = IF box.mails = <<>> THEN <<>> ELSE Fetched(FirstNew(cursor.uid))])
  /\ UNCHANGED <<box, cursor, row, notices, outside, faults>>

Env(p) == Head(poller[p].batch)
SameFolder(p) == cursor.validity \in {0, poller[p].validity}

\* The cursor jumps to the end of the batch it fetched.
CursorAtBatchEnd(p) == [validity |-> poller[p].validity, uid |-> Last(poller[p].batch).uid]
CursorAfter(p) ==
  [validity |-> poller[p].validity,
   uid |-> IF Env(p).uid < cursor.uid THEN cursor.uid ELSE Env(p).uid]

\* The receipt, the row and the cursor in one transaction.
RecordSkipped(p) ==
  /\ At(p, "envelope") /\ class[Env(p).mail] = "skip" /\ SameFolder(p)
  /\ row' = [row EXCEPT ![Env(p).mail].status = IF @ = "none" THEN "ignored_non_trade" ELSE @]
  /\ cursor' = CursorAfter(p)
  /\ NextEnvelope(p)
  /\ UNCHANGED <<box, notices, outside, faults>>

\* An insert, or the row of the same message; at says whether it was created.
Persist(p) ==
  LET m == Env(p).mail
  IN /\ At(p, "envelope") /\ class[m] # "skip"
     /\ row' = [row EXCEPT ![m].status =
                  IF @ # "none" THEN @ ELSE IF class[m] = "rfq" THEN "persisted" ELSE "received"]
     /\ Goes(p, [poller[p] EXCEPT !.at = "cursor",
                   !.todo = IF row[m].status = "none" /\ class[m] = "rfq" THEN {m} ELSE {}])
     /\ UNCHANGED <<box, cursor, notices, outside, faults>>

AdvanceCursor(p) ==
  /\ At(p, "cursor") /\ SameFolder(p)
  /\ cursor' = CursorAfter(p)
  /\ IF poller[p].todo = {} THEN NextEnvelope(p)
     ELSE Goes(p, [poller[p] EXCEPT !.at = "acquire"])
  /\ UNCHANGED <<box, row, notices, outside, faults>>

\* uidvalidity_changed ends the poll before anything is recovered.
PollRefused(p) ==
  /\ ~SameFolder(p)
  /\ \/ At(p, "cursor")
     \/ At(p, "envelope") /\ class[Env(p).mail] = "skip"
  /\ Goes(p, IdlePoller)
  /\ UNCHANGED <<box, cursor, row, notices, outside, faults>>

\* An interrupted extraction is left to its worker.
RecoverableUnstarted == {m \in Mails :
  /\ class[m] = "rfq"
  /\ \/ row[m].status = "persisted"
     \/ row[m].status = "retry_wait" /\ row[m].due}
Recoverable == {m \in Mails :
  /\ class[m] = "rfq"
  /\ \/ row[m].status = "persisted"
     \/ row[m].status = "retry_wait" /\ row[m].due
     \/ row[m].status = "extracting" /\ row[m].lease # "live"}
\* The list is of every account's rows: a loop that polls another folder takes part.
RecoverPending(p) ==
  /\ \/ At(p, "recover")
     \/ At(p, "idle") /\ p # Home /\ Recoverable # {}
  /\ Goes(p, IF Recoverable = {} THEN IdlePoller
             ELSE [poller[p] EXCEPT !.at = "acquire", !.todo = Recoverable])
  /\ UNCHANGED <<box, cursor, row, notices, outside, faults>>

\* On to the next envelope of the batch, or the next row to recover.
Onward(p, todo) ==
  IF poller[p].batch # <<>> THEN NextEnvelope(p)
  ELSE Goes(p, IF todo = {} THEN IdlePoller
               ELSE [poller[p] EXCEPT !.at = "acquire", !.mail = NoMail, !.todo = todo])

MayAcquire(m) ==
  /\ row[m].status \in {"persisted", "retry_wait", "extracting"}
  /\ row[m].lease # "live"
\* process_stored, for the mail just persisted or one to recover.
Acquire(p, m) ==
  /\ At(p, "acquire") /\ m \in poller[p].todo
  /\ \/ /\ MayAcquire(m)
        /\ row' = [row EXCEPT ![m].status = "extracting", ![m].lease = "live",
                              ![m].attempts = @ + 1]
        /\ Goes(p, [poller[p] EXCEPT !.at = "extract", !.mail = m, !.todo = @ \ {m}])
     \/ /\ ~MayAcquire(m)
        /\ Onward(p, poller[p].todo \ {m}) /\ UNCHANGED row
  /\ UNCHANGED <<box, cursor, notices, outside, faults>>

-----------------------------------------------------------------------------
(* The end of an extraction. Neither outcome looks at the lease it was under. *)

Announced(list, c) ==
  IF list = <<>> THEN <<[content |-> c, status |-> "pending"]>>
  ELSE IF Last(list).content = c THEN list
  ELSE Append(IF Last(list).status = "sent" THEN list ELSE Front(list),
              [content |-> c, status |-> "pending"])

\* A mail that was confirmed meanwhile stays confirmed.
CompletedQuietly(m, r) ==
  [row[m] EXCEPT !.status = IF @ = "confirmed" THEN @ ELSE "needs_review",
                 !.extraction = r, !.lease = "free"]
Completed(m, r) ==
  [row[m] EXCEPT !.status = "needs_review", !.extraction = r, !.lease = "free"]
CompleteExtraction(p, r) ==
  LET m == poller[p].mail
  IN /\ At(p, "extract")
     /\ row' = [row EXCEPT ![m] = Completed(m, r)]
     /\ notices' = [notices EXCEPT ![m] = Announced(@, r)]
     /\ Onward(p, poller[p].todo)
     /\ UNCHANGED <<box, cursor, outside, faults>>

Failed(m) ==
  [row[m] EXCEPT !.status = IF row[m].attempts < MaxAttempts THEN "retry_wait" ELSE "failed",
                 !.due = FALSE, !.lease = "free"]
\* The row first, then the notice: a crash may come between the two.
Fail(p) ==
  LET m == poller[p].mail
  IN /\ At(p, "extract")
     /\ row' = [row EXCEPT ![m] = Failed(m)]
     /\ \/ /\ notices' = [notices EXCEPT ![m] = Announced(@, FailureNotice)]
           /\ Onward(p, poller[p].todo) /\ UNCHANGED faults
        \/ /\ faults < MaxFaults /\ faults' = faults + 1
           /\ Goes(p, IdlePoller) /\ UNCHANGED notices
     /\ UNCHANGED <<box, cursor, outside>>

RetryDue(m) ==
  /\ row[m].status = "retry_wait" /\ ~row[m].due
  /\ row' = [row EXCEPT ![m].due = TRUE]
  /\ UNCHANGED <<box, cursor, notices, poller, outside, faults>>

\* 120 seconds go by; the extractor may still be at work.
LeaseLapses(m) ==
  /\ row[m].lease = "live"
  /\ \/ \A p \in Pollers : poller[p].mail # m \/ ~At(p, "extract")
     \/ faults < MaxFaults
  /\ faults' = IF \A p \in Pollers : poller[p].mail # m \/ ~At(p, "extract")
               THEN faults ELSE faults + 1
  /\ row' = [row EXCEPT ![m].lease = "lapsed"]
  /\ UNCHANGED <<box, cursor, notices, poller, outside>>

Crash(p) ==
  /\ poller[p] # IdlePoller /\ faults < MaxFaults /\ faults' = faults + 1
  /\ Goes(p, IdlePoller)
  /\ UNCHANGED <<box, cursor, row, notices, outside>>

ReopenFailed(m) ==
  /\ row[m].status = "failed" /\ faults < MaxFaults /\ faults' = faults + 1
  /\ row' = [row EXCEPT ![m].status = "retry_wait", ![m].attempts = 0, ![m].due = TRUE]
  /\ UNCHANGED <<box, cursor, notices, poller, outside>>

-----------------------------------------------------------------------------
(* The notification outbox and its dispatcher.                                *)

tables == <<class, box, cursor, row, review, poller, confirming>>
\* The five minutes of a retry_wait may have gone by.
Undelivered == {x \in UNION {{[mail |-> m, n |-> k, content |-> notices[m][k].content] :
                            k \in DOMAIN notices[m]} : m \in Mails} :
              notices[x.mail][x.n].status \in {"pending", "retry_wait"}}
ReadPending ==
  /\ dispatch = <<>> /\ Undelivered # {}
  /\ dispatch' = SetToSeq(Undelivered)
  /\ UNCHANGED <<tables, notices, faults>>

\* The channel's answer to the first of them; the rows may change meanwhile.
Item == Head(dispatch)
\* By notification_id: whatever the row says by now counts as sent.
MarkSent ==
  /\ dispatch # <<>>
  /\ notices' = [notices EXCEPT ![Item.mail][Item.n].status = "sent"]
  /\ dispatch' = Tail(dispatch)
  /\ UNCHANGED <<tables, faults>>
MarkFailed ==
  /\ dispatch # <<>> /\ faults < MaxFaults /\ faults' = faults + 1
  /\ notices' = [notices EXCEPT ![Item.mail][Item.n].status = "retry_wait"]
  /\ dispatch' = Tail(dispatch)
  /\ UNCHANGED <<tables>>
DispatcherCrash ==
  /\ dispatch # <<>> /\ faults < MaxFaults /\ faults' = faults + 1
  /\ dispatch' = <<>>
  /\ UNCHANGED <<tables, notices>>

-----------------------------------------------------------------------------
(* The review.                                                                *)

mail == <<class, box, cursor, notices, poller, dispatch>>
\* confirm() previews first: the version the page showed, the extraction it edits.
Preview(m) ==
  /\ confirming = IdleDesk
  /\ row[m].status = "needs_review" /\ row[m].extraction # NoReading
  /\ row[m].version < MaxRowVersion
  /\ confirming' = [mail |-> m, version |-> row[m].version, base |-> row[m].extraction]
  /\ UNCHANGED <<mail, row, review, faults>>

StillCurrent(m) ==
  /\ row[m].status = "needs_review" /\ row[m].version = confirming.version
  /\ row[m].extraction = confirming.base
ConfirmReview ==
  LET m == confirming.mail
  IN /\ confirming # IdleDesk /\ StillCurrent(m)
     /\ review' = [review EXCEPT ![m] = Append(@, [base |-> confirming.base, status |-> "confirmed"])]
     /\ row' = [row EXCEPT ![m].status = "confirmed", ![m].version = @ + 1,
                           ![m].review = Len(review[m]) + 1]
     /\ confirming' = IdleDesk
     /\ UNCHANGED <<mail, faults>>
ConfirmRefused ==
  /\ confirming # IdleDesk
  /\ ~StillCurrent(confirming.mail)
  /\ confirming' = IdleDesk
  /\ UNCHANGED <<mail, row, review, faults>>

Superseded(list) == [k \in DOMAIN list |-> [list[k] EXCEPT !.status = "superseded"]]
ReopenReview(m) ==
  /\ row[m].status \in {"needs_review", "confirmed"} /\ row[m].version < MaxRowVersion
  /\ faults < MaxFaults /\ faults' = faults + 1
  /\ row' = [row EXCEPT ![m].status = "retry_wait", ![m].attempts = 0, ![m].due = TRUE,
                        ![m].lease = "free", ![m].review = 0, ![m].version = @ + 1]
  /\ review' = [review EXCEPT ![m] = Superseded(@)]
  /\ UNCHANGED <<mail, confirming>>

\* What the quote desk may use: require_confirmed finds the revision.
GateOpen(m) ==
  /\ row[m].status = "confirmed" /\ row[m].review # 0
  /\ review[m][row[m].review].status = "confirmed"

-----------------------------------------------------------------------------

PollStep(p) ==
  \/ FetchAfter(p) \/ RecordSkipped(p) \/ Persist(p) \/ AdvanceCursor(p) \/ PollRefused(p)
  \/ RecoverPending(p) \/ \E m \in Mails : Acquire(p, m)
  \/ \E r \in Readings : CompleteExtraction(p, r)
DispatchStep == ReadPending \/ MarkSent
MailStep(m) == MailArrives(m) \/ ReopenFailed(m) \/ Preview(m) \/ ReopenReview(m)
TimeStep(m) == RetryDue(m) \/ LeaseLapses(m)

IntakeNext ==
  \/ \E p \in Pollers : PollStep(p) \/ Fail(p) \/ Crash(p)
  \/ \E m \in Mails : MailStep(m) \/ TimeStep(m)
  \/ FolderReset \/ DispatchStep \/ MarkFailed \/ DispatcherCrash
  \/ ConfirmReview \/ ConfirmRefused

\* The loops sleep and poll again for as long as the process runs; clocks go on.
IntakeFairness ==
  /\ \A p \in Pollers : WF_intakeVars(PollStep(p))
  /\ \A m \in Mails : WF_intakeVars(TimeStep(m))
IntakeSpec == IntakeInit /\ [][IntakeNext]_intakeVars /\ IntakeFairness

-----------------------------------------------------------------------------
(* Properties.                                                                *)

\* The cursor never passes a mail that is not stored: whatever crashes or
\* whichever loop polls, no message of the folder the cursor is about is lost.
CursorCovers ==
  cursor.validity = box.validity =>
    \A u \in DOMAIN box.mails : u <= cursor.uid => row[box.mails[u]].status # "none"

\* What may be quoted is what the reviewer saw: while the gate is open for a
\* mail, its confirmed revision was made from the extraction the row holds,
\* although a late extraction may write the row at any time.
QuotedIsCurrent ==
  \A m \in Mails : GateOpen(m) => review[m][row[m].review].base = row[m].extraction

\* A request for quotation once stored is sooner or later ready for review or
\* given up, through crashes, failures and lapsed leases; only a folder with a
\* new UIDVALIDITY stops the polling that would recover it.
StoredIsDecided ==
  \A m \in Mails :
    row[m].status \in {"persisted", "extracting", "retry_wait"} ~>
      (row[m].status \in {"needs_review", "confirmed", "failed"} \/ box.validity # 1)

=============================================================================
