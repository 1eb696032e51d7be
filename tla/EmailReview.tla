----------------------------- MODULE EmailReview -----------------------------
(* From an extraction to a quote waiting for approval: what the validator      *)
(* leaves of a model's reading, the review that fills its gaps, the revision   *)
(* it confirms, and the quote the desk makes of that revision. A mail's row is *)
(* also written by whoever extracts it; a request of the desk takes one step   *)
(* per repository call, and the other writer moves between them.               *)
EXTENDS Integers, Sequences

CONSTANTS ModelReadings,      \* what models say of the mail
          Edits,         \* the lists of changes reviewers send
          Keys,          \* idempotency keys
          NoExtraction,
          MaxReviews, MaxQuotes,   \* bounds: revisions, quotes
          MaxChanges,              \* bound: extractions, supersessions, sales, crashes
          MaxMarkets               \* bound: changes of the catalogue

ASSUME ReviewAssumption == MaxReviews \in Nat /\ MaxQuotes \in Nat /\ MaxChanges \in Nat /\ MaxMarkets \in Nat

VARIABLES inbound,     \* ops_inbound_email
          revisions,   \* ops_email_review_revision, oldest first
          confirmation,        \* the request in hand
          work,        \* ops_email_quote_workflow
          quotes,      \* quotes with their approval records: the review each was made from
          answers,     \* ghost: which review each key was answered with
          market,      \* what the catalogue allows
          changes, markets

reviewVars == <<inbound, revisions, confirmation, work, quotes, answers, market, changes, markets>>

-----------------------------------------------------------------------------
(* A node of an RFQ has a status and one or two parts; a part without a value  *)
(* is "none".                                                                  *)

Fields == {"country", "email", "term", "quantity"}     \* a text, the header's address, two pairs
Parts == [country |-> {"value"}, email |-> {"value"},
          term |-> {"incoterm", "place"}, quantity |-> {"value", "unit"}]
Checked == Fields \ {"email"}
Blank(f) == [status |-> "pending", parts |-> [p \in Parts[f] |-> "none"]]

\* validate_rfq_v2 on a reading: [status, parts, quoted] of each field, quoted when its
\* evidence is in the mail. Texts and quantities lose their value, the term everything.
Unproved(node) ==
  \/ node.status = "extracted" /\ ~node.quoted
  \/ node.status \notin {"extracted", "pending"}
     /\ ~(node.quoted /\ \E p \in DOMAIN node.parts : p # "unit" /\ node.parts[p] # "none")
StatusOf(f, node) ==
  IF f = "quantity" /\ node.parts["unit"] = "none" THEN "pending"
  ELSE IF node.status = "pending" \/ Unproved(node) THEN "pending" ELSE "extracted"
Validated(f, node) ==
  LET pending == StatusOf(f, node) = "pending"
  IN IF f = "email" THEN [status |-> "header", parts |-> [value |-> "header"]]
     ELSE IF pending /\ f = "term" THEN Blank(f)
     ELSE [status |-> StatusOf(f, node),
           parts |-> [p \in Parts[f] |-> IF pending /\ p = "value" THEN "none" ELSE node.parts[p]]]
ValidateRfq(reading) == [f \in Fields |-> Validated(f, reading[f])]

\* missing_fields as the validator lists them, and as _recompute does.
Listed(rfq) == {f \in Checked : rfq[f].status = "pending"}
RecomputeByStatus(rfq) == {f \in Checked : rfq[f].status = "pending"}
Recompute(rfq) ==
  {f \in Checked : rfq[f].status = "pending" \/ \E p \in Parts[f] : rfq[f].parts[p] = "none"}

AgentCheck(row) ==
  CASE row.status = "confirmed" -> "business_confirmed"
    [] row.status = "needs_review" /\ Listed(row.extraction) # {} -> "business_input_required"
    [] row.status = "needs_review" -> "ready_for_business_confirmation"
    [] OTHER -> "not_applicable"

\* A change: [field, part, value, source, stands]; a quote stands where it is said to.
ValidChange(c) ==
  /\ c.value # "invalid"
  /\ CASE c.source = "email_evidence" -> c.stands
       [] c.source = "header_evidence" -> c.field = "email" /\ c.value = "header"
       [] c.source = "operator_input" -> c.stands     \* a known reason and a note
ResultStatus == [email_evidence |-> "extracted", header_evidence |-> "header",
                 operator_input |-> "human"]
ValidEdit(edit) ==
  /\ \A k \in DOMAIN edit : ValidChange(edit[k])
  /\ \A j, k \in DOMAIN edit : j # k => <<edit[j].field, edit[j].part>> # <<edit[k].field, edit[k].part>>

\* A change of one part gives the whole node its status.
ChangesOf(edit, f) == {k \in DOMAIN edit : edit[k].field = f}
Edited(edit, rfq) ==
  [f \in Fields |->
     IF ChangesOf(edit, f) = {} THEN rfq[f]
     ELSE LET last == CHOOSE k \in ChangesOf(edit, f) : \A j \in ChangesOf(edit, f) : j <= k
          IN [status |-> ResultStatus[edit[last].source],
              parts |-> [p \in Parts[f] |->
                 IF \E k \in ChangesOf(edit, f) : edit[k].part = p
                 THEN edit[CHOOSE k \in ChangesOf(edit, f) : edit[k].part = p].value
                 ELSE rfq[f].parts[p]]]]

-----------------------------------------------------------------------------

NoConfirmation == [at |-> "idle", key |-> "none", edit |-> <<>>, version |-> 0,
             snapshot |-> NoExtraction, base |-> NoExtraction, review |-> 0, outcome |-> "none"]
ReviewInit ==
  /\ \E r \in ModelReadings :
       inbound = [status |-> "needs_review", extraction |-> ValidateRfq(r), version |-> 0, review |-> 0]
  /\ revisions = <<>> /\ confirmation = NoConfirmation
  /\ work = [review |-> 0, quote |-> 0, status |-> "none"] /\ quotes = <<>>
  /\ answers = {} /\ market = "sells" /\ changes = 0 /\ markets = 0

Reviews == 1..Len(revisions)
elsewhere == <<market, changes, markets>>
Refuse == confirmation' = NoConfirmation

\* The same request is answered as before; another one under the key is a conflict.
RecordedUnder(key) == {n \in Reviews : revisions[n].key = key}
SameRequest(n) == revisions[n].edit = confirmation.edit /\ revisions[n].version = confirmation.version + 1
AnswerRecorded(n) ==
  IF SameRequest(n)
  THEN /\ answers' = answers \cup {[key |-> confirmation.key, edit |-> confirmation.edit, review |-> n]}
       /\ confirmation' = [confirmation EXCEPT !.at = "quote", !.review = n]
  ELSE Refuse /\ UNCHANGED answers

\* The page may be as old as it likes; If-Match only repeats the version in the body.
Submit(key, edit, version) ==
  /\ confirmation = NoConfirmation /\ version <= inbound.version
  /\ confirmation' = [confirmation EXCEPT !.at = "lookup", !.key = key, !.edit = edit, !.version = version]
  /\ UNCHANGED <<inbound, revisions, work, quotes, answers, elsewhere>>

LookUp ==
  /\ confirmation.at = "lookup"
  /\ IF RecordedUnder(confirmation.key) # {}
     THEN \E n \in RecordedUnder(confirmation.key) : AnswerRecorded(n)
     ELSE confirmation' = [confirmation EXCEPT !.at = "preview"] /\ UNCHANGED answers
  /\ UNCHANGED <<inbound, revisions, work, quotes, elsewhere>>

Reviewable == inbound.status = "needs_review" /\ inbound.version = confirmation.version
PreviewEdit ==
  /\ confirmation.at = "preview"
  /\ LET candidate == Edited(confirmation.edit, inbound.extraction)
     IN IF Reviewable /\ ValidEdit(confirmation.edit) /\ Recompute(candidate) = {}
        THEN confirmation' = [confirmation EXCEPT !.at = "hash", !.snapshot = candidate]
        ELSE Refuse
  /\ UNCHANGED <<inbound, revisions, work, quotes, answers, elsewhere>>

\* preview reads the row a second time for the hash of what it was based on.
HashBase ==
  /\ confirmation.at = "hash"
  /\ confirmation' = [confirmation EXCEPT !.at = "confirm", !.base = inbound.extraction]
  /\ UNCHANGED <<inbound, revisions, work, quotes, answers, elsewhere>>

RecordReview ==
  /\ confirmation.at = "confirm" /\ Len(revisions) < MaxReviews
  /\ IF RecordedUnder(confirmation.key) # {}
     THEN /\ \E n \in RecordedUnder(confirmation.key) : AnswerRecorded(n)
          /\ UNCHANGED <<inbound, revisions>>
     ELSE IF ~Reviewable \/ inbound.extraction # confirmation.base
     THEN Refuse /\ UNCHANGED <<inbound, revisions, answers>>
     ELSE LET n == Len(revisions) + 1
          IN /\ revisions' = Append(revisions,
                  [key |-> confirmation.key, edit |-> confirmation.edit, version |-> confirmation.version + 1,
                   base |-> confirmation.base, snapshot |-> confirmation.snapshot, status |-> "confirmed"])
             /\ inbound' = [inbound EXCEPT !.status = "confirmed", !.version = @ + 1, !.review = n]
             /\ answers' = answers \cup {[key |-> confirmation.key, edit |-> confirmation.edit, review |-> n]}
             /\ confirmation' = [confirmation EXCEPT !.at = "quote", !.review = n]
  /\ UNCHANGED <<work, quotes, elsewhere>>

-----------------------------------------------------------------------------
(* Making the quote: at once, and again whenever the list of work is read.     *)

\* review_hash is the hash of the snapshot; the row is one per mail.
SameHash(m, n) == m # 0 /\ n # 0 /\ revisions[m].snapshot = revisions[n].snapshot
AlreadyQuotedOpen(n) ==
  work.quote # 0 /\ SameHash(work.review, n) /\ work.status = "pending_approval"
AlreadyQuoted(n) == work.quote # 0 /\ SameHash(work.review, n)

GateFinds(n) ==
  /\ inbound.status = "confirmed" /\ inbound.review = n
  /\ revisions[n].status = "confirmed"
  /\ Recompute(revisions[n].snapshot) = {}

SyncConfirmed ==
  /\ confirmation = NoConfirmation /\ inbound.status = "confirmed" /\ inbound.review # 0
  /\ confirmation' = [confirmation EXCEPT !.at = "quote", !.review = inbound.review]
  /\ UNCHANGED <<inbound, revisions, work, quotes, answers, elsewhere>>

\* No product, too few, too many, no price, another delivery term: one outcome here.
BuildQuote == IF market = "sells" THEN "built" ELSE "blocked"
MaterializeConfirmed ==
  /\ confirmation.at = "quote"
  /\ IF AlreadyQuoted(confirmation.review) \/ ~GateFinds(confirmation.review) THEN Refuse
     ELSE confirmation' = [confirmation EXCEPT !.at = "save", !.outcome = BuildQuote]
  /\ UNCHANGED <<inbound, revisions, work, quotes, answers, elsewhere>>

\* Blocking leaves the quote the row names.
SetBlocked ==
  /\ confirmation.at = "save" /\ confirmation.outcome = "blocked"
  /\ work' = [work EXCEPT !.review = confirmation.review, !.status = "quote_blocked"]
  /\ Refuse
  /\ UNCHANGED <<inbound, revisions, quotes, answers, elsewhere>>

SaveQuote ==
  /\ confirmation.at = "save" /\ confirmation.outcome = "built" /\ Len(quotes) < MaxQuotes
  /\ IF AlreadyQuoted(confirmation.review) THEN UNCHANGED <<work, quotes>>
     ELSE /\ quotes' = Append(quotes, [review |-> confirmation.review, status |-> "pending_approval"])
          /\ work' = [review |-> confirmation.review, quote |-> Len(quotes) + 1, status |-> "pending_approval"]
  /\ Refuse
  /\ UNCHANGED <<inbound, revisions, answers, elsewhere>>

DecideQuote(q, decision) ==
  /\ confirmation = NoConfirmation /\ quotes[q].status = "pending_approval"
  /\ quotes' = [quotes EXCEPT ![q].status = decision]
  /\ work' = IF work.quote = q THEN [work EXCEPT !.status = decision] ELSE work
  /\ UNCHANGED <<inbound, revisions, confirmation, answers, elsewhere>>

-----------------------------------------------------------------------------
(* Everybody else.                                                             *)

Spend == changes < MaxChanges /\ changes' = changes + 1
\* A second extraction of the mail ends; neither status nor version is asked for.
ExtractAgain(r) ==
  /\ Spend
  /\ inbound' = [inbound EXCEPT !.status = "needs_review", !.extraction = ValidateRfq(r)]
  /\ UNCHANGED <<revisions, confirmation, work, quotes, answers, market, markets>>

SupersedeReview ==
  /\ Spend
  /\ revisions' = [n \in Reviews |-> [revisions[n] EXCEPT !.status = "superseded"]]
  /\ inbound' = [inbound EXCEPT !.status = "needs_review", !.version = @ + 1, !.review = 0]
  /\ UNCHANGED <<confirmation, work, quotes, answers, market, markets>>

DeskCrash ==
  /\ confirmation # NoConfirmation /\ Spend /\ confirmation' = NoConfirmation
  /\ UNCHANGED <<inbound, revisions, work, quotes, answers, market, markets>>

MarketMoves ==
  /\ markets < MaxMarkets /\ markets' = markets + 1
  /\ market' = IF market = "sells" THEN "sold_out" ELSE "sells"
  /\ UNCHANGED <<inbound, revisions, confirmation, work, quotes, answers, changes>>

ReviewNext ==
  \/ \E k \in Keys, e \in Edits, v \in 0..(MaxReviews + MaxChanges) : Submit(k, e, v)
  \/ LookUp \/ PreviewEdit \/ HashBase \/ RecordReview
  \/ SyncConfirmed \/ MaterializeConfirmed \/ SetBlocked \/ SaveQuote
  \/ \E q \in DOMAIN quotes, d \in {"approved", "rejected"} : DecideQuote(q, d)
  \/ \E r \in ModelReadings : ExtractAgain(r)
  \/ SupersedeReview \/ DeskCrash \/ MarketMoves
ReviewSpec == ReviewInit /\ [][ReviewNext]_reviewVars

-----------------------------------------------------------------------------

\* Every quote was made from a confirmation in which nothing was open: each part of each
\* checked field has a value, though models leave parts out of fields they call extracted,
\* a change of one part settles the status of the other, and the mail is extracted again.
QuotedIsComplete ==
  \A q \in DOMAIN quotes : \A f \in Checked :
    LET node == revisions[quotes[q].review].snapshot[f]
    IN node.status # "pending" /\ \A p \in Parts[f] : node.parts[p] # "none"

\* One confirmation leads to one quote and so to one approval request, however often the
\* list of work is read, the request retried or the desk restarted in between.
OneQuotePerReview ==
  \A p, q \in DOMAIN quotes : quotes[p].review = quotes[q].review => p = q

\* The desk answers a confirmed review with the quote made from it.
AnsweredWithItsQuote ==
  [][(confirmation.at = "quote" /\ confirmation' = NoConfirmation /\ changes' = changes /\ GateFinds(confirmation.review))
       => SameHash(quotes[work.quote].review, confirmation.review)]_reviewVars
=============================================================================
