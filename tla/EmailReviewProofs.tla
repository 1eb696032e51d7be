-------------------------- MODULE EmailReviewProofs --------------------------
(***************************************************************************)
(* The inquiry mail, for any mails, readings, keys, workers and bounds:    *)
(* confirmed reviews and their quotes, the intake under its cursor, and    *)
(* the questions asked for what an inquiry leaves out.                     *)
(***************************************************************************)
EXTENDS EmailReview, EmailIntake, Clarification, SequenceTheorems, TLAPS

Extractions == {ValidateRfq(r) : r \in ModelReadings}
Snapshots == {Edited(e, x) : e \in Edits, x \in Extractions}
Revisions == [key : Keys, edit : Edits, version : Nat, base : Extractions,
              snapshot : Snapshots, status : {"confirmed", "superseded"}]
Stages == {"idle", "lookup", "preview", "hash", "confirm", "quote", "save"}
Requests == [at : Stages, key : Keys \cup {"none"}, edit : Edits \cup {<<>>}, version : Nat,
             snapshot : Snapshots \cup {NoExtraction}, base : Extractions \cup {NoExtraction},
             review : Nat, outcome : {"none", "built", "blocked"}]
QuoteRows == [review : Nat, status : {"pending_approval", "approved", "rejected"}]
WorkRows == [review : Nat, quote : Nat,
             status : {"none", "quote_blocked", "pending_approval", "approved", "rejected"}]

MailRows == [status : {"needs_review", "confirmed"}, extraction : Extractions,
             version : Nat, review : Nat]

ReviewTypeOK ==
  /\ inbound \in MailRows
  /\ revisions \in Seq(Revisions)
  /\ confirmation \in Requests
  /\ work \in WorkRows
  /\ quotes \in Seq(QuoteRows)

\* A request that confirms carries its key, its changes and what it was based on.
RequestsAreWhole ==
  /\ confirmation.at \in {"lookup", "preview", "hash", "confirm"} =>
       confirmation.key \in Keys /\ confirmation.edit \in Edits
  /\ confirmation.at = "confirm" => confirmation.base \in Extractions
  /\ confirmation.at \in {"hash", "confirm"} => confirmation.snapshot \in Snapshots

ReviewTypeInv == ReviewTypeOK /\ RequestsAreWhole

\* Nothing is open in what a request is about to confirm nor in what was confirmed.
NothingOpen ==
  /\ confirmation.at \in {"hash", "confirm"} => Recompute(confirmation.snapshot) = {}
  /\ \A n \in Reviews : Recompute(revisions[n].snapshot) = {}

\* Quotes, and the requests that make one, name revisions that exist.
ReviewsExist ==
  /\ \A q \in DOMAIN quotes : quotes[q].review \in Reviews
  /\ confirmation.at \in {"quote", "save"} => confirmation.review \in Reviews

\* Only the newest revision can be the mail's, or be on its way to a quote; and if
\* it has a quote the row of work says so, blocked since or not.
NewestInHand ==
  /\ inbound.review \in {0, Len(revisions)}
  /\ confirmation.at = "save" => confirmation.review = Len(revisions)
NewestIsKnown ==
  \A q \in DOMAIN quotes : quotes[q].review = Len(revisions) =>
    work.quote # 0 /\ work.review = Len(revisions)

ReviewInv ==
  ReviewTypeInv /\ NothingOpen /\ ReviewsExist /\ NewestInHand /\ NewestIsKnown
  /\ OneQuotePerReview

-----------------------------------------------------------------------------

LEMMA ReviewInitial == ReviewInit => ReviewInv
<1> SUFFICES ASSUME ReviewInit PROVE ReviewInv
  OBVIOUS
<1> USE DEF ReviewInit
<1>1. NoConfirmation \in Requests /\ NoConfirmation.at = "idle"
  BY DEF NoConfirmation, Requests, Stages
<1>2. inbound \in MailRows /\ inbound.review = 0
  BY DEF Extractions, MailRows
<1>3. /\ revisions = <<>> /\ quotes = <<>> /\ confirmation = NoConfirmation
      /\ work = [review |-> 0, quote |-> 0, status |-> "none"]
  OBVIOUS
<1>4. ReviewTypeInv
  BY <1>1, <1>2, <1>3 DEF ReviewTypeInv, ReviewTypeOK, RequestsAreWhole, WorkRows
<1> QED
  BY <1>1, <1>2, <1>3, <1>4 DEF ReviewInv, NothingOpen, ReviewsExist, NewestInHand,
     NewestIsKnown, OneQuotePerReview, Reviews

\* The rows keep their shapes, field by field.
LEMMA RowsKeepShape ==
  /\ \A i \in MailRows, x \in Extractions :
       /\ [i EXCEPT !.status = "needs_review", !.extraction = x] \in MailRows
       /\ [i EXCEPT !.status = "needs_review", !.extraction = x].review = i.review
  /\ \A w \in WorkRows, n \in Nat :
       /\ [w EXCEPT !.review = n, !.status = "quote_blocked"] \in WorkRows
       /\ [w EXCEPT !.review = n, !.status = "quote_blocked"].review = n
       /\ [w EXCEPT !.review = n, !.status = "quote_blocked"].quote = w.quote
  /\ \A w \in WorkRows, d \in {"approved", "rejected"} :
       /\ [w EXCEPT !.status = d] \in WorkRows
       /\ [w EXCEPT !.status = d].review = w.review /\ [w EXCEPT !.status = d].quote = w.quote
  /\ \A q \in QuoteRows, d \in {"approved", "rejected"} :
       [q EXCEPT !.status = d] \in QuoteRows /\ [q EXCEPT !.status = d].review = q.review
  /\ \A r \in Revisions :
       /\ [r EXCEPT !.status = "superseded"] \in Revisions
       /\ [r EXCEPT !.status = "superseded"].snapshot = r.snapshot
<1>1. ASSUME NEW i \in MailRows, NEW x \in Extractions
      PROVE  /\ [i EXCEPT !.status = "needs_review", !.extraction = x] \in MailRows
             /\ [i EXCEPT !.status = "needs_review", !.extraction = x].review = i.review
  BY DEF MailRows
<1>2. ASSUME NEW w \in WorkRows, NEW n \in Nat
      PROVE  /\ [w EXCEPT !.review = n, !.status = "quote_blocked"] \in WorkRows
             /\ [w EXCEPT !.review = n, !.status = "quote_blocked"].review = n
             /\ [w EXCEPT !.review = n, !.status = "quote_blocked"].quote = w.quote
  BY DEF WorkRows
<1>3. ASSUME NEW d \in {"approved", "rejected"}
      PROVE  /\ \A w \in WorkRows : /\ [w EXCEPT !.status = d] \in WorkRows
                                    /\ [w EXCEPT !.status = d].review = w.review
                                    /\ [w EXCEPT !.status = d].quote = w.quote
             /\ \A q \in QuoteRows : /\ [q EXCEPT !.status = d] \in QuoteRows
                                     /\ [q EXCEPT !.status = d].review = q.review
  BY DEF WorkRows, QuoteRows
<1>4. ASSUME NEW r \in Revisions
      PROVE  /\ [r EXCEPT !.status = "superseded"] \in Revisions
             /\ [r EXCEPT !.status = "superseded"].snapshot = r.snapshot
  BY DEF Revisions
<1> QED
  BY <1>1, <1>2, <1>3, <1>4

LEMMA RequestHolds ==
  ASSUME NEW c \in Requests, NEW n \in Nat, NEW at \in {"quote", "save"}
  PROVE  /\ [c EXCEPT !.at = at, !.review = n] \in Requests
         /\ [c EXCEPT !.at = at, !.review = n].at = at
         /\ [c EXCEPT !.at = at, !.review = n].review = n
BY DEF Requests, Stages

\* A step that leaves revisions, quotes and the row of work alone.
LEMMA RequestStep ==
  ASSUME ReviewInv, UNCHANGED <<inbound, revisions, work, quotes>>,
         confirmation' \in Requests, RequestsAreWhole',
         confirmation'.at \in {"hash", "confirm"} =>
           Recompute(confirmation'.snapshot) = {},
         confirmation'.at \in {"quote", "save"} => confirmation'.review \in Reviews,
         confirmation'.at = "save" => confirmation'.review = Len(revisions)
  PROVE  ReviewInv'
BY DEF ReviewInv, ReviewTypeInv, ReviewTypeOK, NothingOpen, ReviewsExist, NewestInHand,
   NewestIsKnown, OneQuotePerReview, Reviews

LEMMA ReviewStep == ReviewInv /\ [ReviewNext]_reviewVars => ReviewInv'
<1> SUFFICES ASSUME ReviewInv, [ReviewNext]_reviewVars PROVE ReviewInv'
  OBVIOUS
<1>t. /\ inbound \in MailRows
      /\ revisions \in Seq(Revisions) /\ confirmation \in Requests /\ work \in WorkRows
      /\ quotes \in Seq(QuoteRows)
      /\ RequestsAreWhole /\ NothingOpen /\ ReviewsExist /\ NewestInHand /\ NewestIsKnown
      /\ OneQuotePerReview
  BY DEF ReviewInv, ReviewTypeInv, ReviewTypeOK
<1>n. NoConfirmation \in Requests /\ NoConfirmation.at = "idle"
  BY DEF NoConfirmation, Requests, Stages
<1>r. ASSUME Refuse, UNCHANGED <<inbound, revisions, work, quotes>> PROVE ReviewInv'
  <2>1. RequestsAreWhole'
    BY <1>n, <1>r DEF RequestsAreWhole, Refuse
  <2> QED
    BY <1>n, <1>r, <2>1, RequestStep DEF Refuse
<1>a. ASSUME NEW n \in Reviews, AnswerRecorded(n), UNCHANGED <<inbound, revisions, work, quotes>>
      PROVE  ReviewInv'
  <2>1. CASE Refuse
    BY <1>r, <1>a, <2>1
  <2>2. CASE confirmation' = [confirmation EXCEPT !.at = "quote", !.review = n]
    <3>1. n \in Nat
      BY <1>t DEF Reviews
    <3>2. confirmation' \in Requests /\ confirmation'.at = "quote" /\ confirmation'.review = n
      BY <1>t, <2>2, <3>1 DEF Requests, Stages
    <3>3. RequestsAreWhole'
      BY <3>2 DEF RequestsAreWhole
    <3> QED
      BY <1>a, <3>2, <3>3, RequestStep
  <2> QED
    BY <1>a, <2>1, <2>2 DEF AnswerRecorded
<1>1. ASSUME NEW k \in Keys, NEW e \in Edits, NEW v \in Nat, Submit(k, e, v) PROVE ReviewInv'
  <2>1. /\ confirmation' = [confirmation EXCEPT !.at = "lookup", !.key = k, !.edit = e, !.version = v]
        /\ UNCHANGED <<inbound, revisions, work, quotes>>
    BY <1>1 DEF Submit
  <2>2. /\ confirmation' \in Requests /\ confirmation'.at = "lookup"
        /\ confirmation'.key = k /\ confirmation'.edit = e
    BY <1>t, <2>1 DEF Requests, Stages
  <2>3. RequestsAreWhole'
    BY <2>2 DEF RequestsAreWhole
  <2> QED
    BY <2>1, <2>2, <2>3, RequestStep
<1>2. ASSUME LookUp PROVE ReviewInv'
  <2>1. CASE \E n \in RecordedUnder(confirmation.key) : AnswerRecorded(n)
    BY <1>2, <1>a, <2>1 DEF LookUp, RecordedUnder
  <2>2. CASE confirmation' = [confirmation EXCEPT !.at = "preview"]
    <3>1. /\ confirmation' \in Requests /\ confirmation'.at = "preview"
          /\ confirmation'.key = confirmation.key /\ confirmation'.edit = confirmation.edit
      BY <1>t, <2>2 DEF Requests, Stages
    <3>2. RequestsAreWhole'
      BY <1>2, <1>t, <3>1 DEF RequestsAreWhole, LookUp
    <3> QED
      BY <1>2, <3>1, <3>2, RequestStep DEF LookUp
  <2> QED
    BY <1>2, <2>1, <2>2 DEF LookUp
<1>3. ASSUME PreviewEdit PROVE ReviewInv'
  <2> DEFINE s == Edited(confirmation.edit, inbound.extraction)
  <2>0. /\ confirmation.at = "preview" /\ UNCHANGED <<inbound, revisions, work, quotes>>
        /\ \/ Refuse
           \/ Recompute(s) = {} /\ confirmation' = [confirmation EXCEPT !.at = "hash", !.snapshot = s]
    BY <1>3 DEF PreviewEdit
  <2>1. s \in Snapshots /\ confirmation.key \in Keys /\ confirmation.edit \in Edits
    BY <1>t, <2>0 DEF RequestsAreWhole, Snapshots, MailRows
  <2> HIDE DEF s
  <2>2. CASE Recompute(s) = {} /\ confirmation' = [confirmation EXCEPT !.at = "hash", !.snapshot = s]
    <3>1. /\ confirmation' \in Requests /\ confirmation'.at = "hash" /\ confirmation'.snapshot = s
          /\ confirmation'.key = confirmation.key /\ confirmation'.edit = confirmation.edit
      BY <1>t, <2>1, <2>2 DEF Requests, Stages
    <3>2. RequestsAreWhole'
      BY <2>1, <3>1 DEF RequestsAreWhole
    <3> QED
      BY <2>0, <2>2, <3>1, <3>2, RequestStep
  <2> QED
    BY <1>r, <2>0, <2>2
<1>4. ASSUME HashBase PROVE ReviewInv'
  <2>1. /\ confirmation.at = "hash"
        /\ confirmation' = [confirmation EXCEPT !.at = "confirm", !.base = inbound.extraction]
        /\ UNCHANGED <<inbound, revisions, work, quotes>>
    BY <1>4 DEF HashBase
  <2>2. inbound.extraction \in Extractions
    BY <1>t DEF MailRows
  <2>3. /\ confirmation' \in Requests /\ confirmation'.at = "confirm"
        /\ confirmation'.snapshot = confirmation.snapshot
        /\ confirmation'.key = confirmation.key /\ confirmation'.edit = confirmation.edit
        /\ confirmation'.base = inbound.extraction
    BY <1>t, <2>1, <2>2 DEF Requests, Stages
  <2>4. RequestsAreWhole'
    BY <1>t, <2>1, <2>2, <2>3 DEF RequestsAreWhole
  <2> QED
    BY <1>t, <2>1, <2>3, <2>4, RequestStep DEF NothingOpen
<1>5. ASSUME RecordReview PROVE ReviewInv'
  <2> DEFINE n == Len(revisions) + 1
             entry == [key |-> confirmation.key, edit |-> confirmation.edit,
                     version |-> confirmation.version + 1, base |-> confirmation.base,
                     snapshot |-> confirmation.snapshot, status |-> "confirmed"]
  <2>1. CASE \E m \in RecordedUnder(confirmation.key) :
               AnswerRecorded(m) /\ UNCHANGED <<inbound, revisions>>
    BY <1>5, <1>a, <2>1 DEF RecordReview, RecordedUnder
  <2>2. CASE Refuse /\ UNCHANGED <<inbound, revisions>>
    BY <1>5, <1>r, <2>2 DEF RecordReview
  <2>3. CASE /\ revisions' = Append(revisions, entry)
             /\ inbound' = [inbound EXCEPT !.status = "confirmed", !.version = @ + 1, !.review = n]
             /\ confirmation' = [confirmation EXCEPT !.at = "quote", !.review = n]
    <3>0. confirmation.at = "confirm" /\ UNCHANGED <<work, quotes>>
      BY <1>5 DEF RecordReview
    <3>1. /\ entry \in Revisions /\ entry.snapshot = confirmation.snapshot
          /\ Recompute(confirmation.snapshot) = {}
      BY <1>t, <3>0 DEF RequestsAreWhole, NothingOpen, Revisions, Requests
    <3> HIDE DEF entry
    <3>2. /\ revisions' \in Seq(Revisions) /\ Len(revisions') = n
          /\ Reviews' = 1..n /\ Reviews = 1..Len(revisions) /\ Len(revisions) \in Nat
          /\ \A m \in Reviews : revisions'[m] = revisions[m]
          /\ revisions'[n] = entry
      BY <1>t, <2>3, <3>1 DEF Reviews
    <3> HIDE DEF n
    <3>n. n = Len(revisions) + 1
      BY DEF n
    <3>a. n \in Nat
      BY <3>2, <3>n
    <3>3. /\ inbound' \in MailRows
          /\ inbound'.review = n
      <4> DEFINE v == inbound.version + 1
      <4>1. inbound' = [inbound EXCEPT !.status = "confirmed", !.version = v, !.review = n]
        BY <2>3
      <4>2. v \in Nat
        BY <1>t DEF MailRows
      <4> HIDE DEF v
      <4>3. inbound \in MailRows
        BY <1>t
      <4> QED
        BY <3>a, <4>1, <4>2, <4>3 DEF MailRows
    <3>4. confirmation' \in Requests /\ confirmation'.at = "quote" /\ confirmation'.review = n
      BY <1>t, <2>3, <3>a, RequestHolds
    <3>5. ReviewTypeInv'
      BY <1>t, <3>0, <3>2, <3>3, <3>4 DEF ReviewTypeInv, ReviewTypeOK, RequestsAreWhole
    <3>6. NothingOpen'
      <4>1. \A m \in Reviews' : Recompute(revisions'[m].snapshot) = {}
        <5>1. \A m \in Reviews' : m \in Reviews \/ m = n
          BY <3>2, <3>n
        <5> QED
          BY <1>t, <3>1, <3>2, <5>1 DEF NothingOpen
      <4> QED
        BY <3>4, <4>1 DEF NothingOpen
    <3>7. ReviewsExist' /\ NewestInHand'
      BY <1>t, <3>0, <3>2, <3>3, <3>4, <3>n DEF ReviewsExist, NewestInHand
    <3>8. NewestIsKnown' /\ OneQuotePerReview'
      BY <1>t, <3>0, <3>2, <3>n DEF NewestIsKnown, OneQuotePerReview, ReviewsExist
    <3> QED
      BY <3>5, <3>6, <3>7, <3>8 DEF ReviewInv
  <2> QED
    BY <1>5, <2>1, <2>2, <2>3 DEF RecordReview
<1>6. ASSUME SyncConfirmed PROVE ReviewInv'
  <2>1. /\ confirmation' = [confirmation EXCEPT !.at = "quote", !.review = inbound.review]
        /\ inbound.review # 0 /\ UNCHANGED <<inbound, revisions, work, quotes>>
    BY <1>6 DEF SyncConfirmed
  <2>2. inbound.review \in Nat /\ inbound.review \in Reviews
    BY <1>t, <2>1 DEF NewestInHand, Reviews, MailRows
  <2>3. confirmation' \in Requests /\ confirmation'.at = "quote" /\ confirmation'.review \in Reviews
    BY <1>t, <2>1, <2>2 DEF Requests, Stages
  <2>4. RequestsAreWhole'
    BY <2>3 DEF RequestsAreWhole
  <2> QED
    BY <2>1, <2>3, <2>4, RequestStep
<1>7. ASSUME MaterializeConfirmed PROVE ReviewInv'
  <2>1. CASE Refuse
    BY <1>7, <1>r, <2>1 DEF MaterializeConfirmed
  <2>2. CASE /\ GateFinds(confirmation.review)
             /\ confirmation' = [confirmation EXCEPT !.at = "save", !.outcome = BuildQuote]
    <3>1. /\ confirmation' \in Requests /\ confirmation'.at = "save"
          /\ confirmation'.review = confirmation.review
      BY <1>t, <2>2 DEF Requests, Stages, BuildQuote
    <3>2. confirmation.review \in Reviews /\ inbound.review = confirmation.review
      BY <1>7, <1>t, <2>2 DEF MaterializeConfirmed, ReviewsExist, GateFinds
    <3>3. confirmation.review = Len(revisions)
      BY <1>t, <3>2 DEF NewestInHand, Reviews
    <3>4. RequestsAreWhole'
      BY <3>1 DEF RequestsAreWhole
    <3> QED
      BY <1>7, <3>1, <3>2, <3>3, <3>4, RequestStep DEF MaterializeConfirmed
  <2> QED
    BY <1>7, <2>1, <2>2 DEF MaterializeConfirmed
<1>8. ASSUME SetBlocked PROVE ReviewInv'
  <2>1. /\ confirmation.at = "save" /\ Refuse /\ UNCHANGED <<inbound, revisions, quotes>>
        /\ work' = [work EXCEPT !.review = confirmation.review, !.status = "quote_blocked"]
    BY <1>8 DEF SetBlocked
  <2>2. confirmation.review = Len(revisions)
    BY <1>t, <2>1 DEF NewestInHand
  <2>3. work' \in WorkRows /\ work'.quote = work.quote /\ work'.review = Len(revisions)
    <3>1. Len(revisions) \in Nat /\ work \in WorkRows
      BY <1>t
    <3>2. work' = [work EXCEPT !.review = Len(revisions), !.status = "quote_blocked"]
      BY <2>1, <2>2
    <3> QED
      BY <3>1, <3>2, RowsKeepShape
  <2>4. confirmation' = NoConfirmation
    BY <2>1 DEF Refuse
  <2> QED
    BY <1>n, <1>t, <2>1, <2>3, <2>4 DEF ReviewInv, ReviewTypeInv, ReviewTypeOK,
       RequestsAreWhole, NothingOpen, ReviewsExist, NewestInHand, NewestIsKnown,
       OneQuotePerReview, Reviews
<1>9. ASSUME SaveQuote PROVE ReviewInv'
  <2>1. CASE UNCHANGED <<work, quotes>>
    BY <1>9, <1>r, <2>1 DEF SaveQuote
  <2>2. CASE /\ ~AlreadyQuoted(confirmation.review)
             /\ quotes' = Append(quotes, [review |-> confirmation.review, status |-> "pending_approval"])
             /\ work' = [review |-> confirmation.review, quote |-> Len(quotes) + 1,
                         status |-> "pending_approval"]
    <3>1. /\ confirmation.at = "save" /\ UNCHANGED <<inbound, revisions>>
          /\ confirmation' = NoConfirmation
      BY <1>9 DEF SaveQuote, Refuse
    <3>2. /\ confirmation.review = Len(revisions) /\ confirmation.review \in Reviews
          /\ Len(revisions) # 0 /\ Len(revisions) \in Nat
      BY <1>t, <3>1 DEF NewestInHand, ReviewsExist, Reviews
    <3>3. \A q \in DOMAIN quotes : quotes[q].review # Len(revisions)
      <4> SUFFICES ASSUME NEW q \in DOMAIN quotes, quotes[q].review = Len(revisions) PROVE FALSE
        OBVIOUS
      <4>1. work.quote # 0 /\ work.review = Len(revisions)
        BY <1>t DEF NewestIsKnown
      <4> QED
        BY <2>2, <3>2, <4>1 DEF AlreadyQuoted, SameHash
    <3> DEFINE entry == [review |-> confirmation.review, status |-> "pending_approval"]
    <3>4. entry \in QuoteRows /\ entry.review = Len(revisions)
      BY <3>2 DEF QuoteRows
    <3> HIDE DEF entry
    <3>5. quotes' = Append(quotes, entry)
      BY <2>2 DEF entry
    <3>6. /\ quotes' \in Seq(QuoteRows) /\ DOMAIN quotes' = 1..(Len(quotes) + 1)
          /\ DOMAIN quotes = 1..Len(quotes) /\ Len(quotes) \in Nat
          /\ \A q \in DOMAIN quotes : quotes'[q] = quotes[q]
          /\ quotes'[Len(quotes) + 1] = entry
      BY <1>t, <3>4, <3>5
    <3>7. work' \in WorkRows /\ work'.quote = Len(quotes) + 1 /\ work'.review = Len(revisions)
      BY <2>2, <3>2, <3>6 DEF WorkRows
    <3>8. ReviewTypeInv'
      BY <1>n, <1>t, <3>1, <3>6, <3>7 DEF ReviewTypeInv, ReviewTypeOK, RequestsAreWhole
    <3>9. NothingOpen' /\ NewestInHand'
      BY <1>n, <1>t, <3>1 DEF NothingOpen, NewestInHand, Reviews
    <3>10. ReviewsExist'
      <4>1. \A q \in DOMAIN quotes' : quotes'[q].review \in Reviews
        BY <1>t, <3>2, <3>4, <3>6 DEF ReviewsExist
      <4> QED
        BY <1>n, <3>1, <4>1 DEF ReviewsExist, Reviews
    <3>11. NewestIsKnown'
      BY <3>1, <3>6, <3>7 DEF NewestIsKnown
    <3>12. OneQuotePerReview'
      BY <1>t, <3>3, <3>4, <3>6 DEF OneQuotePerReview
    <3> QED
      BY <3>8, <3>9, <3>10, <3>11, <3>12 DEF ReviewInv
  <2> QED
    BY <1>9, <2>1, <2>2 DEF SaveQuote
<1>10. ASSUME NEW q \in DOMAIN quotes, NEW d \in {"approved", "rejected"}, DecideQuote(q, d)
       PROVE  ReviewInv'
  <2>1. /\ quotes' = [quotes EXCEPT ![q].status = d]
        /\ work' = IF work.quote = q THEN [work EXCEPT !.status = d] ELSE work
        /\ UNCHANGED <<inbound, revisions, confirmation>>
    BY <1>10 DEF DecideQuote
  <2>2. /\ quotes' \in Seq(QuoteRows) /\ DOMAIN quotes' = DOMAIN quotes
        /\ \A p \in DOMAIN quotes : quotes'[p].review = quotes[p].review
    <3> DEFINE entry == [quotes[q] EXCEPT !.status = d]
    <3>1. quotes \in Seq(QuoteRows) /\ quotes[q] \in QuoteRows
      BY <1>t
    <3>2. entry \in QuoteRows /\ entry.review = quotes[q].review
      BY <3>1, RowsKeepShape
    <3>3. quotes' = [quotes EXCEPT ![q] = entry]
      BY <2>1
    <3> HIDE DEF entry
    <3> QED
      BY <3>1, <3>2, <3>3
  <2>3. work' \in WorkRows /\ work'.quote = work.quote /\ work'.review = work.review
    <3>1. work \in WorkRows
      BY <1>t
    <3> QED
      BY <2>1, <3>1, RowsKeepShape
  <2>4. ReviewTypeInv'
    BY <1>t, <2>1, <2>2, <2>3 DEF ReviewTypeInv, ReviewTypeOK, RequestsAreWhole
  <2>5. (NothingOpen /\ ReviewsExist /\ NewestInHand)'
    BY <1>t, <2>1, <2>2 DEF NothingOpen, ReviewsExist, NewestInHand, Reviews
  <2>6. (NewestIsKnown /\ OneQuotePerReview)'
    BY <1>t, <2>1, <2>2, <2>3 DEF NewestIsKnown, OneQuotePerReview
  <2> QED
    BY <2>4, <2>5, <2>6 DEF ReviewInv
<1>11. ASSUME NEW r \in ModelReadings, ExtractAgain(r) PROVE ReviewInv'
  <2>1. /\ inbound' = [inbound EXCEPT !.status = "needs_review", !.extraction = ValidateRfq(r)]
        /\ UNCHANGED <<revisions, confirmation, work, quotes>>
    BY <1>11 DEF ExtractAgain
  <2>2. ValidateRfq(r) \in Extractions
    BY DEF Extractions
  <2>3. /\ inbound' \in MailRows
        /\ inbound'.review = inbound.review
    BY <1>t, <2>1, <2>2, RowsKeepShape
  <2> QED
    BY <1>t, <2>1, <2>3 DEF ReviewInv, ReviewTypeInv, ReviewTypeOK, RequestsAreWhole,
       NothingOpen, ReviewsExist, NewestInHand, NewestIsKnown, OneQuotePerReview, Reviews
<1>12. ASSUME SupersedeReview PROVE ReviewInv'
  <2>1. /\ revisions' = [n \in Reviews |-> [revisions[n] EXCEPT !.status = "superseded"]]
        /\ inbound' = [inbound EXCEPT !.status = "needs_review", !.version = @ + 1, !.review = 0]
        /\ UNCHANGED <<confirmation, work, quotes>>
    BY <1>12 DEF SupersedeReview
  <2>2. \A n \in Reviews : /\ [revisions[n] EXCEPT !.status = "superseded"] \in Revisions
                           /\ [revisions[n] EXCEPT !.status = "superseded"].snapshot
                                = revisions[n].snapshot
    <3>1. revisions \in Seq(Revisions)
      BY <1>t
    <3>2. \A n \in Reviews : revisions[n] \in Revisions
      BY <3>1 DEF Reviews
    <3> QED
      BY <3>2, RowsKeepShape
  <2>3. /\ revisions' \in Seq(Revisions) /\ Len(revisions') = Len(revisions)
        /\ Reviews' = Reviews
        /\ \A n \in Reviews : revisions'[n].snapshot = revisions[n].snapshot
    <3> DEFINE entry(n) == [revisions[n] EXCEPT !.status = "superseded"]
    <3>1. revisions' = [n \in 1..Len(revisions) |-> entry(n)] /\ Len(revisions) \in Nat
      BY <1>t, <2>1 DEF Reviews
    <3>2. \A n \in 1..Len(revisions) : entry(n) \in Revisions /\ entry(n).snapshot = revisions[n].snapshot
      BY <2>2 DEF Reviews
    <3> HIDE DEF entry
    <3> QED
      BY <3>1, <3>2 DEF Reviews
  <2>4. /\ inbound' \in MailRows
        /\ inbound'.review = 0
    <3> DEFINE v == inbound.version + 1
    <3>1. inbound' = [inbound EXCEPT !.status = "needs_review", !.version = v, !.review = 0]
      BY <2>1
    <3>2. v \in Nat
      BY <1>t DEF MailRows
    <3> HIDE DEF v
    <3>3. inbound \in MailRows
      BY <1>t
    <3> QED
      BY <3>1, <3>2, <3>3 DEF MailRows
  <2> QED
    BY <1>t, <2>1, <2>3, <2>4 DEF ReviewInv, ReviewTypeInv, ReviewTypeOK, RequestsAreWhole,
       NothingOpen, ReviewsExist, NewestInHand, NewestIsKnown, OneQuotePerReview
<1>13. ASSUME DeskCrash PROVE ReviewInv'
  BY <1>13, <1>r DEF DeskCrash, Refuse
<1>14. ASSUME UNCHANGED <<inbound, revisions, confirmation, work, quotes>> PROVE ReviewInv'
  BY <1>t, <1>14 DEF ReviewInv, ReviewTypeInv, ReviewTypeOK, RequestsAreWhole,
     NothingOpen, ReviewsExist, NewestInHand, NewestIsKnown, OneQuotePerReview, Reviews
<1>15. CASE MarketMoves
  BY <1>14, <1>15 DEF MarketMoves
<1>16. CASE UNCHANGED reviewVars
  BY <1>14, <1>16 DEF reviewVars
<1>17. 0..(MaxReviews + MaxChanges) \subseteq Nat
  BY ReviewAssumption
<1> QED
  BY <1>1, <1>2, <1>3, <1>4, <1>5, <1>6, <1>7, <1>8, <1>9, <1>10, <1>11, <1>12, <1>13, <1>15,
     <1>16, <1>17 DEF ReviewNext

\* Requests, revisions, work and quotes stay consistent for any mail and reviewers.
THEOREM ReviewInvariant == ReviewSpec => []ReviewInv
BY ReviewInitial, ReviewStep, PTL DEF ReviewSpec

\* Every quote was made from a confirmation with nothing open, whatever the models
\* left out, the reviewers changed part by part, or was extracted meanwhile.
THEOREM QuotesAreComplete == ReviewSpec => []QuotedIsComplete
<1>1. ReviewInv => QuotedIsComplete
  <2> SUFFICES ASSUME ReviewInv, NEW q \in DOMAIN quotes, NEW f \in Checked
               PROVE  LET node == revisions[quotes[q].review].snapshot[f]
                      IN node.status # "pending" /\ \A p \in Parts[f] : node.parts[p] # "none"
    BY DEF QuotedIsComplete
  <2>1. Recompute(revisions[quotes[q].review].snapshot) = {}
    BY DEF ReviewInv, ReviewsExist, NothingOpen
  <2> QED
    BY <2>1 DEF Recompute
<1> QED
  BY <1>1, ReviewInvariant, PTL

\* One confirmation leads to one quote, however often the list of work is read, the
\* request is retried, the market moves or the desk restarts in between.
THEOREM QuotedOnce == ReviewSpec => []OneQuotePerReview
<1>1. ReviewInv => OneQuotePerReview
  BY DEF ReviewInv
<1> QED
  BY <1>1, ReviewInvariant, PTL

-----------------------------------------------------------------------------
(* EmailIntake: the cursor and what may be quoted.                            *)

RowStatuses == {"none", "persisted", "received", "ignored_non_trade", "extracting", "retry_wait",
                "failed", "needs_review", "confirmed"}
IntakeRows == [status : RowStatuses, attempts : Nat, lease : {"free", "live", "lapsed"}, due : BOOLEAN,
               extraction : Readings \cup {NoReading}, version : Nat, review : Nat]
Envelopes == [mail : Mails, uid : Nat]
PollerStates ==
  [at : {"idle", "envelope", "cursor", "recover", "acquire", "extract"}, batch : Seq(Envelopes),
   validity : Nat, mail : Mails \cup {NoMail}, todo : SUBSET Mails]
ReviewRevisions == [base : Readings \cup {NoReading}, status : {"confirmed", "superseded"}]
IntakeTypeInv ==
  /\ box \in [validity : Nat, mails : Seq(Mails)] /\ box.validity >= 1
  /\ cursor \in [validity : Nat, uid : Nat]
  /\ row \in [Mails -> IntakeRows] /\ review \in [Mails -> Seq(ReviewRevisions)]
  /\ poller \in [Pollers -> PollerStates]
  /\ confirming \in [mail : Mails \cup {NoMail}, version : Nat, base : Readings \cup {NoReading}]

Stored(u) == row[box.mails[u]].status # "none"
\* What the cursor has passed is stored; it is never about a later folder.
CursorInv ==
  /\ cursor.validity <= box.validity /\ (cursor.validity = 0 => cursor.uid = 0)
  /\ cursor.validity = box.validity =>
       cursor.uid <= Len(box.mails) /\ \A u \in 1..Len(box.mails) : u <= cursor.uid => Stored(u)

\* A batch of the folder as it still is, which its cursor may follow, names its
\* mails one by one, and what comes before the batch is stored.
Current(r) == r.validity = box.validity /\ cursor.validity \in {0, r.validity}
FollowsFolder(r) ==
  r.batch # <<>> /\ Current(r) =>
    /\ \A k \in 1..Len(r.batch) :
         /\ r.batch[k].uid \in 1..Len(box.mails) /\ r.batch[k].uid = r.batch[1].uid + k - 1
         /\ r.batch[k].mail = box.mails[r.batch[k].uid]
    /\ \A u \in 1..Len(box.mails) : u < r.batch[1].uid => Stored(u)
    /\ r.at \in {"cursor", "acquire", "extract"} => row[r.batch[1].mail].status # "none"
PollerReady(p, r) ==
  /\ r.batch # <<>> => p = Home /\ r.validity \in 1..box.validity
  /\ r.at \in {"envelope", "cursor"} => r.batch # <<>>
  /\ r.at \in {"idle", "recover"} => r.batch = <<>>
  /\ r.at = "extract" => r.mail \in Mails
  /\ FollowsFolder(r)
PollersReady == \A p \in Pollers : PollerReady(p, poller[p])

\* A confirmed row names a revision made from the extraction it holds.
ConfirmedFrom(m) ==
  row[m].status = "confirmed" =>
    /\ row[m].review \in 1..Len(review[m])
    /\ review[m][row[m].review].base = row[m].extraction
ReviewsCurrent == \A m \in Mails : ConfirmedFrom(m)

IntakeInv == IntakeTypeInv /\ CursorInv /\ PollersReady /\ ReviewsCurrent

LEMMA IntakeInitial == ASSUME IntakeInit PROVE IntakeInv
<1>1. /\ box = [validity |-> 1, mails |-> <<>>] /\ cursor = [validity |-> 0, uid |-> 0]
      /\ row = [m \in Mails |-> NoRow] /\ review = [m \in Mails |-> <<>>]
      /\ poller = [p \in Pollers |-> IdlePoller] /\ confirming = IdleDesk
  BY DEF IntakeInit
<1>2. IntakeTypeInv
  BY <1>1 DEF IntakeTypeInv, IntakeRows, RowStatuses, PollerStates, NoRow, IdlePoller, IdleDesk
<1>3. CursorInv
  BY <1>1 DEF CursorInv, Stored
<1>4. PollersReady
  BY <1>1 DEF PollersReady, PollerReady, FollowsFolder, IdlePoller
<1>5. ReviewsCurrent
  BY <1>1 DEF ReviewsCurrent, ConfirmedFrom, NoRow
<1> QED
  BY <1>2, <1>3, <1>4, <1>5 DEF IntakeInv

\* Rows move: none is lost, and none becomes confirmed or changes while it is.
RowsKept == /\ row' \in [Mails -> IntakeRows]
            /\ \A m \in Mails : row[m].status # "none" => row'[m].status # "none"
ConfirmedKept ==
  \A m \in Mails : row'[m].status = "confirmed" =>
    /\ row[m].status = "confirmed" /\ row'[m].review = row[m].review
    /\ row'[m].extraction = row[m].extraction
RowsMove == RowsKept /\ ConfirmedKept

LEMMA ReviewsStay == ASSUME ReviewsCurrent, ConfirmedKept, review' = review PROVE ReviewsCurrent'
BY DEF ReviewsCurrent, ConfirmedFrom, ConfirmedKept

\* What is stored stays stored: the folder as it is.
LEMMA StoredStays ==
  ASSUME IntakeTypeInv, RowsKept, box' = box
  PROVE  \A u \in 1..Len(box.mails) : Stored(u) => Stored(u)'
<1>1. \A u \in 1..Len(box.mails) : box.mails[u] \in Mails
  BY DEF IntakeTypeInv
<1> QED
  BY <1>1 DEF Stored, RowsKept

LEMMA CursorStays ==
  ASSUME IntakeTypeInv, CursorInv, RowsKept, box' = box, cursor' = cursor PROVE CursorInv'
BY StoredStays DEF CursorInv, Stored

LEMMA PollerStays ==
  ASSUME IntakeTypeInv, RowsKept, box' = box, NEW p \in Pollers, NEW r \in PollerStates,
         PollerReady(p, r), r.batch # <<>> => (Current(r)' => Current(r))
  PROVE  PollerReady(p, r)'
<1>1. ASSUME r.batch # <<>>, Current(r), FollowsFolder(r) PROVE FollowsFolder(r)'
  <2>1. r.batch[1].mail \in Mails /\ 1 \in 1..Len(r.batch)
    <3>1. r.batch \in Seq(Envelopes) /\ Len(r.batch) >= 1
      BY <1>1 DEF PollerStates
    <3>2. r.batch[1] \in Envelopes
      BY <3>1
    <3> QED
      BY <3>1, <3>2 DEF Envelopes
  <2>2. r.at \in {"cursor", "acquire", "extract"} => row'[r.batch[1].mail].status # "none"
    BY <1>1, <2>1 DEF FollowsFolder, RowsKept
  <2>3. \A u \in 1..Len(box.mails) : u < r.batch[1].uid => Stored(u)'
    BY <1>1, StoredStays DEF FollowsFolder
  <2> QED
    BY <1>1, <2>2, <2>3 DEF FollowsFolder
<1>2. FollowsFolder(r)'
  BY <1>1 DEF PollerReady, FollowsFolder
<1> QED
  BY <1>2 DEF PollerReady

\* A step of one poller; only the home poller moves the cursor.
LEMMA PollerMoves ==
  ASSUME IntakeInv, RowsMove, UNCHANGED <<box, review, confirming>>,
         NEW p \in Pollers, NEW r \in PollerStates, PollerReady(p, r)', poller' = [poller EXCEPT ![p] = r],
         cursor' = cursor \/ (p = Home /\ CursorInv' /\ cursor' \in [validity : Nat, uid : Nat])
  PROVE  IntakeInv'
<1>0. RowsKept /\ ConfirmedKept
  BY DEF RowsMove
<1>1. IntakeTypeInv /\ CursorInv /\ PollersReady /\ ReviewsCurrent /\ poller \in [Pollers -> PollerStates]
  BY DEF IntakeInv, IntakeTypeInv
<1>2. poller' \in [Pollers -> PollerStates]
  BY <1>1
<1>3. IntakeTypeInv'
  BY <1>0, <1>1, <1>2 DEF IntakeTypeInv, RowsKept
<1>4. ASSUME NEW q \in Pollers PROVE PollerReady(q, poller[q])'
  <2>1. PICK s \in PollerStates : s = poller'[q]
    BY <1>2
  <2>2. CASE q = p
    BY <1>1, <2>1, <2>2
  <2>3. CASE q # p
    <3>1. s = poller[q] /\ PollerReady(q, s)
      BY <1>1, <2>1, <2>3 DEF PollersReady
    <3>2. s.batch # <<>> => (Current(s)' => Current(s))
      BY <2>3, <3>1 DEF PollerReady, Current
    <3>3. PollerReady(q, s)'
      BY <1>0, <1>1, <3>1, <3>2, PollerStays
    <3> QED
      BY <2>1, <3>3
  <2>4. PollerReady(q, s)'
    BY <1>1, <2>1, <2>2, <2>3
  <2>5. FollowsFolder(s)'
    BY <2>4 DEF PollerReady
  <2>6. FollowsFolder(poller[q])'
    BY <2>1, <2>5 DEF FollowsFolder, Current
  <2> QED
    BY <2>1, <2>4, <2>6 DEF PollerReady
<1>5. CursorInv'
  BY <1>0, <1>1, CursorStays
<1> QED
  BY <1>0, <1>1, <1>3, <1>4, <1>5, ReviewsStay DEF IntakeInv, PollersReady

\* Nothing of a row changes but what no property asks about.
LEMMA RowsRest == ASSUME IntakeTypeInv, row' = row PROVE RowsMove
BY DEF IntakeTypeInv, RowsMove, RowsKept, ConfirmedKept

\* One row moves.
LEMMA OneRowMoves ==
  ASSUME IntakeTypeInv, NEW m \in Mails, NEW r \in IntakeRows, row' = [row EXCEPT ![m] = r],
         row[m].status # "none" => r.status # "none",
         r.status = "confirmed" => /\ row[m].status = "confirmed" /\ r.review = row[m].review
                                   /\ r.extraction = row[m].extraction
  PROVE  RowsMove
BY DEF IntakeTypeInv, RowsMove, RowsKept, ConfirmedKept

\* The poller is at rest, or goes on without a batch.
LEMMA ReadyWithoutBatch ==
  ASSUME NEW p, NEW r, r.batch = <<>>, r.at \notin {"envelope", "cursor", "extract"}
  PROVE  PollerReady(p, r)'
BY DEF PollerReady, FollowsFolder

LEMMA IdleReady == /\ IdlePoller \in PollerStates /\ IdlePoller.batch = <<>>
                   /\ IdlePoller.at \notin {"envelope", "cursor", "extract"}
BY DEF IdlePoller, PollerStates

\* The next envelope of the batch, once the first is stored.
NextOf(r) == [r EXCEPT !.at = IF Len(r.batch) > 1 THEN "envelope" ELSE "recover",
                       !.batch = Tail(r.batch), !.mail = NoMail]
LEMMA NextReady ==
  ASSUME IntakeTypeInv, RowsKept, box' = box,
         NEW p \in Pollers, NEW r \in PollerStates, PollerReady(p, r), r.batch # <<>>,
         Current(r)' => Current(r) /\ row'[r.batch[1].mail].status # "none"
  PROVE  NextOf(r) \in PollerStates /\ PollerReady(p, NextOf(r))'
<1> DEFINE n == NextOf(r)
<1>1. /\ r.batch \in Seq(Envelopes) /\ Len(r.batch) >= 1 /\ Tail(r.batch) \in Seq(Envelopes)
      /\ Len(Tail(r.batch)) = Len(r.batch) - 1
      /\ \A k \in 1..Len(Tail(r.batch)) : Tail(r.batch)[k] = r.batch[k + 1]
  <2>1. r.batch \in Seq(Envelopes)
    BY DEF PollerStates
  <2> QED
    BY <2>1
<1>2. /\ n \in PollerStates /\ n.batch = Tail(r.batch) /\ n.validity = r.validity
      /\ n.at = IF Len(r.batch) > 1 THEN "envelope" ELSE "recover"
  BY <1>1 DEF PollerStates, NextOf
<1> HIDE DEF n
<1>3. ASSUME n.batch # <<>>, Current(n)' PROVE FollowsFolder(n)'
  <2>0. Current(r)' /\ Len(r.batch) > 1
    BY <1>1, <1>2, <1>3 DEF Current
  <2>1. Current(r) /\ row'[r.batch[1].mail].status # "none" /\ Len(r.batch) > 1
    BY <2>0
  <2>2. /\ \A k \in 1..Len(r.batch) :
             /\ r.batch[k].uid \in 1..Len(box.mails) /\ r.batch[k].uid = r.batch[1].uid + k - 1
             /\ r.batch[k].mail = box.mails[r.batch[k].uid]
        /\ \A u \in 1..Len(box.mails) : u < r.batch[1].uid => Stored(u)
    BY <2>1 DEF PollerReady, FollowsFolder
  <2>3. r.batch[1].uid \in Int /\ n.batch[1] = r.batch[2] /\ n.batch[1].uid = r.batch[1].uid + 1
    BY <1>1, <1>2, <2>1, <2>2
  <2>4. ASSUME NEW k \in 1..Len(n.batch)
        PROVE  /\ n.batch[k].uid \in 1..Len(box.mails) /\ n.batch[k].uid = n.batch[1].uid + k - 1
               /\ n.batch[k].mail = box.mails[n.batch[k].uid]
    <3>1. PICK j \in 1..Len(r.batch) : j = k + 1 /\ n.batch[k] = r.batch[j]
      BY <1>1, <1>2, <2>4
    <3>2. /\ r.batch[j].uid \in 1..Len(box.mails) /\ r.batch[j].uid = r.batch[1].uid + j - 1
          /\ r.batch[j].mail = box.mails[r.batch[j].uid]
      BY <2>2
    <3>3. n.batch[k].uid = n.batch[1].uid + k - 1
      <4> DEFINE a == r.batch[1].uid
      <4>1. k \in Int /\ j = k + 1 /\ a \in Int /\ n.batch[1].uid = a + 1
        BY <2>3, <2>4, <3>1
      <4>2. n.batch[k].uid = a + j - 1
        BY <3>1, <3>2
      <4> HIDE DEF a
      <4> QED
        BY <4>1, <4>2
    <3> QED
      BY <3>1, <3>2, <3>3
  <2>5. ASSUME NEW u \in 1..Len(box.mails), u < n.batch[1].uid PROVE Stored(u)'
    <3>1. CASE u < r.batch[1].uid
      BY <2>2, <3>1, StoredStays
    <3>2. CASE u = r.batch[1].uid
      <4>1. r.batch[1].mail = box.mails[u]
        BY <2>1, <2>2, <3>2
      <4> QED
        BY <2>1, <4>1 DEF Stored
    <3> QED
      BY <2>3, <2>5, <3>1, <3>2
  <2> QED
    BY <1>2, <2>1, <2>4, <2>5 DEF FollowsFolder
<1>4. FollowsFolder(n)'
  BY <1>3 DEF FollowsFolder
<1>5. /\ n.batch # <<>> => p = Home /\ n.validity \in 1..box.validity
      /\ n.at \in {"envelope", "cursor"} => n.batch # <<>>
      /\ n.at \in {"idle", "recover"} => n.batch = <<>>
      /\ n.at # "extract"
  <2>1. p = Home /\ r.validity \in 1..box.validity
    BY DEF PollerReady
  <2>2. Len(r.batch) > 1 => Tail(r.batch) # <<>>
    <3>1. PICK t : t = Tail(r.batch)
      OBVIOUS
    <3>2. Len(t) = Len(r.batch) - 1 /\ Len(r.batch) \in Nat
      BY <1>1, <3>1
    <3>3. t = <<>> => Len(t) = 0
      OBVIOUS
    <3>4. Len(r.batch) > 1 => t # <<>>
      BY <3>2, <3>3
    <3> QED
      BY <3>1, <3>4
  <2>3. Len(r.batch) <= 1 => Tail(r.batch) = <<>>
    BY <1>1
  <2> QED
    BY <1>1, <1>2, <2>1, <2>2, <2>3
<1> QED
  BY <1>2, <1>4, <1>5 DEF PollerReady, n

\* The cursor goes past the first envelope of a batch it may follow, which is stored.
LEMMA CursorPasses ==
  ASSUME IntakeTypeInv, CursorInv, RowsKept, box' = box, NEW p \in Pollers,
         PollerReady(p, poller[p]), poller[p].batch # <<>>, SameFolder(p), cursor' = CursorAfter(p),
         Current(poller[p]) => row'[Env(p).mail].status # "none"
  PROVE  p = Home /\ CursorInv' /\ cursor' \in [validity : Nat, uid : Nat]
<1> DEFINE r == poller[p]
           e == Env(p)
<1>1. /\ r.batch \in Seq(Envelopes) /\ Len(r.batch) >= 1 /\ e = r.batch[1] /\ e \in Envelopes
  <2>1. r \in PollerStates /\ r.batch # <<>>
    BY DEF IntakeTypeInv
  <2>2. r.batch \in Seq(Envelopes)
    BY <2>1 DEF PollerStates
  <2> HIDE DEF r
  <2>3. Env(p) = Head(r.batch)
    BY DEF Env, r
  <2> QED
    BY <2>1, <2>2, <2>3
<1>2. p = Home /\ r.validity \in 1..box.validity /\ box.validity \in Nat /\ e.uid \in Nat
      /\ cursor.uid \in Nat /\ cursor.validity \in {0, r.validity}
  BY <1>1 DEF PollerReady, Envelopes, IntakeTypeInv, SameFolder
<1>3. cursor' = [validity |-> r.validity, uid |-> IF e.uid < cursor.uid THEN cursor.uid ELSE e.uid]
  BY DEF CursorAfter
<1>4. Current(r) => FollowsFolder(r) /\ row'[e.mail].status # "none"
  BY DEF PollerReady
<1> HIDE DEF e
<1>5. ASSUME r.validity = box.validity
      PROVE  cursor'.uid <= Len(box.mails) /\ \A u \in 1..Len(box.mails) : u <= cursor'.uid => Stored(u)'
  <2>1. Current(r)
    BY <1>2, <1>5 DEF Current
  <2>2. /\ e.uid \in 1..Len(box.mails) /\ e.mail = box.mails[e.uid]
        /\ \A u \in 1..Len(box.mails) : u < e.uid => Stored(u)
    <3>1. FollowsFolder(r) /\ r.batch # <<>> /\ 1 \in 1..Len(r.batch)
      BY <1>1, <1>4, <2>1
    <3> QED
      BY <1>1, <2>1, <3>1 DEF FollowsFolder
  <2>3. row'[box.mails[e.uid]].status # "none"
    BY <1>4, <2>1, <2>2
  <2>4. CASE e.uid < cursor.uid
    <3>1. cursor.validity = box.validity /\ cursor'.uid = cursor.uid
      BY <1>2, <1>3, <1>5, <2>4 DEF CursorInv
    <3> QED
      BY <3>1, StoredStays DEF CursorInv
  <2>5. CASE ~(e.uid < cursor.uid)
    <3>1. cursor'.uid = e.uid
      BY <1>3, <2>5
    <3>2. ASSUME NEW u \in 1..Len(box.mails), u <= cursor'.uid PROVE Stored(u)'
      <4>1. CASE u = e.uid
        BY <2>3, <4>1 DEF Stored
      <4>2. CASE u < e.uid
        BY <2>2, <4>2, StoredStays
      <4> QED
        BY <1>2, <3>1, <3>2, <4>1, <4>2
    <3> QED
      BY <2>2, <3>1, <3>2
  <2> QED
    BY <2>4, <2>5
<1>6. cursor' \in [validity : Nat, uid : Nat] /\ cursor'.validity = r.validity
  BY <1>2, <1>3
<1>7. CursorInv'
  BY <1>2, <1>5, <1>6 DEF CursorInv, Stored
<1> QED
  BY <1>2, <1>6, <1>7

\* What a poll fetches: the mails from the first it has not passed, one by one.
LEMMA FetchedReady ==
  ASSUME IntakeTypeInv, CursorInv, box.mails # <<>>, NEW b, b = Fetched(FirstNew(cursor.uid))
  PROVE  /\ b \in Seq(Envelopes) /\ b # <<>>
         /\ \A k \in 1..Len(b) : /\ b[k].uid \in 1..Len(box.mails) /\ b[k].uid = b[1].uid + k - 1
                                 /\ b[k].mail = box.mails[b[k].uid]
         /\ cursor.validity \in {0, box.validity} =>
              \A u \in 1..Len(box.mails) : u < b[1].uid => Stored(u)
<1> DEFINE first == FirstNew(cursor.uid)
           count == Len(box.mails) - first + 1
<1>1. box.mails \in Seq(Mails) /\ Len(box.mails) \in Nat \ {0} /\ cursor.uid \in Nat
  <2>1. box.mails \in Seq(Mails) /\ cursor.uid \in Nat
    BY DEF IntakeTypeInv
  <2> QED
    BY <2>1
<1>2. /\ first \in 1..Len(box.mails) /\ count \in Nat \ {0}
      /\ \A u \in 1..Len(box.mails) : u < first => u <= cursor.uid
      /\ cursor.uid = 0 => first = 1
  BY <1>1 DEF FirstNew
<1>3. b = [k \in 1..count |-> [mail |-> box.mails[first + k - 1], uid |-> first + k - 1]]
  BY DEF Fetched
<1> HIDE DEF first, count
<1>4. count = Len(box.mails) - first + 1
  BY DEF count
<1>5. ASSUME NEW k \in 1..count
      PROVE  /\ first + k - 1 \in 1..Len(box.mails) /\ b[k] \in Envelopes
             /\ b[k].uid = first + k - 1 /\ b[k].mail = box.mails[first + k - 1]
  <2>1. first + k - 1 \in 1..Len(box.mails)
    BY <1>1, <1>2, <1>4, <1>5
  <2>2. box.mails[first + k - 1] \in Mails
    BY <1>1, <2>1
  <2> QED
    <3> DEFINE u == first + k - 1
    <3>1. b[k] = [mail |-> box.mails[u], uid |-> u]
      BY <1>3, <1>5
    <3>2. u \in Nat /\ box.mails[u] \in Mails
      BY <1>1, <2>1, <2>2
    <3> HIDE DEF u
    <3>3. b[k] \in Envelopes /\ b[k].uid = u /\ b[k].mail = box.mails[u]
      BY <3>1, <3>2 DEF Envelopes
    <3> QED
      BY <2>1, <3>3 DEF u
<1>6. b \in Seq(Envelopes) /\ Len(b) = count
  <2>1. b \in [1..count -> Envelopes]
    BY <1>3, <1>5
  <2>2. b \in Seq(Envelopes)
    BY <1>2, <2>1, SeqDef
  <2>3. DOMAIN b = 1..count /\ DOMAIN b = 1..Len(b) /\ Len(b) \in Nat
    BY <2>1, <2>2, LenProperties
  <2> QED
    BY <1>2, <2>2, <2>3
<1>7. b # <<>> /\ b[1].uid = first
  <2>1. 1 \in 1..count /\ first \in Int
    BY <1>2
  <2>2. b[1].uid = first + 1 - 1
    BY <1>5, <2>1
  <2>3. ASSUME NEW t, t = <<>> PROVE Len(t) = 0
    BY <2>3
  <2>4. Len(b) # 0
    BY <1>2, <1>6
  <2> QED
    BY <2>1, <2>2, <2>3, <2>4
<1>8. ASSUME NEW k \in 1..Len(b)
      PROVE  /\ b[k].uid \in 1..Len(box.mails) /\ b[k].uid = b[1].uid + k - 1
             /\ b[k].mail = box.mails[b[k].uid]
  <2>1. k \in 1..count /\ k \in Int /\ first \in Int
    BY <1>2, <1>6, <1>8
  <2>2. b[k].uid = first + k - 1 /\ b[k].mail = box.mails[first + k - 1] /\ first + k - 1 \in 1..Len(box.mails)
    BY <1>5, <2>1
  <2> QED
    BY <1>7, <2>1, <2>2
<1>9. ASSUME cursor.validity \in {0, box.validity}, NEW u \in 1..Len(box.mails), u < b[1].uid PROVE Stored(u)
  <2>1. u <= cursor.uid /\ u < first
    BY <1>2, <1>7, <1>9
  <2>2. cursor.validity # 0
    BY <1>2, <1>9, <2>1 DEF CursorInv
  <2> QED
    BY <1>9, <2>1, <2>2 DEF CursorInv
<1> QED
  BY <1>6, <1>7, <1>8, <1>9

\* A step of no poller.
LEMMA NoPollerMoves ==
  ASSUME IntakeInv, RowsKept, UNCHANGED <<box, cursor, poller>>, ReviewsCurrent',
         review' \in [Mails -> Seq(ReviewRevisions)],
         confirming' \in [mail : Mails \cup {NoMail}, version : Nat, base : Readings \cup {NoReading}]
  PROVE  IntakeInv'
<1>1. IntakeTypeInv /\ CursorInv /\ PollersReady
  BY DEF IntakeInv
<1>2. IntakeTypeInv'
  BY <1>1 DEF IntakeTypeInv, RowsKept
<1>3. ASSUME NEW q \in Pollers PROVE PollerReady(q, poller[q])'
  <2>1. PICK s \in PollerStates : s = poller[q]
    BY <1>1 DEF IntakeTypeInv
  <2>2. PollerReady(q, s) /\ (Current(s)' => Current(s))
    BY <1>1, <2>1 DEF PollersReady, Current
  <2>3. PollerReady(q, s)'
    BY <1>1, <2>2, PollerStays
  <2>4. s = poller'[q]
    BY <2>1
  <2> QED
    BY <2>3, <2>4 DEF PollerReady, FollowsFolder, Current
<1> QED
  BY <1>1, <1>2, <1>3, CursorStays DEF IntakeInv, PollersReady

\* The folder changes.
LEMMA FolderMoves ==
  ASSUME IntakeInv, UNCHANGED <<cursor, row, review, poller, confirming>>,
         box' \in [validity : Nat, mails : Seq(Mails)],
         \/ box'.validity = box.validity + 1
         \/ \E m \in Mails : box'.validity = box.validity /\ box'.mails = Append(box.mails, m)
  PROVE  IntakeInv'
<1>1. /\ IntakeTypeInv /\ CursorInv /\ PollersReady /\ ReviewsCurrent
      /\ box \in [validity : Nat, mails : Seq(Mails)] /\ box.validity >= 1
      /\ cursor \in [validity : Nat, uid : Nat] /\ poller \in [Pollers -> PollerStates]
  BY DEF IntakeInv, IntakeTypeInv
<1>2. IntakeTypeInv'
  BY <1>1 DEF IntakeTypeInv
<1>3. ReviewsCurrent'
  BY <1>1 DEF ReviewsCurrent, ConfirmedFrom
<1>4. CASE box'.validity = box.validity + 1
  <2>1. CursorInv'
    BY <1>1, <1>4 DEF CursorInv
  <2>2. ASSUME NEW q \in Pollers PROVE PollerReady(q, poller[q])'
    <3>1. PICK s \in PollerStates : s = poller[q] /\ s = poller'[q]
      BY <1>1
    <3>2. PollerReady(q, s) /\ s.validity \in Nat
      BY <1>1, <3>1 DEF PollersReady, PollerStates
    <3>3. s.batch # <<>> => ~Current(s)' /\ s.validity \in 1..box'.validity
      BY <1>1, <1>4, <3>2 DEF PollerReady, Current
    <3>4. PollerReady(q, s)'
      BY <3>2, <3>3 DEF PollerReady, FollowsFolder
    <3> QED
      BY <3>1, <3>4 DEF PollerReady, FollowsFolder, Current
  <2> QED
    BY <1>2, <1>3, <2>1, <2>2 DEF IntakeInv, PollersReady
<1>5. ASSUME NEW m \in Mails, box'.validity = box.validity, box'.mails = Append(box.mails, m)
      PROVE  IntakeInv'
  <2>1. /\ Len(box'.mails) = Len(box.mails) + 1 /\ Len(box.mails) \in Nat
        /\ \A u \in 1..Len(box.mails) : box'.mails[u] = box.mails[u]
    BY <1>1, <1>5
  <2>2. \A u \in 1..Len(box.mails) : Stored(u) => Stored(u)'
    BY <2>1 DEF Stored
  <2>3. CursorInv'
    <3>1. ASSUME cursor.validity = box.validity
          PROVE  /\ cursor.uid <= Len(box'.mails)
                 /\ \A u \in 1..Len(box'.mails) : u <= cursor.uid => Stored(u)'
      <4>1. cursor.uid <= Len(box.mails) /\ \A u \in 1..Len(box.mails) : u <= cursor.uid => Stored(u)
        BY <1>1, <3>1 DEF CursorInv
      <4>2. \A u \in 1..Len(box'.mails) : u <= cursor.uid => u \in 1..Len(box.mails)
        BY <1>1, <2>1, <4>1
      <4> QED
        BY <1>1, <2>1, <2>2, <4>1, <4>2
    <3> QED
      BY <1>1, <1>5, <3>1 DEF CursorInv, Stored
  <2>4. ASSUME NEW q \in Pollers PROVE PollerReady(q, poller[q])'
    <3>1. PICK s \in PollerStates : s = poller[q] /\ s = poller'[q]
      BY <1>1
    <3>2. PollerReady(q, s) /\ (Current(s)' => Current(s))
      BY <1>1, <1>5, <3>1 DEF PollersReady, Current
    <3>3. ASSUME s.batch # <<>>, Current(s) PROVE FollowsFolder(s)'
      <4>1. /\ \A k \in 1..Len(s.batch) :
                 /\ s.batch[k].uid \in 1..Len(box.mails) /\ s.batch[k].uid = s.batch[1].uid + k - 1
                 /\ s.batch[k].mail = box.mails[s.batch[k].uid]
            /\ \A u \in 1..Len(box.mails) : u < s.batch[1].uid => Stored(u)
            /\ s.at \in {"cursor", "acquire", "extract"} => row[s.batch[1].mail].status # "none"
        BY <3>2, <3>3 DEF PollerReady, FollowsFolder
      <4>2. 1 \in 1..Len(s.batch)
        <5>1. s.batch \in Seq(Envelopes)
          BY DEF PollerStates
        <5> QED
          BY <3>3, <5>1
      <4>3. \A k \in 1..Len(s.batch) :
                 /\ s.batch[k].uid \in 1..Len(box'.mails) /\ s.batch[k].mail = box'.mails[s.batch[k].uid]
        <5>1. SUFFICES ASSUME NEW k \in 1..Len(s.batch)
                       PROVE  /\ s.batch[k].uid \in 1..Len(box'.mails)
                              /\ s.batch[k].mail = box'.mails[s.batch[k].uid]
          OBVIOUS
        <5> DEFINE u == s.batch[k].uid
        <5>2. u \in 1..Len(box.mails) /\ s.batch[k].mail = box.mails[u]
          BY <4>1
        <5> HIDE DEF u
        <5>3. u \in 1..Len(box'.mails) /\ box'.mails[u] = box.mails[u]
          BY <2>1, <5>2
        <5> QED
          BY <5>2, <5>3 DEF u
      <4>4. ASSUME NEW u \in 1..Len(box'.mails), u < s.batch[1].uid PROVE Stored(u)'
        <5>1. s.batch[1].uid \in 1..Len(box.mails)
          BY <4>1, <4>2
        <5>2. u \in 1..Len(box.mails)
          BY <2>1, <4>4, <5>1
        <5> QED
          BY <2>2, <4>1, <4>4, <5>2
      <4> QED
        BY <4>1, <4>3, <4>4 DEF FollowsFolder
    <3>4. FollowsFolder(s)'
      BY <3>2, <3>3 DEF FollowsFolder
    <3>5. PollerReady(q, s)'
      BY <1>5, <3>2, <3>4 DEF PollerReady
    <3> QED
      BY <3>1, <3>5 DEF PollerReady, FollowsFolder, Current
  <2> QED
    BY <1>2, <1>3, <2>3, <2>4 DEF IntakeInv, PollersReady
<1> QED
  BY <1>4, <1>5

\* Records of rows.
LEMMA IntakeRowFields ==
  ASSUME NEW r \in IntakeRows
  PROVE  r.attempts \in Nat /\ r.version \in Nat /\ r.review \in Nat /\ r.status \in RowStatuses
         /\ r.extraction \in Readings \cup {NoReading}
BY DEF IntakeRows

LEMMA IntakeStep == ASSUME IntakeInv, [IntakeNext]_intakeVars PROVE IntakeInv'
<1>t. /\ IntakeTypeInv /\ CursorInv /\ PollersReady /\ ReviewsCurrent
      /\ box \in [validity : Nat, mails : Seq(Mails)] /\ box.validity >= 1
      /\ cursor \in [validity : Nat, uid : Nat] /\ poller \in [Pollers -> PollerStates]
      /\ row \in [Mails -> IntakeRows] /\ review \in [Mails -> Seq(ReviewRevisions)]
      /\ confirming \in [mail : Mails \cup {NoMail}, version : Nat, base : Readings \cup {NoReading}]
  BY DEF IntakeInv, IntakeTypeInv
\* The folder.
<1>1. ASSUME NEW m \in Mails, MailArrives(m) PROVE IntakeInv'
  <2>1. box' = [box EXCEPT !.mails = Append(box.mails, m)]
        /\ UNCHANGED <<cursor, row, review, poller, confirming>>
    BY <1>1 DEF MailArrives, outside
  <2>2. /\ box' \in [validity : Nat, mails : Seq(Mails)]
        /\ box'.validity = box.validity /\ box'.mails = Append(box.mails, m)
    <3>1. Append(box.mails, m) \in Seq(Mails)
      BY <1>t
    <3> QED
      BY <1>t, <2>1, <3>1
  <2> QED
    BY <2>1, <2>2, FolderMoves
<1>2. CASE FolderReset
  <2>1. box' = [validity |-> box.validity + 1, mails |-> Tail(box.mails)] /\ box.mails # <<>>
        /\ UNCHANGED <<cursor, row, review, poller, confirming>>
    BY <1>2 DEF FolderReset, outside
  <2>2. box' \in [validity : Nat, mails : Seq(Mails)] /\ box'.validity = box.validity + 1
    <3>1. Tail(box.mails) \in Seq(Mails) /\ box.validity + 1 \in Nat
      BY <1>t, <2>1
    <3> QED
      BY <2>1, <3>1
  <2> QED
    BY <2>1, <2>2, FolderMoves
\* Neither the folder nor its cursor, no row and no poller.
<1>3. ASSUME UNCHANGED <<box, cursor, row, review, poller>>,
             confirming' \in [mail : Mails \cup {NoMail}, version : Nat, base : Readings \cup {NoReading}]
      PROVE  IntakeInv'
  <2>1. RowsKept /\ ReviewsCurrent'
    BY <1>3, <1>t DEF RowsKept, ReviewsCurrent, ConfirmedFrom
  <2> QED
    BY <1>3, <1>t, <2>1, NoPollerMoves
<1>4. CASE DispatchStep \/ MarkFailed \/ DispatcherCrash \/ UNCHANGED intakeVars
  BY <1>3, <1>4, <1>t DEF DispatchStep, ReadPending, MarkSent, MarkFailed, DispatcherCrash, tables, intakeVars
<1>5. CASE ConfirmRefused
  <2>1. IdleDesk \in [mail : Mails \cup {NoMail}, version : Nat, base : Readings \cup {NoReading}]
    BY DEF IdleDesk
  <2> QED
    BY <1>3, <1>5, <2>1 DEF ConfirmRefused, mail
<1>6. ASSUME NEW m \in Mails, Preview(m) PROVE IntakeInv'
  <2>1. row[m] \in IntakeRows
    BY <1>t
  <2>2. [mail |-> m, version |-> row[m].version, base |-> row[m].extraction]
          \in [mail : Mails \cup {NoMail}, version : Nat, base : Readings \cup {NoReading}]
    BY <2>1, IntakeRowFields
  <2> QED
    BY <1>3, <1>6, <2>2 DEF Preview, mail
\* A row, by no poller.
<1>7. ASSUME NEW m \in Mails, NEW r \in IntakeRows, row' = [row EXCEPT ![m] = r],
             row[m].status # "none" => r.status # "none",
             r.status = "confirmed" => /\ row[m].status = "confirmed" /\ r.review = row[m].review
                                       /\ r.extraction = row[m].extraction,
             UNCHANGED <<box, cursor, review, poller, confirming>>
      PROVE  IntakeInv'
  <2>1. RowsKept /\ ConfirmedKept
    BY <1>7, <1>t, OneRowMoves DEF RowsMove
  <2> QED
    BY <1>7, <1>t, <2>1, NoPollerMoves, ReviewsStay
<1>8. ASSUME NEW m \in Mails, RetryDue(m) PROVE IntakeInv'
  <2> DEFINE r == [row[m] EXCEPT !.due = TRUE]
  <2>1. row[m] \in IntakeRows
    BY <1>t
  <2>2. r \in IntakeRows /\ r.status = row[m].status /\ r.review = row[m].review /\ r.extraction = row[m].extraction
    BY <2>1 DEF IntakeRows
  <2>3. row' = [row EXCEPT ![m] = r] /\ UNCHANGED <<box, cursor, review, poller, confirming>>
    BY <1>8 DEF RetryDue, outside
  <2> HIDE DEF r
  <2> QED
    BY <1>7, <2>2, <2>3
<1>9. ASSUME NEW m \in Mails, LeaseLapses(m) PROVE IntakeInv'
  <2> DEFINE r == [row[m] EXCEPT !.lease = "lapsed"]
  <2>1. row[m] \in IntakeRows
    BY <1>t
  <2>2. r \in IntakeRows /\ r.status = row[m].status /\ r.review = row[m].review /\ r.extraction = row[m].extraction
    BY <2>1 DEF IntakeRows
  <2>3. row' = [row EXCEPT ![m] = r] /\ UNCHANGED <<box, cursor, review, poller, confirming>>
    BY <1>9 DEF LeaseLapses, outside
  <2> HIDE DEF r
  <2> QED
    BY <1>7, <2>2, <2>3
<1>10. ASSUME NEW m \in Mails, ReopenFailed(m) PROVE IntakeInv'
  <2> DEFINE r == [row[m] EXCEPT !.status = "retry_wait", !.attempts = 0, !.due = TRUE]
  <2>1. row[m] \in IntakeRows
    BY <1>t
  <2>2. r \in IntakeRows /\ r.status = "retry_wait"
    BY <2>1 DEF IntakeRows, RowStatuses
  <2>3. row' = [row EXCEPT ![m] = r] /\ UNCHANGED <<box, cursor, review, poller, confirming>>
    BY <1>10 DEF ReopenFailed, outside
  <2> HIDE DEF r
  <2> QED
    BY <1>7, <2>2, <2>3
\* The review.
<1>11. CASE ConfirmReview
  <2> DEFINE m == confirming.mail
             r == [row[m] EXCEPT !.status = "confirmed", !.version = row[m].version + 1,
                                 !.review = Len(review[m]) + 1]
             revision == [base |-> confirming.base, status |-> "confirmed"]
             list == Append(review[m], revision)
  <2>1. /\ confirming # IdleDesk /\ row[m].status = "needs_review" /\ row[m].extraction = confirming.base
        /\ review' = [review EXCEPT ![m] = list] /\ row' = [row EXCEPT ![m] = r]
        /\ confirming' = IdleDesk /\ UNCHANGED <<box, cursor, poller>>
    BY <1>11 DEF ConfirmReview, StillCurrent, mail
  <2>2. CASE m \in Mails
    <3>1. row[m] \in IntakeRows /\ review[m] \in Seq(ReviewRevisions) /\ confirming.base \in Readings \cup {NoReading}
      BY <1>t, <2>2
    <3>2. revision \in ReviewRevisions /\ row[m].version + 1 \in Nat /\ Len(review[m]) + 1 \in Nat
      BY <3>1, IntakeRowFields DEF ReviewRevisions
    <3>3. /\ r \in IntakeRows /\ r.status = "confirmed" /\ r.review = Len(review[m]) + 1
          /\ r.extraction = row[m].extraction
      BY <3>1, <3>2 DEF IntakeRows, RowStatuses
    <3>4. /\ list \in Seq(ReviewRevisions) /\ Len(list) = Len(review[m]) + 1
          /\ list[Len(review[m]) + 1] = revision /\ revision.base = confirming.base
      BY <3>1, <3>2
    <3> HIDE DEF r, list, revision, m
    <3>5. RowsKept
      BY <1>t, <2>1, <2>2, <3>3 DEF RowsKept
    <3>6. review' \in [Mails -> Seq(ReviewRevisions)]
      BY <1>t, <2>1, <2>2, <3>4
    <3>7. ASSUME NEW n \in Mails PROVE ConfirmedFrom(n)'
      <4>1. CASE n = m
        <5>1. row'[n] = r /\ review'[n] = list
          BY <1>t, <2>1, <2>2, <4>1
        <5>2. Len(review[m]) + 1 \in 1..Len(list)
          BY <3>1, <3>4
        <5> QED
          BY <2>1, <3>3, <3>4, <5>1, <5>2 DEF ConfirmedFrom
      <4>2. CASE n # m
        <5>1. row'[n] = row[n] /\ review'[n] = review[n]
          BY <1>t, <2>1, <4>2
        <5> QED
          BY <1>t, <5>1 DEF ReviewsCurrent, ConfirmedFrom
      <4> QED
        BY <4>1, <4>2
    <3>8. confirming' \in [mail : Mails \cup {NoMail}, version : Nat, base : Readings \cup {NoReading}]
      BY <2>1 DEF IdleDesk
    <3> QED
      BY <2>1, <3>5, <3>6, <3>7, <3>8, NoPollerMoves DEF ReviewsCurrent
  <2>3. CASE m \notin Mails
    <3>1. row' = row /\ review' = review
      BY <1>t, <2>1, <2>3
    <3> QED
      BY <1>3, <2>1, <3>1 DEF IdleDesk
  <2> QED
    BY <2>2, <2>3
<1>12. ASSUME NEW m \in Mails, ReopenReview(m) PROVE IntakeInv'
  <2> DEFINE r == [row[m] EXCEPT !.status = "retry_wait", !.attempts = 0, !.due = TRUE, !.lease = "free",
                                 !.review = 0, !.version = row[m].version + 1]
             list == Superseded(review[m])
  <2>1. /\ review' = [review EXCEPT ![m] = list] /\ row' = [row EXCEPT ![m] = r]
        /\ UNCHANGED <<box, cursor, poller, confirming>>
    BY <1>12 DEF ReopenReview, mail
  <2>2. r \in IntakeRows /\ r.status = "retry_wait"
    <3>1. row[m] \in IntakeRows
      BY <1>t
    <3>2. row[m].version + 1 \in Nat
      BY <3>1, IntakeRowFields
    <3> QED
      BY <3>1, <3>2 DEF IntakeRows, RowStatuses
  <2>3. list \in Seq(ReviewRevisions)
    <3>1. review[m] \in Seq(ReviewRevisions)
      BY <1>t
    <3>2. DOMAIN review[m] = 1..Len(review[m]) /\ Len(review[m]) \in Nat
      BY <3>1
    <3>3. ASSUME NEW k \in 1..Len(review[m]) PROVE [review[m][k] EXCEPT !.status = "superseded"] \in ReviewRevisions
      <4>1. review[m][k] \in ReviewRevisions
        BY <3>1
      <4> QED
        BY <4>1 DEF ReviewRevisions
    <3>4. list \in [1..Len(review[m]) -> ReviewRevisions]
      BY <3>2, <3>3 DEF Superseded
    <3> HIDE DEF list
    <3> QED
      BY <3>2, <3>4, SeqDef
  <2> HIDE DEF r, list
  <2>4. RowsKept
    BY <1>t, <2>1, <2>2 DEF RowsKept
  <2>5. review' \in [Mails -> Seq(ReviewRevisions)]
    BY <1>t, <2>1, <2>3
  <2>6. ASSUME NEW n \in Mails PROVE ConfirmedFrom(n)'
    <3>1. CASE n = m
      BY <1>t, <2>1, <2>2, <3>1 DEF ConfirmedFrom
    <3>2. CASE n # m
      <4>1. row'[n] = row[n] /\ review'[n] = review[n]
        BY <1>t, <2>1, <3>2
      <4> QED
        BY <1>t, <4>1 DEF ReviewsCurrent, ConfirmedFrom
    <3> QED
      BY <3>1, <3>2
  <2> QED
    BY <1>t, <2>1, <2>4, <2>5, <2>6, NoPollerMoves DEF ReviewsCurrent
\* A poller moves, with rows or without.
<1>13. ASSUME NEW p \in Pollers, NEW r \in PollerStates, PollerReady(p, r)', poller' = [poller EXCEPT ![p] = r],
              RowsMove, UNCHANGED <<box, cursor, review, confirming>>
       PROVE  IntakeInv'
  BY <1>13, PollerMoves
<1>14. ASSUME NEW p \in Pollers, Goes(p, IdlePoller), RowsMove, UNCHANGED <<box, cursor, review, confirming>>
       PROVE  IntakeInv'
  <2>1. PollerReady(p, IdlePoller)' /\ IdlePoller \in PollerStates
    BY IdleReady, ReadyWithoutBatch
  <2> QED
    BY <1>13, <1>14, <2>1 DEF Goes
<1>15. ASSUME NEW p \in Pollers PROVE poller[p] \in PollerStates /\ PollerReady(p, poller[p])
  BY <1>t, <1>15 DEF PollersReady
<1>16. ASSUME NEW p \in Pollers, poller[p].batch # <<>>
       PROVE  /\ Env(p) = poller[p].batch[1] /\ Env(p) \in Envelopes /\ Env(p).mail \in Mails
  <2>1. PICK s \in PollerStates : s = poller[p]
    BY <1>15
  <2>2. s.batch \in Seq(Envelopes) /\ s.batch # <<>>
    BY <1>16, <2>1 DEF PollerStates
  <2>3. Head(s.batch) = s.batch[1] /\ Head(s.batch) \in Envelopes
    BY <2>2
  <2>4. Head(s.batch).mail \in Mails
    BY <2>3 DEF Envelopes
  <2> QED
    BY <2>1, <2>3, <2>4 DEF Env
<1>17. ASSUME NEW p \in Pollers, poller[p].batch # <<>>, poller[p].at \in {"cursor", "acquire", "extract"},
              Current(poller[p]), RowsKept
       PROVE  row'[Env(p).mail].status # "none"
  BY <1>15, <1>16, <1>17 DEF PollerReady, FollowsFolder, RowsKept
\* On to the next envelope, once the first is stored.
<1>18. ASSUME NEW p \in Pollers, poller[p].batch # <<>>, NextEnvelope(p), RowsMove, box' = box,
              UNCHANGED <<review, confirming>>,
              cursor' = cursor \/ (p = Home /\ CursorInv' /\ cursor' \in [validity : Nat, uid : Nat]),
              (poller[p].validity = box.validity /\ cursor'.validity \in {0, poller[p].validity})
                => Current(poller[p]) /\ row'[Env(p).mail].status # "none"
       PROVE  IntakeInv'
  <2>1. PICK s \in PollerStates : s = poller[p] /\ PollerReady(p, s)
    BY <1>15
  <2>2. s.batch # <<>> /\ Env(p) = s.batch[1] /\ poller' = [poller EXCEPT ![p] = NextOf(s)]
    BY <1>16, <1>18, <2>1 DEF NextEnvelope, Goes, NextOf
  <2>3. Current(s)' => Current(s) /\ row'[s.batch[1].mail].status # "none"
    BY <1>18, <2>1, <2>2 DEF Current
  <2>4. NextOf(s) \in PollerStates /\ PollerReady(p, NextOf(s))'
    BY <1>18, <1>t, <2>1, <2>2, <2>3, NextReady DEF RowsMove
  <2> QED
    BY <1>18, <2>2, <2>4, PollerMoves
<1>19. ASSUME NEW p \in Pollers, NEW todo \in SUBSET Mails, Onward(p, todo),
              poller[p].at \in {"acquire", "extract"}, RowsMove, UNCHANGED <<box, cursor, review, confirming>>
       PROVE  IntakeInv'
  <2>1. CASE poller[p].batch # <<>>
    <3>1. NextEnvelope(p)
      BY <1>19, <2>1 DEF Onward
    <3>2. (poller[p].validity = box.validity /\ cursor'.validity \in {0, poller[p].validity})
            => Current(poller[p]) /\ row'[Env(p).mail].status # "none"
      BY <1>17, <1>19, <2>1 DEF Current, RowsMove
    <3> QED
      BY <1>18, <1>19, <2>1, <3>1, <3>2
  <2>2. CASE poller[p].batch = <<>> /\ todo = {}
    BY <1>14, <1>19, <2>2 DEF Onward
  <2>3. CASE poller[p].batch = <<>> /\ todo # {}
    <3>1. PICK s \in PollerStates : s = poller[p]
      BY <1>15
    <3> DEFINE r == [s EXCEPT !.at = "acquire", !.mail = NoMail, !.todo = todo]
    <3>2. poller' = [poller EXCEPT ![p] = r]
      BY <1>19, <2>3, <3>1 DEF Onward, Goes
    <3>3. r \in PollerStates /\ r.batch = <<>> /\ r.at = "acquire"
      BY <2>3, <3>1 DEF PollerStates
    <3> HIDE DEF r
    <3>4. PollerReady(p, r)'
      BY <3>3, ReadyWithoutBatch
    <3> QED
      BY <1>13, <1>19, <3>2, <3>3, <3>4
  <2> QED
    BY <2>1, <2>2, <2>3
<1>20. ASSUME NEW p \in Pollers, Crash(p) \/ PollRefused(p) PROVE IntakeInv'
  BY <1>14, <1>20, <1>t, RowsRest DEF Crash, PollRefused, outside
<1>21. ASSUME NEW p \in Pollers, FetchAfter(p) PROVE IntakeInv'
  <2>1. PICK s \in PollerStates : s = poller[p]
    BY <1>15
  <2>2. PICK b : b = (IF box.mails = <<>> THEN <<>> ELSE Fetched(FirstNew(cursor.uid)))
    OBVIOUS
  <2>0. PICK r : r = [s EXCEPT !.at = IF box.mails = <<>> THEN "recover" ELSE "envelope",
                               !.validity = box.validity, !.batch = b]
    OBVIOUS
  <2>3. /\ p = Home /\ poller' = [poller EXCEPT ![p] = r] /\ UNCHANGED <<box, cursor, row, review, confirming>>
    BY <1>21, <2>0, <2>1, <2>2 DEF FetchAfter, Goes, outside
  <2>4. b \in Seq(Envelopes) /\ (box.mails # <<>> => b # <<>>) /\ (box.mails = <<>> => b = <<>>)
    BY <1>t, <2>2, FetchedReady
  <2>5. /\ r \in PollerStates /\ r.batch = b /\ r.validity = box.validity
        /\ r.at = IF box.mails = <<>> THEN "recover" ELSE "envelope"
    BY <1>t, <2>0, <2>4 DEF PollerStates
  <2>6. PollerReady(p, r)'
    <3>1. CASE box.mails = <<>>
      <4>1. r.batch = <<>> /\ r.at = "recover"
        BY <2>4, <2>5, <3>1
      <4> QED
        BY <2>5, <4>1, ReadyWithoutBatch
    <3>2. CASE box.mails # <<>>
      <4>1. /\ \A k \in 1..Len(b) : /\ b[k].uid \in 1..Len(box.mails) /\ b[k].uid = b[1].uid + k - 1
                                    /\ b[k].mail = box.mails[b[k].uid]
            /\ cursor.validity \in {0, box.validity} =>
                 \A u \in 1..Len(box.mails) : u < b[1].uid => Stored(u)
        BY <1>t, <2>2, <3>2, FetchedReady
      <4>2. \A u : Stored(u)' = Stored(u)
        BY <2>3 DEF Stored
      <4>3. FollowsFolder(r)'
        BY <2>3, <2>5, <3>2, <4>1, <4>2 DEF FollowsFolder, Current
      <4>4. box'.validity = box.validity /\ box.validity \in 1..box.validity
        BY <1>t, <2>3
      <4> QED
        BY <2>3, <2>4, <2>5, <3>2, <4>3, <4>4 DEF PollerReady
    <3> QED
      BY <3>1, <3>2
  <2>7. RowsMove
    BY <1>t, <2>3, RowsRest
  <2> QED
    BY <1>13, <2>3, <2>5, <2>6, <2>7
<1>22. ASSUME NEW p \in Pollers, RecordSkipped(p) PROVE IntakeInv'
  <2> DEFINE m == Env(p).mail
             r == [row[m] EXCEPT !.status = IF row[m].status = "none" THEN "ignored_non_trade" ELSE row[m].status]
  <2>1. /\ poller[p].at = "envelope" /\ SameFolder(p) /\ row' = [row EXCEPT ![m] = r]
        /\ cursor' = CursorAfter(p) /\ NextEnvelope(p) /\ UNCHANGED <<box, review, confirming>>
    BY <1>22 DEF RecordSkipped, At, outside
  <2>2. poller[p].batch # <<>> /\ m \in Mails
    BY <1>15, <1>16, <2>1 DEF PollerReady
  <2>3. /\ r \in IntakeRows /\ r.status # "none" /\ r.review = row[m].review /\ r.extraction = row[m].extraction
        /\ r.status = "confirmed" => row[m].status = "confirmed"
    <3>1. row[m] \in IntakeRows
      BY <1>t, <2>2
    <3> QED
      BY <3>1 DEF IntakeRows, RowStatuses
  <2>4. row'[m].status # "none"
    BY <1>t, <2>1, <2>2, <2>3
  <2> HIDE DEF r, m
  <2>5. RowsMove
    BY <1>t, <2>1, <2>2, <2>3, OneRowMoves
  <2>6. p = Home /\ CursorInv' /\ cursor' \in [validity : Nat, uid : Nat]
    BY <1>15, <1>t, <2>1, <2>2, <2>4, <2>5, CursorPasses DEF RowsMove, m
  <2>7. poller[p].validity = box.validity => Current(poller[p])
    BY <2>1 DEF SameFolder, Current
  <2> QED
    BY <1>18, <2>1, <2>2, <2>4, <2>5, <2>6, <2>7 DEF m
<1>23. ASSUME NEW p \in Pollers, Persist(p) PROVE IntakeInv'
  <2>1. PICK s \in PollerStates : s = poller[p] /\ PollerReady(p, s)
    BY <1>15
  <2>2. poller[p].at = "envelope" /\ s.batch # <<>> /\ s.at = "envelope" /\ s.batch[1] = Env(p) /\ Env(p).mail \in Mails
    BY <1>15, <1>16, <1>23, <2>1 DEF Persist, At, PollerReady
  <2>3. PICK m \in Mails : m = Env(p).mail
    BY <2>2
  <2>4. PICK todo \in SUBSET Mails : todo = (IF row[m].status = "none" /\ class[m] = "rfq" THEN {m} ELSE {})
    OBVIOUS
  <2> DEFINE q == [row[m] EXCEPT !.status = IF row[m].status # "none" THEN row[m].status
                                            ELSE IF class[m] = "rfq" THEN "persisted" ELSE "received"]
             r == [s EXCEPT !.at = "cursor", !.todo = todo]
  <2>5. row' = [row EXCEPT ![m] = q] /\ UNCHANGED <<box, cursor, review, confirming>>
    BY <1>23, <2>3 DEF Persist, outside
  <2>6. poller' = [poller EXCEPT ![p] = r]
    BY <1>23, <2>1, <2>3, <2>4 DEF Persist, Goes
  <2>7. /\ q \in IntakeRows /\ q.status # "none" /\ q.review = row[m].review /\ q.extraction = row[m].extraction
        /\ q.status = "confirmed" => row[m].status = "confirmed"
    <3>1. row[m] \in IntakeRows
      BY <1>t
    <3> QED
      BY <3>1 DEF IntakeRows, RowStatuses
  <2>8. r \in PollerStates /\ r.batch = s.batch /\ r.validity = s.validity /\ r.at = "cursor"
    BY DEF PollerStates
  <2> HIDE DEF q, r
  <2>9. RowsMove /\ row'[m].status # "none"
    BY <1>t, <2>5, <2>7, OneRowMoves
  <2>10. PollerReady(p, s)'
    BY <1>t, <2>1, <2>5, <2>9, PollerStays DEF RowsMove, Current
  <2>11. PollerReady(p, r)'
    <3>1. FollowsFolder(r)'
      BY <2>2, <2>3, <2>8, <2>9, <2>10 DEF PollerReady, FollowsFolder, Current
    <3> QED
      BY <2>2, <2>8, <2>10, <3>1 DEF PollerReady
  <2> QED
    BY <1>13, <2>5, <2>6, <2>8, <2>9, <2>11
<1>24. ASSUME NEW p \in Pollers, AdvanceCursor(p) PROVE IntakeInv'
  <2>1. /\ poller[p].at = "cursor" /\ SameFolder(p) /\ cursor' = CursorAfter(p)
        /\ UNCHANGED <<box, row, review, confirming>>
    BY <1>24 DEF AdvanceCursor, At, outside
  <2>2. poller[p].batch # <<>>
    BY <1>15, <2>1 DEF PollerReady
  <2>3. RowsMove
    BY <1>t, <2>1, RowsRest
  <2>4. poller[p].validity = box.validity => Current(poller[p])
    BY <2>1 DEF SameFolder, Current
  <2>5. Current(poller[p]) => row'[Env(p).mail].status # "none"
    BY <1>17, <2>1, <2>2, <2>3 DEF RowsMove
  <2>6. p = Home /\ CursorInv' /\ cursor' \in [validity : Nat, uid : Nat]
    BY <1>15, <1>t, <2>1, <2>2, <2>3, <2>5, CursorPasses DEF RowsMove
  <2>7. CASE poller[p].todo = {}
    <3>1. NextEnvelope(p)
      BY <1>24, <2>7 DEF AdvanceCursor
    <3> QED
      BY <1>18, <2>1, <2>2, <2>3, <2>4, <2>5, <2>6, <3>1
  <2>8. CASE poller[p].todo # {}
    <3>1. PICK s \in PollerStates : s = poller[p] /\ PollerReady(p, s)
      BY <1>15
    <3> DEFINE r == [s EXCEPT !.at = "acquire"]
    <3>2. poller' = [poller EXCEPT ![p] = r]
      BY <1>24, <2>8, <3>1 DEF AdvanceCursor, Goes
    <3>3. r \in PollerStates /\ r.batch = s.batch /\ r.validity = s.validity /\ r.at = "acquire"
      BY DEF PollerStates
    <3> HIDE DEF r
    <3>4. s.batch # <<>> => (Current(s)' => Current(s))
      BY <2>1, <2>4, <3>1 DEF Current
    <3>5. PollerReady(p, s)'
      BY <1>t, <2>1, <2>3, <3>1, <3>4, PollerStays DEF RowsMove
    <3>6. PollerReady(p, r)'
      <4>1. s.at = "cursor"
        BY <2>1, <3>1
      <4>2. FollowsFolder(r)'
        BY <3>3, <3>5, <4>1 DEF PollerReady, FollowsFolder, Current
      <4> QED
        BY <3>3, <3>5, <4>2 DEF PollerReady
    <3> QED
      BY <2>1, <2>3, <2>6, <3>2, <3>3, <3>6, PollerMoves
  <2> QED
    BY <2>7, <2>8
<1>25. ASSUME NEW p \in Pollers, RecoverPending(p) PROVE IntakeInv'
  <2>1. poller[p].at \in {"idle", "recover"} /\ UNCHANGED <<box, cursor, row, review, confirming>>
    BY <1>25 DEF RecoverPending, At, outside
  <2>2. RowsMove
    BY <1>t, <2>1, RowsRest
  <2>3. CASE Recoverable = {}
    BY <1>14, <1>25, <2>1, <2>2, <2>3 DEF RecoverPending
  <2>4. CASE Recoverable # {}
    <3>1. PICK s \in PollerStates : s = poller[p] /\ PollerReady(p, s)
      BY <1>15
    <3>2. PICK todo \in SUBSET Mails : todo = Recoverable
      BY DEF Recoverable
    <3> DEFINE r == [s EXCEPT !.at = "acquire", !.todo = todo]
    <3>3. poller' = [poller EXCEPT ![p] = r]
      BY <1>25, <2>4, <3>1, <3>2 DEF RecoverPending, Goes
    <3>4. s.batch = <<>>
      BY <2>1, <3>1 DEF PollerReady
    <3>5. r \in PollerStates /\ r.batch = <<>> /\ r.at = "acquire"
      BY <3>4 DEF PollerStates
    <3> HIDE DEF r
    <3>6. PollerReady(p, r)'
      BY <3>5, ReadyWithoutBatch
    <3> QED
      BY <1>13, <2>1, <2>2, <3>3, <3>5, <3>6
  <2> QED
    BY <2>3, <2>4
<1>26. ASSUME NEW p \in Pollers, NEW m \in Mails, Acquire(p, m) PROVE IntakeInv'
  <2>1. PICK s \in PollerStates : s = poller[p] /\ PollerReady(p, s)
    BY <1>15
  <2>2. poller[p].at = "acquire" /\ UNCHANGED <<box, cursor, review, confirming>>
    BY <1>26 DEF Acquire, At, outside
  <2>3. s.todo \ {m} \in SUBSET Mails
    BY DEF PollerStates
  <2>4. CASE MayAcquire(m)
    <3> DEFINE k == row[m].attempts + 1
               q == [row[m] EXCEPT !.status = "extracting", !.lease = "live", !.attempts = k]
               r == [s EXCEPT !.at = "extract", !.mail = m, !.todo = s.todo \ {m}]
    <3>1. row' = [row EXCEPT ![m] = q] /\ poller' = [poller EXCEPT ![p] = r]
      BY <1>26, <2>1, <2>4 DEF Acquire, Goes
    <3>2. row[m] \in IntakeRows /\ k \in Nat
      BY <1>t, IntakeRowFields
    <3> HIDE DEF k
    <3>3. q \in IntakeRows /\ q.status = "extracting"
      BY <3>2 DEF IntakeRows, RowStatuses
    <3>4. r \in PollerStates /\ r.batch = s.batch /\ r.validity = s.validity /\ r.at = "extract" /\ r.mail = m
      BY <2>3 DEF PollerStates
    <3> HIDE DEF q, r
    <3>5. RowsMove
      BY <1>t, <3>1, <3>3, OneRowMoves
    <3>6. PollerReady(p, s)'
      BY <1>t, <2>1, <2>2, <3>5, PollerStays DEF RowsMove, Current
    <3>7. PollerReady(p, r)'
      <4>1. s.at = "acquire"
        BY <2>1, <2>2
      <4>2. FollowsFolder(r)'
        BY <3>4, <3>6, <4>1 DEF PollerReady, FollowsFolder, Current
      <4> QED
        BY <3>4, <3>6, <4>2 DEF PollerReady
    <3> QED
      BY <1>13, <2>2, <3>1, <3>4, <3>5, <3>7
  <2>5. CASE ~MayAcquire(m)
    <3>1. Onward(p, s.todo \ {m}) /\ row' = row
      BY <1>26, <2>1, <2>5 DEF Acquire
    <3>2. RowsMove
      BY <1>t, <3>1, RowsRest
    <3> QED
      BY <1>19, <2>2, <2>3, <3>1, <3>2
  <2> QED
    BY <2>4, <2>5
\* The end of an extraction.
<1>27. ASSUME NEW p \in Pollers, poller[p].at = "extract"
       PROVE  poller[p].mail \in Mails /\ poller[p].todo \in SUBSET Mails
  <2>1. PICK s \in PollerStates : s = poller[p] /\ PollerReady(p, s)
    BY <1>15
  <2>2. s.todo \in SUBSET Mails /\ s.mail \in Mails
    BY <1>27, <2>1 DEF PollerStates, PollerReady
  <2> QED
    BY <2>1, <2>2
<1>28. ASSUME NEW p \in Pollers, NEW reading \in Readings, CompleteExtraction(p, reading) PROVE IntakeInv'
  <2> DEFINE m == poller[p].mail
             q == Completed(m, reading)
  <2>1. /\ poller[p].at = "extract" /\ row' = [row EXCEPT ![m] = q] /\ Onward(p, poller[p].todo)
        /\ UNCHANGED <<box, cursor, review, confirming>>
    BY <1>28 DEF CompleteExtraction, At, outside
  <2>2. m \in Mails /\ poller[p].todo \in SUBSET Mails
    BY <1>27, <2>1
  <2>3. q \in IntakeRows /\ q.status = "needs_review"
    <3>1. row[m] \in IntakeRows
      BY <1>t, <2>2
    <3> QED
      BY <3>1 DEF Completed, IntakeRows, RowStatuses
  <2> HIDE DEF q, m
  <2>4. RowsMove
    BY <1>t, <2>1, <2>2, <2>3, OneRowMoves
  <2> QED
    BY <1>19, <2>1, <2>2, <2>4
<1>29. ASSUME NEW p \in Pollers, Fail(p) PROVE IntakeInv'
  <2> DEFINE m == poller[p].mail
             q == Failed(m)
  <2>1. /\ poller[p].at = "extract" /\ row' = [row EXCEPT ![m] = q]
        /\ Onward(p, poller[p].todo) \/ Goes(p, IdlePoller)
        /\ UNCHANGED <<box, cursor, review, confirming>>
    BY <1>29 DEF Fail, At, outside
  <2>2. m \in Mails /\ poller[p].todo \in SUBSET Mails
    BY <1>27, <2>1
  <2>3. q \in IntakeRows /\ q.status \in {"retry_wait", "failed"}
    <3>1. row[m] \in IntakeRows
      BY <1>t, <2>2
    <3> QED
      BY <3>1 DEF Failed, IntakeRows, RowStatuses
  <2> HIDE DEF q, m
  <2>4. RowsMove
    BY <1>t, <2>1, <2>2, <2>3, OneRowMoves
  <2> QED
    BY <1>14, <1>19, <2>1, <2>2, <2>4
<1> QED
  BY <1>1, <1>2, <1>4, <1>5, <1>6, <1>8, <1>9, <1>10, <1>11, <1>12, <1>20, <1>21, <1>22, <1>23, <1>24,
     <1>25, <1>26, <1>28, <1>29 DEF IntakeNext, PollStep, MailStep, TimeStep

\* The cursor never passes a mail of its folder that is not stored, for any
\* folder, pollers and bounds (advance_cursor, record_skipped).
THEOREM CursorIsCovered == IntakeSpec => []CursorCovers
<1>1. IntakeInv => CursorCovers
  <2>1. ASSUME IntakeInv PROVE DOMAIN box.mails = 1..Len(box.mails)
    BY <2>1 DEF IntakeInv, IntakeTypeInv
  <2> QED
    BY <2>1 DEF IntakeInv, CursorInv, CursorCovers, Stored
<1> QED
  BY <1>1, IntakeInitial, IntakeStep, PTL DEF IntakeSpec

\* While a mail may be quoted its confirmed revision is the one its extraction
\* was reviewed as, whenever late extractions end (confirm, complete_extraction).
THEOREM QuotedReviewIsCurrent == IntakeSpec => []QuotedIsCurrent
<1>1. IntakeInv => QuotedIsCurrent
  BY DEF IntakeInv, ReviewsCurrent, ConfirmedFrom, QuotedIsCurrent, GateOpen
<1> QED
  BY <1>1, IntakeInitial, IntakeStep, PTL DEF IntakeSpec

-----------------------------------------------------------------------------
(* Clarification: every copy is accounted for.                                *)

Failures == {"outcome_unknown", "dead_letter", "retry_wait"}
ClarRequests ==
  [status : Failures \cup {"absent", "pending", "sending", "accepted", "stale"}, asks : SUBSET Gaps,
   attempts : Nat, owner : Senders \cup {NoSender, Gone}, expired : BOOLEAN, due : BOOLEAN, created : Nat]
SenderStates ==
  [pc : {"down", "idle", "claimed", "validated", "answered", "failing"},
   mail : Enquiries \cup {NoEnquiry}, answer : Answers \cup {"none"}, verdict : Failures \cup {"none"}]
AtWork == {"claimed", "validated", "answered", "failing"}
EnquiryRows == [status : {"persisted", "retry_wait", "needs_review", "confirmed"},
                missing : SUBSET Gaps, readings : Nat]
ClarTypeInv ==
  /\ asked \in [Enquiries -> Nat] /\ unrecorded \in [Enquiries -> Int] /\ queued \in Nat
  /\ enquiry \in [Enquiries -> EnquiryRows] /\ toAsk \subseteq Enquiries
  /\ request \in [Enquiries -> ClarRequests]
  /\ sender \in [Senders -> SenderStates]

\* A worker that is busy has a row, and writes no acceptance as a failure.
SenderReady(r) == /\ r.pc \in AtWork => r.mail \in Enquiries
                  /\ r.pc = "answered" => r.answer \in Answers
                  /\ r.pc = "failing" => r.verdict \in Failures
SendersHoldRows == \A s \in Senders : SenderReady(sender[s])

\* The copies the mail server took are those whose acceptance the table does not
\* show, and the one whose acceptance it does.
CopiesBalance ==
  \A m \in Enquiries : asked[m] = unrecorded[m] + IF request[m].status = "accepted" THEN 1 ELSE 0

ClarInv == ClarTypeInv /\ SendersHoldRows /\ CopiesBalance

LEMMA ClarInitial == ASSUME ClarInit PROVE ClarInv
<1>1. ClarTypeInv
  BY DEF ClarInit, ClarTypeInv, NoRequest, Off, SenderAt, ClarRequests, SenderStates, EnquiryRows
<1>2. SendersHoldRows /\ CopiesBalance
  BY DEF ClarInit, SendersHoldRows, SenderReady, CopiesBalance, NoRequest, Off, SenderAt, AtWork
<1> QED
  BY <1>1, <1>2 DEF ClarInv

\* A step in which the mail server takes nothing.
LEMMA NothingTaken ==
  ASSUME ClarInv, UNCHANGED <<asked, unrecorded>>, queued' \in Nat,
         enquiry' \in [Enquiries -> EnquiryRows], toAsk' \subseteq Enquiries,
         request' \in [Enquiries -> ClarRequests],
         \A m \in Enquiries : request'[m].status = "accepted" <=> request[m].status = "accepted",
         sender' \in [Senders -> SenderStates], \A s \in Senders : SenderReady(sender'[s])
  PROVE  ClarInv'
<1>1. ClarTypeInv'
  BY DEF ClarInv, ClarTypeInv
<1>2. SendersHoldRows'
  BY DEF SendersHoldRows, SenderReady
<1>3. CopiesBalance'
  BY DEF ClarInv, CopiesBalance
<1> QED
  BY <1>1, <1>2, <1>3 DEF ClarInv

\* What a worker that rests, or is gone, or takes a row, may look like.
LEMMA SendersRest ==
  /\ Resting \in SenderStates /\ SenderReady(Resting)
  /\ Off \in SenderStates /\ SenderReady(Off)
  /\ \A m \in Enquiries : SenderAt("claimed", m) \in SenderStates /\ SenderReady(SenderAt("claimed", m))
BY DEF Resting, Off, SenderAt, SenderStates, SenderReady, AtWork

\* One worker moves.
LEMMA OneSenderMoves ==
  ASSUME ClarInv, NEW s \in Senders, NEW r \in SenderStates, SenderReady(r), Put(s, r)
  PROVE  sender' \in [Senders -> SenderStates] /\ \A t \in Senders : SenderReady(sender'[t])
BY DEF ClarInv, ClarTypeInv, SendersHoldRows, Put

\* Only a row is changed, and neither to nor from accepted.
LEMMA OneRequestMoves ==
  ASSUME ClarInv, NEW m \in Enquiries, NEW r \in ClarRequests,
         r.status # "accepted", request[m].status # "accepted",
         request' = [request EXCEPT ![m] = r]
  PROVE  /\ request' \in [Enquiries -> ClarRequests]
         /\ \A n \in Enquiries : request'[n].status = "accepted" <=> request[n].status = "accepted"
BY DEF ClarInv, ClarTypeInv

LEMMA ClarStep == ASSUME ClarInv, [ClarNext]_clarVars PROVE ClarInv'
<1>t. /\ ClarTypeInv /\ SendersHoldRows /\ CopiesBalance
      /\ asked \in [Enquiries -> Nat] /\ unrecorded \in [Enquiries -> Int] /\ queued \in Nat
      /\ enquiry \in [Enquiries -> EnquiryRows] /\ toAsk \subseteq Enquiries
      /\ request \in [Enquiries -> ClarRequests] /\ sender \in [Senders -> SenderStates]
      /\ \A s \in Senders : SenderReady(sender[s])
  BY DEF ClarInv, ClarTypeInv, SendersHoldRows
\* The mails.
<1>1. ASSUME UNCHANGED <<asked, unrecorded, queued, request, sender>>,
             enquiry' \in [Enquiries -> EnquiryRows], toAsk' \subseteq Enquiries
      PROVE  ClarInv'
  BY <1>1, <1>t, NothingTaken
<1>2. ASSUME NEW m \in Enquiries, Extracted(m) PROVE ClarInv'
  <2>1. PICK missing \in SUBSET Gaps :
          enquiry' = [enquiry EXCEPT ![m] = [status |-> "needs_review", missing |-> missing,
                                             readings |-> enquiry[m].readings + 1]]
    BY <1>2 DEF Extracted
  <2>2. [status |-> "needs_review", missing |-> missing, readings |-> enquiry[m].readings + 1] \in EnquiryRows
    <3>1. enquiry[m] \in EnquiryRows
      BY <1>t
    <3>2. enquiry[m].readings + 1 \in Nat
      BY <3>1 DEF EnquiryRows
    <3> QED
      BY <3>2 DEF EnquiryRows
  <2>3. enquiry' \in [Enquiries -> EnquiryRows]
    BY <1>t, <2>1, <2>2
  <2> QED
    BY <1>1, <1>2, <1>t, <2>3 DEF Extracted, served
<1>3. ASSUME NEW m \in Enquiries, Reviewed(m) PROVE ClarInv'
  <2>1. PICK next \in {"confirmed", "retry_wait"} : enquiry' = [enquiry EXCEPT ![m].status = next]
    BY <1>3 DEF Reviewed
  <2>2. [enquiry[m] EXCEPT !.status = next] \in EnquiryRows
    <3>1. enquiry[m] \in EnquiryRows
      BY <1>t
    <3> QED
      BY <3>1 DEF EnquiryRows
  <2>3. enquiry' \in [Enquiries -> EnquiryRows]
    BY <1>t, <2>1, <2>2
  <2> QED
    BY <1>1, <1>3, <1>t, <2>3 DEF Reviewed, served
<1>4. CASE PollCrash \/ AccountMoves \/ UNCHANGED clarVars
  BY <1>1, <1>4, <1>t DEF PollCrash, AccountMoves, clarVars, served
<1>5. ASSUME NEW m \in Enquiries, QueueForInbound(m) PROVE ClarInv'
  <2> DEFINE r == [NoRequest EXCEPT !.status = "pending", !.asks = enquiry[m].missing, !.created = queued + 1]
  <2>1. /\ toAsk' \subseteq Enquiries /\ UNCHANGED <<enquiry, sender, asked, unrecorded>>
        /\ \/ request' = request /\ queued' = queued
           \/ /\ request[m].status = "absent"
              /\ request' = [request EXCEPT ![m] = r] /\ queued' = queued + 1
    BY <1>5, <1>t DEF QueueForInbound, MayQueue, served
  <2>2. r \in ClarRequests /\ r.status = "pending"
    <3>1. enquiry[m] \in EnquiryRows
      BY <1>t
    <3>2. enquiry[m].missing \in SUBSET Gaps /\ queued + 1 \in Nat
      BY <1>t, <3>1 DEF EnquiryRows
    <3> QED
      BY <3>2 DEF ClarRequests, NoRequest
  <2> HIDE DEF r
  <2>3. queued' \in Nat
    BY <1>t, <2>1
  <2>4. /\ request' \in [Enquiries -> ClarRequests]
        /\ \A n \in Enquiries : request'[n].status = "accepted" <=> request[n].status = "accepted"
    BY <1>t, <2>1, <2>2, OneRequestMoves
  <2> QED
    BY <1>t, <2>1, <2>3, <2>4, NothingTaken
\* Time.
<1>6. ASSUME NEW m \in Enquiries, SixtySeconds(m) \/ BackoffOver(m) PROVE ClarInv'
  <2>1. PICK r \in {[request[m] EXCEPT !.expired = TRUE], [request[m] EXCEPT !.due = TRUE]} :
          request' = [request EXCEPT ![m] = r]
    BY <1>6 DEF SixtySeconds, BackoffOver
  <2>2. r \in ClarRequests /\ r.status = request[m].status /\ request[m].status # "accepted"
    <3>1. request[m] \in ClarRequests /\ request[m].status # "accepted"
      BY <1>6, <1>t DEF SixtySeconds, BackoffOver
    <3>2. [request[m] EXCEPT !.due = TRUE] \in ClarRequests /\ [request[m] EXCEPT !.due = TRUE].status = request[m].status
      BY <3>1 DEF ClarRequests
    <3>3. [request[m] EXCEPT !.expired = TRUE] \in ClarRequests /\ [request[m] EXCEPT !.expired = TRUE].status = request[m].status
      BY <3>1 DEF ClarRequests
    <3> QED
      BY <2>1, <3>1, <3>2, <3>3
  <2>3. /\ request' \in [Enquiries -> ClarRequests]
        /\ \A n \in Enquiries : request'[n].status = "accepted" <=> request[n].status = "accepted"
    BY <1>t, <2>1, <2>2, OneRequestMoves
  <2> QED
    BY <1>6, <1>t, <2>3, NothingTaken DEF SixtySeconds, BackoffOver, mailSide, served
\* A worker moves and no row does.
<1>7. ASSUME NEW s \in Senders, NEW r \in SenderStates, SenderReady(r), Put(s, r),
             UNCHANGED <<mailSide, request, queued, served>>
      PROVE  ClarInv'
  BY <1>7, <1>t, OneSenderMoves, NothingTaken DEF mailSide, served
<1>8. ASSUME NEW s \in Senders, ClaimWasLost(s) \/ SenderFails(s) PROVE ClarInv'
  BY <1>7, <1>8, SendersRest DEF ClaimWasLost, SenderFails
<1>9. ASSUME NEW s \in Senders, RevalidateRequest(s) PROVE ClarInv'
  <2> DEFINE r == [sender[s] EXCEPT !.pc = "validated"]
  <2>1. sender[s] \in SenderStates /\ SenderReady(sender[s]) /\ sender[s].pc = "claimed"
    BY <1>9, <1>t DEF RevalidateRequest, Serves
  <2>2. r \in SenderStates /\ SenderReady(r)
    BY <2>1 DEF SenderStates, SenderReady, AtWork
  <2> HIDE DEF r
  <2> QED
    BY <1>7, <1>9, <2>2 DEF RevalidateRequest, r
<1>10. ASSUME NEW s \in Senders, ReadFailed(s) PROVE ClarInv'
  <2> DEFINE verdict == Verdict(sender[s].mail, sender[s].answer)
             r == [sender[s] EXCEPT !.pc = "failing", !.verdict = verdict]
  <2>1. sender[s] \in SenderStates /\ SenderReady(sender[s]) /\ sender[s].pc = "answered"
    BY <1>10, <1>t DEF ReadFailed, Serves
  <2>2. verdict \in Failures
    BY DEF Verdict, Failures
  <2> HIDE DEF verdict
  <2>3. r \in SenderStates /\ SenderReady(r)
    BY <2>1, <2>2 DEF SenderStates, SenderReady, AtWork
  <2> HIDE DEF r
  <2> QED
    BY <1>7, <1>10, <2>3 DEF ReadFailed, r, verdict
\* A worker takes a row or gives it up.
<1>11. ASSUME NEW s \in Senders, NEW r \in SenderStates, SenderReady(r), Put(s, r),
              NEW m \in Enquiries, NEW q \in ClarRequests, q.status # "accepted",
              request[m].status # "accepted", request' = [request EXCEPT ![m] = q],
              UNCHANGED <<mailSide, queued, served>>
       PROVE  ClarInv'
  <2>1. sender' \in [Senders -> SenderStates] /\ \A t \in Senders : SenderReady(sender'[t])
    BY <1>11, OneSenderMoves
  <2>2. /\ request' \in [Enquiries -> ClarRequests]
        /\ \A n \in Enquiries : request'[n].status = "accepted" <=> request[n].status = "accepted"
    BY <1>11, OneRequestMoves
  <2> QED
    BY <1>11, <1>t, <2>1, <2>2, NothingTaken DEF mailSide, served
<1>12. ASSUME NEW s \in Senders, NEW m \in Enquiries, ClaimRequest(s, m) PROVE ClarInv'
  <2> DEFINE q == [request[m] EXCEPT !.status = "sending", !.attempts = request[m].attempts + 1,
                                     !.owner = s, !.expired = FALSE]
  <2>1. request' = [request EXCEPT ![m] = q] /\ request[m].status # "accepted"
    BY <1>12 DEF ClaimRequest, MayClaim
  <2>2. q \in ClarRequests /\ q.status = "sending"
    <3>1. request[m] \in ClarRequests
      BY <1>t
    <3>2. request[m].attempts + 1 \in Nat
      BY <3>1 DEF ClarRequests
    <3> QED
      BY <3>1, <3>2 DEF ClarRequests
  <2> HIDE DEF q
  <2> QED
    BY <1>11, <1>12, <2>1, <2>2, SendersRest DEF ClaimRequest
<1>13. ASSUME NEW s \in Senders, Withdraw(s) PROVE ClarInv'
  <2> DEFINE m == sender[s].mail
             q == Let(m, "stale")
  <2>1. m \in Enquiries /\ request[m] \in ClarRequests
    BY <1>13, <1>t DEF Withdraw, Serves, SenderReady, AtWork
  <2>2. q \in ClarRequests /\ q.status = "stale"
    BY <2>1 DEF Let, ClarRequests
  <2>3. CASE request[m].status \in {"pending", "sending", "retry_wait", "dead_letter"}
    <3>1. request' = [request EXCEPT ![m] = q]
      BY <1>13, <2>3 DEF Withdraw
    <3> HIDE DEF m, q
    <3> QED
      BY <1>11, <1>13, <2>1, <2>2, <2>3, <3>1, SendersRest DEF Withdraw
  <2>4. CASE request[m].status \notin {"pending", "sending", "retry_wait", "dead_letter"}
    <3>1. request' = request
      BY <1>13, <1>t, <2>1, <2>4 DEF Withdraw
    <3> QED
      BY <1>7, <1>13, <3>1, SendersRest DEF Withdraw
  <2> QED
    BY <2>3, <2>4
<1>14. ASSUME NEW s \in Senders, SenderStart(s) PROVE ClarInv'
  <2>1. \A m \in Enquiries : /\ request'[m] \in ClarRequests
                             /\ request'[m].status = "accepted" <=> request[m].status = "accepted"
    <3>1. SUFFICES ASSUME NEW m \in Enquiries
                   PROVE  /\ request'[m] \in ClarRequests
                          /\ request'[m].status = "accepted" <=> request[m].status = "accepted"
      OBVIOUS
    <3> DEFINE q == [Let(m, "retry_wait") EXCEPT !.due = TRUE]
    <3>2. request[m] \in ClarRequests
      BY <1>t
    <3>3. q \in ClarRequests /\ q.status = "retry_wait"
      BY <3>2 DEF Let, ClarRequests, Failures
    <3>4. request'[m] = IF Overdue(m) THEN q ELSE request[m]
      BY <1>14 DEF SenderStart
    <3> HIDE DEF q
    <3> QED
      BY <3>2, <3>3, <3>4 DEF Overdue
  <2>2. request' \in [Enquiries -> ClarRequests]
    BY <1>14, <2>1 DEF SenderStart
  <2>3. sender' \in [Senders -> SenderStates] /\ \A t \in Senders : SenderReady(sender'[t])
    BY <1>14, SendersRest, OneSenderMoves DEF SenderStart
  <2> QED
    BY <1>14, <1>t, <2>1, <2>2, <2>3, NothingTaken DEF SenderStart, mailSide, served
<1>15. ASSUME NEW s \in Senders, SenderCrash(s) PROVE ClarInv'
  <2>1. \A m \in Enquiries : /\ request'[m] \in ClarRequests
                             /\ request'[m].status = "accepted" <=> request[m].status = "accepted"
    <3>1. SUFFICES ASSUME NEW m \in Enquiries
                   PROVE  /\ request'[m] \in ClarRequests
                          /\ request'[m].status = "accepted" <=> request[m].status = "accepted"
      OBVIOUS
    <3> DEFINE q == [request[m] EXCEPT !.owner = Gone]
    <3>2. request[m] \in ClarRequests
      BY <1>t
    <3>3. q \in ClarRequests /\ q.status = request[m].status
      BY <3>2 DEF ClarRequests
    <3>4. request'[m] = IF request[m].owner = s THEN q ELSE request[m]
      BY <1>15 DEF SenderCrash
    <3> HIDE DEF q
    <3> QED
      BY <3>2, <3>3, <3>4
  <2>2. request' \in [Enquiries -> ClarRequests]
    BY <1>15, <2>1 DEF SenderCrash
  <2>3. sender' \in [Senders -> SenderStates] /\ \A t \in Senders : SenderReady(sender'[t])
    BY <1>15, SendersRest, OneSenderMoves DEF SenderCrash
  <2> QED
    BY <1>15, <1>t, <2>1, <2>2, <2>3, NothingTaken DEF SenderCrash, mailSide, served
\* A copy more, which the table does not show yet.
<1>16. ASSUME NEW s \in Senders, NEW answer \in Answers, SendRequest(s, answer) PROVE ClarInv'
  <2> DEFINE m == sender[s].mail
             r == [sender[s] EXCEPT !.pc = "answered", !.answer = answer]
  <2>1. sender[s] \in SenderStates /\ SenderReady(sender[s]) /\ sender[s].pc = "validated" /\ m \in Enquiries
    BY <1>16, <1>t DEF SendRequest, Serves, SenderReady, AtWork
  <2>2. r \in SenderStates /\ SenderReady(r)
    BY <2>1 DEF SenderStates, SenderReady, AtWork
  <2>3. PICK took \in {0, 1} : /\ asked' = [asked EXCEPT ![m] = asked[m] + took]
                               /\ unrecorded' = [unrecorded EXCEPT ![m] = unrecorded[m] + took]
    BY <1>16 DEF SendRequest, Answers
  <2>4. Put(s, r) /\ UNCHANGED <<enquiry, toAsk, request, queued>>
    BY <1>16 DEF SendRequest, mailSide
  <2> HIDE DEF r, m
  <2>5. sender' \in [Senders -> SenderStates] /\ \A t \in Senders : SenderReady(sender'[t])
    BY <2>2, <2>4, OneSenderMoves
  <2>6. asked' \in [Enquiries -> Nat] /\ unrecorded' \in [Enquiries -> Int]
    BY <1>t, <2>1, <2>3
  <2>7. CopiesBalance'
    BY <1>t, <2>1, <2>3, <2>4 DEF CopiesBalance
  <2>8. ClarTypeInv'
    BY <1>t, <2>4, <2>5, <2>6 DEF ClarTypeInv
  <2>9. SendersHoldRows'
    BY <2>5 DEF SendersHoldRows, SenderReady
  <2> QED
    BY <2>7, <2>8, <2>9 DEF ClarInv
\* The table shows one more, or forgets the one it showed.
<1>17. ASSUME NEW s \in Senders, NEW m \in Enquiries, NEW q \in ClarRequests, NEW left \in Int,
              left + (IF q.status = "accepted" THEN 1 ELSE 0)
                = unrecorded[m] + IF request[m].status = "accepted" THEN 1 ELSE 0,
              request' = [request EXCEPT ![m] = q],
              unrecorded' = [unrecorded EXCEPT ![m] = left],
              Put(s, Resting), UNCHANGED <<mailSide, queued, asked>>
       PROVE  ClarInv'
  <2>1. sender' \in [Senders -> SenderStates] /\ \A t \in Senders : SenderReady(sender'[t])
    BY <1>17, SendersRest, OneSenderMoves
  <2>2. ClarTypeInv'
    <3>1. request' \in [Enquiries -> ClarRequests] /\ unrecorded' \in [Enquiries -> Int]
      BY <1>17, <1>t
    <3> QED
      BY <1>17, <1>t, <2>1, <3>1 DEF ClarTypeInv, mailSide
  <2>3. CopiesBalance'
    BY <1>17, <1>t DEF CopiesBalance
  <2>4. SendersHoldRows'
    BY <2>1 DEF SendersHoldRows, SenderReady
  <2> QED
    BY <2>2, <2>3, <2>4 DEF ClarInv
<1>18. ASSUME NEW s \in Senders, RecordAccepted(s) PROVE ClarInv'
  <2> DEFINE m == sender[s].mail
             q == Let(m, "accepted")
             left == unrecorded[m] - 1
  <2>1. m \in Enquiries /\ request[m] \in ClarRequests /\ request[m].status = "sending"
    BY <1>18, <1>t DEF RecordAccepted, Serves, SenderReady, AtWork, Holding
  <2>2. q \in ClarRequests /\ q.status = "accepted"
    BY <2>1 DEF Let, ClarRequests
  <2>3. /\ request' = [request EXCEPT ![m] = q] /\ unrecorded' = [unrecorded EXCEPT ![m] = left]
        /\ Put(s, Resting) /\ UNCHANGED <<mailSide, queued, asked>>
    BY <1>18 DEF RecordAccepted
  <2> HIDE DEF m, q
  <2>4. left \in Int /\ left + 1 = unrecorded[m]
    BY <1>t, <2>1
  <2>5. left + (IF q.status = "accepted" THEN 1 ELSE 0)
          = unrecorded[m] + IF request[m].status = "accepted" THEN 1 ELSE 0
    BY <2>1, <2>2, <2>4
  <2> HIDE DEF left
  <2> QED
    BY <1>17, <2>1, <2>2, <2>3, <2>4, <2>5
<1>19. ASSUME NEW s \in Senders, WriteFailed(s) PROVE ClarInv'
  <2> DEFINE m == sender[s].mail
             q == [Let(m, sender[s].verdict) EXCEPT !.due = FALSE]
             left == unrecorded[m] + IF request[m].status = "accepted" THEN 1 ELSE 0
  <2>1. m \in Enquiries /\ request[m] \in ClarRequests /\ sender[s].verdict \in Failures
    BY <1>19, <1>t DEF WriteFailed, Serves, SenderReady, AtWork
  <2>2. q \in ClarRequests /\ q.status # "accepted"
    BY <2>1 DEF Let, ClarRequests, Failures
  <2>3. /\ request' = [request EXCEPT ![m] = q] /\ unrecorded' = [unrecorded EXCEPT ![m] = left]
        /\ Put(s, Resting) /\ UNCHANGED <<mailSide, queued, asked>>
    BY <1>19 DEF WriteFailed
  <2> HIDE DEF q, m
  <2>4. left \in Int /\ left + 0 = left
    BY <1>t, <2>1
  <2>5. left + (IF q.status = "accepted" THEN 1 ELSE 0)
          = unrecorded[m] + IF request[m].status = "accepted" THEN 1 ELSE 0
    BY <2>2, <2>4
  <2> HIDE DEF left
  <2> QED
    BY <1>17, <2>1, <2>2, <2>3, <2>4, <2>5
<1> QED
  BY <1>2, <1>3, <1>4, <1>5, <1>6, <1>8, <1>9, <1>10, <1>12, <1>13, <1>14, <1>15, <1>16, <1>18, <1>19
  DEF ClarNext, SenderStep

\* A customer is asked once and once more for every copy whose acceptance the
\* table lost, for any mails, processes and bounds (queue_for_inbound,
\* claim_delivery, fail_delivery).
THEOREM AskedOnce == ClarSpec => []AskedOnceUnlessLost
<1>1. ClarInv => AskedOnceUnlessLost
  BY DEF ClarInv, ClarTypeInv, CopiesBalance, AskedOnceUnlessLost
<1> QED
  BY <1>1, ClarInitial, ClarStep, PTL DEF ClarSpec

=============================================================================
