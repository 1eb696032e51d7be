------------------------- MODULE QuoteDeliveryProofs -------------------------
(***************************************************************************)
(* Quotes and approvals for any quotes and any number of versions and      *)
(* records: the two writers' reads and writes in any order keep the status *)
(* of a quote covered by its records.  And the composition of outbox,      *)
(* quotes and account: it implements the outbox, and nothing goes out that *)
(* no reviewer had approved.                                               *)
(***************************************************************************)
EXTENDS QuoteDelivery, TLAPS


Record == [quote: Quotes, version: 1..MaxVersion, status: ApprovalStatuses]

\* What an actor between its read and its write remembers still exists: the
\* record to decide, the quote to bind, and the quote without a version that
\* create_quote_version_impl is about to give one.
ActorsHold ==
  /\ desk.pc = "deciding" => desk.on \in Approvals /\ desk.decision \in Decisions
  /\ desk.pc = "regenerating" =>
       desk.on \in Quotes /\ desk.version \in 1..quote[desk.on].version
  /\ tool.pc \in {"creating", "requested"} => tool.quote \in Quotes
  /\ tool.pc = "creating" =>
       quote[tool.quote].version = 0 /\ quote[tool.quote].status # "none"
  /\ tool.pc = "deciding" => tool.on \in Approvals /\ tool.decision \in Decisions

\* A record binds a version its quote has.
RecordsBindVersions ==
  \A a \in Approvals : approval[a].version <= quote[approval[a].quote].version

\* A record that says approved was approved, whoever decided it.
ApprovedWasDecided ==
  \A a \in Approvals : approval[a].status = "approved" => a \in everApproved

\* A quote nobody wrote has no version: giving a quote its first row never
\* takes a version back.
UnwrittenHasNoVersion ==
  \A q \in Quotes : quote[q].status = "none" => quote[q].version = 0

QuoteTypeInv == QuoteTypeOK /\ ActorsHold /\ UnwrittenHasNoVersion

QuoteInv ==
  QuoteTypeInv /\ RecordsBindVersions /\ ApprovedWasDecided /\ ApprovedQuoteHasRecord

-----------------------------------------------------------------------------
(* What the writes do to the table of records                                 *)

LEMMA RecordAdded ==
  ASSUME NEW s \in Seq(Record), NEW e \in Record
  PROVE  /\ Append(s, e) \in Seq(Record)
         /\ Len(Append(s, e)) = Len(s) + 1
         /\ \A i \in 1..Len(s) : Append(s, e)[i] = s[i]
         /\ Append(s, e)[Len(s) + 1] = e
OBVIOUS

LEMMA RecordDecided ==
  ASSUME approval \in Seq(Record), NEW a \in Approvals, NEW decision \in Decisions,
         Decide(a, decision)
  PROVE  /\ approval' \in Seq(Record)
         /\ Len(approval') = Len(approval)
         /\ \A b \in Approvals :
              /\ approval'[b].quote = approval[b].quote
              /\ approval'[b].version = approval[b].version
              /\ approval'[b].status = IF b = a THEN decision ELSE approval[b].status
<1> DEFINE e == [approval[a] EXCEPT !.status = decision]
<1>1. approval[a] \in Record
  BY DEF Approvals
<1>2. /\ e \in Record /\ e.status = decision
      /\ e.quote = approval[a].quote /\ e.version = approval[a].version
  BY <1>1 DEF Record, Decisions, ApprovalStatuses
<1>3. approval' = [approval EXCEPT ![a] = e]
  BY DEF Decide
<1> HIDE DEF e
<1>4. approval' \in Seq(Record) /\ Len(approval') = Len(approval)
  BY <1>2, <1>3 DEF Approvals
<1>5. \A b \in Approvals : approval'[b] = IF b = a THEN e ELSE approval[b]
  BY <1>3 DEF Approvals
<1> QED
  BY <1>2, <1>4, <1>5

LEMMA RecordsSuperseded ==
  ASSUME approval \in Seq(Record), NEW q
  PROVE  /\ Supersede(q) \in Seq(Record)
         /\ Len(Supersede(q)) = Len(approval)
         /\ \A b \in Approvals :
              /\ Supersede(q)[b].quote = approval[b].quote
              /\ Supersede(q)[b].version = approval[b].version
              /\ Supersede(q)[b].status \in {approval[b].status, "superseded"}
              /\ approval[b].status = "approved" <=> Supersede(q)[b].status = "approved"
<1>1. \A b \in Approvals : approval[b] \in Record
  BY DEF Approvals
<1>2. \A b \in Approvals : Supersede(q)[b] \in Record
  BY <1>1 DEF Supersede, Record, ApprovalStatuses
<1>3. Supersede(q) \in Seq(Record) /\ Len(Supersede(q)) = Len(approval)
  <2>1. Supersede(q) = [b \in 1..Len(approval) |-> Supersede(q)[b]]
    BY DEF Supersede, Approvals
  <2>2. Len(approval) \in Nat
    OBVIOUS
  <2>3. Supersede(q) \in [1..Len(approval) -> Record]
    BY <1>2, <2>1 DEF Approvals
  <2> QED
    BY <2>2, <2>3
<1>4. \A b \in Approvals :
        /\ Supersede(q)[b].quote = approval[b].quote
        /\ Supersede(q)[b].version = approval[b].version
        /\ Supersede(q)[b].status \in {approval[b].status, "superseded"}
        /\ approval[b].status = "approved" <=> Supersede(q)[b].status = "approved"
  BY <1>1 DEF Supersede, Record
<1> QED
  BY <1>3, <1>4

-----------------------------------------------------------------------------
(* Types, and what the actors hold                                            *)

LEMMA TypeInit == QuoteInit => QuoteTypeInv
BY QuoteBounds DEF QuoteInit, QuoteTypeInv, QuoteTypeOK, ActorsHold,
                   UnwrittenHasNoVersion, QuoteStatuses,
                   Versions, Approvals, DeskIdle, ToolIdle

LEMMA TypeStep == QuoteTypeInv /\ [QuoteNext]_quoteVars => QuoteTypeInv'
<1> SUFFICES ASSUME QuoteTypeInv, [QuoteNext]_quoteVars PROVE QuoteTypeInv'
  OBVIOUS
<1> USE QuoteBounds DEF QuoteTypeInv, QuoteTypeOK, ActorsHold, UnwrittenHasNoVersion
<1>0. approval \in Seq(Record)
  BY DEF Record
<1>d. ASSUME NEW a \in Approvals, NEW decision \in Decisions, Decide(a, decision)
      PROVE  /\ quote' \in [Quotes -> [status: QuoteStatuses, version: Versions]]
             /\ \A q \in Quotes : quote'[q].version = quote[q].version
             /\ \A q \in Quotes : quote[q].status # "none" => quote'[q].status # "none"
             /\ approval' \in Seq(Record)
             /\ Len(approval') = Len(approval)
             /\ everApproved' \subseteq Approvals
  <2>0. approval[a] \in Record
    BY <1>0 DEF Approvals
  <2>1. approval[a].quote \in Quotes
    BY <2>0 DEF Record
  <2>2. /\ quote' \in [Quotes -> [status: QuoteStatuses, version: Versions]]
        /\ \A q \in Quotes : quote'[q].version = quote[q].version
        /\ \A q \in Quotes : quote[q].status # "none" => quote'[q].status # "none"
    BY <1>d, <2>1 DEF Decide, Decisions, QuoteStatuses
  <2> QED
    BY <1>0, <1>d, <2>2, RecordDecided DEF Decide
<1>1. ASSUME NEW q \in Quotes, Materialize(q) PROVE QuoteTypeInv'
  <2>1. Pending(q, 1) \in Record
    BY DEF Pending, Record, ApprovalStatuses
  <2>2. approval' \in Seq(Record) /\ Len(approval') = Len(approval) + 1
    BY <1>0, <1>1, <2>1, RecordAdded DEF Materialize
  <2>3. quote' \in [Quotes -> [status: QuoteStatuses, version: Versions]]
    BY <1>1 DEF Materialize, QuoteStatuses, Versions
  <2>4. \A p \in Quotes : quote[p].status # "none" => quote'[p] = quote[p]
    BY <1>1 DEF Materialize
  <2> QED
    BY <1>1, <2>2, <2>3, <2>4 DEF Materialize, Record, Approvals, DeskIdle
<1>2. ASSUME NEW q \in Quotes, RegenerateRead(q) PROVE QuoteTypeInv'
  BY <1>2 DEF RegenerateRead, Versions, Approvals
<1>3. ASSUME NEW a \in Approvals, NEW decision \in Decisions, DecideRead(a, decision)
      PROVE  QuoteTypeInv'
  BY <1>3 DEF DecideRead, Approvals
<1>4. CASE DecideWrite
  <2>1. CASE approval[desk.on].status = "pending"
    <3>1. Decide(desk.on, desk.decision)
      BY <1>4, <2>1 DEF DecideWrite
    <3> QED
      BY <1>4, <1>d, <3>1 DEF DecideWrite, DeskIdle, Record, Approvals
  <2>2. CASE approval[desk.on].status # "pending"
    BY <1>4, <2>2 DEF DecideWrite, DeskIdle, Approvals
  <2> QED
    BY <2>1, <2>2
<1>5. CASE RegenerateWrite
  <2> DEFINE e == Pending(desk.on, desk.version)
  <2>1. e \in Record
    BY <1>5 DEF RegenerateWrite, Pending, Record, ApprovalStatuses, Versions
  <2>2. Supersede(desk.on) \in Seq(Record) /\ Len(Supersede(desk.on)) = Len(approval)
    BY <1>0, RecordsSuperseded
  <2> HIDE DEF e
  <2>3. approval' \in Seq(Record) /\ Len(approval') = Len(approval) + 1
    BY <1>5, <2>1, <2>2, RecordAdded DEF RegenerateWrite, e
  <2>4. quote' \in [Quotes -> [status: QuoteStatuses, version: Versions]]
    BY <1>5 DEF RegenerateWrite, QuoteStatuses
  <2>5. \A q \in Quotes : quote'[q].version = quote[q].version
    BY <1>5 DEF RegenerateWrite
  <2>6. \A q \in Quotes : quote[q].status # "none" => quote'[q].status # "none"
    BY <1>5 DEF RegenerateWrite
  <2> QED
    BY <1>5, <2>3, <2>4, <2>5, <2>6 DEF RegenerateWrite, Record, Approvals, DeskIdle
<1>6. ASSUME NEW q \in Quotes, ToolCreate(q) PROVE QuoteTypeInv'
  <2>1. quote' \in [Quotes -> [status: QuoteStatuses, version: Versions]]
    BY <1>6 DEF ToolCreate, QuoteStatuses, Versions
  <2>2. \A p \in Quotes : quote[p].status # "none" => quote'[p] = quote[p]
    BY <1>6 DEF ToolCreate
  <2>3. quote'[q].status = "draft" /\ quote'[q].version = 0
    BY <1>6 DEF ToolCreate
  <2>4. desk.pc = "regenerating" => quote[desk.on].status # "none"
    BY DEF Versions
  <2>5. \A p \in Quotes : p # q => quote'[p] = quote[p]
    BY <1>6 DEF ToolCreate
  <2> QED
    BY <1>6, <2>1, <2>2, <2>3, <2>4, <2>5 DEF ToolCreate, ToolIdle, Approvals
<1>7. CASE ToolAddFirstVersion
  <2>1. quote' \in [Quotes -> [status: QuoteStatuses, version: Versions]]
    BY <1>7 DEF ToolAddFirstVersion, Versions
  <2>2. \A q \in Quotes : quote'[q].version \in Nat /\ quote[q].version <= quote'[q].version
    BY <1>7 DEF ToolAddFirstVersion, Versions
  <2>3. \A q \in Quotes : quote'[q].status = quote[q].status
    BY <1>7 DEF ToolAddFirstVersion
  <2>4. tool'.pc = "idle" /\ UNCHANGED <<approval, desk, everApproved>>
    BY <1>7 DEF ToolAddFirstVersion, ToolIdle
  <2>5. QuoteTypeOK'
    <3>1. approval' = approval /\ desk' = desk /\ everApproved' = everApproved
      BY <2>4
    <3>2. everApproved' \subseteq Approvals'
      BY <3>1 DEF Approvals
    <3>3. tool'.pc \in {"idle", "creating", "requested", "deciding"}
      BY <2>4
    <3> QED
      BY <2>1, <3>1, <3>2, <3>3 DEF QuoteTypeOK
  <2>6. ActorsHold'
    <3>1. \A q \in Quotes : 1..quote[q].version \subseteq 1..quote'[q].version
      <4>1. \A q \in Quotes : quote[q].version \in Nat
        BY DEF Versions
      <4> QED
        BY <2>2, <4>1
    <3>2. approval' = approval /\ desk' = desk /\ tool'.pc = "idle"
      BY <2>4
    <3> QED
      BY <3>1, <3>2 DEF ActorsHold, Approvals
  <2>7. UnwrittenHasNoVersion'
    BY <1>7, <2>3 DEF UnwrittenHasNoVersion, ToolAddFirstVersion, ActorsHold
  <2> QED
    BY <2>5, <2>6, <2>7 DEF QuoteTypeInv
<1>8. ASSUME NEW q \in Quotes, AddVersion(q) PROVE QuoteTypeInv'
  <2>1. quote' \in [Quotes -> [status: QuoteStatuses, version: Versions]]
    BY <1>8 DEF AddVersion, Versions
  <2>2. \A p \in Quotes : /\ quote'[p].version \in Nat
                          /\ quote[p].version <= quote'[p].version
                          /\ quote[p].version = 0 => quote'[p] = quote[p]
                          /\ quote'[p].status = quote[p].status
    BY <1>8 DEF AddVersion, Versions
  <2>3. desk.pc = "regenerating" => desk.version \in 1..quote'[desk.on].version
    BY <2>2 DEF Versions
  <2>4. tool.pc = "creating" => quote'[tool.quote] = quote[tool.quote]
    BY <2>2
  <2>5. \A p \in Quotes : quote'[p].status = "none" => quote'[p].version = 0
    BY <2>2
  <2> QED
    BY <1>8, <2>1, <2>3, <2>4, <2>5 DEF AddVersion, Approvals
<1>9. ASSUME NEW q \in Quotes, ToolRequest(q) PROVE QuoteTypeInv'
  <2> DEFINE e == Pending(q, quote[q].version)
  <2>1. e \in Record
    BY <1>9 DEF ToolRequest, Pending, Record, ApprovalStatuses, Versions
  <2> HIDE DEF e
  <2>2. approval' \in Seq(Record) /\ Len(approval') = Len(approval) + 1
    BY <1>0, <1>9, <2>1, RecordAdded DEF ToolRequest, e
  <2> QED
    BY <1>9, <2>2 DEF ToolRequest, ToolIdle, Record, Approvals
<1>10. CASE ToolMarkPending
  <2>1. quote' \in [Quotes -> [status: QuoteStatuses, version: Versions]]
    BY <1>10 DEF ToolMarkPending, QuoteStatuses
  <2>2. \A q \in Quotes : quote'[q].version = quote[q].version
    BY <1>10 DEF ToolMarkPending
  <2> QED
    BY <1>10, <2>1, <2>2 DEF ToolMarkPending, ToolIdle, Approvals
<1>11. ASSUME NEW q \in Quotes, NEW decision \in Decisions, ToolLookUp(q, decision)
       PROVE  QuoteTypeInv'
  BY <1>11 DEF ToolLookUp, Approvals
<1>12. CASE ToolDecide
  <2>1. CASE UNCHANGED <<quote, approval, everApproved>>
    BY <1>12, <2>1 DEF ToolDecide, ToolIdle, Approvals
  <2>2. CASE Decide(tool.on, tool.decision)
    BY <1>12, <1>d, <2>2 DEF ToolDecide, ToolIdle, Record, Approvals
  <2> QED
    BY <1>12, <2>1, <2>2 DEF ToolDecide
<1>13. CASE ToolAbandons
  BY <1>13 DEF ToolAbandons, ToolIdle, Approvals
<1>14. CASE UNCHANGED quoteVars
  BY <1>14 DEF quoteVars, Approvals
<1> QED
  BY <1>1, <1>2, <1>3, <1>4, <1>5, <1>6, <1>7, <1>8, <1>9, <1>10, <1>11, <1>12, <1>13, <1>14
     DEF QuoteNext, DeskStep, ToolStep

-----------------------------------------------------------------------------
(* What a step does to the tables, whoever takes it                           *)

\* Versions only grow, what a record binds is never rewritten, and a record
\* that becomes approved is remembered.
RecordsKept ==
  /\ \A q \in Quotes : quote[q].version <= quote'[q].version
  /\ Len(approval) <= Len(approval')
  /\ everApproved \subseteq everApproved'
  /\ \A a \in Approvals :
       /\ approval'[a].quote = approval[a].quote
       /\ approval'[a].version = approval[a].version
       /\ approval'[a].status = "approved" =>
            approval[a].status = "approved" \/ a \in everApproved'

\* A new record is pending and binds a version its quote has.
RecordsBorn ==
  \A a \in Approvals' : a \notin Approvals =>
    /\ approval'[a].status = "pending"
    /\ approval'[a].version <= quote'[approval'[a].quote].version

\* A quote is approved after the step because a record of it just was, or it was
\* approved before and no approved record of it lost its decision.
StatusFollows ==
  \A q \in Quotes : quote'[q].status = "approved" =>
    \/ \E a \in Approvals : approval'[a].quote = q /\ approval'[a].status = "approved"
    \/ /\ quote[q].status = "approved"
       /\ \A a \in Approvals : approval[a].quote = q /\ approval[a].status = "approved"
                               => approval'[a].status = "approved"

TableStep == RecordsKept /\ RecordsBorn /\ StatusFollows

LEMMA DecideIsTableStep ==
  ASSUME QuoteTypeInv, NEW a \in Approvals, NEW decision \in Decisions, Decide(a, decision)
  PROVE  TableStep
<1>1. approval \in Seq(Record)
  BY DEF Record, QuoteTypeInv, QuoteTypeOK
<1>2. approval[a] \in Record
  BY <1>1 DEF Approvals
<1>3. approval[a].quote \in Quotes
  BY <1>2 DEF Record
<1>4. /\ Len(approval') = Len(approval)
      /\ \A b \in Approvals :
           /\ approval'[b].quote = approval[b].quote
           /\ approval'[b].version = approval[b].version
           /\ approval'[b].status = IF b = a THEN decision ELSE approval[b].status
  BY <1>1, RecordDecided
<1>5. \A q \in Quotes :
        /\ quote'[q].version = quote[q].version
        /\ quote'[q].status = IF q = approval[a].quote THEN decision ELSE quote[q].status
  BY <1>3 DEF Decide, QuoteTypeInv, QuoteTypeOK
<1>6. RecordsKept
  <2>1. everApproved \subseteq everApproved'
    BY DEF Decide
  <2>2. decision = "approved" => a \in everApproved'
    BY DEF Decide
  <2>3. \A q \in Quotes : quote[q].version <= quote'[q].version
    BY <1>5 DEF Versions, QuoteTypeInv, QuoteTypeOK
  <2>4. Len(approval) \in Nat
    BY <1>1
  <2> QED
    BY <1>4, <2>1, <2>2, <2>3, <2>4 DEF RecordsKept
<1>7. RecordsBorn
  BY <1>4 DEF RecordsBorn, Approvals
<1>8. StatusFollows
  <2> SUFFICES ASSUME NEW q \in Quotes, quote'[q].status = "approved"
               PROVE  \/ \E b \in Approvals : /\ approval'[b].quote = q
                                              /\ approval'[b].status = "approved"
                      \/ /\ quote[q].status = "approved"
                         /\ \A b \in Approvals :
                              approval[b].quote = q /\ approval[b].status = "approved"
                              => approval'[b].status = "approved"
    BY DEF StatusFollows
  <2>1. CASE q = approval[a].quote
    BY <1>4, <1>5, <2>1
  <2>2. CASE q # approval[a].quote
    BY <1>4, <1>5, <2>2
  <2> QED
    BY <2>1, <2>2
<1> QED
  BY <1>6, <1>7, <1>8 DEF TableStep

\* the writes that leave the records alone and approve nothing
LEMMA QuoteWriteIsTableStep ==
  ASSUME QuoteTypeInv,
         \A q \in Quotes : /\ quote[q].version <= quote'[q].version
                           /\ quote'[q].status = "approved" => quote[q].status = "approved",
         UNCHANGED <<approval, everApproved>>
  PROVE  TableStep
BY DEF QuoteTypeInv, QuoteTypeOK, TableStep, RecordsKept, RecordsBorn, StatusFollows, Approvals

\* the writes that append a pending record to a table whose decisions they keep
LEMMA RequestIsTableStep ==
  ASSUME QuoteTypeInv, QuoteTypeInv', NEW table \in Seq(Record), NEW q \in Quotes, NEW v,
         Pending(q, v) \in Record,
         approval' = Append(table, Pending(q, v)),
         Len(table) = Len(approval),
         \A a \in Approvals : /\ table[a].quote = approval[a].quote
                              /\ table[a].version = approval[a].version
                              /\ approval[a].status = "approved" <=> table[a].status = "approved",
         \A p \in Quotes : /\ quote[p].version <= quote'[p].version
                           /\ quote'[p].status = "approved" => quote[p].status = "approved",
         v <= quote'[q].version,
         everApproved' = everApproved
  PROVE  TableStep
<1> DEFINE e == Pending(q, v)
<1>1. e \in Record /\ e.status = "pending" /\ e.quote = q /\ e.version = v
  BY DEF Pending
<1> HIDE DEF e
<1>2. approval' = Append(table, e)
  BY DEF e
<1>3. Len(approval) \in Nat
  BY DEF QuoteTypeInv, QuoteTypeOK
<1>4. /\ Len(approval') = Len(approval) + 1
      /\ \A a \in Approvals : approval'[a] = table[a]
      /\ approval'[Len(approval) + 1] = e
  BY <1>1, <1>2, RecordAdded DEF Approvals
<1>5. RecordsKept
  <2>1. \A a \in Approvals : /\ approval'[a].quote = approval[a].quote
                             /\ approval'[a].version = approval[a].version
                             /\ approval'[a].status = "approved" => approval[a].status = "approved"
    BY <1>4
  <2>2. Len(approval) <= Len(approval')
    BY <1>3, <1>4
  <2> QED
    BY <2>1, <2>2 DEF RecordsKept
<1>6. RecordsBorn
  <2>1. \A a \in Approvals' : a \notin Approvals => a = Len(approval) + 1
    BY <1>3, <1>4 DEF Approvals
  <2> QED
    BY <1>1, <1>4, <2>1 DEF RecordsBorn
<1>7. StatusFollows
  <2>1. \A a \in Approvals : approval[a].status = "approved" => approval'[a].status = "approved"
    BY <1>4
  <2> QED
    BY <2>1 DEF StatusFollows
<1> QED
  BY <1>5, <1>6, <1>7 DEF TableStep

LEMMA EveryStepIsTableStep == QuoteTypeInv /\ [QuoteNext]_quoteVars => TableStep
<1> SUFFICES ASSUME QuoteTypeInv, [QuoteNext]_quoteVars PROVE TableStep
  OBVIOUS
<1>0. QuoteTypeInv'
  BY TypeStep
<1>r. approval \in Seq(Record)
  BY DEF QuoteTypeInv, QuoteTypeOK, Record
<1>v. \A q \in Quotes : quote[q].version \in Nat
  BY DEF QuoteTypeInv, QuoteTypeOK, Versions
<1>1. ASSUME NEW q \in Quotes, Materialize(q) PROVE TableStep
  <2>1. Pending(q, 1) \in Record
    BY QuoteBounds DEF Pending, Record, ApprovalStatuses
  <2>2. \A p \in Quotes : /\ quote[p].version <= quote'[p].version
                          /\ quote'[p].status = "approved" => quote[p].status = "approved"
    BY <1>1, <1>v DEF Materialize, QuoteTypeInv, QuoteTypeOK, UnwrittenHasNoVersion
  <2>3. 1 <= quote'[q].version
    BY <1>1 DEF Materialize, QuoteTypeInv, QuoteTypeOK
  <2> QED
    BY <1>0, <1>1, <1>r, <2>1, <2>2, <2>3, RequestIsTableStep DEF Materialize
<1>2. CASE UNCHANGED <<quote, approval, everApproved>>
  BY <1>2, <1>v, QuoteWriteIsTableStep
<1>3. CASE DecideWrite
  <2>1. CASE Decide(desk.on, desk.decision)
    BY <1>3, <2>1, DecideIsTableStep DEF DecideWrite, QuoteTypeInv, ActorsHold
  <2> QED
    BY <1>2, <1>3, <2>1 DEF DecideWrite
<1>4. CASE RegenerateWrite
  <2>1. desk.on \in Quotes /\ desk.version \in 1..quote[desk.on].version
    BY <1>4 DEF RegenerateWrite, QuoteTypeInv, ActorsHold
  <2>2. Pending(desk.on, desk.version) \in Record
    BY <2>1, QuoteBounds DEF Pending, Record, ApprovalStatuses, QuoteTypeInv, QuoteTypeOK, Versions
  <2>3. \A p \in Quotes : /\ quote[p].version = quote'[p].version
                          /\ quote'[p].status = "approved" => quote[p].status = "approved"
    BY <1>4 DEF RegenerateWrite, QuoteTypeInv, QuoteTypeOK
  <2>4. /\ Supersede(desk.on) \in Seq(Record)
        /\ Len(Supersede(desk.on)) = Len(approval)
        /\ \A a \in Approvals :
             /\ Supersede(desk.on)[a].quote = approval[a].quote
             /\ Supersede(desk.on)[a].version = approval[a].version
             /\ approval[a].status = "approved" <=> Supersede(desk.on)[a].status = "approved"
    BY <1>r, RecordsSuperseded
  <2>5. desk.version <= quote'[desk.on].version
    BY <1>v, <2>1, <2>3
  <2>6. approval' = Append(Supersede(desk.on), Pending(desk.on, desk.version))
        /\ everApproved' = everApproved
    BY <1>4 DEF RegenerateWrite
  <2>7. \A p \in Quotes : quote[p].version <= quote'[p].version
    BY <1>v, <2>3
  <2> QED
    BY <1>0, <2>1, <2>2, <2>3, <2>4, <2>5, <2>6, <2>7, RequestIsTableStep
<1>5. ASSUME NEW q \in Quotes, ToolCreate(q) PROVE TableStep
  <2>1. \A p \in Quotes : /\ quote[p].version <= quote'[p].version
                          /\ quote'[p].status = "approved" => quote[p].status = "approved"
    BY <1>5, <1>v DEF ToolCreate, QuoteTypeInv, QuoteTypeOK, UnwrittenHasNoVersion
  <2> QED
    BY <1>5, <2>1, QuoteWriteIsTableStep DEF ToolCreate
<1>6. CASE ToolAddFirstVersion
  <2>1. \A p \in Quotes : /\ quote[p].version <= quote'[p].version
                          /\ quote'[p].status = "approved" => quote[p].status = "approved"
    BY <1>6, <1>v DEF ToolAddFirstVersion, QuoteTypeInv, QuoteTypeOK
  <2> QED
    BY <1>6, <2>1, QuoteWriteIsTableStep DEF ToolAddFirstVersion
<1>7. ASSUME NEW q \in Quotes, AddVersion(q) PROVE TableStep
  <2>1. \A p \in Quotes : /\ quote[p].version <= quote'[p].version
                          /\ quote'[p].status = "approved" => quote[p].status = "approved"
    BY <1>7, <1>v DEF AddVersion, QuoteTypeInv, QuoteTypeOK
  <2> QED
    BY <1>7, <2>1, QuoteWriteIsTableStep DEF AddVersion
<1>8. ASSUME NEW q \in Quotes, ToolRequest(q) PROVE TableStep
  <2>1. Pending(q, quote[q].version) \in Record
    BY <1>8 DEF ToolRequest, Pending, Record, ApprovalStatuses, QuoteTypeInv, QuoteTypeOK, Versions
  <2>2. quote' = quote /\ everApproved' = everApproved
        /\ approval' = Append(approval, Pending(q, quote[q].version))
    BY <1>8 DEF ToolRequest
  <2>3. \A p \in Quotes : /\ quote[p].version <= quote'[p].version
                          /\ quote'[p].status = "approved" => quote[p].status = "approved"
    BY <1>v, <2>2
  <2> QED
    BY <1>0, <1>r, <2>1, <2>2, <2>3, RequestIsTableStep
<1>9. CASE ToolMarkPending
  <2>1. \A p \in Quotes : /\ quote[p].version <= quote'[p].version
                          /\ quote'[p].status = "approved" => quote[p].status = "approved"
    BY <1>9, <1>v DEF ToolMarkPending, QuoteTypeInv, QuoteTypeOK
  <2> QED
    BY <1>9, <2>1, QuoteWriteIsTableStep DEF ToolMarkPending
<1>10. CASE ToolDecide
  <2>1. CASE Decide(tool.on, tool.decision)
    BY <1>10, <2>1, DecideIsTableStep DEF ToolDecide, QuoteTypeInv, ActorsHold
  <2> QED
    BY <1>2, <1>10, <2>1 DEF ToolDecide
<1>11. ASSUME NEW q \in Quotes, RegenerateRead(q) PROVE TableStep
  BY <1>2, <1>11 DEF RegenerateRead
<1>12. ASSUME NEW a \in Approvals, NEW decision \in Decisions, DecideRead(a, decision)
       PROVE  TableStep
  BY <1>2, <1>12 DEF DecideRead
<1>13. ASSUME NEW q \in Quotes, NEW decision \in Decisions, ToolLookUp(q, decision)
       PROVE  TableStep
  BY <1>2, <1>13 DEF ToolLookUp
<1>14. CASE ToolAbandons
  BY <1>2, <1>14 DEF ToolAbandons
<1>15. CASE UNCHANGED quoteVars
  BY <1>2, <1>15 DEF quoteVars
<1> QED
  BY <1>1, <1>3, <1>4, <1>5, <1>6, <1>7, <1>8, <1>9, <1>10, <1>11, <1>12, <1>13, <1>14, <1>15
     DEF QuoteNext, DeskStep, ToolStep

-----------------------------------------------------------------------------
(* The inductive invariant                                                    *)

LEMMA InvInit == QuoteInit => QuoteInv
BY TypeInit DEF QuoteInit, QuoteInv, RecordsBindVersions, ApprovedWasDecided,
                ApprovedQuoteHasRecord, Approvals

LEMMA InvStep == QuoteInv /\ [QuoteNext]_quoteVars => QuoteInv'
<1> SUFFICES ASSUME QuoteInv, [QuoteNext]_quoteVars PROVE QuoteInv'
  OBVIOUS
<1>1. QuoteTypeInv /\ QuoteTypeInv'
  BY TypeStep DEF QuoteInv
<1>2. RecordsKept /\ RecordsBorn /\ StatusFollows
  BY <1>1, EveryStepIsTableStep DEF TableStep
<1>3. approval \in Seq(Record) /\ \A a \in Approvals : approval[a] \in Record
  <2>1. approval \in Seq(Record)
    BY <1>1 DEF QuoteTypeInv, QuoteTypeOK, Record
  <2> QED
    BY <2>1 DEF Approvals
<1>4. /\ Len(approval) \in Nat /\ Len(approval') \in Nat
      /\ \A q \in Quotes : quote[q].version \in Nat /\ quote'[q].version \in Nat
      /\ \A a \in Approvals : approval[a].version \in Nat /\ approval[a].quote \in Quotes
  BY <1>1, <1>3 DEF QuoteTypeInv, QuoteTypeOK, Versions, Record
<1>5. RecordsBindVersions'
  <2> SUFFICES ASSUME NEW a \in Approvals'
               PROVE  approval'[a].version <= quote'[approval'[a].quote].version
    BY DEF RecordsBindVersions
  <2>1. CASE a \in Approvals
    BY <1>2, <1>4, <2>1 DEF RecordsKept, QuoteInv, RecordsBindVersions
  <2>2. CASE a \notin Approvals
    BY <1>2, <2>2 DEF RecordsBorn
  <2> QED
    BY <2>1, <2>2
<1>6. ApprovedWasDecided'
  <2> SUFFICES ASSUME NEW a \in Approvals', approval'[a].status = "approved"
               PROVE  a \in everApproved'
    BY DEF ApprovedWasDecided
  <2>1. a \in Approvals
    BY <1>2 DEF RecordsBorn
  <2> QED
    BY <1>2, <2>1 DEF RecordsKept, QuoteInv, ApprovedWasDecided
<1>7. ApprovedQuoteHasRecord'
  <2> SUFFICES ASSUME NEW q \in Quotes, quote'[q].status = "approved"
               PROVE  \E a \in Approvals' : /\ approval'[a].quote = q
                                            /\ approval'[a].status = "approved"
    BY DEF ApprovedQuoteHasRecord
  <2>1. \E a \in Approvals : approval'[a].quote = q /\ approval'[a].status = "approved"
    BY <1>2 DEF StatusFollows, RecordsKept, QuoteInv, ApprovedQuoteHasRecord
  <2> QED
    BY <1>2, <1>4, <2>1 DEF RecordsKept, Approvals
<1> QED
  BY <1>1, <1>5, <1>6, <1>7 DEF QuoteInv

\* The inductive invariant of the two writers: the types, what an actor between
\* its read and its write remembers, and the records behind each status.
THEOREM QuoteInvariant == QuoteSpec => []QuoteInv
BY InvInit, InvStep, PTL DEF QuoteSpec

\* The two tables, the desk and the tool stay in the shapes of the code's rows
\* and of its requests, for any quotes, versions and records.
THEOREM QuoteTypeCorrect == QuoteSpec => []QuoteTypeOK
<1>1. QuoteInv => QuoteTypeOK
  BY DEF QuoteInv, QuoteTypeInv
<1> QED
  BY <1>1, QuoteInvariant, PTL

\* A quote whose status is approved has an approved record of one of its
\* versions, in any order of the web loop's and the tools' reads and writes.
THEOREM ApprovedHasRecord == QuoteSpec => []ApprovedQuoteHasRecord
<1>1. QuoteInv => ApprovedQuoteHasRecord
  BY DEF QuoteInv
<1> QED
  BY <1>1, QuoteInvariant, PTL

\* A record binds one version of one quote for good, the quote has that version
\* already, and versions are never taken back: what approval_records stores as
\* the canonical hash stays the hash of something that exists.
RecordsBindForGood == [][RecordsKept]_quoteVars
THEOREM BindingsAreKept == QuoteSpec => RecordsBindForGood /\ []RecordsBindVersions
<1>1. QuoteInv /\ [QuoteNext]_quoteVars => [RecordsKept]_quoteVars
  BY EveryStepIsTableStep DEF QuoteInv, TableStep
<1>2. QuoteInv => RecordsBindVersions
  BY DEF QuoteInv
<1> QED
  BY <1>1, <1>2, QuoteInvariant, PTL DEF QuoteSpec, RecordsBindForGood

-----------------------------------------------------------------------------
(* The composition.                                                           *)

LEMMA GateOfIsVerdict ==
  ASSUME NEW quotes, NEW approvals, NEW mailbox
  PROVE  GateOf(quotes, approvals, mailbox) \in [Deliveries -> Outbox!Verdicts]
BY DEF GateOf, Outbox!Verdicts

\* Every step of the composition is a step of the outbox, a move of its gate,
\* or neither: what the gate computes from quotes, approvals and the account
\* is one of the behaviours EmailDelivery allows its gate.
THEOREM CompositionRefines == Spec => ImplementsOutbox
<1>1. Init => Outbox!Init
  BY DEF Init
<1>2. [Next]_systemVars => [Outbox!Next]_(Outbox!vars)
  <2> SUFFICES ASSUME [Next]_systemVars PROVE [Outbox!Next]_(Outbox!vars)
    OBVIOUS
  <2>1. CASE Outbox!DeliveryStep
    BY <2>1 DEF Outbox!Next
  <2>2. CASE gate' = GateOf(quote', approval', account') /\ Outbox!GateMoved
    BY <2>2, GateOfIsVerdict DEF Outbox!Next, Outbox!GateChanges
  <2>3. CASE UNCHANGED systemVars
    BY <2>3 DEF systemVars, deliveryVars, Outbox!vars
  <2> QED
    BY <2>1, <2>2, <2>3 DEF Next
<1> QED
  BY <1>1, <1>2, PTL DEF Spec, ImplementsOutbox, Outbox!Spec

-----------------------------------------------------------------------------
(* What a step of the outbox does to a worker and to the copies taken         *)

\* The tables of workers and of copies have the fields the steps write.
WorkerRecord(r) ==
  r = [pc |-> r.pc, d |-> r.d, answer |-> r.answer, redacted |-> r.redacted,
       status |-> r.status]
Shaped ==
  /\ worker = [w \in Workers |-> worker[w]]
  /\ \A w \in Workers : WorkerRecord(worker[w])
  /\ taken = [d \in Deliveries |-> taken[d]]

HeldPcs == {"claimed", "validated", "refused", "answered", "failing"}

\* A worker that holds a row after a step claimed it in that step or held it
\* before, and it is validated only by finding the gate of that row open.
WorkerMoves ==
  \A w \in Workers : worker'[w].pc \in HeldPcs =>
    \/ worker'[w] = worker[w]
    \/ worker'[w].pc = "claimed" /\ worker'[w].d \in Deliveries
    \/ /\ worker[w].pc \in HeldPcs /\ worker'[w].d = worker[w].d
       /\ worker'[w].pc = "validated" => gate[worker[w].d] = "open"

\* Only what a validated worker holds is taken.
CopyOfValidated ==
  \A d \in Deliveries : taken'[d] # taken[d] =>
    \E w \in Workers : worker[w].pc = "validated" /\ worker[w].d = d

OutboxStep == Shaped' /\ WorkerMoves /\ CopyOfValidated

\* a step that leaves the worker table and the copies alone
LEMMA QuietStep ==
  ASSUME Shaped, UNCHANGED <<worker, taken>>
  PROVE  OutboxStep
BY DEF Shaped, OutboxStep, WorkerMoves, CopyOfValidated

\* a step of one worker that ends without a row
LEMMA WorkerLetsGo ==
  ASSUME Shaped, NEW w \in Workers, NEW r \in {Outbox!Idle, Outbox!Down},
         worker' = [worker EXCEPT ![w] = r], UNCHANGED taken
  PROVE  OutboxStep
BY DEF Shaped, OutboxStep, WorkerMoves, CopyOfValidated, HeldPcs,
       WorkerRecord, Outbox!Idle, Outbox!Down, Outbox!WorkerAt

\* the records a worker's steps write
WithRedacted(r, x) == [r EXCEPT !.pc = "validated", !.redacted = x]
WithAnswer(r, x) == [r EXCEPT !.pc = "answered", !.answer = x]
WithStatus(r, x) == [r EXCEPT !.pc = "failing", !.status = x]

LEMMA WorkerFields ==
  ASSUME NEW r, WorkerRecord(r), NEW x
  PROVE  /\ WorkerRecord(WithRedacted(r, x)) /\ WithRedacted(r, x).d = r.d
         /\ WorkerRecord(WithAnswer(r, x)) /\ WithAnswer(r, x).d = r.d
         /\ WithAnswer(r, x).pc = "answered"
         /\ WorkerRecord(WithStatus(r, x)) /\ WithStatus(r, x).d = r.d
         /\ WithStatus(r, x).pc = "failing"
<1>1. PICK p, d, a, h, t : r = [pc |-> p, d |-> d, answer |-> a, redacted |-> h, status |-> t]
  BY DEF WorkerRecord
<1> DEFINE Shape == [pc: {p, "validated", "answered", "failing"}, d: {d}, answer: {a, x}, redacted: {h, x}, status: {t, x}]
<1>2. r \in Shape
  BY <1>1
<1>3. WithRedacted(r, x) \in Shape
  BY <1>2 DEF WithRedacted
<1>4. WithAnswer(r, x) \in Shape /\ WithAnswer(r, x).pc = "answered"
  BY <1>2 DEF WithAnswer
<1>5. WithStatus(r, x) \in Shape /\ WithStatus(r, x).pc = "failing"
  BY <1>2 DEF WithStatus
<1>6. \A s \in Shape : WorkerRecord(s) /\ s.d = r.d
  BY <1>1 DEF WorkerRecord
<1> QED
  BY <1>3, <1>4, <1>5, <1>6

\* a step of one worker that ends with the record r
LEMMA WorkerMovesOn ==
  ASSUME Shaped, NEW w \in Workers, NEW r, WorkerRecord(r),
         \/ r.pc = "claimed" /\ r.d \in Deliveries
         \/ /\ worker[w].pc \in HeldPcs /\ r.d = worker[w].d
            /\ r.pc = "validated" => gate[worker[w].d] = "open",
         worker' = [worker EXCEPT ![w] = r],
         taken' = [d \in Deliveries |-> taken'[d]], CopyOfValidated
  PROVE  OutboxStep
<1>1. \A v \in Workers : worker'[v] = IF v = w THEN r ELSE worker[v]
  BY DEF Shaped
<1>2. Shaped'
  BY <1>1 DEF Shaped
<1>3. WorkerMoves
  BY <1>1 DEF WorkerMoves
<1> QED
  BY <1>2, <1>3 DEF OutboxStep

LEMMA OutboxSteps ==
  ASSUME Shaped, Outbox!DeliveryStep
  PROVE  OutboxStep
<1> USE DEF Outbox!tableVars, Outbox!ghostVars
<1>1. ASSUME NEW w \in Workers, Outbox!Start(w) PROVE OutboxStep
  BY <1>1, WorkerLetsGo DEF Outbox!Start
<1>2. ASSUME NEW w \in Workers, Outbox!StepFails(w) PROVE OutboxStep
  BY <1>2, WorkerLetsGo DEF Outbox!StepFails
<1>3. ASSUME NEW w \in Workers, Outbox!Crash(w) PROVE OutboxStep
  BY <1>3, WorkerLetsGo DEF Outbox!Crash
<1>4. ASSUME NEW w \in Workers, Outbox!Claim(w) PROVE OutboxStep
  <2>1. PICK d \in Deliveries : worker' = [worker EXCEPT ![w] = Outbox!WorkerAt("claimed", d)]
    BY <1>4 DEF Outbox!Claim
  <2>2. /\ WorkerRecord(Outbox!WorkerAt("claimed", d))
        /\ Outbox!WorkerAt("claimed", d).pc = "claimed"
        /\ Outbox!WorkerAt("claimed", d).d = d
    BY DEF WorkerRecord, Outbox!WorkerAt
  <2>3. taken' = taken
    BY <1>4 DEF Outbox!Claim
  <2> QED
    BY <2>1, <2>2, <2>3, WorkerMovesOn DEF Shaped, CopyOfValidated
<1>5. ASSUME NEW w \in Workers, Outbox!Revalidate(w) PROVE OutboxStep
  <2> DEFINE r == WithRedacted(worker[w], row[worker[w].d].redacted)
  <2>1. worker' = [worker EXCEPT ![w] = r] /\ taken' = taken
    BY <1>5 DEF Outbox!Revalidate, WithRedacted
  <2>2. worker[w].pc = "claimed" /\ gate[worker[w].d] = "open"
    BY <1>5 DEF Outbox!Revalidate, Outbox!MayProceed
  <2>3. WorkerRecord(r) /\ r.d = worker[w].d
    BY WorkerFields DEF Shaped
  <2> HIDE DEF r
  <2> QED
    BY <2>1, <2>2, <2>3, WorkerMovesOn DEF Shaped, CopyOfValidated, HeldPcs
<1>6. ASSUME NEW w \in Workers, Outbox!Refuse(w) PROVE OutboxStep
  <2> DEFINE r == [worker[w] EXCEPT !.pc = "refused"]
  <2>1. worker' = [worker EXCEPT ![w] = r] /\ taken' = taken /\ worker[w].pc = "claimed"
    BY <1>6 DEF Outbox!Refuse
  <2>2. WorkerRecord(r) /\ r.d = worker[w].d /\ r.pc = "refused"
    BY DEF Shaped, WorkerRecord
  <2> HIDE DEF r
  <2> QED
    BY <2>1, <2>2, WorkerMovesOn DEF Shaped, CopyOfValidated, HeldPcs
<1>7. ASSUME NEW w \in Workers, Outbox!MarkStale(w) PROVE OutboxStep
  BY <1>7, WorkerLetsGo DEF Outbox!MarkStale
<1>8. ASSUME NEW w \in Workers, NEW answer \in Outbox!Answers, Outbox!Submit(w, answer)
      PROVE  OutboxStep
  <2> DEFINE r == WithAnswer(worker[w], answer)
  <2>1. worker' = [worker EXCEPT ![w] = r] /\ worker[w].pc = "validated"
    BY <1>8 DEF Outbox!Submit, WithAnswer
  <2>2. WorkerRecord(r) /\ r.d = worker[w].d /\ r.pc = "answered"
    BY WorkerFields DEF Shaped
  <2>3. PICK more : taken' = [taken EXCEPT ![worker[w].d] = more]
    <3>1. PICK took : taken' = [taken EXCEPT ![worker[w].d] = @ + IF took THEN 1 ELSE 0]
      BY <1>8 DEF Outbox!Submit
    <3> QED
      BY <3>1
  <2>4. taken' = [d \in Deliveries |-> taken'[d]] /\ CopyOfValidated
    BY <2>1, <2>3 DEF Shaped, CopyOfValidated
  <2> HIDE DEF r
  <2> QED
    BY <2>1, <2>2, <2>4, WorkerMovesOn DEF HeldPcs
<1>9. ASSUME NEW w \in Workers,
             Outbox!Record(w) \/ Outbox!FailWrite(w) \/ Outbox!LeaseLost(w)
      PROVE  OutboxStep
  BY <1>9, WorkerLetsGo DEF Outbox!Record, Outbox!FailWrite, Outbox!LeaseLost
<1>10. ASSUME NEW w \in Workers, Outbox!FailRead(w) PROVE OutboxStep
  <2> DEFINE r == WithStatus(worker[w], Outbox!StatusAfter(row[worker[w].d], worker[w].answer))
  <2>1. worker' = [worker EXCEPT ![w] = r] /\ taken' = taken /\ worker[w].pc = "answered"
    BY <1>10 DEF Outbox!FailRead, WithStatus
  <2>2. WorkerRecord(r) /\ r.d = worker[w].d /\ r.pc = "failing"
    BY WorkerFields DEF Shaped
  <2> HIDE DEF r
  <2> QED
    BY <2>1, <2>2, WorkerMovesOn DEF Shaped, CopyOfValidated, HeldPcs
<1>11. ASSUME UNCHANGED <<worker, taken>> PROVE OutboxStep
  BY <1>11, QuietStep
<1>12. CASE Outbox!WebStep \/ Outbox!WebFails
  BY <1>11, <1>12 DEF Outbox!WebStep, Outbox!WebFails, Outbox!QueueInsert,
     Outbox!RetryReplay, Outbox!RetryRefuse, Outbox!RetryMarkStale
<1>13. ASSUME NEW d \in Deliveries,
              \/ Outbox!QueueCheck(d) \/ Outbox!RetryRead(d) \/ Outbox!Redact(d)
              \/ Outbox!LeaseExpires(d) \/ Outbox!BackoffElapses(d)
       PROVE  OutboxStep
  BY <1>11, <1>13 DEF Outbox!QueueCheck, Outbox!RetryRead, Outbox!Redact,
     Outbox!LeaseExpires, Outbox!BackoffElapses
<1> QED
  BY <1>1, <1>2, <1>3, <1>4, <1>5, <1>6, <1>7, <1>8, <1>9, <1>10, <1>12, <1>13
     DEF Outbox!DeliveryStep, Outbox!WorkerStep

-----------------------------------------------------------------------------
(* What goes out was approved                                                 *)

\* The gate is what quotes, approvals and account say at this moment; what a
\* worker holds is a row; and what it has validated a reviewer had approved, as
\* everything the server took before.
ApprovedInv ==
  /\ QuoteInv
  /\ Shaped
  /\ gate = GateOf(quote, approval, account)
  /\ \A w \in Workers : worker[w].pc \in HeldPcs => worker[w].d \in Deliveries
  /\ \A w \in Workers : worker[w].pc = "validated" => worker[w].d \in everApproved
  /\ TakenWasApproved

LEMMA OpenIsApproved ==
  ASSUME QuoteInv, NEW d \in Deliveries, GateOf(quote, approval, account)[d] = "open"
  PROVE  d \in everApproved
<1>1. Admits(d, quote, approval, account)
  BY DEF GateOf
<1>2. d \in Approvals /\ approval[d].status = "approved"
  BY <1>1, QuoteBounds DEF Admits, Approvals, Deliveries, QuoteInv, QuoteTypeInv, QuoteTypeOK
<1> QED
  BY <1>2 DEF QuoteInv, ApprovedWasDecided

LEMMA ApprovedInit == Init => ApprovedInv
<1> SUFFICES ASSUME Init PROVE ApprovedInv
  OBVIOUS
<1>1. \A w \in Workers : worker[w] = Outbox!Down
  BY DEF Init, Outbox!Init
<1>2. WorkerRecord(Outbox!Down) /\ Outbox!Down.pc = "down"
  BY DEF WorkerRecord, Outbox!Down, Outbox!WorkerAt
<1>3. Shaped
  BY <1>1, <1>2 DEF Init, Outbox!Init, Shaped
<1>4. QuoteInv /\ gate = GateOf(quote, approval, account) /\ TakenWasApproved
  BY InvInit DEF Init, Outbox!Init, TakenWasApproved
<1> QED
  BY <1>1, <1>2, <1>3, <1>4 DEF ApprovedInv, HeldPcs

LEMMA ApprovedStep == ApprovedInv /\ [Next]_systemVars => ApprovedInv'
<1> SUFFICES ASSUME ApprovedInv, [Next]_systemVars PROVE ApprovedInv'
  OBVIOUS
<1> USE DEF ApprovedInv
<1>1. CASE Outbox!DeliveryStep /\ UNCHANGED <<quoteVars, accountVars>>
  <2>1. Shaped' /\ WorkerMoves /\ CopyOfValidated
    BY <1>1, OutboxSteps DEF OutboxStep
  <2>2. UNCHANGED <<quote, approval, desk, tool, everApproved, account>>
    BY <1>1 DEF quoteVars, accountVars
  <2>3. QuoteInv'
    BY <2>2, InvStep DEF quoteVars
  <2>4. gate' = gate
    BY <1>1 DEF Outbox!DeliveryStep, Outbox!WorkerStep, Outbox!Start, Outbox!StepFails,
       Outbox!Crash, Outbox!Claim, Outbox!Revalidate, Outbox!Refuse, Outbox!MarkStale,
       Outbox!Submit, Outbox!Record, Outbox!FailRead, Outbox!FailWrite, Outbox!LeaseLost,
       Outbox!QueueCheck, Outbox!RetryRead, Outbox!Redact, Outbox!WebStep,
       Outbox!WebFails, Outbox!QueueInsert, Outbox!RetryReplay, Outbox!RetryRefuse,
       Outbox!RetryMarkStale, Outbox!LeaseExpires, Outbox!BackoffElapses
  <2>5. \A w \in Workers : worker'[w].pc \in HeldPcs => worker'[w].d \in Deliveries
    BY <2>1 DEF WorkerMoves
  <2>6. \A w \in Workers : worker'[w].pc = "validated" => worker'[w].d \in everApproved
    BY <2>1, OpenIsApproved DEF WorkerMoves, HeldPcs
  <2>7. TakenWasApproved'
    BY <2>1, <2>2 DEF CopyOfValidated, TakenWasApproved
  <2> QED
    BY <2>1, <2>2, <2>3, <2>4, <2>5, <2>6, <2>7
<1>2. CASE /\ QuoteNext /\ UNCHANGED accountVars
           /\ gate' = GateOf(quote', approval', account') /\ Outbox!GateMoved
  <2>1. QuoteInv'
    BY <1>2, InvStep
  <2>2. everApproved \subseteq everApproved'
    BY <1>2, EveryStepIsTableStep DEF TableStep, RecordsKept, QuoteInv
  <2>3. UNCHANGED <<worker, taken>>
    BY <1>2 DEF Outbox!GateMoved
  <2> QED
    BY <1>2, <2>1, <2>2, <2>3 DEF Shaped, TakenWasApproved
<1>3. CASE /\ AccountNext /\ UNCHANGED quoteVars
           /\ gate' = GateOf(quote', approval', account') /\ Outbox!GateMoved
  <2>1. QuoteInv'
    BY <1>3, InvStep
  <2>2. UNCHANGED <<worker, taken, everApproved>>
    BY <1>3 DEF Outbox!GateMoved, quoteVars
  <2> QED
    BY <1>3, <2>1, <2>2 DEF Shaped, TakenWasApproved
<1>4. CASE UNCHANGED systemVars
  <2>1. QuoteInv' /\ UNCHANGED <<quote, approval, account, everApproved, worker, taken, gate>>
    BY <1>4, InvStep DEF systemVars, quoteVars, accountVars, deliveryVars
  <2> QED
    BY <2>1 DEF Shaped, TakenWasApproved
<1> QED
  BY <1>1, <1>2, <1>3, <1>4 DEF Next

\* Whatever is withdrawn, replaced, disabled or taken off the allowlist between
\* the claim, the revalidation and the submission, every message the server
\* takes carries an approval a reviewer had given: the last word before SMTP is
\* revalidate_claim's, and it reads the records, not the row.
THEOREM SentWasApproved == Spec => []TakenWasApproved
<1>1. ApprovedInv => TakenWasApproved
  BY DEF ApprovedInv
<1> QED
  BY <1>1, ApprovedInit, ApprovedStep, PTL DEF Spec

=============================================================================
