---------------------------- MODULE QuoteApproval ----------------------------
(***************************************************************************)
(* Quotes and the approvals of their versions, on the SQLite backend.      *)
(*                                                                         *)
(* Two writers share the tables through connections of their own: the web  *)
(* event loop (EmailQuoteWorkflowService: materialize, decide, regenerate) *)
(* and the agent's tools (create_quote, approve_message, over              *)
(* sqlite_database).  Each reads in one transaction and writes in another, *)
(* so every operation is a read step and a write step.                     *)
(*                                                                         *)
(* A version of a quote never changes once written, so the canonical hash  *)
(* of a version is the pair of quote and version number.                   *)
(***************************************************************************)
EXTENDS Naturals, Sequences

CONSTANTS
  Quotes,        \* quote ids
  MaxVersion,    \* bound: versions of a quote
  MaxApprovals   \* bound: approval records

ASSUME QuoteBounds == MaxVersion \in Nat \ {0} /\ MaxApprovals \in Nat

VARIABLES
  quote,         \* the quotes table: status and current_version
  approval,      \* approval_records, in id order
  desk,          \* the decide or regenerate request the web loop is in
  tool,          \* the approve_message or create_quote call an agent is in
  everApproved   \* ghost: approvals that were approved at some time

quoteVars == <<quote, approval, desk, tool, everApproved>>

Approvals == 1..Len(approval)
Versions == 0..MaxVersion
QuoteStatuses == {"none", "draft", "pending_approval", "approved", "rejected"}
ApprovalStatuses == {"pending", "approved", "rejected", "superseded"}
Decisions == {"approved", "rejected"}

DeskIdle == [pc |-> "idle", on |-> 0, version |-> 0, decision |-> "none"]
ToolIdle == [pc |-> "idle", quote |-> 0, on |-> 0, decision |-> "none"]

Pending(q, v) == [quote |-> q, version |-> v, status |-> "pending"]

\* what an approval binds is still the current version (id, number and hash)
IsCurrent(a) == approval[a].version = quote[approval[a].quote].version

\* approval a gets its decision, and the quote with it
Decide(a, decision) ==
  /\ approval' = [approval EXCEPT ![a].status = decision]
  /\ quote' = [quote EXCEPT ![approval[a].quote].status = decision]
  /\ everApproved' = IF decision = "approved" THEN everApproved \cup {a} ELSE everApproved

QuoteInit ==
  /\ quote = [q \in Quotes |-> [status |-> "none", version |-> 0]]
  /\ approval = <<>>
  /\ desk = DeskIdle
  /\ tool = ToolIdle
  /\ everApproved = {}

-----------------------------------------------------------------------------
(* The web loop *)

\* materialize_confirmed: a confirmed review becomes a quote, its version 1 and
\* the approval request of it, in one transaction
Materialize(q) ==
  /\ desk = DeskIdle
  /\ quote[q].status = "none"
  /\ Len(approval) < MaxApprovals
  /\ quote' = [quote EXCEPT ![q] = [status |-> "pending_approval", version |-> 1]]
  /\ approval' = Append(approval, Pending(q, 1))
  /\ UNCHANGED <<desk, tool, everApproved>>

\* decide: the checks on the row read ...
DecideRead(a, decision) ==
  /\ desk = DeskIdle
  /\ approval[a].status = "pending"
  /\ IsCurrent(a)
  /\ desk' = [pc |-> "deciding", on |-> a, version |-> 0, decision |-> decision]
  /\ UNCHANGED <<quote, approval, tool, everApproved>>

\* mutant: the quote follows the decision though the record was already decided
DecideWriteUnchecked ==
  /\ desk.pc = "deciding"
  /\ desk' = DeskIdle
  /\ IF approval[desk.on].status = "pending"
     THEN Decide(desk.on, desk.decision)
     ELSE /\ quote' = [quote EXCEPT ![approval[desk.on].quote].status = desk.decision]
          /\ UNCHANGED <<approval, everApproved>>
  /\ UNCHANGED tool

\* ... and the transaction: UPDATE ... WHERE id=? AND status='pending', or
\* email_approval_already_decided
DecideWrite ==
  /\ desk.pc = "deciding"
  /\ desk' = DeskIdle
  /\ IF approval[desk.on].status = "pending"
     THEN Decide(desk.on, desk.decision)
     ELSE UNCHANGED <<quote, approval, everApproved>>
  /\ UNCHANGED tool

\* regenerate_approval: an open, current request is answered as it is; with
\* none, the version read is what the new request will bind
HasOpenRequest(q) == \E a \in Approvals : /\ approval[a] = Pending(q, quote[q].version)
RegenerateRead(q) ==
  /\ desk = DeskIdle
  /\ quote[q].status \notin {"none", "approved"}
  /\ quote[q].version > 0
  /\ ~HasOpenRequest(q)
  /\ Len(approval) < MaxApprovals
  /\ desk' = [pc |-> "regenerating", on |-> q, version |-> quote[q].version,
              decision |-> "none"]
  /\ UNCHANGED <<quote, approval, tool, everApproved>>

Supersede(q) ==
  [a \in Approvals |-> IF approval[a].quote = q /\ approval[a].status = "pending"
                       THEN [approval[a] EXCEPT !.status = "superseded"]
                       ELSE approval[a]]

RegenerateWrite ==
  /\ desk.pc = "regenerating"
  /\ Len(approval) < MaxApprovals
  /\ approval' = Append(Supersede(desk.on), Pending(desk.on, desk.version))
  /\ quote' = [quote EXCEPT ![desk.on].status = "pending_approval"]
  /\ desk' = DeskIdle
  /\ UNCHANGED <<tool, everApproved>>

-----------------------------------------------------------------------------
(* The agent's tools *)

\* create_quote_version_impl: create_quote, then add_quote_version
ToolCreate(q) ==
  /\ tool = ToolIdle
  /\ quote[q].status = "none"
  /\ quote' = [quote EXCEPT ![q] = [status |-> "draft", version |-> 0]]
  /\ tool' = [ToolIdle EXCEPT !.pc = "creating", !.quote = q]
  /\ UNCHANGED <<approval, desk, everApproved>>

ToolAddFirstVersion ==
  /\ tool.pc = "creating"
  /\ quote' = [quote EXCEPT ![tool.quote].version = @ + 1]
  /\ tool' = ToolIdle
  /\ UNCHANGED <<approval, desk, everApproved>>

\* add_quote_version on a quote that has versions, an operation the database
\* modules offer and no tool of this commit uses twice: current_version moves
\* on, the status stays
AddVersion(q) ==
  /\ quote[q].version \in 1..(MaxVersion - 1)
  /\ quote' = [quote EXCEPT ![q].version = @ + 1]
  /\ UNCHANGED <<approval, desk, tool, everApproved>>

\* approve_message action=request: create_approval, then update_quote_status
ToolRequest(q) ==
  /\ tool = ToolIdle
  /\ quote[q].version > 0
  /\ Len(approval) < MaxApprovals
  /\ approval' = Append(approval, Pending(q, quote[q].version))
  /\ tool' = [ToolIdle EXCEPT !.pc = "requested", !.quote = q]
  /\ UNCHANGED <<quote, desk, everApproved>>

ToolMarkPending ==
  /\ tool.pc = "requested"
  /\ quote' = [quote EXCEPT ![tool.quote].status = "pending_approval"]
  /\ tool' = ToolIdle
  /\ UNCHANGED <<approval, desk, everApproved>>

\* action=approve or reject: the latest pending record is looked up ...
LatestPending(q, a) ==
  /\ approval[a].quote = q /\ approval[a].status = "pending"
  /\ \A b \in Approvals : approval[b].quote = q /\ approval[b].status = "pending" => b <= a
ToolLookUp(q, decision) ==
  /\ tool = ToolIdle
  /\ \E a \in Approvals :
       /\ LatestPending(q, a)
       /\ tool' = [pc |-> "deciding", quote |-> q, on |-> a, decision |-> decision]
  /\ UNCHANGED <<quote, approval, desk, everApproved>>

\* ... and approve() writes it: the version is checked for an approval, the
\* status of the record is not
ToolDecide ==
  /\ tool.pc = "deciding"
  /\ tool' = ToolIdle
  /\ IF tool.decision = "approved" /\ ~IsCurrent(tool.on)
     THEN UNCHANGED <<quote, approval, everApproved>>
     ELSE Decide(tool.on, tool.decision)
  /\ UNCHANGED desk

\* the call ends between its two transactions (an exception, a stopped process)
ToolAbandons ==
  /\ tool # ToolIdle
  /\ tool' = ToolIdle
  /\ UNCHANGED <<quote, approval, desk, everApproved>>

-----------------------------------------------------------------------------
DeskStep ==
  \/ \E q \in Quotes : Materialize(q) \/ RegenerateRead(q)
  \/ \E a \in Approvals, decision \in Decisions : DecideRead(a, decision)
  \/ DecideWrite \/ RegenerateWrite

ToolStep ==
  \/ \E q \in Quotes : ToolCreate(q) \/ AddVersion(q) \/ ToolRequest(q)
  \/ \E q \in Quotes, decision \in Decisions : ToolLookUp(q, decision)
  \/ ToolAddFirstVersion \/ ToolMarkPending \/ ToolDecide \/ ToolAbandons

QuoteNext == DeskStep \/ ToolStep

QuoteSpec == QuoteInit /\ [][QuoteNext]_quoteVars

-----------------------------------------------------------------------------
QuoteTypeOK ==
  /\ quote \in [Quotes -> [status: QuoteStatuses, version: Versions]]
  /\ approval \in Seq([quote: Quotes, version: 1..MaxVersion, status: ApprovalStatuses])
  /\ Len(approval) <= MaxApprovals
  /\ desk.pc \in {"idle", "deciding", "regenerating"}
  /\ tool.pc \in {"idle", "creating", "requested", "deciding"}
  /\ everApproved \subseteq Approvals

\* A quote whose status is approved has an approved record of one of its
\* versions: no order of the two writers' reads and writes leaves the status
\* of the quote ahead of its records.
ApprovedQuoteHasRecord ==
  \A q \in Quotes : quote[q].status = "approved" =>
    \E a \in Approvals : approval[a].quote = q /\ approval[a].status = "approved"

=============================================================================
