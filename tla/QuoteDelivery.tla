---------------------------- MODULE QuoteDelivery ----------------------------
(***************************************************************************)
(* The outbox together with what its gate reads: the mailbox account, the  *)
(* quotes and their approvals.  One account and one recipient, so a row    *)
(* of the outbox is named by the approval it carries.                      *)
(***************************************************************************)
EXTENDS QuoteApproval, EmailAccount, FiniteSets

CONSTANTS Workers, NoOwner, Orphan, NoDelivery, Backend,
          MaxAttempts, MaxFaults, MaxRetries

VARIABLES row, stamp, worker, web, gate, taken,
          recovered, ambiguous, sawOpen, faults, retries

deliveryVars == <<row, stamp, worker, web, gate, taken,
                  recovered, ambiguous, sawOpen, faults, retries>>
systemVars == <<quoteVars, accountVars, deliveryVars>>

Deliveries == 1..MaxApprovals

\* mutant: the gate looks at the account and the version, not at the approval
AdmitsUnapproved(a, quotes, approvals, mailbox) ==
  /\ mailbox.outbound /\ mailbox.status = "healthy"
  /\ a <= Len(approvals)
  /\ quotes[approvals[a].quote].version = approvals[a].version

\* _gate, and the allowlist check that queue and revalidate_claim add to it
Admits(a, quotes, approvals, mailbox) ==
  /\ mailbox.outbound /\ mailbox.status = "healthy"
  /\ a <= Len(approvals)
  /\ approvals[a].status = "approved"
  /\ quotes[approvals[a].quote].status = "approved"
  /\ quotes[approvals[a].quote].version = approvals[a].version

\* mutant: a recipient off the allowlist has an answer of its own
GateOfWithRefusals(quotes, approvals, mailbox) ==
  [a \in Deliveries |-> IF ~Admits(a, quotes, approvals, mailbox) THEN "closed"
                        ELSE IF mailbox.listed THEN "open" ELSE "refused"]

GateOf(quotes, approvals, mailbox) ==
  [a \in Deliveries |-> IF ~Admits(a, quotes, approvals, mailbox) THEN "closed"
                        ELSE IF mailbox.listed THEN "open" ELSE "unlisted"]

Outbox == INSTANCE EmailDelivery

Init ==
  /\ QuoteInit
  /\ AccountInit
  /\ gate = GateOf(quote, approval, account)
  /\ Outbox!Init

\* A step of the outbox, or one of the others that moves its gate with it.
Next ==
  \/ Outbox!DeliveryStep /\ UNCHANGED <<quoteVars, accountVars>>
  \/ /\ \/ QuoteNext /\ UNCHANGED accountVars
        \/ AccountNext /\ UNCHANGED quoteVars
     /\ gate' = GateOf(quote', approval', account')
     /\ Outbox!GateMoved

Spec == Init /\ [][Next]_systemVars

-----------------------------------------------------------------------------
\* The composition implements the outbox with a gate that moves by itself, so
\* what holds of EmailDelivery holds of its rows here.
ImplementsOutbox == Outbox!Spec

\* Whatever was withdrawn, replaced or disabled meanwhile, a message the server
\* takes carries an approval a reviewer had given.
TakenWasApproved ==
  \A a \in Deliveries : taken[a] > 0 => a \in everApproved
=============================================================================
