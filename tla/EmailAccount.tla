---------------------------- MODULE EmailAccount ----------------------------
(***************************************************************************)
(* One mailbox account: the row of ops_email_account, the administrator's  *)
(* operations on it (each one synchronous in the web loop, so one step)    *)
(* and the managed-ingestion poller, which reads the row, awaits IMAP and  *)
(* only then writes the health it found.                                   *)
(***************************************************************************)
EXTENDS Naturals

CONSTANTS
  MaxConfigVersion   \* bound: config_version of the account

ASSUME MaxConfigVersionIsPositive == MaxConfigVersion \in Nat \ {0}

VARIABLES
  account,   \* status, inbound_enabled, outbound_enabled, config_version, and
             \* whether the one recipient of interest is on the allowlist
  form,      \* the config_version the administrator's page shows
  poller     \* where poll_due is with the account, and the status it read

accountVars == <<account, form, poller>>

HealthStatuses == {"disabled", "validating", "healthy", "degraded", "auth_failed"}

\* poll_due: eligible_accounts
Pollable == account.inbound /\ account.status \in {"healthy", "validating", "degraded"}

\* create_account: whatever the flags, the account starts disabled
AccountInit ==
  /\ \E inbound, outbound, listed \in BOOLEAN :
       account = [status |-> "disabled", inbound |-> inbound, outbound |-> outbound,
                  listed |-> listed, version |-> 1]
  /\ form = 1
  /\ poller = [pc |-> "idle", seen |-> "none"]

-----------------------------------------------------------------------------
\* GET /accounts
ReadForm ==
  /\ form # account.version
  /\ form' = account.version
  /\ UNCHANGED <<account, poller>>

\* update_account with the config_version of the form: flags and allowlist, and
\* with a new credential the status; a stale version is refused and changes
\* nothing (the credential is put back)
UpdateAccount(inbound, outbound, listed, rotated) ==
  /\ form = account.version
  /\ account.version < MaxConfigVersion
  /\ account' = [status |-> IF rotated /\ account.status # "disabled"
                            THEN "validating" ELSE account.status,
                 inbound |-> inbound, outbound |-> outbound, listed |-> listed,
                 version |-> account.version + 1]
  /\ UNCHANGED <<form, poller>>

\* set_enabled
SetEnabled(enabled) ==
  /\ account.version < MaxConfigVersion
  /\ account' = [account EXCEPT !.status = IF enabled THEN "validating" ELSE "disabled",
                                !.version = @ + 1]
  /\ UNCHANGED <<form, poller>>

\* test_connection: record_health with what the probe found
TestConnection(found) ==
  /\ account' = [account EXCEPT !.status = found]
  /\ UNCHANGED <<form, poller>>

AdminStep ==
  \/ ReadForm
  \/ \E inbound, outbound, listed, rotated \in BOOLEAN :
       UpdateAccount(inbound, outbound, listed, rotated)
  \/ \E enabled \in BOOLEAN : SetEnabled(enabled)
  \/ \E found \in {"healthy", "degraded", "auth_failed"} : TestConnection(found)

\* poll_due up to the await in poll_once
PollBegin ==
  /\ poller.pc = "idle"
  /\ Pollable
  /\ poller' = [pc |-> "awaiting", seen |-> account.status]
  /\ UNCHANGED <<account, form>>

\* the poll succeeded: record_health("healthy") unless the status read said so
PollOk ==
  /\ poller.pc = "awaiting"
  /\ account' = IF poller.seen # "healthy" THEN [account EXCEPT !.status = "healthy"]
                                          ELSE account
  /\ poller' = [pc |-> "idle", seen |-> "none"]
  /\ UNCHANGED form

\* it raised: record_health with the stable error's status
PollFailed(found) ==
  /\ poller.pc = "awaiting"
  /\ account' = [account EXCEPT !.status = found]
  /\ poller' = [pc |-> "idle", seen |-> "none"]
  /\ UNCHANGED form

PollStep == PollBegin \/ PollOk \/ \E found \in {"degraded", "auth_failed"} : PollFailed(found)

AccountNext == AdminStep \/ PollStep

AccountSpec == AccountInit /\ [][AccountNext]_accountVars

-----------------------------------------------------------------------------

=============================================================================
