---------------------------- MODULE EmailContract ----------------------------
(***************************************************************************)
(* What the outbox promises its users, without workers, leases, attempts   *)
(* or gates: a message is queued once, the mail server may take copies of  *)
(* it, "accepted" is only ever said of a message that was taken, "accepted"*)
(* and "unknown" are final, and only a message that was stopped (a dead    *)
(* letter or a stale row) can be opened again.                             *)
(***************************************************************************)
EXTENDS Naturals

CONSTANT Deliveries

VARIABLES outcome, copies

contractVars == <<outcome, copies>>

Outcomes == {"none", "open", "accepted", "unknown", "stopped"}

Init ==
  /\ outcome = [d \in Deliveries |-> "none"]
  /\ copies = [d \in Deliveries |-> 0]

Queue(d) ==
  /\ outcome[d] = "none"
  /\ outcome' = [outcome EXCEPT ![d] = "open"]
  /\ UNCHANGED copies

Take(d) ==
  /\ outcome[d] # "none"
  /\ copies' = [copies EXCEPT ![d] = @ + 1]
  /\ UNCHANGED outcome

Close(d, result) ==
  /\ outcome[d] = "open"
  /\ result = "accepted" => copies[d] > 0
  /\ outcome' = [outcome EXCEPT ![d] = result]
  /\ UNCHANGED copies

Reopen(d) ==
  /\ outcome[d] = "stopped"
  /\ outcome' = [outcome EXCEPT ![d] = "open"]
  /\ UNCHANGED copies

Next ==
  \E d \in Deliveries :
    \/ Queue(d) \/ Take(d) \/ Reopen(d)
    \/ \E result \in {"accepted", "unknown", "stopped"} : Close(d, result)

Spec == Init /\ [][Next]_contractVars
=============================================================================
