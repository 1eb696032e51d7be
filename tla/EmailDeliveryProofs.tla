------------------------- MODULE EmailDeliveryProofs -------------------------
(***************************************************************************)
(* The safety of the outbox for any number of rows, workers, attempts,     *)
(* faults and replays.                                                     *)
(***************************************************************************)
EXTENDS EmailDelivery, FiniteSetTheorems, TLAPS

\* A worker past its claim holds a row, and so does the web loop in a request.
HoldsARow ==
  /\ \A w \in Workers : worker[w].pc \in Busy => worker[w].d \in Deliveries
  /\ \A w \in Workers : worker[w].pc = "answered" => worker[w].answer \in Answers
  /\ \A w \in Workers : worker[w].pc = "failing" =>
       /\ Backend = "sqlite"
       /\ worker[w].status \in {"outcome_unknown", "dead_letter", "retry_wait"}
  /\ web.pc # "idle" => web.d \in Deliveries

TypeInv == TypeOK /\ HoldsARow

-----------------------------------------------------------------------------
(* What the updates of a row keep *)

LEMMA RowUpdates ==
  ASSUME NEW r \in Rows, NEW w \in Workers, NEW answer \in Answers
  PROVE  /\ Claimed(r, w) \in Rows
         /\ \A status \in Statuses : Closed(r, status) \in Rows
         /\ Answered(r, answer) \in Rows
         /\ Staled(r) \in Rows
         /\ Requeued(r) \in Rows
         /\ Replayed(r) \in Rows
         /\ Redacted(r) \in Rows
         /\ [r EXCEPT !.owner = Orphan] \in Rows
         /\ [r EXCEPT !.lease = "expired"] \in Rows
         /\ [r EXCEPT !.due = TRUE] \in Rows
<1> USE DEF Rows, Statuses, Open, Terminal
<1>1. \A status \in Statuses : Released(r, status) \in Rows
  BY DEF Released
<1>2. StatusAfter(r, answer) \in Statuses
  BY DEF StatusAfter, Answers
<1>3. Claimed(r, w) \in Rows
  <2>1. r.attempts + 1 \in Nat
    OBVIOUS
  <2> QED
    BY <2>1, Zenon DEF Claimed
<1>10. ASSUME NEW status \in Statuses PROVE Closed(r, status) \in Rows
  <2> DEFINE released == Released(r, status)
             due == status # "retry_wait"
  <2>1. released \in Rows
    BY <1>1
  <2>2. due \in BOOLEAN
    OBVIOUS
  <2> HIDE DEF released, due
  <2>3. [released EXCEPT !.due = due] \in Rows
    BY <2>1, <2>2
  <2> QED
    BY <2>3 DEF Closed, released, due
<1>4. Answered(r, answer) \in Rows
  BY <1>2, <1>10 DEF Answered
<1>5. Staled(r) \in Rows
  BY <1>1 DEF Staled
<1>6. Requeued(r) \in Rows
  BY DEF Requeued, Released
<1>7. Replayed(r) \in Rows
  BY DEF Replayed
<1>8. Redacted(r) \in Rows
  BY DEF Redacted
<1>9. /\ [r EXCEPT !.owner = Orphan] \in Rows
      /\ [r EXCEPT !.lease = "expired"] \in Rows
      /\ [r EXCEPT !.due = TRUE] \in Rows
  OBVIOUS
<1> HIDE DEF Rows
<1> QED
  BY <1>3, <1>4, <1>5, <1>6, <1>7, <1>8, <1>9, <1>10

LEMMA NewRow ==
  ASSUME NEW n \in Nat
  PROVE  /\ NoRow \in Rows
         /\ [NoRow EXCEPT !.status = "pending", !.created = n] \in Rows
BY DEF Rows, NoRow, Statuses, Open, Terminal

LEMMA WorkerUpdates ==
  /\ Down \in WorkerStates
  /\ Idle \in WorkerStates
  /\ \A d \in Deliveries : WorkerAt("claimed", d) \in WorkerStates
BY DEF Down, Idle, WorkerAt, WorkerStates, Busy, Statuses

\* what a worker learns on its way, field by field
LEMMA WorkerMoves ==
  ASSUME worker \in [Workers -> WorkerStates], NEW w \in Workers
  PROVE  /\ \A b \in BOOLEAN :
              [worker[w] EXCEPT !.pc = "validated", !.redacted = b] \in WorkerStates
         /\ \A a \in Answers :
              [worker[w] EXCEPT !.pc = "answered", !.answer = a] \in WorkerStates
         /\ \A s \in Statuses :
              [worker[w] EXCEPT !.pc = "failing", !.status = s] \in WorkerStates
<1>1. worker[w] \in WorkerStates
  OBVIOUS
<1>2. ASSUME NEW b \in BOOLEAN
      PROVE  [worker[w] EXCEPT !.pc = "validated", !.redacted = b] \in WorkerStates
  BY <1>1 DEF WorkerStates, Busy
<1>3. ASSUME NEW a \in Answers
      PROVE  [worker[w] EXCEPT !.pc = "answered", !.answer = a] \in WorkerStates
  BY <1>1 DEF WorkerStates, Busy
<1>4. ASSUME NEW s \in Statuses
      PROVE  [worker[w] EXCEPT !.pc = "failing", !.status = s] \in WorkerStates
  BY <1>1 DEF WorkerStates, Busy
<1> QED
  BY <1>2, <1>3, <1>4

LEMMA CountersGrow ==
  ASSUME NEW f \in [Deliveries -> Nat], NEW d \in Deliveries, NEW n \in Nat
  PROVE  [f EXCEPT ![d] = @ + n] \in [Deliveries -> Nat]
<1>1. f[d] \in Nat
  OBVIOUS
<1>2. f[d] + n \in Nat
  BY <1>1
<1> QED
  BY <1>2, Zenon

-----------------------------------------------------------------------------
(* Type correctness *)

LEMMA TypeInit == Init => TypeInv
<1> SUFFICES ASSUME Init PROVE TypeInv
  OBVIOUS
<1>1. TypeOK
  <2>1. row \in [Deliveries -> Rows]
    BY NewRow DEF Init
  <2>2. worker \in [Workers -> WorkerStates]
    BY WorkerUpdates DEF Init
  <2>3. web \in WebStates
    BY DEF Init, WebIdle, WebStates
  <2> QED
    BY <2>1, <2>2, <2>3, BoundsAreNaturals DEF Init, TypeOK
<1>2. HoldsARow
  BY DEF Init, HoldsARow, Down, WorkerAt, WebIdle, Busy
<1> QED
  BY <1>1, <1>2 DEF TypeInv

LEMMA TypeStep == TypeInv /\ [Next]_vars => TypeInv'
<1> SUFFICES ASSUME TypeInv, [Next]_vars PROVE TypeInv'
  OBVIOUS
<1> USE DEF TypeInv, TypeOK, HoldsARow, tableVars, ghostVars, Busy
<1>1. ASSUME NEW w \in Workers, Start(w) PROVE TypeInv'
  <2>1. row' \in [Deliveries -> Rows]
    BY <1>1, RowUpdates DEF Start, Answers
  <2>2. worker' \in [Workers -> WorkerStates]
    BY <1>1, WorkerUpdates DEF Start
  <2>3. recovered' \in [Deliveries -> Nat]
    BY <1>1 DEF Start
  <2>4. HoldsARow'
    BY <1>1 DEF Start, Idle, WorkerAt
  <2> QED
    BY <1>1, <2>1, <2>2, <2>3, <2>4 DEF Start
<1>2. ASSUME NEW w \in Workers, Claim(w) PROVE TypeInv'
  <2> PICK d \in Deliveries :
        /\ row' = [row EXCEPT ![d] = Claimed(row[d], w)]
        /\ worker' = [worker EXCEPT ![w] = WorkerAt("claimed", d)]
        /\ sawOpen' = [sawOpen EXCEPT ![w] = gate[d] = "open"]
    BY <1>2 DEF Claim
  <2>1. row' \in [Deliveries -> Rows]
    BY RowUpdates DEF Answers
  <2>2. worker' \in [Workers -> WorkerStates]
    BY WorkerUpdates
  <2>3. HoldsARow'
    BY <1>2 DEF Claim, WorkerAt
  <2> QED
    BY <1>2, <2>1, <2>2, <2>3 DEF Claim
<1>3. ASSUME NEW w \in Workers, Revalidate(w) PROVE TypeInv'
  <2>1. row[worker[w].d].redacted \in BOOLEAN
    BY <1>3 DEF Revalidate, Rows
  <2> DEFINE vetted == [worker[w] EXCEPT !.pc = "validated",
                                        !.redacted = row[worker[w].d].redacted]
  <2>2. vetted \in WorkerStates
    BY <2>1, WorkerMoves
  <2>4. worker' = [worker EXCEPT ![w] = vetted]
    BY <1>3 DEF Revalidate
  <2>3. HoldsARow'
    BY <1>3 DEF Revalidate, WorkerStates
  <2> HIDE DEF vetted
  <2> QED
    BY <1>3, <2>2, <2>3, <2>4 DEF Revalidate
<1>4. ASSUME NEW w \in Workers, Refuse(w) PROVE TypeInv'
  BY <1>4 DEF Refuse, WorkerStates
<1>5. ASSUME NEW w \in Workers, MarkStale(w) PROVE TypeInv'
  <2>1. row' \in [Deliveries -> Rows]
    BY <1>5, RowUpdates DEF MarkStale, Answers
  <2> QED
    BY <1>5, <2>1, WorkerUpdates DEF MarkStale, Idle, WorkerAt
<1>6. ASSUME NEW w \in Workers, NEW answer \in Answers, Submit(w, answer) PROVE TypeInv'
  <2> PICK took \in BOOLEAN :
        /\ taken' = [taken EXCEPT ![worker[w].d] = @ + IF took THEN 1 ELSE 0]
        /\ ambiguous' = [ambiguous EXCEPT ![worker[w].d] =
                           @ + IF took /\ answer # "accepted" THEN 1 ELSE 0]
    BY <1>6 DEF Submit, MayTake, Answers
  <2> DEFINE copies == IF took THEN 1 ELSE 0
             lost == IF took /\ answer # "accepted" THEN 1 ELSE 0
             told == [worker[w] EXCEPT !.pc = "answered", !.answer = answer]
  <2>1. taken' \in [Deliveries -> Nat] /\ ambiguous' \in [Deliveries -> Nat]
    <3>1. copies \in Nat /\ lost \in Nat
      OBVIOUS
    <3> HIDE DEF copies, lost
    <3>3. worker[w].d \in Deliveries
      BY <1>6 DEF Submit
    <3> QED
      BY <3>1, <3>3, CountersGrow DEF copies, lost
  <2>4. told \in WorkerStates
    BY WorkerMoves
  <2>5. worker' = [worker EXCEPT ![w] = told]
    BY <1>6 DEF Submit
  <2>2. worker' \in [Workers -> WorkerStates]
    <3> HIDE DEF told
    <3> QED
      BY <2>4, <2>5
  <2>3. HoldsARow'
    BY <1>6 DEF Submit, WorkerStates
  <2> QED
    BY <1>6, <2>1, <2>2, <2>3 DEF Submit
<1>7. ASSUME NEW w \in Workers, Record(w) PROVE TypeInv'
  <2>1. row' \in [Deliveries -> Rows]
    BY <1>7, RowUpdates DEF Record
  <2> QED
    BY <1>7, <2>1, WorkerUpdates DEF Record, Idle, WorkerAt
<1>22. ASSUME NEW w \in Workers, FailRead(w) PROVE TypeInv'
  <2> DEFINE status == StatusAfter(row[worker[w].d], worker[w].answer)
             failing == [worker[w] EXCEPT !.pc = "failing", !.status = status]
  <2>1. status \in {"outcome_unknown", "dead_letter", "retry_wait"}
    BY <1>22 DEF FailRead, StatusAfter, Answers
  <2>2. failing \in WorkerStates
    <3>1. status \in Statuses
      BY <2>1 DEF Statuses, Open, Terminal
    <3> HIDE DEF status
    <3> QED
      BY <3>1, WorkerMoves
  <2>3. worker' = [worker EXCEPT ![w] = failing]
    BY <1>22 DEF FailRead
  <2>4. failing.pc = "failing" /\ failing.d = worker[w].d /\ failing.status = status
    BY DEF WorkerStates
  <2> HIDE DEF failing, status
  <2>5. HoldsARow'
    BY <1>22, <2>1, <2>3, <2>4 DEF FailRead
  <2> QED
    BY <1>22, <2>2, <2>3, <2>5 DEF FailRead
<1>23. ASSUME NEW w \in Workers, FailWrite(w) PROVE TypeInv'
  <2>1. row' \in [Deliveries -> Rows]
    <3>1. ASSUME NEW r \in Rows, NEW status \in Statuses PROVE Closed(r, status) \in Rows
      BY <3>1, RowUpdates DEF Answers
    <3> QED
      BY <1>23, <3>1 DEF FailWrite, WorkerStates
  <2>2. ambiguous' \in [Deliveries -> Nat]
    BY <1>23 DEF FailWrite
  <2>3. HoldsARow'
    BY <1>23 DEF FailWrite, Idle, WorkerAt
  <2> QED
    BY <1>23, <2>1, <2>2, <2>3, WorkerUpdates DEF FailWrite
<1>8. ASSUME NEW w \in Workers, LoseAnswer(w) PROVE ambiguous' \in [Deliveries -> Nat]
  BY <1>8 DEF LoseAnswer, Unrecorded
<1>9. ASSUME NEW w \in Workers, LeaseLost(w) PROVE TypeInv'
  BY <1>8, <1>9, WorkerUpdates DEF LeaseLost, Idle, WorkerAt
<1>10. ASSUME NEW w \in Workers, StepFails(w) PROVE TypeInv'
  BY <1>8, <1>10, WorkerUpdates, BoundsAreNaturals DEF StepFails, Idle, WorkerAt
<1>11. ASSUME NEW w \in Workers, Crash(w) PROVE TypeInv'
  <2>1. row' \in [Deliveries -> Rows]
    BY <1>11, RowUpdates DEF Crash, Answers
  <2>2. worker' \in [Workers -> WorkerStates] /\ HoldsARow'
    BY <1>11, WorkerUpdates DEF Crash, Down, WorkerAt
  <2> QED
    BY <1>8, <1>11, <2>1, <2>2, BoundsAreNaturals DEF Crash
<1>12. ASSUME NEW d \in Deliveries, QueueCheck(d) PROVE TypeInv'
  BY <1>12 DEF QueueCheck, WebStates
<1>13. CASE QueueInsert
  <2>1. row' \in [Deliveries -> Rows] /\ stamp' \in Nat
    <3>1. [NoRow EXCEPT !.status = "pending", !.created = stamp] \in Rows
      BY NewRow
    <3>2. CASE row' = [row EXCEPT ![web.d] = [NoRow EXCEPT !.status = "pending",
                                                           !.created = stamp]]
      BY <3>1, <3>2, <1>13 DEF QueueInsert
    <3>3. CASE UNCHANGED tableVars
      BY <3>3
    <3> QED
      BY <1>13, <3>2, <3>3 DEF QueueInsert
  <2> QED
    BY <1>13, <2>1 DEF QueueInsert, WebStates, WebIdle
<1>14. ASSUME NEW d \in Deliveries, RetryRead(d) PROVE TypeInv'
  BY <1>14, BoundsAreNaturals DEF RetryRead, WebStates
<1>15. CASE RetryReplay
  <2>1. row' \in [Deliveries -> Rows]
    <3>1. ASSUME NEW r \in Rows PROVE Replayed(r) \in Rows
      BY <3>1 DEF Replayed, Rows, Statuses, Open
    <3> QED
      BY <1>15, <3>1 DEF RetryReplay
  <2>2. recovered' \in [Deliveries -> Nat]
    BY <1>15 DEF RetryReplay
  <2> QED
    BY <1>15, <2>1, <2>2 DEF RetryReplay, WebStates, WebIdle
<1>16. CASE RetryRefuse
  BY <1>16 DEF RetryRefuse, WebStates
<1>17. CASE RetryMarkStale
  <2>1. ASSUME NEW r \in Rows PROVE Staled(r) \in Rows
    BY <2>1 DEF Staled, Released, Rows, Statuses, Terminal
  <2>2. row' \in [Deliveries -> Rows]
    BY <1>17, <2>1 DEF RetryMarkStale
  <2> QED
    BY <1>17, <2>2 DEF RetryMarkStale, WebStates, WebIdle
<1>18. CASE WebFails
  BY <1>18, BoundsAreNaturals DEF WebFails, WebStates, WebIdle
<1>19. ASSUME NEW d \in Deliveries, Redact(d) \/ LeaseExpires(d) \/ BackoffElapses(d)
       PROVE  TypeInv'
  <2>1. ASSUME NEW r \in Rows
        PROVE  /\ Redacted(r) \in Rows
               /\ [r EXCEPT !.lease = "expired"] \in Rows
               /\ [r EXCEPT !.due = TRUE] \in Rows
    BY <2>1 DEF Redacted, Rows
  <2>2. \E r \in Rows : row' = [row EXCEPT ![d] = r]
    BY <1>19, <2>1 DEF Redact, LeaseExpires, BackoffElapses
  <2> QED
    BY <1>19, <2>2 DEF Redact, LeaseExpires, BackoffElapses
<1>20. CASE GateChanges
  BY <1>20 DEF GateChanges, GateMoved
<1>21. CASE UNCHANGED vars
  BY <1>21 DEF vars
<1> QED
  BY <1>1, <1>2, <1>3, <1>4, <1>5, <1>6, <1>7, <1>9, <1>10, <1>11, <1>12, <1>13,
     <1>14, <1>15, <1>16, <1>17, <1>18, <1>19, <1>20, <1>21, <1>22, <1>23
     DEF Next, DeliveryStep, WorkerStep, WebStep

\* Type correctness.
THEOREM TypeCorrect == Spec => []TypeOK
<1>1. TypeInv => TypeOK
  BY DEF TypeInv
<1> QED
  BY TypeInit, TypeStep, <1>1, PTL DEF Spec

-----------------------------------------------------------------------------
(* What a step may do to a row: nothing the properties see, or one of the    *)
(* seven updates, each under the condition its WHERE clause states.            *)

KeepsRow(d) ==
  /\ row'[d].status = row[d].status
  /\ row'[d].attempts = row[d].attempts
  /\ recovered'[d] = recovered[d]

Recovers(d) ==
  /\ Expired(row[d])
  /\ row'[d] = Requeued(row[d])
  /\ recovered'[d] = recovered[d] + 1

TakesRow(d) ==
  /\ Claimable(row[d])
  /\ \E w \in Workers : row'[d] = Claimed(row[d], w)
  /\ recovered'[d] = recovered[d]

StalesRow(d) ==
  /\ row'[d] = Staled(row[d])
  /\ recovered'[d] = recovered[d]

RecordsAnswer(d) ==
  /\ \E w \in Workers :
       /\ Holds(w, d)
       /\ worker[w].pc = "answered" /\ worker[w].d = d
       /\ row'[d] = Answered(row[d], worker[w].answer)
       /\ worker'[w] = Idle
  /\ recovered'[d] = recovered[d]

OverwritesRow(d) ==
  /\ Backend = "sqlite"
  /\ \E w \in Workers :
       /\ worker[w].pc = "failing" /\ worker[w].d = d
       /\ row'[d] = Closed(row[d], worker[w].status)
       /\ worker'[w] = Idle
  /\ recovered'[d] = recovered[d]

QueuesRow(d) ==
  /\ row[d].status = "absent"
  /\ row'[d].status = "pending" /\ row'[d].attempts = 0
  /\ recovered'[d] = recovered[d]

ReplaysRow(d) ==
  /\ row[d].status \in Replayable
  /\ row'[d] = Replayed(row[d])
  /\ recovered'[d] = 0

Moves(d) ==
  \/ KeepsRow(d) \/ Recovers(d) \/ TakesRow(d) \/ StalesRow(d)
  \/ RecordsAnswer(d) \/ OverwritesRow(d) \/ QueuesRow(d) \/ ReplaysRow(d)

LEMMA RowMoves ==
  ASSUME TypeInv, [Next]_vars, NEW d \in Deliveries
  PROVE  Moves(d)
<1> USE DEF TypeInv, TypeOK, HoldsARow, tableVars, ghostVars, Moves
<1>1. ASSUME NEW w \in Workers, Start(w) PROVE Moves(d)
  BY <1>1 DEF Start, Recovers, KeepsRow
<1>2. ASSUME NEW w \in Workers, Claim(w) PROVE Moves(d)
  <2> PICK e \in Deliveries :
        /\ Claimable(row[e])
        /\ row' = [row EXCEPT ![e] = Claimed(row[e], w)]
    BY <1>2 DEF Claim, IsOldestClaimable
  <2>1. CASE e = d
    BY <1>2, <2>1 DEF Claim, TakesRow
  <2>2. CASE e # d
    BY <1>2, <2>2 DEF Claim, KeepsRow
  <2> QED
    BY <2>1, <2>2
<1>3. ASSUME NEW w \in Workers, MarkStale(w) PROVE Moves(d)
  BY <1>3 DEF MarkStale, StalesRow, KeepsRow
<1>4. ASSUME NEW w \in Workers, Record(w) PROVE Moves(d)
  <2>1. CASE worker[w].d = d
    BY <1>4, <2>1 DEF Record, RecordsAnswer
  <2>2. CASE worker[w].d # d
    BY <1>4, <2>2 DEF Record, KeepsRow
  <2> QED
    BY <2>1, <2>2
<1>14. ASSUME NEW w \in Workers, FailWrite(w) PROVE Moves(d)
  <2>1. CASE worker[w].d = d
    BY <1>14, <2>1 DEF FailWrite, OverwritesRow
  <2>2. CASE worker[w].d # d
    BY <1>14, <2>2 DEF FailWrite, KeepsRow
  <2> QED
    BY <2>1, <2>2
<1>5. ASSUME NEW w \in Workers, Crash(w) PROVE Moves(d)
  <2>1. row[d] \in Rows
    OBVIOUS
  <2>2. row'[d].status = row[d].status /\ row'[d].attempts = row[d].attempts
    BY <1>5, <2>1 DEF Crash, Rows
  <2> QED
    BY <1>5, <2>2 DEF Crash, KeepsRow
<1>6. CASE QueueInsert
  <2>1. CASE web.d = d /\ UNCHANGED tableVars
    BY <1>6, <2>1 DEF QueueInsert, KeepsRow
  <2>2. CASE web.d = d /\ row[d].status = "absent"
             /\ row' = [row EXCEPT ![d] = [NoRow EXCEPT !.status = "pending",
                                                         !.created = stamp]]
    BY <1>6, <2>2 DEF QueueInsert, QueuesRow, NoRow
  <2>3. CASE web.d # d
    BY <1>6, <2>3 DEF QueueInsert, KeepsRow
  <2> QED
    BY <1>6, <2>1, <2>2, <2>3 DEF QueueInsert
<1>7. CASE RetryReplay
  <2>1. CASE web.d = d /\ row[d].status \in Replayable
    BY <1>7, <2>1 DEF RetryReplay, ReplaysRow
  <2>2. CASE web.d = d /\ row[d].status \notin Replayable
    BY <1>7, <2>2 DEF RetryReplay, Replayed, KeepsRow
  <2>3. CASE web.d # d
    BY <1>7, <2>3 DEF RetryReplay, KeepsRow
  <2> QED
    BY <2>1, <2>2, <2>3
<1>8. CASE RetryMarkStale
  BY <1>8 DEF RetryMarkStale, StalesRow, KeepsRow
<1>9. ASSUME NEW e \in Deliveries, Redact(e) \/ LeaseExpires(e) \/ BackoffElapses(e)
      PROVE  Moves(d)
  <2>1. row[d] \in Rows /\ row[e] \in Rows
    OBVIOUS
  <2>2. row'[d].status = row[d].status /\ row'[d].attempts = row[d].attempts
    <3>1. CASE Redact(e)
      BY <2>1, <3>1 DEF Redact, Redacted, Rows
    <3>2. CASE LeaseExpires(e)
      BY <2>1, <3>2 DEF LeaseExpires, Rows
    <3>3. CASE BackoffElapses(e)
      BY <2>1, <3>3 DEF BackoffElapses, Rows
    <3> QED
      BY <1>9, <3>1, <3>2, <3>3
  <2> QED
    BY <1>9, <2>2 DEF Redact, LeaseExpires, BackoffElapses, KeepsRow
<1>10. CASE UNCHANGED <<row, recovered>>
  BY <1>10 DEF KeepsRow
<1>11. ASSUME NEW w \in Workers,
              \/ Revalidate(w) \/ Refuse(w) \/ LeaseLost(w) \/ StepFails(w) \/ FailRead(w)
              \/ \E answer \in Answers : Submit(w, answer)
       PROVE  Moves(d)
  BY <1>10, <1>11 DEF Revalidate, Refuse, LeaseLost, StepFails, FailRead, Submit
<1>12. ASSUME NEW e \in Deliveries, QueueCheck(e) \/ RetryRead(e) PROVE Moves(d)
  BY <1>10, <1>12 DEF QueueCheck, RetryRead
<1>13. CASE RetryRefuse \/ WebFails \/ GateChanges \/ UNCHANGED vars
  BY <1>10, <1>13 DEF RetryRefuse, WebFails, GateChanges, GateMoved, vars
<1> QED
  BY <1>1, <1>2, <1>3, <1>4, <1>5, <1>6, <1>7, <1>8, <1>9, <1>11, <1>12, <1>13, <1>14
     DEF Next, DeliveryStep, WorkerStep, WebStep

-----------------------------------------------------------------------------
(* Attempts *)

\* A row that can be claimed has an attempt left in its budget.
AttemptLeft ==
  \A d \in Deliveries : row[d].status \in {"pending", "retry_wait"}
                          => row[d].attempts < MaxAttempts + recovered[d]

BudgetInv == TypeInv /\ AttemptsWithinBudget /\ AttemptLeft

LEMMA BudgetInit == Init => BudgetInv
<1> SUFFICES ASSUME Init PROVE AttemptsWithinBudget /\ AttemptLeft
  BY TypeInit DEF BudgetInv
<1> QED
  BY BoundsAreNaturals DEF Init, NoRow, AttemptsWithinBudget, AttemptLeft

LEMMA BudgetStep ==
  ASSUME Backend = "mysql"
  PROVE  BudgetInv /\ [Next]_vars => BudgetInv'
<1> SUFFICES ASSUME BudgetInv, [Next]_vars, NEW d \in Deliveries
             PROVE  /\ row'[d].attempts <= MaxAttempts + recovered'[d]
                    /\ row'[d].status \in {"pending", "retry_wait"}
                         => row'[d].attempts < MaxAttempts + recovered'[d]
  BY TypeStep DEF BudgetInv, AttemptsWithinBudget, AttemptLeft
<1> DEFINE r == row[d]
<1>1. Moves(d)
  BY RowMoves DEF BudgetInv
<1>2. /\ r \in Rows /\ r.attempts \in Nat /\ recovered[d] \in Nat
      /\ MaxAttempts \in Nat /\ MaxAttempts > 0
  BY BoundsAreNaturals DEF BudgetInv, TypeInv, TypeOK, Rows
<1>3. r.attempts <= MaxAttempts + recovered[d]
  BY DEF BudgetInv, AttemptsWithinBudget
<1>4. r.status \in {"pending", "retry_wait"} => r.attempts < MaxAttempts + recovered[d]
  BY DEF BudgetInv, AttemptLeft
<1>5. CASE KeepsRow(d)
  BY <1>3, <1>4, <1>5 DEF KeepsRow
<1>6. CASE Recovers(d)
  <2>1. row'[d].attempts = r.attempts
    BY <1>2, <1>6 DEF Recovers, Requeued, Released, Rows
  <2> QED
    BY <1>2, <1>3, <1>6, <2>1 DEF Recovers
<1>7. CASE TakesRow(d)
  <2>1. row'[d].attempts = r.attempts + 1 /\ row'[d].status = "sending"
    BY <1>2, <1>7 DEF TakesRow, Claimed, Rows
  <2>2. r.attempts < MaxAttempts + recovered[d]
    BY <1>4, <1>7 DEF TakesRow, Claimable
  <2> QED
    BY <1>2, <1>7, <2>1, <2>2 DEF TakesRow
<1>8. CASE StalesRow(d)
  <2>1. row'[d].attempts = r.attempts
    BY <1>2, <1>8 DEF StalesRow, Staled, Released, Rows
  <2>2. row'[d].status \notin {"pending", "retry_wait"}
    BY <1>2, <1>8 DEF StalesRow, Staled, Released, Rows
  <2> QED
    BY <1>3, <1>8, <2>1, <2>2 DEF StalesRow
<1>9. CASE RecordsAnswer(d)
  <2> PICK w \in Workers : row'[d] = Answered(r, worker[w].answer)
                            /\ worker[w].pc = "answered"
    BY <1>9 DEF RecordsAnswer
  <2>1. worker[w].answer \in Answers
    BY DEF BudgetInv, TypeInv, HoldsARow
  <2>2. /\ row'[d].attempts = r.attempts
        /\ row'[d].status = StatusAfter(r, worker[w].answer)
    BY <1>2, <2>1 DEF Answered, Closed, Released, Rows
  <2>3. row'[d].status \in {"pending", "retry_wait"} => r.attempts < MaxAttempts
    BY <1>2, <2>1, <2>2 DEF StatusAfter, Answers
  <2> QED
    BY <1>2, <1>3, <1>9, <2>2, <2>3 DEF RecordsAnswer
<1>10. CASE QueuesRow(d)
  BY <1>2, <1>10 DEF QueuesRow
<1>11. CASE ReplaysRow(d)
  <2>1. row'[d].attempts = 0
    BY <1>2, <1>11 DEF ReplaysRow, Replayed, Rows
  <2> QED
    BY <1>2, <1>11, <2>1 DEF ReplaysRow
<1> QED
  BY <1>1, <1>5, <1>6, <1>7, <1>8, <1>9, <1>10, <1>11 DEF Moves, OverwritesRow

\* Where fail_delivery locks its row: however often leases are lost and
\* recovered, the attempts of a row stay within max_attempts plus one for each
\* recovery.
THEOREM AttemptsBounded ==
  ASSUME Backend = "mysql"
  PROVE  Spec => []AttemptsWithinBudget
<1>1. BudgetInv => AttemptsWithinBudget
  BY DEF BudgetInv
<1>2. BudgetInv /\ [Next]_vars => BudgetInv'
  BY BudgetStep
<1> QED
  BY BudgetInit, <1>1, <1>2, PTL DEF Spec

-----------------------------------------------------------------------------
(* Outcomes *)

\* Where fail_delivery locks its row: accepted and outcome_unknown are final,
\* whoever acts on the row and when.
THEOREM FinalOutcomes ==
  ASSUME Backend = "mysql"
  PROVE  Spec => FinalOutcomesKept
<1>1. ASSUME TypeInv, [Next]_vars
      PROVE  \A d \in Deliveries : row[d].status \in {"accepted", "outcome_unknown"}
                                      => row'[d].status = row[d].status
  <2> SUFFICES ASSUME NEW d \in Deliveries,
                      row[d].status \in {"accepted", "outcome_unknown"}
               PROVE  row'[d].status = row[d].status
    OBVIOUS
  <2>1. Moves(d)
    BY <1>1, RowMoves
  <2>2. KeepsRow(d) \/ StalesRow(d)
    BY <2>1 DEF Moves, Recovers, Expired, TakesRow, Claimable, RecordsAnswer, Holds,
                OverwritesRow, QueuesRow, ReplaysRow, Replayable
  <2> QED
    BY <2>2 DEF KeepsRow, StalesRow, Staled
<1> QED
  BY <1>1, TypeInit, TypeStep, PTL DEF Spec, FinalOutcomesKept

\* Where fail_delivery locks its row: a claim whose lease is live ends only by
\* its holder's answer or as stale.
THEOREM LiveClaims ==
  ASSUME Backend = "mysql"
  PROVE  Spec => LiveClaimKept
<1> DEFINE Kept == \A d \in Deliveries :
             row[d].status = "sending" /\ row[d].lease = "live" /\ row'[d].status # "sending"
               => row'[d].status = "stale" \/ AnswerOfHolder(d)
<1>1. ASSUME TypeInv, [Next]_vars PROVE Kept
  <2> SUFFICES ASSUME NEW d \in Deliveries, row[d].status = "sending",
                      row[d].lease = "live", row'[d].status # "sending"
               PROVE  row'[d].status = "stale" \/ AnswerOfHolder(d)
    OBVIOUS
  <2>1. Moves(d)
    BY <1>1, RowMoves
  <2>2. StalesRow(d) \/ RecordsAnswer(d)
    BY <2>1 DEF Moves, KeepsRow, Recovers, Expired, TakesRow, Claimable,
                OverwritesRow, QueuesRow, ReplaysRow, Replayable
  <2>3. row[d] \in Rows
    BY <1>1 DEF TypeInv, TypeOK
  <2>4. CASE StalesRow(d)
    BY <2>3, <2>4 DEF StalesRow, Staled, Released, Rows
  <2>5. CASE RecordsAnswer(d)
    BY <2>5 DEF RecordsAnswer, Holds, AnswerOfHolder
  <2> QED
    BY <2>2, <2>4, <2>5
<1> QED
  BY <1>1, TypeInit, TypeStep, PTL DEF Spec, LiveClaimKept

-----------------------------------------------------------------------------
(* What is submitted was vetted *)

\* If the gate of a claimed row is open, it has been seen open since the claim.
ClaimSawOpen ==
  \A w \in Workers : worker[w].pc = "claimed" /\ gate[worker[w].d] = "open" => sawOpen[w]

VettedInv == TypeInv /\ SubmissionIsVetted /\ ClaimSawOpen

LEMMA VettedInit == Init => VettedInv
BY TypeInit DEF Init, VettedInv, SubmissionIsVetted, ClaimSawOpen, Down, WorkerAt

LEMMA VettedStep == VettedInv /\ [Next]_vars => VettedInv'
<1> SUFFICES ASSUME VettedInv, [Next]_vars
             PROVE  (SubmissionIsVetted /\ ClaimSawOpen)'
  BY TypeStep DEF VettedInv
<1> USE DEF VettedInv, SubmissionIsVetted, ClaimSawOpen
<1> DEFINE Goal == (SubmissionIsVetted /\ ClaimSawOpen)'
<1>1. worker \in [Workers -> WorkerStates] /\ sawOpen \in [Workers -> BOOLEAN]
  BY DEF TypeInv, TypeOK
<1>2. CASE UNCHANGED <<worker, gate, sawOpen>>
  BY <1>2
<1>3. ASSUME NEW w \in Workers, NEW x, x.pc \notin {"claimed", "validated"},
             worker' = [worker EXCEPT ![w] = x], UNCHANGED <<gate, sawOpen>>
      PROVE  Goal
  BY <1>1, <1>3
<1>4. ASSUME NEW w \in Workers, \/ Start(w) \/ MarkStale(w) \/ Record(w) \/ FailWrite(w)
                               \/ LeaseLost(w) \/ StepFails(w) \/ Crash(w)
      PROVE  Goal
  <2>1. /\ worker' = [worker EXCEPT ![w] = Idle] \/ worker' = [worker EXCEPT ![w] = Down]
        /\ UNCHANGED <<gate, sawOpen>>
    BY <1>4 DEF Start, MarkStale, Record, FailWrite, LeaseLost, StepFails, Crash,
                tableVars, ghostVars
  <2>2. Idle.pc \notin {"claimed", "validated"} /\ Down.pc \notin {"claimed", "validated"}
    BY DEF Idle, Down, WorkerAt
  <2> QED
    BY <1>3, <2>1, <2>2
<1>5. ASSUME NEW w \in Workers, Claim(w) PROVE Goal
  <2> PICK d \in Deliveries :
        /\ worker' = [worker EXCEPT ![w] = WorkerAt("claimed", d)]
        /\ sawOpen' = [sawOpen EXCEPT ![w] = gate[d] = "open"]
    BY <1>5 DEF Claim
  <2>1. UNCHANGED gate
    BY <1>5 DEF Claim
  <2> QED
    BY <1>1, <2>1 DEF WorkerAt
<1>6. ASSUME NEW w \in Workers, Revalidate(w) PROVE Goal
  <2>1. worker[w].pc = "claimed" /\ gate[worker[w].d] = "open" /\ ~row[worker[w].d].redacted
    BY <1>6 DEF Revalidate, MayProceed
  <2>2. sawOpen[w]
    BY <2>1
  <2>3. worker'[w].pc = "validated" /\ ~worker'[w].redacted
    BY <1>1, <1>6, <2>1 DEF Revalidate, WorkerStates
  <2>4. \A v \in Workers \ {w} : worker'[v] = worker[v]
    BY <1>1, <1>6 DEF Revalidate
  <2>5. UNCHANGED <<gate, sawOpen>>
    BY <1>6 DEF Revalidate, ghostVars
  <2> QED
    BY <2>2, <2>3, <2>4, <2>5
<1>7. ASSUME NEW w \in Workers,
             Refuse(w) \/ FailRead(w) \/ \E answer \in Answers : Submit(w, answer)
      PROVE  Goal
  <2>1. worker'[w].pc \in {"refused", "answered", "failing"}
    BY <1>1, <1>7 DEF Refuse, FailRead, Submit, WorkerStates
  <2>2. \A v \in Workers \ {w} : worker'[v] = worker[v]
    BY <1>1, <1>7 DEF Refuse, FailRead, Submit
  <2>3. UNCHANGED <<gate, sawOpen>>
    BY <1>7 DEF Refuse, FailRead, Submit, ghostVars
  <2> QED
    BY <2>1, <2>2, <2>3
<1>8. CASE GateChanges
  <2>1. \A w \in Workers : sawOpen'[w] = (sawOpen[w] \/ (worker[w].d \in Deliveries
                                                       /\ gate'[worker[w].d] = "open"))
    BY <1>8 DEF GateChanges, GateMoved
  <2>2. UNCHANGED worker
    BY <1>8 DEF GateChanges, GateMoved
  <2>3. \A w \in Workers : worker[w].pc = "claimed" => worker[w].d \in Deliveries
    BY DEF TypeInv, HoldsARow, Busy
  <2> QED
    BY <2>1, <2>2, <2>3
<1>9. ASSUME NEW d \in Deliveries,
             \/ QueueCheck(d) \/ RetryRead(d) \/ Redact(d)
             \/ LeaseExpires(d) \/ BackoffElapses(d)
      PROVE  Goal
  BY <1>2, <1>9 DEF QueueCheck, RetryRead, Redact, LeaseExpires, BackoffElapses, ghostVars
<1>10. CASE WebStep \/ WebFails \/ UNCHANGED vars
  BY <1>2, <1>10 DEF WebStep, QueueInsert, RetryReplay, RetryRefuse, RetryMarkStale,
                     WebFails, ghostVars, vars
<1> QED
  BY <1>4, <1>5, <1>6, <1>7, <1>8, <1>9, <1>10 DEF Next, DeliveryStep, WorkerStep

\* What a worker is about to submit was vetted since its claim and is not
\* the redacted text.
THEOREM SubmissionsVetted == Spec => []SubmissionIsVetted
<1>1. VettedInv => SubmissionIsVetted
  BY DEF VettedInv
<1> QED
  BY VettedInit, VettedStep, <1>1, PTL DEF Spec

-----------------------------------------------------------------------------
(* Every message the server took is accounted for *)

\* Workers told "accepted" for d that have not written it yet.
Told(d) == {w \in Workers : /\ worker[w].pc = "answered"
                            /\ worker[w].answer = "accepted"
                            /\ worker[w].d = d}

Recorded(d) == IF row[d].status = "accepted" THEN 1 ELSE 0

\* Its answer was lost, or is in a worker's hands, or in the table.
Balanced(d) == taken[d] = ambiguous[d] + Cardinality(Told(d)) + Recorded(d)

BalanceInv == TypeInv /\ \A d \in Deliveries : Balanced(d)

LEMMA ToldIsFinite ==
  \A d : IsFiniteSet(Told(d)) /\ Cardinality(Told(d)) \in Nat
<1> TAKE d
<1>1. Told(d) \subseteq Workers
  BY DEF Told
<1>2. IsFiniteSet(Told(d))
  BY <1>1, WorkersAreFinite, FS_Subset
<1> QED
  BY <1>2, FS_CardinalityType

\* When one worker leaves "answered", the others' answers stay.
LEMMA OneLessTold ==
  ASSUME TypeInv, NEW w \in Workers, NEW x, x.pc # "answered",
         worker' = [worker EXCEPT ![w] = x], NEW d
  PROVE  Cardinality(Told(d)') =
           Cardinality(Told(d)) - IF w \in Told(d) THEN 1 ELSE 0
<1>1. Told(d)' = Told(d) \ {w}
  BY DEF Told, TypeInv, TypeOK
<1>2. IsFiniteSet(Told(d)) /\ Cardinality(Told(d)) \in Nat
  BY ToldIsFinite
<1>3. Cardinality(Told(d) \ {w}) =
        IF w \in Told(d) THEN Cardinality(Told(d)) - 1 ELSE Cardinality(Told(d))
  BY <1>2, FS_RemoveElement
<1> QED
  BY <1>1, <1>2, <1>3

\* The table turns to accepted, or from it, only where an answer is written.
LEMMA RecordedKept ==
  ASSUME TypeInv, [Next]_vars, NEW d \in Deliveries, ~RecordsAnswer(d), ~OverwritesRow(d)
  PROVE  Recorded(d)' = Recorded(d)
<1>1. Moves(d) /\ row[d] \in Rows
  BY RowMoves DEF TypeInv, TypeOK
<1>2. row[d].status = "accepted" => row'[d].status = "accepted"
  BY <1>1 DEF Moves, KeepsRow, Recovers, Expired, TakesRow, Claimable, StalesRow, Staled,
              QueuesRow, ReplaysRow, Replayable
<1>3. row'[d].status = "accepted" => row[d].status = "accepted"
  BY <1>1 DEF Moves, KeepsRow, Recovers, Requeued, TakesRow, Claimed, StalesRow, Staled,
              Released, QueuesRow, ReplaysRow, Replayed, Rows
<1> QED
  BY <1>2, <1>3 DEF Recorded

LEMMA BalanceInit == Init => BalanceInv
<1> SUFFICES ASSUME Init, NEW d \in Deliveries PROVE Balanced(d)
  BY TypeInit DEF BalanceInv
<1>1. Told(d) = {}
  BY DEF Init, Told, Down, WorkerAt
<1>2. Cardinality(Told(d)) = 0
  BY <1>1, FS_EmptySet
<1> QED
  BY <1>2 DEF Init, Balanced, Recorded, NoRow

LEMMA BalanceStep == BalanceInv /\ [Next]_vars => BalanceInv'
<1> SUFFICES ASSUME BalanceInv, [Next]_vars, NEW d \in Deliveries
             PROVE  Balanced(d)'
  BY TypeStep DEF BalanceInv
<1>1. /\ TypeInv /\ Balanced(d)
      /\ worker \in [Workers -> WorkerStates]
      /\ taken[d] \in Nat /\ ambiguous[d] \in Nat
      /\ Recorded(d) \in Nat /\ Cardinality(Told(d)) \in Nat
  BY ToldIsFinite DEF BalanceInv, TypeInv, TypeOK, Recorded
\* the workers stay where they are
<1>2. CASE UNCHANGED <<worker, taken, ambiguous>>
  <2>1. ~RecordsAnswer(d) /\ ~OverwritesRow(d)
    BY <1>2 DEF RecordsAnswer, OverwritesRow, Idle, WorkerAt
  <2>2. Recorded(d)' = Recorded(d)
    BY <1>1, <2>1, RecordedKept
  <2> QED
    BY <1>1, <1>2, <2>2 DEF Balanced, Told
\* a worker moves, with no answer before or after
<1>3. ASSUME NEW w \in Workers, NEW x, worker' = [worker EXCEPT ![w] = x],
             worker[w].pc \notin {"answered", "failing"}, x.pc # "answered",
             UNCHANGED <<taken, ambiguous>>
      PROVE  Balanced(d)'
  <2>1. ~RecordsAnswer(d) /\ ~OverwritesRow(d)
    BY <1>1, <1>3 DEF RecordsAnswer, OverwritesRow, Idle, WorkerAt
  <2>2. Recorded(d)' = Recorded(d)
    BY <1>1, <2>1, RecordedKept
  <2>3. w \notin Told(d)
    BY <1>3 DEF Told
  <2>4. Cardinality(Told(d)') = Cardinality(Told(d)) - IF w \in Told(d) THEN 1 ELSE 0
    BY <1>1, <1>3, OneLessTold
  <2> QED
    BY <1>1, <1>3, <2>2, <2>3, <2>4 DEF Balanced
<1>4. ASSUME NEW w \in Workers, Start(w) \/ MarkStale(w) PROVE Balanced(d)'
  BY <1>3, <1>4 DEF Start, MarkStale, ghostVars, Idle, WorkerAt
<1>5. ASSUME NEW w \in Workers, Claim(w) PROVE Balanced(d)'
  <2> PICK e \in Deliveries : worker' = [worker EXCEPT ![w] = WorkerAt("claimed", e)]
    BY <1>5 DEF Claim
  <2>1. /\ worker[w].pc = "idle" /\ WorkerAt("claimed", e).pc # "answered"
        /\ UNCHANGED <<taken, ambiguous>>
    BY <1>5 DEF Claim, WorkerAt
  <2> QED
    BY <1>3, <2>1
<1>6. ASSUME NEW w \in Workers, Revalidate(w) \/ Refuse(w) PROVE Balanced(d)'
  <2>1. PICK pc \in {"validated", "refused"}, redacted \in BOOLEAN :
          worker' = [worker EXCEPT ![w] = [worker[w] EXCEPT !.pc = pc, !.redacted = redacted]]
    <3>1. CASE Revalidate(w)
      <4>1. row[worker[w].d].redacted \in BOOLEAN
        BY <1>1, <3>1 DEF Revalidate, TypeInv, TypeOK, HoldsARow, Busy, Rows
      <4> QED
        BY <3>1, <4>1 DEF Revalidate
    <3>2. CASE Refuse(w)
      <4>1. worker[w].redacted \in BOOLEAN
        BY <1>1 DEF WorkerStates
      <4>2. worker' = [worker EXCEPT ![w] = [worker[w] EXCEPT !.pc = "refused",
                                                              !.redacted = worker[w].redacted]]
        BY <1>1, <3>2 DEF Refuse, WorkerStates
      <4> QED
        BY <4>1, <4>2
    <3> QED
      BY <1>6, <3>1, <3>2
  <2> DEFINE x == [worker[w] EXCEPT !.pc = pc, !.redacted = redacted]
  <2>2. x.pc # "answered" /\ worker[w].pc = "claimed" /\ UNCHANGED <<taken, ambiguous>>
    BY <1>1, <1>6 DEF WorkerStates, Revalidate, Refuse, ghostVars
  <2> HIDE DEF x
  <2> QED
    BY <1>3, <2>1, <2>2 DEF x
\* the server takes the message, or not
<1>7. ASSUME NEW w \in Workers, NEW answer \in Answers, Submit(w, answer)
      PROVE  Balanced(d)'
  <2> PICK took \in MayTake(answer) :
        /\ taken' = [taken EXCEPT ![worker[w].d] = @ + IF took THEN 1 ELSE 0]
        /\ ambiguous' = [ambiguous EXCEPT ![worker[w].d] =
                           @ + IF took /\ answer # "accepted" THEN 1 ELSE 0]
    BY <1>7 DEF Submit
  <2>1. Recorded(d)' = Recorded(d)
    BY <1>7 DEF Submit, tableVars, Recorded
  <2>2. w \notin Told(d)
    BY <1>7 DEF Submit, Told
  <2>3. /\ worker'[w].pc = "answered" /\ worker'[w].answer = answer
        /\ worker'[w].d = worker[w].d
        /\ \A v \in Workers \ {w} : worker'[v] = worker[v]
    BY <1>1, <1>7 DEF Submit, WorkerStates
  <2>4. CASE worker[w].d = d /\ answer = "accepted"
    <3>1. Told(d)' = Told(d) \cup {w}
      BY <2>3, <2>4 DEF Told
    <3>2. Cardinality(Told(d)') = Cardinality(Told(d)) + 1
      BY <2>2, <3>1, ToldIsFinite, FS_AddElement
    <3>3. took = TRUE
      BY <2>4 DEF MayTake
    <3>4. taken'[d] = taken[d] + 1 /\ ambiguous'[d] = ambiguous[d]
      BY <1>1, <2>4, <3>3 DEF TypeInv, TypeOK
    <3> QED
      BY <1>1, <2>1, <3>2, <3>4 DEF Balanced
  <2>5. CASE worker[w].d # d \/ answer # "accepted"
    <3>1. Told(d)' = Told(d)
      BY <2>2, <2>3, <2>5 DEF Told
    <3>2. taken'[d] - taken[d] = ambiguous'[d] - ambiguous[d]
          /\ taken'[d] \in Nat /\ ambiguous'[d] \in Nat
      <4>1. CASE worker[w].d # d
        BY <1>1, <4>1 DEF TypeInv, TypeOK
      <4>2. CASE worker[w].d = d /\ answer # "accepted" /\ took
        BY <1>1, <4>2 DEF TypeInv, TypeOK
      <4>3. CASE worker[w].d = d /\ answer # "accepted" /\ ~took
        BY <1>1, <4>3 DEF TypeInv, TypeOK
      <4> QED
        BY <2>5, <4>1, <4>2, <4>3
    <3> QED
      BY <1>1, <2>1, <3>1, <3>2 DEF Balanced
  <2> QED
    BY <2>4, <2>5
\* the answer reaches the table
<1>8. ASSUME NEW w \in Workers, Record(w) PROVE Balanced(d)'
  <2>1. Cardinality(Told(d)') = Cardinality(Told(d)) - IF w \in Told(d) THEN 1 ELSE 0
    BY <1>1, <1>8, OneLessTold DEF Record, Idle, WorkerAt
  <2>2. UNCHANGED <<taken, ambiguous>>
    BY <1>8 DEF Record, ghostVars
  <2>3. Recorded(d)' = Recorded(d) + IF w \in Told(d) THEN 1 ELSE 0
    <3>1. CASE worker[w].d = d
      <4>1. row[d].status = "sending" /\ row[d] \in Rows /\ worker[w].answer \in Answers
        BY <1>1, <1>8, <3>1 DEF Record, Holds, TypeInv, TypeOK, HoldsARow
      <4>2. row'[d] = Answered(row[d], worker[w].answer)
        BY <1>1, <1>8, <3>1 DEF Record, TypeInv, TypeOK
      <4>3. row'[d].status = StatusAfter(row[d], worker[w].answer)
        BY <4>1, <4>2 DEF Answered, Closed, Released, Rows
      <4>4. row'[d].status = "accepted" <=> worker[w].answer = "accepted"
        BY <4>1, <4>3 DEF StatusAfter, Answers
      <4>5. w \in Told(d) <=> worker[w].answer = "accepted"
        BY <1>8, <3>1 DEF Told, Record
      <4> QED
        BY <4>1, <4>4, <4>5 DEF Recorded
    <3>2. CASE worker[w].d # d
      BY <1>8, <3>2 DEF Record, Recorded, Told
    <3> QED
      BY <3>1, <3>2
  <2> QED
    BY <1>1, <2>1, <2>2, <2>3 DEF Balanced
\* fail_delivery on SQLite reads its row, ...
<1>14. ASSUME NEW w \in Workers, FailRead(w) PROVE Balanced(d)'
  <2> DEFINE x == [worker[w] EXCEPT !.pc = "failing",
                     !.status = StatusAfter(row[worker[w].d], worker[w].answer)]
  <2>1. worker' = [worker EXCEPT ![w] = x] /\ x.pc # "answered"
    BY <1>1, <1>14 DEF FailRead, WorkerStates
  <2>2. w \notin Told(d) /\ UNCHANGED <<taken, ambiguous, row>>
    BY <1>14 DEF FailRead, Told, tableVars, ghostVars
  <2> HIDE DEF x
  <2>3. Cardinality(Told(d)') = Cardinality(Told(d)) - IF w \in Told(d) THEN 1 ELSE 0
    BY <1>1, <2>1, OneLessTold
  <2> QED
    BY <1>1, <2>2, <2>3 DEF Balanced, Recorded
\* ... and writes it, over an acceptance if one was recorded meanwhile
<1>15. ASSUME NEW w \in Workers, FailWrite(w) PROVE Balanced(d)'
  <2>1. w \notin Told(d) /\ UNCHANGED taken
    BY <1>15 DEF FailWrite, Told
  <2>2. Cardinality(Told(d)') = Cardinality(Told(d)) - IF w \in Told(d) THEN 1 ELSE 0
    BY <1>1, <1>15, OneLessTold DEF FailWrite, Idle, WorkerAt
  <2>3. CASE worker[w].d = d
    <3>1. row'[d] = Closed(row[d], worker[w].status) /\ row[d] \in Rows
      BY <1>1, <1>15, <2>3 DEF FailWrite, TypeInv, TypeOK
    <3>2. row'[d].status = worker[w].status
      BY <3>1 DEF Closed, Released, Rows
    <3>3. worker[w].status # "accepted"
      BY <1>1, <1>15 DEF FailWrite, TypeInv, HoldsARow
    <3>4. ambiguous'[d] = ambiguous[d] + Recorded(d)
      BY <1>1, <1>15, <2>3 DEF FailWrite, Recorded, TypeInv, TypeOK
    <3>5. Recorded(d)' = 0
      BY <3>2, <3>3 DEF Recorded
    <3> QED
      BY <1>1, <2>1, <2>2, <3>4, <3>5 DEF Balanced
  <2>4. CASE worker[w].d # d
    <3>1. row'[d] = row[d] /\ ambiguous'[d] = ambiguous[d]
      BY <1>1, <1>15, <2>4 DEF FailWrite, TypeInv, TypeOK
    <3> QED
      BY <1>1, <2>1, <2>2, <3>1 DEF Balanced, Recorded
  <2> QED
    BY <2>3, <2>4
\* the answer is lost
<1>9. ASSUME NEW w \in Workers, NEW x, x.pc # "answered", LoseAnswer(w), UNCHANGED taken,
             worker' = [worker EXCEPT ![w] = x], Recorded(d)' = Recorded(d)
      PROVE  Balanced(d)'
  <2>1. Cardinality(Told(d)') = Cardinality(Told(d)) - IF w \in Told(d) THEN 1 ELSE 0
    BY <1>1, <1>9, OneLessTold
  <2>2. ambiguous'[d] = ambiguous[d] + IF w \in Told(d) THEN 1 ELSE 0
    BY <1>1, <1>9 DEF LoseAnswer, Unrecorded, Told, TypeInv, TypeOK, HoldsARow, Busy
  <2> QED
    BY <1>1, <1>9, <2>1, <2>2 DEF Balanced
<1>10. ASSUME NEW w \in Workers, LeaseLost(w) \/ StepFails(w) PROVE Balanced(d)'
  BY <1>9, <1>10 DEF LeaseLost, StepFails, tableVars, Recorded, Idle, WorkerAt
<1>11. ASSUME NEW w \in Workers, Crash(w) PROVE Balanced(d)'
  <2>1. row'[d].status = row[d].status
    BY <1>1, <1>11 DEF Crash, TypeInv, TypeOK, Rows
  <2> QED
    BY <1>9, <1>11, <2>1 DEF Crash, Recorded, Down, WorkerAt
<1>12. ASSUME NEW e \in Deliveries, \/ QueueCheck(e) \/ RetryRead(e) \/ Redact(e)
                                    \/ LeaseExpires(e) \/ BackoffElapses(e)
       PROVE  Balanced(d)'
  BY <1>2, <1>12 DEF QueueCheck, RetryRead, Redact, LeaseExpires, BackoffElapses, ghostVars
<1>13. CASE WebStep \/ WebFails \/ GateChanges \/ UNCHANGED vars
  BY <1>2, <1>13 DEF WebStep, QueueInsert, RetryReplay, RetryRefuse, RetryMarkStale,
                     WebFails, GateChanges, GateMoved, ghostVars, vars
<1> QED
  BY <1>4, <1>5, <1>6, <1>7, <1>8, <1>10, <1>11, <1>12, <1>13, <1>14, <1>15
     DEF Next, DeliveryStep, WorkerStep

\* A row says accepted only if the server has taken a message of it.
THEOREM AcceptedIsTrue == Spec => []AcceptedWasTaken
<1>1. BalanceInv => AcceptedWasTaken
  <2> SUFFICES ASSUME BalanceInv, NEW d \in Deliveries, row[d].status = "accepted"
               PROVE  taken[d] > 0
    BY DEF AcceptedWasTaken
  <2>1. /\ taken[d] = ambiguous[d] + Cardinality(Told(d)) + 1
        /\ ambiguous[d] \in Nat /\ Cardinality(Told(d)) \in Nat
    BY ToldIsFinite DEF BalanceInv, Balanced, Recorded, TypeInv, TypeOK
  <2> QED
    BY <2>1
<1> QED
  BY BalanceInit, BalanceStep, <1>1, PTL DEF Spec

\* More than one copy reaches the server only where answers were lost: of the
\* workers told "accepted", all but the row's owner have lost the row.
THEOREM CopiesAccountedFor == Spec => []CopiesNeedLostAnswers
<1>1. BalanceInv => CopiesNeedLostAnswers
  <2> SUFFICES ASSUME BalanceInv, NEW d \in Deliveries
               PROVE  taken[d] <= 1 + ambiguous[d] + Cardinality(Overtaken(d))
    BY DEF CopiesNeedLostAnswers
  <2>1. /\ taken[d] = ambiguous[d] + Cardinality(Told(d)) + Recorded(d)
        /\ ambiguous[d] \in Nat /\ Cardinality(Told(d)) \in Nat
    BY ToldIsFinite DEF BalanceInv, Balanced, TypeInv, TypeOK
  <2>2. Overtaken(d) \subseteq Told(d)
    BY DEF Overtaken, Told
  <2>3. IsFiniteSet(Overtaken(d)) /\ Cardinality(Overtaken(d)) \in Nat
    BY <2>2, ToldIsFinite, FS_Subset, FS_CardinalityType
  <2>4. CASE row[d].status = "accepted"
    <3>1. Told(d) = Overtaken(d)
      BY <2>4 DEF Told, Overtaken, Holds
    <3> QED
      BY <2>1, <2>3, <2>4, <3>1 DEF Recorded
  <2>5. CASE row[d].status # "accepted"
    <3> DEFINE known == Overtaken(d) \cup {row[d].owner}
    <3>1. Told(d) \subseteq known
      BY DEF Told, Overtaken, Holds
    <3>2. IsFiniteSet(known) /\ Cardinality(known) \in Nat
          /\ Cardinality(known) <= Cardinality(Overtaken(d)) + 1
      BY <2>3, FS_AddElement
    <3>3. Cardinality(Told(d)) <= Cardinality(known)
      BY <3>1, <3>2, FS_Subset
    <3> HIDE DEF known
    <3> QED
      BY <2>1, <2>3, <2>5, <3>2, <3>3 DEF Recorded
  <2> QED
    BY <2>4, <2>5
<1> QED
  BY BalanceInit, BalanceStep, <1>1, PTL DEF Spec

-----------------------------------------------------------------------------
(* The outbox implements its contract *)

\* A row that a worker has claimed was queued.
HeldIsQueued ==
  \A w \in Workers : worker[w].pc \in Busy => row[worker[w].d].status # "absent"

ContractInv == BalanceInv /\ HeldIsQueued

Outcome == [d \in Deliveries |-> OutcomeOf(row[d].status)]

LEMMA Outcomes ==
  /\ OutcomeOf("absent") = "none"
  /\ \A status \in Open : OutcomeOf(status) = "open"
  /\ OutcomeOf("accepted") = "accepted"
  /\ OutcomeOf("outcome_unknown") = "unknown"
  /\ \A status \in {"dead_letter", "stale"} : OutcomeOf(status) = "stopped"
<1>1. OutcomeOf("absent") = "none" /\ OutcomeOf("accepted") = "accepted"
  BY DEF OutcomeOf, Open
<1>2. OutcomeOf("pending") = "open" /\ OutcomeOf("sending") = "open"
  BY DEF OutcomeOf, Open
<1>3. OutcomeOf("retry_wait") = "open" /\ OutcomeOf("outcome_unknown") = "unknown"
  BY DEF OutcomeOf, Open
<1>4. OutcomeOf("dead_letter") = "stopped" /\ OutcomeOf("stale") = "stopped"
  BY DEF OutcomeOf, Open
<1> QED
  BY <1>1, <1>2, <1>3, <1>4 DEF Open

LEMMA ContractInit == Init => ContractInv /\ Contract!Init
<1> SUFFICES ASSUME Init PROVE HeldIsQueued /\ Contract!Init
  BY BalanceInit DEF ContractInv
<1>1. HeldIsQueued
  BY DEF Init, HeldIsQueued, Down, WorkerAt, Busy
<1>2. Contract!Init
  BY Outcomes DEF Init, Contract!Init, NoRow
<1> QED
  BY <1>1, <1>2

LEMMA HeldStep == ContractInv /\ [Next]_vars => ContractInv'
<1> SUFFICES ASSUME ContractInv, [Next]_vars,
                    NEW w \in Workers,
                    worker'[w].pc \in Busy
             PROVE  row'[worker'[w].d].status # "absent"
  BY BalanceStep DEF ContractInv, HeldIsQueued
<1> USE DEF ContractInv, BalanceInv
<1>1. ASSUME NEW d \in Deliveries, row[d].status # "absent" PROVE row'[d].status # "absent"
  <2>1. Moves(d) /\ row[d] \in Rows
    BY RowMoves DEF TypeInv, TypeOK
  <2>2. CASE RecordsAnswer(d)
    <3> PICK v \in Workers : worker[v].pc = "answered" /\ row'[d] = Answered(row[d], worker[v].answer)
      BY <2>2 DEF RecordsAnswer
    <3>1. worker[v].answer \in Answers
      BY DEF TypeInv, HoldsARow
    <3>2. row'[d].status = StatusAfter(row[d], worker[v].answer)
      BY <2>1 DEF Answered, Closed, Released, Rows
    <3> QED
      BY <3>1, <3>2 DEF StatusAfter, Answers
  <2>4. CASE OverwritesRow(d)
    <3> PICK v \in Workers : worker[v].pc = "failing" /\ row'[d] = Closed(row[d], worker[v].status)
      BY <2>4 DEF OverwritesRow
    <3>1. row'[d].status = worker[v].status
      BY <2>1 DEF Closed, Released, Rows
    <3> QED
      BY <3>1 DEF TypeInv, HoldsARow
  <2>3. CASE ~RecordsAnswer(d) /\ ~OverwritesRow(d)
    BY <1>1, <2>1, <2>3 DEF Moves, KeepsRow, Recovers, Requeued, TakesRow, Claimed,
       StalesRow, Staled, Released, QueuesRow, ReplaysRow, Replayed, Rows
  <2> QED
    BY <2>2, <2>3, <2>4
<1>2. CASE /\ worker[w].pc \in Busy
           /\ worker'[w].d = worker[w].d
  BY <1>1, <1>2 DEF TypeInv, HoldsARow, HeldIsQueued
<1>3. CASE Claim(w)
  <2> PICK d \in Deliveries :
        /\ row' = [row EXCEPT ![d] = Claimed(row[d], w)]
        /\ worker' = [worker EXCEPT ![w] = WorkerAt("claimed", d)]
    BY <1>3 DEF Claim
  <2>1. worker'[w].d = d
    BY DEF WorkerAt, TypeInv, TypeOK
  <2>2. row'[d].status = "sending"
    BY DEF Claimed, TypeInv, TypeOK, Rows
  <2> QED
    BY <2>1, <2>2
<1>4. /\ worker \in [Workers -> WorkerStates]
      /\ Idle.pc \notin Busy /\ Down.pc \notin Busy
  BY DEF TypeInv, TypeOK, Idle, Down, WorkerAt, Busy
<1>5. ASSUME NEW v \in Workers, \/ Start(v) \/ MarkStale(v) \/ Record(v) \/ FailWrite(v)
                               \/ LeaseLost(v) \/ StepFails(v) \/ Crash(v)
      PROVE  worker'[w] = worker[w]
  BY <1>4, <1>5 DEF Start, MarkStale, Record, FailWrite, LeaseLost, StepFails, Crash
<1>6. ASSUME NEW v \in Workers, \/ Revalidate(v) \/ Refuse(v) \/ FailRead(v)
                               \/ \E answer \in Answers : Submit(v, answer)
      PROVE  /\ worker[w].pc \in Busy
             /\ worker'[w].d = worker[w].d
  <2>1. CASE v = w
    BY <1>4, <1>6, <2>1 DEF Revalidate, Refuse, FailRead, Submit, WorkerStates, Busy
  <2>2. CASE v # w
    BY <1>4, <1>6, <2>2 DEF Revalidate, Refuse, FailRead, Submit
  <2> QED
    BY <2>1, <2>2
<1>7. ASSUME NEW v \in Workers, v # w, Claim(v) PROVE worker'[w] = worker[w]
  BY <1>4, <1>7 DEF Claim
<1>8. ASSUME NEW d \in Deliveries, \/ QueueCheck(d) \/ RetryRead(d) \/ Redact(d)
                                   \/ LeaseExpires(d) \/ BackoffElapses(d)
      PROVE  UNCHANGED worker
  BY <1>8 DEF QueueCheck, RetryRead, Redact, LeaseExpires, BackoffElapses
<1>9. CASE WebStep \/ WebFails \/ GateChanges \/ UNCHANGED vars
  <2>1. UNCHANGED worker
    BY <1>9 DEF WebStep, QueueInsert, RetryReplay, RetryRefuse, RetryMarkStale,
                WebFails, GateChanges, GateMoved, vars
  <2> QED
    BY <1>2, <2>1
<1> QED
  BY <1>2, <1>3, <1>5, <1>6, <1>7, <1>8, <1>9 DEF Next, DeliveryStep, WorkerStep

LEMMA ContractStep ==
  ASSUME Backend = "mysql"
  PROVE  ContractInv /\ [Next]_vars => [Contract!Next]_(Contract!contractVars)
<1> SUFFICES ASSUME ContractInv, [Next]_vars
             PROVE  \/ UNCHANGED <<Outcome, taken>>
                    \/ Contract!Next
  BY DEF Contract!contractVars, Outcome
<1> USE DEF ContractInv, BalanceInv
<1>1. row \in [Deliveries -> Rows] /\ taken \in [Deliveries -> Nat]
  BY DEF TypeInv, TypeOK
\* one row changes
<1>2. ASSUME NEW d \in Deliveries, NEW r, row' = [row EXCEPT ![d] = r]
      PROVE  Outcome' = [Outcome EXCEPT ![d] = OutcomeOf(r.status)]
  BY <1>1, <1>2 DEF Outcome
\* the statuses stay what they are to the contract
<1>3. ASSUME \A d \in Deliveries : (row'[d].status # row[d].status)
                                   => (row[d].status \in Open /\ row'[d].status \in Open),
             UNCHANGED taken
      PROVE  UNCHANGED <<Outcome, taken>>
  BY <1>3, Outcomes DEF Outcome
<1>4. ASSUME NEW w \in Workers, Start(w) PROVE UNCHANGED <<Outcome, taken>>
  <2>1. \A d \in Deliveries :
          (row'[d] # row[d]) => (row[d].status = "sending" /\ row'[d].status = "retry_wait")
    BY <1>1, <1>4 DEF Start, Expired, Requeued, Released, Rows
  <2> QED
    BY <1>3, <1>4, <2>1 DEF Start, Open
<1>5. ASSUME NEW w \in Workers, Claim(w) PROVE UNCHANGED <<Outcome, taken>>
  <2>1. \A d \in Deliveries :
          (row'[d] # row[d]) => (Claimable(row[d]) /\ row'[d].status = "sending")
    BY <1>1, <1>5 DEF Claim, IsOldestClaimable, Claimed, Rows
  <2> QED
    BY <1>3, <1>5, <2>1 DEF Claim, Claimable, Open
<1>6. ASSUME NEW d \in Deliveries, row' = [row EXCEPT ![d] = Staled(row[d])], UNCHANGED taken
      PROVE  UNCHANGED <<Outcome, taken>> \/ Contract!Next
  <2>1. CASE row[d].status \in Open
    <3>1. Staled(row[d]).status = "stale"
      BY <1>1, <2>1 DEF Staled, Released, Rows, Open
    <3>2. Outcome' = [Outcome EXCEPT ![d] = OutcomeOf(Staled(row[d]).status)]
      BY <1>2, <1>6
    <3>4. OutcomeOf("stale") = "stopped" /\ OutcomeOf(row[d].status) = "open"
      BY <2>1, Outcomes
    <3>3. Contract!Close(d, "stopped")
      BY <1>6, <3>1, <3>2, <3>4 DEF Contract!Close, Outcome
    <3> QED
      BY <3>3 DEF Contract!Next
  <2>2. CASE row[d].status \notin Open
    <3>1. \/ Staled(row[d]).status = row[d].status
          \/ row[d].status = "dead_letter" /\ Staled(row[d]).status = "stale"
      BY <1>1, <2>2 DEF Staled, Released, Rows, Open
    <3>2. OutcomeOf(Staled(row[d]).status) = OutcomeOf(row[d].status)
      BY <3>1, Outcomes
    <3> QED
      BY <1>1, <1>2, <1>6, <3>2 DEF Outcome
  <2> QED
    BY <2>1, <2>2
<1>7. ASSUME NEW w \in Workers, MarkStale(w)
      PROVE  UNCHANGED <<Outcome, taken>> \/ Contract!Next
  BY <1>6, <1>7 DEF MarkStale, TypeInv, HoldsARow, Busy
<1>8. CASE RetryMarkStale
  BY <1>6, <1>8 DEF RetryMarkStale, TypeInv, HoldsARow
<1>9. ASSUME NEW w \in Workers, Record(w)
      PROVE  UNCHANGED <<Outcome, taken>> \/ Contract!Next
  <2> DEFINE d == worker[w].d
             answer == worker[w].answer
             status == StatusAfter(row[d], answer)
  <2>1. /\ d \in Deliveries /\ answer \in Answers
        /\ row[d].status = "sending" /\ UNCHANGED taken
        /\ row' = [row EXCEPT ![d] = Answered(row[d], answer)]
    BY <1>9 DEF Record, Holds, TypeInv, HoldsARow, Busy
  <2>2. Answered(row[d], answer).status = status
    BY <1>1, <2>1 DEF Answered, Closed, Released, Rows
  <2>3. Outcome' = [Outcome EXCEPT ![d] = OutcomeOf(status)] /\ Outcome[d] = "open"
    <3>1. Outcome' = [Outcome EXCEPT ![d] = OutcomeOf(Answered(row[d], answer).status)]
      BY <1>2, <2>1
    <3>2. OutcomeOf(row[d].status) = "open"
      BY <2>1, Outcomes DEF Open
    <3> HIDE DEF status
    <3> QED
      BY <2>1, <2>2, <3>1, <3>2 DEF Outcome
  <2>4. CASE answer = "accepted"
    <3>1. w \in Told(d)
      BY <1>9, <2>4 DEF Told, Record
    <3>2. Cardinality(Told(d)) # 0
      BY <3>1, ToldIsFinite, FS_EmptySet
    <3>3. /\ taken[d] = ambiguous[d] + Cardinality(Told(d)) + 0
          /\ ambiguous[d] \in Nat /\ Cardinality(Told(d)) \in Nat
      BY <2>1, ToldIsFinite DEF Balanced, Recorded, TypeInv, TypeOK
    <3>4. taken[d] > 0
      BY <3>2, <3>3
    <3>5. OutcomeOf(status) = "accepted"
      BY <2>4, Outcomes DEF StatusAfter
    <3>6. Contract!Close(d, "accepted")
      BY <2>1, <2>3, <3>4, <3>5 DEF Contract!Close, Outcome
    <3> QED
      BY <2>1, <3>6 DEF Contract!Next
  <2>5. CASE answer = "unknown"
    <3>1. Contract!Close(d, "unknown")
      BY <2>1, <2>3, <2>5, Outcomes DEF Contract!Close, Outcome, StatusAfter
    <3> QED
      BY <2>1, <3>1 DEF Contract!Next
  <2>6. CASE status = "dead_letter"
    <3>1. Contract!Close(d, "stopped")
      BY <2>1, <2>3, <2>6, Outcomes DEF Contract!Close, Outcome
    <3> QED
      BY <2>1, <3>1 DEF Contract!Next
  <2>7. CASE status = "retry_wait"
    <3>1. OutcomeOf(status) = "open"
      BY <2>7, Outcomes DEF Open
    <3> QED
      BY <2>1, <2>3, <3>1 DEF Outcome
  <2>8. status = "dead_letter" \/ status = "retry_wait" \/ answer \in {"accepted", "unknown"}
    BY <2>1 DEF StatusAfter, Answers
  <2> QED
    BY <2>4, <2>5, <2>6, <2>7, <2>8
<1>10. ASSUME NEW w \in Workers, NEW answer \in Answers, Submit(w, answer)
       PROVE  UNCHANGED <<Outcome, taken>> \/ Contract!Next
  <2> PICK took \in BOOLEAN :
        taken' = [taken EXCEPT ![worker[w].d] = @ + IF took THEN 1 ELSE 0]
    BY <1>10 DEF Submit, MayTake, Answers
  <2>1. UNCHANGED Outcome /\ worker[w].d \in Deliveries /\ row[worker[w].d].status # "absent"
    BY <1>10 DEF Submit, tableVars, Outcome, TypeInv, HoldsARow, HeldIsQueued, Busy
  <2>2. CASE took
    <3>1. Outcome[worker[w].d] # "none"
      BY <1>1, <2>1, Outcomes DEF Outcome, Rows, Statuses, Open, Terminal
    <3>2. Contract!Take(worker[w].d)
      BY <2>1, <2>2, <3>1 DEF Contract!Take, Outcome
    <3> QED
      BY <2>1, <3>2 DEF Contract!Next
  <2>3. CASE ~took
    <3>1. taken[worker[w].d] + 0 = taken[worker[w].d]
      BY <1>1, <2>1
    <3> QED
      BY <1>1, <2>1, <2>3, <3>1
  <2> QED
    BY <2>2, <2>3
<1>11. CASE QueueInsert
  <2>1. CASE UNCHANGED tableVars
    BY <1>3, <1>11, <2>1 DEF QueueInsert, tableVars
  <2>2. CASE /\ row[web.d].status = "absent"
             /\ row' = [row EXCEPT ![web.d] = [NoRow EXCEPT !.status = "pending",
                                                             !.created = stamp]]
    <3>1. web.d \in Deliveries /\ UNCHANGED taken
      BY <1>11 DEF QueueInsert, TypeInv, HoldsARow
    <3>2. [NoRow EXCEPT !.status = "pending", !.created = stamp].status = "pending"
      BY DEF NoRow
    <3>3. Outcome' = [Outcome EXCEPT ![web.d] = OutcomeOf("pending")]
      BY <1>2, <2>2, <3>1, <3>2
    <3>4. OutcomeOf("pending") = "open" /\ OutcomeOf(row[web.d].status) = "none"
      BY <2>2, Outcomes DEF Open
    <3>5. Contract!Queue(web.d)
      BY <3>1, <3>3, <3>4 DEF Contract!Queue, Outcome
    <3> QED
      BY <3>1, <3>5 DEF Contract!Next
  <2> QED
    BY <1>11, <2>1, <2>2 DEF QueueInsert
<1>12. CASE RetryReplay
  <2>1. web.d \in Deliveries /\ UNCHANGED taken /\ row' = [row EXCEPT ![web.d] = Replayed(row[web.d])]
    BY <1>12 DEF RetryReplay, TypeInv, HoldsARow
  <2>2. CASE row[web.d].status \in Replayable
    <3>1. Replayed(row[web.d]).status = "pending"
      BY <1>1, <2>1, <2>2 DEF Replayed, Rows
    <3>2. Outcome' = [Outcome EXCEPT ![web.d] = OutcomeOf("pending")]
      BY <1>2, <2>1, <3>1
    <3>3. OutcomeOf("pending") = "open" /\ OutcomeOf(row[web.d].status) = "stopped"
      BY <2>2, Outcomes DEF Open, Replayable
    <3>4. Contract!Reopen(web.d)
      BY <2>1, <3>2, <3>3 DEF Contract!Reopen, Outcome
    <3> QED
      BY <2>1, <3>4 DEF Contract!Next
  <2>3. CASE row[web.d].status \notin Replayable
    BY <1>1, <1>3, <2>1, <2>3 DEF Replayed
  <2> QED
    BY <2>2, <2>3
<1>13. ASSUME NEW w \in Workers, Crash(w) PROVE UNCHANGED <<Outcome, taken>>
  <2>1. \A d \in Deliveries : row'[d].status = row[d].status
    BY <1>1, <1>13 DEF Crash, Rows
  <2> QED
    BY <1>3, <1>13, <2>1 DEF Crash
<1>14. ASSUME NEW e \in Deliveries, Redact(e) \/ LeaseExpires(e) \/ BackoffElapses(e)
       PROVE  UNCHANGED <<Outcome, taken>>
  <2>1. \A d \in Deliveries : row'[d].status = row[d].status
    BY <1>1, <1>14 DEF Redact, LeaseExpires, BackoffElapses, Redacted, Rows
  <2> QED
    BY <1>3, <1>14, <2>1 DEF Redact, LeaseExpires, BackoffElapses
<1>15. ASSUME UNCHANGED <<row, taken>> PROVE UNCHANGED <<Outcome, taken>>
  BY <1>3, <1>15
<1>16. ASSUME NEW w \in Workers, Revalidate(w) \/ Refuse(w) \/ LeaseLost(w) \/ StepFails(w)
       PROVE  UNCHANGED <<Outcome, taken>>
  BY <1>15, <1>16 DEF Revalidate, Refuse, LeaseLost, StepFails, tableVars
<1>19. ASSUME NEW w \in Workers PROVE ~FailRead(w) /\ ~FailWrite(w)
  BY DEF FailRead, FailWrite, TypeInv, HoldsARow
<1>17. ASSUME NEW e \in Deliveries, QueueCheck(e) \/ RetryRead(e)
       PROVE  UNCHANGED <<Outcome, taken>>
  BY <1>15, <1>17 DEF QueueCheck, RetryRead, tableVars
<1>18. CASE RetryRefuse \/ WebFails \/ GateChanges \/ UNCHANGED vars
  BY <1>15, <1>18 DEF RetryRefuse, WebFails, GateChanges, GateMoved, tableVars, vars
<1> QED
  BY <1>4, <1>5, <1>7, <1>8, <1>9, <1>10, <1>11, <1>12, <1>13, <1>14, <1>16, <1>17, <1>18, <1>19
     DEF Next, DeliveryStep, WorkerStep, WebStep

\* Where fail_delivery locks its row: every behaviour of the outbox is one its
\* contract allows.
THEOREM OutboxKeepsContract ==
  ASSUME Backend = "mysql"
  PROVE  Spec => ImplementsContract
<1>1. ContractInv /\ [Next]_vars => [Contract!Next]_(Contract!contractVars)
  BY ContractStep
<1> QED
  BY ContractInit, HeldStep, <1>1, PTL DEF Spec, ImplementsContract, Contract!Spec
=============================================================================
