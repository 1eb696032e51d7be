---------------------------- MODULE GatewayProofs ----------------------------
(***************************************************************************)
(* The gateway for any processes, messages, requests and conversations,    *)
(* either coordinator, and any number of stops, crashes and lapses.        *)
(***************************************************************************)
EXTENDS Gateway, FiniteSetTheorems, TLAPS

Processes == Gateways \cup {Nobody}
Pcs == {"none", "queued", "done"} \cup Sited
Tasks == [pc : Pcs, at : Processes, leased : BOOLEAN]
Bodies == {BodyOf[m] : m \in Messages} \cup {Nobody}
Claims == [status : {"absent", "running", "completed", "retryable_failed"},
           owner : Processes, body : Bodies, lease : {"none", "live", "expired"}]
Leases == [owner : Processes, live : BOOLEAN]
Outcomes == [kind : {"none", "assistant", "duplicate", "conflict", "error"}, sent : BOOLEAN]

-----------------------------------------------------------------------------
(* Queues without repetition                                                  *)

Distinct(s) == \A i, j \in DOMAIN s : s[i] = s[j] => i = j

\* s comes from t by leaving elements out: nothing new, and the order kept.
Thins(s, t) ==
  /\ \A i \in DOMAIN s : \E k \in DOMAIN t : t[k] = s[i]
  /\ \A i, j \in DOMAIN s : i < j =>
       \E k, l \in DOMAIN t : k < l /\ t[k] = s[i] /\ t[l] = s[j]

LEMMA WaitingRemoves ==
  ASSUME NEW S, NEW s \in Seq(S), Distinct(s), NEW m
  PROVE  /\ Waiting(s, m) \in Seq(S)
         /\ Distinct(Waiting(s, m))
         /\ Thins(Waiting(s, m), s)
         /\ \A i \in DOMAIN Waiting(s, m) : Waiting(s, m)[i] # m
         /\ \A i \in DOMAIN s : s[i] # m =>
              \E j \in DOMAIN Waiting(s, m) : Waiting(s, m)[j] = s[i]
<1>1. CASE ~\E i \in DOMAIN s : s[i] = m
  BY <1>1 DEF Waiting, Thins, Distinct
<1>2. CASE \E i \in DOMAIN s : s[i] = m
  <2> DEFINE k == CHOOSE i \in DOMAIN s : s[i] = m
             t == [i \in 1..(Len(s) - 1) |-> s[IF i < k THEN i ELSE i + 1]]
  <2>1. k \in 1..Len(s) /\ s[k] = m
    BY <1>2
  <2>2. Waiting(s, m) = t
    BY <1>2 DEF Waiting
  <2> HIDE DEF k
  <2>3. Len(s) \in Nat /\ Len(s) > 0
    BY <2>1
  <2>4. t \in [1..(Len(s) - 1) -> S] /\ t \in Seq(S)
    BY <2>1, <2>3
  <2>5. DOMAIN t = 1..(Len(s) - 1) /\ DOMAIN s = 1..Len(s)
    OBVIOUS
  <2>6. \A i \in DOMAIN t : t[i] = s[IF i < k THEN i ELSE i + 1]
    OBVIOUS
  <2> HIDE DEF t
  <2>7. Distinct(t)
    BY <2>1, <2>3, <2>5, <2>6 DEF Distinct
  <2>8. Thins(t, s)
    BY <2>1, <2>3, <2>5, <2>6 DEF Thins
  <2>9. \A i \in DOMAIN t : t[i] # m
    BY <2>1, <2>3, <2>5, <2>6 DEF Distinct
  <2>10. ASSUME NEW i \in DOMAIN s, s[i] # m
         PROVE  \E j \in DOMAIN t : t[j] = s[i]
    <3>1. CASE i < k
      BY <2>1, <2>3, <2>5, <2>6, <3>1
    <3>2. CASE i > k
      <4>1. i - 1 \in DOMAIN t /\ t[i - 1] = s[i]
        BY <2>1, <2>3, <2>5, <2>6, <3>2
      <4> QED
        BY <4>1
    <3> QED
      BY <2>1, <2>5, <2>10, <3>1, <3>2
  <2> QED
    BY <2>2, <2>4, <2>7, <2>8, <2>9, <2>10
<1> QED
  BY <1>1, <1>2

LEMMA TailThins ==
  ASSUME NEW S, NEW s \in Seq(S), Distinct(s), s # <<>>
  PROVE  /\ Tail(s) \in Seq(S) /\ Distinct(Tail(s)) /\ Thins(Tail(s), s)
         /\ Head(s) \in S
         /\ \A i \in DOMAIN Tail(s) : Tail(s)[i] # Head(s)
         /\ \A i \in DOMAIN s : s[i] # Head(s) =>
              \E j \in DOMAIN Tail(s) : Tail(s)[j] = s[i]
<1>1. /\ Len(s) \in Nat /\ Len(s) > 0 /\ DOMAIN s = 1..Len(s) /\ Head(s) = s[1]
      /\ Tail(s) \in Seq(S) /\ DOMAIN Tail(s) = 1..(Len(s) - 1)
      /\ \A i \in 1..(Len(s) - 1) : Tail(s)[i] = s[i + 1]
  OBVIOUS
<1> DEFINE t == Tail(s)
<1>a. DOMAIN t = 1..(Len(s) - 1) /\ \A i \in DOMAIN t : i + 1 \in DOMAIN s /\ t[i] = s[i + 1]
  BY <1>1
<1> HIDE DEF t
<1>b. Distinct(t) /\ Thins(t, s)
  <2>1. Distinct(t)
    BY <1>1, <1>a DEF Distinct
  <2>2. \A i \in DOMAIN t : \E k \in DOMAIN s : s[k] = t[i]
    BY <1>a
  <2>3. ASSUME NEW i \in DOMAIN t, NEW j \in DOMAIN t, i < j
        PROVE  \E k, l \in DOMAIN s : k < l /\ s[k] = t[i] /\ s[l] = t[j]
    <3>1. i + 1 < j + 1
      BY <1>1, <1>a, <2>3
    <3> QED
      BY <1>a, <3>1
  <2> QED
    BY <2>1, <2>2, <2>3 DEF Thins
<1>2. Distinct(Tail(s)) /\ Thins(Tail(s), s)
  BY <1>b DEF t
<1>3. Head(s) \in S /\ \A i \in DOMAIN Tail(s) : Tail(s)[i] # Head(s)
  BY <1>1 DEF Distinct
<1>4. ASSUME NEW i \in DOMAIN s, s[i] # Head(s)
      PROVE  \E j \in DOMAIN Tail(s) : Tail(s)[j] = s[i]
  <2>1. i - 1 \in DOMAIN Tail(s) /\ Tail(s)[i - 1] = s[i]
    BY <1>1, <1>4
  <2> QED
    BY <2>1
<1> QED
  BY <1>1, <1>2, <1>3, <1>4

LEMMA AppendKeepsDistinct ==
  ASSUME NEW S, NEW s \in Seq(S), Distinct(s), NEW m \in S,
         \A i \in DOMAIN s : s[i] # m
  PROVE  /\ Append(s, m) \in Seq(S) /\ Distinct(Append(s, m))
         /\ DOMAIN Append(s, m) = 1..(Len(s) + 1)
         /\ \A i \in DOMAIN s : Append(s, m)[i] = s[i]
         /\ Append(s, m)[Len(s) + 1] = m
<1>1. /\ Append(s, m) \in Seq(S) /\ DOMAIN Append(s, m) = 1..(Len(s) + 1)
      /\ \A i \in DOMAIN s : Append(s, m)[i] = s[i]
      /\ Append(s, m)[Len(s) + 1] = m
      /\ DOMAIN s = 1..Len(s) /\ Len(s) \in Nat
  OBVIOUS
<1>2. Distinct(Append(s, m))
  BY <1>1 DEF Distinct
<1> QED
  BY <1>1, <1>2

-----------------------------------------------------------------------------
(* The queues as sets of messages                                             *)

Elems(s) == {s[i] : i \in DOMAIN s}

LEMMA QueueElems ==
  ASSUME NEW s \in Seq(Messages), Distinct(s), NEW m \in Messages
  PROVE  /\ Elems(Waiting(s, m)) = Elems(s) \ {m}
         /\ Elems(Append(s, m)) = Elems(s) \cup {m}
         /\ s # <<>> => Head(s) \in Elems(s) /\ Elems(Tail(s)) = Elems(s) \ {Head(s)}
<1>1. Elems(Waiting(s, m)) = Elems(s) \ {m}
  BY WaitingRemoves DEF Elems, Thins
<1>2. Elems(Append(s, m)) = Elems(s) \cup {m}
  <2>1. /\ DOMAIN Append(s, m) = 1..(Len(s) + 1) /\ DOMAIN s = 1..Len(s) /\ Len(s) \in Nat
        /\ \A i \in 1..Len(s) : Append(s, m)[i] = s[i]
        /\ Append(s, m)[Len(s) + 1] = m
    OBVIOUS
  <2> DEFINE t == Append(s, m)
  <2> HIDE DEF t
  <2>2. DOMAIN t = DOMAIN s \cup {Len(s) + 1} /\ \A i \in DOMAIN s : t[i] = s[i]
    BY <2>1 DEF t
  <2>3. t[Len(s) + 1] = m
    BY <2>1 DEF t
  <2>4. Elems(t) = Elems(s) \cup {m}
    BY <2>2, <2>3 DEF Elems
  <2> QED
    BY <2>4 DEF t
<1>3. ASSUME s # <<>>
      PROVE  Head(s) \in Elems(s) /\ Elems(Tail(s)) = Elems(s) \ {Head(s)}
  <2>1. Head(s) = s[1] /\ 1 \in DOMAIN s
    BY <1>3
  <2>2. Elems(Tail(s)) = Elems(s) \ {Head(s)}
    BY <1>3, TailThins DEF Elems, Thins
  <2> QED
    BY <2>1, <2>2 DEF Elems
<1> QED
  BY <1>1, <1>2, <1>3

-----------------------------------------------------------------------------
(* Types, and which queue a task stands in                                    *)

AtLock == {"locking"} \cup Inside
Standing(g, pcs) == {m \in Messages : task[m].at = g /\ task[m].pc \in pcs}

\* Every queue holds exactly the tasks that wait there, each once.
QueuesHoldTasks ==
  \A g \in Gateways :
    /\ Distinct(inbound[g]) /\ Elems(inbound[g]) = Standing(g, {"queued"})
    /\ Distinct(spawned[g]) /\ Elems(spawned[g]) = Standing(g, {"claiming"})
    /\ Distinct(slotq[g]) /\ Elems(slotq[g]) = Standing(g, {"waiting"})
    /\ \A c \in Conversations :
         /\ Distinct(lockq[g][c])
         /\ Elems(lockq[g][c]) = {m \in Standing(g, AtLock) : Conv(m) = c}

TasksAreSited == \A m \in Messages : task[m].pc # "none" => task[m].at \in Gateways

TypeInv == TypeOK /\ TasksAreSited /\ QueuesHoldTasks

LEMMA TypeOKDef ==
  TypeOK <=>
    /\ deployment \in [backend : {"memory", "mysql"}, running : SUBSET Gateways]
    /\ phase \in [Gateways -> {"up", "draining", "cancelling", "crashed"}]
    /\ inbound \in [Gateways -> Seq(Messages)]
    /\ spawned \in [Gateways -> Seq(Messages)]
    /\ slotq \in [Gateways -> Seq(Messages)]
    /\ lockq \in [Gateways -> [Conversations -> Seq(Messages)]]
    /\ task \in [Messages -> Tasks]
    /\ ledger \in [Requests -> Claims]
    /\ lease \in [Conversations -> Leases]
    /\ reply \in [Messages -> Outcomes]
    /\ arrivals \in Seq(Messages)
    /\ lapsed \subseteq Requests
    /\ faults \in 0..MaxFaults
BY DEF TypeOK, Tasks, Pcs, Processes, Claims, Bodies, Leases, Outcomes

LEMMA TypeInit == Init => TypeInv
<1> SUFFICES ASSUME Init PROVE TypeInv
  OBVIOUS
<1>1. TypeOK
  <2>1. deployment \in [backend : {"memory", "mysql"}, running : SUBSET Gateways]
    BY DEF Init
  <2>2. NoTask \in Tasks /\ NoClaim \in Claims /\ NoLease \in Leases /\ NoReply \in Outcomes
    BY DEF NoTask, NoClaim, NoLease, NoReply, Tasks, Claims, Leases, Outcomes, Pcs,
           Processes, Bodies
  <2>3. faults \in 0..MaxFaults
    BY GatewayConstants DEF Init
  <2> QED
    BY <2>1, <2>2, <2>3, TypeOKDef DEF Init
<1>2. \A m \in Messages : task[m].pc = "none"
  BY DEF Init, NoTask
<1>3. Distinct(<<>>) /\ Elems(<<>>) = {}
  BY DEF Distinct, Elems
<1>4. QueuesHoldTasks
  BY <1>2, <1>3 DEF Init, QueuesHoldTasks, Standing, AtLock, Inside
<1> QED
  BY <1>1, <1>2, <1>4 DEF TypeInv, TasksAreSited

\* what the steps do to the table of tasks
LEMMA TaskGoes ==
  ASSUME task \in [Messages -> Tasks], NEW m \in Messages, NEW pc \in Pcs, Goes(m, pc)
  PROVE  /\ task' \in [Messages -> Tasks]
         /\ task'[m].pc = pc /\ task'[m].at = task[m].at /\ task'[m].leased = task[m].leased
         /\ \A n \in Messages : n # m => task'[n] = task[n]
BY DEF Goes, Tasks

LEMMA ReplyGoes ==
  ASSUME reply \in [Messages -> Outcomes], NEW m \in Messages,
         NEW kind \in {"none", "assistant", "duplicate", "conflict", "error"},
         Replies(m, kind)
  PROVE  /\ reply' \in [Messages -> Outcomes]
         /\ reply'[m].kind = kind
         /\ \A n \in Messages : n # m => reply'[n] = reply[n]
BY DEF Replies, Outcomes

LEMMA LedgerCompleted ==
  ASSUME ledger \in [Requests -> Claims], NEW r \in Requests
  PROVE  /\ Completed(r) \in [Requests -> Claims]
         /\ Completed(r)[r].status = "completed"
         /\ \A s \in Requests : s # r => Completed(r)[s] = ledger[s]
BY DEF Completed, Claims

LEMMA LedgerFailed ==
  ASSUME ledger \in [Requests -> Claims], NEW r \in Requests, NEW g
  PROVE  /\ Failed(r, g) \in [Requests -> Claims]
         /\ Failed(r, g)[r].status \in {ledger[r].status, "retryable_failed"}
         /\ Shared /\ ledger[r].status # "running" => Failed(r, g) = ledger
         /\ \A s \in Requests : s # r => Failed(r, g)[s] = ledger[s]
<1> DEFINE row == [ledger[r] EXCEPT !.status = "retryable_failed", !.lease = "expired"]
<1>1. row \in Claims /\ row.status = "retryable_failed"
  BY DEF Claims
<1>2. \/ Failed(r, g) = ledger
      \/ Failed(r, g) = [ledger EXCEPT ![r] = row] /\ (Shared => ledger[r].status = "running")
  BY DEF Failed
<1> HIDE DEF row
<1> QED
  BY <1>1, <1>2

\* a task that leaves the semaphore and the lock is in no queue any more
LEMMA LeavingStep ==
  ASSUME TypeInv, NEW m \in Messages, NEW pc \in {"failing", "cancelled", "releasing"},
         task[m].pc \in {"waiting"} \cup AtLock,
         Goes(m, pc), Leaves(m)
  PROVE  /\ inbound' \in [Gateways -> Seq(Messages)]
         /\ spawned' \in [Gateways -> Seq(Messages)]
         /\ slotq' \in [Gateways -> Seq(Messages)]
         /\ lockq' \in [Gateways -> [Conversations -> Seq(Messages)]]
         /\ task' \in [Messages -> Tasks]
         /\ TasksAreSited' /\ QueuesHoldTasks'
<1> DEFINE g == task[m].at
<1>1. /\ task \in [Messages -> Tasks] /\ slotq \in [Gateways -> Seq(Messages)]
      /\ lockq \in [Gateways -> [Conversations -> Seq(Messages)]]
      /\ inbound \in [Gateways -> Seq(Messages)] /\ spawned \in [Gateways -> Seq(Messages)]
  BY TypeOKDef DEF TypeInv
<1>2. /\ task' \in [Messages -> Tasks]
      /\ task'[m].pc = pc /\ task'[m].at = g
      /\ \A n \in Messages : n # m => task'[n] = task[n]
  BY <1>1, TaskGoes DEF Pcs, Sited
<1>3. g \in Gateways /\ Conv(m) \in Conversations
  BY GatewayConstants DEF TypeInv, TasksAreSited, AtLock, Inside, Conv
<1>4. /\ slotq' = [slotq EXCEPT ![g] = Waiting(slotq[g], m)]
      /\ lockq' = [lockq EXCEPT ![g] = [lockq[g] EXCEPT ![Conv(m)] = Waiting(lockq[g][Conv(m)], m)]]
      /\ inbound' = inbound /\ spawned' = spawned
  BY DEF Leaves
<1> HIDE DEF g
<1>5. /\ slotq[g] \in Seq(Messages) /\ lockq[g][Conv(m)] \in Seq(Messages)
      /\ Distinct(slotq[g]) /\ Distinct(lockq[g][Conv(m)])
  BY <1>1, <1>3 DEF TypeInv, QueuesHoldTasks
<1>6. /\ Waiting(slotq[g], m) \in Seq(Messages) /\ Distinct(Waiting(slotq[g], m))
      /\ Elems(Waiting(slotq[g], m)) = Elems(slotq[g]) \ {m}
      /\ Waiting(lockq[g][Conv(m)], m) \in Seq(Messages)
      /\ Distinct(Waiting(lockq[g][Conv(m)], m))
      /\ Elems(Waiting(lockq[g][Conv(m)], m)) = Elems(lockq[g][Conv(m)]) \ {m}
  BY <1>5, WaitingRemoves, QueueElems
<1>7. /\ slotq' \in [Gateways -> Seq(Messages)]
      /\ \A h \in Gateways : slotq'[h] = IF h = g THEN Waiting(slotq[g], m) ELSE slotq[h]
  BY <1>1, <1>3, <1>4, <1>6
<1>8. /\ lockq' \in [Gateways -> [Conversations -> Seq(Messages)]]
      /\ \A h \in Gateways, c \in Conversations :
           lockq'[h][c] = IF h = g /\ c = Conv(m) THEN Waiting(lockq[g][Conv(m)], m)
                          ELSE lockq[h][c]
  BY <1>1, <1>3, <1>4, <1>6
<1>9. pc \notin {"queued", "claiming", "waiting"} \cup AtLock
  BY DEF AtLock, Inside
<1>10. \A h \in Gateways : Standing(h, {"queued"})' = Standing(h, {"queued"})
  BY <1>2, <1>9 DEF Standing, AtLock, Inside
<1>11. \A h \in Gateways : Standing(h, {"claiming"})' = Standing(h, {"claiming"})
  BY <1>2, <1>9 DEF Standing, AtLock, Inside
<1>12. \A h \in Gateways : Standing(h, {"waiting"})' =
         IF h = g THEN Standing(h, {"waiting"}) \ {m} ELSE Standing(h, {"waiting"})
  BY <1>2, <1>9 DEF Standing, g
<1>13. \A h \in Gateways : Standing(h, AtLock)' = IF h = g THEN Standing(h, AtLock) \ {m}
                                                  ELSE Standing(h, AtLock)
  BY <1>2, <1>9 DEF Standing, g
<1>14. \A h \in Gateways : /\ Distinct(slotq'[h])
                           /\ Elems(slotq'[h]) = Standing(h, {"waiting"})'
  BY <1>6, <1>7, <1>12 DEF TypeInv, QueuesHoldTasks
<1>15. \A h \in Gateways, c \in Conversations :
         /\ Distinct(lockq'[h][c])
         /\ Elems(lockq'[h][c]) = {n \in Standing(h, AtLock)' : Conv(n) = c}
  <2> SUFFICES ASSUME NEW h \in Gateways, NEW c \in Conversations
               PROVE  /\ Distinct(lockq'[h][c])
                      /\ Elems(lockq'[h][c]) = {n \in Standing(h, AtLock)' : Conv(n) = c}
    OBVIOUS
  <2>1. /\ Distinct(lockq[h][c])
        /\ Elems(lockq[h][c]) = {n \in Standing(h, AtLock) : Conv(n) = c}
    BY DEF TypeInv, QueuesHoldTasks
  <2>2. CASE h = g /\ c = Conv(m)
    BY <1>6, <1>8, <1>13, <2>1, <2>2
  <2>3. CASE ~(h = g /\ c = Conv(m))
    <3>1. lockq'[h][c] = lockq[h][c]
      BY <1>8, <2>3
    <3>2. {n \in Standing(h, AtLock)' : Conv(n) = c} = {n \in Standing(h, AtLock) : Conv(n) = c}
      BY <1>13, <2>3
    <3> QED
      BY <2>1, <3>1, <3>2
  <2> QED
    BY <2>2, <2>3
<1>16. QueuesHoldTasks'
  BY <1>4, <1>10, <1>11, <1>14, <1>15 DEF TypeInv, QueuesHoldTasks
<1>17. TasksAreSited'
  BY <1>2, <1>3 DEF TypeInv, TasksAreSited
<1> QED
  BY <1>1, <1>2, <1>4, <1>7, <1>8, <1>16, <1>17

\* a task that goes on without leaving or entering a queue
LEMMA StayingStep ==
  ASSUME TypeInv, task' \in [Messages -> Tasks], UNCHANGED queues,
         \A m \in Messages :
           /\ task'[m].at = task[m].at
           /\ \/ task'[m].pc = task[m].pc
              \/ task[m].pc \in AtLock /\ task'[m].pc \in AtLock
              \/ /\ task[m].pc \in {"failing", "cancelled", "releasing"}
                 /\ task'[m].pc \in {"releasing", "done"}
  PROVE  TasksAreSited' /\ QueuesHoldTasks'
<1>1. \A h \in Gateways : /\ Standing(h, {"queued"})' = Standing(h, {"queued"})
                          /\ Standing(h, {"claiming"})' = Standing(h, {"claiming"})
                          /\ Standing(h, {"waiting"})' = Standing(h, {"waiting"})
                          /\ Standing(h, AtLock)' = Standing(h, AtLock)
  BY DEF Standing, AtLock, Inside
<1>2. QueuesHoldTasks'
  BY <1>1 DEF TypeInv, QueuesHoldTasks, queues
<1>3. TasksAreSited'
  BY DEF TypeInv, TasksAreSited, AtLock, Inside
<1> QED
  BY <1>2, <1>3

QueuesTyped ==
  /\ inbound \in [Gateways -> Seq(Messages)]
  /\ spawned \in [Gateways -> Seq(Messages)]
  /\ slotq \in [Gateways -> Seq(Messages)]
  /\ lockq \in [Gateways -> [Conversations -> Seq(Messages)]]

\* One queue of the gateway g changes by the message m, which moves with it.
LEMMA QueueTypes ==
  ASSUME TypeInv
  PROVE  /\ QueuesTyped /\ task \in [Messages -> Tasks]
         /\ \A g \in Gateways :
              /\ Distinct(inbound[g]) /\ inbound[g] \in Seq(Messages)
              /\ Distinct(spawned[g]) /\ spawned[g] \in Seq(Messages)
              /\ Distinct(slotq[g]) /\ slotq[g] \in Seq(Messages)
              /\ \A c \in Conversations : Distinct(lockq[g][c]) /\ lockq[g][c] \in Seq(Messages)
<1>1. QueuesTyped /\ task \in [Messages -> Tasks]
  BY TypeOKDef DEF TypeInv, QueuesTyped
<1> QED
  BY <1>1 DEF TypeInv, QueuesHoldTasks, QueuesTyped

\* the message enters or leaves a queue q, whose tasks stand at pcs
NewTask(m, g) == [pc |-> "queued", at |-> g, leased |-> FALSE]

LEMMA ArriveStep ==
  ASSUME TypeInv, NEW m \in Messages, NEW g \in Gateways, Arrive(m, g)
  PROVE  QueuesTyped' /\ task' \in [Messages -> Tasks] /\ TasksAreSited' /\ QueuesHoldTasks'
<1>1. /\ task[m].pc = "none" /\ inbound' = [inbound EXCEPT ![g] = Append(inbound[g], m)]
      /\ task' = [task EXCEPT ![m] = NewTask(m, g)]
      /\ UNCHANGED <<spawned, slotq, lockq>>
  BY DEF Arrive, NoTask, NewTask
<1>2. /\ task' \in [Messages -> Tasks]
      /\ task'[m].pc = "queued" /\ task'[m].at = g
      /\ \A n \in Messages : n # m => task'[n] = task[n]
  <2>1. NewTask(m, g) \in Tasks /\ NewTask(m, g).pc = "queued" /\ NewTask(m, g).at = g
    BY DEF NewTask, Tasks, Pcs, Processes
  <2> QED
    BY <1>1, <2>1, QueueTypes
<1>3. m \notin Elems(inbound[g])
  BY <1>1 DEF TypeInv, QueuesHoldTasks, Standing
<1>4. /\ Append(inbound[g], m) \in Seq(Messages) /\ Distinct(Append(inbound[g], m))
      /\ Elems(Append(inbound[g], m)) = Elems(inbound[g]) \cup {m}
  <2>1. \A i \in DOMAIN inbound[g] : inbound[g][i] # m
    BY <1>3 DEF Elems
  <2> QED
    BY <2>1, QueueTypes, QueueElems, AppendKeepsDistinct
<1>5. /\ QueuesTyped'
      /\ \A h \in Gateways : inbound'[h] = IF h = g THEN Append(inbound[g], m) ELSE inbound[h]
  BY <1>1, <1>4, QueueTypes DEF QueuesTyped
<1>6. \A h \in Gateways : /\ Standing(h, {"claiming"})' = Standing(h, {"claiming"})
                          /\ Standing(h, {"waiting"})' = Standing(h, {"waiting"})
                          /\ Standing(h, AtLock)' = Standing(h, AtLock)
  BY <1>1, <1>2 DEF Standing, AtLock, Inside
<1>7. \A h \in Gateways : Standing(h, {"queued"})' =
        IF h = g THEN Standing(h, {"queued"}) \cup {m} ELSE Standing(h, {"queued"})
  BY <1>1, <1>2 DEF Standing
<1>8. QueuesHoldTasks'
  <2>1. \A h \in Gateways : /\ Distinct(inbound'[h])
                            /\ Elems(inbound'[h]) = Standing(h, {"queued"})'
    BY <1>4, <1>5, <1>7 DEF TypeInv, QueuesHoldTasks
  <2> QED
    BY <1>1, <1>6, <2>1 DEF TypeInv, QueuesHoldTasks
<1>9. TasksAreSited'
  BY <1>2 DEF TypeInv, TasksAreSited
<1> QED
  BY <1>2, <1>5, <1>8, <1>9

LEMMA ConsumeStep ==
  ASSUME TypeInv, NEW g \in Gateways, Consume(g)
  PROVE  /\ QueuesTyped' /\ task' \in [Messages -> Tasks] /\ TasksAreSited' /\ QueuesHoldTasks'
         /\ Head(inbound[g]) \in Messages /\ task[Head(inbound[g])].pc = "queued"
         /\ task[Head(inbound[g])].at = g
<1> DEFINE m == Head(inbound[g])
<1>1. /\ inbound[g] # <<>> /\ Goes(m, "claiming")
      /\ inbound' = [inbound EXCEPT ![g] = Tail(inbound[g])]
      /\ spawned' = [spawned EXCEPT ![g] = Append(spawned[g], m)]
      /\ UNCHANGED <<slotq, lockq>>
  BY DEF Consume
<1>2. m \in Messages /\ m \in Elems(inbound[g])
      /\ Tail(inbound[g]) \in Seq(Messages) /\ Distinct(Tail(inbound[g]))
      /\ Elems(Tail(inbound[g])) = Elems(inbound[g]) \ {m}
  BY <1>1, QueueTypes, TailThins, QueueElems
<1> HIDE DEF m
<1>3. task[m].pc = "queued" /\ task[m].at = g
  BY <1>2 DEF TypeInv, QueuesHoldTasks, Standing
<1>4. /\ task' \in [Messages -> Tasks]
      /\ task'[m].pc = "claiming" /\ task'[m].at = g
      /\ \A n \in Messages : n # m => task'[n] = task[n]
  BY <1>1, <1>2, <1>3, QueueTypes, TaskGoes DEF Pcs, Sited
<1>5. m \notin Elems(spawned[g])
  BY <1>3 DEF TypeInv, QueuesHoldTasks, Standing
<1>6. /\ Append(spawned[g], m) \in Seq(Messages) /\ Distinct(Append(spawned[g], m))
      /\ Elems(Append(spawned[g], m)) = Elems(spawned[g]) \cup {m}
  <2>1. \A i \in DOMAIN spawned[g] : spawned[g][i] # m
    BY <1>5 DEF Elems
  <2> QED
    BY <1>2, <2>1, QueueTypes, QueueElems, AppendKeepsDistinct
<1>7. /\ QueuesTyped'
      /\ \A h \in Gateways : inbound'[h] = IF h = g THEN Tail(inbound[g]) ELSE inbound[h]
      /\ \A h \in Gateways : spawned'[h] = IF h = g THEN Append(spawned[g], m) ELSE spawned[h]
  BY <1>1, <1>2, <1>6, QueueTypes DEF QueuesTyped
<1>8. \A h \in Gateways : /\ Standing(h, {"waiting"})' = Standing(h, {"waiting"})
                          /\ Standing(h, AtLock)' = Standing(h, AtLock)
  BY <1>3, <1>4 DEF Standing, AtLock, Inside
<1>9. \A h \in Gateways : Standing(h, {"queued"})' =
        IF h = g THEN Standing(h, {"queued"}) \ {m} ELSE Standing(h, {"queued"})
  BY <1>3, <1>4 DEF Standing
<1>10. \A h \in Gateways : Standing(h, {"claiming"})' =
        IF h = g THEN Standing(h, {"claiming"}) \cup {m} ELSE Standing(h, {"claiming"})
  BY <1>2, <1>3, <1>4 DEF Standing
<1>11. QueuesHoldTasks'
  <2>1. \A h \in Gateways : /\ Distinct(inbound'[h])
                            /\ Elems(inbound'[h]) = Standing(h, {"queued"})'
    BY <1>2, <1>7, <1>9 DEF TypeInv, QueuesHoldTasks
  <2>2. \A h \in Gateways : /\ Distinct(spawned'[h])
                            /\ Elems(spawned'[h]) = Standing(h, {"claiming"})'
    BY <1>6, <1>7, <1>10 DEF TypeInv, QueuesHoldTasks
  <2> QED
    BY <1>1, <1>8, <2>1, <2>2 DEF TypeInv, QueuesHoldTasks
<1>12. TasksAreSited'
  BY <1>3, <1>4 DEF TypeInv, TasksAreSited
<1> QED
  BY <1>2, <1>3, <1>4, <1>7, <1>11, <1>12 DEF m

LEMMA TakeSlotStep ==
  ASSUME TypeInv, NEW g \in Gateways, TakeSlot(g)
  PROVE  /\ QueuesTyped' /\ task' \in [Messages -> Tasks] /\ TasksAreSited' /\ QueuesHoldTasks'
         /\ Head(slotq[g]) \in Messages /\ task[Head(slotq[g])].pc = "waiting"
         /\ task[Head(slotq[g])].at = g
<1> DEFINE m == Head(slotq[g])
           c == Conv(m)
<1>1. /\ slotq[g] # <<>> /\ Goes(m, "locking")
      /\ slotq' = [slotq EXCEPT ![g] = Tail(slotq[g])]
      /\ lockq' = [lockq EXCEPT ![g] = [lockq[g] EXCEPT ![c] = Append(lockq[g][c], m)]]
      /\ UNCHANGED <<inbound, spawned>>
  BY DEF TakeSlot
<1>2. m \in Messages /\ m \in Elems(slotq[g])
      /\ Tail(slotq[g]) \in Seq(Messages) /\ Distinct(Tail(slotq[g]))
      /\ Elems(Tail(slotq[g])) = Elems(slotq[g]) \ {m}
  BY <1>1, QueueTypes, TailThins, QueueElems
<1>c. c \in Conversations
  BY <1>2, GatewayConstants DEF Conv
<1> HIDE DEF m
<1>3. task[m].pc = "waiting" /\ task[m].at = g
  BY <1>2 DEF TypeInv, QueuesHoldTasks, Standing
<1>4. /\ task' \in [Messages -> Tasks]
      /\ task'[m].pc = "locking" /\ task'[m].at = g
      /\ \A n \in Messages : n # m => task'[n] = task[n]
  BY <1>1, <1>2, <1>3, QueueTypes, TaskGoes DEF Pcs, Sited
<1> HIDE DEF c
<1>5. m \notin Elems(lockq[g][c])
  BY <1>3, <1>c DEF TypeInv, QueuesHoldTasks, Standing, AtLock, Inside
<1>6. /\ Append(lockq[g][c], m) \in Seq(Messages) /\ Distinct(Append(lockq[g][c], m))
      /\ Elems(Append(lockq[g][c], m)) = Elems(lockq[g][c]) \cup {m}
  <2>1. \A i \in DOMAIN lockq[g][c] : lockq[g][c][i] # m
    BY <1>5 DEF Elems
  <2> QED
    BY <1>2, <1>c, <2>1, QueueTypes, QueueElems, AppendKeepsDistinct
<1>7. /\ QueuesTyped'
      /\ \A h \in Gateways : slotq'[h] = IF h = g THEN Tail(slotq[g]) ELSE slotq[h]
      /\ \A h \in Gateways, d \in Conversations :
           lockq'[h][d] = IF h = g /\ d = c THEN Append(lockq[g][c], m) ELSE lockq[h][d]
  BY <1>1, <1>2, <1>c, <1>6, QueueTypes DEF QueuesTyped
<1>8. \A h \in Gateways : /\ Standing(h, {"queued"})' = Standing(h, {"queued"})
                          /\ Standing(h, {"claiming"})' = Standing(h, {"claiming"})
  BY <1>3, <1>4 DEF Standing
<1>9. \A h \in Gateways : Standing(h, {"waiting"})' =
        IF h = g THEN Standing(h, {"waiting"}) \ {m} ELSE Standing(h, {"waiting"})
  BY <1>3, <1>4 DEF Standing
<1>10. \A h \in Gateways : Standing(h, AtLock)' =
        IF h = g THEN Standing(h, AtLock) \cup {m} ELSE Standing(h, AtLock)
  BY <1>2, <1>3, <1>4 DEF Standing, AtLock, Inside
<1>11. ASSUME NEW h \in Gateways, NEW d \in Conversations
       PROVE  /\ Distinct(lockq'[h][d])
              /\ Elems(lockq'[h][d]) = {n \in Standing(h, AtLock)' : Conv(n) = d}
  <2>1. /\ Distinct(lockq[h][d])
        /\ Elems(lockq[h][d]) = {n \in Standing(h, AtLock) : Conv(n) = d}
    BY DEF TypeInv, QueuesHoldTasks
  <2>2. CASE h = g /\ d = c
    BY <1>6, <1>7, <1>10, <2>1, <2>2 DEF c
  <2>3. CASE ~(h = g /\ d = c)
    <3>1. lockq'[h][d] = lockq[h][d]
      BY <1>7, <2>3
    <3>2. {n \in Standing(h, AtLock)' : Conv(n) = d} = {n \in Standing(h, AtLock) : Conv(n) = d}
      BY <1>10, <2>3 DEF c
    <3> QED
      BY <2>1, <3>1, <3>2
  <2> QED
    BY <2>2, <2>3
<1>12. \A h \in Gateways : Distinct(slotq'[h]) /\ Elems(slotq'[h]) = Standing(h, {"waiting"})'
  BY <1>2, <1>7, <1>9 DEF TypeInv, QueuesHoldTasks
<1>13. QueuesHoldTasks'
  BY <1>1, <1>8, <1>11, <1>12 DEF TypeInv, QueuesHoldTasks
<1>14. TasksAreSited'
  BY <1>3, <1>4 DEF TypeInv, TasksAreSited
<1> QED
  BY <1>2, <1>3, <1>4, <1>7, <1>13, <1>14 DEF m

\* the answer of coordinator.claim, or CancelledError instead of it
LEMMA ClaimingStep ==
  ASSUME TypeInv, NEW m \in Messages, NEW pc \in {"waiting", "done"},
         task[m].pc = "claiming", Goes(m, pc),
         spawned' = [spawned EXCEPT ![task[m].at] = Waiting(spawned[task[m].at], m)],
         slotq' = IF pc = "waiting"
                  THEN [slotq EXCEPT ![task[m].at] = Append(slotq[task[m].at], m)]
                  ELSE slotq,
         UNCHANGED <<inbound, lockq>>
  PROVE  QueuesTyped' /\ task' \in [Messages -> Tasks] /\ TasksAreSited' /\ QueuesHoldTasks'
<1> DEFINE g == task[m].at
<1>1. g \in Gateways
  BY DEF TypeInv, TasksAreSited
<1>2. /\ task' \in [Messages -> Tasks]
      /\ task'[m].pc = pc /\ task'[m].at = g
      /\ \A n \in Messages : n # m => task'[n] = task[n]
  BY QueueTypes, TaskGoes DEF Pcs, Sited
<1>3. /\ Waiting(spawned[g], m) \in Seq(Messages) /\ Distinct(Waiting(spawned[g], m))
      /\ Elems(Waiting(spawned[g], m)) = Elems(spawned[g]) \ {m}
  BY <1>1, QueueTypes, WaitingRemoves, QueueElems
<1>4. m \notin Elems(slotq[g])
  BY <1>1 DEF TypeInv, QueuesHoldTasks, Standing
<1>5. /\ Append(slotq[g], m) \in Seq(Messages) /\ Distinct(Append(slotq[g], m))
      /\ Elems(Append(slotq[g], m)) = Elems(slotq[g]) \cup {m}
  <2>1. \A i \in DOMAIN slotq[g] : slotq[g][i] # m
    BY <1>4 DEF Elems
  <2> QED
    BY <1>1, <2>1, QueueTypes, QueueElems, AppendKeepsDistinct
<1>6. spawned' = [spawned EXCEPT ![g] = Waiting(spawned[g], m)]
      /\ (pc = "waiting" => slotq' = [slotq EXCEPT ![g] = Append(slotq[g], m)])
      /\ (pc = "done" => slotq' = slotq)
  OBVIOUS
<1>g. task[m].at = g
  OBVIOUS
<1> HIDE DEF g
<1>7. /\ spawned' \in [Gateways -> Seq(Messages)]
      /\ \A h \in Gateways : spawned'[h] = IF h = g THEN Waiting(spawned[g], m) ELSE spawned[h]
  <2>1. spawned \in [Gateways -> Seq(Messages)]
    BY QueueTypes DEF QueuesTyped
  <2>2. Waiting(spawned[g], m) \in Seq(Messages)
    BY <1>3
  <2>3. spawned' = [spawned EXCEPT ![g] = Waiting(spawned[g], m)]
    BY <1>6
  <2> QED
    BY <1>1, <2>1, <2>2, <2>3
<1>8. /\ slotq' \in [Gateways -> Seq(Messages)]
      /\ \A h \in Gateways : slotq'[h] = IF h = g /\ pc = "waiting" THEN Append(slotq[g], m)
                                         ELSE slotq[h]
  BY <1>1, <1>5, <1>6, QueueTypes DEF QueuesTyped
<1>9. \A h \in Gateways : /\ Standing(h, {"queued"})' = Standing(h, {"queued"})
                          /\ Standing(h, AtLock)' = Standing(h, AtLock)
  BY <1>2 DEF Standing, AtLock, Inside
<1>10. \A h \in Gateways : Standing(h, {"claiming"})' =
        IF h = g THEN Standing(h, {"claiming"}) \ {m} ELSE Standing(h, {"claiming"})
  BY <1>2, <1>g DEF Standing
<1>11. \A h \in Gateways : Standing(h, {"waiting"})' =
        IF h = g /\ pc = "waiting" THEN Standing(h, {"waiting"}) \cup {m}
        ELSE Standing(h, {"waiting"})
  BY <1>2, <1>g DEF Standing
<1>12. QueuesHoldTasks'
  <2>1. \A h \in Gateways : /\ Distinct(spawned'[h])
                            /\ Elems(spawned'[h]) = Standing(h, {"claiming"})'
    BY <1>3, <1>7, <1>10 DEF TypeInv, QueuesHoldTasks
  <2>2. \A h \in Gateways : /\ Distinct(slotq'[h])
                            /\ Elems(slotq'[h]) = Standing(h, {"waiting"})'
    BY <1>5, <1>8, <1>11 DEF TypeInv, QueuesHoldTasks
  <2> QED
    BY <1>9, <2>1, <2>2 DEF TypeInv, QueuesHoldTasks
<1>13. TasksAreSited'
  BY <1>1, <1>2 DEF TypeInv, TasksAreSited
<1> QED
  BY <1>2, <1>7, <1>8, <1>12, <1>13, QueueTypes DEF QueuesTyped

LEMMA CrashStep ==
  ASSUME TypeInv, NEW g \in Gateways, Crash(g)
  PROVE  /\ QueuesTyped' /\ task' \in [Messages -> Tasks] /\ TasksAreSited' /\ QueuesHoldTasks'
         /\ \A m \in Messages : task'[m] = task[m] \/ task'[m].pc = "done"
<1>1. task' = [m \in Messages |-> IF task[m].at = g /\ task[m].pc # "none"
                                  THEN [task[m] EXCEPT !.pc = "done"] ELSE task[m]]
  BY DEF Crash
<1>2. \A m \in Messages : [task[m] EXCEPT !.pc = "done"] \in Tasks
                          /\ [task[m] EXCEPT !.pc = "done"].pc = "done"
                          /\ [task[m] EXCEPT !.pc = "done"].at = task[m].at
  BY QueueTypes DEF Tasks, Pcs
<1>3. /\ task' \in [Messages -> Tasks]
      /\ \A m \in Messages : /\ task'[m].at = task[m].at
                             /\ task[m].at = g => task'[m].pc \in {"none", "done"}
                             /\ task[m].at # g => task'[m] = task[m]
                             /\ task'[m] = task[m] \/ task'[m].pc = "done"
                             /\ task[m].pc = "none" => task'[m] = task[m]
  BY <1>1, <1>2, QueueTypes
<1>4. /\ <<>> \in Seq(Messages) /\ Distinct(<<>>) /\ Elems(<<>>) = {}
      /\ [c \in Conversations |-> <<>>] \in [Conversations -> Seq(Messages)]
  BY DEF Distinct, Elems
<1>5. /\ inbound' = [inbound EXCEPT ![g] = <<>>] /\ spawned' = [spawned EXCEPT ![g] = <<>>]
      /\ slotq' = [slotq EXCEPT ![g] = <<>>]
      /\ lockq' = [lockq EXCEPT ![g] = [c \in Conversations |-> <<>>]]
  BY DEF Crash
<1>6. /\ QueuesTyped'
      /\ \A h \in Gateways : /\ inbound'[h] = IF h = g THEN <<>> ELSE inbound[h]
                             /\ spawned'[h] = IF h = g THEN <<>> ELSE spawned[h]
                             /\ slotq'[h] = IF h = g THEN <<>> ELSE slotq[h]
                             /\ \A c \in Conversations :
                                  lockq'[h][c] = IF h = g THEN <<>> ELSE lockq[h][c]
  BY <1>4, <1>5, QueueTypes DEF QueuesTyped
<1>7. ASSUME NEW h \in Gateways, NEW pcs, "none" \notin pcs, "done" \notin pcs
      PROVE  Standing(h, pcs)' = IF h = g THEN {} ELSE Standing(h, pcs)
  BY <1>3, <1>7 DEF Standing
<1>9. QueuesHoldTasks'
  <2> SUFFICES ASSUME NEW h \in Gateways
               PROVE  /\ Distinct(inbound'[h]) /\ Elems(inbound'[h]) = Standing(h, {"queued"})'
                      /\ Distinct(spawned'[h]) /\ Elems(spawned'[h]) = Standing(h, {"claiming"})'
                      /\ Distinct(slotq'[h]) /\ Elems(slotq'[h]) = Standing(h, {"waiting"})'
                      /\ \A c \in Conversations :
                           /\ Distinct(lockq'[h][c])
                           /\ Elems(lockq'[h][c]) = {m \in Standing(h, AtLock)' : Conv(m) = c}
    BY DEF QueuesHoldTasks
  <2>1. /\ Standing(h, {"queued"})' = IF h = g THEN {} ELSE Standing(h, {"queued"})
        /\ Standing(h, {"claiming"})' = IF h = g THEN {} ELSE Standing(h, {"claiming"})
        /\ Standing(h, {"waiting"})' = IF h = g THEN {} ELSE Standing(h, {"waiting"})
        /\ Standing(h, AtLock)' = IF h = g THEN {} ELSE Standing(h, AtLock)
    BY <1>7 DEF AtLock, Inside
  <2> QED
    BY <1>4, <1>6, <2>1 DEF TypeInv, QueuesHoldTasks
<1>10. TasksAreSited'
  BY <1>3 DEF TypeInv, TasksAreSited
<1> QED
  BY <1>3, <1>6, <1>9, <1>10

LEMMA TypeStep == TypeInv /\ [Next]_vars => TypeInv'
<1> SUFFICES ASSUME TypeInv, [Next]_vars PROVE TypeInv'
  OBVIOUS
<1> USE GatewayConstants
<1>t. /\ deployment \in [backend : {"memory", "mysql"}, running : SUBSET Gateways]
      /\ phase \in [Gateways -> {"up", "draining", "cancelling", "crashed"}]
      /\ QueuesTyped
      /\ task \in [Messages -> Tasks] /\ ledger \in [Requests -> Claims]
      /\ lease \in [Conversations -> Leases] /\ reply \in [Messages -> Outcomes]
      /\ arrivals \in Seq(Messages) /\ lapsed \subseteq Requests /\ faults \in 0..MaxFaults
  BY TypeOKDef DEF TypeInv, QueuesTyped
<1>m. \A m \in Messages : RequestOf[m] \in Requests /\ Conv(m) \in Conversations
  BY DEF Conv
<1>k. ASSUME QueuesTyped', task' \in [Messages -> Tasks], TasksAreSited', QueuesHoldTasks',
             deployment' = deployment,
             phase' \in [Gateways -> {"up", "draining", "cancelling", "crashed"}],
             ledger' \in [Requests -> Claims], lease' \in [Conversations -> Leases],
             reply' \in [Messages -> Outcomes], arrivals' \in Seq(Messages),
             lapsed' \subseteq Requests, faults' \in 0..MaxFaults
      PROVE  TypeInv'
  BY <1>k, <1>t, TypeOKDef DEF TypeInv, QueuesTyped, TypeOK, Tasks, Pcs, Processes, Claims,
     Bodies, Leases, Outcomes
<1>1. ASSUME NEW m \in Messages, ClaimAccepted(m) PROVE TypeInv'
  <2>1. /\ task[m].pc = "claiming" /\ Goes(m, "waiting")
        /\ spawned' = [spawned EXCEPT ![task[m].at] = Waiting(spawned[task[m].at], m)]
        /\ slotq' = [slotq EXCEPT ![task[m].at] = Append(slotq[task[m].at], m)]
        /\ UNCHANGED <<inbound, lockq>>
    BY <1>1 DEF ClaimAccepted, Answers
  <2>2. QueuesTyped' /\ task' \in [Messages -> Tasks] /\ TasksAreSited' /\ QueuesHoldTasks'
    BY <2>1, ClaimingStep
  <2>3. Running(m, task[m].at) \in Claims
    BY <1>t DEF Running, Claims, Tasks, Bodies
  <2>4. ledger' \in [Requests -> Claims]
    BY <1>1, <1>t, <2>3 DEF ClaimAccepted
  <2>5. lapsed' \subseteq Requests
    BY <1>1, <1>t, <1>m DEF ClaimAccepted
  <2> QED
    BY <1>1, <1>k, <1>t, <2>2, <2>4, <2>5 DEF ClaimAccepted
<1>2. ASSUME NEW m \in Messages, ClaimRefused(m) PROVE TypeInv'
  <2>1. /\ task[m].pc = "claiming" /\ Goes(m, "done")
        /\ spawned' = [spawned EXCEPT ![task[m].at] = Waiting(spawned[task[m].at], m)]
        /\ UNCHANGED <<inbound, slotq, lockq>>
    BY <1>2 DEF ClaimRefused, Answers
  <2>2. QueuesTyped' /\ task' \in [Messages -> Tasks] /\ TasksAreSited' /\ QueuesHoldTasks'
    BY <2>1, ClaimingStep
  <2>3. reply' \in [Messages -> Outcomes]
    BY <1>2, <1>t, ReplyGoes DEF ClaimRefused
  <2> QED
    BY <1>2, <1>k, <1>t, <2>2, <2>3 DEF ClaimRefused, store, ghosts
<1>3. ASSUME NEW m \in Messages, AcquireLease(m) PROVE TypeInv'
  <2>1. task[m].pc = "locking" /\ UNCHANGED queues
        /\ task' = [task EXCEPT ![m].pc = "leased", ![m].leased = TRUE]
    BY <1>3 DEF AcquireLease, HasLock
  <2>2. /\ task' \in [Messages -> Tasks]
        /\ task'[m].pc = "leased" /\ task'[m].at = task[m].at
        /\ \A n \in Messages : n # m => task'[n] = task[n]
    <3> DEFINE row == [task[m] EXCEPT !.pc = "leased", !.leased = TRUE]
    <3>1. task[m] \in Tasks /\ "leased" \in Pcs
      BY <1>t DEF Pcs, Sited, Inside
    <3>2. row \in Tasks /\ row.pc = "leased" /\ row.at = task[m].at
      BY <3>1 DEF Tasks
    <3>3. task' = [task EXCEPT ![m] = row]
      BY <2>1
    <3> HIDE DEF row
    <3> QED
      BY <1>t, <3>2, <3>3
  <2>3. TasksAreSited' /\ QueuesHoldTasks'
    BY <2>1, <2>2, StayingStep DEF AtLock, Inside
  <2>4. [owner |-> task[m].at, live |-> TRUE] \in Leases
    BY <1>t DEF Leases, Tasks
  <2>5. lease' \in [Conversations -> Leases]
    BY <1>3, <1>t, <2>4 DEF AcquireLease
  <2> QED
    BY <1>3, <1>k, <1>t, <2>1, <2>2, <2>3, <2>5 DEF AcquireLease, queues, QueuesTyped, ghosts
<1>4. ASSUME NEW m \in Messages, LeaseTimeout(m) \/ TurnFails(m) \/ ClaimLost(m)
      PROVE  TypeInv'
  <2>1. /\ task[m].pc \in AtLock /\ Goes(m, "failing") /\ Leaves(m)
        /\ UNCHANGED <<deployment, phase, store, reply, ghosts, faults>>
    BY <1>4 DEF LeaseTimeout, TurnFails, ClaimLost, HasLock, AtLock, Inside
  <2>2. QueuesTyped' /\ task' \in [Messages -> Tasks] /\ TasksAreSited' /\ QueuesHoldTasks'
    BY <2>1, LeavingStep DEF QueuesTyped
  <2> QED
    BY <1>k, <1>t, <2>1, <2>2 DEF store, ghosts
<1>5. ASSUME NEW m \in Messages, StartTurn(m) \/ Complete(m) PROVE TypeInv'
  <2>1. PICK pc \in Inside : task[m].pc \in AtLock /\ Goes(m, pc)
    BY <1>5 DEF StartTurn, Complete, AtLock, Inside
  <2>2. /\ task' \in [Messages -> Tasks]
        /\ task'[m].pc = pc /\ task'[m].at = task[m].at
        /\ \A n \in Messages : n # m => task'[n] = task[n]
    BY <1>t, <2>1, TaskGoes DEF Pcs, Sited
  <2>3. UNCHANGED queues
    BY <1>5 DEF StartTurn, Complete
  <2>4. TasksAreSited' /\ QueuesHoldTasks'
    BY <2>1, <2>2, <2>3, StayingStep DEF AtLock, Inside
  <2>5. ledger' \in [Requests -> Claims]
    BY <1>5, <1>t, <1>m, LedgerCompleted DEF StartTurn, Complete, store
  <2>6. UNCHANGED <<deployment, phase, lease, reply, ghosts, faults>>
    BY <1>5 DEF StartTurn, Complete, store
  <2> QED
    BY <1>k, <1>t, <2>2, <2>3, <2>4, <2>5, <2>6 DEF queues, QueuesTyped, ghosts
<1>6. ASSUME NEW m \in Messages, Publish(m) PROVE TypeInv'
  <2>1. /\ task[m].pc \in AtLock /\ Goes(m, "releasing") /\ Leaves(m)
        /\ Replies(m, "assistant")
        /\ UNCHANGED <<deployment, phase, store, ghosts, faults>>
    BY <1>6 DEF Publish, AtLock, Inside
  <2>2. QueuesTyped' /\ task' \in [Messages -> Tasks] /\ TasksAreSited' /\ QueuesHoldTasks'
    BY <2>1, LeavingStep DEF QueuesTyped
  <2>3. reply' \in [Messages -> Outcomes]
    BY <1>t, <2>1, ReplyGoes
  <2> QED
    BY <1>k, <1>t, <2>1, <2>2, <2>3 DEF store, ghosts
<1>7. ASSUME NEW m \in Messages, Fail(m) \/ Release(m) \/ CancelCleanup(m) PROVE TypeInv'
  <2>1. PICK pc \in {"releasing", "done"} :
          /\ task[m].pc \in {"failing", "cancelled", "releasing"} /\ Goes(m, pc)
    BY <1>7 DEF Fail, Release, CancelCleanup
  <2>2. /\ task' \in [Messages -> Tasks]
        /\ task'[m].pc = pc /\ task'[m].at = task[m].at
        /\ \A n \in Messages : n # m => task'[n] = task[n]
    BY <1>t, <2>1, TaskGoes DEF Pcs, Sited
  <2>3. UNCHANGED <<deployment, phase, queues, ghosts, faults>>
    BY <1>7 DEF Fail, Release, CancelCleanup
  <2>4. TasksAreSited' /\ QueuesHoldTasks'
    BY <2>1, <2>2, <2>3, StayingStep
  <2>5. ledger' \in [Requests -> Claims]
    BY <1>7, <1>t, <1>m, LedgerFailed DEF Fail, Release, CancelCleanup
  <2>6. NoLease \in Leases
    BY DEF NoLease, Leases, Processes
  <2>7. lease' \in [Conversations -> Leases]
    BY <1>7, <1>t, <2>6 DEF Fail, Release, CancelCleanup, Freed
  <2>8. reply' \in [Messages -> Outcomes]
    BY <1>7, <1>t, ReplyGoes DEF Fail, Release, CancelCleanup
  <2> QED
    BY <1>k, <1>t, <2>2, <2>3, <2>4, <2>5, <2>7, <2>8 DEF queues, QueuesTyped, ghosts
<1>8. ASSUME NEW m \in Messages, Dispatch(m) PROVE TypeInv'
  <2>1. reply' \in [Messages -> Outcomes]
    <3> DEFINE row == [reply[m] EXCEPT !.sent = TRUE]
    <3>1. row \in Outcomes
      <4>1. reply[m] \in Outcomes
        BY <1>t
      <4> QED
        BY <4>1 DEF Outcomes
    <3>2. reply' = [reply EXCEPT ![m] = row]
      BY <1>8 DEF Dispatch
    <3> HIDE DEF row
    <3> QED
      BY <1>t, <3>1, <3>2
  <2>2. QueuesTyped' /\ TasksAreSited' /\ QueuesHoldTasks'
    BY <1>8, <1>t, StayingStep DEF Dispatch, queues, QueuesTyped, TypeInv
  <2> QED
    BY <1>8, <1>k, <1>t, <2>1, <2>2 DEF Dispatch, store, ghosts
<1>9. ASSUME NEW m \in Messages, CancelClaim(m) PROVE TypeInv'
  <2>1. /\ task[m].pc = "claiming" /\ Goes(m, "done")
        /\ spawned' = [spawned EXCEPT ![task[m].at] = Waiting(spawned[task[m].at], m)]
        /\ UNCHANGED <<inbound, slotq, lockq>>
    BY <1>9 DEF CancelClaim
  <2>2. QueuesTyped' /\ task' \in [Messages -> Tasks] /\ TasksAreSited' /\ QueuesHoldTasks'
    BY <2>1, ClaimingStep
  <2>3. Running(m, task[m].at) \in Claims
    BY <1>t DEF Running, Claims, Tasks, Bodies
  <2>4. ledger' \in [Requests -> Claims]
    BY <1>9, <1>t, <2>3 DEF CancelClaim
  <2>5. lapsed' \subseteq Requests
    BY <1>9, <1>t, <1>m DEF CancelClaim
  <2> QED
    BY <1>9, <1>k, <1>t, <2>2, <2>4, <2>5 DEF CancelClaim
<1>10. ASSUME NEW m \in Messages, Cancel(m) PROVE TypeInv'
  <2>1. /\ task[m].pc \in {"waiting"} \cup AtLock /\ Goes(m, "cancelled") /\ Leaves(m)
        /\ UNCHANGED <<deployment, phase, store, reply, ghosts, faults>>
    BY <1>10 DEF Cancel, AtLock, Inside
  <2>2. QueuesTyped' /\ task' \in [Messages -> Tasks] /\ TasksAreSited' /\ QueuesHoldTasks'
    BY <2>1, LeavingStep DEF QueuesTyped
  <2> QED
    BY <1>k, <1>t, <2>1, <2>2 DEF store, ghosts
<1>11. ASSUME NEW m \in Messages, NEW g \in Gateways, Arrive(m, g) PROVE TypeInv'
  <2>1. arrivals' \in Seq(Messages)
    BY <1>11, <1>t DEF Arrive
  <2> QED
    BY <1>11, <1>k, <1>t, <2>1, ArriveStep DEF Arrive, store
<1>12. ASSUME NEW g \in Gateways, Consume(g) \/ TakeSlot(g) PROVE TypeInv'
  <2>1. QueuesTyped' /\ task' \in [Messages -> Tasks] /\ TasksAreSited' /\ QueuesHoldTasks'
    BY <1>12, ConsumeStep, TakeSlotStep
  <2>2. UNCHANGED <<deployment, phase, store, reply, ghosts, faults>>
    BY <1>12 DEF Consume, TakeSlot
  <2> QED
    BY <1>k, <1>t, <2>1, <2>2 DEF store, ghosts
<1>13. ASSUME UNCHANGED <<queues, task>> PROVE TasksAreSited' /\ QueuesHoldTasks' /\ QueuesTyped'
  BY <1>13, <1>t, StayingStep DEF queues, QueuesTyped
<1>14. ASSUME NEW g \in Gateways, Stop(g) \/ DrainTimeout(g) PROVE TypeInv'
  <2>1. UNCHANGED <<queues, task, deployment, store, reply, ghosts>>
    BY <1>14 DEF Stop, DrainTimeout
  <2>2. /\ phase' \in [Gateways -> {"up", "draining", "cancelling", "crashed"}]
        /\ faults' \in 0..MaxFaults
    BY <1>14, <1>t DEF Stop, DrainTimeout
  <2> QED
    BY <1>k, <1>t, <1>13, <2>1, <2>2 DEF store, ghosts
<1>15. ASSUME NEW g \in Gateways, Crash(g) PROVE TypeInv'
  <2>1. /\ phase' \in [Gateways -> {"up", "draining", "cancelling", "crashed"}]
        /\ faults' \in 0..MaxFaults
        /\ UNCHANGED <<deployment, store, reply, ghosts>>
    BY <1>15, <1>t DEF Crash
  <2> QED
    BY <1>15, <1>k, <1>t, <2>1, CrashStep DEF store, ghosts
<1>16. ASSUME NEW r \in Requests, ClaimLapses(r) PROVE TypeInv'
  <2> DEFINE e == [ledger[r] EXCEPT !.lease = "expired"]
  <2>0. e \in Claims /\ ledger' = [ledger EXCEPT ![r] = e]
    BY <1>16, <1>t DEF ClaimLapses, Claims
  <2> HIDE DEF e
  <2>1. ledger' \in [Requests -> Claims]
    BY <1>t, <2>0
  <2> QED
    BY <1>16, <1>k, <1>t, <1>13, <2>1 DEF ClaimLapses, ghosts
<1>17. ASSUME NEW c \in Conversations, LeaseLapses(c) PROVE TypeInv'
  <2> DEFINE e == [lease[c] EXCEPT !.live = FALSE]
  <2>0. e \in Leases /\ lease' = [lease EXCEPT ![c] = e]
    <3>1. lease[c] \in Leases
      BY <1>t
    <3>2. e \in Leases
      BY <3>1 DEF Leases
    <3> QED
      BY <1>17, <3>2 DEF LeaseLapses
  <2>a. faults' = faults \/ (faults < MaxFaults /\ faults' = faults + 1)
    BY <1>17 DEF LeaseLapses
  <2> HIDE DEF e
  <2>1. lease' \in [Conversations -> Leases] /\ faults' \in 0..MaxFaults
    BY <1>t, <2>0, <2>a
  <2> QED
    BY <1>17, <1>k, <1>t, <1>13, <2>1 DEF LeaseLapses, ghosts
<1>18. CASE UNCHANGED vars
  BY <1>18, <1>k, <1>t, <1>13 DEF vars, store, ghosts
<1> QED
  BY <1>1, <1>2, <1>3, <1>4, <1>5, <1>6, <1>7, <1>8, <1>9, <1>10, <1>11, <1>12, <1>14,
     <1>15, <1>16, <1>17, <1>18 DEF Next, TaskStep, GatewayStep

\* The tables and queues of the gateway keep their shapes, for any number of
\* processes, messages and requests.
THEOREM GatewayTypeCorrect == Spec => []TypeOK
<1>1. Spec => []TypeInv
  BY TypeInit, TypeStep, PTL DEF Spec
<1>2. TypeInv => TypeOK
  BY DEF TypeInv
<1> QED
  BY <1>1, <1>2, PTL

-----------------------------------------------------------------------------
(* Claims: who may work on a request                                          *)

Working == {"waiting", "locking", "leased", "running"}
Holding == Working \cup {"completed", "failing", "cancelled"}
Over == {"releasing", "done"}

\* The assistant's answer to the message is complete, published or not.
Answered(m) == reply[m].kind = "assistant" \/ task[m].pc = "completed"

\* The claim ledger tells who works: as long as no claim of the request lapsed
\* one task at most holds it, and the request is "running" while that task works
\* and until it has failed.  A completed request stays completed whatever lapses,
\* and only one task completes it.
OneHolder ==
  \A m, n \in Messages :
    /\ m # n /\ RequestOf[m] = RequestOf[n] /\ RequestOf[m] \notin lapsed
    /\ task[m].pc \in Holding
    => task[n].pc \notin Holding

HolderIsRunning ==
  \A m \in Messages : RequestOf[m] \notin lapsed =>
    /\ task[m].pc \in Working => ledger[RequestOf[m]].status = "running"
    /\ task[m].pc \in {"failing", "cancelled"} =>
         \/ ledger[RequestOf[m]].status = "running"
         \/ Shared /\ ledger[RequestOf[m]].status = "completed"

AnsweredIsCompleted ==
  \A m \in Messages : Answered(m) => ledger[RequestOf[m]].status = "completed"

OneAnswer ==
  \A m, n \in Messages :
    m # n /\ RequestOf[m] = RequestOf[n] /\ Answered(m) => ~Answered(n)

RepliesAreLast == \A m \in Messages : reply[m].kind # "none" => task[m].pc \in Over

MemoryNeverLapses == ~Shared => lapsed = {}

ClaimInv ==
  TypeInv /\ OneHolder /\ HolderIsRunning /\ AnsweredIsCompleted /\ OneAnswer
  /\ RepliesAreLast /\ MemoryNeverLapses

LEMMA ClaimInit == Init => ClaimInv
<1> SUFFICES ASSUME Init PROVE ClaimInv
  OBVIOUS
<1>1. /\ \A m \in Messages : task[m].pc = "none" /\ reply[m].kind = "none"
      /\ lapsed = {}
  BY DEF Init, NoTask, NoReply
<1> QED
  BY <1>1, TypeInit DEF ClaimInv, OneHolder, HolderIsRunning, AnsweredIsCompleted, OneAnswer,
     RepliesAreLast, MemoryNeverLapses, Answered, Holding, Working

\* a step that makes nobody a holder and completes nothing
LEMMA QuietClaims ==
  ASSUME ClaimInv, TypeInv',
         deployment' = deployment, lapsed' = lapsed,
         \A r \in Requests : ledger'[r].status = ledger[r].status,
         \A m \in Messages :
           /\ reply'[m].kind # reply[m].kind =>
                task'[m].pc \in Over /\ reply'[m].kind # "assistant"
           /\ task[m].pc \in Over => task'[m].pc \in Over
           /\ \/ task'[m].pc \notin Holding
              \/ task'[m].pc = task[m].pc
              \/ task[m].pc \in Working /\ task'[m].pc \in Working \cup {"failing", "cancelled"}
              \/ Shared /\ task[m].pc = "completed" /\ task'[m].pc = "cancelled"
  PROVE  ClaimInv'
<1>1. \A m \in Messages : RequestOf[m] \in Requests
  BY GatewayConstants
<1>2. \A m \in Messages : task'[m].pc \in Holding => task[m].pc \in Holding
  BY DEF Holding, Working
<1>3. OneHolder'
  BY <1>2 DEF ClaimInv, OneHolder
<1>4. HolderIsRunning'
  BY <1>1 DEF ClaimInv, HolderIsRunning, AnsweredIsCompleted, Answered, Working, Holding, Shared
<1>5. \A m \in Messages : Answered(m)' => Answered(m)
  BY DEF Answered, Holding, Working
<1>6. AnsweredIsCompleted' /\ OneAnswer'
  BY <1>1, <1>5 DEF ClaimInv, AnsweredIsCompleted, OneAnswer
<1>7. RepliesAreLast' /\ MemoryNeverLapses'
  BY DEF ClaimInv, RepliesAreLast, MemoryNeverLapses, Shared
<1> QED
  BY <1>3, <1>4, <1>6, <1>7 DEF ClaimInv

\* a claim is written for a request nobody holds, or for one whose claim lapsed
LEMMA FreshClaims ==
  ASSUME ClaimInv, TypeInv', NEW m \in Messages,
         deployment' = deployment, reply' = reply,
         Fresh(RequestOf[m]),
         task[m].pc = "claiming", task'[m].pc \in {"waiting", "done"},
         \A n \in Messages : n # m => task'[n] = task[n],
         ledger'[RequestOf[m]].status = "running",
         \A r \in Requests : r # RequestOf[m] => ledger'[r] = ledger[r],
         lapsed' = lapsed \cup {r \in {RequestOf[m]} : RanOut(r)}
  PROVE  ClaimInv'
<1> DEFINE r == RequestOf[m]
<1>1. r \in Requests /\ \A n \in Messages : RequestOf[n] \in Requests
  BY GatewayConstants
<1>2. ledger[r].status \in {"absent", "retryable_failed"} \/ RanOut(r)
  BY DEF Fresh
<1>3. RanOut(r) => Shared /\ ledger[r].status = "running" /\ r \in lapsed'
  BY DEF RanOut
<1>4. lapsed' = lapsed \cup {r} \/ lapsed' = lapsed
  OBVIOUS
<1>4a. lapsed \subseteq lapsed' /\ \A s \in lapsed' : s \in lapsed \/ s = r
  BY <1>4
<1>5. \A n \in Messages : RequestOf[n] = r => ~Answered(n)
  BY <1>2, <1>3 DEF ClaimInv, AnsweredIsCompleted
<1>6. \A n \in Messages : RequestOf[n] = r /\ r \notin lapsed' => task[n].pc \notin Holding
  <2> SUFFICES ASSUME NEW n \in Messages, RequestOf[n] = r, r \notin lapsed',
                      task[n].pc \in Holding
               PROVE  FALSE
    OBVIOUS
  <2>1. ledger[r].status \in {"absent", "retryable_failed"} /\ r \notin lapsed
    BY <1>2, <1>3, <1>4a
  <2>2. task[n].pc # "completed"
    BY <1>5 DEF Answered
  <2> QED
    BY <2>1, <2>2 DEF ClaimInv, HolderIsRunning, Holding
<1> HIDE DEF r
<1>r. RequestOf[m] = r
  BY DEF r
<1>7. OneHolder'
  <2> SUFFICES ASSUME NEW a \in Messages, NEW b \in Messages, a # b,
                      RequestOf[a] = RequestOf[b], RequestOf[a] \notin lapsed',
                      task'[a].pc \in Holding, task'[b].pc \in Holding
               PROVE  FALSE
    BY DEF OneHolder
  <2>1. CASE RequestOf[a] = r
    BY <1>6, <2>1
  <2>2. CASE RequestOf[a] # r
    <3>1. task'[a] = task[a] /\ task'[b] = task[b] /\ RequestOf[a] \notin lapsed
      BY <1>4a, <1>r, <2>2
    <3> QED
      BY <3>1 DEF ClaimInv, OneHolder
  <2> QED
    BY <2>1, <2>2
<1>8. HolderIsRunning'
  <2> SUFFICES ASSUME NEW n \in Messages, RequestOf[n] \notin lapsed'
               PROVE  /\ task'[n].pc \in Working => ledger'[RequestOf[n]].status = "running"
                      /\ task'[n].pc \in {"failing", "cancelled"} =>
                           \/ ledger'[RequestOf[n]].status = "running"
                           \/ Shared' /\ ledger'[RequestOf[n]].status = "completed"
    BY DEF HolderIsRunning
  <2>1. CASE RequestOf[n] = r
    BY <1>r, <2>1
  <2>2. CASE RequestOf[n] # r
    <3>1. task'[n] = task[n] /\ ledger'[RequestOf[n]] = ledger[RequestOf[n]]
          /\ RequestOf[n] \notin lapsed
      BY <1>1, <1>4a, <1>r, <2>2
    <3> QED
      BY <3>1 DEF ClaimInv, HolderIsRunning, Shared
  <2> QED
    BY <2>1, <2>2
<1>9. \A n \in Messages : Answered(n)' => Answered(n) /\ RequestOf[n] # r
  BY <1>5, <1>r DEF Answered
<1>10. AnsweredIsCompleted'
  <2> SUFFICES ASSUME NEW n \in Messages, Answered(n)'
               PROVE  ledger'[RequestOf[n]].status = "completed"
    BY DEF AnsweredIsCompleted
  <2>1. Answered(n) /\ RequestOf[n] # r
    BY <1>9
  <2>2. ledger'[RequestOf[n]] = ledger[RequestOf[n]]
    BY <1>1, <1>r, <2>1
  <2> QED
    BY <2>1, <2>2 DEF ClaimInv, AnsweredIsCompleted
<1>11. OneAnswer'
  BY <1>9 DEF ClaimInv, OneAnswer
<1>12. RepliesAreLast'
  BY DEF ClaimInv, RepliesAreLast, Over
<1>13. MemoryNeverLapses'
  BY <1>3, <1>4a, <1>r DEF ClaimInv, MemoryNeverLapses, Shared, RanOut
<1> QED
  BY <1>7, <1>8, <1>10, <1>11, <1>12, <1>13 DEF ClaimInv

\* a failed task gives its claim back, or its process is cancelled before it does
LEMMA FailedClaims ==
  ASSUME ClaimInv, TypeInv', NEW m \in Messages,
         deployment' = deployment, lapsed' = lapsed,
         task[m].pc \in {"failing", "cancelled"}, task'[m].pc = "releasing",
         \A n \in Messages : n # m => task'[n] = task[n],
         ledger' \in {ledger, Failed(RequestOf[m], task[m].at)},
         reply'[m].kind \in {reply[m].kind, "error"},
         \A n \in Messages : n # m => reply'[n] = reply[n]
  PROVE  ClaimInv'
<1> DEFINE r == RequestOf[m]
<1>1. r \in Requests /\ \A n \in Messages : RequestOf[n] \in Requests
  BY GatewayConstants
<1>2. ledger \in [Requests -> Claims]
  BY TypeOKDef DEF ClaimInv, TypeInv
<1>3. /\ \A s \in Requests : s # r => ledger'[s] = ledger[s]
      /\ Shared /\ ledger[r].status # "running" => ledger' = ledger
  BY <1>1, <1>2, LedgerFailed
<1> HIDE DEF r
<1>r. RequestOf[m] = r
  BY DEF r
<1>4. \A n \in Messages : Answered(n)' => Answered(n)
  BY DEF Answered
<1>5. AnsweredIsCompleted'
  <2> SUFFICES ASSUME NEW n \in Messages, Answered(n)'
               PROVE  ledger'[RequestOf[n]].status = "completed"
    BY DEF AnsweredIsCompleted
  <2>1. ledger[RequestOf[n]].status = "completed"
    BY <1>4 DEF ClaimInv, AnsweredIsCompleted
  <2>2. CASE RequestOf[n] = r
    <3>1. Shared
      <4> SUFFICES ASSUME ~Shared PROVE FALSE
        OBVIOUS
      <4>1. RequestOf[m] \notin lapsed
        BY DEF ClaimInv, MemoryNeverLapses
      <4>2. ledger[r].status = "running"
        BY <1>r, <4>1 DEF ClaimInv, HolderIsRunning
      <4> QED
        BY <2>1, <2>2, <4>2
    <3> QED
      BY <1>3, <2>1, <2>2, <3>1
  <2>3. CASE RequestOf[n] # r
    BY <1>1, <1>3, <2>1, <2>3
  <2> QED
    BY <2>2, <2>3
<1>6. OneAnswer'
  BY <1>4 DEF ClaimInv, OneAnswer
<1>7. \A n \in Messages : task'[n].pc \in Holding => task'[n] = task[n] /\ n # m
  BY DEF Holding, Working
<1>8. OneHolder'
  BY <1>7 DEF ClaimInv, OneHolder
<1>9. HolderIsRunning'
  <2> SUFFICES ASSUME NEW n \in Messages, RequestOf[n] \notin lapsed, task'[n].pc \in Holding
               PROVE  /\ task'[n].pc \in Working => ledger'[RequestOf[n]].status = "running"
                      /\ task'[n].pc \in {"failing", "cancelled"} =>
                           \/ ledger'[RequestOf[n]].status = "running"
                           \/ Shared' /\ ledger'[RequestOf[n]].status = "completed"
    BY DEF HolderIsRunning, Holding
  <2>1. task'[n] = task[n] /\ n # m
    BY <1>7
  <2>2. RequestOf[n] # r
    BY <1>r, <2>1 DEF ClaimInv, OneHolder, Holding
  <2>3. ledger'[RequestOf[n]] = ledger[RequestOf[n]]
    BY <1>1, <1>3, <2>2
  <2> QED
    BY <2>1, <2>3 DEF ClaimInv, HolderIsRunning, Shared
<1>10. RepliesAreLast'
  BY DEF ClaimInv, RepliesAreLast, Over
<1>11. MemoryNeverLapses'
  BY DEF ClaimInv, MemoryNeverLapses, Shared
<1> QED
  BY <1>5, <1>6, <1>8, <1>9, <1>10, <1>11 DEF ClaimInv

\* complete() succeeds: the request was still running, so nobody had answered it
LEMMA CompletedClaims ==
  ASSUME ClaimInv, TypeInv', NEW m \in Messages,
         deployment' = deployment, lapsed' = lapsed, reply' = reply,
         task[m].pc = "running", task'[m].pc = "completed",
         \A n \in Messages : n # m => task'[n] = task[n],
         MayComplete(RequestOf[m], task[m].at),
         ledger' = Completed(RequestOf[m])
  PROVE  ClaimInv'
<1> DEFINE r == RequestOf[m]
<1>1. r \in Requests /\ \A n \in Messages : RequestOf[n] \in Requests
  BY GatewayConstants
<1>2. /\ ledger'[r].status = "completed"
      /\ \A s \in Requests : s # r => ledger'[s] = ledger[s]
  BY <1>1, TypeOKDef, LedgerCompleted DEF ClaimInv, TypeInv
<1> HIDE DEF r
<1>r. RequestOf[m] = r
  BY DEF r
<1>3. ledger[r].status = "running"
  <2>1. CASE Shared
    BY <1>r, <2>1 DEF MayComplete
  <2>2. CASE ~Shared
    BY <1>r, <2>2 DEF ClaimInv, MemoryNeverLapses, HolderIsRunning, Working
  <2> QED
    BY <2>1, <2>2
<1>4. \A n \in Messages : RequestOf[n] = r => ~Answered(n)
  BY <1>3 DEF ClaimInv, AnsweredIsCompleted
<1>5. \A n \in Messages : n # m /\ Answered(n)' => Answered(n) /\ RequestOf[n] # r
  BY <1>4 DEF Answered
<1>6. AnsweredIsCompleted'
  <2> SUFFICES ASSUME NEW n \in Messages, Answered(n)'
               PROVE  ledger'[RequestOf[n]].status = "completed"
    BY DEF AnsweredIsCompleted
  <2>1. CASE RequestOf[n] = r
    BY <1>2, <2>1
  <2>2. CASE RequestOf[n] # r
    <3>1. Answered(n) /\ ledger'[RequestOf[n]] = ledger[RequestOf[n]]
      BY <1>1, <1>2, <1>5, <1>r, <2>2
    <3> QED
      BY <3>1 DEF ClaimInv, AnsweredIsCompleted
  <2> QED
    BY <2>1, <2>2
<1>7. OneAnswer'
  BY <1>5, <1>r DEF ClaimInv, OneAnswer
<1>8. \A n \in Messages : task'[n].pc \in Holding => task[n].pc \in Holding
  BY DEF Holding, Working
<1>9. OneHolder'
  BY <1>8 DEF ClaimInv, OneHolder
<1>10. HolderIsRunning'
  <2> SUFFICES ASSUME NEW n \in Messages, RequestOf[n] \notin lapsed,
                      task'[n].pc \in Working \cup {"failing", "cancelled"}
               PROVE  /\ task'[n].pc \in Working => ledger'[RequestOf[n]].status = "running"
                      /\ task'[n].pc \in {"failing", "cancelled"} =>
                           \/ ledger'[RequestOf[n]].status = "running"
                           \/ Shared' /\ ledger'[RequestOf[n]].status = "completed"
    BY DEF HolderIsRunning
  <2>1. task'[n] = task[n] /\ n # m
    BY DEF Working
  <2>2. RequestOf[n] # r
    BY <1>r, <2>1 DEF ClaimInv, OneHolder, Holding, Working
  <2>3. ledger'[RequestOf[n]] = ledger[RequestOf[n]]
    BY <1>1, <1>2, <2>2
  <2> QED
    BY <2>1, <2>3 DEF ClaimInv, HolderIsRunning, Shared
<1>11. RepliesAreLast'
  BY DEF ClaimInv, RepliesAreLast, Over
<1>12. MemoryNeverLapses'
  BY DEF ClaimInv, MemoryNeverLapses, Shared
<1> QED
  BY <1>6, <1>7, <1>9, <1>10, <1>11, <1>12 DEF ClaimInv

LEMMA ClaimStep == ClaimInv /\ [Next]_vars => ClaimInv'
<1> SUFFICES ASSUME ClaimInv, [Next]_vars PROVE ClaimInv'
  OBVIOUS
<1>0. TypeInv /\ TypeInv'
  BY TypeStep DEF ClaimInv
<1>t. /\ task \in [Messages -> Tasks] /\ ledger \in [Requests -> Claims]
      /\ reply \in [Messages -> Outcomes]
  BY <1>0, TypeOKDef DEF TypeInv
<1>m. \A m \in Messages : RequestOf[m] \in Requests
  BY GatewayConstants
<1>1. ASSUME NEW m \in Messages, ClaimAccepted(m) PROVE ClaimInv'
  <2>1. /\ task[m].pc = "claiming" /\ Goes(m, "waiting") /\ Fresh(RequestOf[m])
        /\ ledger' = [ledger EXCEPT ![RequestOf[m]] = Running(m, task[m].at)]
        /\ lapsed' = lapsed \cup {r \in {RequestOf[m]} : RanOut(r)}
        /\ deployment' = deployment /\ reply' = reply
    BY <1>1 DEF ClaimAccepted, Answers
  <2>2. task'[m].pc = "waiting" /\ \A n \in Messages : n # m => task'[n] = task[n]
    BY <1>t, <2>1, TaskGoes DEF Pcs, Sited
  <2>3. /\ ledger'[RequestOf[m]].status = "running"
        /\ \A r \in Requests : r # RequestOf[m] => ledger'[r] = ledger[r]
    BY <1>t, <1>m, <2>1 DEF Running
  <2> QED
    BY <1>0, <2>1, <2>2, <2>3, FreshClaims
<1>2. ASSUME NEW m \in Messages, CancelClaim(m) PROVE ClaimInv'
  <2>1. /\ task[m].pc = "claiming" /\ Goes(m, "done")
        /\ lapsed' = lapsed \cup {r \in {RequestOf[m]} : ledger'[r] # ledger[r] /\ RanOut(r)}
        /\ deployment' = deployment /\ reply' = reply
    BY <1>2 DEF CancelClaim
  <2>2. task'[m].pc = "done" /\ \A n \in Messages : n # m => task'[n] = task[n]
    BY <1>t, <2>1, TaskGoes DEF Pcs, Sited
  <2>3. CASE ledger' = ledger
    <3>1. lapsed' = lapsed
      BY <2>1, <2>3
    <3>2. "done" \notin Holding /\ "claiming" \notin Over /\ "done" \in Over
      BY DEF Holding, Working, Over
    <3> QED
      BY <1>0, <2>1, <2>2, <2>3, <3>1, <3>2, QuietClaims
  <2>4. CASE ledger' # ledger
    <3>1. /\ Fresh(RequestOf[m])
          /\ ledger' = [ledger EXCEPT ![RequestOf[m]] = Running(m, task[m].at)]
      BY <1>2, <2>4 DEF CancelClaim
    <3>2. /\ ledger'[RequestOf[m]].status = "running"
          /\ \A r \in Requests : r # RequestOf[m] => ledger'[r] = ledger[r]
      BY <1>t, <1>m, <3>1 DEF Running
    <3>3. ledger'[RequestOf[m]] # ledger[RequestOf[m]]
      BY <1>t, <1>m, <2>4, <3>1
    <3>4. lapsed' = lapsed \cup {r \in {RequestOf[m]} : RanOut(r)}
      BY <2>1, <3>3
    <3> QED
      BY <1>0, <2>1, <2>2, <3>1, <3>2, <3>4, FreshClaims
  <2> QED
    BY <2>3, <2>4
<1>3. ASSUME NEW m \in Messages, Complete(m) PROVE ClaimInv'
  <2>1. /\ task[m].pc = "running" /\ Goes(m, "completed")
        /\ MayComplete(RequestOf[m], task[m].at) /\ ledger' = Completed(RequestOf[m])
        /\ deployment' = deployment /\ reply' = reply /\ lapsed' = lapsed
    BY <1>3 DEF Complete, ghosts
  <2>2. task'[m].pc = "completed" /\ \A n \in Messages : n # m => task'[n] = task[n]
    BY <1>t, <2>1, TaskGoes DEF Pcs, Sited, Inside
  <2> QED
    BY <1>0, <2>1, <2>2, CompletedClaims
<1>4. ASSUME NEW m \in Messages, Publish(m) PROVE ClaimInv'
  <2>1. /\ task[m].pc = "completed" /\ Goes(m, "releasing") /\ Replies(m, "assistant")
        /\ deployment' = deployment /\ ledger' = ledger /\ lapsed' = lapsed
    BY <1>4 DEF Publish, ghosts, store
  <2>2. task'[m].pc = "releasing" /\ \A n \in Messages : n # m => task'[n] = task[n]
    BY <1>t, <2>1, TaskGoes DEF Pcs, Sited
  <2>3. reply'[m].kind = "assistant" /\ \A n \in Messages : n # m => reply'[n] = reply[n]
    BY <1>t, <2>1, ReplyGoes
  <2>4. \A n \in Messages : Answered(n)' <=> Answered(n)
    BY <2>1, <2>2, <2>3 DEF Answered
  <2>5. AnsweredIsCompleted' /\ OneAnswer'
    BY <2>1, <2>4 DEF ClaimInv, AnsweredIsCompleted, OneAnswer
  <2>6. \A n \in Messages : task'[n].pc \in Holding => task'[n] = task[n]
    BY <2>2 DEF Holding, Working
  <2>7. OneHolder' /\ HolderIsRunning'
    BY <2>1, <2>6 DEF ClaimInv, OneHolder, HolderIsRunning, Shared, Holding, Working
  <2>8. RepliesAreLast' /\ MemoryNeverLapses'
    BY <2>1, <2>2, <2>3 DEF ClaimInv, RepliesAreLast, MemoryNeverLapses, Shared, Over
  <2> QED
    BY <1>0, <2>5, <2>7, <2>8 DEF ClaimInv
<1>5. ASSUME NEW m \in Messages, Fail(m) PROVE ClaimInv'
  <2>1. /\ task[m].pc \in {"failing", "cancelled"} /\ Goes(m, "releasing")
        /\ ledger' = Failed(RequestOf[m], task[m].at)
        /\ Replies(m, "error") \/ reply' = reply
        /\ deployment' = deployment /\ lapsed' = lapsed
    BY <1>5 DEF Fail, ghosts
  <2>2. task'[m].pc = "releasing" /\ \A n \in Messages : n # m => task'[n] = task[n]
    BY <1>t, <2>1, TaskGoes DEF Pcs, Sited
  <2>3. /\ reply'[m].kind \in {reply[m].kind, "error"}
        /\ \A n \in Messages : n # m => reply'[n] = reply[n]
    BY <1>t, <2>1, ReplyGoes
  <2> QED
    BY <1>0, <2>1, <2>2, <2>3, FailedClaims
<1>6. ASSUME NEW m \in Messages, CancelCleanup(m), task[m].pc = "failing" PROVE ClaimInv'
  <2>1. /\ Goes(m, "releasing") /\ ledger' \in {ledger, Failed(RequestOf[m], task[m].at)}
        /\ deployment' = deployment /\ lapsed' = lapsed /\ reply' = reply
    BY <1>6 DEF CancelCleanup, ghosts
  <2>2. task'[m].pc = "releasing" /\ \A n \in Messages : n # m => task'[n] = task[n]
    BY <1>t, <2>1, TaskGoes DEF Pcs, Sited
  <2> QED
    BY <1>0, <1>6, <2>1, <2>2, FailedClaims
\* the steps that leave the claims as they are
<1>q. ASSUME NEW m \in Messages, NEW pc \in Pcs, Goes(m, pc),
             deployment' = deployment, lapsed' = lapsed,
             \A r \in Requests : ledger'[r].status = ledger[r].status,
             \/ reply' = reply
             \/ pc = "done" /\ (Replies(m, "conflict") \/ Replies(m, "duplicate")),
             task[m].pc \in Over => pc \in Over,
             \/ pc \notin Holding
             \/ task[m].pc \in Working /\ pc \in Working \cup {"failing", "cancelled"}
             \/ Shared /\ task[m].pc = "completed" /\ pc = "cancelled"
      PROVE  ClaimInv'
  <2>1. task'[m].pc = pc /\ \A n \in Messages : n # m => task'[n] = task[n]
    BY <1>t, <1>q, TaskGoes
  <2>2. /\ reply'[m].kind # reply[m].kind => pc = "done" /\ reply'[m].kind # "assistant"
        /\ \A n \in Messages : n # m => reply'[n] = reply[n]
    BY <1>t, <1>q, ReplyGoes
  <2> QED
    BY <1>0, <1>q, <2>1, <2>2, QuietClaims DEF Over
<1>7. ASSUME NEW m \in Messages, ClaimRefused(m) PROVE ClaimInv'
  BY <1>7, <1>q DEF ClaimRefused, Answers, store, ghosts, Pcs, Holding, Working, Over
<1>8. ASSUME NEW m \in Messages, AcquireLease(m) PROVE ClaimInv'
  <2>1. /\ task[m].pc = "locking" /\ task'[m].pc = "leased"
        /\ \A n \in Messages : n # m => task'[n] = task[n]
    BY <1>8, <1>t DEF AcquireLease, HasLock, Tasks
  <2> QED
    BY <1>0, <1>8, <2>1, QuietClaims DEF AcquireLease, ghosts, Working, Over
<1>9. ASSUME NEW m \in Messages, LeaseTimeout(m) \/ TurnFails(m) \/ ClaimLost(m)
      PROVE  ClaimInv'
  BY <1>9, <1>q DEF LeaseTimeout, TurnFails, ClaimLost, HasLock, store, ghosts, Pcs, Sited,
     Working, Over
<1>10. ASSUME NEW m \in Messages, StartTurn(m) PROVE ClaimInv'
  BY <1>10, <1>q DEF StartTurn, store, ghosts, Pcs, Sited, Inside, Working, Over
<1>11. ASSUME NEW m \in Messages, Release(m) PROVE ClaimInv'
  BY <1>11, <1>q DEF Release, ghosts, Pcs, Holding, Working, Over
<1>12. ASSUME NEW m \in Messages, CancelCleanup(m), task[m].pc # "failing" PROVE ClaimInv'
  BY <1>12, <1>q DEF CancelCleanup, ghosts, Pcs, Holding, Working, Over
<1>13. ASSUME NEW m \in Messages, Dispatch(m) PROVE ClaimInv'
  <2>1. \A n \in Messages : reply'[n].kind = reply[n].kind
    BY <1>13, <1>t DEF Dispatch, Outcomes
  <2> QED
    BY <1>0, <1>13, <2>1, QuietClaims DEF Dispatch, store, ghosts
<1>14. ASSUME NEW m \in Messages, Cancel(m) PROVE ClaimInv'
  BY <1>14, <1>q DEF Cancel, store, ghosts, Pcs, Sited, Holding, Working, Over
<1>15. ASSUME NEW m \in Messages, NEW g \in Gateways, Arrive(m, g) PROVE ClaimInv'
  <2>1. task[m].pc = "none" /\ task'[m].pc = "queued"
        /\ \A n \in Messages : n # m => task'[n] = task[n]
    BY <1>15, <1>t DEF Arrive, NoTask
  <2> QED
    BY <1>0, <1>15, <2>1, QuietClaims DEF Arrive, store, Holding, Working, Over
<1>16. ASSUME NEW g \in Gateways, Consume(g) PROVE ClaimInv'
  <2>1. Head(inbound[g]) \in Messages /\ task[Head(inbound[g])].pc = "queued"
    BY <1>0, <1>16, ConsumeStep
  <2> QED
    BY <1>16, <1>q, <2>1 DEF Consume, store, ghosts, Pcs, Sited, Holding, Working, Over
<1>17. ASSUME NEW g \in Gateways, TakeSlot(g) PROVE ClaimInv'
  <2>1. Head(slotq[g]) \in Messages /\ task[Head(slotq[g])].pc = "waiting"
    BY <1>0, <1>17, TakeSlotStep
  <2> QED
    BY <1>17, <1>q, <2>1 DEF TakeSlot, store, ghosts, Pcs, Sited, Working, Over
<1>18. ASSUME NEW g \in Gateways, Crash(g) PROVE ClaimInv'
  <2>1. \A m \in Messages : task'[m] = task[m] \/ task'[m].pc = "done"
    BY <1>0, <1>18, CrashStep
  <2> QED
    BY <1>0, <1>18, <2>1, QuietClaims DEF Crash, store, ghosts, Holding, Working, Over
<1>19. ASSUME UNCHANGED <<task, reply, deployment, lapsed>>,
              \A r \in Requests : ledger'[r].status = ledger[r].status
       PROVE  ClaimInv'
  BY <1>0, <1>19, QuietClaims
<1>20. ASSUME NEW g \in Gateways, Stop(g) \/ DrainTimeout(g) PROVE ClaimInv'
  BY <1>19, <1>20 DEF Stop, DrainTimeout, store, ghosts
<1>21. ASSUME NEW r \in Requests, ClaimLapses(r) PROVE ClaimInv'
  <2>1. \A s \in Requests : ledger'[s].status = ledger[s].status
    BY <1>21, <1>t DEF ClaimLapses, Claims
  <2> QED
    BY <1>19, <1>21, <2>1 DEF ClaimLapses, ghosts
<1>22. ASSUME NEW c \in Conversations, LeaseLapses(c) PROVE ClaimInv'
  BY <1>19, <1>22 DEF LeaseLapses, ghosts
<1>23. CASE UNCHANGED vars
  BY <1>19, <1>23 DEF vars, store, ghosts
<1> QED
  BY <1>1, <1>2, <1>3, <1>4, <1>5, <1>6, <1>7, <1>8, <1>9, <1>10, <1>11, <1>12, <1>13, <1>14,
     <1>15, <1>16, <1>17, <1>18, <1>20, <1>21, <1>22, <1>23 DEF Next, TaskStep, GatewayStep

\* The claims of any behaviour: one holder, one answer, whatever lapses.
THEOREM ClaimInvariant == Spec => []ClaimInv
BY ClaimInit, ClaimStep, PTL DEF Spec

\* A request is answered by the assistant at most once, however often it is
\* resent, to whatever process and whatever becomes of its claim's lease: MySQL's
\* complete() needs the row still running, and in memory no claim ever lapses.
THEOREM AnsweredAtMostOnce == Spec => []AnsweredOnce
<1>1. ClaimInv => AnsweredOnce
  BY DEF ClaimInv, OneAnswer, Answered, AnsweredOnce
<1> QED
  BY <1>1, ClaimInvariant, PTL

\* As long as no claim of a request lapsed, one task works on it at most, and
\* none once it is answered.
THEOREM WorkedOnByOne == Spec => []OneWorkerPerRequest
<1>1. ClaimInv => OneWorkerPerRequest
  <2> SUFFICES ASSUME ClaimInv, NEW r \in Requests \ lapsed
               PROVE  /\ Cardinality(WorkingOn(r)) <= 1
                      /\ \A m \in WorkingOn(r), n \in Messages :
                           RequestOf[n] = r => reply[n].kind # "assistant"
    BY DEF OneWorkerPerRequest
  <2>1. \A m \in WorkingOn(r) : /\ m \in Messages /\ RequestOf[m] = r
                                /\ task[m].pc \in Holding /\ task[m].pc \notin Over
                                /\ task[m].pc \in Working \cup {"completed"}
    BY DEF WorkingOn, Inside, Holding, Working, Over
  <2>2. \A m, n \in WorkingOn(r) : m = n
    BY <2>1 DEF ClaimInv, OneHolder
  <2>3. Cardinality(WorkingOn(r)) <= 1
    <3>1. CASE WorkingOn(r) = {}
      BY <3>1, FS_EmptySet
    <3>2. CASE WorkingOn(r) # {}
      <4>1. PICK m \in WorkingOn(r) : WorkingOn(r) = {m}
        BY <2>2, <3>2
      <4>2. Cardinality({m}) = 1
        BY FS_Singleton
      <4> QED
        BY <4>1, <4>2
    <3> QED
      BY <3>1, <3>2
  <2>4. ASSUME NEW m \in WorkingOn(r), NEW n \in Messages, RequestOf[n] = r,
               reply[n].kind = "assistant"
        PROVE  FALSE
    <3>1. n # m /\ Answered(n)
      BY <2>1, <2>4 DEF ClaimInv, RepliesAreLast, Answered
    <3>2. ledger[r].status = "completed"
      BY <2>4, <3>1 DEF ClaimInv, AnsweredIsCompleted
    <3>3. task[m].pc = "completed"
      BY <2>1, <3>2 DEF ClaimInv, HolderIsRunning
    <3> QED
      BY <2>1, <2>4, <3>1, <3>3 DEF ClaimInv, OneAnswer, Answered
  <2> QED
    BY <2>3, <2>4
<1> QED
  BY <1>1, ClaimInvariant, PTL

-----------------------------------------------------------------------------
(* The order of turns under the memory coordinator.                          *)

Sorted(q) == \A i, j \in DOMAIN q : i < j => Before(q[i], q[j])

\* How far the pipeline has taken a message: the bus, the created task, the
\* semaphore, the session lock or beyond.
Rank(pc) == IF pc = "queued" THEN 0 ELSE IF pc = "claiming" THEN 1
            ELSE IF pc = "waiting" THEN 2 ELSE 3
InLine == {"queued", "claiming", "waiting"} \cup AtLock

OneProcess ==
  /\ \A g, h \in deployment.running : g = h
  /\ \A m \in Messages : task[m].pc # "none" => task[m].at \in deployment.running

ArrivalsAreTasks ==
  Distinct(arrivals) /\ Elems(arrivals) = {m \in Messages : task[m].pc # "none"}

\* A message in the line is nowhere ahead of one that arrived before it.
NobodyOvertakes ==
  \A m, n \in Messages :
    Before(m, n) /\ task[n].pc \in InLine => Rank(task[n].pc) <= Rank(task[m].pc)

QueuesAreSorted ==
  \A g \in Gateways :
    /\ Sorted(inbound[g]) /\ Sorted(spawned[g]) /\ Sorted(slotq[g])
    /\ \A c \in Conversations : Sorted(lockq[g][c])

MemoryOrder ==
  ~Shared => OneProcess /\ ArrivalsAreTasks /\ NobodyOvertakes /\ QueuesAreSorted

\* The turn that runs is the first in the queue of its session's lock.
LockIsHeld ==
  \A m \in Messages : task[m].pc \in Inside => Head(lockq[task[m].at][Conv(m)]) = m

OrderInv == TypeInv /\ LockIsHeld /\ MemoryOrder

LEMMA BeforeIsOrder ==
  ASSUME Distinct(arrivals), arrivals \in Seq(Messages)
  PROVE  /\ \A m, n \in Messages : Before(m, n) => ~Before(n, m)
         /\ \A m, n \in Elems(arrivals) : m # n => Before(m, n) \/ Before(n, m)
<1>1. \A i \in DOMAIN arrivals : i \in Nat
  OBVIOUS
<1>2. \A m, n \in Messages : Before(m, n) => ~Before(n, m)
  <2> SUFFICES ASSUME NEW m, NEW n, Before(m, n), Before(n, m) PROVE FALSE
    OBVIOUS
  <2>1. PICK i \in DOMAIN arrivals, j \in DOMAIN arrivals :
               i < j /\ arrivals[i] = m /\ arrivals[j] = n
    BY DEF Before
  <2>2. PICK k \in DOMAIN arrivals, l \in DOMAIN arrivals :
               k < l /\ arrivals[k] = n /\ arrivals[l] = m
    BY DEF Before
  <2>3. i = l /\ j = k
    BY <2>1, <2>2 DEF Distinct
  <2> QED
    BY <1>1, <2>1, <2>2, <2>3
<1>3. ASSUME NEW m \in Elems(arrivals), NEW n \in Elems(arrivals), m # n
      PROVE  Before(m, n) \/ Before(n, m)
  <2>1. PICK i \in DOMAIN arrivals, j \in DOMAIN arrivals : arrivals[i] = m /\ arrivals[j] = n
    BY DEF Elems
  <2>2. i < j \/ j < i
    BY <1>1, <1>3, <2>1
  <2> QED
    BY <2>1, <2>2 DEF Before
<1> QED
  BY <1>2, <1>3

LEMMA ThinnedIsSorted ==
  ASSUME NEW s, NEW t, Sorted(t), Thins(s, t)
  PROVE  Sorted(s)
BY DEF Sorted, Thins

LEMMA SortedAppend ==
  ASSUME NEW s \in Seq(Messages), NEW m \in Messages, Sorted(s),
         \A x \in Elems(s) : Before(x, m)
  PROVE  Sorted(Append(s, m))
<1> DEFINE t == Append(s, m)
<1>1. /\ DOMAIN s = 1..Len(s) /\ Len(s) \in Nat /\ DOMAIN t = 1..(Len(s) + 1)
      /\ \A i \in DOMAIN s : t[i] = s[i]
      /\ t[Len(s) + 1] = m
  OBVIOUS
<1> HIDE DEF t
<1>2. ASSUME NEW i \in DOMAIN t, NEW j \in DOMAIN t, i < j PROVE Before(t[i], t[j])
  <2>1. i \in DOMAIN s
    BY <1>1, <1>2
  <2>2. CASE j \in DOMAIN s
    BY <1>1, <1>2, <2>1, <2>2 DEF Sorted
  <2>3. CASE j = Len(s) + 1
    BY <1>1, <2>1, <2>3 DEF Elems
  <2> QED
    BY <1>1, <2>2, <2>3
<1>3. Sorted(t)
  BY <1>2 DEF Sorted
<1> QED
  BY <1>3 DEF t

LEMMA HeadIsFirst ==
  ASSUME NEW s \in Seq(Messages), Sorted(s), s # <<>>, NEW x \in Elems(s), x # Head(s)
  PROVE  Before(Head(s), x)
<1>1. PICK i \in DOMAIN s : s[i] = x
  BY DEF Elems
<1>2. Head(s) = s[1] /\ 1 \in DOMAIN s /\ i \in Nat /\ i >= 1
  OBVIOUS
<1>3. 1 < i
  BY <1>1, <1>2
<1> QED
  BY <1>1, <1>2, <1>3 DEF Sorted

LEMMA HeadKept ==
  ASSUME NEW s \in Seq(Messages), Distinct(s), s # <<>>, NEW m \in Messages
  PROVE  /\ Head(Append(s, m)) = Head(s)
         /\ Head(s) # m => Head(Waiting(s, m)) = Head(s)
<1>1. Head(Append(s, m)) = Head(s)
  OBVIOUS
<1>2. ASSUME Head(s) # m, \E i \in DOMAIN s : s[i] = m
      PROVE  Head(Waiting(s, m)) = Head(s)
  <2> DEFINE k == CHOOSE i \in DOMAIN s : s[i] = m
             t == [i \in 1..(Len(s) - 1) |-> s[IF i < k THEN i ELSE i + 1]]
  <2>1. k \in DOMAIN s /\ s[k] = m
    BY <1>2
  <2>2. Waiting(s, m) = t
    BY <1>2 DEF Waiting
  <2> HIDE DEF k
  <2>3. DOMAIN s = 1..Len(s) /\ Len(s) \in Nat /\ Head(s) = s[1]
    OBVIOUS
  <2>4. k > 1 /\ Len(s) - 1 >= 1 /\ Len(s) - 1 \in Nat
    BY <1>2, <2>1, <2>3
  <2>5. t[1] = s[1]
    BY <2>1, <2>3, <2>4
  <2>6. t \in Seq(Messages)
    BY <2>1, <2>3, <2>4
  <2>7. Head(t) = t[1]
    BY <2>6
  <2> QED
    BY <2>2, <2>3, <2>5, <2>7
<1>3. ASSUME ~\E i \in DOMAIN s : s[i] = m PROVE Head(Waiting(s, m)) = Head(s)
  BY <1>3 DEF Waiting
<1> QED
  BY <1>1, <1>2, <1>3

LEMMA OrderInit == Init => OrderInv
<1> SUFFICES ASSUME Init PROVE OrderInv
  OBVIOUS
<1>1. \A m \in Messages : task[m].pc = "none"
  BY DEF Init, NoTask
<1>2. LockIsHeld
  BY <1>1 DEF LockIsHeld, Inside
<1>3. ~Shared => \A g, h \in deployment.running : g = h
  <2>1. deployment.running \subseteq Gateways /\ deployment.backend \in {"memory", "mysql"}
    BY DEF Init
  <2>2. deployment.backend = "memory" => Cardinality(deployment.running) = 1
    BY DEF Init
  <2>3. IsFiniteSet(deployment.running)
    BY <2>1, GatewayConstants, FS_Subset
  <2>4. ~Shared => \E x : deployment.running = {x}
    BY <2>1, <2>2, <2>3, FS_Singleton DEF Shared
  <2> QED
    BY <2>4
<1>4. Sorted(<<>>) /\ Distinct(<<>>) /\ Elems(<<>>) = {}
  BY DEF Sorted, Distinct, Elems
<1>5. MemoryOrder
  <2>1. NobodyOvertakes
    BY <1>1 DEF NobodyOvertakes, InLine, AtLock, Inside
  <2>2. QueuesAreSorted /\ ArrivalsAreTasks
    BY <1>1, <1>4 DEF Init, QueuesAreSorted, ArrivalsAreTasks
  <2> QED
    BY <1>1, <1>3, <2>1, <2>2 DEF MemoryOrder, OneProcess
<1> QED
  BY <1>2, <1>5, TypeInit DEF OrderInv

\* a step that takes nobody forward in the line
LEMMA QuietOrder ==
  ASSUME OrderInv, TypeInv',
         deployment' = deployment, arrivals' = arrivals,
         \A m \in Messages :
           /\ task'[m].at = task[m].at
           /\ task'[m].pc = "none" <=> task[m].pc = "none"
           /\ \/ task'[m].pc = task[m].pc
              \/ task[m].pc \in AtLock /\ task'[m].pc \in AtLock
              \/ task'[m].pc \notin InLine,
         \A g \in Gateways :
           /\ Thins(inbound'[g], inbound[g]) /\ Thins(spawned'[g], spawned[g])
           /\ Thins(slotq'[g], slotq[g])
           /\ \A c \in Conversations : Thins(lockq'[g][c], lockq[g][c])
  PROVE  MemoryOrder'
<1> SUFFICES ASSUME ~Shared PROVE (OneProcess /\ ArrivalsAreTasks /\ NobodyOvertakes /\ QueuesAreSorted)'
  BY DEF MemoryOrder, Shared
<1>1. OneProcess /\ ArrivalsAreTasks /\ NobodyOvertakes /\ QueuesAreSorted
  BY DEF OrderInv, MemoryOrder
<1>2. OneProcess' /\ ArrivalsAreTasks'
  BY <1>1 DEF OneProcess, ArrivalsAreTasks
<1>3. \A m, n : Before(m, n)' <=> Before(m, n)
  BY DEF Before
<1>4. NobodyOvertakes'
  <2> SUFFICES ASSUME NEW m \in Messages, NEW n \in Messages, Before(m, n),
                      task'[n].pc \in InLine
               PROVE  Rank(task'[n].pc) <= Rank(task'[m].pc)
    BY <1>3 DEF NobodyOvertakes
  <2>1. task[n].pc \in InLine /\ Rank(task'[n].pc) = Rank(task[n].pc)
    BY DEF InLine, AtLock, Inside, Rank
  <2>2. Rank(task[n].pc) <= Rank(task[m].pc)
    BY <1>1, <2>1 DEF NobodyOvertakes
  <2>3. Rank(task'[m].pc) = Rank(task[m].pc) \/ Rank(task'[m].pc) = 3
    BY DEF InLine, AtLock, Inside, Rank
  <2>4. \A p : Rank(p) \in {0, 1, 2, 3}
    BY DEF Rank
  <2>5. Rank(task[n].pc) <= 3
    BY <2>4
  <2> QED
    BY <2>1, <2>2, <2>3, <2>5
<1>5. QueuesAreSorted'
  <2>1. \A s : Sorted(s)' <=> Sorted(s)
    BY <1>3 DEF Sorted
  <2>2. \A g \in Gateways :
          /\ Sorted(inbound'[g]) /\ Sorted(spawned'[g]) /\ Sorted(slotq'[g])
          /\ \A c \in Conversations : Sorted(lockq'[g][c])
    BY <1>1, ThinnedIsSorted DEF QueuesAreSorted
  <2> QED
    BY <1>3, <2>2 DEF QueuesAreSorted, Sorted
<1> QED
  BY <1>2, <1>4, <1>5

\* the first of one queue goes on to the end of the next
LEMMA HeadGoesOn ==
  ASSUME OrderInv, TypeInv', ~Shared,
         deployment' = deployment, arrivals' = arrivals,
         NEW m \in Messages, NEW from \in Seq(Messages),
         NEW pc, NEW pcs,
         from # <<>>, Head(from) = m, Sorted(from),
         Elems(from) = Standing(task[m].at, {task[m].pc}),
         \/ task[m].pc = "queued" /\ pc = "claiming"
         \/ task[m].pc = "claiming" /\ pc = "waiting"
         \/ task[m].pc = "waiting" /\ pc = "locking",
         task'[m].pc = pc, task'[m].at = task[m].at,
         \A n \in Messages : n # m => task'[n] = task[n]
  PROVE  /\ (OneProcess /\ ArrivalsAreTasks /\ NobodyOvertakes)'
         /\ \A x \in Messages : task[x].pc \in InLine /\ Rank(task[x].pc) = Rank(pc)
                                => Before(x, m)
<1>1. OneProcess /\ ArrivalsAreTasks /\ NobodyOvertakes
  BY DEF OrderInv, MemoryOrder
<1>2. arrivals \in Seq(Messages)
  BY TypeOKDef DEF OrderInv, TypeInv
<1>3. \A a, b : Before(a, b)' <=> Before(a, b)
  BY DEF Before
<1>4. OneProcess' /\ ArrivalsAreTasks'
  BY <1>1 DEF OneProcess, ArrivalsAreTasks
<1>5. Rank(pc) = Rank(task[m].pc) + 1 /\ Rank(task[m].pc) \in {0, 1, 2}
  BY DEF Rank
<1>6. \A p : Rank(p) \in {0, 1, 2, 3}
  BY DEF Rank
<1>7. \A x \in Messages : task[x].pc \in InLine /\ Rank(task[x].pc) = Rank(pc) => Before(x, m)
  <2> SUFFICES ASSUME NEW x \in Messages, task[x].pc \in InLine, Rank(task[x].pc) = Rank(pc)
               PROVE  Before(x, m)
    OBVIOUS
  <2>1. x \in Elems(arrivals) /\ m \in Elems(arrivals) /\ x # m
    BY <1>1, <1>5 DEF ArrivalsAreTasks, InLine, AtLock, Inside
  <2>2. ~Before(m, x)
    BY <1>1, <1>5 DEF NobodyOvertakes
  <2> QED
    BY <1>1, <1>2, <2>1, <2>2, BeforeIsOrder DEF ArrivalsAreTasks
<1>8. NobodyOvertakes'
  <2> SUFFICES ASSUME NEW a \in Messages, NEW b \in Messages, Before(a, b),
                      task'[b].pc \in InLine
               PROVE  Rank(task'[b].pc) <= Rank(task'[a].pc)
    BY <1>3 DEF NobodyOvertakes
  <2>1. CASE b # m
    <3>1. task'[b] = task[b] /\ Rank(task[b].pc) <= Rank(task[a].pc)
      BY <1>1, <2>1 DEF NobodyOvertakes
    <3>2. Rank(task[a].pc) <= Rank(task'[a].pc)
      BY <1>5, <1>6
    <3> QED
      BY <1>6, <3>1, <3>2
  <2>2. CASE b = m
    <3>1. a # m
      BY <1>1, <1>2, <2>2, BeforeIsOrder DEF ArrivalsAreTasks
    <3>2. Rank(task[m].pc) <= Rank(task[a].pc)
      BY <1>1, <2>2 DEF NobodyOvertakes, InLine
    <3>3. Rank(task[a].pc) # Rank(task[m].pc)
      <4> SUFFICES ASSUME Rank(task[a].pc) = Rank(task[m].pc) PROVE FALSE
        OBVIOUS
      <4>1. task[a].pc = task[m].pc
        BY DEF Rank
      <4>2. a \in Elems(arrivals) /\ task[a].at = task[m].at
        <5>1. task[a].pc # "none" /\ task[m].pc # "none"
          BY <4>1
        <5> QED
          BY <1>1, <5>1 DEF ArrivalsAreTasks, OneProcess
      <4>3. a \in Elems(from)
        BY <4>1, <4>2 DEF Standing
      <4>4. Before(m, a)
        BY <3>1, <4>3, HeadIsFirst
      <4> QED
        BY <1>1, <1>2, <2>2, <4>4, BeforeIsOrder DEF ArrivalsAreTasks
    <3>4. Rank(task[m].pc) + 1 <= Rank(task[a].pc)
      BY <1>6, <3>2, <3>3
    <3> QED
      BY <1>5, <2>2, <3>1, <3>4
  <2> QED
    BY <2>1, <2>2
<1> QED
  BY <1>4, <1>7, <1>8

LEMMA ThinsItself ==
  \A s : Thins(s, s) /\ Thins(<<>>, s)
BY DEF Thins

\* a task leaves the semaphore and the lock: nobody else moves
LEMMA LeavingOrder ==
  ASSUME OrderInv, TypeInv', NEW m \in Messages,
         NEW pc \in {"failing", "cancelled", "releasing"},
         task[m].pc \in {"waiting"} \cup AtLock, Goes(m, pc), Leaves(m),
         deployment' = deployment, arrivals' = arrivals
  PROVE  OrderInv'
<1> DEFINE g == task[m].at
           c == Conv(m)
<1>1. /\ g \in Gateways /\ c \in Conversations
  BY GatewayConstants DEF OrderInv, TypeInv, TasksAreSited, AtLock, Inside, Conv
<1>2. TypeInv /\ QueuesTyped
  BY QueueTypes DEF OrderInv
<1>3. /\ task'[m].pc = pc /\ task'[m].at = g
      /\ \A n \in Messages : n # m => task'[n] = task[n]
  BY <1>2, QueueTypes, TaskGoes DEF Pcs, Sited
<1>4. /\ slotq' = [slotq EXCEPT ![g] = Waiting(slotq[g], m)]
      /\ lockq' = [lockq EXCEPT ![g] = [lockq[g] EXCEPT ![c] = Waiting(lockq[g][c], m)]]
      /\ inbound' = inbound /\ spawned' = spawned
  BY DEF Leaves
<1>5. /\ Thins(Waiting(slotq[g], m), slotq[g]) /\ Thins(Waiting(lockq[g][c], m), lockq[g][c])
      /\ Distinct(lockq[g][c]) /\ lockq[g][c] \in Seq(Messages)
  BY <1>1, <1>2, QueueTypes, WaitingRemoves
<1> HIDE DEF g, c
<1>6. \A h \in Gateways : slotq'[h] = IF h = g THEN Waiting(slotq[g], m) ELSE slotq[h]
  BY <1>1, <1>2, <1>4 DEF QueuesTyped
<1>7. \A h \in Gateways, d \in Conversations :
        lockq'[h][d] = IF h = g /\ d = c THEN Waiting(lockq[g][c], m) ELSE lockq[h][d]
  BY <1>1, <1>2, <1>4 DEF QueuesTyped
<1>8. MemoryOrder'
  <2>1. \A h \in Gateways : /\ Thins(inbound'[h], inbound[h]) /\ Thins(spawned'[h], spawned[h])
                            /\ Thins(slotq'[h], slotq[h])
                            /\ \A d \in Conversations : Thins(lockq'[h][d], lockq[h][d])
    BY <1>4, <1>5, <1>6, <1>7, ThinsItself
  <2>2. \A n \in Messages :
          /\ task'[n].at = task[n].at
          /\ task'[n].pc = "none" <=> task[n].pc = "none"
          /\ \/ task'[n].pc = task[n].pc
             \/ task[n].pc \in AtLock /\ task'[n].pc \in AtLock
             \/ task'[n].pc \notin InLine
    BY <1>3 DEF g, InLine, AtLock, Inside
  <2> QED
    BY <2>1, <2>2, QuietOrder
<1>9. LockIsHeld'
  <2> SUFFICES ASSUME NEW n \in Messages, task'[n].pc \in Inside
               PROVE  Head(lockq'[task'[n].at][Conv(n)]) = n
    BY DEF LockIsHeld, Conv
  <2>1. n # m /\ task'[n] = task[n] /\ Head(lockq[task[n].at][Conv(n)]) = n
    BY <1>3 DEF OrderInv, LockIsHeld, Inside
  <2>2. task[n].at \in Gateways /\ Conv(n) \in Conversations
    BY <1>2, <2>1, GatewayConstants DEF TypeInv, TasksAreSited, Inside, Conv
  <2>3. CASE task[n].at = g /\ Conv(n) = c
    <3>1. n \in Elems(lockq[g][c])
      BY <1>1, <1>2, <2>1, <2>3 DEF TypeInv, QueuesHoldTasks, Standing, AtLock
    <3>2. lockq[g][c] # <<>>
      BY <3>1 DEF Elems
    <3> QED
      BY <1>1, <1>5, <1>7, <2>1, <2>3, <3>2, HeadKept
  <2>4. CASE ~(task[n].at = g /\ Conv(n) = c)
    BY <1>7, <2>1, <2>2, <2>4
  <2> QED
    BY <2>3, <2>4
<1> QED
  BY <1>8, <1>9 DEF OrderInv

\* a step that leaves every queue as it is
LEMMA StayingOrder ==
  ASSUME OrderInv, TypeInv', UNCHANGED queues,
         deployment' = deployment, arrivals' = arrivals,
         \A m \in Messages :
           /\ task'[m].at = task[m].at
           /\ task'[m].pc = "none" <=> task[m].pc = "none"
           /\ \/ task'[m].pc = task[m].pc
              \/ task[m].pc \in AtLock /\ task'[m].pc \in AtLock
              \/ task'[m].pc \notin InLine
           /\ task'[m].pc \in Inside /\ task[m].pc \notin Inside
                => Head(lockq[task[m].at][Conv(m)]) = m
  PROVE  OrderInv'
<1>1. MemoryOrder'
  BY QuietOrder, ThinsItself DEF queues
<1>2. LockIsHeld'
  BY DEF OrderInv, LockIsHeld, queues, Conv
<1> QED
  BY <1>1, <1>2 DEF OrderInv

\* the answer to a claim, or a cancelled one: the task leaves `spawned`
LEMMA RefusedOrder ==
  ASSUME OrderInv, TypeInv', NEW m \in Messages, task[m].pc = "claiming", Goes(m, "done"),
         spawned' = [spawned EXCEPT ![task[m].at] = Waiting(spawned[task[m].at], m)],
         UNCHANGED <<inbound, slotq, lockq>>,
         deployment' = deployment, arrivals' = arrivals
  PROVE  OrderInv'
<1>1. task[m].at \in Gateways
  BY DEF OrderInv, TypeInv, TasksAreSited
<1>2. TypeInv /\ QueuesTyped
  BY QueueTypes DEF OrderInv
<1>3. /\ task'[m].pc = "done" /\ task'[m].at = task[m].at
      /\ \A n \in Messages : n # m => task'[n] = task[n]
  BY <1>2, QueueTypes, TaskGoes DEF Pcs, Sited
<1>4. Thins(Waiting(spawned[task[m].at], m), spawned[task[m].at])
  BY <1>1, <1>2, QueueTypes, WaitingRemoves
<1>5. \A h \in Gateways : Thins(spawned'[h], spawned[h])
  BY <1>1, <1>2, <1>4, ThinsItself DEF QueuesTyped
<1>6. MemoryOrder'
  <2>1. \A h \in Gateways : /\ Thins(inbound'[h], inbound[h]) /\ Thins(slotq'[h], slotq[h])
                            /\ \A d \in Conversations : Thins(lockq'[h][d], lockq[h][d])
    BY ThinsItself
  <2>2. \A n \in Messages :
          /\ task'[n].at = task[n].at
          /\ task'[n].pc = "none" <=> task[n].pc = "none"
          /\ task'[n].pc = task[n].pc \/ task'[n].pc \notin InLine
    BY <1>3 DEF InLine, AtLock, Inside
  <2> QED
    BY <1>5, <2>1, <2>2, QuietOrder
<1>7. LockIsHeld'
  BY <1>3 DEF OrderInv, LockIsHeld, Conv, Inside
<1> QED
  BY <1>6, <1>7 DEF OrderInv

LEMMA CrashOrder ==
  ASSUME OrderInv, TypeInv', NEW g \in Gateways, Crash(g)
  PROVE  OrderInv'
<1>1. TypeInv /\ QueuesTyped /\ QueuesTyped'
  BY QueueTypes, CrashStep DEF OrderInv
<1>2. task' = [m \in Messages |-> IF task[m].at = g /\ task[m].pc # "none"
                                  THEN [task[m] EXCEPT !.pc = "done"] ELSE task[m]]
  BY DEF Crash
<1>3. \A m \in Messages : /\ [task[m] EXCEPT !.pc = "done"].pc = "done"
                          /\ [task[m] EXCEPT !.pc = "done"].at = task[m].at
  BY <1>1, QueueTypes DEF Tasks, Pcs
<1>4. \A m \in Messages : /\ task'[m].at = task[m].at
                          /\ task'[m].pc = "none" <=> task[m].pc = "none"
                          /\ task'[m].pc = task[m].pc \/ task'[m].pc = "done"
                          /\ task[m].at = g => task'[m].pc \in {"none", "done"}
                          /\ task[m].at # g => task'[m] = task[m]
  BY <1>2, <1>3
<1>5. /\ inbound' = [inbound EXCEPT ![g] = <<>>] /\ spawned' = [spawned EXCEPT ![g] = <<>>]
      /\ slotq' = [slotq EXCEPT ![g] = <<>>]
      /\ lockq' = [lockq EXCEPT ![g] = [c \in Conversations |-> <<>>]]
      /\ deployment' = deployment /\ arrivals' = arrivals
  BY DEF Crash, ghosts
<1>6. \A h \in Gateways : /\ inbound'[h] = IF h = g THEN <<>> ELSE inbound[h]
                          /\ spawned'[h] = IF h = g THEN <<>> ELSE spawned[h]
                          /\ slotq'[h] = IF h = g THEN <<>> ELSE slotq[h]
                          /\ \A c \in Conversations :
                               lockq'[h][c] = IF h = g THEN <<>> ELSE lockq[h][c]
  BY <1>1, <1>5 DEF QueuesTyped
<1>7. MemoryOrder'
  <2>1. \A h \in Gateways : /\ Thins(inbound'[h], inbound[h]) /\ Thins(spawned'[h], spawned[h])
                            /\ Thins(slotq'[h], slotq[h])
                            /\ \A d \in Conversations : Thins(lockq'[h][d], lockq[h][d])
    BY <1>6, ThinsItself
  <2>2. "done" \notin InLine
    BY DEF InLine, AtLock, Inside
  <2> QED
    BY <1>4, <1>5, <2>1, <2>2, QuietOrder
<1>8. LockIsHeld'
  <2> SUFFICES ASSUME NEW n \in Messages, task'[n].pc \in Inside
               PROVE  Head(lockq'[task'[n].at][Conv(n)]) = n
    BY DEF LockIsHeld, Conv
  <2>1. task[n].at # g /\ task'[n] = task[n]
    BY <1>4 DEF Inside
  <2>2. task[n].at \in Gateways /\ Conv(n) \in Conversations
    BY <1>1, <2>1, GatewayConstants DEF TypeInv, TasksAreSited, Inside, Conv
  <2> QED
    BY <1>6, <2>1, <2>2 DEF OrderInv, LockIsHeld
<1> QED
  BY <1>7, <1>8 DEF OrderInv

\* the same, for any sequence of arrivals
Ahead(a, m, n) == \E i, j \in DOMAIN a : i < j /\ a[i] = m /\ a[j] = n
InOrder(a, q) == \A i, j \in DOMAIN q : i < j => Ahead(a, q[i], q[j])

LEMMA LastArrival ==
  ASSUME NEW a \in Seq(Messages), NEW m \in Messages
  PROVE  /\ \A x, y : Ahead(a, x, y) => Ahead(Append(a, m), x, y)
         /\ \A x \in Elems(a) : Ahead(Append(a, m), x, m)
         /\ \A x, y : Ahead(Append(a, m), x, y) => Ahead(a, x, y) \/ (y = m /\ x \in Elems(a))
<1> DEFINE b == Append(a, m)
<1>1. /\ DOMAIN b = 1..(Len(a) + 1) /\ DOMAIN a = 1..Len(a) /\ Len(a) \in Nat
      /\ \A i \in DOMAIN a : b[i] = a[i]
      /\ b[Len(a) + 1] = m
  OBVIOUS
<1> HIDE DEF b
<1>2. \A x, y : Ahead(a, x, y) => Ahead(b, x, y)
  BY <1>1 DEF Ahead
<1>3. ASSUME NEW x \in Elems(a) PROVE Ahead(b, x, m)
  <2>1. PICK i \in DOMAIN a : a[i] = x
    BY DEF Elems
  <2>2. i < Len(a) + 1 /\ i \in DOMAIN b /\ Len(a) + 1 \in DOMAIN b
    BY <1>1
  <2> QED
    BY <1>1, <2>1, <2>2 DEF Ahead
<1>4. ASSUME NEW x, NEW y, Ahead(b, x, y)
      PROVE  Ahead(a, x, y) \/ (y = m /\ x \in Elems(a))
  <2>1. PICK i \in DOMAIN b, j \in DOMAIN b : i < j /\ b[i] = x /\ b[j] = y
    BY <1>4 DEF Ahead
  <2>2. i \in DOMAIN a /\ a[i] = x
    BY <1>1, <2>1
  <2>3. CASE j \in DOMAIN a
    BY <1>1, <2>1, <2>2, <2>3 DEF Ahead
  <2>4. CASE j = Len(a) + 1
    BY <1>1, <2>1, <2>2, <2>4 DEF Elems
  <2> QED
    BY <1>1, <2>3, <2>4
<1> QED
  BY <1>2, <1>3, <1>4 DEF b

LEMMA InOrderAppend ==
  ASSUME NEW a, NEW q \in Seq(Messages), NEW m \in Messages, InOrder(a, q),
         \A x \in Elems(q) : Ahead(a, x, m)
  PROVE  InOrder(a, Append(q, m))
<1> DEFINE t == Append(q, m)
<1>1. /\ DOMAIN q = 1..Len(q) /\ Len(q) \in Nat /\ DOMAIN t = 1..(Len(q) + 1)
      /\ \A i \in DOMAIN q : t[i] = q[i]
      /\ t[Len(q) + 1] = m
  OBVIOUS
<1> HIDE DEF t
<1>2. ASSUME NEW i \in DOMAIN t, NEW j \in DOMAIN t, i < j PROVE Ahead(a, t[i], t[j])
  <2>1. i \in DOMAIN q
    BY <1>1, <1>2
  <2>2. CASE j \in DOMAIN q
    BY <1>1, <1>2, <2>1, <2>2 DEF InOrder
  <2>3. CASE j = Len(q) + 1
    BY <1>1, <2>1, <2>3 DEF Elems
  <2> QED
    BY <1>1, <2>2, <2>3
<1> QED
  BY <1>2 DEF InOrder, t

LEMMA OrderOfArrivals ==
  /\ \A m, n : Before(m, n) <=> Ahead(arrivals, m, n)
  /\ \A q : Sorted(q) <=> InOrder(arrivals, q)
BY DEF Before, Ahead, Sorted, InOrder

\* a new arrival comes last
LEMMA ArriveOrder ==
  ASSUME OrderInv, TypeInv', NEW m \in Messages, NEW g \in Gateways, Arrive(m, g)
  PROVE  OrderInv'
<1>1. /\ task[m].pc = "none" /\ inbound' = [inbound EXCEPT ![g] = Append(inbound[g], m)]
      /\ task' = [task EXCEPT ![m] = NewTask(m, g)]
      /\ UNCHANGED <<deployment, spawned, slotq, lockq>>
      /\ g \in deployment.running
      /\ arrivals' = IF Shared THEN arrivals ELSE Append(arrivals, m)
  BY DEF Arrive, NoTask, NewTask
<1>2. TypeInv /\ QueuesTyped /\ task \in [Messages -> Tasks]
  BY QueueTypes DEF OrderInv
<1>3. /\ task'[m].pc = "queued" /\ task'[m].at = g
      /\ \A n \in Messages : n # m => task'[n] = task[n]
  <2>1. NewTask(m, g).pc = "queued" /\ NewTask(m, g).at = g
    BY DEF NewTask
  <2> QED
    BY <1>1, <1>2, <2>1
<1>4. LockIsHeld'
  BY <1>1, <1>3 DEF OrderInv, LockIsHeld, Conv, Inside
<1>5. ASSUME ~Shared
      PROVE  (OneProcess /\ ArrivalsAreTasks /\ NobodyOvertakes /\ QueuesAreSorted)'
  <2>1. OneProcess /\ ArrivalsAreTasks /\ NobodyOvertakes /\ QueuesAreSorted
    BY <1>5 DEF OrderInv, MemoryOrder
  <2>2. arrivals' = Append(arrivals, m) /\ arrivals \in Seq(Messages) /\ Distinct(arrivals)
    BY <1>1, <1>2, <1>5, <2>1, TypeOKDef DEF TypeInv, ArrivalsAreTasks
  <2>3. m \notin Elems(arrivals) /\ \A i \in DOMAIN arrivals : arrivals[i] # m
    BY <1>1, <2>1 DEF ArrivalsAreTasks, Elems
  <2>4. Distinct(arrivals') /\ Elems(arrivals') = Elems(arrivals) \cup {m}
    BY <2>2, <2>3, AppendKeepsDistinct, QueueElems
  <2>5. \A x, y : Before(x, y)' <=> Ahead(Append(arrivals, m), x, y)
    BY <2>2 DEF Before, Ahead
  <2>8. \A x, y : Before(x, y)' => Before(x, y) \/ (y = m /\ x \in Elems(arrivals))
    BY <2>2, <2>5, LastArrival, OrderOfArrivals
  <2>9. OneProcess' /\ ArrivalsAreTasks'
    BY <1>1, <1>3, <2>1, <2>4 DEF OneProcess, ArrivalsAreTasks
  <2>10. NobodyOvertakes'
    <3> SUFFICES ASSUME NEW a \in Messages, NEW b \in Messages, Before(a, b)',
                        task'[b].pc \in InLine
                 PROVE  Rank(task'[b].pc) <= Rank(task'[a].pc)
      BY DEF NobodyOvertakes
    <3>1. \A p : Rank(p) \in {0, 1, 2, 3}
      BY DEF Rank
    <3>2. CASE b = m
      <4>1. Rank(task'[b].pc) = 0
        BY <1>3, <3>2 DEF Rank
      <4> QED
        BY <3>1, <4>1
    <3>3. CASE b # m
      <4>1. Before(a, b) /\ a \in Elems(arrivals)
        BY <2>8, <3>3 DEF Before, Elems
      <4>2. a # m
        BY <2>3, <4>1
      <4> QED
        BY <1>3, <2>1, <3>3, <4>1, <4>2 DEF NobodyOvertakes
    <3> QED
      BY <3>2, <3>3
  <2>11. \A q : Sorted(q) => InOrder(Append(arrivals, m), q)
    BY <2>2, LastArrival, OrderOfArrivals DEF InOrder
  <2>12. \A x \in Elems(inbound[g]) : Ahead(Append(arrivals, m), x, m)
    <3>1. \A x \in Elems(inbound[g]) : x \in Messages /\ task[x].pc # "none"
      BY <1>2 DEF TypeInv, QueuesHoldTasks, Standing
    <3> QED
      BY <2>1, <2>2, <3>1, LastArrival DEF ArrivalsAreTasks
  <2>13. InOrder(Append(arrivals, m), Append(inbound[g], m))
    BY <1>2, <2>1, <2>11, <2>12, QueueTypes, InOrderAppend DEF QueuesAreSorted
  <2>14. \A h \in Gateways : inbound'[h] = IF h = g THEN Append(inbound[g], m) ELSE inbound[h]
    BY <1>1, <1>2 DEF QueuesTyped
  <2>15. \A h \in Gateways :
           /\ InOrder(arrivals', inbound'[h]) /\ InOrder(arrivals', spawned'[h])
           /\ InOrder(arrivals', slotq'[h])
           /\ \A c \in Conversations : InOrder(arrivals', lockq'[h][c])
    BY <1>1, <2>1, <2>2, <2>11, <2>13, <2>14 DEF QueuesAreSorted
  <2>16. QueuesAreSorted'
    BY <2>15 DEF QueuesAreSorted, Sorted, InOrder, Before, Ahead
  <2> QED
    BY <2>9, <2>10, <2>16
<1> QED
  BY <1>1, <1>4, <1>5 DEF OrderInv, MemoryOrder, Shared

\* A queue that takes the message that goes on, all earlier ones being in it or
\* past it, stays sorted.
LEMMA SortedQueues ==
  ASSUME OrderInv, arrivals' = arrivals, ~Shared,
         \A g \in Gateways :
           /\ Sorted(inbound'[g]) /\ Sorted(spawned'[g]) /\ Sorted(slotq'[g])
           /\ \A c \in Conversations : Sorted(lockq'[g][c])
  PROVE  QueuesAreSorted'
BY DEF QueuesAreSorted, Sorted, Before

LEMMA ConsumeOrder ==
  ASSUME OrderInv, TypeInv', NEW g \in Gateways, Consume(g)
  PROVE  OrderInv'
<1> DEFINE m == Head(inbound[g])
<1>1. TypeInv /\ QueuesTyped /\ task \in [Messages -> Tasks]
  BY QueueTypes DEF OrderInv
<1>2. /\ m \in Messages /\ task[m].pc = "queued" /\ task[m].at = g /\ inbound[g] # <<>>
      /\ Goes(m, "claiming")
      /\ inbound' = [inbound EXCEPT ![g] = Tail(inbound[g])]
      /\ spawned' = [spawned EXCEPT ![g] = Append(spawned[g], m)]
      /\ UNCHANGED <<slotq, lockq, deployment, arrivals>>
  BY <1>1, ConsumeStep DEF Consume, ghosts
<1>h. Head(inbound[g]) = m
  OBVIOUS
<1> HIDE DEF m
<1>3. /\ task'[m].pc = "claiming" /\ task'[m].at = task[m].at
      /\ \A n \in Messages : n # m => task'[n] = task[n]
  BY <1>1, <1>2, TaskGoes DEF Pcs, Sited
<1>4. LockIsHeld'
  BY <1>2, <1>3 DEF OrderInv, LockIsHeld, Conv, Inside
<1>5. ASSUME ~Shared
      PROVE  (OneProcess /\ ArrivalsAreTasks /\ NobodyOvertakes /\ QueuesAreSorted)'
  <2>1. QueuesAreSorted
    BY <1>5 DEF OrderInv, MemoryOrder
  <2>2. /\ inbound[g] \in Seq(Messages) /\ Distinct(inbound[g])
        /\ Elems(inbound[g]) = Standing(g, {"queued"})
        /\ spawned[g] \in Seq(Messages) /\ Elems(spawned[g]) = Standing(g, {"claiming"})
        /\ Sorted(inbound[g]) /\ Sorted(spawned[g])
    BY <1>1, <2>1, QueueTypes DEF TypeInv, QueuesHoldTasks, QueuesAreSorted
  <2>3. Elems(inbound[g]) = Standing(task[m].at, {task[m].pc})
    BY <1>2, <2>2
  <2>4. /\ (OneProcess /\ ArrivalsAreTasks /\ NobodyOvertakes)'
        /\ \A x \in Messages : task[x].pc \in InLine /\ Rank(task[x].pc) = Rank("claiming")
                               => Before(x, m)
    BY <1>2, <1>h, <1>3, <1>5, <2>2, <2>3, HeadGoesOn
  <2>5. \A x \in Elems(spawned[g]) : Before(x, m)
    BY <2>2, <2>4 DEF Standing, InLine
  <2>6. Sorted(Append(spawned[g], m))
    BY <1>2, <2>2, <2>5, SortedAppend
  <2>7. Sorted(Tail(inbound[g]))
    BY <1>2, <2>2, TailThins, ThinnedIsSorted
  <2>8. \A h \in Gateways :
          /\ inbound'[h] = IF h = g THEN Tail(inbound[g]) ELSE inbound[h]
          /\ spawned'[h] = IF h = g THEN Append(spawned[g], m) ELSE spawned[h]
    BY <1>1, <1>2 DEF QueuesTyped
  <2>9. QueuesAreSorted'
    BY <1>2, <1>5, <2>1, <2>6, <2>7, <2>8, SortedQueues DEF QueuesAreSorted
  <2> QED
    BY <2>4, <2>9
<1> QED
  BY <1>2, <1>4, <1>5 DEF OrderInv, MemoryOrder, Shared

LEMMA AcceptedOrder ==
  ASSUME OrderInv, TypeInv', NEW m \in Messages, ClaimAccepted(m)
  PROVE  OrderInv'
<1> DEFINE g == task[m].at
<1>1. TypeInv /\ QueuesTyped /\ task \in [Messages -> Tasks]
  BY QueueTypes DEF OrderInv
<1>2. /\ task[m].pc = "claiming" /\ Goes(m, "waiting")
      /\ Shared \/ m = Head(spawned[g])
      /\ spawned' = [spawned EXCEPT ![g] = Waiting(spawned[g], m)]
      /\ slotq' = [slotq EXCEPT ![g] = Append(slotq[g], m)]
      /\ UNCHANGED <<inbound, lockq, deployment, arrivals>>
  BY DEF ClaimAccepted, Answers
<1>3. g \in Gateways /\ task[m].at = g
  BY <1>1, <1>2 DEF TypeInv, TasksAreSited
<1> HIDE DEF g
<1>4. /\ task'[m].pc = "waiting" /\ task'[m].at = task[m].at
      /\ \A n \in Messages : n # m => task'[n] = task[n]
  BY <1>1, <1>2, TaskGoes DEF Pcs, Sited
<1>5. LockIsHeld'
  BY <1>2, <1>4 DEF OrderInv, LockIsHeld, Conv, Inside
<1>6. ASSUME ~Shared
      PROVE  (OneProcess /\ ArrivalsAreTasks /\ NobodyOvertakes /\ QueuesAreSorted)'
  <2>1. QueuesAreSorted
    BY <1>6 DEF OrderInv, MemoryOrder
  <2>2. /\ spawned[g] \in Seq(Messages) /\ Distinct(spawned[g])
        /\ Elems(spawned[g]) = Standing(g, {"claiming"})
        /\ slotq[g] \in Seq(Messages) /\ Elems(slotq[g]) = Standing(g, {"waiting"})
        /\ Sorted(spawned[g]) /\ Sorted(slotq[g])
    BY <1>1, <1>3, <2>1, QueueTypes DEF TypeInv, QueuesHoldTasks, QueuesAreSorted
  <2>3. Elems(spawned[g]) = Standing(task[m].at, {task[m].pc}) /\ m \in Elems(spawned[g])
    BY <1>2, <1>3, <2>2 DEF Standing
  <2>4. spawned[g] # <<>> /\ Head(spawned[g]) = m
    BY <1>2, <1>6, <2>3 DEF Elems
  <2>5. /\ (OneProcess /\ ArrivalsAreTasks /\ NobodyOvertakes)'
        /\ \A x \in Messages : task[x].pc \in InLine /\ Rank(task[x].pc) = Rank("waiting")
                               => Before(x, m)
    BY <1>2, <1>4, <1>6, <2>2, <2>3, <2>4, HeadGoesOn
  <2>6. \A x \in Elems(slotq[g]) : Before(x, m)
    BY <2>2, <2>5 DEF Standing, InLine
  <2>7. Sorted(Append(slotq[g], m))
    BY <2>2, <2>6, SortedAppend
  <2>8. Sorted(Waiting(spawned[g], m))
    BY <2>2, WaitingRemoves, ThinnedIsSorted
  <2>9. \A h \in Gateways :
          /\ spawned'[h] = IF h = g THEN Waiting(spawned[g], m) ELSE spawned[h]
          /\ slotq'[h] = IF h = g THEN Append(slotq[g], m) ELSE slotq[h]
    BY <1>1, <1>2, <1>3 DEF QueuesTyped
  <2>10. QueuesAreSorted'
    BY <1>2, <1>6, <2>1, <2>7, <2>8, <2>9, SortedQueues DEF QueuesAreSorted
  <2> QED
    BY <2>5, <2>10
<1> QED
  BY <1>2, <1>5, <1>6 DEF OrderInv, MemoryOrder, Shared

LEMMA TakeSlotOrder ==
  ASSUME OrderInv, TypeInv', NEW g \in Gateways, TakeSlot(g)
  PROVE  OrderInv'
<1> DEFINE m == Head(slotq[g])
           c == Conv(m)
<1>1. TypeInv /\ QueuesTyped /\ task \in [Messages -> Tasks]
  BY QueueTypes DEF OrderInv
<1>2. /\ m \in Messages /\ task[m].pc = "waiting" /\ task[m].at = g /\ slotq[g] # <<>>
      /\ Goes(m, "locking")
      /\ slotq' = [slotq EXCEPT ![g] = Tail(slotq[g])]
      /\ lockq' = [lockq EXCEPT ![g] = [lockq[g] EXCEPT ![c] = Append(lockq[g][c], m)]]
      /\ UNCHANGED <<inbound, spawned, deployment, arrivals>>
  BY <1>1, TakeSlotStep DEF TakeSlot, ghosts
<1>c. c \in Conversations
  BY <1>2, GatewayConstants DEF Conv
<1>h. Head(slotq[g]) = m
  OBVIOUS
<1> HIDE DEF m
<1>3. /\ task'[m].pc = "locking" /\ task'[m].at = task[m].at
      /\ \A n \in Messages : n # m => task'[n] = task[n]
  BY <1>1, <1>2, TaskGoes DEF Pcs, Sited
<1> HIDE DEF c
<1>4. /\ \A h \in Gateways : slotq'[h] = IF h = g THEN Tail(slotq[g]) ELSE slotq[h]
      /\ \A h \in Gateways, d \in Conversations :
           lockq'[h][d] = IF h = g /\ d = c THEN Append(lockq[g][c], m) ELSE lockq[h][d]
  BY <1>1, <1>2, <1>c DEF QueuesTyped
<1>5. /\ lockq[g][c] \in Seq(Messages) /\ Distinct(lockq[g][c])
      /\ \A x \in Elems(lockq[g][c]) : x \in Messages /\ task[x].pc \in AtLock
  BY <1>1, <1>c, QueueTypes DEF TypeInv, QueuesHoldTasks, Standing
<1>6. LockIsHeld'
  <2> SUFFICES ASSUME NEW n \in Messages, task'[n].pc \in Inside
               PROVE  Head(lockq'[task'[n].at][Conv(n)]) = n
    BY DEF LockIsHeld, Conv
  <2>1. task'[n] = task[n] /\ task[n].pc \in Inside /\ Head(lockq[task[n].at][Conv(n)]) = n
    BY <1>3 DEF OrderInv, LockIsHeld, Inside
  <2>2. task[n].at \in Gateways /\ Conv(n) \in Conversations
    BY <1>1, <2>1, GatewayConstants DEF TypeInv, TasksAreSited, Inside, Conv
  <2>3. CASE task[n].at = g /\ Conv(n) = c
    <3>1. n \in Elems(lockq[g][c])
      BY <1>1, <1>c, <2>1, <2>3 DEF TypeInv, QueuesHoldTasks, Standing, AtLock
    <3>2. lockq[g][c] # <<>>
      BY <3>1 DEF Elems
    <3> QED
      BY <1>2, <1>c, <1>4, <1>5, <2>1, <2>3, <3>2, HeadKept
  <2>4. CASE ~(task[n].at = g /\ Conv(n) = c)
    BY <1>4, <2>1, <2>2, <2>4
  <2> QED
    BY <2>3, <2>4
<1>7. ASSUME ~Shared
      PROVE  (OneProcess /\ ArrivalsAreTasks /\ NobodyOvertakes /\ QueuesAreSorted)'
  <2>1. QueuesAreSorted
    BY <1>7 DEF OrderInv, MemoryOrder
  <2>2. /\ slotq[g] \in Seq(Messages) /\ Distinct(slotq[g])
        /\ Elems(slotq[g]) = Standing(g, {"waiting"})
        /\ Sorted(slotq[g]) /\ Sorted(lockq[g][c])
    BY <1>1, <1>c, <2>1, QueueTypes DEF TypeInv, QueuesHoldTasks, QueuesAreSorted
  <2>3. Elems(slotq[g]) = Standing(task[m].at, {task[m].pc})
    BY <1>2, <2>2
  <2>4. /\ (OneProcess /\ ArrivalsAreTasks /\ NobodyOvertakes)'
        /\ \A x \in Messages : task[x].pc \in InLine /\ Rank(task[x].pc) = Rank("locking")
                               => Before(x, m)
    BY <1>2, <1>h, <1>3, <1>7, <2>2, <2>3, HeadGoesOn
  <2>5. \A x \in Elems(lockq[g][c]) : Before(x, m)
    BY <1>5, <2>4 DEF InLine, AtLock, Inside, Rank
  <2>6. Sorted(Append(lockq[g][c], m))
    BY <1>2, <1>5, <2>2, <2>5, SortedAppend
  <2>7. Sorted(Tail(slotq[g]))
    BY <1>2, <2>2, TailThins, ThinnedIsSorted
  <2>8. QueuesAreSorted'
    BY <1>2, <1>4, <1>7, <2>1, <2>6, <2>7, SortedQueues DEF QueuesAreSorted
  <2> QED
    BY <2>4, <2>8
<1> QED
  BY <1>2, <1>6, <1>7 DEF OrderInv, MemoryOrder, Shared

LEMMA OrderStep == OrderInv /\ [Next]_vars => OrderInv'
<1> SUFFICES ASSUME OrderInv, [Next]_vars PROVE OrderInv'
  OBVIOUS
<1>t. TypeInv /\ TypeInv' /\ task \in [Messages -> Tasks]
  BY TypeStep, QueueTypes DEF OrderInv
<1>s. ASSUME NEW m \in Messages, NEW pc \in Pcs, Goes(m, pc), UNCHANGED queues,
             deployment' = deployment, arrivals' = arrivals,
             \/ task[m].pc \in Inside /\ pc \in Inside
             \/ task[m].pc \notin {"none"} /\ pc \in {"releasing", "done"}
      PROVE  OrderInv'
  <2>1. /\ task'[m].pc = pc /\ task'[m].at = task[m].at
        /\ \A n \in Messages : n # m => task'[n] = task[n]
    BY <1>t, <1>s, TaskGoes
  <2> QED
    BY <1>s, <1>t, <2>1, StayingOrder DEF InLine, AtLock, Inside
<1>1. ASSUME NEW m \in Messages, ClaimAccepted(m) PROVE OrderInv'
  BY <1>1, <1>t, AcceptedOrder
<1>2. ASSUME NEW m \in Messages, ClaimRefused(m) PROVE OrderInv'
  BY <1>2, <1>t, RefusedOrder DEF ClaimRefused, Answers, ghosts
<1>3. ASSUME NEW m \in Messages, CancelClaim(m) PROVE OrderInv'
  BY <1>3, <1>t, RefusedOrder DEF CancelClaim
<1>4. ASSUME NEW m \in Messages, AcquireLease(m) PROVE OrderInv'
  <2>1. /\ task[m].pc = "locking" /\ Head(lockq[task[m].at][Conv(m)]) = m
        /\ task' = [task EXCEPT ![m].pc = "leased", ![m].leased = TRUE]
        /\ UNCHANGED queues /\ deployment' = deployment /\ arrivals' = arrivals
    BY <1>4 DEF AcquireLease, HasLock, ghosts
  <2>2. /\ task'[m].pc = "leased" /\ task'[m].at = task[m].at
        /\ \A n \in Messages : n # m => task'[n] = task[n]
    BY <1>t, <2>1 DEF Tasks
  <2> QED
    BY <1>t, <2>1, <2>2, StayingOrder DEF InLine, AtLock, Inside
<1>5. ASSUME NEW m \in Messages,
             LeaseTimeout(m) \/ TurnFails(m) \/ ClaimLost(m) \/ Publish(m) \/ Cancel(m)
      PROVE  OrderInv'
  <2>1. PICK pc \in {"failing", "cancelled", "releasing"} : Goes(m, pc)
    BY <1>5 DEF LeaseTimeout, TurnFails, ClaimLost, Publish, Cancel
  <2>2. /\ task[m].pc \in {"waiting"} \cup AtLock /\ Leaves(m)
        /\ deployment' = deployment /\ arrivals' = arrivals
    BY <1>5 DEF LeaseTimeout, TurnFails, ClaimLost, Publish, Cancel, HasLock, AtLock, Inside, ghosts
  <2> QED
    BY <1>t, <2>1, <2>2, LeavingOrder
<1>6. ASSUME NEW m \in Messages, StartTurn(m) \/ Complete(m) PROVE OrderInv'
  <2>1. PICK pc \in Inside : Goes(m, pc)
    BY <1>6 DEF StartTurn, Complete, Inside
  <2>2. /\ task[m].pc \in Inside /\ UNCHANGED queues
        /\ deployment' = deployment /\ arrivals' = arrivals
    BY <1>6 DEF StartTurn, Complete, Inside, ghosts
  <2>3. pc \in Pcs
    BY DEF Pcs, Sited
  <2> QED
    BY <1>s, <2>1, <2>2, <2>3
<1>7. ASSUME NEW m \in Messages, Fail(m) \/ Release(m) \/ CancelCleanup(m) PROVE OrderInv'
  <2>1. PICK pc \in {"releasing", "done"} : Goes(m, pc)
    BY <1>7 DEF Fail, Release, CancelCleanup
  <2>2. /\ task[m].pc # "none" /\ UNCHANGED queues
        /\ deployment' = deployment /\ arrivals' = arrivals
    BY <1>7 DEF Fail, Release, CancelCleanup, ghosts
  <2>3. pc \in Pcs
    BY DEF Pcs, Sited
  <2> QED
    BY <1>s, <2>1, <2>2, <2>3
<1>8. ASSUME UNCHANGED <<queues, task, deployment, arrivals>> PROVE OrderInv'
  BY <1>8, <1>t, StayingOrder
<1>9. ASSUME NEW m \in Messages, Dispatch(m) PROVE OrderInv'
  BY <1>8, <1>9 DEF Dispatch, ghosts
<1>10. ASSUME NEW m \in Messages, NEW g \in Gateways, Arrive(m, g) PROVE OrderInv'
  BY <1>10, <1>t, ArriveOrder
<1>11. ASSUME NEW g \in Gateways, Consume(g) PROVE OrderInv'
  BY <1>11, <1>t, ConsumeOrder
<1>12. ASSUME NEW g \in Gateways, TakeSlot(g) PROVE OrderInv'
  BY <1>12, <1>t, TakeSlotOrder
<1>13. ASSUME NEW g \in Gateways, Crash(g) PROVE OrderInv'
  BY <1>13, <1>t, CrashOrder
<1>14. ASSUME NEW g \in Gateways, Stop(g) \/ DrainTimeout(g) PROVE OrderInv'
  BY <1>8, <1>14 DEF Stop, DrainTimeout, ghosts
<1>15. ASSUME NEW r \in Requests, ClaimLapses(r) PROVE OrderInv'
  BY <1>8, <1>15 DEF ClaimLapses, ghosts
<1>16. ASSUME NEW c \in Conversations, LeaseLapses(c) PROVE OrderInv'
  BY <1>8, <1>16 DEF LeaseLapses, ghosts
<1>17. CASE UNCHANGED vars
  BY <1>8, <1>17 DEF vars, ghosts
<1> QED
  BY <1>1, <1>2, <1>3, <1>4, <1>5, <1>6, <1>7, <1>9, <1>10, <1>11, <1>12, <1>13, <1>14, <1>15,
     <1>16, <1>17 DEF Next, TaskStep, GatewayStep

\* With the memory coordinator the turns of a conversation run in the order its
\* messages arrived, one at a time, however many messages wait and whichever of
\* them fail, are cancelled or are refused: bus, tasks, semaphore and session
\* lock are each first come, first served, and nobody overtakes between them.
THEOREM TurnsInOrder == Spec => []TurnsKeepArrivalOrder
<1>1. OrderInv => TurnsKeepArrivalOrder
  <2> SUFFICES ASSUME OrderInv, NEW m \in Messages, NEW n \in Messages, ~Shared,
                      Before(m, n), Conv(m) = Conv(n), task[n].pc \in Inside
               PROVE  task[m].pc \in {"failing", "cancelled", "releasing", "done"}
    BY DEF TurnsKeepArrivalOrder
  <2> DEFINE g == task[n].at
             q == lockq[g][Conv(n)]
  <2>1. /\ OneProcess /\ ArrivalsAreTasks /\ NobodyOvertakes /\ QueuesAreSorted
        /\ TypeInv /\ Head(q) = n
    BY DEF OrderInv, MemoryOrder, LockIsHeld
  <2>2. /\ g \in Gateways /\ Conv(n) \in Conversations /\ arrivals \in Seq(Messages)
    BY <2>1, GatewayConstants, TypeOKDef DEF TypeInv, TasksAreSited, Inside, Conv
  <2>3. ~Before(n, m) /\ m # n
    BY <2>1, <2>2, BeforeIsOrder DEF ArrivalsAreTasks
  <2>4. m \in Elems(arrivals) /\ task[m].pc # "none" /\ task[m].at = g
    <3>1. m \in Elems(arrivals)
      BY DEF Before, Elems
    <3>2. task[m].pc # "none" /\ task[n].pc # "none"
      BY <2>1, <3>1 DEF ArrivalsAreTasks, Inside
    <3> QED
      BY <2>1, <3>1, <3>2 DEF OneProcess
  <2>5. 3 <= Rank(task[m].pc)
    BY <2>1 DEF NobodyOvertakes, InLine, AtLock, Inside, Rank
  <2>6. task[m].pc \notin {"queued", "claiming", "waiting"}
    BY <2>5 DEF Rank
  <2>7. task[m].pc \notin AtLock
    <3> SUFFICES ASSUME task[m].pc \in AtLock PROVE FALSE
      OBVIOUS
    <3>1. m \in Elems(q) /\ Sorted(q) /\ q \in Seq(Messages)
      BY <2>1, <2>2, <2>4, QueueTypes DEF TypeInv, QueuesHoldTasks, Standing, QueuesAreSorted
    <3>2. q # <<>>
      BY <3>1 DEF Elems
    <3> QED
      BY <2>1, <2>3, <3>1, <3>2, HeadIsFirst
  <2>8. task[m].pc \in Pcs
    BY <2>1, QueueTypes DEF Tasks
  <2> QED
    BY <2>4, <2>6, <2>7, <2>8 DEF Pcs, Sited, AtLock, Inside
<1>2. Spec => []OrderInv
  BY OrderInit, OrderStep, PTL DEF Spec
<1> QED
  BY <1>1, <1>2, PTL

=============================================================================
