------------------------------- MODULE Gateway -------------------------------
(***************************************************************************)
(* The message gateway: one asyncio task per inbound message, the          *)
(* concurrency semaphore, the lock of each session, and the coordinator's  *)
(* request ledger and conversation leases, process-local or in MySQL.      *)
(*                                                                         *)
(*   deployment  coordinator backend and the gateway processes running     *)
(*   phase       the life of each process                                  *)
(*   inbound     MessageBus.inbound_queue of each process                  *)
(*   spawned     tasks created and not yet past coordinator.claim          *)
(*   slotq,lockq waiters of the semaphore; holder and waiters of a lock    *)
(*   task        one record per message: where its task is                 *)
(*   ledger      runtime_request_ledger, or InMemoryRuntimeCoordinator     *)
(*   lease       runtime_conversation_lease, likewise                      *)
(*   reply       what was put on the outbound queue for a message          *)
(*                                                                         *)
(* A step is what runs between two awaits that really suspend.  A sender   *)
(* is bound to its conversation (web and portal), so the session lock and  *)
(* the conversation lease guard the same key.  Two histories: the order of *)
(* arrival at a memory deployment, and requests retaken from a claim whose *)
(* lease had run out.                                                      *)
(***************************************************************************)
EXTENDS Naturals, Sequences, FiniteSets

CONSTANTS
  Gateways,       \* gateway processes, each with its worker_id
  Messages,       \* inbound messages; a resent request is another message
  Requests,       \* request ids with their conversation (RequestScope.key)
  Conversations,  \* RequestScope.conversation_key
  RequestOf,      \* [Messages -> Requests]
  BodyOf,         \* payload_digest of each message
  ConversationOf, \* [Requests -> Conversations]
  Nobody,         \* no process
  MaxConcurrency, \* the semaphore of a process
  MaxFaults       \* bound: stops, crashes and renewals that come too late

ASSUME GatewayConstants ==
  /\ RequestOf \in [Messages -> Requests]
  /\ DOMAIN BodyOf = Messages
  /\ ConversationOf \in [Requests -> Conversations]
  /\ Nobody \notin Gateways
  /\ IsFiniteSet(Gateways)
  /\ MaxConcurrency \in Nat \ {0}
  /\ MaxFaults \in Nat

VARIABLES deployment, phase, inbound, spawned, slotq, lockq, task,
          ledger, lease, reply, arrivals, lapsed, faults

queues == <<inbound, spawned, slotq, lockq>>
store == <<ledger, lease>>
ghosts == <<arrivals, lapsed>>
vars == <<deployment, phase, queues, task, store, reply, ghosts, faults>>

Conv(m) == ConversationOf[RequestOf[m]]
NoTask == [pc |-> "none", at |-> Nobody, leased |-> FALSE]
NoClaim == [status |-> "absent", owner |-> Nobody, body |-> Nobody, lease |-> "none"]
NoLease == [owner |-> Nobody, live |-> FALSE]
NoReply == [kind |-> "none", sent |-> FALSE]

Inside == {"leased", "running", "completed"}     \* holds the session lock
Sited == {"claiming", "waiting", "locking", "failing", "cancelled", "releasing"} \cup Inside

\* the waiters s without m, which deque.remove takes out wherever it stands
Waiting(s, m) ==
  LET at == CHOOSE i \in DOMAIN s : s[i] = m
  IN  IF \E i \in DOMAIN s : s[i] = m
      THEN [i \in 1..(Len(s) - 1) |-> s[IF i < at THEN i ELSE i + 1]]
      ELSE s

-----------------------------------------------------------------------------
(* RuntimeCoordinator, both backends *)

Shared == deployment.backend = "mysql"

\* claim: who may work on the request, by its row
RanOut(r) == Shared /\ ledger[r].status = "running" /\ ledger[r].lease = "expired"

\* mutant: a retry takes a running claim over whatever its lease
FreshIgnoringLease(r) ==
  \/ ledger[r].status \in {"absent", "retryable_failed"}
  \/ Shared /\ ledger[r].status = "running"

Fresh(r) == ledger[r].status \in {"absent", "retryable_failed"} \/ RanOut(r)

Conflict(m) ==
  /\ ledger[RequestOf[m]].body # BodyOf[m]
  /\ ledger[RequestOf[m]].status # "absent"
  /\ Shared \/ ledger[RequestOf[m]].status # "retryable_failed"

Running(m, g) == [status |-> "running", owner |-> g, body |-> BodyOf[m], lease |-> "live"]

\* mutant: MySQL asks for the owner only, too
MayCompleteAgain(r, g) == ledger[r].owner = g

\* complete: the memory backend asks for the owner only
MayComplete(r, g) ==
  ledger[r].owner = g /\ (Shared => ledger[r].status = "running")
Completed(r) == [ledger EXCEPT ![r].status = "completed", ![r].lease = "none"]

\* fail
Failed(r, g) ==
  IF ledger[r].owner = g /\ (Shared => ledger[r].status = "running")
  THEN [ledger EXCEPT ![r].status = "retryable_failed", ![r].lease = "expired"]
  ELSE ledger

\* acquire_conversation: free, expired, or this process's own
MayAcquire(c, g) == lease[c].owner \in {Nobody, g} \/ ~lease[c].live

\* release_conversation
Freed(c, g) == IF lease[c].owner = g THEN [lease EXCEPT ![c] = NoLease] ELSE lease

-----------------------------------------------------------------------------
Init ==
  /\ deployment \in {[backend |-> b, running |-> s] :
                       b \in {"memory", "mysql"}, s \in SUBSET Gateways \ {{}}}
  /\ deployment.backend = "memory" => Cardinality(deployment.running) = 1
  /\ phase = [g \in Gateways |-> "up"]
  /\ inbound = [g \in Gateways |-> <<>>]
  /\ spawned = [g \in Gateways |-> <<>>]
  /\ slotq = [g \in Gateways |-> <<>>]
  /\ lockq = [g \in Gateways |-> [c \in Conversations |-> <<>>]]
  /\ task = [m \in Messages |-> NoTask]
  /\ ledger = [r \in Requests |-> NoClaim]
  /\ lease = [c \in Conversations |-> NoLease]
  /\ reply = [m \in Messages |-> NoReply]
  /\ arrivals = <<>>
  /\ lapsed = {}
  /\ faults = 0

Goes(m, pc) == task' = [task EXCEPT ![m].pc = pc]
Replies(m, kind) == reply' = [reply EXCEPT ![m] = [kind |-> kind, sent |-> FALSE]]

\* leaving `async with self._semaphore, lock`, from wherever the task stands in it
Leaves(m) ==
  LET g == task[m].at IN
  /\ slotq' = [slotq EXCEPT ![g] = Waiting(@, m)]
  /\ lockq' = [lockq EXCEPT ![g][Conv(m)] = Waiting(@, m)]
  /\ UNCHANGED <<inbound, spawned>>

\* A channel publishes the message on its process's bus
Arrive(m, g) ==
  /\ g \in deployment.running /\ phase[g] = "up"
  /\ task[m] = NoTask
  /\ task' = [task EXCEPT ![m] = [pc |-> "queued", at |-> g, leased |-> FALSE]]
  /\ inbound' = [inbound EXCEPT ![g] = Append(@, m)]
  /\ arrivals' = IF Shared THEN arrivals ELSE Append(arrivals, m)
  /\ UNCHANGED <<deployment, phase, spawned, slotq, lockq, store, reply, lapsed, faults>>

\* _process_inbound: consume_inbound, create_task
Consume(g) ==
  /\ phase[g] = "up" /\ inbound[g] # <<>>
  /\ Goes(Head(inbound[g]), "claiming")
  /\ inbound' = [inbound EXCEPT ![g] = Tail(@)]
  /\ spawned' = [spawned EXCEPT ![g] = Append(@, Head(inbound[g]))]
  /\ UNCHANGED <<deployment, phase, slotq, lockq, store, reply, ghosts, faults>>

\* coordinator.claim answers.  The memory backend does not suspend, so tasks
\* get there in the order they were created; MySQL runs in threads.
Answers(m) ==
  /\ task[m].pc = "claiming"
  /\ Shared \/ m = Head(spawned[task[m].at])
  /\ spawned' = [spawned EXCEPT ![task[m].at] = Waiting(@, m)]

ClaimAccepted(m) ==
  /\ Answers(m) /\ Fresh(RequestOf[m]) /\ ~Conflict(m)
  /\ ledger' = [ledger EXCEPT ![RequestOf[m]] = Running(m, task[m].at)]
  /\ lapsed' = lapsed \cup {r \in {RequestOf[m]} : RanOut(r)}
  /\ slotq' = [slotq EXCEPT ![task[m].at] = Append(@, m)]
  /\ Goes(m, "waiting")
  /\ UNCHANGED <<deployment, phase, inbound, lockq, lease, reply, arrivals, faults>>

ClaimRefused(m) ==
  /\ Answers(m) /\ (Conflict(m) \/ ~Fresh(RequestOf[m]))
  /\ Replies(m, IF Conflict(m) THEN "conflict" ELSE "duplicate")
  /\ Goes(m, "done")
  /\ UNCHANGED <<deployment, phase, inbound, slotq, lockq, store, ghosts, faults>>

\* the semaphore, first come first served, then the wait for the session lock
Slots(g) == {m \in Messages : task[m].at = g /\ task[m].pc \in {"locking"} \cup Inside}
TakeSlot(g) ==
  /\ slotq[g] # <<>>
  /\ Cardinality(Slots(g)) < MaxConcurrency
  /\ Goes(Head(slotq[g]), "locking")
  /\ slotq' = [slotq EXCEPT ![g] = Tail(@)]
  /\ lockq' = [lockq EXCEPT ![g][Conv(Head(slotq[g]))] = Append(@, Head(slotq[g]))]
  /\ UNCHANGED <<deployment, phase, inbound, spawned, store, reply, ghosts, faults>>

\* mutant: the session lock is not waited for
HasSlot(m) == task[m].pc = "locking"

HasLock(m) == task[m].pc = "locking" /\ Head(lockq[task[m].at][Conv(m)]) = m

\* _acquire_lease: poll until it is granted, or raise at the deadline
AcquireLease(m) ==
  /\ HasLock(m) /\ MayAcquire(Conv(m), task[m].at)
  /\ lease' = [lease EXCEPT ![Conv(m)] = [owner |-> task[m].at, live |-> TRUE]]
  /\ task' = [task EXCEPT ![m].pc = "leased", ![m].leased = TRUE]
  /\ UNCHANGED <<deployment, phase, queues, ledger, reply, ghosts, faults>>

LeaseTimeout(m) ==
  /\ HasLock(m) /\ ~MayAcquire(Conv(m), task[m].at)
  /\ Goes(m, "failing")
  /\ Leaves(m)
  /\ UNCHANGED <<deployment, phase, store, reply, ghosts, faults>>

\* the route decision is made and agent.run begins
StartTurn(m) ==
  /\ task[m].pc = "leased"
  /\ Goes(m, "running")
  /\ UNCHANGED <<deployment, phase, queues, store, reply, ghosts, faults>>

\* RouteError, or whatever the agent raises
TurnFails(m) ==
  /\ task[m].pc \in {"leased", "running"}
  /\ Goes(m, "failing")
  /\ Leaves(m)
  /\ UNCHANGED <<deployment, phase, store, reply, ghosts, faults>>

\* coordinator.complete ...
Complete(m) ==
  /\ task[m].pc = "running" /\ MayComplete(RequestOf[m], task[m].at)
  /\ ledger' = Completed(RequestOf[m])
  /\ Goes(m, "completed")
  /\ UNCHANGED <<deployment, phase, queues, lease, reply, ghosts, faults>>

\* ... answers False: RuntimeError("request claim lost before completion")
ClaimLost(m) ==
  /\ task[m].pc = "running" /\ ~MayComplete(RequestOf[m], task[m].at)
  /\ Goes(m, "failing")
  /\ Leaves(m)
  /\ UNCHANGED <<deployment, phase, store, reply, ghosts, faults>>

Publish(m) ==
  /\ task[m].pc = "completed"
  /\ Replies(m, "assistant")
  /\ Goes(m, "releasing")
  /\ Leaves(m)
  /\ UNCHANGED <<deployment, phase, store, ghosts, faults>>

\* mutant: a failed turn tells the client nothing
FailSilently(m) ==
  /\ task[m].pc \in {"failing", "cancelled"}
  /\ ledger' = Failed(RequestOf[m], task[m].at)
  /\ UNCHANGED reply
  /\ Goes(m, "releasing")
  /\ UNCHANGED <<deployment, phase, queues, lease, ghosts, faults>>

\* the except clauses, entered with lock and slot already given back
Fail(m) ==
  /\ task[m].pc \in {"failing", "cancelled"}
  /\ ledger' = Failed(RequestOf[m], task[m].at)
  /\ IF task[m].pc = "failing" THEN Replies(m, "error") ELSE UNCHANGED reply
  /\ Goes(m, "releasing")
  /\ UNCHANGED <<deployment, phase, queues, lease, ghosts, faults>>

\* finally
Release(m) ==
  /\ task[m].pc = "releasing"
  /\ lease' = IF task[m].leased THEN Freed(Conv(m), task[m].at) ELSE lease
  /\ Goes(m, "done")
  /\ UNCHANGED <<deployment, phase, queues, ledger, reply, ghosts, faults>>

\* _dispatch_outbound; a channel whose send raises loses the message
Dispatch(m) ==
  /\ reply[m].kind # "none" /\ ~reply[m].sent
  /\ phase[task[m].at] = "up"
  /\ reply' = [reply EXCEPT ![m].sent = TRUE]
  /\ UNCHANGED <<deployment, phase, queues, task, store, ghosts, faults>>

TaskStep(m) ==
  \/ ClaimAccepted(m) \/ ClaimRefused(m)
  \/ AcquireLease(m) \/ LeaseTimeout(m)
  \/ StartTurn(m) \/ TurnFails(m) \/ Complete(m) \/ ClaimLost(m)
  \/ Publish(m) \/ Fail(m) \/ Release(m)
  \/ Dispatch(m)

-----------------------------------------------------------------------------
(* Time: 30 s leases; the claim's is never renewed *)

ClaimLapses(r) ==
  /\ ledger[r].status = "running" /\ ledger[r].lease = "live"
  /\ ledger' = [ledger EXCEPT ![r].lease = "expired"]
  /\ UNCHANGED <<deployment, phase, queues, task, lease, reply, ghosts, faults>>

Renews(m) == task[m].leased /\ task[m].pc \in Inside \cup {"failing", "cancelled"}

\* _renew_lease keeps the lease alive, unless the process or the database
\* stalls for too long or the renewal task has died
LeaseLapses(c) ==
  /\ lease[c].live
  /\ IF \E m \in Messages : Conv(m) = c /\ task[m].at = lease[c].owner /\ Renews(m)
     THEN faults < MaxFaults /\ faults' = faults + 1
     ELSE UNCHANGED faults
  /\ lease' = [lease EXCEPT ![c].live = FALSE]
  /\ UNCHANGED <<deployment, phase, queues, task, ledger, reply, ghosts>>

(* The end of a process *)

\* run() is cancelled: both loops end, shutdown() waits for the tasks,
Stop(g) ==
  /\ g \in deployment.running /\ phase[g] = "up"
  /\ faults < MaxFaults /\ faults' = faults + 1
  /\ phase' = [phase EXCEPT ![g] = "draining"]
  /\ UNCHANGED <<deployment, queues, task, store, reply, ghosts>>

\* drain_timeout_seconds later it cancels the rest
DrainTimeout(g) ==
  /\ phase[g] = "draining"
  /\ phase' = [phase EXCEPT ![g] = "cancelling"]
  /\ UNCHANGED <<deployment, queues, task, store, reply, ghosts, faults>>

\* CancelledError before the claim is known: the thread may have written it
CancelClaim(m) ==
  /\ task[m].pc = "claiming" /\ phase[task[m].at] = "cancelling"
  /\ Goes(m, "done")
  /\ spawned' = [spawned EXCEPT ![task[m].at] = Waiting(@, m)]
  /\ \/ UNCHANGED ledger
     \/ /\ Shared /\ Fresh(RequestOf[m]) /\ ~Conflict(m)
        /\ ledger' = [ledger EXCEPT ![RequestOf[m]] = Running(m, task[m].at)]
  /\ lapsed' = lapsed \cup {r \in {RequestOf[m]} : ledger'[r] # ledger[r] /\ RanOut(r)}
  /\ UNCHANGED <<deployment, phase, inbound, slotq, lockq, lease, reply, arrivals, faults>>

\* CancelledError later; in memory nothing suspends after complete
Cancel(m) ==
  /\ task[m].pc \in {"waiting", "locking", "leased", "running", "completed"}
  /\ phase[task[m].at] = "cancelling"
  /\ task[m].pc = "completed" => Shared
  /\ Goes(m, "cancelled")
  /\ Leaves(m)
  /\ UNCHANGED <<deployment, phase, store, reply, ghosts, faults>>

\* CancelledError inside an except or finally clause: the MySQL call it
\* interrupts may have been made or not, what follows it is skipped
CancelCleanup(m) ==
  /\ task[m].pc \in {"failing", "releasing"}
  /\ Shared /\ phase[task[m].at] = "cancelling"
  /\ \/ /\ task[m].pc = "failing"
        /\ ledger' \in {ledger, Failed(RequestOf[m], task[m].at)}
        /\ Goes(m, "releasing")
     \/ /\ task[m].pc = "releasing" /\ reply[m].kind # "none"
        /\ Goes(m, "done")
        /\ UNCHANGED ledger
  /\ UNCHANGED <<deployment, phase, queues, lease, reply, ghosts, faults>>

Crash(g) ==
  /\ g \in deployment.running /\ phase[g] # "crashed"
  /\ faults < MaxFaults /\ faults' = faults + 1
  /\ phase' = [phase EXCEPT ![g] = "crashed"]
  /\ task' = [m \in Messages |-> IF task[m].at = g /\ task[m].pc # "none"
                                 THEN [task[m] EXCEPT !.pc = "done"] ELSE task[m]]
  /\ inbound' = [inbound EXCEPT ![g] = <<>>]
  /\ spawned' = [spawned EXCEPT ![g] = <<>>]
  /\ slotq' = [slotq EXCEPT ![g] = <<>>]
  /\ lockq' = [lockq EXCEPT ![g] = [c \in Conversations |-> <<>>]]
  /\ UNCHANGED <<deployment, store, reply, ghosts>>

GatewayStep(g) == Consume(g) \/ TakeSlot(g) \/ DrainTimeout(g)

Next ==
  \/ \E m \in Messages : TaskStep(m) \/ CancelClaim(m) \/ Cancel(m) \/ CancelCleanup(m)
  \/ \E m \in Messages, g \in Gateways : Arrive(m, g)
  \/ \E g \in Gateways : GatewayStep(g) \/ Stop(g) \/ Crash(g)
  \/ \E r \in Requests : ClaimLapses(r)
  \/ \E c \in Conversations : LeaseLapses(c)

Spec == Init /\ [][Next]_vars

\* The event loop runs every ready task and both loops of a live process.
Fairness ==
  /\ \A m \in Messages : WF_vars(TaskStep(m))
  /\ \A g \in Gateways : WF_vars(Consume(g)) /\ WF_vars(TakeSlot(g))

FairSpec == Spec /\ Fairness

-----------------------------------------------------------------------------
TypeOK ==
  /\ deployment \in [backend : {"memory", "mysql"}, running : SUBSET Gateways]
  /\ phase \in [Gateways -> {"up", "draining", "cancelling", "crashed"}]
  /\ inbound \in [Gateways -> Seq(Messages)]
  /\ spawned \in [Gateways -> Seq(Messages)]
  /\ slotq \in [Gateways -> Seq(Messages)]
  /\ lockq \in [Gateways -> [Conversations -> Seq(Messages)]]
  /\ task \in [Messages -> [pc : {"none", "queued", "done"} \cup Sited,
                            at : Gateways \cup {Nobody}, leased : BOOLEAN]]
  /\ ledger \in [Requests ->
        [status : {"absent", "running", "completed", "retryable_failed"},
         owner : Gateways \cup {Nobody},
         body : {BodyOf[m] : m \in Messages} \cup {Nobody},
         lease : {"none", "live", "expired"}]]
  /\ lease \in [Conversations -> [owner : Gateways \cup {Nobody}, live : BOOLEAN]]
  /\ reply \in [Messages -> [kind : {"none", "assistant", "duplicate", "conflict", "error"},
                             sent : BOOLEAN]]
  /\ arrivals \in Seq(Messages)
  /\ lapsed \subseteq Requests
  /\ faults \in 0..MaxFaults

\* A request is answered by the assistant at most once, however often it is
\* resent, to whatever process, and whatever becomes of its claim's lease.
AnsweredOnce ==
  \A m, n \in Messages :
    /\ m # n /\ RequestOf[m] = RequestOf[n]
    /\ reply[m].kind = "assistant"
    => reply[n].kind # "assistant"

\* Two tasks work on one request only if the first one's claim lapsed, and an
\* answered request is not worked on again without that either.
WorkingOn(r) == {m \in Messages : RequestOf[m] = r
                                  /\ task[m].pc \in {"waiting", "locking"} \cup Inside}
OneWorkerPerRequest ==
  \A r \in Requests \ lapsed :
    /\ Cardinality(WorkingOn(r)) <= 1
    /\ \A m \in WorkingOn(r), n \in Messages :
         RequestOf[n] = r => reply[n].kind # "assistant"

\* With the memory coordinator the turns of a conversation run in the order
\* its messages arrived, one at a time: tasks reach the semaphore and then
\* the session lock first come, first served.
Before(m, n) ==
  \E i, j \in DOMAIN arrivals : i < j /\ arrivals[i] = m /\ arrivals[j] = n
TurnsKeepArrivalOrder ==
  \A m, n \in Messages :
    /\ ~Shared /\ Before(m, n) /\ Conv(m) = Conv(n)
    /\ task[n].pc \in Inside
    => task[m].pc \in {"failing", "cancelled", "releasing", "done"}

\* Every message a running process takes in is answered, by the assistant, an
\* error, or the news that it is a duplicate, unless that process goes down.
TakenInIsAnswered ==
  \A m \in Messages, g \in Gateways :
    task[m].pc = "queued" /\ task[m].at = g ~> reply[m].sent \/ phase[g] # "up"

\* "Turns of one conversation are serial", across processes too, as long as no
\* process stops and every lease is renewed in time.
ConversationIsSerial ==
  \A m, n \in Messages :
    m # n /\ Conv(m) = Conv(n) => ~(task[m].pc = "running" /\ task[n].pc = "running")
=============================================================================
