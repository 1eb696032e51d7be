------------------------------ MODULE Workflow ------------------------------
(* WorkflowService: the progress of trade and analytics runs of a web          *)
(* conversation, kept as an index file and one event log per run, and shown in *)
(* the browser's workflow window. One event loop runs every coroutine: what is *)
(* written between two awaits is one step, but each append awaits the sending  *)
(* of its event, and a crash may come between any two writes.                  *)
EXTENDS Integers, Sequences, FiniteSets

CONSTANTS Reading, AnalyticsNodes,  \* 3 and 5 in the code
          MaxRuns, MaxObservations, MaxMishaps  \* bounds: the last of lost windows and processes

ASSUME WorkflowAssumption ==
  /\ Reading \in Nat /\ AnalyticsNodes \in Nat /\ Reading < AnalyticsNodes
  /\ MaxRuns \in Nat \ {0} /\ MaxObservations \in Nat /\ MaxMishaps \in Nat

VARIABLES index,    \* runs.json: status and last_sequence of each run
          recency,  \* the order of updated_at, the latest last
          log,      \* the numbers in each run's .jsonl file
          agent,    \* the conversation's observe_tool or observe_analytics
          canceller,\* cancel, called from the window
          window,   \* the browser: whether it is bound, and what it shows
          observations, losses, deaths

flowVars == <<index, recency, log, agent, canceller, window, observations, losses, deaths>>

Active == {"running", "waiting_confirmation"}
NoEvent == [run |-> 0, number |-> 0, status |-> "none"]
Free == [pc |-> "idle", run |-> 0, node |-> "none", outcome |-> "none", stage |-> 0,
         sending |-> NoEvent]
Unseen == [status |-> "none", number |-> 0]

FlowInit ==
  /\ index = <<>> /\ recency = <<>> /\ log = <<>>
  /\ agent = Free /\ canceller = Free
  /\ window = [mode |-> "bound", shows |-> [r \in 1..MaxRuns |-> Unseen]]
  /\ observations = 0 /\ losses = 0 /\ deaths = 0

Latest(r) == Append(SelectSeq(recency, LAMBDA s : s # r), r)
NewRun == Append(index, [status |-> "running", number |-> 0])

\* _append reads the run again, under the lock
NextNumber(runs, r, t) == runs[r].number + 1
\* _append up to its first await, for task t, on the given index
Appends(runs, r, t, status) ==
  LET n == NextNumber(runs, r, t)
  IN /\ index' = [runs EXCEPT ![r].number = n]
     /\ log' = [k \in DOMAIN runs |->
                  IF k = r THEN Append(IF k \in DOMAIN log THEN log[k] ELSE <<>>, n) ELSE log[k]]
     /\ recency' = Latest(r)
Event(runs, r, t, status) == [run |-> r, number |-> NextNumber(runs, r, t), status |-> status]

\* The task's event has reached every socket.
Sent(t) == t.sending.status = "none"
AgentAppends(runs, status, next) ==
  /\ Appends(runs, next.run, agent, status)
  /\ agent' = [next EXCEPT !.sending = Event(runs, next.run, agent, status)]
  /\ UNCHANGED <<canceller, window, losses, deaths>>

-----------------------------------------------------------------------------
(* observe_tool                                                               *)

Outcomes(node) == IF node = "extract_rfq" THEN {"error", "missing", "done"} ELSE {"error", "done"}
ActiveRuns == {r \in DOMAIN index : index[r].status \in Active}
IsNewest(r) == \E i \in DOMAIN recency :
                 recency[i] = r /\ \A j \in DOMAIN recency : recency[j] \in ActiveRuns => j <= i

\* Every inquiry is a run of its own, whatever run is still open.
ObserveNew(node, outcome) ==
  /\ agent.pc = "idle" /\ observations < MaxObservations /\ Len(index) < MaxRuns
  /\ node = "extract_rfq" \/ ActiveRuns = {}
  /\ observations' = observations + 1
  /\ AgentAppends(NewRun, "running",
       [Free EXCEPT !.pc = "created", !.run = Len(index) + 1, !.node = node, !.outcome = outcome])
ObserveActive(node, outcome) ==
  /\ agent.pc = "idle" /\ observations < MaxObservations
  /\ node # "extract_rfq"
  /\ observations' = observations + 1
  /\ \E r \in ActiveRuns :
       /\ IsNewest(r)
       /\ AgentAppends(index, "running",
            [Free EXCEPT !.pc = "started", !.run = r, !.node = node, !.outcome = outcome])
NodeStarted ==
  /\ agent.pc = "created" /\ Sent(agent)
  /\ AgentAppends(index, "running", [agent EXCEPT !.pc = "started"])
  /\ UNCHANGED observations

StatusAfterNode(t) ==
  CASE t.outcome = "error" -> "failed"
    [] t.outcome = "missing" -> "waiting_confirmation"
    [] OTHER -> IF t.node = "create_followup" THEN "completed" ELSE "running"
\* mutant: a failed node is told as a running one
ToldRunning(t) == IF t.outcome = "error" THEN "running" ELSE StatusAfterNode(t)
ToldAfterNode(t) == StatusAfterNode(t)
\* The status is written whatever the run has become while events were sent.
NodeDecided ==
  /\ agent.pc = "started" /\ Sent(agent)
  /\ AgentAppends([index EXCEPT ![agent.run].status = StatusAfterNode(agent)],
       ToldAfterNode(agent),
       [agent EXCEPT !.pc = IF StatusAfterNode(agent) = "completed" THEN "closing" ELSE "last"])
  /\ UNCHANGED observations
RunClosed ==
  /\ agent.pc = "closing" /\ Sent(agent)
  /\ AgentAppends(index, "completed", [agent EXCEPT !.pc = "last"])
  /\ UNCHANGED observations
AgentRests ==
  /\ agent.pc = "last" /\ Sent(agent) /\ agent' = Free
  /\ UNCHANGED <<index, recency, log, canceller, window, observations, losses, deaths>>

-----------------------------------------------------------------------------
(* observe_analytics: the first Reading nodes whatever the result is.         *)

Analyse(outcome) ==
  /\ agent.pc = "idle" /\ observations < MaxObservations /\ Len(index) < MaxRuns
  /\ observations' = observations + 1
  /\ AgentAppends(NewRun, "running",
       [Free EXCEPT !.pc = "analysed", !.run = Len(index) + 1, !.outcome = outcome])
StageStarted ==
  /\ agent.pc = "analysed" /\ Sent(agent)
  /\ agent.stage < (IF agent.outcome = "error" THEN Reading ELSE AnalyticsNodes)
  /\ AgentAppends(index, "running", [agent EXCEPT !.pc = "stage", !.stage = @ + 1])
  /\ UNCHANGED observations
\* Only the last two nodes write a status.
StageDone ==
  LET status == IF agent.stage = AnalyticsNodes THEN "completed" ELSE "running"
      runs == IF agent.stage > Reading THEN [index EXCEPT ![agent.run].status = status] ELSE index
  IN /\ agent.pc = "stage" /\ Sent(agent)
     /\ AgentAppends(runs, status,
          [agent EXCEPT !.pc = IF status = "completed" THEN "closing" ELSE "analysed"])
     /\ UNCHANGED observations
QueryFailed ==
  /\ agent.pc = "analysed" /\ Sent(agent) /\ agent.stage = Reading /\ agent.outcome = "error"
  /\ AgentAppends([index EXCEPT ![agent.run].status = "failed"], "failed",
       [agent EXCEPT !.pc = "last"])
  /\ UNCHANGED observations

-----------------------------------------------------------------------------
(* cancel, the window and the end of the process.                             *)

Cancel(r) ==
  /\ canceller.pc = "idle" /\ window.mode # "off" /\ r \in DOMAIN index
  /\ index[r].status \in Active
  /\ LET runs == [index EXCEPT ![r].status = "cancelled"]
     IN /\ Appends(runs, r, canceller, "cancelled")
        /\ canceller' = [Free EXCEPT !.pc = "last", !.run = r,
                                     !.sending = Event(runs, r, canceller, "cancelled")]
  /\ UNCHANGED <<agent, window, observations, losses, deaths>>
CancellerRests ==
  /\ canceller.pc = "last" /\ Sent(canceller) /\ canceller' = Free
  /\ UNCHANGED <<index, recency, log, agent, window, observations, losses, deaths>>

\* The window drops an event whose number is not above the last it applied.
ShownAfter(e) ==
  IF window.mode # "off" /\ e.number > window.shows[e.run].number
  THEN [window EXCEPT !.shows[e.run] = [status |-> e.status, number |-> e.number]]
  ELSE window
\* Two tasks may be sending at once: their events arrive in either order.
AgentSends ==
  /\ ~Sent(agent) /\ window' = ShownAfter(agent.sending) /\ agent' = [agent EXCEPT !.sending = NoEvent]
  /\ UNCHANGED <<index, recency, log, canceller, observations, losses, deaths>>
CancellerSends ==
  /\ ~Sent(canceller) /\ window' = ShownAfter(canceller.sending)
  /\ canceller' = [canceller EXCEPT !.sending = NoEvent]
  /\ UNCHANGED <<index, recency, log, agent, observations, losses, deaths>>

\* A reload or a lost connection; the bindings keep no events for later.
WindowLost ==
  /\ window.mode # "off" /\ losses + deaths < MaxMishaps /\ losses' = losses + 1
  /\ window' = [window EXCEPT !.mode = "off"]
  /\ UNCHANGED <<index, recency, log, agent, canceller, observations, deaths>>
\* The binding takes effect before the snapshot is read and sent.
WindowBinds ==
  /\ window.mode = "off" /\ window' = [window EXCEPT !.mode = "binding"]
  /\ UNCHANGED <<index, recency, log, agent, canceller, observations, losses, deaths>>
Snapshot ==
  [r \in 1..MaxRuns |-> IF r \in DOMAIN index
                        THEN [status |-> index[r].status, number |-> index[r].number] ELSE Unseen]
WindowCatchesUp ==
  /\ window.mode = "binding"
  /\ window' = [mode |-> "bound", shows |-> Snapshot]
  /\ UNCHANGED <<index, recency, log, agent, canceller, observations, losses, deaths>>

\* The process ends: nothing is under way, or the event of an append is in the
\* file and the index has not been replaced.
Death ==
  /\ losses + deaths < MaxMishaps /\ deaths' = deaths + 1
  /\ agent' = Free /\ canceller' = Free /\ window' = [window EXCEPT !.mode = "off"]
  /\ \/ UNCHANGED log
     \/ \E r \in ActiveRuns \cup ({agent.run} \ {0}) :
          log' = [log EXCEPT ![r] = Append(@, index[r].number + 1)]
  /\ UNCHANGED <<index, recency, observations, losses>>
\* A status or a run was written, the event that tells of it was not.
DeathBeforeEvent ==
  /\ losses + deaths < MaxMishaps /\ deaths' = deaths + 1
  /\ \/ /\ agent.pc = "started" /\ Sent(agent)
        /\ index' = [index EXCEPT ![agent.run].status = StatusAfterNode(agent)]
        /\ recency' = Latest(agent.run) /\ UNCHANGED log
     \/ /\ agent.pc = "idle" /\ Len(index) < MaxRuns
        /\ index' = NewRun /\ recency' = Append(recency, Len(index) + 1) /\ log' = Append(log, <<>>)
     \/ \E r \in ActiveRuns :
          /\ index' = [index EXCEPT ![r].status = "cancelled"]
          /\ recency' = Latest(r) /\ UNCHANGED log
  /\ agent' = Free /\ canceller' = Free /\ window' = [window EXCEPT !.mode = "off"]
  /\ UNCHANGED <<observations, losses>>

FlowNext ==
  \/ \E node \in {"extract_rfq", "create_quote", "create_followup"} :
       \E outcome \in Outcomes(node) : ObserveNew(node, outcome) \/ ObserveActive(node, outcome)
  \/ \E outcome \in {"error", "done"} : Analyse(outcome)
  \/ NodeStarted \/ NodeDecided \/ RunClosed \/ AgentRests
  \/ StageStarted \/ StageDone \/ QueryFailed
  \/ \E r \in 1..MaxRuns : Cancel(r)
  \/ CancellerRests \/ AgentSends \/ CancellerSends
  \/ WindowLost \/ WindowBinds \/ WindowCatchesUp \/ Death \/ DeathBeforeEvent
FlowSpec == FlowInit /\ [][FlowNext]_flowVars

-----------------------------------------------------------------------------
(* Properties.                                                                *)

\* When nothing is under way, a bound window shows every run as the index has
\* it: although two tasks write the run and send its events in any order, the
\* window drops late ones, and connections and the process are lost anywhere
\* (_append, _broadcast_workflow_event, conversation.bind, applyWorkflowEvent).
WindowShowsRuns ==
  (agent = Free /\ canceller = Free /\ window.mode = "bound") => window.shows = Snapshot

=============================================================================
