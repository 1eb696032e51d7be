------------------------------- MODULE AgentTurn -------------------------------
(***************************************************************************)
(* A turn of an agent on one session: the loop of model and tools          *)
(* (agent/loop.py), the employee's graph with its checkpoints              *)
(* (agent/internal_langgraph_agent.py, employee_agent/runtime.py), and the *)
(* session's history as stored and as the agent object holds it.  The      *)
(* gateway serialises the turns of a session, but not clear_conversation.  *)
(* Contents of messages are left out: a message is its kind and its ids.   *)
(***************************************************************************)
EXTENDS Integers, Sequences, FiniteSets, SequencesExt

CONSTANTS TurnRequests,
          Named,          \* requests whose id set_request_context is given
          Kinds,          \* of session: "plain", "bounded" or "peer"
          Stores,         \* of messages: "file" or "mysql"
          MaxIterations,  \* max_iterations
          Responses,      \* how many tool calls a response may have
          WarnAfter, FuseAfter, WindowSize,
          Keep,           \* messages maybe_consolidate keeps
          MaxTurns,       \* turns the bounded manager keeps
          MaxTurnFaults       \* bound on failing calls, killed processes and clear_history

ASSUME TurnAssumption ==
  /\ Named \subseteq TurnRequests
  /\ Kinds \subseteq {"plain", "bounded", "peer"} /\ Stores \subseteq {"file", "mysql"}
  /\ Responses \subseteq Nat /\ Keep \in Nat
  /\ MaxIterations \in Nat \ {0} /\ MaxTurns \in Nat \ {0}

VARIABLES
  setting,   \* [kind, store]
  disk,      \* the session's stored messages
  memory,    \* _session_history of the agent object
  recentCalls,    \* _tool_call_history; every call has the same signature
  saved,     \* the checkpoint of a named request
  turn,      \* the turn that runs
  done,      \* requests completed at the coordinator
  decisions,     \* decisions of the model, per request
  runs,      \* a bag: executed tool calls of named requests not done
  broken,    \* a bag: calls interrupted between running and the checkpoint of it
  turnFaults

turnVars == <<setting, disk, memory, recentCalls, saved, turn, done, decisions, runs,
              broken, turnFaults>>
ghosts == <<decisions, runs, broken>>

IdleTurn == [at |-> "idle"]
Staff == setting.kind # "peer"
Checkpointed(r) == Staff /\ r \in Named
None == [msgs |-> <<>>, iteration |-> 0, pending |-> <<>>, final |-> "no"]

User(r)     == [kind |-> "user", ids |-> {r}]
Call(ids)   == [kind |-> "call", ids |-> ids]
Result(c)   == [kind |-> "result", ids |-> {c}]
AnswerMessage(r)   == [kind |-> "answer", ids |-> {r}]
Summary     == [kind |-> "summary", ids |-> {}]
Context     == [kind |-> "context", ids |-> {}]

Ids(msgs, kind) == UNION {msgs[i].ids : i \in {j \in DOMAIN msgs : msgs[j].kind = kind}}
Ran == BagToSet(runs)
Times(calls, c) == IF BagIn(c, calls) THEN calls[c] ELSE 0

TurnInit ==
  /\ setting \in [kind : Kinds, store : Stores]
  /\ disk = <<>> /\ memory = <<>> /\ recentCalls = <<>>
  /\ saved = [r \in Named |-> None]
  /\ turn = IdleTurn /\ done = {}
  /\ decisions = [r \in TurnRequests |-> 0] /\ runs = EmptyBag /\ broken = EmptyBag
  /\ turnFaults = 0

At(place) == turn.at = place
TurnGoes(place) == turn' = [turn EXCEPT !.at = place]

-----------------------------------------------------------------------------
(* Beginning *)

\* the cached agent, or a new one that loads the session
Begin(r) ==
  /\ turn = IdleTurn /\ r \notin done
  /\ \E new \in BOOLEAN :
       IF new THEN memory' = disk /\ recentCalls' = <<>> ELSE UNCHANGED <<memory, recentCalls>>
  /\ turn' = [at |-> IF setting.kind = "bounded" THEN "prepare" ELSE "invoke", req |-> r,
              read |-> <<>>, graph |-> None, written |-> TRUE]
  /\ UNCHANGED <<setting, disk, saved, done, ghosts, turnFaults>>

\* plan_complete_turns: the last MaxTurns turns, unless a tool group is incomplete
Compactions(h) ==
  LET users == {i \in DOMAIN h : h[i].kind = "user"}
      Kept(i) == SubSeq(h, i, Len(h))
  IN {<<Summary>> \o Kept(i) : i \in
       {i \in users : /\ Cardinality(users) > MaxTurns
                      /\ Cardinality({j \in users : j >= i}) = MaxTurns
                      /\ Ids(Kept(i), "call") = Ids(Kept(i), "result")}}

\* prepare_active_history: the summary is awaited between reading and replacing
PrepareRead ==
  /\ At("prepare")
  /\ turn' = [turn EXCEPT !.at = "compact", !.read = disk]
  /\ UNCHANGED <<setting, disk, memory, recentCalls, saved, done, ghosts, turnFaults>>
PrepareWrite ==
  /\ At("compact")
  /\ \E history \in {turn.read} \cup Compactions(turn.read) :
       /\ memory' = history
       /\ disk' = IF setting.store = "file" /\ history # turn.read THEN history ELSE disk
  /\ turn' = [turn EXCEPT !.at = "invoke", !.read = <<>>]
  /\ UNCHANGED <<setting, recentCalls, saved, done, ghosts, turnFaults>>

\* a message that is saved: the file store prints a warning and loses it
Save(m) ==
  \/ disk' = Append(disk, m) /\ UNCHANGED turnFaults
  \/ /\ setting.store = "file" /\ turnFaults < MaxTurnFaults
     /\ turnFaults' = turnFaults + 1
     /\ UNCHANGED disk

\* the checkpoint of the request is resumed; without one the question is saved
After(g) == IF g.final # "no" THEN "final" ELSE IF g.pending # <<>> THEN "tools" ELSE "model"
Resume ==
  /\ At("invoke") /\ Checkpointed(turn.req) /\ saved[turn.req] # None
  /\ turn' = [turn EXCEPT !.at = After(saved[turn.req]), !.graph = saved[turn.req]]
  /\ UNCHANGED <<setting, disk, memory, recentCalls, saved, done, ghosts, turnFaults>>
StartFresh ==
  /\ At("invoke") /\ (Checkpointed(turn.req) => saved[turn.req] = None)
  /\ Save(User(turn.req))
  /\ turn' = [turn EXCEPT !.at = "model", !.written = FALSE,
                !.graph = [None EXCEPT !.msgs =
                  (IF Staff THEN <<>> ELSE <<Context>>) \o memory \o <<User(turn.req)>>]]
  /\ UNCHANGED <<setting, memory, recentCalls, saved, done, decisions, runs, broken>>

-----------------------------------------------------------------------------
(* The loop *)

\* maybe_consolidate: the first and the last messages, a summary for the rest
Consolidations(msgs) ==
  {msgs} \cup (IF setting.kind = "plain" /\ Len(msgs) > Keep
               THEN {<<Summary>> \o SubSeq(msgs, Len(msgs) - Keep + 1, Len(msgs))} ELSE {})

NodeDone(g) == turn' = [turn EXCEPT !.at = After(g), !.graph = g, !.written = FALSE]

\* an answer, or the apology for an error, which only a peer tells apart
Ends == IF Staff THEN {"answer"} ELSE {"answer", "stop"}
Model(k) ==
  /\ At("model") /\ turn.graph.iteration < MaxIterations
  /\ \E msgs \in Consolidations(turn.graph.msgs) :
       LET g == [turn.graph EXCEPT !.msgs = msgs, !.iteration = @ + 1]
           calls == [i \in 1..k |-> <<turn.req, decisions[turn.req] + 1, i>>]
           message == Call({calls[i] : i \in 1..k})
       IN IF k = 0
          THEN /\ \E end \in Ends : NodeDone([g EXCEPT !.final = end])
               /\ UNCHANGED <<disk, decisions, turnFaults>>
          ELSE /\ NodeDone([g EXCEPT !.msgs = Append(@, message), !.pending = calls])
               /\ Save(message)
               /\ decisions' = [decisions EXCEPT ![turn.req] = @ + 1]
  /\ UNCHANGED <<setting, memory, recentCalls, saved, done, runs, broken>>
GiveUp ==
  /\ At("model") /\ turn.graph.iteration >= MaxIterations
  /\ NodeDone([turn.graph EXCEPT !.final = "stop"])
  /\ UNCHANGED <<setting, disk, memory, recentCalls, saved, done, ghosts, turnFaults>>

\* _check_tool_loop: refused calls are not counted
Fused == Len(recentCalls) >= FuseAfter
Warned == Len(recentCalls) >= WarnAfter /\ ~Fused

RunTool ==
  /\ At("tools") /\ ~Warned /\ ~Fused
  /\ recentCalls' = IF Len(recentCalls) = WindowSize THEN recentCalls ELSE Append(recentCalls, "call")
  /\ runs' = IF Checkpointed(turn.req) THEN runs (+) SetToBag({Head(turn.graph.pending)}) ELSE runs
  /\ TurnGoes("ran")
  /\ UNCHANGED <<setting, disk, memory, saved, done, decisions, broken, turnFaults>>

\* the result, or the warning in its place
Answered(g) ==
  [g EXCEPT !.msgs = Append(@, Result(Head(g.pending))), !.pending = Tail(@)]
SaveResult ==
  /\ At("ran")
  /\ Save(Result(Head(turn.graph.pending)))
  /\ NodeDone(Answered(turn.graph))
  /\ UNCHANGED <<setting, memory, recentCalls, saved, done, decisions, runs, broken>>

SaveWarning(m) == Save(m)
RefuseCall ==
  /\ At("tools") /\ Warned
  /\ SaveWarning(Result(Head(turn.graph.pending)))
  /\ NodeDone(Answered(turn.graph))
  /\ UNCHANGED <<setting, memory, recentCalls, saved, done, decisions, runs, broken>>

\* mutant: the tools of a round are one node
PerRound(g) == g.pending = <<>> \/ Last(g.msgs).kind = "call"
\* after every node
Checkpoints(g) == TRUE
StoreTurn(g) ==
  saved' = IF Checkpointed(turn.req) /\ Checkpoints(g)
           THEN [saved EXCEPT ![turn.req] = g] ELSE saved

InGraph == turn.at \in {"model", "tools", "ran", "final"}

\* the saver writes while the next node runs
Write ==
  /\ turn # IdleTurn /\ ~turn.written /\ InGraph /\ Checkpointed(turn.req)
  /\ StoreTurn(turn.graph)
  /\ turn' = [turn EXCEPT !.written = TRUE]
  /\ UNCHANGED <<setting, disk, memory, recentCalls, done, ghosts, turnFaults>>

-----------------------------------------------------------------------------
(* The end *)

\* the employee reads the session again; the others add what _save_to_history cuts
NewMessages == SubSeq(turn.graph.msgs, Len(memory) + 1, Len(turn.graph.msgs))
Finish ==
  /\ At("final")
  /\ StoreTurn(turn.graph)
  /\ memory' = IF Staff THEN disk
               ELSE IF turn.graph.final = "stop" THEN memory
               ELSE memory \o NewMessages
  /\ TurnGoes("persist")
  /\ UNCHANGED <<setting, disk, recentCalls, done, ghosts, turnFaults>>

\* _persist_final_response
Persist ==
  /\ At("persist")
  /\ Save(AnswerMessage(turn.req))
  /\ memory' = Append(memory, AnswerMessage(turn.req))
  /\ TurnGoes("cleanup")
  /\ UNCHANGED <<setting, recentCalls, saved, done, decisions, runs, broken>>
Forgotten == IF Checkpointed(turn.req) THEN [saved EXCEPT ![turn.req] = None] ELSE saved
Cleanup ==
  /\ At("cleanup")
  /\ saved' = Forgotten
  /\ TurnGoes("complete")
  /\ UNCHANGED <<setting, disk, memory, recentCalls, done, ghosts, turnFaults>>
Others(calls) == Restrict(calls, {c \in BagToSet(calls) : c[1] # turn.req})
Complete ==
  /\ At("complete")
  /\ done' = done \cup {turn.req} /\ turn' = IdleTurn
  /\ runs' = Others(runs)
  /\ broken' = Others(broken)
  /\ UNCHANGED <<setting, disk, memory, recentCalls, saved, decisions, turnFaults>>

-----------------------------------------------------------------------------
(* Faults, and the customer who clears the conversation *)

Fault ==
  /\ turn # IdleTurn /\ turnFaults < MaxTurnFaults
  /\ turnFaults' = turnFaults + 1 /\ turn' = IdleTurn

\* an exception: the graph's writes are waited for, and the finally of the last
\* step deletes the checkpoint even if the answer was not saved
Raise ==
  /\ Fault /\ turn.at \notin {"compact", "cleanup"}
  /\ broken' = IF At("ran") /\ Checkpointed(turn.req)
               THEN broken (+) SetToBag({Head(turn.graph.pending)}) ELSE broken
  /\ \/ InGraph /\ StoreTurn(turn.graph)
     \/ ~InGraph /\ UNCHANGED saved
     \/ At("persist") /\ saved' = Forgotten
  /\ UNCHANGED <<setting, disk, memory, recentCalls, done, decisions, runs>>

\* what ran and is not in the checkpoint may run again
Crash ==
  /\ Fault
  /\ broken' = IF Checkpointed(turn.req)
       THEN broken (+) SetToBag({c \in Ran : c[1] = turn.req
                                             /\ c \notin Ids(saved[turn.req].msgs, "result")})
       ELSE broken
  /\ memory' = disk /\ recentCalls' = <<>>
  /\ UNCHANGED <<setting, disk, saved, done, decisions, runs>>

\* clear_history, whatever the session's turn is doing
Clear ==
  /\ turnFaults < MaxTurnFaults /\ turnFaults' = turnFaults + 1
  /\ disk' = <<>> /\ memory' = <<>> /\ recentCalls' = <<>>
  /\ saved' = IF turn # IdleTurn /\ turn.at \notin {"prepare", "compact", "invoke"}
              THEN Forgotten ELSE saved
  /\ UNCHANGED <<setting, turn, done, ghosts>>

-----------------------------------------------------------------------------
TurnStep ==
  \/ PrepareRead \/ PrepareWrite \/ Resume \/ StartFresh \/ GiveUp
  \/ \E k \in Responses : Model(k)
  \/ RunTool \/ SaveResult \/ RefuseCall \/ Finish \/ Persist \/ Cleanup \/ Complete

TurnNext ==
  \/ \E r \in TurnRequests : Begin(r)
  \/ TurnStep \/ Write \/ Raise \/ Crash \/ Clear

TurnSpec == TurnInit /\ [][TurnNext]_turnVars

-----------------------------------------------------------------------------
(* Properties *)

\* A retry of a request that carries its id goes on with the pending tools: a tool
\* runs again only if its run was interrupted before its checkpoint was written.
FinishedToolsStay ==
  \A c \in Ran : Times(runs, c) <= 1 + Times(broken, c)

=============================================================================
