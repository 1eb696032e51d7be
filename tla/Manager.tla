------------------------------ MODULE Manager ------------------------------
(* The process manager: GatewayProcess starts and stops the gateway as a child *)
(* process, and the launcher's endpoints rewrite the gateway's config.json.    *)
(* Endpoints are coroutines of one event loop: a step runs up to an await. A   *)
(* stop whose child has exited goes on before another start has its child.     *)
EXTENDS Naturals, Sequences, FiniteSets

CONSTANTS Calls,                     \* requests to the start and stop endpoints
          Gateways, NoGateway,       \* the processes that can be launched, in no order
          McpServers,                   \* MCP servers, the entries of the configuration
          MaxEdits, MaxManagerFaults  \* bounds

ASSUME ManagerAssumption ==
  /\ NoGateway \notin Gateways /\ {MaxEdits, MaxManagerFaults} \subseteq Nat

VARIABLES held, stopRequested,       \* GatewayProcess.process and its flag
          live, launched,            \* the processes that run, and that were ever launched
          call,                      \* what each request is doing, on which process
          config, backup, edit,      \* config.json, its .manager_bak, the write under way
          edits, mishaps, managerFaults

processVars == <<held, stopRequested, live, launched, call>>
fileVars == <<config, backup, edit, edits>>
managerVars == <<processVars, fileVars, mishaps, managerFaults>>

NoEdit == [stage |-> 0, read |-> {}]
NoCall == [pc |-> "none", of |-> NoGateway]
File(entries) == [whole |-> TRUE, entries |-> entries]
Torn == [whole |-> FALSE, entries |-> {}]

ManagerInit ==
  /\ held = NoGateway /\ stopRequested = FALSE /\ live = {} /\ launched = {}
  /\ call = [r \in Calls |-> NoCall]
  /\ config = File(McpServers) /\ backup = File({}) /\ edit = NoEdit
  /\ edits = 0 /\ mishaps = {} /\ managerFaults = 0

-----------------------------------------------------------------------------
(* GatewayProcess.                                                            *)

\* mutant: a gateway that was told to stop does not count as running
RunningUntilStopped == held \in live /\ ~stopRequested
IsRunning == held \in live
Answered(r) == call' = [call EXCEPT ![r] = NoCall]
\* start: refused while one runs; the launch is awaited.
Start(r) ==
  /\ call[r].pc = "none"
  /\ IF IsRunning THEN UNCHANGED <<call, stopRequested, mishaps>>
     ELSE /\ stopRequested' = FALSE
          /\ call' = [call EXCEPT ![r] = [pc |-> "launching", of |-> NoGateway]]
          /\ mishaps' = mishaps \cup (IF \E o \in Calls : call[o].pc = "launching"
                                      THEN {"starts overlapped"} ELSE {})
  /\ UNCHANGED <<held, live, launched, fileVars, managerFaults>>
Launched(r, g) ==
  /\ call[r].pc = "launching" /\ g \in Gateways \ launched
  /\ held' = g /\ live' = live \cup {g} /\ launched' = launched \cup {g}
  /\ Answered(r) /\ UNCHANGED <<stopRequested, fileVars, mishaps, managerFaults>>
LaunchFails(r) ==
  /\ call[r].pc = "launching" /\ Answered(r)
  /\ UNCHANGED <<held, stopRequested, live, launched, fileVars, mishaps, managerFaults>>

\* stop: SIGTERM, five seconds of patience, SIGKILL.
Stop(r) ==
  /\ call[r].pc = "none" /\ IsRunning
  /\ stopRequested' = TRUE /\ call' = [call EXCEPT ![r] = [pc |-> "waiting", of |-> held]]
  /\ UNCHANGED <<held, live, launched, fileVars, mishaps, managerFaults>>
\* The signal goes to the process that is held by then, and so does the wait.
StopTimeout(r) ==
  /\ call[r].pc = "waiting" /\ call[r].of \in live
  /\ IF held = NoGateway THEN Answered(r)    \* AttributeError: the request fails
     ELSE call' = [call EXCEPT ![r] = [pc |-> "killing", of |-> held]]
  /\ UNCHANGED <<held, stopRequested, live, launched, fileVars, mishaps, managerFaults>>
\* A gateway ends by itself or by a signal, and the stops that wait for it return.
WaitingOn(g) == {r \in Calls : call[r].pc \in {"waiting", "killing"} /\ call[r].of = g}
GatewayEnds(g) ==
  /\ g \in live /\ live' = live \ {g}
  /\ call' = [r \in Calls |-> IF r \in WaitingOn(g) THEN NoCall ELSE call[r]]
  /\ held' = IF WaitingOn(g) = {} THEN held ELSE NoGateway
  /\ UNCHANGED <<stopRequested, launched, fileVars, mishaps, managerFaults>>

-----------------------------------------------------------------------------
(* config.json: an endpoint reads, backs up and rewrites it in one step of the *)
(* loop; the steps below are those a death of the manager can fall between.    *)

ReadConfig(file) == IF file.whole THEN file.entries ELSE {}
Stages == <<"empty backup", "copy", "empty config", "write">>
At(stage) == edit # NoEdit /\ Stages[edit.stage] = stage
Onward == edit' = [edit EXCEPT !.stage = @ + 1]
\* What the operator sets, over what was read.
Updated(entries, added, removed) == (entries \cup added) \ removed
BeginEdit(added, removed) ==
  /\ edit = NoEdit /\ edits < MaxEdits /\ edits' = edits + 1
  /\ removed \subseteq ReadConfig(config)      \* 404 otherwise
  /\ added \cap ReadConfig(config) = {}        \* 409 otherwise
  /\ edit' = [stage |-> 1, read |-> Updated(ReadConfig(config), added, removed)]
  /\ UNCHANGED <<processVars, config, backup, mishaps, managerFaults>>
EmptyBackup ==
  /\ At("empty backup") /\ backup' = Torn /\ Onward
  /\ UNCHANGED <<processVars, config, edits, mishaps, managerFaults>>
CopyConfig ==
  /\ At("copy") /\ backup' = config /\ Onward
  /\ UNCHANGED <<processVars, config, edits, mishaps, managerFaults>>
\* The copy fails with an OSError, which is passed over.
CopyFails ==
  /\ At("copy") /\ managerFaults < MaxManagerFaults /\ managerFaults' = managerFaults + 1
  /\ Onward /\ UNCHANGED <<processVars, config, backup, edits, mishaps>>
EmptyConfig ==
  /\ At("empty config") /\ config' = Torn /\ Onward
  /\ UNCHANGED <<processVars, backup, edits, mishaps, managerFaults>>
WriteConfig ==
  /\ At("write") /\ config' = File(edit.read) /\ edit' = NoEdit
  /\ UNCHANGED <<processVars, backup, edits, mishaps, managerFaults>>

\* The manager dies and is started again: its gateways go on without it.
ManagerDies ==
  /\ managerFaults < MaxManagerFaults /\ managerFaults' = managerFaults + 1
  /\ held' = NoGateway /\ stopRequested' = FALSE /\ edit' = NoEdit
  /\ call' = [r \in Calls |-> NoCall]
  /\ mishaps' = mishaps \cup (IF live = {} THEN {} ELSE {"gateway outlived its manager"})
  /\ UNCHANGED <<live, launched, config, backup, edits>>

ManagerNext ==
  \/ edit = NoEdit /\ \E r \in Calls : Start(r) \/ LaunchFails(r) \/ Stop(r) \/ StopTimeout(r)
  \/ edit = NoEdit /\ \E r \in Calls, g \in Gateways : Launched(r, g)
  \/ \E g \in Gateways : GatewayEnds(g)
  \/ \E added, removed \in SUBSET McpServers : BeginEdit(added, removed)
  \/ EmptyBackup \/ CopyConfig \/ CopyFails \/ EmptyConfig \/ WriteConfig \/ ManagerDies
ManagerSpec == ManagerInit /\ [][ManagerNext]_managerVars

-----------------------------------------------------------------------------
(* Properties.                                                                *)

\* Every gateway that runs is the one the manager can stop, unless two starts
\* overlapped or the manager died with one running (GatewayProcess.start, stop).
OneGateway ==
  mishaps \cap {"starts overlapped", "gateway outlived its manager"} = {} => live \subseteq {held}
=============================================================================
