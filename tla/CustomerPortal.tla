---------------------------- MODULE CustomerPortal ----------------------------
(***************************************************************************)
(* The customer's side of a conversation: the portal's sockets and their   *)
(* registrations (channels/customer_portal.py), the HTTP operations on     *)
(* conversations (channels/customer_conversation_api.py) and the two       *)
(* repositories behind both (session/customer_conversation.py, one         *)
(* process; session/mysql_conversation.py, shared with other processes).   *)
(* The portal is one event loop: from an await to the next nothing else of *)
(* it runs, but the database can change under it when it is shared.        *)
(* What happens to a request between the bus and the reply is Gateway's;   *)
(* here it is answered in any order, with a reply or an event.             *)
(***************************************************************************)
EXTENDS Integers, Sequences, FiniteSets

CONSTANTS Conversations, Requests, Sockets,
          ConversationOf,  \* the conversation a request is about
          Backends,        \* storage profiles to look at: "local", "mysql"
          MaxVersion       \* bound on the updates of a conversation

ASSUME PortalAssumption ==
  /\ ConversationOf \in [Requests -> Conversations]
  /\ Backends \subseteq {"local", "mysql"} /\ MaxVersion \in [Conversations -> Nat]

VARIABLES
  backend,   \* NANOCLAW_STORAGE_PROFILE
  row,       \* status ("live" for active and archived) and version of a conversation
  history,   \* the stored messages: request and role
  peer,      \* the customer's end of a socket: "none", "open", "gone", "closed"
  known,     \* _connections: the sockets replies can be sent to
  bound,     \* _bindings, or "none"
  active,    \* _active_requests
  seen,      \* _seen_requests (and _request_hashes) of a conversation
  inbound,   \* requests on the bus or with an agent
  outbound,  \* what the dispatcher will send
  busy,      \* what the event loop is in the middle of
  wire,      \* the message whose send_json is awaited
  shown      \* what arrived at each socket: a reply or an event for a request

sideVars   == <<row, history>>
socketVars == <<peer, known, bound, active, shown>>
portalVars == <<backend, sideVars, socketVars, seen, inbound, outbound, busy, wire>>

Idle == [do |-> "nothing"]
NoWire == [kind |-> "none"]
Shared == backend = "mysql"

PortalInit ==
  /\ backend \in Backends
  /\ row = [c \in Conversations |-> [status |-> "live", version |-> 1]]
  /\ history = {}
  /\ peer = [s \in Sockets |-> "none"]
  /\ known = {} /\ bound = [s \in Sockets |-> "none"]
  /\ active = [s \in Sockets |-> {}] /\ shown = [s \in Sockets |-> {}]
  /\ seen = [c \in Conversations |-> {}]
  /\ inbound = {} /\ outbound = <<>>
  /\ busy = Idle /\ wire = NoWire

-----------------------------------------------------------------------------
(* The repository *)

\* get_owned: ... AND status!='deleted'
Owned(c) == row[c].status # "deleted"

\* INSERT OR nothing: one message of a role for a request
Stored(r, role) == history \cup {[request |-> r, role |-> role]}

\* UPDATE ... AND version=?
Updatable(c, expected) == row[c].version = expected

SetStatus(c, status) ==
  row' = [row EXCEPT ![c] = [status |-> status, version |-> @.version + 1]]

\* The HTTP handlers.  The customer sends a version the list has shown; the row is
\* read first, and written in a transaction of its own.
UpdateBegin(c, expected) ==
  /\ busy = Idle /\ Owned(c)
  /\ expected <= row[c].version /\ row[c].version < MaxVersion[c]
  /\ busy' = [do |-> "update", conversation |-> c, expected |-> expected]
  /\ UNCHANGED <<backend, sideVars, socketVars, seen, inbound, outbound, wire>>
UpdateEnd ==
  /\ busy.do = "update"
  /\ IF Updatable(busy.conversation, busy.expected)
     THEN SetStatus(busy.conversation, "live")
     ELSE UNCHANGED row
  /\ busy' = Idle
  /\ UNCHANGED <<backend, history, socketVars, seen, inbound, outbound, wire>>

\* the sockets of the owner that show the conversation
Unbound(c) == {s \in Sockets : bound[s] = c}

\* soft_delete, and _on_conversation_deleted in the same run of the event loop
Delete(c) ==
  /\ busy = Idle /\ Owned(c)
  /\ SetStatus(c, "deleted")
  /\ seen' = [seen EXCEPT ![c] = {}]
  /\ bound' = [s \in Sockets |-> IF s \in Unbound(c) THEN "none" ELSE bound[s]]
  /\ active' = [s \in Sockets |-> IF s \in Unbound(c) THEN {} ELSE active[s]]
  /\ UNCHANGED <<backend, history, peer, known, shown, inbound, outbound, busy, wire>>

\* another process on the same database, at any moment
DeleteElsewhere(c) ==
  /\ Shared /\ Owned(c)
  /\ SetStatus(c, "deleted")
  /\ UNCHANGED <<backend, history, socketVars, seen, inbound, outbound, busy, wire>>
UpdateElsewhere(c) ==
  /\ Shared /\ Owned(c) /\ row[c].version < MaxVersion[c]
  /\ SetStatus(c, "live")
  /\ UNCHANGED <<backend, history, socketVars, seen, inbound, outbound, busy, wire>>

-----------------------------------------------------------------------------
(* The websocket handler *)

Connect(s) ==
  /\ busy = Idle /\ peer[s] = "none"
  /\ peer' = [peer EXCEPT ![s] = "open"]
  /\ known' = known \cup {s}
  /\ UNCHANGED <<backend, sideVars, bound, active, shown, seen, inbound, outbound, busy, wire>>

\* A message is checked and registered before it is stored.  What is refused
\* (no such conversation) or seen before (chat.duplicate) changes nothing.
Ask(s, r) ==
  LET c == ConversationOf[r] IN
  /\ busy = Idle /\ peer[s] = "open"
  /\ Owned(c) /\ r \notin seen[c]
  /\ seen' = [seen EXCEPT ![c] = @ \cup {r}]
  /\ bound' = [bound EXCEPT ![s] = c]
  /\ active' = [active EXCEPT ![s] = @ \cup {r}]
  /\ busy' = [do |-> "look", role |-> "user", socket |-> s, request |-> r]
  /\ UNCHANGED <<backend, sideVars, peer, known, shown, inbound, outbound, wire>>

\* what the handler's finally and a failed send take away
Forget(s) ==
  /\ known' = known \ {s}
  /\ bound' = [bound EXCEPT ![s] = "none"]
  /\ active' = [active EXCEPT ![s] = {}]

\* append_message reads the conversation again, and inserts in a second transaction
LookUp ==
  /\ busy.do = "look" /\ Owned(ConversationOf[busy.request])
  /\ busy' = [busy EXCEPT !.do = "insert"]
  /\ UNCHANGED <<backend, sideVars, socketVars, seen, inbound, outbound, wire>>
LookUpFails ==
  /\ busy.do = "look" /\ ~Owned(ConversationOf[busy.request])
  /\ Forget(busy.socket)
  /\ peer' = IF busy.role = "user" THEN [peer EXCEPT ![busy.socket] = "closed"] ELSE peer
  /\ busy' = Idle
  /\ UNCHANGED <<backend, sideVars, shown, seen, inbound, outbound, wire>>

Message(s, r, kind) == [socket |-> s, request |-> r, kind |-> kind]

InsertQuestion ==
  /\ busy.do = "insert" /\ busy.role = "user"
  /\ history' = Stored(busy.request, "user")
  /\ inbound' = inbound \cup {Message(busy.socket, busy.request, "question")}
  /\ busy' = Idle
  /\ UNCHANGED <<backend, row, socketVars, seen, outbound, wire>>
InsertReply ==
  /\ busy.do = "insert" /\ busy.role = "assistant"
  /\ history' = Stored(busy.request, "assistant")
  /\ wire' = Message(busy.socket, busy.request, "reply")
  /\ busy' = Idle
  /\ UNCHANGED <<backend, row, socketVars, seen, inbound, outbound>>

\* the customer is gone; the handler notices when it reads, a reply may be on its way
Vanish(s) ==
  /\ peer[s] = "open"
  /\ peer' = [peer EXCEPT ![s] = "gone"]
  /\ UNCHANGED <<backend, sideVars, known, bound, active, shown, seen, inbound, outbound, busy, wire>>
HangUp(s) ==
  /\ busy = Idle /\ peer[s] = "gone"
  /\ Forget(s)
  /\ peer' = [peer EXCEPT ![s] = "closed"]
  /\ UNCHANGED <<backend, sideVars, shown, seen, inbound, outbound, busy, wire>>

-----------------------------------------------------------------------------
(* The gateway, and the dispatcher's send *)

Answer(m, kind) ==
  /\ m \in inbound
  /\ inbound' = inbound \ {m}
  /\ outbound' = Append(outbound, [m EXCEPT !.kind = kind])
  /\ UNCHANGED <<backend, sideVars, socketVars, seen, busy, wire>>

\* Only the socket still showing that conversation, and still waiting for it.
Awaited(m) ==
  /\ m.socket \in known
  /\ bound[m.socket] = ConversationOf[m.request]
  /\ m.request \in active[m.socket]

\* mutant: a reply goes out first, and is stored when it went through
NextForUnstored(m) == "send"

\* a reply is stored before it is sent, an event is only sent
NextFor(m) == IF m.kind = "reply" THEN "store" ELSE "send"

SendBegin ==
  /\ busy = Idle /\ wire = NoWire /\ outbound # <<>>
  /\ LET m == Head(outbound) IN
     /\ busy' = IF Awaited(m) /\ NextFor(m) = "store"
                THEN [do |-> "look", role |-> "assistant",
                      socket |-> m.socket, request |-> m.request]
                ELSE Idle
     /\ wire' = IF Awaited(m) /\ NextFor(m) = "send" THEN m ELSE NoWire
  /\ outbound' = Tail(outbound)
  /\ UNCHANGED <<backend, sideVars, socketVars, seen, inbound>>

\* mutant: a socket that got one answer waits for nothing more
SettledAll(s, r) == {}

\* active.discard(message.request_id), if the registration is still there
Settled(s, r) == active[s] \ {r}

SendEnd ==
  /\ busy = Idle /\ wire # NoWire /\ peer[wire.socket] = "open"
  /\ shown' = [shown EXCEPT ![wire.socket] = @ \cup {wire}]
  /\ active' = [active EXCEPT ![wire.socket] = Settled(wire.socket, wire.request)]
  /\ wire' = NoWire
  /\ UNCHANGED <<backend, sideVars, peer, known, bound, seen, inbound, outbound, busy>>
SendFails ==
  /\ busy = Idle /\ wire # NoWire /\ peer[wire.socket] # "open"
  /\ Forget(wire.socket)
  /\ wire' = NoWire
  /\ UNCHANGED <<backend, sideVars, peer, shown, seen, inbound, outbound, busy>>

-----------------------------------------------------------------------------
LoopStep == UpdateEnd \/ LookUp \/ LookUpFails \/ InsertQuestion \/ InsertReply
DispatchStep == SendBegin \/ SendEnd \/ SendFails

PortalNext ==
  \/ \E c \in Conversations :
       \/ \E expected \in 1..MaxVersion[c] : UpdateBegin(c, expected)
       \/ Delete(c) \/ DeleteElsewhere(c) \/ UpdateElsewhere(c)
  \/ \E s \in Sockets : Connect(s) \/ Vanish(s) \/ HangUp(s) \/ \E r \in Requests : Ask(s, r)
  \/ \E m \in inbound : Answer(m, "reply") \/ Answer(m, "event")
  \/ LoopStep \/ DispatchStep

\* The event loop finishes what it is in the middle of, the dispatcher's task and
\* the handler that reads a dead socket get their turn, and Gateway answers what
\* it takes in (its own property TakenInIsAnswered).
PortalFairness ==
  /\ WF_portalVars(LoopStep)
  /\ SF_portalVars(DispatchStep)
  /\ \A r \in Requests : WF_portalVars(\E m \in inbound : m.request = r /\ (Answer(m, "reply") \/ Answer(m, "event")))

PortalSpec == PortalInit /\ [][PortalNext]_portalVars /\ PortalFairness

-----------------------------------------------------------------------------
(* Properties *)

\* What a customer was shown as a reply, the history of the conversation has, and
\* it has no reply without its question: through deletions, lost sockets, repeated
\* requests, replies overtaking each other, and other processes on the database.
ShownIsKept ==
  /\ \A s \in Sockets : \A m \in shown[s] :
       m.kind = "reply" => [request |-> m.request, role |-> "assistant"] \in history
  /\ \A r \in Requests :
       [request |-> r, role |-> "assistant"] \in history => [request |-> r, role |-> "user"] \in history

\* With one process, a request that reached the bus is answered on its socket,
\* unless the customer leaves, moves on to another conversation or deletes the one
\* the socket shows (which drops what it waits for in every conversation).
AskedIsAnswered ==
  \A s \in Sockets, r \in Requests :
    backend = "local" /\ r \in active[s] /\ (\E m \in inbound : m.socket = s /\ m.request = r)
      ~> \/ \E m \in shown[s] : m.request = r
         \/ peer[s] # "open" \/ bound[s] # ConversationOf[r]
=============================================================================
