--------------------------- MODULE Conversations ---------------------------
(* The workspace's conversations: an index of them in a file or in MySQL, the  *)
(* messages of each in a file or in MySQL, the browser windows bound to them,  *)
(* and the turns that store a question first and its answer last. With files   *)
(* there is one server; with MySQL each window has a server of its own. The    *)
(* indexing tool (conversation_migrate) runs while no server does.             *)
EXTENDS Integers, Sequences, FiniteSets

CONSTANTS Chats, Legacy,             \* Legacy: those with a file of the older version
          Windows, MaxQuestions, MaxChatChanges, MaxChatFaults  \* bounds

ASSUME ConversationsAssumption ==
  /\ Legacy \subseteq Chats /\ {MaxQuestions, MaxChatChanges, MaxChatFaults} \subseteq Nat

VARIABLES inMySQL,                   \* the backend
          chatIndex,                     \* status of each conversation
          messages,                  \* what each message file, or MySQL, holds, in order
          attached, answering, displayed,      \* of each window: conversation, requests, answers seen
          waiting, chatTurn, replies,    \* requests and the turn under way; answers to deliver
          questions, chatChanges, chatFaults

storeVars == <<inMySQL, chatIndex, messages>>
windowVars == <<attached, answering, displayed>>
chatTurnVars == <<waiting, chatTurn, replies>>
chatVars == <<storeVars, windowVars, chatTurnVars, questions, chatChanges, chatFaults>>

Nobody == "none"
NoTurn == [pc |-> Nobody, n |-> 0, window |-> Nobody]
Question(n) == <<"question", n>>
ReplyTo(n) == <<"answer", n>>

\* A server indexes the older files as it starts: every one of them is known.
ChatInit ==
  /\ inMySQL \in BOOLEAN
  /\ chatIndex = [c \in Chats |-> IF c \in Legacy /\ ~inMySQL THEN "active" ELSE Nobody]
  /\ messages = [c \in Chats |-> [file \in {"own", "legacy"} |-> <<>>]]
  /\ attached = [w \in Windows |-> Nobody] /\ answering = [w \in Windows |-> {}]
  /\ displayed = [w \in Windows |-> {}]
  /\ waiting = [c \in Chats |-> <<>>] /\ chatTurn = [c \in Chats |-> NoTurn] /\ replies = <<>>
  /\ questions = 0 /\ chatChanges = 0 /\ chatFaults = 0

-----------------------------------------------------------------------------
(* The index.                                                                 *)

Changes == chatChanges < MaxChatChanges /\ chatChanges' = chatChanges + 1
Create(c) ==
  /\ chatIndex[c] = Nobody /\ chatIndex' = [chatIndex EXCEPT ![c] = "active"]
  /\ UNCHANGED <<inMySQL, messages, windowVars, chatTurnVars, questions, chatChanges, chatFaults>>
\* The windows of the server that deletes lose their binding; its agent is dropped.
UnboundFrom(c, w) == {v \in Windows : attached[v] = c /\ (inMySQL => v = w)}
DeleteChat(c, w) ==
  /\ chatIndex[c] = "active" /\ Changes /\ chatIndex' = [chatIndex EXCEPT ![c] = "deleted"]
  /\ attached' = [v \in Windows |-> IF v \in UnboundFrom(c, w) THEN Nobody ELSE attached[v]]
  /\ displayed' = [v \in Windows |-> IF v \in UnboundFrom(c, w) THEN {} ELSE displayed[v]]
  /\ UNCHANGED <<inMySQL, messages, answering, chatTurnVars, questions, chatFaults>>
Restore(c) ==
  /\ chatIndex[c] = "deleted" /\ Changes /\ chatIndex' = [chatIndex EXCEPT ![c] = "active"]
  /\ UNCHANGED <<inMySQL, messages, windowVars, chatTurnVars, questions, chatFaults>>

\* The service's own view of a conversation: the file its record names.
FileOf(c) == IF ~inMySQL /\ c \in Legacy THEN "legacy" ELSE "own"
Transcript(c) == messages[c][FileOf(c)]
\* The session manager looks the file up in the index for every access, and
\* makes up a name when it cannot read the index.
\* mutant: a session's file is named after its key
NamedByKey(c, readable) == "own"
SessionPath(c, readable) == IF readable THEN FileOf(c) ELSE "own"

-----------------------------------------------------------------------------
(* Windows.                                                                   *)

Bind(w, c) ==
  /\ chatIndex[c] = "active" /\ attached[w] # c
  /\ attached' = [attached EXCEPT ![w] = c] /\ displayed' = [displayed EXCEPT ![w] = {}]
  /\ UNCHANGED <<storeVars, answering, chatTurnVars, questions, chatChanges, chatFaults>>
\* touch refuses a conversation that was deleted; the request stays active.
Touched(c) == chatIndex[c] = "active"
AskIn(w) ==
  /\ attached[w] # Nobody /\ questions < MaxQuestions /\ questions' = questions + 1
  /\ answering' = [answering EXCEPT ![w] = @ \cup {questions'}]
  /\ waiting' = IF Touched(attached[w])
                THEN [waiting EXCEPT ![attached[w]] = Append(@, [n |-> questions', window |-> w])]
                ELSE waiting
  /\ UNCHANGED <<storeVars, attached, displayed, chatTurn, replies, chatChanges, chatFaults>>
Disconnect(w) ==
  /\ attached[w] # Nobody
  /\ attached' = [attached EXCEPT ![w] = Nobody] /\ answering' = [answering EXCEPT ![w] = {}]
  /\ displayed' = [displayed EXCEPT ![w] = {}]
  /\ UNCHANGED <<storeVars, chatTurnVars, questions, chatChanges, chatFaults>>
MeantFor(r) == attached[r.window] = r.chat /\ r.n \in answering[r.window]
Deliver ==
  /\ replies # <<>>
  /\ LET r == Head(replies) IN
     /\ displayed' = IF MeantFor(r) /\ r.answers THEN [displayed EXCEPT ![r.window] = @ \cup {r.n}] ELSE displayed
     /\ answering' = IF MeantFor(r) THEN [answering EXCEPT ![r.window] = @ \ {r.n}] ELSE answering
  /\ replies' = Tail(replies)
  /\ UNCHANGED <<storeVars, attached, waiting, chatTurn, questions, chatChanges, chatFaults>>

-----------------------------------------------------------------------------
(* Turns: one at a time in a conversation.                                    *)

\* A message is appended; a failed write to a file is passed over.
StoredIn(c, message, readable, written) ==
  /\ inMySQL => (readable /\ written)
  /\ chatFaults' = chatFaults + IF readable /\ written THEN 0 ELSE 1
  /\ chatFaults' <= MaxChatFaults
  /\ messages' = IF written THEN [messages EXCEPT ![c][SessionPath(c, readable)] = Append(@, message)]
                 ELSE messages
Reply(c, answers) == [chat |-> c, n |-> chatTurn[c].n, window |-> chatTurn[c].window, answers |-> answers]
TurnBegins(c, readable, written) ==
  /\ chatTurn[c].pc = Nobody /\ waiting[c] # <<>>
  /\ chatTurn' = [chatTurn EXCEPT ![c] = [pc |-> "thinking", n |-> Head(waiting[c]).n,
                                  window |-> Head(waiting[c]).window]]
  /\ waiting' = [waiting EXCEPT ![c] = Tail(@)]
  /\ StoredIn(c, Question(Head(waiting[c]).n), readable, written)
  /\ UNCHANGED <<inMySQL, chatIndex, windowVars, replies, questions, chatChanges>>
TurnEnds(c, readable, written) ==
  /\ chatTurn[c].pc = "thinking"
  /\ StoredIn(c, ReplyTo(chatTurn[c].n), readable, written)
  /\ replies' = Append(replies, Reply(c, TRUE))
  /\ chatTurn' = [chatTurn EXCEPT ![c] = NoTurn]
  /\ UNCHANGED <<inMySQL, chatIndex, windowVars, waiting, questions, chatChanges>>
\* The store or the model fails: an error is the reply, and nothing is stored.
TurnFails(c) ==
  /\ chatTurn[c].pc = "thinking" /\ chatFaults < MaxChatFaults /\ chatFaults' = chatFaults + 1
  /\ chatTurn' = [chatTurn EXCEPT ![c] = NoTurn] /\ replies' = Append(replies, Reply(c, FALSE))
  /\ UNCHANGED <<storeVars, windowVars, waiting, questions, chatChanges>>

ChatNext ==
  \/ \E c \in Chats : Create(c) \/ Restore(c) \/ TurnFails(c)
  \/ \E c \in Chats, w \in Windows : DeleteChat(c, w) \/ Bind(w, c)
  \/ \E w \in Windows : AskIn(w) \/ Disconnect(w)
  \/ Deliver
  \/ \E c \in Chats, readable, written \in BOOLEAN :
       TurnBegins(c, readable, written) \/ TurnEnds(c, readable, written)
ChatSpec == ChatInit /\ [][ChatNext]_chatVars

-----------------------------------------------------------------------------
(* Properties.                                                                *)

\* While the index can be read a conversation has one history: the file its
\* record names tells question and answer in turn, and nothing is elsewhere,
\* deleted and restored or not (_get_session_path, messages).
OneHistory ==
  chatFaults = 0 => \A c \in Chats :
    /\ \A i \in DOMAIN Transcript(c) :
         i % 2 = 0 => Transcript(c)[i] = ReplyTo(Transcript(c)[i - 1][2])
    /\ \A file \in {"own", "legacy"} \ {FileOf(c)} : messages[c][file] = <<>>
    /\ Len(Transcript(c)) % 2 = IF chatTurn[c].pc = Nobody THEN 0 ELSE 1
=============================================================================
