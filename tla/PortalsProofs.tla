---------------------------- MODULE PortalsProofs ----------------------------
(***************************************************************************)
(* What people talk through, for any conversations, requests, sockets and  *)
(* windows: the customer's portal and its product questions, the           *)
(* conversations of the staff and the window of their workflow runs, and   *)
(* the turns in which an agent runs its tools.                             *)
(***************************************************************************)
EXTENDS CustomerPortal, Conversations, CustomerProduct, Workflow, AgentTurn, TLAPS

-----------------------------------------------------------------------------
(* CustomerPortal: what was shown is kept.                                    *)

Messages == [socket : Sockets, request : Requests, kind : {"question", "reply", "event"}]
Storing == [do : {"look", "insert"}, role : {"user", "assistant"}, socket : Sockets, request : Requests]
Kept(r, role) == [request |-> r, role |-> role] \in history

PortalTypeInv ==
  /\ inbound \subseteq Messages /\ outbound \in Seq(Messages)
  /\ busy = Idle \/ busy.do = "update" \/ busy \in Storing
  /\ wire = NoWire \/ wire \in Messages
  /\ shown \in [Sockets -> SUBSET Messages]

\* Wherever a request is on its way, its question has been stored.
QuestionsAreKept ==
  /\ \A m \in inbound : Kept(m.request, "user")
  /\ \A i \in DOMAIN outbound : Kept(outbound[i].request, "user")
  /\ (busy \in Storing /\ busy.role = "assistant") => Kept(busy.request, "user")
\* A reply is on the wire only when it has been stored.
RepliesAreKept == wire.kind = "reply" => Kept(wire.request, "assistant")

PortalInv == PortalTypeInv /\ QuestionsAreKept /\ RepliesAreKept /\ ShownIsKept

LEMMA PortalInitial == ASSUME PortalInit PROVE PortalInv
BY DEF PortalInit, PortalInv, PortalTypeInv, QuestionsAreKept, RepliesAreKept, ShownIsKept, NoWire,
       Idle, Kept, Storing

\* Nothing new is on its way, stored or shown.
LEMMA PortalRests ==
  ASSUME PortalInv, inbound' \subseteq inbound, outbound' \in Seq(Messages),
         \A i \in DOMAIN outbound' : \E j \in DOMAIN outbound : outbound'[i] = outbound[j],
         history \subseteq history', shown' = shown, wire' \in {wire, NoWire},
         \A r \in Requests : Kept(r, "assistant")' => Kept(r, "assistant"),
         \/ busy' = busy \/ busy' = Idle \/ busy'.do = "update"
  PROVE  PortalInv'
<1>1. PortalTypeInv'
  BY DEF PortalInv, PortalTypeInv
<1>2. QuestionsAreKept'
  BY DEF PortalInv, QuestionsAreKept, Kept, Idle, Storing
<1>3. RepliesAreKept' /\ ShownIsKept'
  BY DEF PortalInv, RepliesAreKept, ShownIsKept, Kept, NoWire
<1> QED
  BY <1>1, <1>2, <1>3 DEF PortalInv

LEMMA PortalStep == ASSUME PortalInv, [PortalNext]_portalVars PROVE PortalInv'
<1>t. PortalTypeInv /\ QuestionsAreKept /\ RepliesAreKept /\ ShownIsKept
  BY DEF PortalInv
<1>r. \A i \in DOMAIN outbound : \E j \in DOMAIN outbound : outbound[i] = outbound[j]
  OBVIOUS
\* Most steps store nothing, show nothing and put nothing on its way.
<1>1. ASSUME inbound' = inbound, outbound' = outbound, history' = history, shown' = shown,
             wire' \in {wire, NoWire}, \/ busy' = busy \/ busy' = Idle \/ busy'.do = "update"
      PROVE  PortalInv'
  BY <1>1, <1>r, <1>t, PortalRests DEF PortalTypeInv, Kept
<1>2. ASSUME NEW c \in Conversations,
             \/ \E expected \in 1..MaxVersion[c] : UpdateBegin(c, expected)
             \/ Delete(c) \/ DeleteElsewhere(c) \/ UpdateElsewhere(c)
      PROVE  PortalInv'
  BY <1>1, <1>2 DEF UpdateBegin, Delete, DeleteElsewhere, UpdateElsewhere, sideVars, socketVars
<1>3. ASSUME NEW s \in Sockets, Connect(s) \/ Vanish(s) \/ HangUp(s) PROVE PortalInv'
  BY <1>1, <1>3 DEF Connect, Vanish, HangUp, sideVars
<1>4. CASE UpdateEnd \/ LookUpFails \/ SendFails \/ UNCHANGED portalVars
  BY <1>1, <1>4 DEF UpdateEnd, LookUpFails, SendFails, sideVars, socketVars, portalVars
\* A question begins to be stored; the same for a reply once it is looked up.
<1>5. ASSUME busy' \in Storing, busy'.role = "assistant" => Kept(busy'.request, "user"),
             inbound' = inbound, outbound' = outbound, history' = history, shown' = shown, wire' = wire
      PROVE  PortalInv'
  BY <1>5, <1>t DEF PortalInv, PortalTypeInv, QuestionsAreKept, RepliesAreKept, ShownIsKept, Kept
<1>6. ASSUME NEW s \in Sockets, NEW r \in Requests, Ask(s, r) PROVE PortalInv'
  <2>1. /\ busy' = [do |-> "look", role |-> "user", socket |-> s, request |-> r]
        /\ UNCHANGED <<inbound, outbound, history, shown, wire>>
    BY <1>6 DEF Ask, sideVars
  <2>2. busy' \in Storing /\ busy'.role = "user"
    BY <2>1 DEF Storing
  <2> QED
    BY <1>5, <2>1, <2>2
<1>7. CASE LookUp
  <2>1. busy \in Storing
    BY <1>7, <1>t DEF LookUp, PortalTypeInv, Idle
  <2>2. busy' \in Storing /\ busy'.role = busy.role /\ busy'.request = busy.request
    BY <1>7, <2>1 DEF LookUp, Storing
  <2> QED
    BY <1>5, <1>7, <1>t, <2>1, <2>2 DEF LookUp, QuestionsAreKept, sideVars, socketVars
<1>8. CASE InsertQuestion
  <2> DEFINE m == Message(busy.socket, busy.request, "question")
  <2>1. busy \in Storing
    BY <1>8, <1>t DEF InsertQuestion, PortalTypeInv, Idle
  <2>2. m \in Messages /\ m.request = busy.request
    BY <2>1 DEF Message, Messages, Storing
  <2>3. /\ history' = history \cup {[request |-> busy.request, role |-> "user"]}
        /\ inbound' = inbound \cup {m} /\ busy' = Idle
        /\ outbound' = outbound /\ wire' = wire /\ shown' = shown
    BY <1>8 DEF InsertQuestion, Stored, socketVars
  <2> HIDE DEF m
  <2>4. PortalTypeInv'
    BY <1>t, <2>2, <2>3 DEF PortalTypeInv
  <2>5. QuestionsAreKept'
    BY <1>t, <2>2, <2>3 DEF QuestionsAreKept, Kept, Idle, Storing
  <2>6. RepliesAreKept'
    BY <1>t, <2>3 DEF RepliesAreKept, Kept
  <2>7. ShownIsKept'
    BY <1>t, <2>3 DEF ShownIsKept
  <2> QED
    BY <2>4, <2>5, <2>6, <2>7 DEF PortalInv
<1>9. CASE InsertReply
  <2> DEFINE m == Message(busy.socket, busy.request, "reply")
  <2>1. busy \in Storing /\ busy.role = "assistant" /\ Kept(busy.request, "user")
    BY <1>9, <1>t DEF InsertReply, PortalTypeInv, QuestionsAreKept, Idle
  <2>2. m \in Messages /\ m.request = busy.request
    BY <2>1 DEF Message, Messages, Storing
  <2>3. /\ history' = history \cup {[request |-> busy.request, role |-> "assistant"]}
        /\ inbound' = inbound /\ busy' = Idle
        /\ outbound' = outbound /\ wire' = m /\ shown' = shown
    BY <1>9 DEF InsertReply, Stored, socketVars
  <2> HIDE DEF m
  <2>4. PortalTypeInv'
    BY <1>t, <2>2, <2>3 DEF PortalTypeInv
  <2>5. QuestionsAreKept'
    BY <1>t, <2>2, <2>3 DEF QuestionsAreKept, Kept, Idle, Storing
  <2>6. RepliesAreKept'
    BY <1>t, <2>2, <2>3 DEF RepliesAreKept, Kept
  <2>7. ShownIsKept'
    BY <1>t, <2>1, <2>3 DEF ShownIsKept, Kept
  <2> QED
    BY <2>4, <2>5, <2>6, <2>7 DEF PortalInv
<1>10. ASSUME NEW q \in inbound, NEW kind \in {"reply", "event"}, Answer(q, kind) PROVE PortalInv'
  <2> DEFINE m == [q EXCEPT !.kind = kind]
  <2>1. q \in Messages /\ Kept(q.request, "user")
    BY <1>t DEF PortalTypeInv, QuestionsAreKept
  <2>2. m \in Messages /\ m.request = q.request
    BY <2>1 DEF Messages
  <2>3. /\ inbound' = inbound \ {q} /\ outbound' = Append(outbound, m) /\ history' = history
        /\ shown' = shown /\ busy' = busy /\ wire' = wire
    BY <1>10 DEF Answer, sideVars, socketVars
  <2> HIDE DEF m
  <2>4. PortalTypeInv'
    BY <1>t, <2>2, <2>3 DEF PortalTypeInv
  <2>5. QuestionsAreKept'
    <3>0. outbound \in Seq(Messages) /\ outbound' = Append(outbound, m)
      BY <1>t, <2>3 DEF PortalTypeInv
    <3>1. \A i \in DOMAIN outbound' : \/ i \in DOMAIN outbound /\ outbound'[i] = outbound[i]
                                     \/ outbound'[i] = m
      BY <2>2, <3>0
    <3>2. \A i \in DOMAIN outbound' : Kept(outbound'[i].request, "user")
      BY <1>t, <2>1, <2>2, <3>1 DEF QuestionsAreKept
    <3> QED
      BY <1>t, <2>3, <3>2 DEF QuestionsAreKept, Kept
  <2>6. RepliesAreKept' /\ ShownIsKept'
    BY <1>t, <2>3 DEF RepliesAreKept, ShownIsKept, Kept
  <2> QED
    BY <2>4, <2>5, <2>6 DEF PortalInv
<1>11. CASE SendBegin
  <2> DEFINE m == Head(outbound)
  <2>1. /\ outbound' = Tail(outbound) /\ outbound # <<>> /\ wire = NoWire /\ busy = Idle
        /\ inbound' = inbound /\ history' = history /\ shown' = shown
        /\ \/ /\ busy' = [do |-> "look", role |-> "assistant", socket |-> m.socket, request |-> m.request]
              /\ wire' = NoWire
           \/ busy' = Idle /\ wire' = NoWire
           \/ busy' = Idle /\ wire' = m /\ m.kind # "reply"
    <3>1. /\ outbound' = Tail(outbound) /\ outbound # <<>> /\ wire = NoWire /\ busy = Idle
          /\ inbound' = inbound /\ history' = history /\ shown' = shown
          /\ busy' = IF Awaited(m) /\ NextFor(m) = "store"
                     THEN [do |-> "look", role |-> "assistant", socket |-> m.socket, request |-> m.request]
                     ELSE Idle
          /\ wire' = IF Awaited(m) /\ NextFor(m) = "send" THEN m ELSE NoWire
      BY <1>11 DEF SendBegin, sideVars, socketVars
    <3>2. NextFor(m) = IF m.kind = "reply" THEN "store" ELSE "send"
      BY DEF NextFor
    <3> HIDE DEF m
    <3>3. CASE Awaited(m) /\ m.kind = "reply"
      BY <3>1, <3>2, <3>3
    <3>4. CASE Awaited(m) /\ m.kind # "reply"
      BY <3>1, <3>2, <3>4
    <3>5. CASE ~Awaited(m)
      BY <3>1, <3>5
    <3> QED
      BY <3>3, <3>4, <3>5
  <2>2. /\ m \in Messages /\ Kept(m.request, "user") /\ outbound' \in Seq(Messages)
        /\ \A i \in DOMAIN outbound' : i + 1 \in DOMAIN outbound /\ outbound'[i] = outbound[i + 1]
    BY <1>t, <2>1 DEF PortalTypeInv, QuestionsAreKept
  <2> HIDE DEF m
  <2>3. \/ busy' = Idle
        \/ busy' \in Storing /\ busy'.request = m.request
    <3>1. m.socket \in Sockets /\ m.request \in Requests
      BY <2>2 DEF Messages
    <3> QED
      BY <2>1, <3>1 DEF Storing
  <2>4. PortalTypeInv'
    BY <1>t, <2>1, <2>2, <2>3 DEF PortalTypeInv
  <2>5. QuestionsAreKept'
    BY <1>t, <2>1, <2>2, <2>3 DEF QuestionsAreKept, Kept, Idle, Storing
  <2>6. RepliesAreKept' /\ ShownIsKept'
    BY <1>t, <2>1 DEF RepliesAreKept, ShownIsKept, Kept, NoWire
  <2> QED
    BY <2>4, <2>5, <2>6 DEF PortalInv
<1>12. CASE SendEnd
  <2>1. /\ shown' = [shown EXCEPT ![wire.socket] = @ \cup {wire}] /\ wire # NoWire /\ wire' = NoWire
        /\ UNCHANGED <<inbound, outbound, history, busy>>
    BY <1>12 DEF SendEnd, sideVars
  <2>2. wire \in Messages /\ wire.socket \in Sockets
    BY <1>t, <2>1 DEF PortalTypeInv, Messages
  <2>3. PortalTypeInv'
    BY <1>t, <2>1, <2>2 DEF PortalTypeInv
  <2>4. QuestionsAreKept' /\ RepliesAreKept'
    BY <1>t, <2>1 DEF QuestionsAreKept, RepliesAreKept, Kept, NoWire
  <2>5. ShownIsKept'
    BY <1>t, <2>1, <2>2 DEF ShownIsKept, RepliesAreKept, Kept, PortalTypeInv
  <2> QED
    BY <2>3, <2>4, <2>5 DEF PortalInv
<1> QED
  BY <1>2, <1>3, <1>4, <1>6, <1>7, <1>8, <1>9, <1>10, <1>11, <1>12
     DEF PortalNext, LoopStep, DispatchStep

\* Every reply a customer was shown is in the history, behind its question: for
\* any sockets and requests, on one process or beside others on the database
\* (customer_portal.send, append_message).
THEOREM RepliesShownAreKept == PortalSpec => []ShownIsKept
<1>1. PortalInv => ShownIsKept
  BY DEF PortalInv
<1> QED
  BY <1>1, PortalInitial, PortalStep, PTL DEF PortalSpec

-----------------------------------------------------------------------------
(* Conversations: one history.                                                *)

Told == {"question", "answer"} \X Nat
Histories == [{"own", "legacy"} -> Seq(Told)]
Requested == [n : Nat, window : Windows]
ChatTypeInv ==
  /\ chatFaults \in Nat /\ questions \in Nat
  /\ messages \in [Chats -> Histories]
  /\ chatTurn \in [Chats -> [pc : {Nobody, "thinking"}, n : Nat, window : Windows \cup {Nobody}]]
  /\ waiting \in [Chats -> Seq(Requested)]

\* Every second message answers the one before it.
Alternates(told) == \A i \in DOMAIN told : i % 2 = 0 => told[i] = ReplyTo(told[i - 1][2])
\* A turn that is thinking was the last to store its question.
LastTold(told) == told[Len(told)][2]
QuestionIsLast(c) == chatTurn[c].pc = "thinking" => LastTold(Transcript(c)) = chatTurn[c].n
HistoryOf(c) ==
  /\ Alternates(Transcript(c)) /\ QuestionIsLast(c)
  /\ \A file \in {"own", "legacy"} \ {FileOf(c)} : messages[c][file] = <<>>
  /\ Len(Transcript(c)) % 2 = IF chatTurn[c].pc = Nobody THEN 0 ELSE 1

ChatInv == ChatTypeInv /\ (chatFaults = 0 => \A c \in Chats : HistoryOf(c))

LEMMA QuestionAdded ==
  ASSUME NEW told \in Seq(Told), Alternates(told), Len(told) % 2 = 0, NEW n \in Nat,
         NEW after, after = Append(told, Question(n))
  PROVE  /\ Alternates(after) /\ Len(after) % 2 = 1 /\ LastTold(after) = n
         /\ after \in Seq(Told)
<1>1. Question(n) \in Told /\ Question(n)[2] = n
  BY DEF Question, Told
<1>2. /\ after \in Seq(Told) /\ Len(after) = Len(told) + 1 /\ after[Len(after)] = Question(n)
      /\ \A i \in 1..Len(told) : after[i] = told[i]
  BY <1>1
<1>3. Len(after) % 2 = 1
  BY <1>2
<1>4. ASSUME NEW i \in DOMAIN after, i % 2 = 0 PROVE after[i] = ReplyTo(after[i - 1][2])
  <2>1. i \in 1..Len(told) /\ i # 1
    BY <1>2, <1>3, <1>4
  <2>2. i - 1 \in 1..Len(told) /\ told[i] = ReplyTo(told[i - 1][2])
    BY <1>4, <2>1 DEF Alternates
  <2> QED
    BY <1>2, <2>1, <2>2
<1> QED
  BY <1>1, <1>2, <1>3, <1>4 DEF Alternates, LastTold

LEMMA AnswerAdded ==
  ASSUME NEW told \in Seq(Told), Alternates(told), Len(told) % 2 = 1, NEW n \in Nat,
         LastTold(told) = n, NEW after, after = Append(told, ReplyTo(n))
  PROVE  Alternates(after) /\ Len(after) % 2 = 0 /\ after \in Seq(Told)
<1>1. ReplyTo(n) \in Told
  BY DEF ReplyTo, Told
<1>2. /\ after \in Seq(Told) /\ Len(after) = Len(told) + 1 /\ after[Len(after)] = ReplyTo(n)
      /\ \A i \in 1..Len(told) : after[i] = told[i]
  BY <1>1
<1>3. Len(after) % 2 = 0 /\ Len(told) # 0
  BY <1>2
<1>4. ASSUME NEW i \in DOMAIN after, i % 2 = 0 PROVE after[i] = ReplyTo(after[i - 1][2])
  <2>1. CASE i = Len(after)
    <3>1. i - 1 = Len(told) /\ Len(told) \in 1..Len(told)
      BY <1>2, <1>3, <2>1
    <3> QED
      BY <1>2, <2>1, <3>1 DEF LastTold
  <2>2. CASE i # Len(after)
    <3>1. i \in 1..Len(told) /\ i # 1
      BY <1>2, <1>4, <2>2
    <3>2. i - 1 \in 1..Len(told) /\ told[i] = ReplyTo(told[i - 1][2])
      BY <1>4, <3>1 DEF Alternates
    <3> QED
      BY <1>2, <3>1, <3>2
  <2> QED
    BY <2>1, <2>2
<1> QED
  BY <1>2, <1>3, <1>4 DEF Alternates

LEMMA ChatInitial == ASSUME ChatInit PROVE ChatInv
<1>1. /\ messages = [c \in Chats |-> [file \in {"own", "legacy"} |-> <<>>]] /\ chatTurn = [c \in Chats |-> NoTurn]
      /\ waiting = [c \in Chats |-> <<>>] /\ chatFaults = 0 /\ questions = 0
  BY DEF ChatInit
<1>2. ChatTypeInv
  BY <1>1 DEF ChatTypeInv, NoTurn, Histories, Nobody
<1>3. ASSUME NEW c \in Chats PROVE HistoryOf(c)
  <2>1. \A file \in {"own", "legacy"} : messages[c][file] = <<>>
    BY <1>1
  <2>2. FileOf(c) \in {"own", "legacy"} /\ chatTurn[c].pc = Nobody
    BY <1>1 DEF FileOf, NoTurn
  <2>3. Transcript(c) = <<>>
    BY <2>1, <2>2 DEF Transcript
  <2>4. Nobody # "thinking"
    BY DEF Nobody
  <2> QED
    BY <2>1, <2>2, <2>3, <2>4 DEF HistoryOf, Alternates, QuestionIsLast
<1> QED
  BY <1>2, <1>3 DEF ChatInv

\* A step of no turn.
LEMMA ChatRests ==
  ASSUME ChatInv, inMySQL' = inMySQL, messages' = messages, chatTurn' = chatTurn,
         chatFaults' = chatFaults, questions' \in Nat,
         waiting' \in [Chats -> Seq(Requested)]
  PROVE  ChatInv'
<1>1. ChatTypeInv'
  BY DEF ChatInv, ChatTypeInv
<1>2. \A c \in Chats : HistoryOf(c)' = HistoryOf(c)
  BY DEF HistoryOf, QuestionIsLast, Transcript, FileOf
<1> QED
  BY <1>1, <1>2 DEF ChatInv

\* A message that was stored, in a conversation whose index could be read.
LEMMA StoredInItsFile ==
  ASSUME ChatTypeInv, NEW c \in Chats, NEW m \in Told, NEW readable \in BOOLEAN, NEW written \in BOOLEAN,
         StoredIn(c, m, readable, written), inMySQL' = inMySQL
  PROVE  /\ chatFaults' \in Nat /\ messages' \in [Chats -> Histories]
         /\ chatFaults' = 0 =>
              /\ chatFaults = 0 /\ Transcript(c)' = Append(Transcript(c), m)
              /\ \A other \in {"own", "legacy"} \ {FileOf(c)} : messages'[c][other] = messages[c][other]
              /\ \A d \in Chats \ {c} : messages'[d] = messages[d]
<1> DEFINE file == SessionPath(c, readable)
<1>1. chatFaults \in Nat /\ messages \in [Chats -> Histories] /\ messages[c] \in Histories
  BY DEF ChatTypeInv
<1>2. FileOf(c) \in {"own", "legacy"} /\ file \in {"own", "legacy"}
  BY DEF FileOf, SessionPath
<1> DEFINE files == [messages[c] EXCEPT ![file] = Append(messages[c][file], m)]
<1>3. /\ chatFaults' = chatFaults + IF readable /\ written THEN 0 ELSE 1
      /\ messages' = IF written THEN [messages EXCEPT ![c] = files] ELSE messages
  BY DEF StoredIn
<1>f. readable => file = FileOf(c)
  BY DEF SessionPath
<1> HIDE DEF file
<1>4. /\ files \in Histories /\ files[file] = Append(messages[c][file], m)
      /\ \A other \in {"own", "legacy"} \ {file} : files[other] = messages[c][other]
  BY <1>1, <1>2 DEF Histories
<1> HIDE DEF files
<1>5. chatFaults' \in Nat /\ messages' \in [Chats -> Histories]
  BY <1>1, <1>3, <1>4
<1>6. ASSUME chatFaults' = 0
      PROVE  /\ chatFaults = 0 /\ Transcript(c)' = Append(Transcript(c), m)
             /\ \A other \in {"own", "legacy"} \ {FileOf(c)} : messages'[c][other] = messages[c][other]
             /\ \A d \in Chats \ {c} : messages'[d] = messages[d]
  <2>1. readable /\ written /\ chatFaults = 0
    BY <1>1, <1>3, <1>6
  <2>2. messages'[c] = files /\ \A d \in Chats \ {c} : messages'[d] = messages[d]
    BY <1>1, <1>3, <2>1
  <2>3. FileOf(c)' = FileOf(c)
    BY DEF FileOf
  <2> QED
    BY <1>4, <1>f, <2>1, <2>2, <2>3 DEF Transcript
<1> QED
  BY <1>5, <1>6

LEMMA ChatStep == ASSUME ChatInv, [ChatNext]_chatVars PROVE ChatInv'
<1>t. /\ ChatTypeInv /\ chatFaults \in Nat /\ questions \in Nat /\ messages \in [Chats -> Histories]
      /\ chatTurn \in [Chats -> [pc : {Nobody, "thinking"}, n : Nat, window : Windows \cup {Nobody}]]
      /\ waiting \in [Chats -> Seq(Requested)]
  BY DEF ChatInv, ChatTypeInv
<1>1. ASSUME UNCHANGED <<inMySQL, messages, chatTurn, chatFaults, questions, waiting>> PROVE ChatInv'
  BY <1>1, <1>t, ChatRests
<1>2. ASSUME NEW c \in Chats, Create(c) \/ Restore(c) PROVE ChatInv'
  BY <1>1, <1>2 DEF Create, Restore, chatTurnVars
<1>3. ASSUME NEW c \in Chats, NEW w \in Windows, DeleteChat(c, w) \/ Bind(w, c) PROVE ChatInv'
  BY <1>1, <1>3 DEF DeleteChat, Bind, chatTurnVars, storeVars
<1>4. ASSUME NEW w \in Windows, Disconnect(w) PROVE ChatInv'
  BY <1>1, <1>4 DEF Disconnect, chatTurnVars, storeVars
<1>5. CASE Deliver \/ UNCHANGED chatVars
  BY <1>1, <1>5 DEF Deliver, chatVars, chatTurnVars, storeVars
<1>6. ASSUME NEW w \in Windows, AskIn(w) PROVE ChatInv'
  <2> DEFINE q == [n |-> questions', window |-> w]
  <2>1. questions' = questions + 1 /\ questions' \in Nat
    BY <1>6, <1>t DEF AskIn
  <2>2. q \in Requested
    BY <2>1 DEF Requested
  <2>3. waiting' = waiting \/ waiting' = [waiting EXCEPT ![attached[w]] = Append(@, q)]
    BY <1>6 DEF AskIn
  <2> HIDE DEF q
  <2>4. waiting' \in [Chats -> Seq(Requested)]
    <3>1. \A c \in Chats : Append(waiting[c], q) \in Seq(Requested)
      BY <1>t, <2>2
    <3> DEFINE d == attached[w]
               longer == Append(waiting[d], q)
    <3>2. waiting' = waiting \/ waiting' = [waiting EXCEPT ![d] = longer]
      BY <2>3
    <3>3. d \in Chats => longer \in Seq(Requested)
      BY <3>1
    <3> HIDE DEF d, longer
    <3>4. waiting \in [Chats -> Seq(Requested)]
      BY <1>t
    <3> QED
      BY <3>2, <3>3, <3>4
  <2> QED
    BY <1>6, <2>1, <2>4, ChatRests DEF AskIn, storeVars
<1>7. ASSUME NEW c \in Chats, TurnFails(c) PROVE ChatInv'
  <2>1. NoTurn \in [pc : {Nobody, "thinking"}, n : Nat, window : Windows \cup {Nobody}]
    BY DEF NoTurn, Nobody
  <2>2. /\ chatFaults' = chatFaults + 1 /\ chatTurn' = [chatTurn EXCEPT ![c] = NoTurn]
        /\ UNCHANGED <<messages, waiting, questions>>
    BY <1>7 DEF TurnFails, storeVars
  <2>3. chatFaults' \in Nat /\ chatFaults' # 0
    BY <1>t, <2>2
  <2> HIDE DEF NoTurn
  <2> QED
    BY <1>t, <2>1, <2>2, <2>3 DEF ChatInv, ChatTypeInv
\* The other conversations are not touched by a turn.
<1>o. ASSUME NEW c \in Chats, NEW d \in Chats \ {c}, inMySQL' = inMySQL, HistoryOf(d),
             messages'[d] = messages[d], chatTurn'[d] = chatTurn[d]
      PROVE  HistoryOf(d)'
  <2>1. FileOf(d)' = FileOf(d) /\ FileOf(d) \in {"own", "legacy"}
    BY <1>o DEF FileOf
  <2>2. Transcript(d)' = Transcript(d)
    BY <1>o, <2>1 DEF Transcript
  <2> QED
    BY <1>o, <2>1, <2>2 DEF HistoryOf, QuestionIsLast
<1>8. ASSUME NEW c \in Chats, NEW readable \in BOOLEAN, NEW written \in BOOLEAN,
             TurnBegins(c, readable, written)
      PROVE  ChatInv'
  <2> DEFINE n == Head(waiting[c]).n
             begun == [pc |-> "thinking", n |-> n, window |-> Head(waiting[c]).window]
  <2>1. /\ chatTurn[c].pc = Nobody /\ waiting[c] # <<>> /\ inMySQL' = inMySQL
        /\ chatTurn' = [chatTurn EXCEPT ![c] = begun]
        /\ waiting' = [waiting EXCEPT ![c] = Tail(waiting[c])] /\ questions' = questions
        /\ StoredIn(c, Question(n), readable, written)
    BY <1>8, <1>t DEF TurnBegins
  <2>2. Head(waiting[c]) \in Requested /\ Tail(waiting[c]) \in Seq(Requested)
    <3>1. waiting[c] \in Seq(Requested) /\ waiting[c] # <<>>
      BY <1>t, <2>1
    <3> QED
      BY <3>1
  <2>3. n \in Nat /\ begun \in [pc : {Nobody, "thinking"}, n : Nat, window : Windows \cup {Nobody}]
        /\ begun.pc = "thinking" /\ begun.n = n
    BY <2>2 DEF Requested
  <2>4. Question(n) \in Told
    BY <2>3 DEF Question, Told
  <2> HIDE DEF n, begun
  <2>5. /\ chatFaults' \in Nat /\ messages' \in [Chats -> Histories]
        /\ chatFaults' = 0 =>
             /\ chatFaults = 0 /\ Transcript(c)' = Append(Transcript(c), Question(n))
             /\ \A other \in {"own", "legacy"} \ {FileOf(c)} : messages'[c][other] = messages[c][other]
             /\ \A d \in Chats \ {c} : messages'[d] = messages[d]
    BY <1>t, <2>1, <2>4, StoredInItsFile
  <2>6. chatTurn' \in [Chats -> [pc : {Nobody, "thinking"}, n : Nat, window : Windows \cup {Nobody}]]
        /\ chatTurn'[c] = begun /\ \A d \in Chats \ {c} : chatTurn'[d] = chatTurn[d]
    BY <1>t, <2>1, <2>3
  <2>7. ChatTypeInv'
    <3>1. waiting' \in [Chats -> Seq(Requested)]
      BY <1>t, <2>1, <2>2
    <3> QED
      BY <1>t, <2>1, <2>5, <2>6, <3>1 DEF ChatTypeInv
  <2>8. ASSUME chatFaults' = 0 PROVE \A d \in Chats : HistoryOf(d)'
    <3>1. \A d \in Chats : HistoryOf(d)
      BY <2>5, <2>8 DEF ChatInv
    <3>2. HistoryOf(c)'
      <4>1. /\ Alternates(Transcript(c)) /\ Len(Transcript(c)) % 2 = 0
            /\ \A file \in {"own", "legacy"} \ {FileOf(c)} : messages[c][file] = <<>>
        BY <2>1, <3>1 DEF HistoryOf
      <4>2. Transcript(c) \in Seq(Told)
        BY <1>t DEF Transcript, FileOf, Histories
      <4>3. /\ Alternates(Transcript(c)') /\ Len(Transcript(c)') % 2 = 1
            /\ LastTold(Transcript(c)') = n
        <5>1. n \in Nat /\ Transcript(c)' = Append(Transcript(c), Question(n))
          BY <2>3, <2>5, <2>8
        <5> DEFINE told == Transcript(c)
                   after == Append(told, Question(n))
        <5>2. told \in Seq(Told) /\ Alternates(told) /\ Len(told) % 2 = 0
          BY <4>1, <4>2
        <5>a. after = Append(told, Question(n))
          OBVIOUS
        <5>n. n \in Nat
          BY <5>1
        <5> HIDE DEF told, after
        <5>3. Alternates(after) /\ Len(after) % 2 = 1 /\ LastTold(after) = n
          BY <5>n, <5>2, <5>a, QuestionAdded
        <5> QED
          BY <5>1, <5>3 DEF told, after
      <4>4. FileOf(c)' = FileOf(c) /\ begun.pc # Nobody
        BY <2>1, <2>3 DEF FileOf, Nobody
      <4>5. Alternates(Transcript(c))' = Alternates(Transcript(c)')
        BY DEF Alternates
      <4> QED
        BY <2>3, <2>5, <2>6, <2>8, <4>1, <4>3, <4>4, <4>5 DEF HistoryOf, QuestionIsLast
    <3>3. ASSUME NEW d \in Chats \ {c} PROVE HistoryOf(d)'
      BY <1>o, <2>1, <2>5, <2>6, <2>8, <3>1, <3>3
    <3> QED
      BY <3>2, <3>3
  <2> QED
    BY <2>7, <2>8 DEF ChatInv
<1>9. ASSUME NEW c \in Chats, NEW readable \in BOOLEAN, NEW written \in BOOLEAN,
             TurnEnds(c, readable, written)
      PROVE  ChatInv'
  <2> DEFINE n == chatTurn[c].n
  <2>1. /\ chatTurn[c].pc = "thinking" /\ inMySQL' = inMySQL
        /\ chatTurn' = [chatTurn EXCEPT ![c] = NoTurn] /\ waiting' = waiting /\ questions' = questions
        /\ StoredIn(c, ReplyTo(n), readable, written)
    BY <1>9 DEF TurnEnds
  <2>2. NoTurn \in [pc : {Nobody, "thinking"}, n : Nat, window : Windows \cup {Nobody}] /\ NoTurn.pc = Nobody
    BY DEF NoTurn, Nobody
  <2>3. n \in Nat
    BY <1>t
  <2>4. ReplyTo(n) \in Told
    BY <2>3 DEF ReplyTo, Told
  <2> HIDE DEF n
  <2>5. /\ chatFaults' \in Nat /\ messages' \in [Chats -> Histories]
        /\ chatFaults' = 0 =>
             /\ chatFaults = 0 /\ Transcript(c)' = Append(Transcript(c), ReplyTo(n))
             /\ \A other \in {"own", "legacy"} \ {FileOf(c)} : messages'[c][other] = messages[c][other]
             /\ \A d \in Chats \ {c} : messages'[d] = messages[d]
    BY <1>t, <2>1, <2>4, StoredInItsFile
  <2>6. chatTurn' \in [Chats -> [pc : {Nobody, "thinking"}, n : Nat, window : Windows \cup {Nobody}]]
        /\ chatTurn'[c] = NoTurn /\ \A d \in Chats \ {c} : chatTurn'[d] = chatTurn[d]
    BY <1>t, <2>1, <2>2
  <2>7. ChatTypeInv'
    BY <1>t, <2>1, <2>5, <2>6 DEF ChatTypeInv
  <2>8. ASSUME chatFaults' = 0 PROVE \A d \in Chats : HistoryOf(d)'
    <3>1. \A d \in Chats : HistoryOf(d)
      BY <2>5, <2>8 DEF ChatInv
    <3>2. HistoryOf(c)'
      <4>1. /\ Alternates(Transcript(c)) /\ Len(Transcript(c)) % 2 = 1
            /\ LastTold(Transcript(c)) = n
            /\ \A file \in {"own", "legacy"} \ {FileOf(c)} : messages[c][file] = <<>>
        BY <2>1, <3>1 DEF HistoryOf, QuestionIsLast, Nobody, n
      <4>2. Transcript(c) \in Seq(Told)
        BY <1>t DEF Transcript, FileOf, Histories
      <4>3. Alternates(Transcript(c)') /\ Len(Transcript(c)') % 2 = 0
        <5>1. n \in Nat /\ Transcript(c)' = Append(Transcript(c), ReplyTo(n))
          BY <2>3, <2>5, <2>8
        <5> DEFINE told == Transcript(c)
                   after == Append(told, ReplyTo(n))
        <5>2. told \in Seq(Told) /\ Alternates(told) /\ Len(told) % 2 = 1 /\ LastTold(told) = n
          BY <4>1, <4>2
        <5>a. after = Append(told, ReplyTo(n))
          OBVIOUS
        <5>n. n \in Nat
          BY <5>1
        <5> HIDE DEF told, after
        <5>3. Alternates(after) /\ Len(after) % 2 = 0
          BY <5>n, <5>2, <5>a, AnswerAdded
        <5> QED
          BY <5>1, <5>3 DEF told, after
      <4>4. FileOf(c)' = FileOf(c) /\ Nobody # "thinking"
        BY <2>1 DEF FileOf, Nobody
      <4>5. Alternates(Transcript(c))' = Alternates(Transcript(c)')
        BY DEF Alternates
      <4> QED
        BY <2>2, <2>5, <2>6, <2>8, <4>1, <4>3, <4>4, <4>5 DEF HistoryOf, QuestionIsLast
    <3>3. ASSUME NEW d \in Chats \ {c} PROVE HistoryOf(d)'
      BY <1>o, <2>1, <2>5, <2>6, <2>8, <3>1, <3>3
    <3> QED
      BY <3>2, <3>3
  <2> QED
    BY <2>7, <2>8 DEF ChatInv
<1> QED
  BY <1>2, <1>3, <1>4, <1>5, <1>6, <1>7, <1>8, <1>9 DEF ChatNext

\* While its index can be read a conversation has one history that tells question
\* and answer in turn, for any conversations and windows (_get_session_path).
THEOREM HistoryIsOne == ChatSpec => []OneHistory
<1>1. ChatInv => OneHistory
  BY DEF ChatInv, HistoryOf, Alternates, OneHistory
<1> QED
  BY <1>1, ChatInitial, ChatStep, PTL DEF ChatSpec

-----------------------------------------------------------------------------
(* Products: how old an answer may be.                                        *)

Pcs == {"idle", "expire", "lookup", "read", "ask", "check", "store"}
Subjects == Skus \cup {"use case"}
QueryStates == [pc : Pcs, op : Queries, toRead : SUBSET Skus, rows : SUBSET Skus, toAsk : SUBSET Subjects,
                asked : SUBSET Subjects, cites : BOOLEAN, began : Nat]
EntryStates == [rows : SUBSET Skus, cites : BOOLEAN, until : Nat]
ProductTypeInv ==
  /\ clock \in Nat /\ onSale \in SUBSET Skus /\ lastOnSale \in [Skus -> Nat] /\ lastVisible \in Nat
  /\ doc \in [visible : BOOLEAN, indexed : BOOLEAN]
  /\ query \in [Sessions -> QueryStates] /\ cache \in [Sessions \X Queries -> EntryStates]
  /\ \A c \in Sessions : query[c].pc = "ask" => query[c].toAsk # {}

\* What is on sale or visible is so now.
WorldIsNow ==
  /\ \A s \in Skus : lastOnSale[s] <= clock /\ (s \in onSale => lastOnSale[s] = clock)
  /\ lastVisible <= clock /\ (doc.visible => lastVisible = clock)

\* Rows and citation of what was read at this time or after it.
ReadSince(x, time) == /\ \A s \in x.rows : time <= lastOnSale[s]
                      /\ x.cites => time <= lastVisible
QueryIsRecent(q) ==
  q.pc # "idle" => q.began <= clock /\ clock - q.began <= Slow /\ ReadSince(q, q.began)
EntryIsRecent(e) == ReadSince(e, e.until - Ttl - Slow)

ProductInv ==
  /\ ProductTypeInv /\ WorldIsNow /\ AnswersAreRecent
  /\ \A c \in Sessions : QueryIsRecent(query[c])
  /\ \A k \in Sessions \X Queries : EntryIsRecent(cache[k])

LEMMA ProductConstants ==
  /\ Ttl \in Nat \ {0} /\ Slow \in Nat /\ Tagged \in SUBSET Skus
  /\ \A c \in Sessions : Home(c) \in Sessions
  /\ \A c \in Sessions : AsksFor[c] \subseteq Queries
<1>1. (CHOOSE h \in Sessions : TRUE) \in Sessions
  BY CustomerProductAssumption
<1> QED
  BY <1>1, CustomerProductAssumption DEF Home, Queries

LEMMA NoQueryIs == NoQuery \in QueryStates /\ NoQuery.pc = "idle"
BY DEF NoQuery, QueryStates, Pcs, Queries

LEMMA ProductInitial == ASSUME ProductInit PROVE ProductInv
<1>1. /\ clock = 1 /\ onSale = Skus /\ lastOnSale = [s \in Skus |-> 1] /\ lastVisible = 1
      /\ doc = [visible |-> TRUE, indexed |-> TRUE] /\ query = [c \in Sessions |-> NoQuery]
      /\ cache = [k \in Sessions \X Queries |-> Uncached] /\ answer = Nothing
  BY DEF ProductInit
<1>2. Uncached \in EntryStates /\ Uncached.rows = {} /\ Uncached.cites = FALSE
  BY DEF Uncached, EntryStates
<1>3. ProductTypeInv
  <2>1. query \in [Sessions -> QueryStates] /\ \A c \in Sessions : query[c].pc = "ask" => query[c].toAsk # {}
    BY <1>1, NoQueryIs
  <2>2. cache \in [Sessions \X Queries -> EntryStates]
    BY <1>1, <1>2
  <2>3. lastOnSale \in [Skus -> Nat] /\ doc \in [visible : BOOLEAN, indexed : BOOLEAN]
    BY <1>1
  <2> QED
    BY <1>1, <2>1, <2>2, <2>3 DEF ProductTypeInv
<1>4. WorldIsNow /\ AnswersAreRecent
  <2>1. answer.rows = {} /\ answer.cites = FALSE
    BY <1>1 DEF Nothing
  <2> QED
    BY <1>1, <2>1 DEF WorldIsNow, AnswersAreRecent
<1>5. \A c \in Sessions : QueryIsRecent(query[c])
  BY <1>1, NoQueryIs DEF QueryIsRecent
<1>6. \A k \in Sessions \X Queries : EntryIsRecent(cache[k])
  BY <1>1, <1>2 DEF EntryIsRecent, ReadSince
<1> QED
  BY <1>3, <1>4, <1>5, <1>6 DEF ProductInv

\* A query goes on to a state that has read nothing older.
LEMMA QueryGoes ==
  ASSUME ProductInv, NEW c \in Sessions, NEW q \in QueryStates, q.pc = "ask" => q.toAsk # {},
         QueryIsRecent(q), Goes(c, q), UNCHANGED <<clock, cache, worldVars>>
  PROVE  ProductInv'
<1>1. /\ query \in [Sessions -> QueryStates] /\ query' = [query EXCEPT ![c] = q] /\ answer' = Nothing
      /\ UNCHANGED <<clock, cache, onSale, lastOnSale, doc, lastVisible>>
  BY DEF ProductInv, ProductTypeInv, Goes, worldVars
<1>2. query' \in [Sessions -> QueryStates] /\ query'[c] = q /\ \A d \in Sessions \ {c} : query'[d] = query[d]
  BY <1>1
<1>3. ProductTypeInv'
  BY <1>1, <1>2 DEF ProductInv, ProductTypeInv
<1>4. WorldIsNow' /\ AnswersAreRecent'
  BY <1>1 DEF ProductInv, WorldIsNow, AnswersAreRecent, Nothing
<1>5. \A d \in Sessions : QueryIsRecent(query[d])'
  BY <1>1, <1>2 DEF ProductInv, QueryIsRecent, ReadSince
<1>6. \A k \in Sessions \X Queries : EntryIsRecent(cache[k])'
  BY <1>1 DEF ProductInv, EntryIsRecent, ReadSince
<1> QED
  BY <1>3, <1>4, <1>5, <1>6 DEF ProductInv

\* A query ends and tells something recent enough.
LEMMA QueryRests ==
  ASSUME ProductInv, NEW c \in Sessions, NEW told, Rests(c, told), UNCHANGED <<clock, worldVars>>,
         cache' \in [Sessions \X Queries -> EntryStates],
         \A k \in Sessions \X Queries : cache'[k] = cache[k] \/ EntryIsRecent(cache'[k]),
         \A s \in told.rows : clock - lastOnSale[s] < Ttl + Slow,
         told.cites => clock - lastVisible < Ttl + Slow
  PROVE  ProductInv'
<1>1. /\ query \in [Sessions -> QueryStates] /\ query' = [query EXCEPT ![c] = NoQuery] /\ answer' = told
      /\ UNCHANGED <<clock, onSale, lastOnSale, doc, lastVisible>>
  BY DEF ProductInv, ProductTypeInv, Rests, worldVars
<1>2. /\ query' \in [Sessions -> QueryStates] /\ query'[c] = NoQuery
      /\ \A d \in Sessions \ {c} : query'[d] = query[d]
  BY <1>1, NoQueryIs
<1>3. ProductTypeInv'
  BY <1>1, <1>2, NoQueryIs DEF ProductInv, ProductTypeInv
<1>4. WorldIsNow' /\ AnswersAreRecent'
  BY <1>1 DEF ProductInv, WorldIsNow, AnswersAreRecent
<1>5. \A d \in Sessions : QueryIsRecent(query[d])'
  BY <1>1, <1>2, NoQueryIs DEF ProductInv, QueryIsRecent, ReadSince
<1>6. \A k \in Sessions \X Queries : EntryIsRecent(cache[k])'
  BY <1>1 DEF ProductInv, EntryIsRecent, ReadSince
<1> QED
  BY <1>3, <1>4, <1>5, <1>6 DEF ProductInv

\* Nothing is told: refused, or failed.
LEMMA QueryTellsNothing ==
  ASSUME ProductInv, NEW c \in Sessions, NEW told, told.rows = {}, told.cites = FALSE, Rests(c, told),
         UNCHANGED <<clock, cache, worldVars>>
  PROVE  ProductInv'
<1>1. cache' = cache /\ cache \in [Sessions \X Queries -> EntryStates]
  BY DEF ProductInv, ProductTypeInv
<1> QED
  BY <1>1, QueryRests

LEMMA AskKeeps ==
  ASSUME ProductInv, NEW c \in Sessions, NEW q \in AsksFor[c], AskMemory(c, q) \/ AskRedis(c, q)
  PROVE  ProductInv'
<1>1. UNCHANGED <<clock, cache, worldVars>> /\ q \in Queries
  BY ProductConstants DEF AskMemory, AskRedis
<1>2. CASE Rests(c, Refusal(c, q))
  <2>1. Refusal(c, q).rows = {} /\ Refusal(c, q).cites = FALSE
    BY DEF Refusal, Nothing
  <2> QED
    BY <1>1, <1>2, <2>1, QueryTellsNothing
<1>3. CASE \E pc \in {"expire", "lookup"} : Goes(c, [Asking(c, q) EXCEPT !.pc = pc])
  <2>1. PICK pc \in {"expire", "lookup"} : Goes(c, [Asking(c, q) EXCEPT !.pc = pc])
    BY <1>3
  <2>2. PICK r \in QueryStates : r = [Asking(c, q) EXCEPT !.pc = pc]
    BY <1>1, NoQueryIs DEF Asking, NoQuery, QueryStates, Pcs, ProductInv, ProductTypeInv
  <2>3. r.pc = pc /\ r.rows = {} /\ r.cites = FALSE /\ r.began = clock
    BY <2>2 DEF Asking, NoQuery, QueryStates
  <2>4. QueryIsRecent(r)
    BY <2>3, ProductConstants DEF QueryIsRecent, ReadSince, ProductInv, ProductTypeInv
  <2> QED
    BY <1>1, <2>1, <2>2, <2>3, <2>4, QueryGoes
<1>4. CASE Goes(c, Asking(c, q))
  <2>1. Asking(c, q) = [Asking(c, q) EXCEPT !.pc = "lookup"]
    BY DEF Asking, NoQuery
  <2> QED
    BY <1>3, <1>4, <2>1
<1> QED
  BY <1>2, <1>3, <1>4 DEF AskMemory, AskRedis

LEMMA FailureKeeps ==
  ASSUME ProductInv, NEW c \in Sessions, ExpireLost(c) \/ QueryFails(c) PROVE ProductInv'
<1>1. Empty(c, "error").rows = {} /\ Empty(c, "error").cites = FALSE
  BY DEF Empty, Nothing
<1> QED
  BY <1>1, QueryTellsNothing DEF ExpireLost, QueryFails

LEMMA QueryIs ==
  ASSUME ProductInv, NEW c \in Sessions
  PROVE  /\ query[c] \in QueryStates /\ QueryIsRecent(query[c])
         /\ query[c].pc = "ask" => query[c].toAsk # {}
BY DEF ProductInv, ProductTypeInv

\* What a query has read so far stays as recent.
LEMMA StepKeeps ==
  ASSUME ProductInv, NEW c \in Sessions, query[c].pc # "idle", NEW q \in QueryStates, Goes(c, q),
         q.pc = "ask" => q.toAsk # {}, q.began = query[c].began,
         \A s \in q.rows : s \in query[c].rows \/ s \in onSale,
         q.cites => query[c].cites \/ doc.visible,
         UNCHANGED <<clock, cache, worldVars>>
  PROVE  ProductInv'
<1>1. PICK p \in QueryStates : p = query[c] /\ QueryIsRecent(p)
  BY QueryIs
<1>2. /\ clock \in Nat /\ p.began \in Nat /\ q.rows \subseteq Skus
      /\ \A s \in Skus : s \in onSale => lastOnSale[s] = clock
      /\ doc.visible => lastVisible = clock
  BY DEF QueryStates, ProductInv, ProductTypeInv, WorldIsNow
<1>3. QueryIsRecent(q)
  BY <1>1, <1>2 DEF QueryIsRecent, ReadSince
<1> QED
  BY <1>3, QueryGoes

\* What remains of a query has read what it had.
LEMMA OnwardIs ==
  ASSUME NEW q \in QueryStates
  PROVE  /\ Onward(q) \in QueryStates /\ Onward(q).began = q.began /\ Onward(q).rows = q.rows
         /\ Onward(q).cites = q.cites
         /\ Onward(q).pc = "ask" => Onward(q).toAsk # {}
<1>1. CASE q.pc = "read" /\ q.toRead = {} /\ q.op = "compare" /\ q.rows # {}
  <2>1. PICK r \in QueryStates : r = [q EXCEPT !.pc = "ask", !.toAsk = q.rows]
    BY DEF QueryStates, Pcs, Subjects
  <2>2. r.began = q.began /\ r.rows = q.rows /\ r.cites = q.cites /\ r.toAsk = q.rows
    BY <2>1 DEF QueryStates
  <2> QED
    BY <1>1, <2>1, <2>2 DEF Onward
<1>2. CASE Onward(q) = [q EXCEPT !.pc = "store"]
  <2>1. PICK r \in QueryStates : r = [q EXCEPT !.pc = "store"]
    BY DEF QueryStates, Pcs
  <2>2. r.began = q.began /\ r.rows = q.rows /\ r.cites = q.cites /\ r.pc = "store"
    BY <2>1 DEF QueryStates
  <2> QED
    BY <1>2, <2>1, <2>2
<1>3. CASE Onward(q) = q /\ (q.pc = "ask" => q.toAsk # {})
  BY <1>3
<1> QED
  BY <1>1, <1>2, <1>3 DEF Onward

LEMMA ExpireRedisKeeps == ASSUME ProductInv, NEW c \in Sessions, ExpireRedis(c) PROVE ProductInv'
<1>1. PICK q \in QueryStates : q = query[c]
  BY QueryIs
<1>2. PICK r \in QueryStates : r = [q EXCEPT !.pc = "lookup"]
  BY DEF QueryStates, Pcs
<1>3. r.began = q.began /\ r.rows = q.rows /\ r.cites = q.cites /\ r.pc = "lookup"
  BY <1>2 DEF QueryStates
<1> QED
  BY <1>1, <1>2, <1>3, StepKeeps DEF ExpireRedis

LEMMA LookupMissKeeps == ASSUME ProductInv, NEW c \in Sessions, LookupMiss(c) PROVE ProductInv'
<1>1. PICK q \in QueryStates : q = query[c]
  BY QueryIs
<1>2. PICK pc \in {"ask", "read"}, ds \in SUBSET Skus, us \in SUBSET Subjects :
        /\ Goes(c, [q EXCEPT !.pc = pc, !.toRead = ds, !.toAsk = us])
        /\ pc = "ask" => us # {}
  BY <1>1 DEF LookupMiss, Subjects
<1>3. PICK r \in QueryStates : r = [q EXCEPT !.pc = pc, !.toRead = ds, !.toAsk = us]
  BY DEF QueryStates, Pcs
<1>4. r.began = q.began /\ r.rows = q.rows /\ r.cites = q.cites /\ r.pc = pc /\ r.toAsk = us
  BY <1>3 DEF QueryStates
<1> QED
  BY <1>1, <1>2, <1>3, <1>4, StepKeeps DEF LookupMiss

LEMMA ReadProductsKeeps ==
  ASSUME ProductInv, NEW c \in Sessions, NEW read \in SUBSET Skus, ReadProducts(c, read) PROVE ProductInv'
<1>1. PICK q \in QueryStates : q = query[c]
  BY QueryIs
<1>2. PICK r \in QueryStates : r = [q EXCEPT !.toRead = @ \ read, !.rows = @ \cup Shown(read)]
  BY DEF QueryStates, Shown
<1>3. r.began = q.began /\ r.rows = q.rows \cup Shown(read) /\ r.cites = q.cites
  BY <1>2 DEF QueryStates
<1>4. Goes(c, Onward(r)) /\ query[c].pc # "idle" /\ UNCHANGED <<clock, cache, worldVars>>
  BY <1>1, <1>2 DEF ReadProducts
<1>5. \A s \in Onward(r).rows : s \in q.rows \/ s \in onSale
  BY <1>3, OnwardIs DEF Shown
<1> QED
  BY <1>1, <1>3, <1>4, <1>5, OnwardIs, StepKeeps

LEMMA AskDocumentsKeeps ==
  ASSUME ProductInv, NEW c \in Sessions, NEW found \in BOOLEAN, AskDocuments(c, found) PROVE ProductInv'
<1>1. PICK q \in QueryStates : q = query[c] /\ q.toAsk # {}
  BY QueryIs DEF AskDocuments
<1>2. PICK u \in Subjects : u = CHOOSE s \in q.toAsk : TRUE
  <2>1. (CHOOSE s \in q.toAsk : TRUE) \in q.toAsk
    BY <1>1
  <2> QED
    BY <2>1 DEF QueryStates
<1>3. PICK r \in QueryStates : r = [q EXCEPT !.pc = IF found THEN "check" ELSE "ask", !.toAsk = @ \ {u},
                                           !.asked = IF found THEN {u} ELSE {}]
  BY DEF QueryStates, Pcs
<1>4. r.began = q.began /\ r.rows = q.rows /\ r.cites = q.cites
  BY <1>3 DEF QueryStates
<1>5. Goes(c, Onward(r)) /\ query[c].pc # "idle" /\ UNCHANGED <<clock, cache, worldVars>>
  BY <1>1, <1>2, <1>3 DEF AskDocuments
<1> QED
  BY <1>1, <1>4, <1>5, OnwardIs, StepKeeps

LEMMA CheckDocumentKeeps == ASSUME ProductInv, NEW c \in Sessions, CheckDocument(c) PROVE ProductInv'
<1>1. PICK q \in QueryStates : q = query[c]
  BY QueryIs
<1>2. PICK b \in BOOLEAN : (b <=> q.cites \/ DocumentVisible(c)) /\ b = (q.cites \/ DocumentVisible(c))
  OBVIOUS
<1>3. PICK pc \in {"ask", "read"}, ds \in SUBSET Skus :
        Goes(c, Onward([q EXCEPT !.pc = pc, !.cites = b, !.toRead = ds, !.asked = {}]))
  BY <1>1, <1>2, ProductConstants DEF CheckDocument
<1>4. PICK r \in QueryStates : r = [q EXCEPT !.pc = pc, !.cites = b, !.toRead = ds, !.asked = {}]
  BY DEF QueryStates, Pcs
<1>5. r.began = q.began /\ r.rows = q.rows /\ (r.cites <=> b)
  BY <1>4 DEF QueryStates
<1>6. Onward(r).cites => q.cites \/ doc.visible
  BY <1>2, <1>5, OnwardIs DEF DocumentVisible
<1>7. query[c].pc # "idle" /\ UNCHANGED <<clock, cache, worldVars>>
  BY DEF CheckDocument
<1>8. Goes(c, Onward(r))
  BY <1>3, <1>4
<1>9. \A s \in Onward(r).rows : s \in q.rows
  BY <1>5, OnwardIs
<1> QED
  BY <1>1, <1>5, <1>6, <1>7, <1>8, <1>9, OnwardIs, StepKeeps

LEMMA LookupHitKeeps == ASSUME ProductInv, NEW c \in Sessions, LookupHit(c) PROVE ProductInv'
<1>1. query[c] \in QueryStates /\ query[c].op \in Queries
  BY QueryIs DEF QueryStates
<1>2. PICK k \in Sessions \X Queries : k = <<Home(c), query[c].op>>
  BY <1>1, ProductConstants
<1>3. PICK e \in EntryStates : e = cache[k] /\ EntryIsRecent(e)
  BY DEF ProductInv, ProductTypeInv
<1>4. e.until > clock
  BY <1>2, <1>3 DEF LookupHit, Fresh, Cached
<1>0. PICK told : told = [kind |-> "hit", session |-> c, rows |-> e.rows, cites |-> e.cites,
                          op |-> query[c].op, began |-> query[c].began]
  OBVIOUS
<1>5. told.rows = e.rows /\ told.cites = e.cites
  BY <1>0
<1>6. Rests(c, told) /\ UNCHANGED <<clock, cache, worldVars>>
  BY <1>0, <1>2, <1>3 DEF LookupHit, Cached
<1>7. /\ \A s \in told.rows : clock - lastOnSale[s] < Ttl + Slow
      /\ told.cites => clock - lastVisible < Ttl + Slow
  <2>1. /\ clock \in Nat /\ lastVisible \in Nat /\ e.until \in Nat
        /\ \A s \in e.rows : lastOnSale[s] \in Nat
    BY DEF ProductInv, ProductTypeInv, EntryStates
  <2> QED
    BY <1>3, <1>4, <1>5, <2>1, ProductConstants DEF EntryIsRecent, ReadSince
<1>8. cache' \in [Sessions \X Queries -> EntryStates]
  BY <1>6 DEF ProductInv, ProductTypeInv
<1> QED
  BY <1>6, <1>7, <1>8, QueryRests

LEMMA StoreKeeps == ASSUME ProductInv, NEW c \in Sessions, Store(c) PROVE ProductInv'
<1>1. PICK q \in QueryStates : q = query[c] /\ QueryIsRecent(q) /\ q.pc = "store"
  BY QueryIs DEF Store
<1>2. PICK k \in Sessions \X Queries : k = <<Home(c), q.op>>
  BY ProductConstants DEF QueryStates
<1>3. PICK e \in EntryStates : e = [rows |-> q.rows, cites |-> q.cites, until |-> clock + Ttl]
  <2>1. q.rows \in SUBSET Skus /\ q.cites \in BOOLEAN /\ clock + Ttl \in Nat
    BY ProductConstants DEF QueryStates, ProductInv, ProductTypeInv
  <2> QED
    BY <2>1 DEF EntryStates
<1>4. e.rows = q.rows /\ e.cites = q.cites /\ e.until = clock + Ttl
  BY <1>3
<1>0. PICK told : told = [kind |-> "fresh", session |-> c, rows |-> q.rows, cites |-> q.cites,
                          op |-> q.op, began |-> q.began]
  OBVIOUS
<1>5. told.rows = q.rows /\ told.cites = q.cites
  BY <1>0
<1>6. /\ Rests(c, told) /\ UNCHANGED <<clock, worldVars>>
      /\ cache' = [cache EXCEPT ![k] = e]
  BY <1>0, <1>1, <1>2, <1>3 DEF Store
<1>7. /\ clock \in Nat /\ lastVisible \in Nat /\ q.began \in Nat /\ q.rows \subseteq Skus
      /\ \A s \in Skus : lastOnSale[s] \in Nat
      /\ q.began <= clock /\ clock - q.began <= Slow /\ ReadSince(q, q.began)
  BY <1>1 DEF ProductInv, ProductTypeInv, QueryStates, QueryIsRecent
<1>8. /\ \A s \in told.rows : clock - lastOnSale[s] < Ttl + Slow
      /\ told.cites => clock - lastVisible < Ttl + Slow
  BY <1>5, <1>7, ProductConstants DEF ReadSince
<1>9. EntryIsRecent(e)
  BY <1>4, <1>7, ProductConstants DEF EntryIsRecent, ReadSince
<1>10. /\ cache' \in [Sessions \X Queries -> EntryStates]
       /\ \A j \in Sessions \X Queries : cache'[j] = cache[j] \/ cache'[j] = e
  BY <1>6 DEF ProductInv, ProductTypeInv
<1> QED
  BY <1>6, <1>8, <1>9, <1>10, QueryRests

-----------------------------------------------------------------------------
(* Time and the staff: what was on sale or visible stays so late at least.    *)
LEMMA WorldMoves ==
  ASSUME ProductInv, clock' \in Nat, clock <= clock', UNCHANGED <<query, cache>>, answer' = Nothing,
         onSale' \in SUBSET Skus, lastOnSale' \in [Skus -> Nat], lastVisible' \in Nat,
         doc' \in [visible : BOOLEAN, indexed : BOOLEAN], WorldIsNow',
         \A s \in Skus : lastOnSale[s] <= lastOnSale'[s], lastVisible <= lastVisible',
         clock' # clock => \A c \in Sessions : query[c].pc # "idle" => clock' - query[c].began <= Slow
  PROVE  ProductInv'
<1>1. ProductTypeInv'
  BY DEF ProductInv, ProductTypeInv
<1>2. AnswersAreRecent'
  BY DEF AnswersAreRecent, Nothing
<1>3. /\ clock \in Nat /\ lastVisible \in Nat /\ \A s \in Skus : lastOnSale[s] \in Nat /\ lastOnSale'[s] \in Nat
  BY DEF ProductInv, ProductTypeInv
<1>4. ASSUME NEW c \in Sessions PROVE QueryIsRecent(query[c])'
  <2>1. PICK q \in QueryStates : q = query[c] /\ QueryIsRecent(q)
    BY QueryIs
  <2>2. q.began \in Nat /\ q.rows \subseteq Skus
    BY DEF QueryStates
  <2>3. QueryIsRecent(q)'
    BY <1>3, <1>4, <2>1, <2>2, ProductConstants DEF QueryIsRecent, ReadSince
  <2> QED
    BY <2>1, <2>3
<1>5. ASSUME NEW k \in Sessions \X Queries PROVE EntryIsRecent(cache[k])'
  <2>1. PICK e \in EntryStates : e = cache[k] /\ EntryIsRecent(e)
    BY <1>5 DEF ProductInv, ProductTypeInv
  <2>2. e.until \in Nat /\ e.rows \subseteq Skus
    BY DEF EntryStates
  <2>3. EntryIsRecent(e)'
    BY <1>3, <2>1, <2>2, ProductConstants DEF EntryIsRecent, ReadSince
  <2> QED
    BY <2>1, <2>3
<1> QED
  BY <1>1, <1>2, <1>4, <1>5 DEF ProductInv

LEMMA WorldKeeps ==
  ASSUME ProductInv, (\E s \in Skus : Toggle(s)) \/ WithdrawProduct \/ Unindex \/ Tick PROVE ProductInv'
<1>1. /\ clock \in Nat /\ onSale \in SUBSET Skus /\ lastOnSale \in [Skus -> Nat] /\ lastVisible \in Nat
      /\ doc \in [visible : BOOLEAN, indexed : BOOLEAN] /\ WorldIsNow
  BY DEF ProductInv, ProductTypeInv
<1>2. CASE \E s \in Skus : Toggle(s)
  <2>1. PICK s \in Skus : Toggle(s)
    BY <1>2
  <2>2. /\ UNCHANGED <<clock, query, cache, doc, lastVisible>> /\ answer' = Nothing
        /\ onSale' = onSale \ {s} \/ onSale' = onSale \cup {s}
        /\ lastOnSale' = [lastOnSale EXCEPT ![s] = clock]
    BY <2>1 DEF Toggle
  <2>3. lastOnSale' \in [Skus -> Nat] /\ WorldIsNow' /\ \A t \in Skus : lastOnSale[t] <= lastOnSale'[t]
    BY <1>1, <2>2 DEF WorldIsNow
  <2> QED
    BY <1>1, <2>2, <2>3, WorldMoves
<1>3. CASE WithdrawProduct
  <2>1. /\ UNCHANGED <<clock, query, cache, onSale, lastOnSale>> /\ answer' = Nothing
        /\ doc' = [doc EXCEPT !.visible = FALSE] /\ lastVisible' = clock
    BY <1>3 DEF WithdrawProduct
  <2>0. doc' \in [visible : BOOLEAN, indexed : BOOLEAN] /\ ~doc'.visible
    BY <1>1, <2>1
  <2>2. WorldIsNow'
    BY <1>1, <2>0, <2>1 DEF WorldIsNow
  <2>3. lastVisible <= lastVisible' /\ \A t \in Skus : lastOnSale[t] <= lastOnSale'[t]
    BY <1>1, <2>1 DEF WorldIsNow
  <2> QED
    BY <1>1, <2>0, <2>1, <2>2, <2>3, WorldMoves
<1>4. CASE Unindex
  <2>1. /\ UNCHANGED <<clock, query, cache, onSale, lastOnSale, lastVisible>> /\ answer' = Nothing
        /\ ~doc.visible /\ doc' = [doc EXCEPT !.indexed = FALSE]
    BY <1>4 DEF Unindex
  <2>2. doc' \in [visible : BOOLEAN, indexed : BOOLEAN] /\ ~doc'.visible
    BY <1>1, <2>1
  <2>3. WorldIsNow' /\ \A t \in Skus : lastOnSale[t] <= lastOnSale'[t]
    BY <1>1, <2>1, <2>2 DEF WorldIsNow
  <2> QED
    BY <1>1, <2>1, <2>2, <2>3, WorldMoves
<1>5. CASE Tick
  <2>1. /\ clock' = clock + 1 /\ UNCHANGED <<query, cache, onSale, doc>> /\ answer' = Nothing
        /\ \A c \in Sessions : query[c].pc # "idle" => clock' - query[c].began <= Slow
        /\ lastOnSale' = [s \in Skus |-> IF s \in onSale THEN clock' ELSE lastOnSale[s]]
        /\ lastVisible' = IF doc.visible THEN clock' ELSE lastVisible
    BY <1>5 DEF Tick
  <2>2. /\ clock' \in Nat /\ clock <= clock' /\ lastOnSale' \in [Skus -> Nat] /\ lastVisible' \in Nat
        /\ \A t \in Skus : lastOnSale[t] <= lastOnSale'[t]
        /\ lastVisible <= lastVisible'
    BY <1>1, <2>1 DEF WorldIsNow
  <2>3. WorldIsNow'
    BY <1>1, <2>1 DEF WorldIsNow
  <2> QED
    BY <1>1, <2>1, <2>2, <2>3, WorldMoves
<1> QED
  BY <1>2, <1>3, <1>4, <1>5

LEMMA ProductStepKeeps == ProductInv /\ [ProductNext]_productVars => ProductInv'
<1> SUFFICES ASSUME ProductInv, [ProductNext]_productVars PROVE ProductInv'
  OBVIOUS
<1>1. CASE \E c \in Sessions : ProductStep(c)
  BY <1>1, AskKeeps, ExpireRedisKeeps, FailureKeeps, LookupHitKeeps, LookupMissKeeps, ReadProductsKeeps,
     CheckDocumentKeeps, StoreKeeps, AskDocumentsKeeps DEF ProductStep
<1>2. CASE UNCHANGED productVars
  BY <1>2 DEF productVars, worldVars, ProductInv, ProductTypeInv, WorldIsNow, AnswersAreRecent,
     QueryIsRecent, EntryIsRecent, ReadSince
<1> QED
  BY <1>1, <1>2, WorldKeeps DEF ProductNext

\* A product that is shown was on sale, and a document that is cited was
\* visible, within one life of the cache and one query, for any sessions, SKUs,
\* lifetimes and durations, whatever the catalogue's reads, the searches, the
\* two caches and the staff's changes interleave (ProductCache, _public_product).
THEOREM AnswersStayRecent == ProductSpec => []AnswersAreRecent
<1>1. ProductInv => AnswersAreRecent
  BY DEF ProductInv
<1> QED
  BY <1>1, ProductInitial, ProductStepKeeps, PTL DEF ProductSpec

-----------------------------------------------------------------------------
(* Workflow: what the window shows of the runs.                               *)

RunStatuses == {"running", "waiting_confirmation", "completed", "failed", "cancelled"}
RunRows == [status : RunStatuses, number : Nat]
Sendings == [run : Nat, number : Nat, status : RunStatuses \cup {"none"}]
FlowTasks == [pc : {"idle", "created", "started", "closing", "last", "analysed", "stage"},
              run : Nat, node : {"none", "extract_rfq", "create_quote", "create_followup"},
              outcome : {"none", "error", "missing", "done"}, stage : Nat, sending : Sendings]
ShownRows == [status : RunStatuses \cup {"none"}, number : Nat]

FlowTypeInv ==
  /\ index \in Seq(RunRows) /\ Len(index) <= MaxRuns
  /\ agent \in FlowTasks /\ canceller \in FlowTasks
  /\ window \in [mode : {"bound", "off", "binding"}, shows : [1..MaxRuns -> ShownRows]]

\* A task at work writes a run that is indexed, and sends only what is numbered.
TaskIsSound(t) ==
  /\ t.pc = "idle" => t.sending = NoEvent
  /\ t.pc # "idle" => t.run \in DOMAIN index
  /\ t.sending = NoEvent \/
       /\ t.sending.status # "none" /\ t.sending.run \in DOMAIN index
       /\ t.sending.number <= index[t.sending.run].number
TasksAreSound ==
  /\ TaskIsSound(agent) /\ TaskIsSound(canceller)
  /\ agent.pc = "closing" => index[agent.run].status = "completed"

\* Between its nodes the agent tells of a run as running, whatever it has become.
Midway(r) == agent.run = r /\ agent.pc \in {"created", "started", "analysed", "stage"}
IsTrueOf(r, status) == status = index[r].status \/ Midway(r)

NothingIsAhead ==
  \A r \in 1..MaxRuns : IF r \in DOMAIN index THEN window.shows[r].number <= index[r].number
                                              ELSE window.shows[r] = Unseen
ToldTruly(t) ==
  (t.sending # NoEvent /\ t.sending.number = index[t.sending.run].number)
    => IsTrueOf(t.sending.run, t.sending.status)
ToldIsTrue == ToldTruly(agent) /\ ToldTruly(canceller)
LastShown(r) == window.shows[r].number = index[r].number => IsTrueOf(r, window.shows[r].status)
IsSending(t, r) == t.sending.run = r /\ t.sending.number = index[r].number
ShownOrSent(r) ==
  window.shows[r].number = index[r].number \/ IsSending(agent, r) \/ IsSending(canceller, r)
BoundIsCurrent == window.mode = "bound" => \A r \in DOMAIN index : LastShown(r) /\ ShownOrSent(r)

FlowInv == FlowTypeInv /\ TasksAreSound /\ NothingIsAhead /\ ToldIsTrue /\ BoundIsCurrent

LEMMA NoEventIsOne == NoEvent \in Sendings /\ Free \in FlowTasks
<1>1. NoEvent \in Sendings
  BY DEF NoEvent, Sendings
<1> QED
  BY <1>1 DEF Free, FlowTasks

LEMMA FlowInitial == ASSUME FlowInit PROVE FlowInv
<1>1. Free.pc = "idle" /\ Free.sending = NoEvent
  BY DEF Free
<1>2. Free \in FlowTasks
  BY NoEventIsOne
<1>3. Unseen \in ShownRows /\ Unseen.number = 0
  BY DEF Unseen, ShownRows
<1>4. /\ index = <<>> /\ agent = Free /\ canceller = Free
      /\ window = [mode |-> "bound", shows |-> [r \in 1..MaxRuns |-> Unseen]]
  BY DEF FlowInit
<1>5. index \in Seq(RunRows) /\ Len(index) = 0 /\ DOMAIN index = {}
  BY <1>4
<1>6. FlowTypeInv
  BY <1>2, <1>3, <1>4, <1>5, WorkflowAssumption DEF FlowTypeInv
<1> QED
  BY <1>1, <1>4, <1>5, <1>6
     DEF FlowInv, TasksAreSound, TaskIsSound, NothingIsAhead, ToldIsTrue, ToldTruly, BoundIsCurrent

\* An event is appended to the log of its run, and the run numbered by it.
LEMMA AppendNumbers ==
  ASSUME NEW rows \in Seq(RunRows), NEW r \in DOMAIN rows, NEW t, NEW status, Appends(rows, r, t, status)
  PROVE  /\ index' \in Seq(RunRows) /\ Len(index') = Len(rows) /\ DOMAIN index' = DOMAIN rows
         /\ index'[r].number = rows[r].number + 1 /\ index'[r].status = rows[r].status
         /\ \A s \in DOMAIN rows \ {r} : index'[s] = rows[s]
<1> DEFINE entry == [rows[r] EXCEPT !.number = rows[r].number + 1]
<1>0. rows[r] \in RunRows
  OBVIOUS
<1>1. rows[r] \in RunRows /\ rows[r].number \in Nat
  BY <1>0 DEF RunRows
<1>2. entry \in RunRows /\ entry.number = rows[r].number + 1 /\ entry.status = rows[r].status
  BY <1>1 DEF RunRows
<1>3. index' = [rows EXCEPT ![r] = entry]
  BY DEF Appends, NextNumber
<1> HIDE DEF entry
<1> QED
  BY <1>2, <1>3

\* What the agent's append keeps: of a run it created or goes on with.
LEMMA AgentAppendsKeep ==
  ASSUME FlowInv, NEW rows \in Seq(RunRows), NEW status \in RunStatuses, NEW next \in FlowTasks,
         AgentAppends(rows, status, next), Sent(agent),
         next.run \in DOMAIN rows, next.pc # "idle",
         DOMAIN index \subseteq DOMAIN rows, DOMAIN rows \subseteq DOMAIN index \cup {next.run},
         Len(rows) <= MaxRuns,
         \A r \in DOMAIN index : /\ rows[r].number = index[r].number
                                 /\ r # next.run => rows[r] = index[r] /\ ~Midway(r),
         next.run \notin DOMAIN index => rows[next.run].number = 0,
         \/ next.pc \in {"created", "started", "analysed", "stage"}
         \/ status = rows[next.run].status,
         next.pc = "closing" => rows[next.run].status = "completed"
  PROVE  FlowInv'
<1> DEFINE R == next.run
           n == rows[R].number + 1
           e == [run |-> R, number |-> n, status |-> status]
<1>t. /\ FlowTypeInv /\ TasksAreSound /\ NothingIsAhead /\ ToldIsTrue /\ BoundIsCurrent
      /\ index \in Seq(RunRows)
  BY DEF FlowInv, FlowTypeInv
<1>1. /\ index' \in Seq(RunRows) /\ Len(index') = Len(rows) /\ DOMAIN index' = DOMAIN rows
      /\ index'[R].number = n /\ index'[R].status = rows[R].status
      /\ \A s \in DOMAIN rows \ {R} : index'[s] = rows[s]
  BY AppendNumbers DEF AgentAppends
<1>2. canceller' = canceller /\ window' = window /\ agent' = [next EXCEPT !.sending = e]
  BY DEF AgentAppends, Event, NextNumber
<1>r. R \in Nat /\ rows[R] \in RunRows
  OBVIOUS
<1>3. R \in Nat /\ rows[R] \in RunRows /\ n \in Nat /\ n > 0
  BY <1>r DEF RunRows
<1>4. e \in Sendings /\ e # NoEvent /\ e.status # "none" /\ e.run = R /\ e.number = n /\ e.status = status
  BY <1>3 DEF Sendings, RunStatuses, NoEvent
<1> HIDE DEF e
<1>5. /\ agent' \in FlowTasks /\ agent'.sending = e /\ agent'.pc = next.pc /\ agent'.run = R
  BY <1>2, <1>4 DEF FlowTasks
<1>6. \A s \in DOMAIN index \ {R} : index'[s] = index[s] /\ ~Midway(s)
  BY <1>1
<1>i. R \in DOMAIN index => index[R] \in RunRows
  BY <1>t
<1>7. R \in DOMAIN index => n = index[R].number + 1 /\ index[R].number \in Nat
  BY <1>i DEF RunRows
<1>8. R \notin DOMAIN index => n = 1
  OBVIOUS
<1> HIDE DEF n, R
<1>9. DOMAIN index' \subseteq 1..MaxRuns
  BY <1>1, WorkflowAssumption
<1>10. FlowTypeInv'
  BY <1>t, <1>1, <1>2, <1>5 DEF FlowTypeInv
<1>11. TasksAreSound'
  <2>1. TaskIsSound(agent)'
    BY <1>1, <1>3, <1>4, <1>5 DEF TaskIsSound, R
  <2>2. TaskIsSound(canceller)'
    <3>1. TaskIsSound(canceller) /\ canceller.sending \in Sendings
      BY <1>t DEF TasksAreSound, FlowTypeInv, FlowTasks
    <3>2. CASE canceller.sending = NoEvent
      BY <1>1, <1>2, <3>1, <3>2 DEF TaskIsSound
    <3>3. CASE canceller.sending # NoEvent
      <4> DEFINE s == canceller.sending.run
                 m == canceller.sending.number
      <4>1. s \in DOMAIN index /\ m <= index[s].number /\ m \in Nat /\ canceller.sending.status # "none"
        BY <3>1, <3>3 DEF TaskIsSound, Sendings
      <4>2. m <= index'[s].number
        BY <1>1, <1>3, <1>6, <1>7, <4>1
      <4>3. canceller.pc # "idle" => canceller.run \in DOMAIN index'
        BY <1>1, <3>1 DEF TaskIsSound
      <4>4. canceller.pc = "idle" => canceller.sending = NoEvent
        BY <3>1 DEF TaskIsSound
      <4> QED
        BY <1>1, <1>2, <4>1, <4>2, <4>3, <4>4 DEF TaskIsSound
    <3> QED
      BY <3>2, <3>3
  <2>3. agent'.pc = "closing" => index'[agent'.run].status = "completed"
    BY <1>1, <1>5 DEF R
  <2> QED
    BY <2>1, <2>2, <2>3 DEF TasksAreSound
<1>12. NothingIsAhead'
  <2> SUFFICES ASSUME NEW r \in 1..MaxRuns
               PROVE  IF r \in DOMAIN index' THEN window.shows[r].number <= index'[r].number
                                             ELSE window.shows[r] = Unseen
    BY <1>2 DEF NothingIsAhead
  <2>1. /\ IF r \in DOMAIN index THEN window.shows[r].number <= index[r].number
                                 ELSE window.shows[r] = Unseen
        /\ window.shows[r].number \in Nat
    BY <1>t DEF NothingIsAhead, FlowTypeInv, ShownRows
  <2>2. CASE r = R
    BY <1>1, <1>3, <1>7, <1>8, <2>1, <2>2 DEF Unseen
  <2>3. CASE r # R
    BY <1>1, <1>6, <2>1, <2>3 DEF R
  <2> QED
    BY <2>2, <2>3
\* Told by the agent is what it makes the run, or it is still at its nodes.
<1>13. Midway(R)' \/ status = index'[R].status
  BY <1>1, <1>5 DEF Midway, R
<1>14. ToldIsTrue'
  <2>1. ToldTruly(agent)'
    BY <1>4, <1>5, <1>13 DEF ToldTruly, IsTrueOf
  <2>2. ToldTruly(canceller)'
    <3> DEFINE s == canceller.sending.run
               m == canceller.sending.number
    <3>1. /\ ToldTruly(canceller)
          /\ canceller.sending # NoEvent => s \in DOMAIN index /\ m <= index[s].number /\ m \in Nat
      BY <1>t DEF ToldIsTrue, TasksAreSound, TaskIsSound, FlowTypeInv, FlowTasks, Sendings
    <3>2. CASE canceller.sending # NoEvent /\ s = R
      <4>1. m # index'[R].number
        BY <1>1, <1>7, <3>1, <3>2
      <4> QED
        BY <1>2, <3>2, <4>1 DEF ToldTruly
    <3>3. CASE canceller.sending # NoEvent /\ s # R
      BY <1>2, <1>6, <3>1, <3>3 DEF ToldTruly, IsTrueOf
    <3>4. CASE canceller.sending = NoEvent
      BY <1>2, <3>4 DEF ToldTruly
    <3> QED
      BY <3>2, <3>3, <3>4
  <2> QED
    BY <2>1, <2>2 DEF ToldIsTrue
<1>15. BoundIsCurrent'
  <2> SUFFICES ASSUME window.mode = "bound", NEW r \in DOMAIN index'
               PROVE  LastShown(r)' /\ ShownOrSent(r)'
    BY <1>2 DEF BoundIsCurrent
  <2>1. CASE r = R
    <3>1. IsSending(agent, r)'
      BY <1>1, <1>4, <1>5, <2>1 DEF IsSending
    <3>2. window.shows[r].number < index'[r].number
      <4>1. window.shows[r].number \in Nat /\ r \in 1..MaxRuns
        BY <1>t, <1>9 DEF FlowTypeInv, ShownRows
      <4>2. IF r \in DOMAIN index THEN window.shows[r].number <= index[r].number
                                  ELSE window.shows[r] = Unseen
        BY <1>t, <4>1 DEF NothingIsAhead
      <4> QED
        BY <1>1, <1>3, <1>7, <1>8, <2>1, <4>1, <4>2 DEF Unseen
    <3>3. window.shows[r].number \in Nat /\ index'[r].number \in Nat
      BY <1>t, <1>1, <1>3, <1>9, <2>1 DEF FlowTypeInv, ShownRows
    <3> QED
      BY <1>2, <3>1, <3>2, <3>3 DEF LastShown, ShownOrSent
  <2>2. CASE r # R
    <3>1. r \in DOMAIN index /\ index'[r] = index[r] /\ ~Midway(r)
      BY <1>1, <1>6, <2>2 DEF R
    <3>2. LastShown(r) /\ ShownOrSent(r)
      BY <1>t, <3>1 DEF BoundIsCurrent
    <3>3. LastShown(r)'
      BY <1>2, <3>1, <3>2 DEF LastShown, IsTrueOf
    <3>4. ~IsSending(agent, r)
      <4>1. agent.sending = NoEvent
        BY <1>t DEF Sent, TasksAreSound, TaskIsSound
      <4>2. r # 0
        BY <1>t, <3>1
      <4> QED
        BY <4>1, <4>2 DEF IsSending, NoEvent
    <3>5. ShownOrSent(r)'
      BY <1>2, <3>1, <3>2, <3>4 DEF ShownOrSent, IsSending
    <3> QED
      BY <3>3, <3>5
  <2> QED
    BY <2>1, <2>2
<1> QED
  BY <1>10, <1>11, <1>12, <1>14, <1>15 DEF FlowInv

\* The canceller's append: the run is cancelled, whatever the agent is at.
LEMMA CancelKeeps ==
  ASSUME FlowInv, NEW R \in DOMAIN index, Cancel(R) PROVE FlowInv'
<1> DEFINE entry == [index[R] EXCEPT !.status = "cancelled"]
           rows == [index EXCEPT ![R] = entry]
           n == index[R].number + 1
           e == [run |-> R, number |-> n, status |-> "cancelled"]
<1>t. /\ FlowTypeInv /\ TasksAreSound /\ NothingIsAhead /\ ToldIsTrue /\ BoundIsCurrent
      /\ index \in Seq(RunRows)
  BY DEF FlowInv, FlowTypeInv
<1>r. R \in Nat /\ R # 0 /\ index[R] \in RunRows
  BY <1>t
<1>3. entry \in RunRows /\ entry.number = index[R].number /\ entry.status = "cancelled"
      /\ n \in Nat /\ index[R].number \in Nat
  BY <1>r DEF RunRows, RunStatuses
<1>4. rows \in Seq(RunRows) /\ DOMAIN rows = DOMAIN index /\ Len(rows) = Len(index)
      /\ rows[R] = entry /\ \A s \in DOMAIN index \ {R} : rows[s] = index[s]
  <2> HIDE DEF entry
  <2> QED
    BY <1>t, <1>3
<1>c. /\ Appends(rows, R, canceller, "cancelled") /\ canceller.pc = "idle"
      /\ canceller' = [Free EXCEPT !.pc = "last", !.run = R,
                                   !.sending = Event(rows, R, canceller, "cancelled")]
      /\ agent' = agent /\ window' = window
  BY DEF Cancel
<1> HIDE DEF rows
<1>1. /\ index' \in Seq(RunRows) /\ Len(index') = Len(index) /\ DOMAIN index' = DOMAIN index
      /\ index'[R].number = n /\ index'[R].status = "cancelled"
      /\ \A s \in DOMAIN index \ {R} : index'[s] = index[s]
  <2>1. /\ index' \in Seq(RunRows) /\ Len(index') = Len(rows) /\ DOMAIN index' = DOMAIN rows
        /\ index'[R].number = rows[R].number + 1 /\ index'[R].status = rows[R].status
        /\ \A s \in DOMAIN rows \ {R} : index'[s] = rows[s]
    BY <1>4, <1>c, AppendNumbers
  <2>2. rows[R].number + 1 = n /\ rows[R].status = "cancelled"
    BY <1>3, <1>4
  <2> HIDE DEF n, entry
  <2> QED
    BY <1>4, <2>1, <2>2
<1>2. Event(rows, R, canceller, "cancelled") = e
  BY <1>3, <1>4 DEF Event, NextNumber
<1>5. e \in Sendings /\ e # NoEvent /\ e.status = "cancelled" /\ e.run = R /\ e.number = n
  BY <1>r, <1>3 DEF Sendings, RunStatuses, NoEvent
<1> HIDE DEF e
<1>6. /\ canceller' \in FlowTasks /\ canceller'.sending = e /\ canceller'.pc = "last"
      /\ canceller'.run = R
  BY <1>c, <1>2, <1>5, <1>r DEF FlowTasks, Free
<1> HIDE DEF n
<1>n. n = index[R].number + 1
  BY DEF n
<1>9. DOMAIN index \subseteq 1..MaxRuns
  BY <1>t, WorkflowAssumption DEF FlowTypeInv
<1>10. FlowTypeInv'
  BY <1>t, <1>1, <1>c, <1>6 DEF FlowTypeInv
<1>a. /\ TaskIsSound(agent) /\ agent.sending \in Sendings
      /\ agent.pc = "closing" => index[agent.run].status = "completed"
  BY <1>t DEF TasksAreSound, FlowTypeInv, FlowTasks
<1>11. TasksAreSound'
  <2>1. TaskIsSound(canceller)'
    BY <1>1, <1>3, <1>5, <1>6 DEF TaskIsSound
  <2>2. TaskIsSound(agent)'
    <3>2. CASE agent.sending = NoEvent
      BY <1>1, <1>c, <1>a, <3>2 DEF TaskIsSound
    <3>3. CASE agent.sending # NoEvent
      <4> DEFINE s == agent.sending.run
                 m == agent.sending.number
      <4>1. s \in DOMAIN index /\ m <= index[s].number /\ m \in Nat /\ agent.sending.status # "none"
        BY <1>a, <3>3 DEF TaskIsSound, Sendings
      <4> HIDE DEF m
      <4>2. m <= index'[s].number
        <5>1. CASE s = R
          <6> HIDE DEF s
          <6> QED
            BY <1>1, <1>3, <1>n, <4>1, <5>1
        <5>2. CASE s # R
          BY <1>1, <4>1, <5>2
        <5> QED
          BY <5>1, <5>2
      <4>3. agent.pc # "idle" => agent.run \in DOMAIN index'
        BY <1>1, <1>a DEF TaskIsSound
      <4>4. agent.pc = "idle" => agent.sending = NoEvent
        BY <1>a DEF TaskIsSound
      <4> QED
        BY <1>1, <1>c, <4>1, <4>2, <4>3, <4>4 DEF TaskIsSound, m
    <3> QED
      BY <3>2, <3>3
  <2>3. agent'.pc = "closing" => index'[agent'.run].status = "completed"
    <3>1. index[R].status \in Active
      BY DEF Cancel
    <3> QED
      BY <1>1, <1>c, <1>a, <3>1 DEF Active, TaskIsSound
  <2> QED
    BY <2>1, <2>2, <2>3 DEF TasksAreSound
<1>12. NothingIsAhead'
  <2> SUFFICES ASSUME NEW r \in 1..MaxRuns
               PROVE  IF r \in DOMAIN index' THEN window.shows[r].number <= index'[r].number
                                             ELSE window.shows[r] = Unseen
    BY <1>c DEF NothingIsAhead
  <2>1. /\ IF r \in DOMAIN index THEN window.shows[r].number <= index[r].number
                                 ELSE window.shows[r] = Unseen
        /\ window.shows[r].number \in Nat
    BY <1>t DEF NothingIsAhead, FlowTypeInv, ShownRows
  <2> QED
    BY <1>1, <1>3, <1>n, <2>1
<1>14. ToldIsTrue'
  <2>1. ToldTruly(canceller)'
    BY <1>1, <1>5, <1>6 DEF ToldTruly, IsTrueOf
  <2>2. ToldTruly(agent)'
    <3> DEFINE s == agent.sending.run
               m == agent.sending.number
    <3>1. /\ ToldTruly(agent)
          /\ agent.sending # NoEvent => s \in DOMAIN index /\ m <= index[s].number /\ m \in Nat
      BY <1>t, <1>a DEF ToldIsTrue, TaskIsSound, Sendings
    <3>2. CASE agent.sending # NoEvent /\ s = R
      <4>1. m # index'[R].number
        BY <1>1, <1>3, <1>n, <3>1, <3>2
      <4> QED
        BY <1>c, <3>2, <4>1 DEF ToldTruly
    <3>3. CASE agent.sending # NoEvent /\ s # R
      BY <1>c, <1>1, <3>1, <3>3 DEF ToldTruly, IsTrueOf, Midway
    <3>4. CASE agent.sending = NoEvent
      BY <1>c, <3>4 DEF ToldTruly
    <3> QED
      BY <3>2, <3>3, <3>4
  <2> QED
    BY <2>1, <2>2 DEF ToldIsTrue
<1>15. BoundIsCurrent'
  <2> SUFFICES ASSUME window.mode = "bound", NEW r \in DOMAIN index
               PROVE  LastShown(r)' /\ ShownOrSent(r)'
    BY <1>c, <1>1 DEF BoundIsCurrent
  <2>1. CASE r = R
    <3>1. IsSending(canceller, r)'
      BY <1>1, <1>5, <1>6, <2>1 DEF IsSending
    <3>2. window.shows[r].number <= index[r].number /\ window.shows[r].number \in Nat
      BY <1>t, <1>9 DEF NothingIsAhead, FlowTypeInv, ShownRows
    <3>3. window.shows[r].number # index'[r].number
      BY <1>1, <1>3, <1>n, <2>1, <3>2
    <3> QED
      BY <1>c, <3>1, <3>3 DEF LastShown, ShownOrSent
  <2>2. CASE r # R
    <3>1. index'[r] = index[r]
      BY <1>1, <2>2
    <3>2. LastShown(r) /\ ShownOrSent(r)
      BY <1>t DEF BoundIsCurrent
    <3>3. LastShown(r)'
      BY <1>c, <3>1, <3>2 DEF LastShown, IsTrueOf, Midway
    <3>4. ~IsSending(canceller, r)
      BY <1>t, <1>c DEF TasksAreSound, TaskIsSound, IsSending, NoEvent
    <3>5. ShownOrSent(r)'
      BY <1>c, <3>1, <3>2, <3>4 DEF ShownOrSent, IsSending
    <3> QED
      BY <3>3, <3>5
  <2> QED
    BY <2>1, <2>2
<1> QED
  BY <1>10, <1>11, <1>12, <1>14, <1>15 DEF FlowInv

\* The window is shown an event of one task; the other's may overtake it.
LEMMA SendKeeps ==
  ASSUME FlowInv, NEW e \in Sendings, e # NoEvent, window' = ShownAfter(e), index' = index,
         \/ e = agent.sending /\ agent' = [agent EXCEPT !.sending = NoEvent] /\ canceller' = canceller
         \/ e = canceller.sending /\ canceller' = [canceller EXCEPT !.sending = NoEvent] /\ agent' = agent
  PROVE  FlowInv'
<1>t. /\ FlowTypeInv /\ TasksAreSound /\ NothingIsAhead /\ ToldIsTrue /\ BoundIsCurrent
      /\ index \in Seq(RunRows) /\ agent \in FlowTasks /\ canceller \in FlowTasks
  BY DEF FlowInv, FlowTypeInv
<1>0. NoEvent \in Sendings
  BY NoEventIsOne
<1>1. /\ agent' \in FlowTasks /\ agent'.pc = agent.pc /\ agent'.run = agent.run
      /\ agent'.sending \in {agent.sending, NoEvent}
      /\ canceller' \in FlowTasks /\ canceller'.pc = canceller.pc /\ canceller'.run = canceller.run
      /\ canceller'.sending \in {canceller.sending, NoEvent}
      /\ agent'.sending = agent.sending \/ e = agent.sending
      /\ canceller'.sending = canceller.sending \/ e = canceller.sending
  BY <1>t, <1>0 DEF FlowTasks
<1>2. \A r : Midway(r)' = Midway(r)
  BY <1>1 DEF Midway
<1>3. /\ e.run \in DOMAIN index /\ e.number <= index[e.run].number /\ e.status # "none"
      /\ e.number \in Nat
      /\ e.number = index[e.run].number => IsTrueOf(e.run, e.status)
  BY <1>t DEF TasksAreSound, TaskIsSound, ToldIsTrue, ToldTruly, Sendings
<1>4. DOMAIN index \subseteq 1..MaxRuns /\ \A r \in DOMAIN index : index[r].number \in Nat
  <2>1. \A r \in DOMAIN index : index[r] \in RunRows
    BY <1>t
  <2> QED
    BY <1>t, <2>1, WorkflowAssumption DEF FlowTypeInv, RunRows
<1> DEFINE entry == [status |-> e.status, number |-> e.number]
<1>5. entry \in ShownRows /\ entry.status = e.status /\ entry.number = e.number
  BY <1>3 DEF ShownRows, Sendings
<1>6. /\ window.shows \in [1..MaxRuns -> ShownRows]
      /\ \A r \in 1..MaxRuns : window.shows[r].number \in Nat
  BY <1>t DEF FlowTypeInv, ShownRows
<1>7. \/ window' = window /\ (window.mode = "off" \/ e.number <= window.shows[e.run].number)
      \/ /\ window.shows[e.run].number < e.number
         /\ window' = [window EXCEPT !.shows = [window.shows EXCEPT ![e.run] = entry]]
  BY <1>3, <1>4, <1>6 DEF ShownAfter
<1> HIDE DEF entry
<1>8. /\ window' \in [mode : {"bound", "off", "binding"}, shows : [1..MaxRuns -> ShownRows]]
      /\ window'.mode = window.mode
      /\ \A r \in 1..MaxRuns \ {e.run} : window'.shows[r] = window.shows[r]
      /\ \/ window'.shows[e.run] = window.shows[e.run]
            /\ (window.mode = "off" \/ e.number <= window.shows[e.run].number)
         \/ window'.shows[e.run] = entry /\ window.shows[e.run].number < e.number
  <2>1. CASE window' = window /\ (window.mode = "off" \/ e.number <= window.shows[e.run].number)
    BY <1>t, <2>1 DEF FlowTypeInv
  <2>2. CASE /\ window.shows[e.run].number < e.number
             /\ window' = [window EXCEPT !.shows = [window.shows EXCEPT ![e.run] = entry]]
    <3> DEFINE shows == [window.shows EXCEPT ![e.run] = entry]
    <3>1. /\ shows \in [1..MaxRuns -> ShownRows] /\ shows[e.run] = entry
          /\ \A r \in 1..MaxRuns \ {e.run} : shows[r] = window.shows[r]
      BY <1>3, <1>4, <1>5, <1>6
    <3> HIDE DEF shows
    <3>2. window' = [window EXCEPT !.shows = shows]
      BY <2>2 DEF shows
    <3> QED
      BY <1>t, <2>2, <3>1, <3>2 DEF FlowTypeInv
  <2> QED
    BY <1>7, <2>1, <2>2
<1>10. FlowTypeInv'
  BY <1>t, <1>1, <1>8 DEF FlowTypeInv
<1>11. TasksAreSound'
  BY <1>t, <1>1 DEF TasksAreSound, TaskIsSound
<1>12. NothingIsAhead'
  BY <1>t, <1>3, <1>4, <1>5, <1>8 DEF NothingIsAhead
<1>13. ToldIsTrue'
  BY <1>t, <1>1, <1>2 DEF ToldIsTrue, ToldTruly, IsTrueOf
<1>14. BoundIsCurrent'
  <2> SUFFICES ASSUME window.mode = "bound", NEW r \in DOMAIN index
               PROVE  LastShown(r)' /\ ShownOrSent(r)'
    BY <1>8 DEF BoundIsCurrent
  <2>1. LastShown(r) /\ ShownOrSent(r) /\ r \in 1..MaxRuns
    BY <1>t, <1>4 DEF BoundIsCurrent
  <2>2. CASE r # e.run
    <3>1. window'.shows[r] = window.shows[r]
      BY <1>8, <2>1, <2>2
    <3>2. LastShown(r)'
      BY <1>2, <2>1, <3>1 DEF LastShown, IsTrueOf
    <3>3. ShownOrSent(r)'
      BY <1>1, <2>1, <2>2, <3>1 DEF ShownOrSent, IsSending
    <3> QED
      BY <3>2, <3>3
  <2>3. CASE r = e.run /\ window'.shows[r] = entry /\ window.shows[r].number < e.number
    <3>1. LastShown(r)'
      BY <1>2, <1>3, <1>5, <2>3 DEF LastShown, IsTrueOf
    <3>2. window.shows[r].number < e.number /\ window.shows[r].number # index[r].number
      BY <1>3, <1>4, <1>6, <2>1, <2>3
    <3>3. ShownOrSent(r)'
      BY <1>1, <1>5, <2>1, <2>3, <3>2 DEF ShownOrSent, IsSending
    <3> QED
      BY <3>1, <3>3
  <2>4. CASE r = e.run /\ window'.shows[r] = window.shows[r] /\ e.number <= window.shows[r].number
    <3>1. LastShown(r)'
      BY <1>2, <2>1, <2>4 DEF LastShown, IsTrueOf
    <3>2. e.number = index[r].number => window.shows[r].number = index[r].number
      BY <1>t, <1>3, <1>4, <1>6, <2>1, <2>4 DEF NothingIsAhead
    <3>3. ShownOrSent(r)'
      BY <1>1, <2>1, <2>4, <3>2 DEF ShownOrSent, IsSending
    <3> QED
      BY <3>1, <3>3
  <2> QED
    BY <1>8, <2>2, <2>3, <2>4
<1> QED
  BY <1>10, <1>11, <1>12, <1>13, <1>14 DEF FlowInv

\* A step of the window's connection, or one that leaves the tasks at rest.
LEMMA WindowMovesKeep ==
  ASSUME FlowInv, index' = index, agent' = agent, canceller' = canceller,
         \/ window' = window
         \/ window' = [window EXCEPT !.mode = "off"]
         \/ window' = [window EXCEPT !.mode = "binding"]
         \/ window' = [mode |-> "bound", shows |-> Snapshot]
  PROVE  FlowInv'
<1>t. /\ FlowTypeInv /\ TasksAreSound /\ NothingIsAhead /\ ToldIsTrue /\ BoundIsCurrent
      /\ index \in Seq(RunRows)
  BY DEF FlowInv, FlowTypeInv
<1>1. TasksAreSound' /\ ToldIsTrue'
  BY <1>t DEF TasksAreSound, TaskIsSound, ToldIsTrue, ToldTruly, IsTrueOf, Midway
<1>2. CASE window' = window
  BY <1>t, <1>1, <1>2 DEF FlowInv, FlowTypeInv, NothingIsAhead, BoundIsCurrent, LastShown,
                          ShownOrSent, IsSending, IsTrueOf, Midway
<1>3. CASE window' = [window EXCEPT !.mode = "off"] \/ window' = [window EXCEPT !.mode = "binding"]
  <2>1. /\ window' \in [mode : {"bound", "off", "binding"}, shows : [1..MaxRuns -> ShownRows]]
        /\ window'.mode # "bound" /\ window'.shows = window.shows
    BY <1>t, <1>3 DEF FlowTypeInv
  <2> QED
    BY <1>t, <1>1, <2>1 DEF FlowInv, FlowTypeInv, NothingIsAhead, BoundIsCurrent
<1>4. CASE window' = [mode |-> "bound", shows |-> Snapshot]
  <2>1. \A r \in DOMAIN index : index[r] \in RunRows
    BY <1>t
  <2>2. Unseen \in ShownRows
    BY DEF Unseen, ShownRows
  <2>3. \A r \in DOMAIN index : [status |-> index[r].status, number |-> index[r].number] \in ShownRows
    BY <2>1 DEF RunRows, ShownRows
  <2>4. Snapshot \in [1..MaxRuns -> ShownRows]
    BY <2>2, <2>3 DEF Snapshot
  <2>5. window'.mode = "bound" /\ window'.shows = Snapshot
    BY <1>4
  <2>6. FlowTypeInv'
    BY <1>t, <1>4, <2>4 DEF FlowTypeInv
  <2>7. DOMAIN index \subseteq 1..MaxRuns /\ \A r \in DOMAIN index : index[r].number \in Nat
    BY <1>t, <2>1, WorkflowAssumption DEF FlowTypeInv, RunRows
  <2>8. NothingIsAhead'
    BY <2>5, <2>7 DEF NothingIsAhead, Snapshot
  <2>9. BoundIsCurrent'
    BY <2>5, <2>7 DEF BoundIsCurrent, LastShown, ShownOrSent, IsTrueOf, Snapshot
  <2> QED
    BY <1>1, <2>6, <2>8, <2>9 DEF FlowInv
<1> QED
  BY <1>2, <1>3, <1>4

\* The process ends; what it had written of a run may be a status without its event.
LEMMA DeathKeeps ==
  ASSUME FlowInv, NEW rows \in Seq(RunRows), index' = rows, Len(rows) <= MaxRuns,
         agent' = Free, canceller' = Free, window' = [window EXCEPT !.mode = "off"],
         DOMAIN index \subseteq DOMAIN rows,
         \A r \in DOMAIN rows : IF r \in DOMAIN index THEN rows[r].number = index[r].number
                                                      ELSE rows[r].number = 0
  PROVE  FlowInv'
<1>t. FlowTypeInv /\ NothingIsAhead
  BY DEF FlowInv
<1>1. Free.pc = "idle" /\ Free.sending = NoEvent
  BY DEF Free
<1>2. Free \in FlowTasks
  BY NoEventIsOne
<1>3. /\ window' \in [mode : {"bound", "off", "binding"}, shows : [1..MaxRuns -> ShownRows]]
      /\ window'.mode # "bound" /\ window'.shows = window.shows
  BY <1>t DEF FlowTypeInv
<1>4. FlowTypeInv'
  BY <1>2, <1>3 DEF FlowTypeInv
<1>5. NothingIsAhead'
  BY <1>t, <1>3 DEF NothingIsAhead, Unseen
<1> QED
  BY <1>1, <1>3, <1>4, <1>5 DEF FlowInv, TasksAreSound, TaskIsSound, ToldIsTrue, ToldTruly, BoundIsCurrent

\* The status of a run is written, nothing else.
LEMMA StatusWritten ==
  ASSUME index \in Seq(RunRows), NEW r \in DOMAIN index, NEW d \in RunStatuses,
         NEW rows, rows = [index EXCEPT ![r].status = d]
  PROVE  /\ rows \in Seq(RunRows) /\ Len(rows) = Len(index) /\ DOMAIN rows = DOMAIN index
         /\ rows[r].number = index[r].number /\ rows[r].status = d
         /\ \A s \in DOMAIN index \ {r} : rows[s] = index[s]
<1> DEFINE entry == [index[r] EXCEPT !.status = d]
<1>1. index[r] \in RunRows
  OBVIOUS
<1>2. entry \in RunRows /\ entry.number = index[r].number /\ entry.status = d
  BY <1>1 DEF RunRows
<1>3. rows = [index EXCEPT ![r] = entry]
  OBVIOUS
<1> HIDE DEF entry
<1> QED
  BY <1>2, <1>3

LEMMA RunAdded ==
  ASSUME index \in Seq(RunRows)
  PROVE  /\ NewRun \in Seq(RunRows) /\ Len(NewRun) = Len(index) + 1
         /\ DOMAIN NewRun = DOMAIN index \cup {Len(index) + 1} /\ Len(index) + 1 \notin DOMAIN index
         /\ NewRun[Len(index) + 1].number = 0 /\ NewRun[Len(index) + 1].status = "running"
         /\ \A s \in DOMAIN index : NewRun[s] = index[s]
<1> DEFINE entry == [status |-> "running", number |-> 0]
<1>1. entry \in RunRows /\ entry.number = 0 /\ entry.status = "running"
  BY DEF RunRows, RunStatuses
<1>2. NewRun = Append(index, entry)
  BY DEF NewRun
<1> HIDE DEF entry
<1> QED
  BY <1>1, <1>2

LEMMA FlowStep == ASSUME FlowInv, [FlowNext]_flowVars PROVE FlowInv'
<1>t. /\ index \in Seq(RunRows) /\ Len(index) <= MaxRuns /\ agent \in FlowTasks /\ canceller \in FlowTasks
      /\ TaskIsSound(agent) /\ TaskIsSound(canceller)
      /\ agent.pc = "closing" => index[agent.run].status = "completed"
      /\ window \in [mode : {"bound", "off", "binding"}, shows : [1..MaxRuns -> ShownRows]]
  BY DEF FlowInv, FlowTypeInv, TasksAreSound
<1>s. "running" \in RunStatuses /\ "completed" \in RunStatuses /\ "failed" \in RunStatuses
      /\ StatusAfterNode(agent) \in RunStatuses
  BY DEF RunStatuses, StatusAfterNode
<1>n. \A r \in DOMAIN index : index[r].number \in Nat
  <2>1. \A r \in DOMAIN index : index[r] \in RunRows
    BY <1>t
  <2> QED
    BY <2>1 DEF RunRows
\* A run is new.
<1>1. ASSUME NEW next \in FlowTasks, next.pc \in {"created", "analysed"}, next.run = Len(index) + 1,
             agent.pc = "idle", Len(index) < MaxRuns, AgentAppends(NewRun, "running", next)
      PROVE  FlowInv'
  <2>1. Sent(agent) /\ \A r : ~Midway(r)
    BY <1>1, <1>t DEF TaskIsSound, Sent, NoEvent, Midway
  <2>2. /\ NewRun \in Seq(RunRows) /\ Len(NewRun) = Len(index) + 1
        /\ DOMAIN NewRun = DOMAIN index \cup {Len(index) + 1} /\ Len(index) + 1 \notin DOMAIN index
        /\ NewRun[Len(index) + 1].number = 0
        /\ \A s \in DOMAIN index : NewRun[s] = index[s]
    BY <1>t, RunAdded
  <2>3. Len(NewRun) <= MaxRuns
    BY <1>1, <1>t, <2>2, WorkflowAssumption
  <2> HIDE DEF NewRun
  <2> QED
    BY <1>1, <1>s, <2>1, <2>2, <2>3, AgentAppendsKeep
\* A run goes on.
<1>2. ASSUME NEW next \in FlowTasks, next.pc \notin {"idle", "closing"}, next.run \in DOMAIN index,
             agent.pc = "idle" \/ agent.run = next.run,
             next.pc = "last" => index[next.run].status = "completed",
             NEW status \in RunStatuses, status = IF next.pc = "last" THEN "completed" ELSE "running",
             Sent(agent), AgentAppends(index, status, next)
      PROVE  FlowInv'
  <2>1. next.pc \in {"created", "started", "analysed", "stage", "last"}
    BY <1>2 DEF FlowTasks
  <2>2. \A r \in DOMAIN index : r # next.run => index[r] = index[r] /\ ~Midway(r)
    BY <1>2 DEF Midway
  <2> QED
    BY <1>2, <1>t, <2>1, <2>2, AgentAppendsKeep
\* A status is written, and told.
<1>3. ASSUME NEW next \in FlowTasks, next.run = agent.run, agent.run \in DOMAIN index, next.pc # "idle",
             NEW d \in RunStatuses, NEW rows, rows = [index EXCEPT ![agent.run].status = d],
             next.pc = "closing" => d = "completed",
             Sent(agent), AgentAppends(rows, d, next)
      PROVE  FlowInv'
  <2>1. /\ rows \in Seq(RunRows) /\ Len(rows) = Len(index) /\ DOMAIN rows = DOMAIN index
        /\ rows[agent.run].number = index[agent.run].number /\ rows[agent.run].status = d
        /\ \A s \in DOMAIN index \ {agent.run} : rows[s] = index[s]
    BY <1>3, <1>t, StatusWritten
  <2>2. \A r \in DOMAIN index : /\ rows[r].number = index[r].number
                                /\ r # next.run => rows[r] = index[r] /\ ~Midway(r)
    BY <1>3, <2>1 DEF Midway
  <2>3. /\ next.run \in DOMAIN rows /\ DOMAIN index \subseteq DOMAIN rows
        /\ DOMAIN rows \subseteq DOMAIN index \cup {next.run} /\ Len(rows) <= MaxRuns
        /\ next.run \in DOMAIN index /\ next.pc # "idle" /\ d = rows[next.run].status
        /\ next.pc = "closing" => rows[next.run].status = "completed"
        /\ Sent(agent) /\ AgentAppends(rows, d, next) /\ rows \in Seq(RunRows)
    BY <1>3, <1>t, <2>1
  <2> QED
    BY <2>2, <2>3, AgentAppendsKeep
<1>4. ASSUME NEW node \in {"extract_rfq", "create_quote", "create_followup"}, NEW outcome \in Outcomes(node),
             ObserveNew(node, outcome)
      PROVE  FlowInv'
  <2> DEFINE next == [Free EXCEPT !.pc = "created", !.run = Len(index) + 1, !.node = node, !.outcome = outcome]
  <2>1. outcome \in {"error", "missing", "done"} /\ Len(index) + 1 \in Nat
    BY <1>t DEF Outcomes
  <2>2. next \in FlowTasks /\ next.pc = "created" /\ next.run = Len(index) + 1
    BY <2>1, NoEventIsOne DEF Free, FlowTasks
  <2>3. AgentAppends(NewRun, "running", next) /\ agent.pc = "idle" /\ Len(index) < MaxRuns
    BY <1>4 DEF ObserveNew
  <2> HIDE DEF next
  <2> QED
    BY <1>1, <2>2, <2>3
<1>5. ASSUME NEW node \in {"extract_rfq", "create_quote", "create_followup"}, NEW outcome \in Outcomes(node),
             ObserveActive(node, outcome)
      PROVE  FlowInv'
  <2>1. outcome \in {"error", "missing", "done"}
    BY DEF Outcomes
  <2>2. PICK r \in ActiveRuns : AgentAppends(index, "running",
          [Free EXCEPT !.pc = "started", !.run = r, !.node = node, !.outcome = outcome])
    BY <1>5 DEF ObserveActive
  <2> DEFINE next == [Free EXCEPT !.pc = "started", !.run = r, !.node = node, !.outcome = outcome]
  <2>3. r \in DOMAIN index /\ r \in Nat
    BY <1>t DEF ActiveRuns
  <2>4. next \in FlowTasks /\ next.pc = "started" /\ next.run = r
    BY <2>1, <2>3, NoEventIsOne DEF Free, FlowTasks
  <2>5. AgentAppends(index, "running", next) /\ agent.pc = "idle" /\ Sent(agent)
    BY <1>5, <1>t, <2>2 DEF ObserveActive, TaskIsSound, Sent, NoEvent
  <2> HIDE DEF next
  <2> QED
    BY <1>2, <1>s, <2>3, <2>4, <2>5
<1>6. ASSUME NEW outcome \in {"error", "done"}, Analyse(outcome) PROVE FlowInv'
  <2> DEFINE next == [Free EXCEPT !.pc = "analysed", !.run = Len(index) + 1, !.outcome = outcome]
  <2>1. Len(index) + 1 \in Nat
    BY <1>t
  <2>2. next \in FlowTasks /\ next.pc = "analysed" /\ next.run = Len(index) + 1
    BY <2>1, NoEventIsOne DEF Free, FlowTasks
  <2>3. AgentAppends(NewRun, "running", next) /\ agent.pc = "idle" /\ Len(index) < MaxRuns
    BY <1>6 DEF Analyse
  <2> HIDE DEF next
  <2> QED
    BY <1>1, <2>2, <2>3
<1>r. agent.pc # "idle" => agent.run \in DOMAIN index
  BY <1>t DEF TaskIsSound
<1>7. CASE NodeStarted
  <2> DEFINE next == [agent EXCEPT !.pc = "started"]
  <2>1. next \in FlowTasks /\ next.pc = "started" /\ next.run = agent.run
    BY <1>t DEF FlowTasks
  <2>2. AgentAppends(index, "running", next) /\ agent.pc = "created" /\ Sent(agent)
    BY <1>7 DEF NodeStarted
  <2> HIDE DEF next
  <2> QED
    BY <1>2, <1>s, <1>r, <2>1, <2>2
<1>8. CASE NodeDecided
  <2> DEFINE d == StatusAfterNode(agent)
             pc == IF d = "completed" THEN "closing" ELSE "last"
             next == [agent EXCEPT !.pc = pc]
             rows == [index EXCEPT ![agent.run].status = d]
  <2>1. AgentAppends(rows, d, next) /\ agent.pc = "started" /\ Sent(agent)
    BY <1>8 DEF NodeDecided, ToldAfterNode
  <2>2. d \in RunStatuses
    BY <1>s
  <2> HIDE DEF d
  <2>3. next \in FlowTasks /\ next.pc = pc /\ next.run = agent.run
    BY <1>t DEF FlowTasks
  <2> HIDE DEF next
  <2> QED
    BY <1>3, <1>r, <2>1, <2>2, <2>3
<1>9. CASE RunClosed
  <2> DEFINE next == [agent EXCEPT !.pc = "last"]
  <2>1. next \in FlowTasks /\ next.pc = "last" /\ next.run = agent.run
    BY <1>t DEF FlowTasks
  <2>2. AgentAppends(index, "completed", next) /\ agent.pc = "closing" /\ Sent(agent)
    BY <1>9 DEF RunClosed
  <2> HIDE DEF next
  <2> QED
    BY <1>2, <1>s, <1>r, <1>t, <2>1, <2>2
<1>10. CASE StageStarted
  <2> DEFINE k == agent.stage + 1
             next == [agent EXCEPT !.pc = "stage", !.stage = k]
  <2>n. agent.stage \in Nat
    BY <1>t DEF FlowTasks
  <2>k. k \in Nat
    BY <2>n
  <2>2. AgentAppends(index, "running", next) /\ agent.pc = "analysed" /\ Sent(agent)
    BY <1>10 DEF StageStarted
  <2> HIDE DEF k
  <2>1. next \in FlowTasks /\ next.pc = "stage" /\ next.run = agent.run
    BY <1>t, <2>k DEF FlowTasks
  <2> HIDE DEF next
  <2> QED
    BY <1>2, <1>s, <1>r, <2>1, <2>2
<1>11. CASE StageDone
  <2> DEFINE d == IF agent.stage = AnalyticsNodes THEN "completed" ELSE "running"
             pc == IF d = "completed" THEN "closing" ELSE "analysed"
             next == [agent EXCEPT !.pc = pc]
             rows == IF agent.stage > Reading THEN [index EXCEPT ![agent.run].status = d] ELSE index
  <2>1. AgentAppends(rows, d, next) /\ agent.pc = "stage" /\ Sent(agent)
    BY <1>11 DEF StageDone
  <2>2. d \in RunStatuses /\ (agent.stage <= Reading => d = "running")
    BY <1>s, WorkflowAssumption DEF FlowTasks
  <2>n. agent.stage \in Nat
    BY <1>t DEF FlowTasks
  <2>d. d \in {"completed", "running"}
    OBVIOUS
  <2> HIDE DEF d
  <2>3. next \in FlowTasks /\ next.pc = pc /\ next.run = agent.run
    BY <1>t DEF FlowTasks
  <2> HIDE DEF next
  <2>4. CASE agent.stage > Reading
    BY <1>3, <1>r, <2>1, <2>2, <2>3, <2>4
  <2>5. CASE ~(agent.stage > Reading)
    <3>1. d = "running" /\ rows = index /\ pc = "analysed"
      BY <2>2, <2>n, <2>5, WorkflowAssumption
    <3> QED
      BY <1>2, <1>s, <1>r, <2>1, <2>3, <3>1
  <2> QED
    BY <2>4, <2>5
<1>12. CASE QueryFailed
  <2> DEFINE next == [agent EXCEPT !.pc = "last"]
  <2>1. next \in FlowTasks /\ next.pc = "last" /\ next.run = agent.run
    BY <1>t DEF FlowTasks
  <2>2. /\ AgentAppends([index EXCEPT ![agent.run].status = "failed"], "failed", next)
        /\ agent.pc = "analysed" /\ Sent(agent)
    BY <1>12 DEF QueryFailed
  <2> HIDE DEF next
  <2> QED
    BY <1>3, <1>s, <1>r, <2>1, <2>2
\* A task that has told its last leaves.
<1>13. CASE AgentRests \/ CancellerRests
  <2>1. /\ index' = index /\ window' = window
        /\ \/ agent.pc = "last" /\ Sent(agent) /\ agent' = Free /\ canceller' = canceller
           \/ canceller.pc = "last" /\ Sent(canceller) /\ canceller' = Free /\ agent' = agent
    BY <1>13 DEF AgentRests, CancellerRests
  <2>2. /\ Sent(agent) => agent.sending = NoEvent
        /\ Sent(canceller) => canceller.sending = NoEvent
    BY <1>t DEF TaskIsSound, Sent
  <2>3. Free.pc = "idle" /\ Free.sending = NoEvent
    BY DEF Free
  <2>4. Free \in FlowTasks
    BY NoEventIsOne
  <2>5. /\ agent'.sending = agent.sending /\ canceller'.sending = canceller.sending
        /\ agent' \in FlowTasks /\ canceller' \in FlowTasks
    BY <1>t, <2>1, <2>2, <2>3, <2>4
  <2>6. \A r : Midway(r)' = Midway(r)
    BY <2>1, <2>3 DEF Midway
  <2>7. TasksAreSound'
    BY <1>t, <2>1, <2>3 DEF TasksAreSound, TaskIsSound
  <2>8. ToldIsTrue'
    BY <2>1, <2>5, <2>6 DEF FlowInv, ToldIsTrue, ToldTruly, IsTrueOf
  <2>9. BoundIsCurrent'
    <3>1. \A r : LastShown(r)' = LastShown(r) /\ ShownOrSent(r)' = ShownOrSent(r)
      BY <2>1, <2>5, <2>6 DEF LastShown, IsTrueOf, ShownOrSent, IsSending
    <3> QED
      BY <2>1, <3>1 DEF FlowInv, BoundIsCurrent
  <2> QED
    BY <2>1, <2>5, <2>7, <2>8, <2>9 DEF FlowInv, FlowTypeInv, NothingIsAhead
<1>14. CASE AgentSends \/ CancellerSends
  <2>1. agent.sending \in Sendings /\ canceller.sending \in Sendings
    BY <1>t DEF FlowTasks
  <2>2. CASE AgentSends
    <3>1. /\ agent.sending # NoEvent /\ window' = ShownAfter(agent.sending) /\ index' = index
          /\ agent' = [agent EXCEPT !.sending = NoEvent] /\ canceller' = canceller
      BY <2>2 DEF AgentSends, Sent, NoEvent
    <3> QED
      BY <2>1, <3>1, SendKeeps
  <2>3. CASE CancellerSends
    <3>1. /\ canceller.sending # NoEvent /\ window' = ShownAfter(canceller.sending) /\ index' = index
          /\ canceller' = [canceller EXCEPT !.sending = NoEvent] /\ agent' = agent
      BY <2>3 DEF CancellerSends, Sent, NoEvent
    <3> QED
      BY <2>1, <3>1, SendKeeps
  <2> QED
    BY <1>14, <2>2, <2>3
<1>15. CASE WindowLost \/ WindowBinds \/ WindowCatchesUp \/ UNCHANGED flowVars
  BY <1>15, WindowMovesKeep DEF WindowLost, WindowBinds, WindowCatchesUp, flowVars
<1>16. CASE Death
  <2>1. /\ index' = index /\ agent' = Free /\ canceller' = Free
        /\ window' = [window EXCEPT !.mode = "off"]
    BY <1>16 DEF Death
  <2> QED
    BY <1>t, <2>1, DeathKeeps
<1>17. CASE DeathBeforeEvent
  <2>1. agent' = Free /\ canceller' = Free /\ window' = [window EXCEPT !.mode = "off"]
    BY <1>17 DEF DeathBeforeEvent
  <2>2. ASSUME NEW r \in DOMAIN index, NEW d \in RunStatuses, index' = [index EXCEPT ![r].status = d]
        PROVE  FlowInv'
    <3>0. index \in Seq(RunRows)
      BY <1>t
    <3>1. /\ index' \in Seq(RunRows) /\ Len(index') = Len(index) /\ DOMAIN index' = DOMAIN index
          /\ index'[r].number = index[r].number
          /\ \A s \in DOMAIN index \ {r} : index'[s] = index[s]
      BY <2>2, <3>0, StatusWritten
    <3> QED
      BY <1>t, <2>1, <3>1, DeathKeeps
  <2>3. CASE index' = NewRun /\ Len(index) < MaxRuns
    <3>1. /\ NewRun \in Seq(RunRows) /\ Len(NewRun) = Len(index) + 1
          /\ DOMAIN NewRun = DOMAIN index \cup {Len(index) + 1} /\ Len(index) + 1 \notin DOMAIN index
          /\ NewRun[Len(index) + 1].number = 0
          /\ \A s \in DOMAIN index : NewRun[s] = index[s]
      BY <1>t, RunAdded
    <3>2. Len(NewRun) <= MaxRuns
      BY <1>t, <2>3, <3>1, WorkflowAssumption
    <3> HIDE DEF NewRun
    <3> QED
      BY <2>1, <2>3, <3>1, <3>2, DeathKeeps
  <2>4. \/ agent.pc = "started" /\ index' = [index EXCEPT ![agent.run].status = StatusAfterNode(agent)]
        \/ index' = NewRun /\ Len(index) < MaxRuns
        \/ \E r \in ActiveRuns : index' = [index EXCEPT ![r].status = "cancelled"]
    BY <1>17 DEF DeathBeforeEvent
  <2>5. CASE agent.pc = "started" /\ index' = [index EXCEPT ![agent.run].status = StatusAfterNode(agent)]
    BY <1>r, <1>s, <2>2, <2>5
  <2>6. CASE \E r \in ActiveRuns : index' = [index EXCEPT ![r].status = "cancelled"]
    BY <2>2, <2>6 DEF ActiveRuns, RunStatuses
  <2> QED
    BY <2>3, <2>4, <2>5, <2>6
<1>18. ASSUME NEW r \in 1..MaxRuns, Cancel(r) PROVE FlowInv'
  BY <1>18, CancelKeeps DEF Cancel
<1> QED
  BY <1>4, <1>5, <1>6, <1>7, <1>8, <1>9, <1>10, <1>11, <1>12, <1>13, <1>14, <1>15, <1>16, <1>17, <1>18
     DEF FlowNext

\* When nothing is under way a bound window shows every run as it is, for any
\* number of runs, however events overtook each other and whatever was lost
\* (_append, _broadcast_workflow_event, conversation.bind, applyWorkflowEvent).
THEOREM WindowIsCurrent == FlowSpec => []WindowShowsRuns
<1>1. FlowInv => WindowShowsRuns
  <2> SUFFICES ASSUME FlowInv, agent = Free, canceller = Free, window.mode = "bound"
               PROVE  window.shows = Snapshot
    BY DEF WindowShowsRuns
  <2>1. /\ window.shows \in [1..MaxRuns -> ShownRows] /\ index \in Seq(RunRows)
        /\ Len(index) <= MaxRuns
    BY DEF FlowInv, FlowTypeInv
  <2>2. Free.sending.run = 0 /\ Free.pc = "idle"
    BY DEF Free, NoEvent
  <2>3. ASSUME NEW r \in DOMAIN index
        PROVE  window.shows[r].number = index[r].number /\ window.shows[r].status = index[r].status
    <3>1. r # 0
      BY <2>1
    <3>2. LastShown(r) /\ ShownOrSent(r) /\ ~Midway(r)
      BY <2>2 DEF FlowInv, BoundIsCurrent, Midway
    <3>3. ~IsSending(agent, r) /\ ~IsSending(canceller, r)
      BY <2>2, <3>1 DEF IsSending
    <3> QED
      BY <3>2, <3>3 DEF LastShown, ShownOrSent, IsTrueOf
  <2>4. ASSUME NEW r \in 1..MaxRuns
        PROVE  window.shows[r] = IF r \in DOMAIN index
                                 THEN [status |-> index[r].status, number |-> index[r].number] ELSE Unseen
    <3>1. CASE r \in DOMAIN index
      BY <2>1, <2>3, <3>1 DEF ShownRows
    <3>2. CASE r \notin DOMAIN index
      BY <3>2 DEF FlowInv, NothingIsAhead
    <3> QED
      BY <3>1, <3>2
  <2> QED
    BY <2>1, <2>4 DEF Snapshot
<1> QED
  BY <1>1, FlowInitial, FlowStep, PTL DEF FlowSpec

-----------------------------------------------------------------------------
(* AgentTurn: the calls a turn has left to run, and what ran already.          *)

\* Ids of calls: request, decision and place in the response.
CallIds == TurnRequests \X Nat \X Nat
MadeCalls == {c \in CallIds : c[2] <= decisions[c[1]]}
MessageKinds == {"user", "call", "result", "answer", "summary", "context"}
\* Only calls that the model has made have results, in whatever a turn may read.
TurnMessages ==
  {m \in [kind : MessageKinds, ids : SUBSET (CallIds \cup TurnRequests)] :
     m.kind = "result" => m.ids \subseteq MadeCalls}
TurnGraphs == [msgs : Seq(TurnMessages), iteration : Nat, pending : Seq(MadeCalls),
           final : {"no", "answer", "stop"}]
Turns == [at : {"prepare", "compact", "invoke", "model", "tools", "ran", "final", "persist",
                "cleanup", "complete"},
          req : TurnRequests, read : Seq(TurnMessages), graph : TurnGraphs, written : BOOLEAN]

TurnTypeInv ==
  /\ decisions \in [TurnRequests -> Nat]
  /\ disk \in Seq(TurnMessages) /\ memory \in Seq(TurnMessages)
  /\ saved \in [Named -> TurnGraphs]
  /\ turn \in Turns \cup {IdleTurn}
  /\ runs \in [Ran -> Nat] /\ Ran \subseteq MadeCalls
  /\ broken \in [BagToSet(broken) -> Nat]
  /\ ~Staff => Ran = {}

\* What a graph is to run is of its request, once, and has no result yet.
PendingSound(r, g) ==
  /\ \A i, j \in DOMAIN g.pending : g.pending[i] = g.pending[j] => i = j
  /\ \A i \in DOMAIN g.pending : g.pending[i][1] = r /\ g.pending[i] \notin Ids(g.msgs, "result")

PendingInv ==
  /\ \A r \in Named : PendingSound(r, saved[r])
  /\ turn # IdleTurn => PendingSound(turn.req, turn.graph)
  /\ At("model") => turn.graph.pending = <<>>
  /\ At("tools") \/ At("ran") => turn.graph.pending # <<>>

\* Every run of the call so far was interrupted: it may run once more.
MayRun(c) == Times(runs, c) <= Times(broken, c)
RunsInv ==
  /\ \A c \in MadeCalls : Times(runs, c) <= 1 + Times(broken, c)
  /\ \A r \in Named : 
       (InGraph /\ turn.req = r) \/ \A i \in DOMAIN saved[r].pending : MayRun(saved[r].pending[i])
  /\ InGraph => \A i \in DOMAIN turn.graph.pending : MayRun(turn.graph.pending[i]) \/ (At("ran") /\ i = 1)

TurnInv == TurnTypeInv /\ PendingInv /\ RunsInv

\* What is appended, cut or joined is still made of messages.
LEMMA CutsAreSequences ==
  ASSUME NEW S, NEW s \in Seq(S), NEW i \in Nat, i > 0
  PROVE  SubSeq(s, i, Len(s)) \in Seq(S)
OBVIOUS

LEMMA AppendsAreSequences ==
  ASSUME NEW S, NEW s \in Seq(S), NEW e \in S PROVE Append(s, e) \in Seq(S)
OBVIOUS

LEMMA Extends ==
  ASSUME NEW S, NEW T, S \subseteq T
  PROVE  Seq(S) \subseteq Seq(T)
OBVIOUS

\* One more copy of every element of S.
LEMMA BagGrows ==
  ASSUME NEW b, b \in [BagToSet(b) -> Nat], NEW S, NEW d, d = b (+) SetToBag(S)
  PROVE  /\ d \in [BagToSet(d) -> Nat] /\ BagToSet(d) = BagToSet(b) \cup S
         /\ \A c : Times(b, c) \in Nat
         /\ \A c \in S : Times(d, c) = Times(b, c) + 1
         /\ \A c : c \notin S => Times(d, c) = Times(b, c)
BY DEF BagToSet, SetToBag, Times, BagIn, (+)

LEMMA CopiesAreCounted ==
  ASSUME NEW b, b \in [BagToSet(b) -> Nat]
  PROVE  \A c : Times(b, c) \in Nat /\ (c \notin BagToSet(b) => Times(b, c) = 0)
BY DEF Times, BagIn, BagToSet

LEMMA OthersStay ==
  ASSUME NEW b, b \in [BagToSet(b) -> Nat], NEW d, d = Others(b)
  PROVE  /\ d \in [BagToSet(d) -> Nat] /\ BagToSet(d) \subseteq BagToSet(b)
         /\ \A c : Times(d, c) = IF c[1] = turn.req THEN 0 ELSE Times(b, c)
BY DEF Others, Restrict, BagToSet, Times, BagIn

\* An answer adds one result.
LEMMA ResultIsAdded ==
  ASSUME NEW msgs \in Seq(TurnMessages), NEW c
  PROVE  Ids(Append(msgs, Result(c)), "result") \subseteq Ids(msgs, "result") \cup {c}
<1> SUFFICES ASSUME NEW x \in Ids(Append(msgs, Result(c)), "result"), x # c
             PROVE  x \in Ids(msgs, "result")
  OBVIOUS
<1> DEFINE more == Append(msgs, Result(c))
<1>1. /\ DOMAIN more = 1..(Len(msgs) + 1) /\ Len(msgs) \in Nat /\ DOMAIN msgs = 1..Len(msgs)
      /\ \A j \in 1..Len(msgs) : more[j] = msgs[j]
      /\ more[Len(msgs) + 1] = Result(c)
  OBVIOUS
<1>2. PICK j \in DOMAIN more : more[j].kind = "result" /\ x \in more[j].ids
  BY DEF Ids
<1> HIDE DEF more
<1>3. j # Len(msgs) + 1
  BY <1>1, <1>2 DEF Result
<1>4. j \in DOMAIN msgs /\ msgs[j].kind = "result" /\ x \in msgs[j].ids
  BY <1>1, <1>2, <1>3
<1> QED
  BY <1>4 DEF Ids

LEMMA ResultsAreMade ==
  ASSUME NEW msgs \in Seq(TurnMessages)
  PROVE  Ids(msgs, "result") \subseteq MadeCalls
<1>1. \A j \in DOMAIN msgs : msgs[j] \in TurnMessages
  OBVIOUS
<1> QED
  BY <1>1 DEF Ids, TurnMessages

LEMMA NoneIsSound == None \in TurnGraphs /\ \A r : PendingSound(r, None)
  BY DEF None, TurnGraphs, PendingSound

LEMMA TurnShape ==
  ASSUME TurnTypeInv
  PROVE  /\ turn # IdleTurn <=> turn \in Turns
         /\ turn = IdleTurn <=> At("idle")
         /\ InGraph => turn \in Turns
         /\ \A c : Times(runs, c) \in Nat /\ Times(broken, c) \in Nat /\ (c \notin Ran => Times(runs, c) = 0)
<1>1. turn \in Turns => turn.at # "idle"
  BY DEF Turns
<1>2. IdleTurn.at = "idle"
  BY DEF IdleTurn
<1>3. turn # IdleTurn <=> turn \in Turns
  BY <1>1, <1>2 DEF TurnTypeInv
<1>4. turn = IdleTurn <=> At("idle")
  BY <1>1, <1>2 DEF TurnTypeInv, At
<1>5. InGraph => turn \in Turns
  BY <1>3, <1>2 DEF InGraph
<1>6. runs \in [BagToSet(runs) -> Nat] /\ broken \in [BagToSet(broken) -> Nat]
  BY DEF TurnTypeInv, Ran
<1>7. \A c : Times(runs, c) \in Nat /\ Times(broken, c) \in Nat /\ (c \notin Ran => Times(runs, c) = 0)
  BY <1>6, CopiesAreCounted DEF Ran
<1> QED
  BY <1>3, <1>4, <1>5, <1>7

\* Steps outside the graph that run nothing: a checkpoint stays or is dropped.
LEMMA OutOfGraph ==
  ASSUME TurnInv, UNCHANGED <<setting, decisions, runs, broken>>, ~InGraph, ~InGraph',
         disk' \in Seq(TurnMessages), memory' \in Seq(TurnMessages),
         turn' \in Turns \cup {IdleTurn},
         turn' # IdleTurn => \/ turn'.graph = None
                             \/ turn # IdleTurn /\ turn'.graph = turn.graph /\ turn'.req = turn.req,
         saved' \in [Named -> TurnGraphs], \A r \in Named : saved'[r] \in {saved[r], None}
  PROVE  TurnInv'
<1>0. TurnTypeInv /\ PendingInv /\ RunsInv
  BY DEF TurnInv
<1>1. TurnMessages' = TurnMessages /\ MadeCalls' = MadeCalls /\ TurnGraphs' = TurnGraphs /\ Turns' = Turns
  BY DEF TurnMessages, MadeCalls, TurnGraphs, Turns
<1>2. TurnTypeInv'
  BY <1>0, <1>1 DEF TurnTypeInv, Ran, Staff
<1>3. /\ ~(At("model") \/ At("tools") \/ At("ran"))'
      /\ \A r \in Named : PendingSound(r, saved'[r])
  BY <1>0, NoneIsSound DEF PendingInv, InGraph, At
<1>4. turn' # IdleTurn => PendingSound(turn'.req, turn'.graph)
  BY <1>0, NoneIsSound DEF PendingInv
<1>5. PendingInv'
  BY <1>3, <1>4 DEF PendingInv, PendingSound
<1>6. \A c : MayRun(c)' <=> MayRun(c)
  BY DEF MayRun
<1>7. \A r \in Named : \A i \in DOMAIN saved'[r].pending : MayRun(saved'[r].pending[i])
  BY <1>0 DEF RunsInv, None
<1>8. RunsInv'
  BY <1>0, <1>1, <1>6, <1>7 DEF RunsInv
<1> QED
  BY <1>2, <1>5, <1>8 DEF TurnInv

\* Steps into the graph or within it that run nothing.
LEMMA WithinGraph ==
  ASSUME TurnInv, UNCHANGED <<setting, decisions, runs, broken>>, InGraph', turn \in Turns, turn' \in Turns,
         disk' \in Seq(TurnMessages), memory' \in Seq(TurnMessages), turn'.req = turn.req,
         PendingSound(turn.req, turn'.graph),
         turn'.at = "model" => turn'.graph.pending = <<>>,
         turn'.at \in {"tools", "ran"} => turn'.graph.pending # <<>>,
         \A i \in DOMAIN turn'.graph.pending :
           MayRun(turn'.graph.pending[i]) \/ (turn'.at = "ran" /\ i = 1),
         saved' \in [Named -> TurnGraphs],
         \A r \in Named : saved'[r] \in {saved[r], None} \/ (r = turn.req /\ saved'[r] = turn'.graph)
  PROVE  TurnInv'
<1>0. TurnTypeInv /\ PendingInv /\ RunsInv
  BY DEF TurnInv
<1>1. TurnMessages' = TurnMessages /\ MadeCalls' = MadeCalls /\ TurnGraphs' = TurnGraphs /\ Turns' = Turns
  BY DEF TurnMessages, MadeCalls, TurnGraphs, Turns
<1>2. TurnTypeInv'
  BY <1>0, <1>1 DEF TurnTypeInv, Ran, Staff
<1>3. \A r \in Named : PendingSound(r, saved'[r])
  BY <1>0, NoneIsSound DEF PendingInv
<1>5. PendingInv'
  BY <1>3 DEF PendingInv, PendingSound, At
<1>6. \A c : MayRun(c)' <=> MayRun(c)
  BY DEF MayRun
<1>7. ASSUME NEW r \in Named, r # turn.req
      PROVE  \A i \in DOMAIN saved'[r].pending : MayRun(saved'[r].pending[i])
  BY <1>0, <1>7 DEF RunsInv, None
<1>8. RunsInv'
  BY <1>0, <1>1, <1>6, <1>7 DEF RunsInv, At
<1> QED
  BY <1>2, <1>5, <1>8 DEF TurnInv

\* A save leaves the session with the message or as it was.
LEMMA SaveKeeps ==
  ASSUME NEW S, disk \in Seq(S), NEW m \in S, Save(m) PROVE disk' \in Seq(S)
<1>1. disk' \in {disk, Append(disk, m)}
  BY DEF Save
<1> QED
  BY <1>1

LEMMA BeginKeeps == ASSUME TurnInv, NEW r \in TurnRequests, Begin(r) PROVE TurnInv'
<1>1. /\ turn = IdleTurn /\ UNCHANGED <<setting, disk, saved, done, decisions, runs, broken>>
      /\ memory' \in {disk, memory}
      /\ turn' = [at |-> IF setting.kind = "bounded" THEN "prepare" ELSE "invoke", req |-> r,
                  read |-> <<>>, graph |-> None, written |-> TRUE]
  BY DEF Begin, ghosts
<1>2. disk \in Seq(TurnMessages) /\ memory' \in Seq(TurnMessages) /\ saved \in [Named -> TurnGraphs]
  BY <1>1 DEF TurnInv, TurnTypeInv
<1>3. turn' \in Turns /\ turn'.graph = None /\ turn'.at \in {"prepare", "invoke"}
  BY <1>1, NoneIsSound DEF Turns
<1>4. ~InGraph /\ ~InGraph'
  BY <1>1, <1>3 DEF InGraph, IdleTurn
<1> QED
  BY <1>1, <1>2, <1>3, <1>4, OutOfGraph

LEMMA PrepareKeeps == ASSUME TurnInv, PrepareRead \/ PrepareWrite PROVE TurnInv'
<1>0. /\ turn \in Turns /\ disk \in Seq(TurnMessages) /\ memory \in Seq(TurnMessages)
      /\ saved \in [Named -> TurnGraphs] /\ turn.at \in {"prepare", "compact"}
  <2>1. turn.at \in {"prepare", "compact"}
    BY DEF PrepareRead, PrepareWrite, At
  <2> QED
    BY <2>1, TurnShape DEF TurnInv, TurnTypeInv, IdleTurn
<1>1. CASE PrepareRead
  <2>1. /\ turn' = [turn EXCEPT !.at = "compact", !.read = disk]
        /\ UNCHANGED <<setting, disk, memory, saved, decisions, runs, broken>>
    BY <1>1 DEF PrepareRead, ghosts
  <2>2. turn' \in Turns /\ turn'.graph = turn.graph /\ turn'.req = turn.req /\ turn'.at = "compact"
    BY <1>0, <2>1 DEF Turns
  <2>3. ~InGraph /\ ~InGraph' /\ turn # IdleTurn
    BY <1>0, <2>2 DEF InGraph, IdleTurn
  <2> QED
    BY <1>0, <2>1, <2>2, <2>3, OutOfGraph
<1>2. CASE PrepareWrite
  <2>1. /\ turn' = [turn EXCEPT !.at = "invoke", !.read = <<>>]
        /\ UNCHANGED <<setting, saved, decisions, runs, broken>>
    BY <1>2 DEF PrepareWrite, ghosts
  <2>a. PICK kept \in {turn.read} \cup Compactions(turn.read) :
          /\ memory' = kept
          /\ disk' = IF setting.store = "file" /\ kept # turn.read THEN kept ELSE disk
    BY <1>2 DEF PrepareWrite
  <2>b. disk' = kept \/ disk' = disk
    BY <2>a
  <2>c. <<>> \in Seq(TurnMessages)
    OBVIOUS
  <2>2. turn' \in Turns /\ turn'.graph = turn.graph /\ turn'.req = turn.req /\ turn'.at = "invoke"
    BY <1>0, <2>1, <2>c DEF Turns
  <2>3. ~InGraph /\ ~InGraph' /\ turn # IdleTurn
    BY <1>0, <2>2 DEF InGraph, IdleTurn
  <2>4. PICK h \in Seq(TurnMessages) : h = turn.read
    BY <1>0 DEF Turns
  <2>5. Summary \in TurnMessages
    BY DEF Summary, TurnMessages, MessageKinds
  <2>6. Compactions(h) \subseteq Seq(TurnMessages)
    <3> SUFFICES ASSUME NEW i \in DOMAIN h PROVE <<Summary>> \o SubSeq(h, i, Len(h)) \in Seq(TurnMessages)
      BY DEF Compactions
    <3>1. i \in Nat /\ i > 0
      OBVIOUS
    <3>2. SubSeq(h, i, Len(h)) \in Seq(TurnMessages)
      BY <3>1, CutsAreSequences
    <3> QED
      BY <2>5, <3>2
  <2>7. memory' \in Seq(TurnMessages) /\ disk' \in Seq(TurnMessages)
    BY <1>0, <2>a, <2>b, <2>4, <2>6
  <2> QED
    BY <1>0, <2>1, <2>2, <2>3, <2>7, OutOfGraph
<1> QED
  BY <1>1, <1>2

LEMMA EnterKeeps == ASSUME TurnInv, Resume \/ StartFresh PROVE TurnInv'
<1>0. /\ turn \in Turns /\ disk \in Seq(TurnMessages) /\ memory \in Seq(TurnMessages)
      /\ saved \in [Named -> TurnGraphs] /\ turn.at = "invoke" /\ ~InGraph
  <2>1. turn.at = "invoke"
    BY DEF Resume, StartFresh, At
  <2> QED
    BY <2>1, TurnShape DEF TurnInv, TurnTypeInv, IdleTurn, InGraph
<1>1. CASE Resume
  <2>1. /\ turn.req \in Named /\ turn' = [turn EXCEPT !.at = After(saved[turn.req]), !.graph = saved[turn.req]]
        /\ UNCHANGED <<setting, disk, memory, saved, decisions, runs, broken>>
    BY <1>1 DEF Resume, ghosts, Checkpointed
  <2>2. PICK g \in TurnGraphs : g = saved[turn.req]
    BY <1>0, <2>1
  <2>3. /\ After(g) \in {"final", "tools", "model"}
        /\ After(g) = "model" => g.pending = <<>>
        /\ After(g) = "tools" => g.pending # <<>>
    BY DEF After
  <2>4. turn' = [turn EXCEPT !.at = After(g), !.graph = g]
    BY <2>1, <2>2
  <2>5. turn' \in Turns /\ turn'.graph = g /\ turn'.req = turn.req /\ turn'.at = After(g)
    BY <1>0, <2>3, <2>4 DEF Turns
  <2>6. InGraph'
    BY <2>3, <2>5 DEF InGraph
  <2>7. PendingSound(turn.req, g) /\ \A i \in DOMAIN g.pending : MayRun(g.pending[i])
    BY <1>0, <2>1, <2>2 DEF TurnInv, PendingInv, RunsInv
  <2> QED
    BY <1>0, <2>1, <2>3, <2>5, <2>6, <2>7, WithinGraph
<1>2. CASE StartFresh
  <2> DEFINE msgs == (IF Staff THEN <<>> ELSE <<Context>>) \o memory \o <<User(turn.req)>>
             g == [None EXCEPT !.msgs = msgs]
  <2>1. /\ Save(User(turn.req)) /\ turn' = [turn EXCEPT !.at = "model", !.written = FALSE, !.graph = g]
        /\ UNCHANGED <<setting, memory, saved, decisions, runs, broken>>
    BY <1>2 DEF StartFresh
  <2>2. Context \in TurnMessages /\ User(turn.req) \in TurnMessages
    BY <1>0 DEF Context, User, TurnMessages, MessageKinds, Turns
  <2>3. msgs \in Seq(TurnMessages)
    BY <1>0, <2>2
  <2> HIDE DEF msgs
  <2>4. g \in TurnGraphs /\ g.pending = <<>>
    <3>1. g = [msgs |-> msgs, iteration |-> 0, pending |-> <<>>, final |-> "no"]
      BY DEF None
    <3>2. <<>> \in Seq(MadeCalls) /\ 0 \in Nat /\ "no" \in {"no", "answer", "stop"}
      OBVIOUS
    <3> HIDE DEF g
    <3> QED
      BY <2>3, <3>1, <3>2 DEF TurnGraphs
  <2>5. PendingSound(turn.req, g)
    BY <2>4 DEF PendingSound
  <2> HIDE DEF g
  <2>6. turn' \in Turns /\ turn'.graph = g /\ turn'.req = turn.req /\ turn'.at = "model"
    BY <1>0, <2>1, <2>4 DEF Turns
  <2>7. InGraph'
    BY <2>6 DEF InGraph
  <2>8. disk' \in Seq(TurnMessages)
    BY <1>0, <2>1, <2>2, SaveKeeps
  <2>9. \A i \in DOMAIN g.pending : FALSE
    BY <2>4
  <2> QED
    BY <1>0, <2>1, <2>4, <2>5, <2>6, <2>7, <2>8, <2>9, WithinGraph
<1> QED
  BY <1>1, <1>2

LEMMA GiveUpKeeps == ASSUME TurnInv, GiveUp PROVE TurnInv'
<1>0. /\ turn \in Turns /\ disk \in Seq(TurnMessages) /\ memory \in Seq(TurnMessages)
      /\ saved \in [Named -> TurnGraphs] /\ turn.at = "model" /\ turn.graph.pending = <<>>
  <2>1. At("model")
    BY DEF GiveUp
  <2> QED
    BY <2>1, TurnShape DEF TurnInv, TurnTypeInv, PendingInv, IdleTurn, At
<1> DEFINE g == [turn.graph EXCEPT !.final = "stop"]
<1>1. turn.graph \in TurnGraphs
  BY <1>0 DEF Turns
<1>2. g \in TurnGraphs /\ g.pending = <<>> /\ g.final = "stop"
  BY <1>0, <1>1 DEF TurnGraphs
<1> HIDE DEF g
<1>3. /\ turn' = [turn EXCEPT !.at = After(g), !.graph = g, !.written = FALSE]
      /\ UNCHANGED <<setting, disk, memory, saved, decisions, runs, broken>>
  BY DEF GiveUp, NodeDone, ghosts, g
<1>4. After(g) = "final"
  BY <1>2 DEF After
<1>5. turn' \in Turns /\ turn'.graph = g /\ turn'.req = turn.req /\ turn'.at = "final"
  BY <1>0, <1>2, <1>3, <1>4 DEF Turns
<1>6. InGraph' /\ PendingSound(turn.req, g) /\ \A i \in DOMAIN g.pending : FALSE
  BY <1>2, <1>5 DEF InGraph, PendingSound
<1> QED
  BY <1>0, <1>2, <1>3, <1>5, <1>6, WithinGraph

\* A response without calls ends the graph; one with calls adds new ones to it.
LEMMA ModelKeeps == ASSUME TurnInv, NEW k \in Nat, Model(k) PROVE TurnInv'
<1>0. /\ turn \in Turns /\ disk \in Seq(TurnMessages) /\ memory \in Seq(TurnMessages)
      /\ saved \in [Named -> TurnGraphs] /\ turn.at = "model" /\ turn.graph.pending = <<>>
      /\ decisions \in [TurnRequests -> Nat] /\ turn.req \in TurnRequests /\ InGraph
      /\ turn.graph \in TurnGraphs /\ TurnTypeInv /\ PendingInv /\ RunsInv
  <2>1. At("model")
    BY DEF Model
  <2>2. turn \in Turns /\ turn.at = "model" /\ turn.graph.pending = <<>> /\ TurnTypeInv
    BY <2>1, TurnShape DEF TurnInv, PendingInv, IdleTurn, At
  <2> QED
    BY <2>2 DEF TurnInv, TurnTypeInv, Turns, InGraph
<1> DEFINE r == turn.req
           n == decisions[r] + 1
           calls == [i \in 1..k |-> <<r, n, i>>]
           message == Call({calls[i] : i \in 1..k})
<1>1. PICK msgs \in Consolidations(turn.graph.msgs) :
        LET g == [turn.graph EXCEPT !.msgs = msgs, !.iteration = @ + 1]
        IN IF k = 0
           THEN /\ \E end \in Ends : NodeDone([g EXCEPT !.final = end])
                /\ UNCHANGED <<disk, decisions, turnFaults>>
           ELSE /\ NodeDone([g EXCEPT !.msgs = Append(@, message), !.pending = calls])
                /\ Save(message)
                /\ decisions' = [decisions EXCEPT ![turn.req] = @ + 1]
  BY DEF Model
<1>2. UNCHANGED <<setting, memory, saved, runs, broken>>
  BY DEF Model
<1>3. msgs \in Seq(TurnMessages)
  <2>1. PICK h \in Seq(TurnMessages) : h = turn.graph.msgs
    BY <1>0 DEF TurnGraphs
  <2>2. Summary \in TurnMessages
    BY DEF Summary, TurnMessages, MessageKinds
  <2>3. Keep \in Nat /\ Len(h) \in Nat
    BY TurnAssumption
  <2>4. Len(h) > Keep => SubSeq(h, Len(h) - Keep + 1, Len(h)) \in Seq(TurnMessages)
    <3> SUFFICES ASSUME Len(h) > Keep PROVE SubSeq(h, Len(h) - Keep + 1, Len(h)) \in Seq(TurnMessages)
      OBVIOUS
    <3>1. PICK m \in Nat : m = Len(h) - Keep + 1 /\ m > 0
      BY <2>3
    <3> QED
      BY <3>1, CutsAreSequences
  <2>5. Len(h) > Keep => <<Summary>> \o SubSeq(h, Len(h) - Keep + 1, Len(h)) \in Seq(TurnMessages)
    BY <2>2, <2>4
  <2>6. \A m \in Consolidations(h) :
          m = h \/ (Len(h) > Keep /\ m = <<Summary>> \o SubSeq(h, Len(h) - Keep + 1, Len(h)))
    BY DEF Consolidations
  <2>7. msgs \in Consolidations(h)
    BY <1>1, <2>1
  <2> QED
    BY <2>5, <2>6, <2>7
<1> DEFINE g == [turn.graph EXCEPT !.msgs = msgs, !.iteration = @ + 1]
<1>4. g \in TurnGraphs /\ g.msgs = msgs /\ g.pending = <<>>
  <2>1. PICK h \in TurnGraphs : h = turn.graph /\ h.pending = <<>>
    BY <1>0
  <2>2. PICK m \in Nat : m = h.iteration + 1
    BY DEF TurnGraphs
  <2>3. g = [h EXCEPT !.msgs = msgs, !.iteration = m]
    BY <2>1, <2>2
  <2> HIDE DEF g
  <2>4. g = [msgs |-> msgs, iteration |-> m, pending |-> <<>>, final |-> h.final]
    BY <2>1, <2>3 DEF TurnGraphs
  <2>5. <<>> \in Seq(MadeCalls)
    OBVIOUS
  <2> QED
    BY <1>3, <2>4, <2>5 DEF TurnGraphs
<1>5. CASE k = 0
  <2>1. PICK end \in Ends : NodeDone([g EXCEPT !.final = end])
    BY <1>1, <1>5
  <2> DEFINE t == [g EXCEPT !.final = end]
  <2>2. UNCHANGED <<disk, decisions>>
    BY <1>1, <1>5
  <2> HIDE DEF g
  <2>3. end \in {"answer", "stop"}
    BY DEF Ends
  <2>4. t \in TurnGraphs /\ t.pending = <<>> /\ t.final # "no"
    BY <1>4, <2>3 DEF TurnGraphs
  <2>5. turn' = [turn EXCEPT !.at = After(t), !.graph = t, !.written = FALSE]
    BY <2>1 DEF NodeDone
  <2> HIDE DEF t
  <2>6. After(t) = "final"
    BY <2>4 DEF After
  <2>7. turn' \in Turns /\ turn'.graph = t /\ turn'.req = turn.req /\ turn'.at = "final"
    BY <1>0, <2>4, <2>5, <2>6 DEF Turns
  <2>8. InGraph' /\ PendingSound(turn.req, t) /\ \A i \in DOMAIN t.pending : FALSE
    BY <2>4, <2>7 DEF InGraph, PendingSound
  <2> QED
    BY <1>0, <1>2, <2>2, <2>4, <2>7, <2>8, WithinGraph
<1>6. CASE k # 0
  <2> DEFINE t == [g EXCEPT !.msgs = Append(@, message), !.pending = calls]
  <2>1. NodeDone(t) /\ Save(message) /\ decisions' = [decisions EXCEPT ![turn.req] = n]
    BY <1>1, <1>6
  <2> HIDE DEF g
  <2>2. /\ decisions' \in [TurnRequests -> Nat] /\ n \in Nat /\ decisions'[r] = n
        /\ \A q \in TurnRequests : decisions[q] <= decisions'[q]
    BY <1>0, <2>1
  <2>3. MadeCalls \subseteq MadeCalls'
    BY <1>0, <2>2 DEF MadeCalls, CallIds
  <2>4. TurnMessages \subseteq TurnMessages'
    BY <2>3 DEF TurnMessages
  <2>5. Seq(MadeCalls) \subseteq Seq(MadeCalls') /\ Seq(TurnMessages) \subseteq Seq(TurnMessages')
    BY <2>3, <2>4, Extends
  <2>6. TurnGraphs \subseteq TurnGraphs'
    BY <2>5 DEF TurnGraphs
  <2>7. Turns \subseteq Turns'
    BY <2>5, <2>6 DEF Turns
  <2>8. \A i \in 1..k : calls[i] = <<r, n, i>> /\ calls[i] \in MadeCalls' /\ calls[i] \notin MadeCalls
    BY <1>0, <2>2 DEF MadeCalls, CallIds
  <2>9. calls \in Seq(MadeCalls') /\ DOMAIN calls = 1..k /\ calls # <<>>
    <3>1. calls \in [1..k -> MadeCalls']
      BY <2>8
    <3>2. DOMAIN calls = 1..k
      OBVIOUS
    <3> HIDE DEF calls
    <3> QED
      BY <3>1, <3>2, <1>6
  <2>10. message \in TurnMessages' /\ message.kind = "call"
    <3>1. {calls[i] : i \in 1..k} \subseteq CallIds
      BY <2>8 DEF MadeCalls
    <3> HIDE DEF calls
    <3> QED
      BY <3>1 DEF Call, TurnMessages, MessageKinds
  <2> HIDE DEF message, calls
  <2>11. PICK more \in Seq(TurnMessages') : more = Append(msgs, message)
    <3>1. msgs \in Seq(TurnMessages')
      BY <1>3, <2>5
    <3>2. Append(msgs, message) \in Seq(TurnMessages')
      BY <2>10, <3>1, AppendsAreSequences
    <3> QED
      BY <3>2
  <2>12. t \in TurnGraphs' /\ t.msgs = more /\ t.pending = calls
    <3>1. g \in TurnGraphs'
      BY <1>4, <2>6
    <3>2. t = [g EXCEPT !.msgs = more, !.pending = calls]
      BY <1>4, <2>11
    <3> HIDE DEF t
    <3> QED
      BY <3>1, <3>2, <2>9 DEF TurnGraphs
  <2> HIDE DEF t
  <2>13. turn' = [turn EXCEPT !.at = After(t), !.graph = t, !.written = FALSE]
    BY <2>1 DEF NodeDone
  <2>14. After(t) \in {"tools", "final"}
    BY <2>9, <2>12 DEF After
  <2>15. /\ turn' \in Turns' /\ turn'.graph = t /\ turn'.req = r /\ turn'.at \in {"tools", "final"}
    BY <1>0, <2>7, <2>12, <2>13, <2>14 DEF Turns
  <2>16. disk' \in Seq(TurnMessages') /\ memory' \in Seq(TurnMessages') /\ saved' \in [Named -> TurnGraphs']
    <3>1. disk \in Seq(TurnMessages') /\ memory' \in Seq(TurnMessages')
      BY <1>0, <1>2, <2>5
    <3>2. disk' \in Seq(TurnMessages')
      BY <2>1, <2>10, <3>1, SaveKeeps
    <3> QED
      BY <1>0, <1>2, <2>6, <3>1, <3>2
  <2>17. TurnTypeInv'
    BY <1>0, <1>2, <2>2, <2>3, <2>15, <2>16 DEF TurnTypeInv, Ran, Staff
  <2>18. Ids(more, "result") \subseteq MadeCalls
    <3> SUFFICES ASSUME NEW j \in DOMAIN more, more[j].kind = "result" PROVE more[j].ids \subseteq MadeCalls
      BY DEF Ids
    <3>1. j \in 1..(Len(msgs) + 1) /\ Len(msgs) \in Nat
      BY <1>3, <2>11
    <3>2. j # Len(msgs) + 1
      BY <1>3, <2>10, <2>11
    <3>3. more[j] = msgs[j] /\ msgs[j] \in TurnMessages
      BY <1>3, <2>11, <3>1, <3>2
    <3> QED
      BY <3>3 DEF TurnMessages
  <2>19. PendingSound(r, t)
    BY <2>8, <2>9, <2>12, <2>18 DEF PendingSound
  <2>20. PendingInv'
    BY ZenonT(40), <1>0, <1>2, <2>9, <2>12, <2>15, <2>19 DEF PendingInv, PendingSound, At
  <2>21. \A c : MayRun(c)' <=> MayRun(c)
    BY <1>2 DEF MayRun
  <2>22. \A i \in DOMAIN calls : MayRun(calls[i])
    BY <1>0, <2>8, <2>9, TurnShape DEF MayRun, TurnTypeInv
  <2>23. \A c \in MadeCalls' : Times(runs, c) <= 1 + Times(broken, c)
    <3> SUFFICES ASSUME NEW c PROVE c \in MadeCalls \/ Times(runs, c) = 0
      BY <1>0, TurnShape DEF RunsInv
    <3> QED
      BY <1>0, TurnShape DEF TurnTypeInv
  <2>24. RunsInv'
    BY <1>0, <1>2, <2>12, <2>15, <2>21, <2>22, <2>23 DEF RunsInv, InGraph
  <2> QED
    BY <2>17, <2>20, <2>24 DEF TurnInv
<1> QED
  BY <1>5, <1>6

\* In the graph: what the steps below start from.
LEMMA GraphShape ==
  ASSUME TurnInv, InGraph
  PROVE  /\ turn \in Turns /\ turn.req \in TurnRequests /\ turn.graph \in TurnGraphs /\ turn # IdleTurn
         /\ disk \in Seq(TurnMessages) /\ memory \in Seq(TurnMessages) /\ saved \in [Named -> TurnGraphs]
         /\ TurnTypeInv /\ PendingInv /\ RunsInv /\ PendingSound(turn.req, turn.graph)
         /\ runs \in [BagToSet(runs) -> Nat] /\ broken \in [BagToSet(broken) -> Nat]
         /\ Ran \subseteq MadeCalls
<1>1. turn \in Turns /\ TurnTypeInv /\ turn # IdleTurn
  BY TurnShape DEF TurnInv, InGraph
<1> QED
  BY <1>1 DEF TurnInv, TurnTypeInv, PendingInv, Turns, Ran

LEMMA HeadIsFirst ==
  ASSUME NEW S, NEW s \in Seq(S), s # <<>>
  PROVE  /\ 1 \in DOMAIN s /\ Head(s) = s[1] /\ Head(s) \in S /\ Tail(s) \in Seq(S)
         /\ \A i \in DOMAIN Tail(s) : i + 1 \in DOMAIN s /\ Tail(s)[i] = s[i + 1]
OBVIOUS

LEMMA RunToolKeeps == ASSUME TurnInv, RunTool PROVE TurnInv'
<1> DEFINE h == Head(turn.graph.pending)
           g == turn.graph
           r == turn.req
<1>1. /\ turn.at = "tools" /\ turn' = [turn EXCEPT !.at = "ran"]
      /\ UNCHANGED <<setting, disk, memory, saved, decisions, broken>>
      /\ runs' = IF Checkpointed(r) THEN runs (+) SetToBag({h}) ELSE runs
  BY DEF RunTool, At, TurnGoes
<1>2. InGraph
  BY <1>1 DEF InGraph
<1>3. g.pending # <<>> /\ g.pending \in Seq(MadeCalls)
  BY <1>1, <1>2, GraphShape DEF PendingInv, At, TurnGraphs
<1>4. h = g.pending[1] /\ h \in MadeCalls /\ 1 \in DOMAIN g.pending
  BY <1>3, HeadIsFirst
<1>5. MayRun(h) /\ h[1] = r
  BY <1>1, <1>2, <1>4, GraphShape DEF RunsInv, PendingSound, At
<1>6. /\ turn' \in Turns /\ turn'.graph = g /\ turn'.req = r /\ turn'.at = "ran" /\ turn' # IdleTurn
  BY <1>1, <1>2, GraphShape DEF Turns, IdleTurn
<1> HIDE DEF h, g, r
<1>7. CASE ~Checkpointed(r)
  <2>1. runs' = runs
    BY <1>1, <1>7
  <2>2. InGraph'
    BY <1>6 DEF InGraph
  <2>3. \A i \in DOMAIN g.pending : MayRun(g.pending[i])
    BY <1>1, <1>2, GraphShape DEF RunsInv, g, At
  <2>4. PendingSound(r, g)
    BY <1>2, GraphShape DEF r, g
  <2> QED
    BY <1>1, <1>2, <1>3, <1>6, <2>1, <2>2, <2>3, <2>4, GraphShape, WithinGraph DEF r
<1>8. CASE Checkpointed(r)
  <2>1. runs' = runs (+) SetToBag({h})
    BY <1>1, <1>8
  <2>2. /\ runs' \in [BagToSet(runs') -> Nat] /\ BagToSet(runs') = BagToSet(runs) \cup {h}
        /\ \A c : Times(runs, c) \in Nat
        /\ Times(runs', h) = Times(runs, h) + 1 /\ \A c : c # h => Times(runs', c) = Times(runs, c)
    <3>1. runs \in [BagToSet(runs) -> Nat]
      BY <1>2, GraphShape
    <3>2. /\ runs' \in [BagToSet(runs') -> Nat] /\ BagToSet(runs') = BagToSet(runs) \cup {h}
          /\ \A c : Times(runs, c) \in Nat
          /\ \A c \in {h} : Times(runs', c) = Times(runs, c) + 1
          /\ \A c : c \notin {h} => Times(runs', c) = Times(runs, c)
      BY ONLY <2>1, <3>1, BagGrows
    <3> QED
      BY ONLY <3>2
  <2>3. TurnMessages' = TurnMessages /\ MadeCalls' = MadeCalls /\ TurnGraphs' = TurnGraphs /\ Turns' = Turns
    BY <1>1 DEF TurnMessages, MadeCalls, TurnGraphs, Turns
  <2>4. TurnTypeInv'
    BY <1>1, <1>2, <1>4, <1>6, <1>8, <2>2, <2>3, GraphShape DEF TurnTypeInv, Ran, Staff, Checkpointed
  <2>5. PendingInv'
    <3>1. PendingSound(r, g) /\ \A q \in Named : PendingSound(q, saved[q])
      BY <1>2, GraphShape DEF r, g, PendingInv
    <3> QED
      BY <1>1, <1>3, <1>6, <3>1 DEF PendingInv, PendingSound, At
  <2>6. ASSUME NEW c \in MadeCalls PROVE Times(runs', c) <= 1 + Times(broken', c)
    <3>1. Times(runs, c) <= 1 + Times(broken, c) /\ Times(broken, c) \in Nat /\ Times(broken, c) = Times(broken', c)
      BY <1>1, <1>2, GraphShape, TurnShape DEF RunsInv
    <3> QED
      BY <1>5, <2>2, <3>1 DEF MayRun
  <2>7. \A c : c # h /\ MayRun(c) => Times(runs', c) <= Times(broken', c)
    BY <1>1, <2>2 DEF MayRun
  <2>8. ASSUME NEW i \in DOMAIN g.pending, i # 1
        PROVE  Times(runs', g.pending[i]) <= Times(broken', g.pending[i])
    <3>1. g.pending[i] # h /\ MayRun(g.pending[i])
      BY <1>1, <1>2, <1>4, <2>8, GraphShape DEF RunsInv, PendingSound, g, At
    <3> QED
      BY <2>7, <3>1
  <2>9. ASSUME NEW q \in Named, q # r, NEW i \in DOMAIN saved[q].pending
        PROVE  Times(runs', saved[q].pending[i]) <= Times(broken', saved[q].pending[i])
    <3>1. saved[q].pending[i][1] = q
      BY <1>2, GraphShape DEF PendingInv, PendingSound
    <3>2. MayRun(saved[q].pending[i])
      BY <1>2, <2>9, GraphShape DEF RunsInv, r
    <3> QED
      BY <1>5, <2>7, <2>9, <3>1, <3>2
  <2>10. RunsInv'
    BY <1>1, <1>6, <2>3, <2>6, <2>8, <2>9 DEF RunsInv, MayRun, At, InGraph
  <2> QED
    BY <2>4, <2>5, <2>10 DEF TurnInv
<1> QED
  BY <1>7, <1>8

\* A result, or the warning in its place, takes the first call off the list.
LEMMA AnswerKeeps == ASSUME TurnInv, SaveResult \/ RefuseCall PROVE TurnInv'
<1> DEFINE g == turn.graph
           h == Head(g.pending)
           t == Answered(g)
<1>1. /\ turn.at \in {"tools", "ran"} /\ NodeDone(t) /\ Save(Result(h))
      /\ UNCHANGED <<setting, memory, saved, decisions, runs, broken>>
  BY DEF SaveResult, RefuseCall, SaveWarning, At
<1>2. InGraph
  BY <1>1 DEF InGraph
<1>3. g.pending # <<>> /\ g.pending \in Seq(MadeCalls) /\ g \in TurnGraphs /\ g.msgs \in Seq(TurnMessages)
  BY <1>1, <1>2, GraphShape DEF PendingInv, At, TurnGraphs
<1>4. /\ h = g.pending[1] /\ h \in MadeCalls /\ 1 \in DOMAIN g.pending /\ Tail(g.pending) \in Seq(MadeCalls)
      /\ \A i \in DOMAIN Tail(g.pending) : /\ i + 1 \in DOMAIN g.pending /\ i \in Nat /\ i > 0
                                           /\ Tail(g.pending)[i] = g.pending[i + 1]
  BY <1>3, HeadIsFirst
<1>5. Result(h) \in TurnMessages
  BY <1>4 DEF Result, TurnMessages, MessageKinds, MadeCalls
<1>6. Append(g.msgs, Result(h)) \in Seq(TurnMessages)
  BY <1>3, <1>5, AppendsAreSequences
<1>7. t \in TurnGraphs /\ t.msgs = Append(g.msgs, Result(h)) /\ t.pending = Tail(g.pending)
  <2>1. t = [g EXCEPT !.msgs = Append(g.msgs, Result(h)), !.pending = Tail(g.pending)]
    BY DEF Answered
  <2> HIDE DEF t, h, g
  <2> QED
    BY <1>3, <1>4, <1>6, <2>1 DEF TurnGraphs
<1> HIDE DEF t
<1>8. turn' = [turn EXCEPT !.at = After(t), !.graph = t, !.written = FALSE]
  BY <1>1 DEF NodeDone
<1>9. /\ After(t) \in {"final", "tools", "model"}
      /\ After(t) = "model" => t.pending = <<>>
      /\ After(t) = "tools" => t.pending # <<>>
  BY DEF After
<1>10. turn' \in Turns /\ turn'.graph = t /\ turn'.req = turn.req /\ turn'.at = After(t)
  BY <1>2, <1>7, <1>8, <1>9, GraphShape DEF Turns
<1>11. InGraph'
  BY <1>9, <1>10 DEF InGraph
<1>12. Ids(t.msgs, "result") \subseteq Ids(g.msgs, "result") \cup {h}
  BY <1>3, <1>7, ResultIsAdded
<1>13. PendingSound(turn.req, g)
  BY <1>2, GraphShape
<1> HIDE DEF h
<1>14. PendingSound(turn.req, t)
  <2>1. \A i, j \in DOMAIN t.pending : t.pending[i] = t.pending[j] => i = j
    BY <1>4, <1>7, <1>13 DEF PendingSound
  <2>2. ASSUME NEW i \in DOMAIN t.pending
        PROVE  t.pending[i][1] = turn.req /\ t.pending[i] \notin Ids(t.msgs, "result")
    <3>1. t.pending[i] = g.pending[i + 1] /\ i + 1 \in DOMAIN g.pending /\ i + 1 # 1
      BY <1>4, <1>7
    <3>2. t.pending[i] # h
      BY <1>4, <1>13, <3>1 DEF PendingSound
    <3> QED
      BY <1>12, <1>13, <3>1, <3>2 DEF PendingSound
  <2> QED
    BY <2>1, <2>2 DEF PendingSound
<1>15. \A i \in DOMAIN t.pending : MayRun(t.pending[i])
  <2> SUFFICES ASSUME NEW i \in DOMAIN t.pending PROVE MayRun(t.pending[i])
    OBVIOUS
  <2>1. t.pending[i] = g.pending[i + 1] /\ i + 1 \in DOMAIN g.pending /\ i + 1 # 1
    BY <1>4, <1>7
  <2> QED
    BY <1>2, <2>1, GraphShape DEF RunsInv
<1>16. disk' \in Seq(TurnMessages)
  BY <1>1, <1>2, <1>5, GraphShape, SaveKeeps
<1> QED
  BY <1>1, <1>2, <1>9, <1>10, <1>11, <1>14, <1>15, <1>16, GraphShape, WithinGraph

\* The checkpoint becomes the graph, or is not kept for this session.
LEMMA StoreIs ==
  ASSUME TurnInv, InGraph, StoreTurn(turn.graph)
  PROVE  /\ saved' \in [Named -> TurnGraphs]
         /\ \A r \in Named : r # turn.req => saved'[r] = saved[r]
         /\ turn.req \in Named => saved'[turn.req] = IF Staff THEN turn.graph ELSE saved[turn.req]
BY GraphShape DEF StoreTurn, Checkpoints, Checkpointed

LEMMA WriteKeeps == ASSUME TurnInv, Write PROVE TurnInv'
<1>1. /\ InGraph /\ turn' = [turn EXCEPT !.written = TRUE] /\ StoreTurn(turn.graph)
      /\ UNCHANGED <<setting, disk, memory, decisions, runs, broken>>
  BY DEF Write, ghosts
<1>2. /\ turn' \in Turns /\ turn'.graph = turn.graph /\ turn'.req = turn.req /\ turn'.at = turn.at
  BY <1>1, GraphShape DEF Turns
<1>3. /\ saved' \in [Named -> TurnGraphs]
      /\ \A r \in Named : saved'[r] \in {saved[r], None} \/ (r = turn.req /\ saved'[r] = turn'.graph)
  BY <1>1, <1>2, StoreIs
<1>4. /\ InGraph' /\ PendingSound(turn.req, turn'.graph)
      /\ turn'.at = "model" => turn'.graph.pending = <<>>
      /\ turn'.at \in {"tools", "ran"} => turn'.graph.pending # <<>>
      /\ \A i \in DOMAIN turn'.graph.pending :
           MayRun(turn'.graph.pending[i]) \/ (turn'.at = "ran" /\ i = 1)
  BY <1>1, <1>2, GraphShape DEF InGraph, PendingInv, RunsInv, At
<1> QED
  BY <1>1, <1>2, <1>3, <1>4, GraphShape, WithinGraph

\* A call that was running is broken.
Interrupts ==
  broken' = IF At("ran") /\ Checkpointed(turn.req)
            THEN broken (+) SetToBag({Head(turn.graph.pending)}) ELSE broken

\* The graph is left with its checkpoint stored.
LEMMA LeaveKeeps ==
  ASSUME TurnInv, InGraph, StoreTurn(turn.graph), UNCHANGED <<setting, disk, decisions, runs>>,
         memory' \in Seq(TurnMessages), turn' \in Turns \cup {IdleTurn}, ~InGraph',
         turn' # IdleTurn => turn'.graph = turn.graph /\ turn'.req = turn.req,
         Interrupts
  PROVE  TurnInv'
<1>1. TurnMessages' = TurnMessages /\ MadeCalls' = MadeCalls /\ TurnGraphs' = TurnGraphs /\ Turns' = Turns
  BY DEF TurnMessages, MadeCalls, TurnGraphs, Turns
<1>2. /\ broken' \in [BagToSet(broken') -> Nat]
      /\ \A c : Times(broken', c) \in Nat /\ Times(broken', c) >= Times(broken, c)
      /\ At("ran") /\ Checkpointed(turn.req) =>
           Times(broken', turn.graph.pending[1]) = Times(broken, turn.graph.pending[1]) + 1
  <2>1. CASE At("ran") /\ Checkpointed(turn.req)
    <3>1. turn.graph.pending # <<>> /\ turn.graph.pending \in Seq(MadeCalls)
      BY <2>1, GraphShape DEF PendingInv, TurnGraphs
    <3>2. PICK h : h = Head(turn.graph.pending) /\ h = turn.graph.pending[1]
      BY <3>1, HeadIsFirst
    <3>3. /\ broken' \in [BagToSet(broken') -> Nat] /\ \A c : Times(broken, c) \in Nat
          /\ Times(broken', h) = Times(broken, h) + 1 /\ \A c : c # h => Times(broken', c) = Times(broken, c)
      <4>1. broken' = broken (+) SetToBag({h})
        BY <2>1, <3>2 DEF Interrupts
      <4>2. broken \in [BagToSet(broken) -> Nat]
        BY GraphShape
      <4>3. PICK S : S = {h}
        OBVIOUS
      <4> QED
        BY <4>1, <4>2, <4>3, BagGrows
    <3>4. ASSUME NEW c PROVE Times(broken', c) \in Nat /\ Times(broken', c) >= Times(broken, c)
      <4>1. CASE c = h
        BY <3>3, <4>1
      <4>2. CASE c # h
        BY <3>3, <4>2
      <4> QED
        BY <4>1, <4>2
    <3> QED
      BY <3>2, <3>3, <3>4
  <2>2. CASE ~(At("ran") /\ Checkpointed(turn.req))
    <3>1. broken' = broken
      BY <2>2 DEF Interrupts
    <3> QED
      BY <2>2, <3>1, GraphShape, CopiesAreCounted
  <2> QED
    BY <2>1, <2>2
<1>3. TurnTypeInv'
  BY <1>1, <1>2, GraphShape, StoreIs DEF TurnTypeInv, Ran, Staff
<1>4. PendingInv'
  <2>1. \A r \in Named : PendingSound(r, saved'[r])
    BY GraphShape, StoreIs DEF PendingInv
  <2>2. turn' # IdleTurn => PendingSound(turn'.req, turn'.graph)
    BY GraphShape
  <2>3. ~(At("model") \/ At("tools") \/ At("ran"))'
    BY DEF At, InGraph
  <2> QED
    BY <2>1, <2>2, <2>3 DEF PendingInv, PendingSound
<1>t. \A c : Times(runs, c) \in Nat /\ Times(broken, c) \in Nat /\ Times(runs', c) = Times(runs, c)
  BY GraphShape, TurnShape
<1>5. ASSUME NEW c, MayRun(c) PROVE Times(runs', c) <= Times(broken', c)
  <2>1. Times(runs, c) <= Times(broken, c)
    BY <1>5 DEF MayRun
  <2> QED
    BY <1>2, <1>t, <2>1
<1>6. ASSUME NEW c \in MadeCalls PROVE Times(runs', c) <= 1 + Times(broken', c)
  <2>1. Times(runs, c) <= 1 + Times(broken, c)
    BY GraphShape DEF RunsInv
  <2> QED
    BY <1>2, <1>t, <2>1
<1>7. ASSUME NEW r \in Named, NEW i \in DOMAIN saved'[r].pending
      PROVE  Times(runs', saved'[r].pending[i]) <= Times(broken', saved'[r].pending[i])
  <2>1. CASE r # turn.req
    <3>1. saved'[r] = saved[r] /\ MayRun(saved[r].pending[i])
      BY <1>7, <2>1, GraphShape, StoreIs DEF RunsInv
    <3> QED
      BY <1>5, <3>1
  <2>2. CASE r = turn.req /\ ~Staff
    <3>1. Ran = {}
      BY <2>2, GraphShape DEF TurnTypeInv
    <3>2. Times(runs', saved'[r].pending[i]) = 0
      BY <1>t, <3>1, GraphShape, TurnShape
    <3> QED
      BY <1>2, <3>2
  <2>3. CASE r = turn.req /\ Staff
    <3>1. saved'[r] = turn.graph
      BY <2>3, StoreIs
    <3> DEFINE c == turn.graph.pending[i]
    <3>2. MayRun(c) \/ (At("ran") /\ i = 1)
      BY <1>7, <3>1, GraphShape DEF RunsInv
    <3>3. CASE MayRun(c)
      BY <1>5, <3>1, <3>3
    <3>4. CASE At("ran") /\ i = 1
      <4>1. Times(broken', c) = Times(broken, c) + 1
        BY <1>2, <2>3, <3>4 DEF Checkpointed
      <4>2. c \in MadeCalls
        BY <1>7, <3>1, GraphShape DEF TurnGraphs
      <4>3. Times(runs, c) <= 1 + Times(broken, c) /\ Times(broken, c) \in Nat
        BY <4>2, GraphShape, TurnShape DEF RunsInv
      <4> QED
        BY <3>1, <4>1, <4>3
    <3> QED
      BY <3>2, <3>3, <3>4
  <2> QED
    BY <2>1, <2>2, <2>3
<1>8. RunsInv'
  BY <1>1, <1>6, <1>7 DEF RunsInv, MayRun
<1> QED
  BY <1>3, <1>4, <1>8 DEF TurnInv

LEMMA FinishKeeps == ASSUME TurnInv, Finish PROVE TurnInv'
<1>1. /\ turn.at = "final" /\ StoreTurn(turn.graph) /\ turn' = [turn EXCEPT !.at = "persist"]
      /\ UNCHANGED <<setting, disk, decisions, runs, broken>>
      /\ memory' \in {disk, memory, memory \o NewMessages}
  BY DEF Finish, At, TurnGoes, ghosts
<1>2. InGraph /\ ~At("ran")
  BY <1>1 DEF InGraph, At
<1>3. turn' \in Turns /\ turn'.graph = turn.graph /\ turn'.req = turn.req /\ turn'.at = "persist"
  BY <1>1, <1>2, GraphShape DEF Turns
<1>4. ~InGraph'
  BY <1>3 DEF InGraph
<1>5. NewMessages \in Seq(TurnMessages)
  <2>1. PICK s \in Seq(TurnMessages) : s = turn.graph.msgs
    BY <1>2, GraphShape DEF TurnGraphs
  <2>2. PICK n \in Nat : n = Len(memory) + 1 /\ n > 0
    BY <1>2, GraphShape
  <2> QED
    BY <2>1, <2>2, CutsAreSequences DEF NewMessages
<1>6. memory' \in Seq(TurnMessages)
  <2>1. PICK s \in Seq(TurnMessages) : s = NewMessages
    BY <1>5
  <2>2. memory \o s \in Seq(TurnMessages)
    BY <1>2, GraphShape
  <2> QED
    BY <1>1, <1>2, <2>1, <2>2, GraphShape
<1> QED
  BY <1>1, <1>2, <1>3, <1>4, <1>6, LeaveKeeps DEF Interrupts

LEMMA AfterwardsKeeps == ASSUME TurnInv, Persist \/ Cleanup PROVE TurnInv'
<1>0. /\ turn \in Turns /\ disk \in Seq(TurnMessages) /\ memory \in Seq(TurnMessages)
      /\ saved \in [Named -> TurnGraphs] /\ turn.at \in {"persist", "cleanup"} /\ turn # IdleTurn
  <2>1. turn.at \in {"persist", "cleanup"}
    BY DEF Persist, Cleanup, At
  <2> QED
    BY <2>1, TurnShape DEF TurnInv, TurnTypeInv, IdleTurn
<1>1. /\ UNCHANGED <<setting, decisions, runs, broken>> /\ saved' \in {saved, Forgotten}
      /\ \E place \in {"cleanup", "complete"} : turn' = [turn EXCEPT !.at = place]
  BY DEF Persist, Cleanup, TurnGoes, ghosts
<1>2. /\ turn' \in Turns /\ turn'.graph = turn.graph /\ turn'.req = turn.req /\ turn'.at \in {"cleanup", "complete"}
  BY <1>0, <1>1 DEF Turns
<1>3. ~InGraph /\ ~InGraph'
  BY <1>0, <1>2 DEF InGraph
<1>4. saved' \in [Named -> TurnGraphs] /\ \A r \in Named : saved'[r] \in {saved[r], None}
  BY <1>0, <1>1, NoneIsSound DEF Forgotten
<1>5. AnswerMessage(turn.req) \in TurnMessages
  BY <1>0 DEF AnswerMessage, TurnMessages, MessageKinds, Turns
<1>6. disk' \in Seq(TurnMessages) /\ memory' \in Seq(TurnMessages)
  <2>1. CASE Persist
    <3>1. Save(AnswerMessage(turn.req)) /\ memory' = Append(memory, AnswerMessage(turn.req))
      BY <2>1 DEF Persist
    <3> QED
      BY <1>0, <1>5, <3>1, SaveKeeps, AppendsAreSequences
  <2>2. CASE Cleanup
    BY <1>0, <2>2 DEF Cleanup
  <2> QED
    BY <2>1, <2>2
<1> QED
  BY <1>0, <1>1, <1>2, <1>3, <1>4, <1>6, OutOfGraph

\* What a request that is done had run is counted no more.
LEMMA TurnCompleteKeeps == ASSUME TurnInv, Complete PROVE TurnInv'
<1>1. /\ turn.at = "complete" /\ turn' = IdleTurn /\ runs' = Others(runs) /\ broken' = Others(broken)
      /\ UNCHANGED <<setting, disk, memory, saved, decisions>>
  BY DEF Complete, At
<1>2. TurnMessages' = TurnMessages /\ MadeCalls' = MadeCalls /\ TurnGraphs' = TurnGraphs /\ Turns' = Turns
  BY <1>1 DEF TurnMessages, MadeCalls, TurnGraphs, Turns
<1>3. TurnTypeInv /\ PendingInv /\ RunsInv /\ ~InGraph
  BY <1>1 DEF TurnInv, InGraph
<1>4. /\ runs \in [BagToSet(runs) -> Nat] /\ broken \in [BagToSet(broken) -> Nat]
      /\ \A c : Times(runs, c) \in Nat /\ Times(broken, c) \in Nat
  BY <1>3, TurnShape DEF TurnTypeInv, Ran
<1>5. /\ runs' \in [BagToSet(runs') -> Nat] /\ BagToSet(runs') \subseteq BagToSet(runs)
      /\ \A c : Times(runs', c) = IF c[1] = turn.req THEN 0 ELSE Times(runs, c)
  BY <1>1, <1>4, OthersStay
<1>6. /\ broken' \in [BagToSet(broken') -> Nat]
      /\ \A c : Times(broken', c) = IF c[1] = turn.req THEN 0 ELSE Times(broken, c)
  BY <1>1, <1>4, OthersStay
<1>7. TurnTypeInv'
  BY <1>1, <1>2, <1>3, <1>5, <1>6 DEF TurnTypeInv, Ran, Staff
<1>8. PendingInv'
  BY <1>1, <1>3 DEF PendingInv, PendingSound, At, IdleTurn
<1>9. ASSUME NEW c, MayRun(c) PROVE Times(runs', c) <= Times(broken', c)
  BY <1>4, <1>5, <1>6, <1>9 DEF MayRun
<1>10. ASSUME NEW c \in MadeCalls PROVE Times(runs', c) <= 1 + Times(broken', c)
  <2>1. Times(runs, c) <= 1 + Times(broken, c)
    BY <1>3 DEF RunsInv
  <2> QED
    BY <1>4, <1>5, <1>6, <2>1
<1>11. ASSUME NEW r \in Named, NEW i \in DOMAIN saved[r].pending PROVE MayRun(saved[r].pending[i])
  BY <1>3 DEF RunsInv
<1>12. ~InGraph'
  BY <1>1 DEF InGraph, IdleTurn
<1>13. RunsInv'
  BY <1>1, <1>2, <1>9, <1>10, <1>11, <1>12 DEF RunsInv, MayRun
<1> QED
  BY <1>7, <1>8, <1>13 DEF TurnInv

LEMMA RaiseKeeps == ASSUME TurnInv, Raise PROVE TurnInv'
<1>1. /\ turn # IdleTurn /\ turn' = IdleTurn /\ UNCHANGED <<setting, disk, memory, decisions, runs>>
      /\ Interrupts
  BY DEF Raise, Fault, Interrupts
<1>2. ~InGraph' /\ IdleTurn \in Turns \cup {IdleTurn}
  BY <1>1 DEF InGraph, IdleTurn
<1>3. TurnTypeInv
  BY DEF TurnInv
<1>4. CASE InGraph
  <2>1. StoreTurn(turn.graph)
    <3>1. ~At("persist")
      BY <1>4 DEF InGraph, At
    <3> QED
      BY <1>4, <3>1 DEF Raise
  <2> QED
    BY <1>1, <1>2, <1>4, <2>1, GraphShape, LeaveKeeps
<1>5. CASE ~InGraph
  <2>1. broken' = broken /\ saved' \in {saved, Forgotten}
    <3>1. ~At("ran")
      BY <1>5 DEF InGraph, At
    <3> QED
      BY <1>1, <1>5, <3>1 DEF Raise, Interrupts
  <2>2. saved' \in [Named -> TurnGraphs] /\ \A r \in Named : saved'[r] \in {saved[r], None}
    BY <1>3, <2>1, NoneIsSound DEF Forgotten, TurnTypeInv
  <2>3. disk' \in Seq(TurnMessages) /\ memory' \in Seq(TurnMessages)
    BY <1>1, <1>3 DEF TurnTypeInv
  <2> QED
    BY <1>1, <1>2, <1>5, <2>1, <2>2, <2>3, OutOfGraph
<1> QED
  BY <1>4, <1>5

\* What ran and is not in the checkpoint may run again.
LEMMA CrashKeeps == ASSUME TurnInv, Crash PROVE TurnInv'
<1> DEFINE lost == {c \in Ran : c[1] = turn.req /\ c \notin Ids(saved[turn.req].msgs, "result")}
<1>1. /\ turn # IdleTurn /\ turn' = IdleTurn /\ memory' = disk /\ UNCHANGED <<setting, disk, saved, decisions, runs>>
  BY DEF Crash, Fault
<1>2. broken' = IF Checkpointed(turn.req) THEN broken (+) SetToBag(lost) ELSE broken
  BY DEF Crash
<1>3. TurnMessages' = TurnMessages /\ MadeCalls' = MadeCalls /\ TurnGraphs' = TurnGraphs /\ Turns' = Turns
  BY <1>1 DEF TurnMessages, MadeCalls, TurnGraphs, Turns
<1>4. TurnTypeInv /\ PendingInv /\ RunsInv
  BY DEF TurnInv
<1>5. /\ runs \in [BagToSet(runs) -> Nat] /\ broken \in [BagToSet(broken) -> Nat]
      /\ \A c : /\ Times(runs, c) \in Nat /\ Times(broken, c) \in Nat
                /\ c \notin Ran => Times(runs, c) = 0
  BY <1>4, TurnShape DEF TurnTypeInv, Ran
<1> HIDE DEF lost
<1>6. /\ broken' \in [BagToSet(broken') -> Nat]
      /\ \A c : Times(broken', c) \in Nat /\ Times(broken', c) >= Times(broken, c)
      /\ Checkpointed(turn.req) => \A c \in lost : Times(broken', c) = Times(broken, c) + 1
  <2>1. CASE Checkpointed(turn.req)
    <3>1. broken' = broken (+) SetToBag(lost)
      BY <1>2, <2>1
    <3>2. /\ broken' \in [BagToSet(broken') -> Nat]
          /\ \A c \in lost : Times(broken', c) = Times(broken, c) + 1
          /\ \A c : c \notin lost => Times(broken', c) = Times(broken, c)
      BY <1>5, <3>1, BagGrows
    <3>3. ASSUME NEW c PROVE Times(broken', c) \in Nat /\ Times(broken', c) >= Times(broken, c)
      <4>1. CASE c \in lost
        BY <1>5, <3>2, <4>1
      <4>2. CASE c \notin lost
        BY <1>5, <3>2, <4>2
      <4> QED
        BY <4>1, <4>2
    <3> QED
      BY <3>2, <3>3
  <2>2. CASE ~Checkpointed(turn.req)
    <3>1. broken' = broken
      BY <1>2, <2>2
    <3> QED
      BY <1>5, <2>2, <3>1
  <2> QED
    BY <2>1, <2>2
<1>7. TurnTypeInv'
  BY <1>1, <1>3, <1>4, <1>6 DEF TurnTypeInv, Ran, Staff
<1>8. PendingInv'
  BY <1>1, <1>4 DEF PendingInv, PendingSound, At, IdleTurn
<1>9. ASSUME NEW c, Times(runs, c) <= Times(broken, c) PROVE Times(runs', c) <= Times(broken', c)
  BY <1>1, <1>5, <1>6, <1>9
<1>10. ASSUME NEW c \in MadeCalls PROVE Times(runs', c) <= 1 + Times(broken', c)
  <2>1. Times(runs, c) <= 1 + Times(broken, c)
    BY <1>4 DEF RunsInv
  <2> QED
    BY <1>1, <1>5, <1>6, <2>1
<1>11. ASSUME NEW r \in Named, NEW i \in DOMAIN saved[r].pending
       PROVE  Times(runs', saved[r].pending[i]) <= Times(broken', saved[r].pending[i])
  <2> DEFINE c == saved[r].pending[i]
  <2>1. CASE MayRun(c)
    BY <1>9, <2>1 DEF MayRun
  <2>2. CASE c \notin Ran
    BY <1>1, <1>5, <1>6, <2>2
  <2>3. CASE ~MayRun(c) /\ c \in Ran
    <3>1. turn.req = r
      BY <1>4, <1>11, <2>3 DEF RunsInv
    <3>2. Checkpointed(r)
      BY <1>4, <1>11, <2>3 DEF TurnTypeInv, Checkpointed
    <3>3. c \in lost
      BY <1>4, <1>11, <2>3, <3>1 DEF lost, PendingInv, PendingSound
    <3>4. Times(broken', c) = Times(broken, c) + 1
      BY <1>6, <3>1, <3>2, <3>3
    <3>5. c \in MadeCalls
      BY <1>4, <2>3 DEF TurnTypeInv
    <3>6. Times(runs, c) <= 1 + Times(broken, c)
      BY <1>4, <3>5 DEF RunsInv
    <3> HIDE DEF c
    <3> QED
      BY <1>1, <1>5, <3>4, <3>6 DEF c
  <2> QED
    BY <2>1, <2>2, <2>3
<1>12. ~InGraph'
  BY <1>1 DEF InGraph, IdleTurn
<1>13. RunsInv'
  BY <1>1, <1>3, <1>10, <1>11, <1>12 DEF RunsInv, MayRun
<1> QED
  BY <1>7, <1>8, <1>13 DEF TurnInv

LEMMA ClearKeeps == ASSUME TurnInv, Clear PROVE TurnInv'
<1>1. /\ turn' = turn /\ disk' = <<>> /\ memory' = <<>> /\ UNCHANGED <<setting, decisions, runs, broken>>
      /\ saved' \in {saved, Forgotten}
  BY DEF Clear, ghosts
<1>2. TurnTypeInv /\ PendingInv /\ RunsInv
  BY DEF TurnInv
<1>3. saved' \in [Named -> TurnGraphs] /\ \A r \in Named : saved'[r] \in {saved[r], None}
  BY <1>1, <1>2, NoneIsSound DEF Forgotten, TurnTypeInv
<1>4. <<>> \in Seq(TurnMessages)
  OBVIOUS
<1>5. CASE InGraph
  <2>1. /\ InGraph' /\ turn' \in Turns /\ turn \in Turns /\ PendingSound(turn.req, turn'.graph)
    BY <1>1, <1>5, GraphShape DEF InGraph
  <2>2. /\ turn'.at = "model" => turn'.graph.pending = <<>>
        /\ turn'.at \in {"tools", "ran"} => turn'.graph.pending # <<>>
        /\ \A i \in DOMAIN turn'.graph.pending :
             MayRun(turn'.graph.pending[i]) \/ (turn'.at = "ran" /\ i = 1)
    BY <1>1, <1>2, <1>5 DEF PendingInv, RunsInv, At
  <2> QED
    BY <1>1, <1>3, <1>4, <2>1, <2>2, WithinGraph
<1>6. CASE ~InGraph
  <2>1. ~InGraph' /\ turn' \in Turns \cup {IdleTurn}
    BY <1>1, <1>2, <1>6 DEF InGraph, TurnTypeInv
  <2> QED
    BY <1>1, <1>3, <1>4, <1>6, <2>1, OutOfGraph
<1> QED
  BY <1>5, <1>6

LEMMA TurnInitial == TurnInit => TurnInv
<1> SUFFICES ASSUME TurnInit PROVE TurnInv
  OBVIOUS
<1>1. /\ disk = <<>> /\ memory = <<>> /\ saved = [r \in Named |-> None] /\ turn = IdleTurn
      /\ decisions = [r \in TurnRequests |-> 0] /\ runs = EmptyBag /\ broken = EmptyBag
  BY DEF TurnInit
<1>2. /\ runs \in [BagToSet(runs) -> Nat] /\ BagToSet(runs) = {} /\ broken \in [BagToSet(broken) -> Nat]
  BY <1>1 DEF EmptyBag, SetToBag, BagToSet
<1>3. \A c : Times(runs, c) = 0 /\ Times(broken, c) \in Nat
  BY <1>2, CopiesAreCounted
<1>4. ~InGraph /\ ~At("model") /\ ~At("tools") /\ ~At("ran")
  BY <1>1 DEF InGraph, At, IdleTurn
<1>5. TurnTypeInv
  BY <1>1, <1>2, NoneIsSound DEF TurnTypeInv, Ran
<1>6. PendingInv
  BY <1>1, <1>4, NoneIsSound DEF PendingInv
<1>7. RunsInv
  BY <1>3, <1>4 DEF RunsInv, MayRun
<1> QED
  BY <1>5, <1>6, <1>7 DEF TurnInv

LEMMA TurnStepKeeps == TurnInv /\ [TurnNext]_turnVars => TurnInv'
<1> SUFFICES ASSUME TurnInv, [TurnNext]_turnVars PROVE TurnInv'
  OBVIOUS
<1>1. ASSUME NEW r \in TurnRequests, Begin(r) PROVE TurnInv'
  BY <1>1, BeginKeeps
<1>2. CASE TurnStep
  <2>1. ASSUME NEW k \in Responses, Model(k) PROVE TurnInv'
    BY <2>1, ModelKeeps, TurnAssumption
  <2> QED
    BY <1>2, <2>1, PrepareKeeps, EnterKeeps, GiveUpKeeps, RunToolKeeps, AnswerKeeps, FinishKeeps,
       AfterwardsKeeps, TurnCompleteKeeps DEF TurnStep
<1>3. CASE Write \/ Raise \/ Crash \/ Clear
  BY <1>3, WriteKeeps, RaiseKeeps, CrashKeeps, ClearKeeps
<1>4. CASE UNCHANGED turnVars
  <2>1. UNCHANGED <<setting, disk, memory, saved, turn, decisions, runs, broken>>
    BY <1>4 DEF turnVars
  <2>2. /\ TurnTypeInv /\ PendingInv /\ RunsInv
        /\ MadeCalls' = MadeCalls /\ TurnMessages' = TurnMessages /\ TurnGraphs' = TurnGraphs /\ Turns' = Turns
    BY <2>1 DEF TurnInv, MadeCalls, TurnMessages, TurnGraphs, Turns
  <2>3. TurnTypeInv'
    BY <2>1, <2>2 DEF TurnTypeInv, Ran, Staff
  <2>4. PendingInv'
    BY <2>1, <2>2 DEF PendingInv, PendingSound, At
  <2>5. RunsInv'
    BY <2>1, <2>2 DEF RunsInv, MayRun, InGraph, At
  <2> QED
    BY <2>3, <2>4, <2>5 DEF TurnInv
<1> QED
  BY <1>1, <1>2, <1>3, <1>4 DEF TurnNext

\* A tool call of a request that carries its id runs again only if a run of it was
\* interrupted before its checkpoint, whatever is retried, cleared or killed.
THEOREM FinishedToolsAlwaysStay == TurnSpec => []FinishedToolsStay
<1>1. TurnInv => FinishedToolsStay
  BY DEF TurnInv, TurnTypeInv, RunsInv, FinishedToolsStay
<1>2. TurnInv /\ [TurnNext]_turnVars => TurnInv'
  BY TurnStepKeeps
<1> QED
  BY <1>1, <1>2, TurnInitial, PTL DEF TurnSpec

=============================================================================
