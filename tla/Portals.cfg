SPECIFICATION PortalsSpec
CONSTANTS
  c1 = c1
  c2 = c2
  r1 = r1
  r2 = r2
  r3 = r3
  s1 = s1
  Conversations = {c1, c2}
  Requests = {r1, r2, r3}
  Sockets = {s1}
  ConversationOf <- MCConversationOf
  Backends = {"local", "mysql"}
  MaxVersion <- MCMaxVersion
  Chats = {own, old}
  Legacy = {old}
  Windows = {w1, w2}
  MaxQuestions = 2
  MaxChatChanges = 2
  MaxChatFaults = 1
INVARIANT ShownIsKept
 
PROPERTY AskedIsAnswered
CHECK_DEADLOCK FALSE
