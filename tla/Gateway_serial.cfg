SPECIFICATION Spec
CONSTANTS
  a = a
  b = b
  a1 = a1
  a2 = a2
  b1 = b1
  talk = talk
  Nobody = Nobody
  Gateways = {g1, g2}
  Messages = {a1, a2, b1}
  Requests = {a, b}
  Conversations = {talk}
  RequestOf <- MCRequestOf
  BodyOf <- MCBodyOf
  ConversationOf <- MCConversationOf
  MaxConcurrency = 2
  MaxFaults = 0
CHECK_DEADLOCK FALSE
INVARIANTS ConversationIsSerial
