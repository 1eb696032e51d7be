SPECIFICATION PlatformSpec
CONSTANTS
  Items = {m1, m2}
  m1 = m1
  m2 = m2
  c = c
  Consents = {c}
  Mortal = {c}
  Workers = {w1}
  w1 = w1
  NoItem = NoItem
  NoConsent = NoConsent
  BodyOf <- MCBodyOf
  MaxAttempts = 2
  MaxVersion = 3
  MaxFaults = 1
  Servers = {p1, p2}
  Sessions = {x1, x2}
  Tokens = {t1, t2, t3}
  LockAfter = 2
  MaxFailed = 8
  MaxLapses = 1
  Calls = {r1, r2}
  Gateways = {g1, g2}
  NoGateway = NoGateway
  McpServers = {s1, s2}
  MaxEdits = 2
  MaxManagerFaults = 1
 
 
 
INVARIANT GuessesAreBounded
INVARIANT RefreshUsedOnce
 
SYMMETRY InterchangeableItems
CHECK_DEADLOCK FALSE
