SPECIFICATION TradeDeskSpec
CONSTANTS
  Enquiries = {m1}
  Gaps = {f1}
  Senders = {s1, s2}
  NoEnquiry = NoEnquiry
  NoSender = NoSender
  Gone = Gone
  Attempts = 2
  MaxMisfortunes = 1
  MaxReadings = 2
  ModelReadings <- MCModelReadings
  Edits <- MCEdits
  Keys = {k1, k2}
  NoExtraction = NoExtraction
  MaxReviews = 2
  MaxQuotes = 3
  MaxChanges = 1
  MaxMarkets = 1
  Quotes = {q1, q2}
  MaxVersion = 2
  MaxApprovals = 3
  a = a
  b = b
  TurnRequests = {a, b}
  Named = {a}
  Kinds = {"plain", "bounded", "peer"}
  Stores = {"file", "mysql"}
  MaxIterations = 2
  Responses = {0, 2}
  WarnAfter = 3
  FuseAfter = 4
  WindowSize = 5
  Keep = 3
  MaxTurns = 1
  MaxTurnFaults = 1
  c1 = c1
  c2 = c2
  AsksFor <- MCAsksFor
  Sessions = {c1, c2}
  Skus = {a}
  Tagged = {a}
  Ttl = 1
  Window = 1
  Limit = 1
  Slow = 1
  MaxTime = 3
  MaxAsks = 2
  MaxCatalogueChanges = 1
  MaxFaults = 1
  m1 = m1
INVARIANT AskedOnceUnlessLost
 
INVARIANT OneQuotePerReview
INVARIANT ApprovedQuoteHasRecord
INVARIANT FinishedToolsStay
INVARIANT AnswersAreRecent
CHECK_DEADLOCK FALSE
