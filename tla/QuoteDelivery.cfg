SPECIFICATION Spec
CONSTANTS
  Quotes = {q1}
  q1 = q1
  MaxVersion = 2
  MaxApprovals = 1
  MaxConfigVersion = 2
  Workers = {w1}
  w1 = w1
  NoOwner = NoOwner
  Orphan = Orphan
  NoDelivery = NoDelivery
  Backend = "sqlite"
  MaxAttempts = 1
  MaxFaults = 0
  MaxRetries = 0
INVARIANT TakenWasApproved
 
