SPECIFICATION FairSpec
CONSTANTS
  Deliveries = {d1}
  Workers = {w1, w2}
  d1 = d1
  w1 = w1
  w2 = w2
  NoOwner = NoOwner
  Orphan = Orphan
  NoDelivery = NoDelivery
  Backend = "sqlite"
  MaxAttempts = 2
  MaxFaults = 0
  MaxRetries = 0
PROPERTY QueuedComesToRest
