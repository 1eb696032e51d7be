SPECIFICATION Spec
CONSTANTS
  Deliveries = {d1}
  Workers = {w1, w2}
  d1 = d1
  w1 = w1
  w2 = w2
  NoOwner = NoOwner
  Orphan = Orphan
  NoDelivery = NoDelivery
  Backend = "mysql"
  MaxAttempts = 2
  MaxFaults = 1
  MaxRetries = 1
SYMMETRY Interchangeable
INVARIANT AttemptsWithinBudget
INVARIANT AcceptedWasTaken
 
INVARIANT CopiesNeedLostAnswers
PROPERTY FinalOutcomesKept
PROPERTY LiveClaimKept
PROPERTY ImplementsContract
