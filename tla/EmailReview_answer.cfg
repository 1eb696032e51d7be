SPECIFICATION ReviewSpec
CONSTANTS
  ModelReadings <- MCModelReadings
  Edits <- MCEdits
  Keys = {k1, k2}
  k1 = k1
  k2 = k2
  NoExtraction = NoExtraction
  MaxReviews = 2
  MaxQuotes = 3
  MaxChanges = 2
  MaxMarkets = 1
CHECK_DEADLOCK FALSE
PROPERTY AnsweredWithItsQuote
