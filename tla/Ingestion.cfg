SPECIFICATION IngestionSpec
CONSTANTS
  rfq = rfq
  extra = extra
  p = p
  q = q
  full = full
  gaps = gaps
  NoMail = NoMail
  NoReading = NoReading
  Mails = {rfq, extra}
  Verdicts <- MCVerdicts
  Home = p
  Pollers = {p, q}
  Readings = {full, gaps}
  MaxAttempts = 2
  MaxRowVersion = 1
  MaxFaults = 1
  a = a
  Sources = {a}
  Imported = {"internal"}
  Kinds = {"pdf", "image", "text"}
  MaxGeneration = 1
  MaxEdits = 2
  MaxKnowledgeFaults = 1
INVARIANT CursorCovers
INVARIANT QuotedIsCurrent
INVARIANT SearchIsExact
PROPERTY StoredIsDecided
PROPERTY UnfinishedIsDecided
CHECK_DEADLOCK FALSE
