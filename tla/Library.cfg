SPECIFICATION LibrarySpec
CONSTANTS
  Characters <- MCCharacters
  Texts <- MCTexts
  Documents <- MCDocuments
  MaxLines = 4
  ChunkSize = 5
  ChunkOverlap = 2
  ParentSize = 9
  HeadingMax = 3
  Pieces = {s1, s2}
  Versions = {1}
  Audiences = {"public", "internal"}
  Public = "public"
  MaxIndexFaults = 2
  Passages = {1, 2, 3}
  Siblings = {1, 3}
  Widening = 1
  SemanticTenths = 7
  RankBase = 60
  NumQueries = 2
  RecallLimit = 2
  Pool = 2
  TopK = 1
  Cosines <- MCCosines
  Strengths <- MCStrengths
  Reading = 1
  AnalyticsNodes = 3
  MaxRuns = 2
  MaxObservations = 2
  MaxMishaps = 1
  x = x
  Drills = {a}
  Releases = {x}
  Orderly = {a}
  ReleaseGeneration <- MCReleaseGeneration
  MaxGeneration = 7
  MaxDrillFaults = 1
INVARIANT NothingIsLost
INVARIANT PassedReportIsRolledBack
INVARIANT ValidatedCopyIsWhole
 
INVARIANT AgreedIsAnswered
INVARIANT WindowShowsRuns
CHECK_DEADLOCK FALSE
