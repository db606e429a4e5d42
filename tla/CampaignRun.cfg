SPECIFICATION Spec
CONSTANTS
  a = a
  b = b
  u = u
  Cell = {a, b, u}
  Unshaped = {u}
  CampaignName = {"me", "other"}
  Version = {"v1", "v2"}
  KnownSeverities = {"FATAL", "HIGH"}
  KnownGaps = {"stage_degraded", "diff_truncated", "tree_not_analyzed"}
  Diff <- MCDiff
  Defect <- MCDefect
  CellsOf <- MCCellsOf
  Chain <- MCChain
  Size <- MCSize
  Report <- MCReport
  Origin <- MCOrigin
  Me = "me"
  Installed = "v2"
  Expected = {"r1"}
  Threshold = 1
  ModeGap = {"tree_not_analyzed"}
  Saturation = 2
  RateDivisor = 2
  Degraded = FALSE
  Corrupt = Corrupt
  NoDiff = NoDiff
  NoReport = NoReport
  NoRecord = NoRecord
  Answer <- MCAnswerAlien
  InitialGrids <- MCGrids
  Attempts = 3
  StopAfter = 2
  MinAttempts = 2
  MaxFaults = 2
  Accumulate = FALSE
INVARIANTS VerdictsReproducible FindsAreNew CellsAreEarned SaturationHolds
  OneAnalysisPerKey RefusedRunsPublishNothing PublishedWhole
CHECK_DEADLOCK FALSE
