SPECIFICATION MeasureSpec
CONSTANTS
  KnownSeverities = {"FATAL", "HIGH"}
  KnownGaps = {"stage_degraded"}
  Severity = {"FATAL", "HIGH", "NEW"}
  Gap = {"stage_degraded", "new_gap"}
  Rule = {"r1", "r2"}
  Expected = {"r1"}
  Threshold = 1
  MaxScore = 2
  Raw <- MCRaw
  Default = 0
  MaxCrashes = 1
INVARIANTS MeasuredFromDeclared BypassIsUnflagged
PROPERTIES EvidenceNeverHides
CHECK_DEADLOCK FALSE
