SPECIFICATION Spec
CONSTANTS
  early = early
  split = split
  late = late
  Entry = {early, split, late}
  Alert <- MCAlert
  Package <- MCPackage
  Base <- MCBase
  Finding = {1, 2}
  Judgment <- MCJudgment
  Diff = {"d"}
  Passes <- MCPasses
  NoDiff = NoDiff
  Everything = Everything
  Writer = {w1, w2}
  Version = {v1}
  MaxReports = 3
  MaxBreaks = 1
INVARIANTS MappingHolds VerifiedMissesNone
PROPERTIES NothingForgotten
SYMMETRY MCSymmetry
CHECK_DEADLOCK FALSE
