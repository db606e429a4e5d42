SPECIFICATION FairSpec
CONSTANTS
  a = a
  b = b
  Cell = {a, b}
  Unshaped = {b}
  CampaignName = {"c1", "c2"}
  Version = {"v1", "v2"}
  Gate = {"gate"}
  VersionOf <- MCVersionOf
  Fallback = {"c2"}
  Diffs <- MCDiffs
  Sizes = {1}
  Replayed <- MCReplayed
  Saturation = 2
  Initial <- MCInitial
  MaxAttempts <- MCAttempts
  MaxRuns <- MCRuns
  MaxCrashes = 1
INVARIANTS FinishedIsPublished ProvenanceOnce
PROPERTIES NothingIsLost AtomicSpec MergesFinish
CHECK_DEADLOCK FALSE
