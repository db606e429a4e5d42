SPECIFICATION PrSpec
CONSTANTS
  f1 = f1
  f2 = f2
  f3 = f3
  f4 = f4
  f5 = f5
  f6 = f6
  bad = bad
  NoFile = NoFile
  Url = {"u"}
  Filename = {"i"}
  Fix = {f1, f2, f3, f4, f5, f6, bad}
  Judged = {"p", "q"}
  Path = {"a", "b", "c", "ci"}
  Allowed = {"a", "b", "c"}
  Names <- MCNames
  Targets <- MCTargets
  Creates <- MCCreates
  Deletes <- MCDeletes
  Checkout = {"a", "c"}
  Added <- MCAdded
  Illegible = {bad}
  Undecodable = {"c"}
  Cited <- MCCited
  Seen <- MCSeen
  MaxFiles = 2
  MaxAdded = 3
  MaxFixes = 2
INVARIANTS PublishedIsListed WithinCaps
CHECK_DEADLOCK FALSE
