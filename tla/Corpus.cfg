SPECIFICATION Spec
CONSTANTS
  d1 = d1
  d2 = d2
  Campaign = {1, 2}
  Digest = {d1, d2}
  Yields <- MCYields
  Open <- MCOpen
  MaxRuns = 4
  MaxStops = 1
INVARIANTS RecordIsReplayable MeasuredIsCommitted CountedOnce OriginIsTheFind
CHECK_DEADLOCK FALSE
