SPECIFICATION FairServer
CONSTANTS
  Job <- MCJob
  Call = {c1}
  Nobody = Nobody
  Scratch = Scratch
  MaxRunning = 2
  MaxJobs = 2
INVARIANTS OneOutcomeTold OwnBindings
PROPERTIES ForgetsTheOldest EveryJobEnds
CHECK_DEADLOCK FALSE
