SPECIFICATION FairSpec
CONSTANTS
  t1 = t1
  t2 = t2
  Threads = {t1, t2}
  Envs = {"e1", "e2"}
  FirstEnv = "e1"
  Nothing = Nothing
  MaxCalls = 3
INVARIANTS ReplyIsMine AnsweredUnderItsEnvironment NoOrphans
PROPERTIES DeadlineHitsItsOwn EveryCallEnds
CHECK_DEADLOCK FALSE
