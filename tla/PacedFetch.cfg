SPECIFICATION FairFetch
CONSTANTS
  t1 = t1
  t2 = t2
  t3 = t3
  Thread = {t1, t2, t3}
  Process = {"p", "q"}
  ProcessOf <- MCProcessOf
  Nobody = Nobody
  Limit = 2
  Window = 3
  MinInterval = 1
  Budget = 2
  SocketTimeout = 2
  Reads = 2
  MaxRetries = 2
  RetryAfter = {1}
  LastStart = 1
  MaxKills = 2
  MaxFetches = 2
INVARIANTS CapHolds BudgetHolds

PROPERTIES EveryFetchEnds
CHECK_DEADLOCK FALSE
