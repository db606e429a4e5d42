SPECIFICATION FairFetch
CONSTANTS
  t1 = t1
  t2 = t2
  t3 = t3
  Thread = {t1, t2, t3}
  Process = {"p"}
  ProcessOf <- MCOneProcess
  Nobody = Nobody
  Limit = 2
  Window = 3
  MinInterval = 1
  Budget = 2
  SocketTimeout = 2
  Reads = 1
  MaxRetries = 1
  RetryAfter = {1}
  LastStart = 1
  MaxKills = 1
  MaxFetches = 3
INVARIANTS UnwritableLedgerStillPaces
CHECK_DEADLOCK FALSE
