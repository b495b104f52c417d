SPECIFICATION FairSpec
CONSTANTS
  t1 = t1
  t2 = t2
  t3 = t3
  daemon = daemon
  cli = cli
  None = None
  Threads = {t1, t2, t3}
  Processes = {daemon, cli}
  ProcOf <- MCProcOf
  Requests = {"upgrade", "remove", "info", "user_remove"}
  MaxServed = 1
INVARIANTS TypeOK WriteBodyAlone NoBodyAfterPoison NoWaitCycle
CHECK_DEADLOCK FALSE
PROPERTIES EveryRequestReturns
