SPECIFICATION FairSpec
CONSTANTS
  t1 = t1
  t2 = t2
  t3 = t3
  daemon = daemon
  cli = cli
  None = None
  Threads = {t1, t2}
  Processes = {daemon, cli}
  ProcOf <- MCTwoProcOf
  Requests = {"dist_upgrade", "autoremove"}
  MaxServed = 1
CHECK_DEADLOCK FALSE
PROPERTIES RemovingReturns
