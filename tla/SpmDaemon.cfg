CONSTANTS
  c1 = c1
  c2 = c2
  c3 = c3
  Conns = {c1, c2, c3}
  u1 = u1
  u2 = u2
  Uids = {u1, u2}
  w1 = w1
  w2 = w2
  Workers = {w1, w2}
  p1 = p1
  Pool = {p1}
  Loads <- MCLoads
  MaxConcurrent = 2
  RateMax = 1
  Window = 1
  MaxMessages = 1
  MayExit = TRUE
  None = None
SPECIFICATION FairSpec
INVARIANTS TypeOK CountsInFlight RateBound AnswerIsLast
PROPERTIES TasksEnd ClientsReturnUnlessListing
CHECK_DEADLOCK FALSE
