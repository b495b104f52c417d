CONSTANTS
  Requests = {r1, r2}
  Local = local
  Client = client
  Here = here
  Mirror = mirror
  K1 = k1
  K2 = k2
  S1 = s1
  Repos = {local, client}
  Places = {here, mirror}
  Pkgs = {k1, k2}
  Settings = {s1, s2}
  Operations <- MCOperations
  FirstFiles <- MCFirstFiles
  Faults = {"network", "write", "delete", "crash"}
  MaxStarts = 2
  MaxFaults = 1
  None = None
  Absent = Absent
  Torn = Torn
SPECIFICATION Spec
INVARIANTS TypeOK CacheWasServed ListedHasArchive PublishedStaysListed ReleaseCurrent
PROPERTIES ConfKeepsSettings RequestsEnd
CHECK_DEADLOCK FALSE
