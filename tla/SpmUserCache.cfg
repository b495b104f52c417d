SPECIFICATION Spec
CONSTANTS
  a = a
  d = d
  n = n
  a1 = a1
  a2 = a2
  d1 = d1
  n1 = n1
  h1 = h1
  h2 = h2
  hn = hn
  x = x
  y = y
  deb = deb
  rpm = rpm
  r1 = r1
  u1 = u1
  u2 = u2
  None = None
  Requests = {r1}
  Users = {u1, u2}
  Pkgs = {a, d, n}
  Builds = {a1, a2, d1, n1}
  Hashes = {h1, h2, hn}
  Names = {x, y}
  PkgOf <- MCPkgOf
  FormatOf <- MCFormatOf
  HashOf <- MCHashOf
  ExecsOf <- MCExecsOf
  Faults = {"copy", "link", "record", "unlink", "collect", "delete", "crash"}
  MaxStarts = 5
  MaxFaults = 2
INVARIANTS TypeOK OneInstall CacheBacked
PROPERTIES LastRemovalFrees
CHECK_DEADLOCK FALSE
