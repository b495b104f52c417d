CONSTANTS
  R = r
  A = a
  B = b
  C = c
  Cap = cap
  Deb = deb
  Rpm = rpm
  Names = {r, a, b, c, cap}
  Capabilities = {cap}
  Root = r
  Sources = {deb, rpm}
  Asks <- MCAsks
SPECIFICATION Spec
INVARIANTS CyclesAreMutual ChosenIsBest
CHECK_DEADLOCK FALSE
