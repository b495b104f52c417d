CONSTANTS
  Clients = {c1, c2}
  C1 = c1
  C2 = c2
  U1 = u1
  CommandsOf <- MCCommandsOf
  Users = {u1, u2}
  Known = {u1}
  Versions = {1, 2, 3}
  Installed = 1
  Absent = Absent
  Torn = Torn
  Bad = Bad
SPECIFICATION Spec
INVARIANTS CommandsHeard
PROPERTIES BinariesWhole GroupKeepsMembers
CONSTRAINT Bound
