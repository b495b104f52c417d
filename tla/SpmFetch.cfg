CONSTANTS
  q1 = q1
  q2 = q2
  Requests = {q1, q2}
  RepoList <- MCRepoList
  Parts <- MCParts
  Rows = {"Native", "Deb"}
  Summed = {2}
  SignatureOf <- MCSignatureOf
  Unsafe = FALSE
  MaxStarts = 3
  MaxFaults = 1
  MaxPublished = 1
SPECIFICATION Spec
SYMMETRY Symmetry
INVARIANTS ServedWhole SpoiledOnce
CHECK_DEADLOCK FALSE
