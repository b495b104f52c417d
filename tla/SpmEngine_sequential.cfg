SPECIFICATION Spec
CONSTANTS
  a = a
  b = b
  c = c
  a1 = a1
  a2 = a2
  b1 = b1
  c1 = c1
  ha1 = ha1
  ha2 = ha2
  hb = hb
  bin = bin
  lib = lib
  etc = etc
  man = man
  r1 = r1
  r2 = r2
  None = None
  Requests = {r1}
  Pkgs = {a, b, c}
  Builds = {a1, a2, b1, c1}
  Hashes = {ha1, ha2, hb}
  Paths = {bin, lib, etc, man}
  PkgOf <- MCPkgOf
  FilesOf <- MCFilesOf
  HashOf <- MCHashOf
  ObsoletesOf <- MCObsoletes
  HasScripts <- MCHasScripts
  DepsOf <- MCDepsOf
  HomesOf <- MCHomesOf
  Newer <- MCNewer
  Conffiles = {etc}
  Libraries = {lib}
  Kinds = {"install", "upgrade", "remove", "purge"}
  Replaces = {TRUE, FALSE}
  Smarts = {TRUE, FALSE}
  Faults = {}
  MaxStarts = 5
  MaxFaults = 0
INVARIANTS NoOrphanStore InstalledLinked
CHECK_DEADLOCK FALSE
