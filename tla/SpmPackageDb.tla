---------------------------- MODULE SpmPackageDb ----------------------------
(***************************************************************************)
(* What the package database promises: it goes from one consistent state   *)
(* to another by whole transactions.  A transaction takes some packages    *)
(* out and puts some builds in, with the files of each.                    *)
(***************************************************************************)
EXTENDS Naturals

CONSTANTS Pkgs, Builds, Paths, PkgOf, FilesOf, None

VARIABLES installed, files  \* the two tables, by package

Init == installed = [p \in Pkgs |-> None] /\ files = [p \in Pkgs |-> {}]

\* new[p] is the build that comes for p.  The files of a package that is replaced
\* without being taken out stay on record beside the new ones.
Transact(gone, new) ==
  /\ installed' = [p \in Pkgs |-> IF new[p] # None THEN new[p]
                                  ELSE IF p \in gone THEN None ELSE installed[p]]
  /\ files' = [p \in Pkgs |-> (IF p \in gone THEN {} ELSE files[p])
                              \cup (IF new[p] # None THEN FilesOf[new[p]] ELSE {})]

Offered == {new \in [Pkgs -> Builds \cup {None}] :
              \A p \in Pkgs : new[p] # None => PkgOf[new[p]] = p}

Next == \E gone \in SUBSET Pkgs, new \in Offered : Transact(gone, new)

Spec == Init /\ [][Next]_<<installed, files>>

\* An installed package has its files on record, and only an installed one has any.
Paired == \A p \in Pkgs : IF installed[p] # None THEN FilesOf[installed[p]] \subseteq files[p]
                          ELSE files[p] = {}
=============================================================================
