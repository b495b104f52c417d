---------------------------- MODULE SpmUserCache ----------------------------
(***************************************************************************)
(* Installs into home directories (src/src/package/install/user.rs): the   *)
(* package directories that users share (src/src/cache/mod.rs), the links  *)
(* in each user's bin directory, and the table user_installs               *)
(* (src/src/db/users.rs), as concurrent requests of one daemon change them.*)
(*                                                                         *)
(* An install holds the write lock from its check to its row.  A removal   *)
(* reads its row under a read lock, deletes links without a lock, counts   *)
(* the users of the directory under a second read lock, deletes the        *)
(* directory without a lock and the row under the write lock.  A read      *)
(* section, and a write section that runs one statement, is one step taken *)
(* while nobody writes (SpmLocks).                                         *)
(*                                                                         *)
(* A build is what a repository offers for a package: its format and the   *)
(* hash of its content.  Of the content only the executables matter.       *)
(***************************************************************************)
EXTENDS Naturals, FiniteSets

CONSTANTS Requests,   \* threads of the daemon's blocking pool
          Users, Pkgs, Builds, Hashes,
          Names,      \* names of executables
          PkgOf, FormatOf, HashOf,  \* of each build
          ExecsOf,    \* the executables in the directory of each hash
          Faults,     \* what may go wrong
          MaxStarts,  \* bound: requests received
          MaxFaults,  \* bound: faults and crashes
          None

AllFaults == {"copy", "link", "record", "unlink", "collect", "delete", "crash"}

ASSUME OffersAssumption ==
  /\ PkgOf \in [Builds -> Pkgs] /\ HashOf \in [Builds -> Hashes]
  /\ DOMAIN FormatOf = Builds /\ ExecsOf \in [Hashes -> SUBSET Names]
ASSUME FiniteAssumption == IsFiniteSet(Users) /\ IsFiniteSet(Builds)
ASSUME LimitsAssumption ==
  /\ Faults \subseteq AllFaults /\ MaxStarts \in Nat /\ MaxFaults \in Nat
ASSUME NoneAssumption == None \notin Requests \cup Builds \cup Hashes

VARIABLES
  dirs,       \* hashes that have a shared package directory
  content,    \* content[h]: the executables in the directory of h
  link,       \* link[u][n]: the hash that ~u/.local/bin/n points into, or None
  rows,       \* user_installs: pairs of a user and a build
  pc, req,    \* per request: where it is, what it asked for and has read
  writer,     \* the request in the write section
  new, made,  \* its locals: is_new, the links made so far
  damaged,    \* history: hashes whose directory has been deleted from since it was copied
  started, faults

disk   == <<dirs, content, link>>
locals == <<new, made>>
bounds == <<started, faults>>
vars   == <<disk, rows, pc, req, writer, locals, damaged, bounds>>

Ended == {"idle", "done", "failed"}
Held  == {"copy", "link"}          \* the locations inside the write section of an install

\* The primary key of user_installs, and the query of is_installed_for_user.
SameKey(b, c) == PkgOf[b] = PkgOf[c] /\ FormatOf[b] = FormatOf[c]
RowsOf(u, p)  == {x \in rows : x[1] = u /\ PkgOf[x[2]] = p}
UsersOf(h)    == {x \in rows : HashOf[x[2]] = h}
Without(u, b) == {x \in rows : ~(x[1] = u /\ SameKey(x[2], b))}

Init ==
  /\ dirs = {} /\ content = [h \in Hashes |-> {}]
  /\ link = [u \in Users |-> [n \in Names |-> None]]
  /\ rows = {}
  /\ pc = [r \in Requests |-> "idle"] /\ req = [r \in Requests |-> None]
  /\ writer = None /\ new = FALSE /\ made = {}
  /\ damaged = {}
  /\ started = 0 /\ faults = 0

Goto(r, l) == pc' = [pc EXCEPT ![r] = l]
At(r, l)   == pc[r] = l
Fault(k)   == k \in Faults /\ faults < MaxFaults /\ faults' = faults + 1 /\ UNCHANGED started

Receive(r, q, l) ==
  /\ pc[r] \in Ended /\ started < MaxStarts
  /\ started' = started + 1
  /\ req' = [req EXCEPT ![r] = q] /\ Goto(r, l)
  /\ UNCHANGED <<disk, rows, writer, locals, damaged, faults>>

-----------------------------------------------------------------------------
(* install_for_user *)

\* The package is downloaded, unpacked and hashed before the lock.  The daemon's look at the paths
\* that bear the package's name (skipped with --replace) is left out: executables have other names.
Fetch(r, u, b) ==
  Receive(r, [user |-> u, build |-> b, targets |-> {}, error |-> FALSE], "fetched")

User(r) == req[r].user
Hash(r) == HashOf[req[r].build]

\* Leave the write section.
Unlock(r, l) ==
  /\ writer' = None /\ new' = FALSE /\ made' = {}
  /\ Goto(r, l) /\ UNCHANGED <<req, damaged>>

Lock(r) ==
  /\ writer' = r /\ Goto(r, "copy")
  /\ UNCHANGED <<disk, rows, req, locals, damaged, bounds>>

\* Mutation: a row of the same format is looked for, as the primary key has it.
LockInstallByKey(r) ==
  /\ At(r, "fetched") /\ writer = None
  /\ IF \E x \in RowsOf(User(r), PkgOf[req[r].build]) : SameKey(x[2], req[r].build)
     THEN Goto(r, "failed") /\ UNCHANGED <<disk, rows, req, writer, locals, damaged, bounds>>
     ELSE Lock(r)

\* Under the write lock: a user has a package once, of whatever format.
LockInstall(r) ==
  /\ At(r, "fetched") /\ writer = None
  /\ IF RowsOf(User(r), PkgOf[req[r].build]) # {}
     THEN Goto(r, "failed") /\ UNCHANGED <<disk, rows, req, writer, locals, damaged, bounds>>
     ELSE Lock(r)

\* copy_to_shared_cache: a directory that exists is taken as it is; otherwise the copy is made
\* under another name and renamed, so that the directory appears at once and complete.
Copy(r) ==
  /\ At(r, "copy")
  /\ new' = (Hash(r) \notin dirs)
  /\ dirs' = dirs \cup {Hash(r)}
  /\ content' = IF new' THEN [content EXCEPT ![Hash(r)] = ExecsOf[Hash(r)]] ELSE content
  /\ damaged' = IF new' THEN damaged \ {Hash(r)} ELSE damaged
  /\ Goto(r, "link")
  /\ UNCHANGED <<link, rows, req, writer, made, bounds>>

\* Mutation: the copy is made in place, and what there is of it stays.
CopyFailsInPlace(r) ==
  /\ At(r, "copy") /\ Fault("copy")
  /\ dirs' = dirs \cup {Hash(r)}
  /\ \E part \in SUBSET ExecsOf[Hash(r)] :
       content' = IF Hash(r) \in dirs THEN content ELSE [content EXCEPT ![Hash(r)] = part]
  /\ Unlock(r, "failed") /\ UNCHANGED <<link, rows>>

\* Mutation: an error inside the write section leaves the lock behind.
CopyFailsLocked(r) ==
  /\ At(r, "copy") /\ Fault("copy") /\ Goto(r, "failed")
  /\ UNCHANGED <<disk, rows, req, writer, locals, damaged>>

CopyFails(r) ==
  /\ At(r, "copy") /\ Fault("copy")
  /\ Unlock(r, "failed") /\ UNCHANGED <<disk, rows>>

\* create_user_symlinks replaces whatever has the name.
LinkOne(r) ==
  /\ At(r, "link")
  /\ \E n \in content[Hash(r)] \ made :
       /\ link' = [link EXCEPT ![User(r)][n] = Hash(r)]
       /\ made' = made \cup {n}
  /\ UNCHANGED <<dirs, content, rows, pc, req, writer, new, damaged, bounds>>

\* The old link of the name is gone; the links made so far and the directory stay.
LinkFails(r) ==
  /\ At(r, "link") /\ Fault("link")
  /\ \E n \in content[Hash(r)] \ made : link' = [link EXCEPT ![User(r)][n] = None]
  /\ Unlock(r, "failed")
  /\ UNCHANGED <<dirs, content, rows>>

\* record_user_install, unless nothing was linked: then a directory that is new goes again.  A
\* directory that another request has deleted meanwhile has nothing to link either.
Record(r) ==
  /\ At(r, "link") /\ content[Hash(r)] \subseteq made
  /\ \/ /\ made # {}
        /\ rows' = Without(User(r), req[r].build) \cup {<<User(r), req[r].build>>}
        /\ Unlock(r, "done") /\ UNCHANGED <<dirs, content>>
     \/ /\ made = {}
        /\ dirs' = IF new THEN dirs \ {Hash(r)} ELSE dirs
        /\ content' = IF new THEN [content EXCEPT ![Hash(r)] = {}] ELSE content
        /\ Unlock(r, "failed") /\ UNCHANGED rows
  /\ UNCHANGED <<link, bounds>>

RecordFails(r) ==
  /\ At(r, "link") /\ content[Hash(r)] \subseteq made /\ made # {} /\ Fault("record")
  /\ Unlock(r, "failed") /\ UNCHANGED <<disk, rows>>

-----------------------------------------------------------------------------
(* remove_for_user *)

\* Phase 1: the row, and the names that the directory holds now.
ReadInstall(r, u, p) ==
  /\ writer = None
  /\ \/ \E x \in RowsOf(u, p) :
          Receive(r, [user |-> u, build |-> x[2], targets |-> content[HashOf[x[2]]], error |-> FALSE],
                  "unlinking")
     \/ RowsOf(u, p) = {} /\ Receive(r, None, "failed")

\* Phase 2: the links, by name, wherever they point.
Unlink(r) ==
  /\ At(r, "unlinking")
  /\ \E n \in req[r].targets :
       /\ link' = [link EXCEPT ![User(r)][n] = None]
       /\ req' = [req EXCEPT ![r].targets = @ \ {n}]
  /\ UNCHANGED <<dirs, content, rows, pc, writer, locals, damaged, bounds>>

UnlinkFails(r) ==
  /\ At(r, "unlinking") /\ Fault("unlink")
  /\ \E n \in req[r].targets : req' = [req EXCEPT ![r].targets = @ \ {n}, ![r].error = TRUE]
  /\ UNCHANGED <<disk, rows, pc, writer, locals, damaged>>

\* Mutation: the remover's own row is not counted in.
CountLate(r) ==
  /\ At(r, "unlinking") /\ req[r].targets = {} /\ writer = None
  /\ Goto(r, IF Cardinality(UsersOf(Hash(r))) = 0 THEN "collecting" ELSE "collected")
  /\ UNCHANGED <<disk, rows, req, writer, locals, damaged, bounds>>

\* Phase 3: the rows that refer to the directory, the remover's own presumably among them.
Count(r) ==
  /\ At(r, "unlinking") /\ req[r].targets = {} /\ writer = None
  /\ Goto(r, IF Cardinality(UsersOf(Hash(r))) <= 1 THEN "collecting" ELSE "collected")
  /\ UNCHANGED <<disk, rows, req, writer, locals, damaged, bounds>>

\* remove_shared_package, even when a link could not be deleted: entry by entry ...
CollectBegin(r) ==
  /\ At(r, "collecting")
  /\ \E left \in SUBSET content[Hash(r)] : content' = [content EXCEPT ![Hash(r)] = left]
  /\ damaged' = damaged \cup {Hash(r)}
  /\ Goto(r, "emptying")
  /\ UNCHANGED <<dirs, link, rows, req, writer, locals, bounds>>

\* ... then the directory itself.
CollectEnd(r) ==
  /\ At(r, "emptying")
  /\ dirs' = dirs \ {Hash(r)} /\ content' = [content EXCEPT ![Hash(r)] = {}]
  /\ Goto(r, "collected")
  /\ UNCHANGED <<link, rows, req, writer, locals, damaged, bounds>>

CollectFails(r) ==
  /\ At(r, "emptying") /\ Fault("collect")
  /\ req' = [req EXCEPT ![r].error = TRUE] /\ Goto(r, "collected")
  /\ UNCHANGED <<disk, rows, writer, locals, damaged>>

\* Phases 4 and 5: the row stays if something could not be deleted.
RemoveRow(r) ==
  /\ At(r, "collected")
  /\ \/ /\ req[r].error
        /\ Goto(r, "failed") /\ UNCHANGED rows
     \/ /\ ~req[r].error /\ writer = None
        /\ rows' = Without(User(r), req[r].build)
        /\ Goto(r, "done")
  /\ UNCHANGED <<disk, req, writer, locals, damaged, bounds>>

RemoveRowFails(r) ==
  /\ At(r, "collected") /\ ~req[r].error /\ writer = None /\ Fault("delete")
  /\ Goto(r, "failed")
  /\ UNCHANGED <<disk, rows, req, writer, locals, damaged>>

-----------------------------------------------------------------------------
\* The daemon ends and starts again; SQLite and the file system keep what they have.
Crash ==
  /\ Fault("crash")
  /\ \E r \in Requests : pc[r] \notin Ended
  /\ pc' = [r \in Requests |-> IF pc[r] \in Ended THEN pc[r] ELSE "idle"]
  /\ writer' = None /\ new' = FALSE /\ made' = {}
  /\ UNCHANGED <<disk, rows, req, damaged>>

Arrive(r) ==
  \/ \E u \in Users, b \in Builds : Fetch(r, u, b)
  \/ \E u \in Users, p \in Pkgs : ReadInstall(r, u, p)

Install(r) ==
  LockInstall(r) \/ Copy(r) \/ CopyFails(r) \/ LinkOne(r) \/ LinkFails(r) \/ Record(r) \/ RecordFails(r)

Remove(r) ==
  \/ Unlink(r) \/ UnlinkFails(r) \/ Count(r) \/ CollectBegin(r) \/ CollectEnd(r) \/ CollectFails(r)
  \/ RemoveRow(r) \/ RemoveRowFails(r)

Next == (\E r \in Requests : Arrive(r) \/ Install(r) \/ Remove(r)) \/ Crash

Spec == Init /\ [][Next]_vars

-----------------------------------------------------------------------------
Locations == Ended \cup Held \cup {"fetched", "unlinking", "collecting", "emptying", "collected"}
ReqType   == [user : Users, build : Builds, targets : SUBSET Names, error : BOOLEAN]

\* Type invariant; in particular the write section belongs to the request that is in it.
TypeOK ==
  /\ dirs \subseteq Hashes
  /\ content \in [Hashes -> SUBSET Names]
  /\ link \in [Users -> [Names -> Hashes \cup {None}]]
  /\ rows \subseteq Users \X Builds
  /\ pc \in [Requests -> Locations]
  /\ req \in [Requests -> ReqType \cup {None}]
  /\ writer \in Requests \cup {None}
  /\ \A r \in Requests : pc[r] \in Held <=> writer = r
  /\ new \in BOOLEAN /\ made \subseteq Names
  /\ damaged \subseteq Hashes
  /\ started \in 0 .. MaxStarts /\ faults \in 0 .. MaxFaults

\* A user has a package once, although the key of user_installs lets a row of each format in: no
\* second install gets between the check and the row, and a removal deletes all there is.
OneInstall == \A x, y \in rows : x[1] = y[1] /\ PkgOf[x[2]] = PkgOf[y[2]] => x = y

Backed(h) == h \in dirs /\ content[h] = ExecsOf[h]

\* Every recorded install has its complete package directory, whichever installs failed or were cut
\* off, unless a removal has begun to delete the directory and nobody has copied it again.
CacheBacked ==
  \A x \in rows : Backed(HashOf[x[2]]) \/ HashOf[x[2]] \in damaged

\* A removal that succeeds leaves the directory if another install refers to it, and only then: the
\* last one frees it, whatever failed before.
LastRemovalFrees ==
  [][\A r \in Requests : pc[r] = "collected" /\ pc'[r] = "done" =>
       (Hash(r) \in dirs' <=> \E x \in rows' : HashOf[x[2]] = Hash(r))]_vars
=============================================================================
