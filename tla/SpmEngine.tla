------------------------------ MODULE SpmEngine ------------------------------
(***************************************************************************)
(* The transaction engine (src/src/package/transaction.rs) and the removal *)
(* path (package/install/remove.rs): the content-addressed store, the      *)
(* links from FHS paths into it, the saved scripts and the database rows,  *)
(* as concurrent requests of one daemon change them.                       *)
(*                                                                         *)
(* Installs and upgrades hold the write lock from the first file-system    *)
(* change to the last; removals delete files without a lock and take the   *)
(* write lock for the rows.  A read lock protects one atomic step, taken   *)
(* while nobody writes.  SpmLocks models the locks themselves.             *)
(*                                                                         *)
(* A build is one version of a package: its files, its hash, what it       *)
(* obsoletes and whether it carries scripts.  A store directory is the set *)
(* of files it holds, a link is the hash of the store directory it points  *)
(* into.                                                                   *)
(***************************************************************************)
EXTENDS Naturals, Sequences

CONSTANTS Requests,   \* threads of the daemon's blocking pool
          Pkgs,       \* package names
          Builds,     \* builds the repositories or local archives hold
          Hashes,     \* content hashes (hash_dir)
          Paths,      \* absolute FHS paths
          PkgOf, FilesOf, HashOf, ObsoletesOf, HasScripts,  \* of each build
          DepsOf,     \* what the resolver adds to a package
          Newer,      \* <<b, c>>: the repositories may offer c where b is installed
          Conffiles,  \* paths that survive a remove
          Libraries,  \* paths a smart install leaves in the store
          HomesOf,    \* directories with a package's name: /etc/<name>, /var/lib/<name>
          Kinds,      \* kinds of requests that arrive
          Replaces, Smarts, \* values of the replace and smart flags
          Faults,     \* what may go wrong
          MaxStarts,  \* bound: requests received
          MaxFaults,  \* bound: faults and crashes
          None

AllKinds  == {"install", "local", "upgrade", "remove", "purge"}
\* A directory with a package's name is what a purge looks at: the paths whose text
\* begins with that of the directory, and the paths below it.
Home      == {d \in [prefixed : SUBSET Paths, below : SUBSET Paths] : d.below \subseteq d.prefixed}
AllFaults == {"copy", "link", "scripts", "commit", "delete", "statement", "crash"}

ASSUME BuildsAssumption ==
  /\ PkgOf \in [Builds -> Pkgs] /\ FilesOf \in [Builds -> SUBSET Paths]
  /\ HashOf \in [Builds -> Hashes] /\ ObsoletesOf \in [Builds -> SUBSET Pkgs]
  /\ HasScripts \in [Builds -> BOOLEAN] /\ DepsOf \in [Pkgs -> SUBSET Pkgs]
  /\ HomesOf \in [Pkgs -> SUBSET Home]
  /\ Newer \subseteq {n \in Builds \X Builds : PkgOf[n[1]] = PkgOf[n[2]]}
ASSUME HashAssumption == \* a content hash determines the files
  \A b, c \in Builds : HashOf[b] = HashOf[c] => FilesOf[b] = FilesOf[c]
ASSUME ParametersAssumption ==
  /\ Kinds \subseteq AllKinds /\ Faults \subseteq AllFaults
  /\ Replaces \subseteq BOOLEAN /\ Smarts \subseteq BOOLEAN
  /\ MaxStarts \in Nat /\ MaxFaults \in Nat
ASSUME NoneAssumption ==
  None \notin Requests \cup Builds \cup Hashes

VARIABLES
  dirs,     \* hashes that have a store directory
  store,    \* store[h]: the files in the store directory of h
  link,     \* link[f]: the hash the symlink at f points into, None if there is none
  scripts,  \* scripts[p]: the build whose scripts are saved for p, or None
  rows,     \* rows[p]: the build installed_packages records for p, or None
  owned,    \* owned[p]: the paths the files table records for p
  durable,  \* rows and owned as a new process would read them
  txn,      \* an SQLite transaction is open on the connection
  pc, req,  \* per request: where it is, what it asked for and has read
  writer,   \* the request in the write section
  todo, removed, fetched, cur, made, guards, infos, \* locals of the write section
  before,   \* history: rows and resolved paths when the write section began
  started, faults

database == <<rows, owned, durable, txn>>
disk     == <<dirs, store, link, scripts>>
locals   == <<todo, removed, fetched, cur, made, guards, infos>>
bounds   == <<started, faults>>
vars     == <<disk, database, pc, req, writer, locals, before, bounds>>

Ended     == {"idle", "done", "failed"}
Installed == {p \in Pkgs : rows[p] # None}
BuildsOf(p) == {b \in Builds : PkgOf[b] = p}
\* What a process finds at a path: the store directory that provides it, if any.
View == [f \in Paths |-> IF link[f] \in dirs /\ f \in store[link[f]] THEN link[f] ELSE None]

Request(k, p, b, rep, sm) ==
  [kind |-> k, pkg |-> p, build |-> b, replace |-> rep, smart |-> sm,
   remove |-> {}, hash |-> None, files |-> {}, homes |-> {}, error |-> FALSE]

Init ==
  /\ dirs = {} /\ store = [h \in Hashes |-> {}] /\ link = [f \in Paths |-> None]
  /\ scripts = [p \in Pkgs |-> None] /\ rows = [p \in Pkgs |-> None]
  /\ owned = [p \in Pkgs |-> {}] /\ durable = [rows |-> rows, owned |-> owned]
  /\ txn = FALSE /\ pc = [r \in Requests |-> "idle"] /\ req = [r \in Requests |-> None]
  /\ writer = None /\ before = None
  /\ todo = {} /\ removed = {} /\ fetched = << >> /\ cur = 1
  /\ made = {} /\ guards = {} /\ infos = {}
  /\ started = 0 /\ faults = 0

-----------------------------------------------------------------------------
(* Requests and what they read before the write lock. *)

Goto(r, l) == pc' = [pc EXCEPT ![r] = l]

Receive(r, q, l) ==
  /\ pc[r] \in Ended /\ started < MaxStarts /\ q.kind \in Kinds
  /\ started' = started + 1
  /\ req' = [req EXCEPT ![r] = q] /\ Goto(r, l)
  /\ UNCHANGED <<disk, database, writer, locals, before, faults>>

\* plan_install under the read lock: an installed package is to be replaced.
PlanInstall(r, p, rep, sm) ==
  /\ writer = None
  /\ Receive(r, [Request("install", p, None, rep, sm) EXCEPT !.remove = {p} \cap Installed], "planned")

\* install_local_package: the archive is known, an installed package needs --replace.
PlanLocal(r, b, rep) ==
  /\ writer = None
  /\ Receive(r, Request("local", PkgOf[b], b, rep, FALSE),
             IF PkgOf[b] \in Installed /\ ~rep THEN "failed" ELSE "planned")

\* upgrade_package reads nothing before it locks.
PlanUpgrade(r, p) == Receive(r, Request("upgrade", p, None, TRUE, FALSE), "planned")

\* dirs_to_cleanup: the directories with the name of p that a file of p points to.
DirsToCleanup(p) == {d \in HomesOf[p] : owned[p] \cap d.prefixed # {}}

\* remove_package and purge_package read the row and the files of the package.
ReadRemove(r, p, k) ==
  /\ writer = None
  /\ Receive(r, IF p \in Installed
                THEN [Request(k, p, rows[p], FALSE, FALSE) EXCEPT
                        !.hash = HashOf[rows[p]], !.files = owned[p],
                        !.homes = IF k = "purge" THEN DirsToCleanup(p) ELSE {}]
                ELSE Request(k, p, None, FALSE, FALSE),
             IF p \in Installed THEN "deleting" ELSE "failed")
-----------------------------------------------------------------------------
(* The write section of installs and upgrades. *)

\* Enter the write section with the packages gone and the builds new.
Enter(r, l, names, gone, new) ==
  /\ writer' = r /\ Goto(r, l)
  /\ todo' = names /\ removed' = gone /\ fetched' = new
  /\ before' = [rows |-> rows, view |-> View]
  /\ UNCHANGED <<disk, database, req, cur, made, guards, infos, bounds>>

\* The write lock is taken and released again without a change.
Refuse(r, l) == Goto(r, l) /\ UNCHANGED <<disk, database, req, writer, locals, before, bounds>>

\* Mutant: the position in the list of fetched packages survives.
UnlockKeepingCursor(r, l) ==
  /\ writer' = None /\ Goto(r, l)
  /\ todo' = {} /\ removed' = {} /\ fetched' = << >>
  /\ made' = {} /\ guards' = {} /\ infos' = {}
  /\ before' = None
  /\ UNCHANGED <<cur, req, bounds>>

\* Leave the write section: the locals go out of scope.
Unlock(r, l) ==
  /\ writer' = None /\ Goto(r, l)
  /\ todo' = {} /\ removed' = {} /\ fetched' = << >> /\ cur' = 1
  /\ made' = {} /\ guards' = {} /\ infos' = {}
  /\ before' = None
  /\ UNCHANGED <<req, bounds>>

LockInstall(r) ==
  /\ pc[r] = "planned" /\ req[r].kind = "install" /\ writer = None
  /\ IF req[r].pkg \in Installed /\ ~req[r].replace
     THEN Refuse(r, "failed")
     ELSE Enter(r, "fetch", DepsOf[req[r].pkg] \cup {req[r].pkg}, req[r].remove, << >>)

LockLocal(r) ==
  /\ pc[r] = "planned" /\ req[r].kind = "local" /\ writer = None
  /\ IF req[r].pkg \in Installed /\ ~req[r].replace
     THEN Refuse(r, "failed")
     ELSE Enter(r, "copy", {},
                ({req[r].pkg} \cup ObsoletesOf[req[r].build]) \cap Installed, <<req[r].build>>)

\* A package that is absent, up to date or no longer offered is a message, not an
\* error; a newer build may fail to download.
LockUpgrade(r) ==
  /\ pc[r] = "planned" /\ req[r].kind = "upgrade" /\ writer = None
  /\ \/ Refuse(r, "done")
     \/ req[r].pkg \in Installed /\ Refuse(r, "failed")
     \/ /\ req[r].pkg \in Installed
        /\ \E b \in BuildsOf(req[r].pkg) : /\ <<rows[req[r].pkg], b>> \in Newer
                                         /\ Enter(r, "copy", {}, {req[r].pkg}, <<b>>)

\* Mutant: files are deployed over those of other packages.
ConflictsUnchecked(b, gone) == {}

\* detect_file_conflicts: packages, but those to be removed, that own a file of b.
Conflicts(b, gone) == {p \in Pkgs \ gone : owned[p] \cap FilesOf[b] # {}}

\* One package of the plan, in the order a hash map gives: skip an installed
\* dependency, or fetch it, add what it obsoletes and what it collides with to the
\* packages to remove.
Fetch(r) ==
  /\ writer = r /\ pc[r] = "fetch"
  /\ \E p \in todo :
       /\ todo' = todo \ {p} /\ Goto(r, IF todo = {p} THEN "copy" ELSE "fetch")
       /\ IF p \in Installed /\ p # req[r].pkg
          THEN UNCHANGED <<removed, fetched>>
          ELSE \E b \in BuildsOf(p) :
                 LET gone == removed \cup (ObsoletesOf[b] \cap Installed)
                     hit  == Conflicts(b, gone)
                 IN /\ hit = {} \/ req[r].replace
                    /\ removed' = gone \cup hit /\ fetched' = Append(fetched, b)
  /\ UNCHANGED <<disk, database, req, writer, cur, made, guards, infos, before, bounds>>

\* The download fails, or a conflict is found without --replace: nothing changed yet.
FetchFails(r) ==
  /\ writer = r /\ pc[r] = "fetch"
  /\ Unlock(r, "failed") /\ UNCHANGED <<disk, database>>

-----------------------------------------------------------------------------
(* fs_deploy_one, for the build at hand. *)

Build == fetched[cur]
Hash  == HashOf[Build]
Fault(k) == k \in Faults /\ faults < MaxFaults /\ faults' = faults + 1 /\ UNCHANGED started

\* copy_to_store_with_origin returns the directory that exists ...
ReuseStore(r) ==
  /\ writer = r /\ pc[r] = "copy" /\ Hash \in dirs
  /\ Goto(r, "link")
  /\ UNCHANGED <<disk, database, req, writer, locals, before, bounds>>

\* ... or copies file by file into a new one, at its final name.
CopyBegin(r) ==
  /\ writer = r /\ pc[r] = "copy" /\ Hash \notin dirs
  /\ dirs' = dirs \cup {Hash}
  /\ \E s \in SUBSET FilesOf[Build] :
       (s = FilesOf[Build] => s = {}) /\ store' = [store EXCEPT ![Hash] = s]
  /\ Goto(r, "copying")
  /\ UNCHANGED <<link, scripts, database, req, writer, locals, before, bounds>>

CopyEnd(r) ==
  /\ writer = r /\ pc[r] = "copying"
  /\ store' = [store EXCEPT ![Hash] = FilesOf[Build]]
  /\ Goto(r, "link")
  /\ UNCHANGED <<dirs, link, scripts, database, req, writer, locals, before, bounds>>

\* The guard of this build does not know the hash yet.
CopyFails(r) ==
  /\ writer = r /\ pc[r] = "copying" /\ Fault("copy")
  /\ Goto(r, "rollback")
  /\ UNCHANGED <<disk, database, req, writer, locals, before>>

\* create_fhs_symlinks walks the store directory; the smart variant skips libraries.
ToLink(r) == (store[Hash] \ (IF req[r].smart THEN Libraries ELSE {})) \ made

\* Whatever is at the path is replaced.
LinkOne(r) ==
  /\ writer = r /\ pc[r] = "link"
  /\ \E f \in ToLink(r) : link' = [link EXCEPT ![f] = Hash] /\ made' = made \cup {f}
  /\ UNCHANGED <<dirs, store, scripts, database, pc, req, writer, todo, removed, fetched, cur, guards, infos, before, bounds>>

\* An error loses the records of the links made so far.
LinkFails(r) ==
  /\ writer = r /\ pc[r] = "link" /\ ToLink(r) # {} /\ Fault("link")
  /\ guards' = guards \cup {[hash |-> Hash, links |-> {}]} /\ made' = {}
  /\ Goto(r, "rollback")
  /\ UNCHANGED <<disk, database, req, writer, todo, removed, fetched, cur, infos, before>>

\* All links made: the guard is complete, the scripts are saved, the next build.
SaveScripts(r) ==
  /\ writer = r /\ pc[r] = "link" /\ ToLink(r) = {}
  /\ guards' = guards \cup {[hash |-> Hash, links |-> made]} /\ made' = {}
  /\ scripts' = IF HasScripts[Build] THEN [scripts EXCEPT ![PkgOf[Build]] = Build] ELSE scripts
  /\ cur' = cur + 1
  /\ Goto(r, IF cur = Len(fetched) THEN "commit" ELSE "copy")
  /\ UNCHANGED <<dirs, store, link, database, req, writer, todo, removed, fetched, infos, before, bounds>>

SaveFails(r) ==
  /\ writer = r /\ pc[r] = "link" /\ ToLink(r) = {} /\ HasScripts[Build] /\ Fault("scripts")
  /\ guards' = guards \cup {[hash |-> Hash, links |-> made]} /\ made' = {}
  /\ Goto(r, "rollback")
  /\ UNCHANGED <<disk, database, req, writer, todo, removed, fetched, cur, infos, before>>

-----------------------------------------------------------------------------
(* atomic_commit, cleanup_removed and the drop of the rollback guards. *)

NewBuilds == {fetched[i] : i \in 1 .. Len(fetched)}
NewOf(p)  == {b \in NewBuilds : PkgOf[b] = p}

\* Mutant: a savepoint in place of BEGIN, which an open transaction does not refuse.
CommitNested(r) ==
  /\ writer = r /\ pc[r] = "commit"
  /\ infos' = {[pkg |-> p, hash |-> HashOf[rows[p]]] : p \in removed \cap Installed}
  /\ rows' = [p \in Pkgs |-> IF NewOf(p) # {} THEN CHOOSE b \in NewOf(p) : TRUE
                             ELSE IF p \in removed THEN None ELSE rows[p]]
  /\ owned' = [p \in Pkgs |-> (IF p \in removed \cap Installed THEN {} ELSE owned[p])
                              \cup UNION {FilesOf[b] : b \in NewOf(p)}]
  /\ durable' = IF txn THEN durable ELSE [rows |-> rows', owned |-> owned']
  /\ guards' = {} /\ Goto(r, "cleanup")
  /\ UNCHANGED <<disk, txn, req, writer, todo, removed, fetched, cur, made, before, bounds>>

\* One SQLite transaction: the rows of the removed packages go, files and rows of
\* the new builds come.  What cleanup needs of the old rows is captured before.
Commit(r) ==
  /\ writer = r /\ pc[r] = "commit" /\ ~txn
  /\ infos' = {[pkg |-> p, hash |-> HashOf[rows[p]]] : p \in removed \cap Installed}
  /\ rows' = [p \in Pkgs |-> IF NewOf(p) # {} THEN CHOOSE b \in NewOf(p) : TRUE
                             ELSE IF p \in removed THEN None ELSE rows[p]]
  /\ owned' = [p \in Pkgs |-> (IF p \in removed \cap Installed THEN {} ELSE owned[p])
                              \cup UNION {FilesOf[b] : b \in NewOf(p)}]
  /\ durable' = [rows |-> rows', owned |-> owned']
  /\ guards' = {} /\ Goto(r, "cleanup")
  /\ UNCHANGED <<disk, txn, req, writer, todo, removed, fetched, cur, made, before, bounds>>

\* Mutant: the statements run without BEGIN, and the rows are gone when one fails.
CommitFailsAutocommit(r) ==
  /\ writer = r /\ pc[r] = "commit" /\ Fault("commit")
  /\ rows' = [p \in Pkgs |-> IF p \in removed THEN None ELSE rows[p]]
  /\ durable' = [durable EXCEPT !.rows = rows']
  /\ Goto(r, "rollback")
  /\ UNCHANGED <<disk, owned, txn, req, writer, locals, before>>

\* A statement fails and the transaction is rolled back; or, after a failed
\* upgrade, BEGIN itself fails.
CommitFails(r) ==
  /\ writer = r /\ pc[r] = "commit"
  /\ \/ txn /\ UNCHANGED bounds
     \/ ~txn /\ req[r].kind # "upgrade" /\ Fault("commit")
  /\ Goto(r, "rollback")
  /\ UNCHANGED <<disk, database, req, writer, locals, before>>

\* upgrade_package returns by `?` between BEGIN and COMMIT: the transaction stays
\* open on the connection with the statements that succeeded.
UpgradeCommitFails(r) ==
  /\ writer = r /\ pc[r] = "commit" /\ ~txn /\ req[r].kind = "upgrade" /\ Fault("commit")
  /\ txn' = TRUE
  /\ LET p == req[r].pkg
     IN \/ UNCHANGED <<rows, owned>>
        \/ owned' = [owned EXCEPT ![p] = {}] /\ UNCHANGED rows
        \/ /\ rows' = [rows EXCEPT ![p] = None]
           /\ owned' \in {[owned EXCEPT ![p] = {}], [owned EXCEPT ![p] = FilesOf[fetched[1]]]}
  /\ Goto(r, "rollback")
  /\ UNCHANGED <<disk, durable, req, writer, locals, before>>

RemoveStore(h) == dirs' = dirs \ {h} /\ store' = [store EXCEPT ![h] = {}]

\* gc_store_with_origin: the directory goes unless a row refers to the hash.
GcStore(h) == IF \E p \in Installed : HashOf[rows[p]] = h
              THEN UNCHANGED <<dirs, store>> ELSE RemoveStore(h)

\* cleanup_removed, for one of the removed packages.
CleanupRemoved(r) ==
  /\ writer = r /\ pc[r] = "cleanup"
  /\ \E i \in infos : /\ GcStore(i.hash)
                      /\ scripts' = [scripts EXCEPT ![i.pkg] = None]
                      /\ infos' = infos \ {i}
  /\ UNCHANGED <<link, database, pc, req, writer, todo, removed, fetched, cur, made, guards, before, bounds>>

\* Mutant: the write lock is not given back.
FinishLocked(r) ==
  /\ writer = r /\ pc[r] = "cleanup" /\ infos = {} /\ Goto(r, "done")
  /\ UNCHANGED <<disk, database, req, writer, locals, before, bounds>>

Finish(r) ==
  /\ writer = r /\ pc[r] = "cleanup" /\ infos = {}
  /\ Unlock(r, "done") /\ UNCHANGED <<disk, database>>

\* Mutant: the guard was disarmed before the commit.
DropGuardDisarmed(r) ==
  /\ writer = r /\ pc[r] = "rollback"
  /\ \E g \in guards : guards' = guards \ {g}
  /\ UNCHANGED <<disk, database, pc, req, writer, todo, removed, fetched, cur, made, infos, before, bounds>>

\* RollbackGuard::drop: the recorded links, then the store directory.
DropGuard(r) ==
  /\ writer = r /\ pc[r] = "rollback"
  /\ \E g \in guards : /\ link' = [f \in Paths |-> IF f \in g.links THEN None ELSE link[f]]
                       /\ RemoveStore(g.hash)
                       /\ guards' = guards \ {g}
  /\ UNCHANGED <<scripts, database, pc, req, writer, todo, removed, fetched, cur, made, infos, before, bounds>>

RolledBack(r) ==
  /\ writer = r /\ pc[r] = "rollback" /\ guards = {}
  /\ Unlock(r, "failed") /\ UNCHANGED <<disk, database>>

-----------------------------------------------------------------------------
(* remove_package and purge_package: files first, without a lock. *)

\* One file; conffiles survive a remove.  The file may be gone already.
DeleteFile(r) ==
  /\ pc[r] = "deleting"
  /\ \E f \in req[r].files :
       /\ link' = IF req[r].kind = "remove" /\ f \in Conffiles THEN link ELSE [link EXCEPT ![f] = None]
       /\ req' = [req EXCEPT ![r].files = @ \ {f}]
  /\ UNCHANGED <<dirs, store, scripts, database, pc, writer, locals, before, bounds>>

\* A purge then removes directories with the package's name and all that is below
\* them, whoever it belongs to.
DeleteHome(r) ==
  /\ pc[r] = "deleting" /\ req[r].files = {}
  /\ \E d \in req[r].homes :
       /\ link' = [f \in Paths |-> IF f \in d.below THEN None ELSE link[f]]
       /\ req' = [req EXCEPT ![r].homes = @ \ {d}]
  /\ UNCHANGED <<dirs, store, scripts, database, pc, writer, locals, before, bounds>>

\* A file cannot be deleted, or a directory only in part; the others are tried still.
DeleteFails(r) ==
  /\ pc[r] = "deleting" /\ Fault("delete")
  /\ \/ \E f \in req[r].files :
          req' = [req EXCEPT ![r].files = @ \ {f}, ![r].error = TRUE] /\ UNCHANGED link
     \/ /\ req[r].files = {}
        /\ \E d \in req[r].homes : \E gone \in SUBSET d.below :
             /\ link' = [f \in Paths |-> IF f \in gone THEN None ELSE link[f]]
             /\ req' = [req EXCEPT ![r].homes = @ \ {d}, ![r].error = TRUE]
  /\ UNCHANGED <<dirs, store, scripts, database, pc, writer, locals, before>>

\* Errors end the request before the database is touched.  A purge drops the scripts.
Deleted(r) ==
  /\ pc[r] = "deleting" /\ req[r].files = {} /\ req[r].homes = {}
  /\ scripts' = IF req[r].kind = "purge" THEN [scripts EXCEPT ![req[r].pkg] = None] ELSE scripts
  /\ Goto(r, IF req[r].error THEN "failed" ELSE "deleted")
  /\ UNCHANGED <<dirs, store, link, database, req, writer, locals, before, bounds>>

LockRemove(r) ==
  /\ pc[r] = "deleted" /\ writer = None
  /\ Enter(r, "files", {}, {}, << >>)

\* The statements run one by one, each durable unless a transaction is open.
Statement == durable' = IF txn THEN durable ELSE [rows |-> rows', owned |-> owned']

\* Mutant: remove_installed_package, which leaves the files, for the _by_id variant.
DeleteFileRowsSkipped(r) ==
  /\ writer = r /\ pc[r] = "files" /\ Goto(r, "row")
  /\ UNCHANGED <<disk, database, req, writer, locals, before, bounds>>

DeleteFileRows(r) ==
  /\ writer = r /\ pc[r] = "files"
  /\ owned' = [owned EXCEPT ![req[r].pkg] = {}] /\ UNCHANGED rows /\ Statement
  /\ Goto(r, "row")
  /\ UNCHANGED <<disk, txn, req, writer, locals, before, bounds>>

DeleteRow(r) ==
  /\ writer = r /\ pc[r] = "row"
  /\ rows' = [rows EXCEPT ![req[r].pkg] = None] /\ UNCHANGED owned /\ Statement
  /\ Goto(r, "gc")
  /\ UNCHANGED <<disk, txn, req, writer, locals, before, bounds>>

\* Mutant: the store directory of a removed package stays.
GcRemovedSkipped(r) ==
  /\ writer = r /\ pc[r] = "gc"
  /\ Unlock(r, "done") /\ UNCHANGED <<disk, database>>

\* Mutant: the directory goes without counting the rows that refer to it.
GcRemovedUncounted(r) ==
  /\ writer = r /\ pc[r] = "gc"
  /\ RemoveStore(req[r].hash)
  /\ Unlock(r, "done") /\ UNCHANGED <<link, scripts, database>>

\* gc with the hash read at the beginning.
GcRemoved(r) ==
  /\ writer = r /\ pc[r] = "gc"
  /\ GcStore(req[r].hash)
  /\ Unlock(r, "done") /\ UNCHANGED <<link, scripts, database>>

StatementFails(r) ==
  /\ writer = r /\ pc[r] \in {"files", "row"} /\ "statement" \in Faults /\ faults < MaxFaults
  /\ writer' = None /\ before' = None /\ Goto(r, "failed")
  /\ faults' = faults + 1 /\ UNCHANGED <<started, disk, database, req, locals>>

-----------------------------------------------------------------------------
\* The daemon ends and starts again: requests are gone, no guard is dropped, and
\* the database is what was committed.
Crash ==
  /\ Fault("crash")
  /\ \E r \in Requests : pc[r] \notin Ended
  /\ pc' = [r \in Requests |-> IF pc[r] \in Ended THEN pc[r] ELSE "idle"]
  /\ writer' = None /\ before' = None
  /\ todo' = {} /\ removed' = {} /\ fetched' = << >> /\ cur' = 1
  /\ made' = {} /\ guards' = {} /\ infos' = {}
  /\ rows' = durable.rows /\ owned' = durable.owned /\ txn' = FALSE
  /\ UNCHANGED <<disk, durable, req, started>>

Arrive(r) ==
  \/ \E p \in Pkgs, rep \in Replaces, sm \in Smarts : PlanInstall(r, p, rep, sm)
  \/ \E b \in Builds, rep \in Replaces : PlanLocal(r, b, rep)
  \/ \E p \in Pkgs : PlanUpgrade(r, p)
  \/ \E p \in Pkgs, k \in {"remove", "purge"} : ReadRemove(r, p, k)

Deploy(r) ==
  \/ ReuseStore(r) \/ CopyBegin(r) \/ CopyEnd(r) \/ LinkOne(r) \/ SaveScripts(r)
  \/ Commit(r) \/ CommitFails(r) \/ CleanupRemoved(r) \/ Finish(r)

Step(r) ==
  \/ LockInstall(r) \/ LockLocal(r) \/ LockUpgrade(r) \/ Fetch(r) \/ FetchFails(r)
  \/ Deploy(r) \/ DropGuard(r) \/ RolledBack(r)
  \/ DeleteFile(r) \/ DeleteHome(r) \/ Deleted(r) \/ LockRemove(r) \/ DeleteFileRows(r) \/ DeleteRow(r) \/ GcRemoved(r)

Fail(r) ==
  \/ CopyFails(r) \/ LinkFails(r) \/ SaveFails(r) \/ UpgradeCommitFails(r)
  \/ DeleteFails(r) \/ StatementFails(r)

Next == (\E r \in Requests : Arrive(r) \/ Step(r) \/ Fail(r)) \/ Crash

Spec     == Init /\ [][Next]_vars
\* The pool runs every thread, and a write lock that stays free is granted.
FairSpec == Spec /\ \A r \in Requests : WF_vars(Step(r))

-----------------------------------------------------------------------------
Locations == Ended \cup {"planned", "fetch", "copy", "copying", "link", "commit", "cleanup",
                         "rollback", "deleting", "deleted", "files", "row", "gc"}
Database  == [rows : [Pkgs -> Builds \cup {None}], owned : [Pkgs -> SUBSET Paths]]
ReqType   == [kind : AllKinds, pkg : Pkgs, build : Builds \cup {None}, replace : BOOLEAN,
              smart : BOOLEAN, remove : SUBSET Pkgs, hash : Hashes \cup {None},
              files : SUBSET Paths, homes : SUBSET Home, error : BOOLEAN]

TypeOK ==
  /\ dirs \subseteq Hashes /\ store \in [Hashes -> SUBSET Paths]
  /\ link \in [Paths -> Hashes \cup {None}]
  /\ scripts \in [Pkgs -> Builds \cup {None}]
  /\ rows \in [Pkgs -> Builds \cup {None}] /\ owned \in [Pkgs -> SUBSET Paths]
  /\ durable \in Database /\ txn \in BOOLEAN
  /\ pc \in [Requests -> Locations] /\ req \in [Requests -> ReqType \cup {None}]
  /\ writer \in Requests \cup {None}
  /\ todo \subseteq Pkgs /\ removed \subseteq Pkgs /\ fetched \in Seq(Builds)
  /\ cur \in 1 .. Len(fetched) + 1 /\ made \subseteq Paths
  /\ guards \subseteq [hash : Hashes, links : SUBSET Paths]
  /\ infos \subseteq [pkg : Pkgs, hash : Hashes]
  /\ started \in 0 .. MaxStarts /\ faults \in 0 .. MaxFaults

\* Nobody holds the write lock, and no request is under way.
Unlocked == writer = None
Quiet    == \A r \in Requests : pc[r] \in Ended

\* Every installed package is backed by a store directory that holds exactly the
\* files its content hash stands for, at every moment of every interleaving: no
\* garbage collection, replacement or removal of one package takes the directory
\* another one relies on.
RowsBacked == \A p \in Installed : /\ HashOf[rows[p]] \in dirs
                                   /\ store[HashOf[rows[p]]] = FilesOf[rows[p]]

\* Outside write sections the two tables agree: an installed package has all its
\* files on record, and files are on record for installed packages only.
TablesAgree ==
  Unlocked => \A p \in Pkgs : IF p \in Installed THEN FilesOf[rows[p]] \subseteq owned[p]
                              ELSE owned[p] = {}

\* When nothing is under way the store holds no directory that no row refers to.
NoOrphanStore ==
  Quiet => \A h \in dirs : \E p \in Installed : HashOf[rows[p]] = h

\* Paths below a directory with another package's name: a purge of that package
\* removes them.
AtRisk(p) == UNION {d.below : d \in UNION {HomesOf[q] : q \in Pkgs \ {p}}}

\* When nothing is under way every file of an installed package is reached through its
\* path, whatever was installed, replaced, upgraded, removed or purged before.  Excepted
\* are the libraries of a smart install and the files a package keeps below /etc/<name>
\* or /var/lib/<name> of another one, which goes as a whole when that one is purged.
InstalledLinked ==
  Quiet => \A p \in Installed : \A f \in FilesOf[rows[p]] \ (Libraries \cup AtRisk(p)) :
             View[f] = HashOf[rows[p]]

\* The database a restarted daemon reads pairs every installed package with its
\* files: "the system is never left in an inconsistent state" (docs/principles.md).
DurableTablesAgree ==
  \A p \in Pkgs : IF durable.rows[p] # None THEN FilesOf[durable.rows[p]] \subseteq durable.owned[p]
                  ELSE durable.owned[p] = {}

\* An install or upgrade that is answered as done has its package on record, and what
\* the process records is what a restarted daemon reads, whatever failed before it: no
\* request commits into the transaction that an earlier failed upgrade has left open on
\* the connection, to be lost with it ("Every install, remove, or upgrade is an atomic
\* transaction", docs/principles.md).
SuccessDurable ==
  [][\A r \in Requests : (pc[r] = "cleanup" /\ pc'[r] = "done") =>
       /\ rows'[req[r].pkg] # None
       /\ durable' = [rows |-> rows', owned |-> owned']]_vars

\* An install that fails, at whatever step, leaves the rows as they were when it took
\* the write lock, every path of an installed package resolving to what it did, and
\* no path resolving to something new ("install either fully succeeds or fully rolls
\* back", docs/architecture.md).
FailureInvisible ==
  [][\A r \in Requests : (writer = r /\ pc'[r] = "failed") =>
       /\ rows' = before.rows
       /\ \A f \in Paths :
            \/ View'[f] = before.view[f]
            \/ View'[f] = None /\ \A p \in Installed : f \notin FilesOf[rows[p]]]_vars

\* What a restarted daemon reads changes by whole transactions only.
PackageDb == INSTANCE SpmPackageDb WITH installed <- durable.rows, files <- durable.owned
WholeTransactions == PackageDb!Spec

\* Every request that arrives is answered.
RequestsEnd == \A r \in Requests : (pc[r] \notin Ended) ~> (pc[r] \in Ended)
=============================================================================
