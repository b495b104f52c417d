--------------------------- MODULE SpmEngineProofs ---------------------------
(***************************************************************************)
(* What holds of SpmEngine for every set of packages, builds and requests, *)
(* however many requests arrive: its types and that no package is fetched  *)
(* twice, whatever faults there are; its two tables; and which faults can  *)
(* leave a transaction open.  Removals and upgrades interleave as they may *)
(* without making the tables disagree; installs and upgrades, whatever     *)
(* fails, implement the database of SpmPackageDb.                          *)
(*                                                                         *)
(* The second half is about the store and the links into it: which faults  *)
(* leave an installed package with its complete directory however many     *)
(* requests are under way; for requests that arrive one at a time, that no *)
(* directory is left which nothing refers to and that every file of an     *)
(* installed package is found at its path; and that a new package whose    *)
(* install fails leaves nothing behind.                                    *)
(***************************************************************************)
EXTENDS SpmEngine, TLAPS

\* The locations inside the write section.
Held == {"fetch", "copy", "copying", "link", "commit", "cleanup", "rollback", "files", "row", "gc"}

\* Only the writer is inside the write section, and every request under way has
\* its parameters.
Owner ==
  \A r \in Requests : /\ pc[r] \in Held => writer = r
                      /\ pc[r] # "idle" => req[r] \in ReqType
                      /\ pc[r] = "planned" /\ req[r].kind = "local" => req[r].build \in Builds

\* The position in the list of fetched packages is inside it while they are deployed,
\* and the package asked for, which is never skipped, is among those to fetch until
\* something is fetched.
Position ==
  /\ writer = None => cur = 1
  /\ \A r \in Requests :
       /\ pc[r] \in {"files", "row", "gc"} => cur = 1
       /\ pc[r] = "fetch" => cur = 1 /\ todo # {} /\ (req[r].pkg \in todo \/ Len(fetched) >= 1)
       /\ pc[r] \in {"copy", "copying", "link"} => cur <= Len(fetched)
       /\ pc[r] = "commit" => Len(fetched) >= 1 /\ cur = Len(fetched) + 1

TypeInv == TypeOK /\ Owner /\ Position

USE BuildsAssumption, ParametersAssumption, NoneAssumption DEF Held, Ended, Locations

\* The invariant holds before any request has arrived.
LEMMA TypeInit == Init => TypeInv
<1> SUFFICES ASSUME Init PROVE TypeInv
  OBVIOUS
<1>1. /\ dirs \subseteq Hashes /\ store \in [Hashes -> SUBSET Paths]
      /\ link \in [Paths -> Hashes \cup {None}] /\ scripts \in [Pkgs -> Builds \cup {None}]
  BY DEF Init
<1>2. /\ rows \in [Pkgs -> Builds \cup {None}] /\ owned \in [Pkgs -> SUBSET Paths]
      /\ durable \in Database /\ txn \in BOOLEAN
  BY DEF Init, Database
<1>3. pc \in [Requests -> Locations] /\ req \in [Requests -> ReqType \cup {None}]
  BY DEF Init
<1>4. /\ writer \in Requests \cup {None} /\ todo \subseteq Pkgs /\ removed \subseteq Pkgs
      /\ fetched \in Seq(Builds) /\ cur \in 1 .. Len(fetched) + 1 /\ made \subseteq Paths
      /\ guards \subseteq [hash : Hashes, links : SUBSET Paths]
      /\ infos \subseteq [pkg : Pkgs, hash : Hashes]
      /\ started \in 0 .. MaxStarts /\ faults \in 0 .. MaxFaults
  BY DEF Init
<1>5. Owner /\ Position
  BY DEF Init, Owner, Position
<1> QED BY <1>1, <1>2, <1>3, <1>4, <1>5 DEF TypeInv, TypeOK

\* A request as the reading half of a handler builds it.
LEMMA RequestType ==
  ASSUME NEW k \in AllKinds, NEW p \in Pkgs, NEW b \in Builds \cup {None},
         NEW rep \in BOOLEAN, NEW sm \in BOOLEAN
  PROVE  Request(k, p, b, rep, sm) \in ReqType
  BY DEF Request, ReqType

\* The arrival of a request changes its own slots only.
LEMMA TypeReceive ==
  ASSUME TypeInv, NEW r \in Requests, NEW q \in ReqType, NEW l \in {"planned", "deleting", "failed"},
         l = "planned" /\ q.kind = "local" => q.build \in Builds,
         Receive(r, q, l)
  PROVE  TypeInv'
<1>1. TypeOK'
  BY DEF TypeInv, TypeOK, Receive, Goto, disk, database, locals
<1>2. Owner'
  BY DEF TypeInv, TypeOK, Owner, Receive, Goto, disk, database, locals
<1>3. Position'
  BY DEF TypeInv, TypeOK, Position, Receive, Goto, disk, database, locals
<1> QED BY <1>1, <1>2, <1>3 DEF TypeInv

\* Every kind of request arrives with parameters of the right type.
LEMMA TypeArrive == ASSUME TypeInv, NEW r \in Requests, Arrive(r) PROVE TypeInv'
<1>1. ASSUME NEW p \in Pkgs, NEW rep \in Replaces, NEW sm \in Smarts, PlanInstall(r, p, rep, sm)
      PROVE  TypeInv'
  <2> DEFINE q == Request("install", p, None, rep, sm)
  <2>1. q \in ReqType
    BY RequestType DEF AllKinds
  <2>2. [q EXCEPT !.remove = {p} \cap Installed] \in ReqType
    BY <2>1 DEF ReqType
  <2>3. [q EXCEPT !.remove = {p} \cap Installed].kind # "local"
    BY DEF Request
  <2> QED BY <1>1, <2>2, <2>3, TypeReceive DEF PlanInstall
<1>2. ASSUME NEW b \in Builds, NEW rep \in Replaces, PlanLocal(r, b, rep) PROVE TypeInv'
  <2>1. Request("local", PkgOf[b], b, rep, FALSE) \in ReqType
    BY RequestType DEF AllKinds
  <2>2. Request("local", PkgOf[b], b, rep, FALSE).build \in Builds
    BY DEF Request
  <2> QED BY <1>2, <2>1, <2>2, TypeReceive DEF PlanLocal
<1>3. ASSUME NEW p \in Pkgs, PlanUpgrade(r, p) PROVE TypeInv'
  <2>1. Request("upgrade", p, None, TRUE, FALSE) \in ReqType
    BY RequestType DEF AllKinds
  <2>2. Request("upgrade", p, None, TRUE, FALSE).kind # "local"
    BY DEF Request
  <2> QED BY <1>3, <2>1, <2>2, TypeReceive DEF PlanUpgrade
<1>4. ASSUME NEW p \in Pkgs, NEW k \in {"remove", "purge"}, ReadRemove(r, p, k) PROVE TypeInv'
  <2>1. CASE p \in Installed
    <3> DEFINE q == Request(k, p, rows[p], FALSE, FALSE)
    <3>1. rows[p] \in Builds /\ owned[p] \in SUBSET Paths
      BY <2>1 DEF TypeInv, TypeOK, Installed
    <3>2. q \in ReqType
      BY <3>1, RequestType DEF AllKinds
    <3>3. (IF k = "purge" THEN DirsToCleanup(p) ELSE {}) \in SUBSET Home
      BY DEF DirsToCleanup
    <3>4. [q EXCEPT !.hash = HashOf[rows[p]], !.files = owned[p],
                    !.homes = IF k = "purge" THEN DirsToCleanup(p) ELSE {}] \in ReqType
      BY <3>1, <3>2, <3>3 DEF ReqType
    <3> HIDE DEF q
    <3> QED BY <1>4, <2>1, <3>4, TypeReceive DEF ReadRemove, q
  <2>2. CASE p \notin Installed
    <3>1. Request(k, p, None, FALSE, FALSE) \in ReqType
      BY RequestType DEF AllKinds
    <3> QED BY <1>4, <2>2, <3>1, TypeReceive DEF ReadRemove
  <2> QED BY <2>1, <2>2
<1> QED BY <1>1, <1>2, <1>3, <1>4 DEF Arrive

\* A request that leaves the write lock as it took it.
LEMMA TypeRefuse ==
  ASSUME TypeInv, NEW r \in Requests, NEW l \in {"done", "failed"}, pc[r] # "idle", Refuse(r, l)
  PROVE  TypeInv'
<1> USE DEF Refuse, Goto, disk, database, locals, bounds
<1>1. TypeOK'
  BY DEF TypeInv, TypeOK
<1>2. Owner'
  BY DEF TypeInv, TypeOK, Owner
<1>3. Position'
  BY DEF TypeInv, TypeOK, Position
<1> QED BY <1>1, <1>2, <1>3 DEF TypeInv

\* The write section begins at the first fetched package, or with one to fetch.
LEMMA TypeEnter ==
  ASSUME TypeInv, NEW r \in Requests, NEW l \in {"fetch", "copy", "files"},
         NEW names \in SUBSET Pkgs, NEW gone \in SUBSET Pkgs, NEW new \in Seq(Builds),
         writer = None, pc[r] # "idle",
         l = "fetch" => req[r].pkg \in names,
         l = "copy" => Len(new) = 1,
         Enter(r, l, names, gone, new)
  PROVE  TypeInv'
<1> USE DEF Enter, Goto, disk, database, bounds
<1>1. cur = 1
  BY DEF TypeInv, Position
<1>2. TypeOK'
  BY <1>1 DEF TypeInv, TypeOK
<1>3. Owner'
  BY DEF TypeInv, TypeOK, Owner
<1>4. Position'
  <2>1. \A t \in Requests : t # r => pc'[t] = pc[t] /\ pc[t] \notin Held
    BY DEF TypeInv, TypeOK, Owner
  <2>2. pc'[r] = l
    BY DEF TypeInv, TypeOK
  <2>3. writer' = r /\ r # None /\ req' = req /\ cur' = 1 /\ todo' = names /\ fetched' = new
    BY <1>1
  <2>4. Len(new) \in Nat
    OBVIOUS
  <2>5. ASSUME l = "copy" PROVE 1 <= Len(new)
    <3>1. Len(new) = 1
      BY <2>5
    <3> QED BY <3>1
  <2> QED BY <2>1, <2>2, <2>3, <2>4, <2>5 DEF Position
<1> QED BY <1>2, <1>3, <1>4 DEF TypeInv

\* The three operations that deploy files enter the write section with a list of names or
\* with one build.
LEMMA TypeLockInstall == ASSUME TypeInv, NEW r \in Requests, LockInstall(r) PROVE TypeInv'
<1> DEFINE names == DepsOf[req[r].pkg] \cup {req[r].pkg}
<1>1. req[r] \in ReqType /\ pc[r] # "idle"
  BY DEF LockInstall, TypeInv, Owner
<1>2. names \in SUBSET Pkgs /\ req[r].pkg \in names /\ req[r].remove \in SUBSET Pkgs
  BY <1>1 DEF ReqType
<1>3. CASE Refuse(r, "failed")
  BY <1>1, <1>3, TypeRefuse
<1>4. CASE Enter(r, "fetch", names, req[r].remove, << >>)
  <2>1. writer = None /\ "fetch" \in {"fetch", "copy", "files"} /\ "fetch" # "copy" /\ << >> \in Seq(Builds)
    BY DEF LockInstall
  <2> HIDE DEF names
  <2> QED BY <1>1, <1>2, <1>4, <2>1, TypeEnter
<1> QED BY <1>3, <1>4 DEF LockInstall

LEMMA TypeLockLocal == ASSUME TypeInv, NEW r \in Requests, LockLocal(r) PROVE TypeInv'
<1> DEFINE gone == ({req[r].pkg} \cup ObsoletesOf[req[r].build]) \cap Installed
<1>1. req[r] \in ReqType /\ pc[r] # "idle" /\ req[r].build \in Builds /\ writer = None
  BY DEF LockLocal, TypeInv, Owner
<1>2. gone \in SUBSET Pkgs /\ <<req[r].build>> \in Seq(Builds) /\ Len(<<req[r].build>>) = 1
  BY <1>1 DEF Installed
<1>3. CASE Refuse(r, "failed")
  BY <1>1, <1>3, TypeRefuse
<1>4. CASE Enter(r, "copy", {}, gone, <<req[r].build>>)
  <2>1. "copy" \in {"fetch", "copy", "files"} /\ "copy" # "fetch" /\ {} \in SUBSET Pkgs
    OBVIOUS
  <2> HIDE DEF gone
  <2> QED BY <1>1, <1>2, <1>4, <2>1, TypeEnter
<1> QED BY <1>3, <1>4 DEF LockLocal

LEMMA TypeLockUpgrade == ASSUME TypeInv, NEW r \in Requests, LockUpgrade(r) PROVE TypeInv'
<1>1. req[r] \in ReqType /\ pc[r] # "idle" /\ writer = None
  BY DEF LockUpgrade, TypeInv, Owner
<1>2. CASE Refuse(r, "done") \/ Refuse(r, "failed")
  BY <1>1, <1>2, TypeRefuse
<1>3. ASSUME NEW b \in BuildsOf(req[r].pkg), Enter(r, "copy", {}, {req[r].pkg}, <<b>>)
      PROVE  TypeInv'
  <2>1. {req[r].pkg} \in SUBSET Pkgs
    BY <1>1 DEF ReqType
  <2>2. <<b>> \in Seq(Builds) /\ Len(<<b>>) = 1
    BY DEF BuildsOf
  <2>3. "copy" \in {"fetch", "copy", "files"} /\ "copy" # "fetch" /\ {} \in SUBSET Pkgs
    OBVIOUS
  <2> QED BY <1>1, <1>3, <2>1, <2>2, <2>3, TypeEnter
<1> QED BY <1>2, <1>3 DEF LockUpgrade

\* A removal enters it with neither.
LEMMA TypeLockRemove == ASSUME TypeInv, NEW r \in Requests, LockRemove(r) PROVE TypeInv'
<1>1. /\ "files" \in {"fetch", "copy", "files"} /\ "files" # "fetch" /\ "files" # "copy"
      /\ {} \in SUBSET Pkgs /\ << >> \in Seq(Builds)
      /\ writer = None /\ pc[r] # "idle" /\ Enter(r, "files", {}, {}, << >>)
  BY DEF LockRemove
<1> QED BY <1>1, TypeEnter

\* The package asked for is fetched when its turn comes, so there is a package to
\* deploy when no name is left.
LEMMA TypeFetch == ASSUME TypeInv, NEW r \in Requests, Fetch(r) PROVE TypeInv'
<1>1. /\ writer = r /\ pc[r] = "fetch" /\ cur = 1 /\ fetched \in Seq(Builds) /\ Len(fetched) \in Nat
      /\ req[r].pkg \in todo \/ Len(fetched) >= 1
  BY DEF Fetch, TypeInv, TypeOK, Position
<1>2. PICK p \in todo :
        /\ todo' = todo \ {p} /\ Goto(r, IF todo = {p} THEN "copy" ELSE "fetch")
        /\ \/ p # req[r].pkg /\ UNCHANGED <<removed, fetched>>
           \/ \E b \in Builds : removed' \subseteq Pkgs /\ fetched' = Append(fetched, b)
  <2>1. removed \subseteq Pkgs /\ Installed \subseteq Pkgs
    BY DEF TypeInv, TypeOK, Installed
  <2>2. \A b, gone : Conflicts(b, gone) \subseteq Pkgs
    BY DEF Conflicts
  <2> QED BY <2>1, <2>2 DEF Fetch, BuildsOf
<1>3. UNCHANGED <<dirs, store, link, scripts, rows, owned, durable, txn, req, writer, cur, made, guards, infos, started, faults>>
  BY DEF Fetch, disk, database, bounds
<1>4. /\ fetched' \in Seq(Builds) /\ Len(fetched') \in Nat /\ Len(fetched') >= Len(fetched)
      /\ p = req[r].pkg => Len(fetched') >= 1
  <2>1. CASE p # req[r].pkg /\ fetched' = fetched
    BY <1>1, <2>1
  <2>2. ASSUME NEW b \in Builds, fetched' = Append(fetched, b)
        PROVE  /\ fetched' \in Seq(Builds) /\ Len(fetched') \in Nat /\ Len(fetched') >= Len(fetched)
               /\ Len(fetched') >= 1
    BY <1>1, <2>2
  <2> QED BY <1>2, <2>1, <2>2
<1>5. TypeOK'
  <2>1. pc' \in [Requests -> Locations] /\ todo' \subseteq Pkgs /\ removed' \subseteq Pkgs
    BY <1>2 DEF Goto, TypeInv, TypeOK
  <2>2. cur' \in 1 .. Len(fetched') + 1
    BY <1>1, <1>3, <1>4
  <2> QED BY <1>3, <1>4, <2>1, <2>2 DEF TypeInv, TypeOK
<1>6. Owner'
  BY <1>1, <1>2, <1>3 DEF Goto, TypeInv, TypeOK, Owner
<1>7. Position'
  <2>1. \A t \in Requests : t # r => pc'[t] \notin Held
    BY <1>1, <1>2 DEF Goto, TypeInv, TypeOK, Owner
  <2>2. pc'[r] = (IF todo' = {} THEN "copy" ELSE "fetch") /\ writer' = r /\ cur' = 1 /\ req' = req
    BY <1>1, <1>2, <1>3 DEF Goto, TypeInv, TypeOK
  <2>3. todo' = {} => Len(fetched') >= 1
    BY <1>1, <1>2, <1>4
  <2>4. req[r].pkg \in todo' \/ Len(fetched') >= 1
    BY <1>1, <1>2, <1>4
  <2> QED BY <1>4, <2>1, <2>2, <2>3, <2>4 DEF Position
<1> QED BY <1>5, <1>6, <1>7 DEF TypeInv

\* The statements of an upgrade that ran before one failed.
LEMMA TypeUpgradeCommitFails ==
  ASSUME TypeInv, NEW r \in Requests, UpgradeCommitFails(r) PROVE TypeInv'
<1> USE DEF UpgradeCommitFails, Goto, Fault, disk, locals
<1>1. fetched[1] \in Builds /\ FilesOf[fetched[1]] \in SUBSET Paths
  BY DEF TypeInv, TypeOK, Position
<1>2. rows' \in [Pkgs -> Builds \cup {None}] /\ owned' \in [Pkgs -> SUBSET Paths]
  BY <1>1 DEF TypeInv, TypeOK
<1>3. TypeOK'
  BY <1>2 DEF TypeInv, TypeOK
<1>4. Owner'
  BY DEF TypeInv, TypeOK, Owner
<1>5. Position'
  BY DEF TypeInv, TypeOK, Owner, Position
<1> QED BY <1>3, <1>4, <1>5 DEF TypeInv

\* A deletion that fails takes no link, or some below a directory.
LEMMA FailedDeletion ==
  ASSUME NEW r, DeleteFails(r)
  PROVE  \/ link' = link
         \/ \E d \in req[r].homes : \E gone \in SUBSET d.below :
              link' = [f \in Paths |-> IF f \in gone THEN None ELSE link[f]]
<1>1. CASE \E f \in req[r].files : req' = [req EXCEPT ![r].files = @ \ {f}, ![r].error = TRUE] /\ UNCHANGED link
  BY <1>1
<1>2. CASE \E d \in req[r].homes : \E gone \in SUBSET d.below :
             /\ link' = [f \in Paths |-> IF f \in gone THEN None ELSE link[f]]
             /\ req' = [req EXCEPT ![r].homes = @ \ {d}, ![r].error = TRUE]
  <2>1. PICK d \in req[r].homes : \E gone \in SUBSET d.below :
               /\ link' = [f \in Paths |-> IF f \in gone THEN None ELSE link[f]]
               /\ req' = [req EXCEPT ![r].homes = @ \ {d}, ![r].error = TRUE]
    BY <1>2
  <2>2. PICK gone \in SUBSET d.below : link' = [f \in Paths |-> IF f \in gone THEN None ELSE link[f]]
    BY <2>1
  <2> QED BY <2>2
<1> QED BY Zenon, <1>1, <1>2 DEF DeleteFails

\* A removal has a file or a directory less to delete; links go, and none comes.
LEMMA Deleting ==
  ASSUME TypeInv, NEW r \in Requests, DeleteFile(r) \/ DeleteHome(r) \/ DeleteFails(r)
  PROVE  /\ pc[r] = "deleting"
         /\ UNCHANGED <<dirs, store, scripts, rows, owned, durable, txn, pc, writer, todo, removed,
                        fetched, cur, made, guards, infos, before, started>>
         /\ \A t \in Requests : t # r => req'[t] = req[t]
         /\ req'[r] \in ReqType /\ req' \in [Requests -> ReqType \cup {None}]
         /\ req'[r].kind = req[r].kind /\ req'[r].pkg = req[r].pkg /\ req'[r].build = req[r].build
         /\ req'[r].hash = req[r].hash /\ req'[r].remove = req[r].remove
         /\ req'[r].replace = req[r].replace /\ req'[r].smart = req[r].smart
         /\ link' \in [Paths -> Hashes \cup {None}]
         /\ \A f \in Paths : link'[f] \in {link[f], None}
         /\ faults' \in 0 .. MaxFaults
<1> USE DEF disk, database, locals, bounds
<1>1. /\ req[r] \in ReqType /\ req \in [Requests -> ReqType \cup {None}] /\ pc[r] = "deleting"
      /\ link \in [Paths -> Hashes \cup {None}] /\ faults \in 0 .. MaxFaults
  BY DEF TypeInv, TypeOK, Owner, DeleteFile, DeleteHome, DeleteFails
<1>2. UNCHANGED <<dirs, store, scripts, rows, owned, durable, txn, pc, writer, todo, removed,
                  fetched, cur, made, guards, infos, before, started>>
  BY DEF DeleteFile, DeleteHome, DeleteFails, Fault
<1>3. faults' \in 0 .. MaxFaults
  BY <1>1 DEF DeleteFile, DeleteHome, DeleteFails, Fault
<1>4. \E fs \in SUBSET Paths, ds \in SUBSET Home, e \in BOOLEAN :
         req' = [req EXCEPT ![r] = [req[r] EXCEPT !.files = fs, !.homes = ds, !.error = e]]
  <2>1. ASSUME NEW x \in req[r].files, req' = [req EXCEPT ![r].files = @ \ {x}]
        PROVE  req' = [req EXCEPT ![r] = [req[r] EXCEPT !.files = req[r].files \ {x}, !.homes = req[r].homes,
                                                        !.error = req[r].error]]
    BY <1>1, <2>1 DEF ReqType
  <2>2. ASSUME NEW x \in req[r].files, req' = [req EXCEPT ![r].files = @ \ {x}, ![r].error = TRUE]
        PROVE  req' = [req EXCEPT ![r] = [req[r] EXCEPT !.files = req[r].files \ {x}, !.homes = req[r].homes,
                                                        !.error = TRUE]]
    BY <1>1, <2>2 DEF ReqType
  <2>3. ASSUME NEW d \in req[r].homes, req' = [req EXCEPT ![r].homes = @ \ {d}]
        PROVE  req' = [req EXCEPT ![r] = [req[r] EXCEPT !.files = req[r].files, !.homes = req[r].homes \ {d},
                                                        !.error = req[r].error]]
    BY <1>1, <2>3 DEF ReqType
  <2>4. ASSUME NEW d \in req[r].homes, req' = [req EXCEPT ![r].homes = @ \ {d}, ![r].error = TRUE]
        PROVE  req' = [req EXCEPT ![r] = [req[r] EXCEPT !.files = req[r].files, !.homes = req[r].homes \ {d},
                                                        !.error = TRUE]]
    BY <1>1, <2>4 DEF ReqType
  <2>5. \/ \E x \in req[r].files : \/ req' = [req EXCEPT ![r].files = @ \ {x}]
                                   \/ req' = [req EXCEPT ![r].files = @ \ {x}, ![r].error = TRUE]
        \/ \E d \in req[r].homes : \/ req' = [req EXCEPT ![r].homes = @ \ {d}]
                                   \/ req' = [req EXCEPT ![r].homes = @ \ {d}, ![r].error = TRUE]
    BY Zenon DEF DeleteFile, DeleteHome, DeleteFails
  <2>6. /\ req[r].files \in SUBSET Paths /\ req[r].homes \in SUBSET Home /\ req[r].error \in BOOLEAN
        /\ \A x : req[r].files \ {x} \in SUBSET Paths /\ req[r].homes \ {x} \in SUBSET Home
    BY <1>1 DEF ReqType
  <2>7. CASE \E x \in req[r].files : \/ req' = [req EXCEPT ![r].files = @ \ {x}]
                                     \/ req' = [req EXCEPT ![r].files = @ \ {x}, ![r].error = TRUE]
    BY <2>1, <2>2, <2>6, <2>7
  <2>8. CASE \E d \in req[r].homes : \/ req' = [req EXCEPT ![r].homes = @ \ {d}]
                                     \/ req' = [req EXCEPT ![r].homes = @ \ {d}, ![r].error = TRUE]
    BY <2>3, <2>4, <2>6, <2>8
  <2> QED BY <2>5, <2>7, <2>8
<1>5. PICK fs \in SUBSET Paths, ds \in SUBSET Home, e \in BOOLEAN :
         req' = [req EXCEPT ![r] = [req[r] EXCEPT !.files = fs, !.homes = ds, !.error = e]]
  BY <1>4
<1>6. [req[r] EXCEPT !.files = fs, !.homes = ds, !.error = e] \in ReqType
  BY <1>1 DEF ReqType
<1>7. req'[r] = [req[r] EXCEPT !.files = fs, !.homes = ds, !.error = e]
  BY <1>1, <1>5
<1>8. /\ req'[r].kind = req[r].kind /\ req'[r].pkg = req[r].pkg /\ req'[r].build = req[r].build
      /\ req'[r].hash = req[r].hash /\ req'[r].remove = req[r].remove
      /\ req'[r].replace = req[r].replace /\ req'[r].smart = req[r].smart
  BY <1>1, <1>7 DEF ReqType
<1>9. /\ \A t \in Requests : t # r => req'[t] = req[t]
      /\ req'[r] \in ReqType /\ req' \in [Requests -> ReqType \cup {None}]
  BY <1>1, <1>5, <1>6
<1>10. /\ link' \in [Paths -> Hashes \cup {None}]
       /\ \A f \in Paths : link'[f] \in {link[f], None}
  <2>1. \/ link' = link \/ \E g \in req[r].files : link' = [link EXCEPT ![g] = None]
        \/ \E gone \in SUBSET Paths : link' = [f \in Paths |-> IF f \in gone THEN None ELSE link[f]]
    <3>1. CASE DeleteFile(r)
      BY <3>1 DEF DeleteFile
    <3>2. \A d \in req[r].homes : d.below \in SUBSET Paths
      BY <1>1 DEF ReqType, Home
    <3>3. CASE DeleteHome(r)
      BY <3>2, <3>3 DEF DeleteHome
    <3>4. CASE DeleteFails(r)
      <4>1. link' = link \/ \E d \in req[r].homes : \E gone \in SUBSET d.below :
                              link' = [f \in Paths |-> IF f \in gone THEN None ELSE link[f]]
        BY <3>4, FailedDeletion
      <4>2. ASSUME NEW d \in req[r].homes, NEW gone \in SUBSET d.below PROVE gone \in SUBSET Paths
        BY <3>2
      <4> QED BY <4>1, <4>2
    <3> QED BY <3>1, <3>3, <3>4
  <2> QED BY <1>1, <2>1
<1> QED BY <1>1, <1>2, <1>3, <1>8, <1>9, <1>10

\* So the types are kept.
LEMMA TypeDelete ==
  ASSUME TypeInv, NEW r \in Requests, DeleteFile(r) \/ DeleteHome(r) \/ DeleteFails(r)
  PROVE  TypeInv'
<1>1. \A t \in Requests : /\ req'[t].pkg = req[t].pkg /\ req'[t].kind = req[t].kind
                          /\ req'[t].build = req[t].build
                          /\ req[t] \in ReqType => req'[t] \in ReqType
  BY Deleting
<1>2. TypeOK'
  BY <1>1, Deleting DEF TypeInv, TypeOK
<1>3. Owner'
  BY <1>1, Deleting DEF TypeInv, Owner
<1>4. Position'
  BY <1>1, Deleting DEF TypeInv, Position
<1> QED BY <1>2, <1>3, <1>4 DEF TypeInv

\* The directory of a removed package.
LEMMA TypeGcRemoved == ASSUME TypeInv, NEW r \in Requests, GcRemoved(r) PROVE TypeInv'
<1> USE DEF GcRemoved, Unlock, Goto, database, bounds
<1>1. dirs' \subseteq Hashes /\ store' \in [Hashes -> SUBSET Paths]
  BY DEF GcStore, RemoveStore, TypeInv, TypeOK
<1>2. TypeOK'
  BY <1>1 DEF TypeInv, TypeOK
<1>3. Owner'
  BY DEF TypeInv, TypeOK, Owner
<1>4. Position'
  BY DEF TypeInv, TypeOK, Owner, Position
<1> QED BY <1>2, <1>3, <1>4 DEF TypeInv

\* Deploying the fetched builds, committing and cleaning up.
LEMMA TypeDeploy == ASSUME TypeInv, NEW r \in Requests, Deploy(r) PROVE TypeInv'
<1> USE DEF Goto, disk, database, locals, bounds
<1> SUFFICES TypeOK' /\ Owner' /\ Position'
  BY DEF TypeInv
<1>1. CASE ReuseStore(r)
  BY <1>1 DEF ReuseStore, TypeInv, TypeOK, Owner, Position
<1>2. CASE CopyBegin(r)
  BY <1>2 DEF CopyBegin, Build, Hash, TypeInv, TypeOK, Owner, Position
<1>3. CASE CopyEnd(r)
  BY <1>3 DEF CopyEnd, Build, Hash, TypeInv, TypeOK, Owner, Position
<1>4. CASE LinkOne(r)
  BY <1>4 DEF LinkOne, ToLink, Build, Hash, TypeInv, TypeOK, Owner, Position
<1>5. CASE SaveScripts(r)
  BY <1>5 DEF SaveScripts, Build, Hash, TypeInv, TypeOK, Owner, Position
<1>6. CASE Commit(r)
  BY <1>6 DEF Commit, NewOf, NewBuilds, Installed, Database, TypeInv, TypeOK, Owner, Position
<1>7. CASE CommitFails(r)
  BY <1>7 DEF CommitFails, Fault, TypeInv, TypeOK, Owner, Position
<1>8. CASE CleanupRemoved(r)
  BY <1>8 DEF CleanupRemoved, GcStore, RemoveStore, TypeInv, TypeOK, Owner, Position
<1>9. CASE Finish(r)
  BY <1>9 DEF Finish, Unlock, TypeInv, TypeOK, Owner, Position
<1> QED BY <1>1, <1>2, <1>3, <1>4, <1>5, <1>6, <1>7, <1>8, <1>9 DEF Deploy

\* Leaving the write section after an error.
LEMMA TypeUndo ==
  ASSUME TypeInv, NEW r \in Requests, FetchFails(r) \/ DropGuard(r) \/ RolledBack(r)
  PROVE  TypeInv'
<1> USE DEF Goto, disk, database, locals, bounds
<1> SUFFICES TypeOK' /\ Owner' /\ Position'
  BY DEF TypeInv
<1>1. CASE FetchFails(r)
  BY <1>1 DEF FetchFails, Unlock, TypeInv, TypeOK, Owner, Position
<1>2. CASE DropGuard(r)
  BY <1>2 DEF DropGuard, RemoveStore, TypeInv, TypeOK, Owner, Position
<1>3. CASE RolledBack(r)
  BY <1>3 DEF RolledBack, Unlock, TypeInv, TypeOK, Owner, Position
<1> QED BY <1>1, <1>2, <1>3

\* The steps of a removal that touch neither a file nor the store.
LEMMA TypeRemoval ==
  ASSUME TypeInv, NEW r \in Requests, Deleted(r) \/ DeleteFileRows(r) \/ DeleteRow(r)
  PROVE  TypeInv'
<1> USE DEF Goto, disk, database, locals, bounds
<1> SUFFICES TypeOK' /\ Owner' /\ Position'
  BY DEF TypeInv
<1>1. CASE Deleted(r)
  BY <1>1 DEF Deleted, ReqType, TypeInv, TypeOK, Owner, Position
<1>2. CASE DeleteFileRows(r)
  BY <1>2 DEF DeleteFileRows, Statement, Database, TypeInv, TypeOK, Owner, Position
<1>3. CASE DeleteRow(r)
  BY <1>3 DEF DeleteRow, Statement, Database, TypeInv, TypeOK, Owner, Position
<1> QED BY <1>1, <1>2, <1>3

\* The failures that leave the parameters of the request and the tables alone.
LEMMA TypeFail ==
  ASSUME TypeInv, NEW r \in Requests, CopyFails(r) \/ LinkFails(r) \/ SaveFails(r) \/ StatementFails(r)
  PROVE  TypeInv'
<1> USE DEF Goto, disk, database, locals, bounds
<1> SUFFICES TypeOK' /\ Owner' /\ Position'
  BY DEF TypeInv
<1>1. CASE CopyFails(r)
  BY <1>1 DEF CopyFails, Fault, TypeInv, TypeOK, Owner, Position
<1>2. CASE LinkFails(r)
  BY <1>2 DEF LinkFails, Fault, Build, Hash, TypeInv, TypeOK, Owner, Position
<1>3. CASE SaveFails(r)
  BY <1>3 DEF SaveFails, Fault, Build, Hash, TypeInv, TypeOK, Owner, Position
<1>4. CASE StatementFails(r)
  BY <1>4 DEF StatementFails, TypeInv, TypeOK, Owner, Position
<1> QED BY <1>1, <1>2, <1>3, <1>4

\* A restart finds the tables as they were committed and no request under way.
LEMMA TypeCrash == ASSUME TypeInv, Crash PROVE TypeInv'
<1> USE DEF Crash, Fault, disk
<1>1. TypeOK'
  <2>1. pc' \in [Requests -> Locations]
    BY DEF TypeInv, TypeOK
  <2>2. rows' \in [Pkgs -> Builds \cup {None}] /\ owned' \in [Pkgs -> SUBSET Paths]
    BY DEF TypeInv, TypeOK, Database
  <2>3. /\ writer' = None /\ todo' = {} /\ removed' = {} /\ fetched' = << >> /\ cur' = 1
        /\ made' = {} /\ guards' = {} /\ infos' = {} /\ faults' \in 0 .. MaxFaults
    BY DEF TypeInv, TypeOK
  <2>4. todo' \subseteq Pkgs /\ fetched' \in Seq(Builds) /\ cur' \in 1 .. Len(fetched') + 1
    BY <2>3
  <2> QED BY <2>1, <2>2, <2>3, <2>4 DEF TypeInv, TypeOK
<1>2. Owner'
  BY DEF TypeInv, TypeOK, Owner
<1>3. Position'
  BY DEF TypeInv, TypeOK, Position
<1> QED BY <1>1, <1>2, <1>3 DEF TypeInv

LEMMA TypeStutter == ASSUME TypeInv, UNCHANGED vars PROVE TypeInv'
  BY DEF TypeInv, TypeOK, Owner, Position, vars, disk, database, locals, bounds

\* The invariant is inductive.
LEMMA TypeNext == TypeInv /\ [Next]_vars => TypeInv'
<1> SUFFICES ASSUME TypeInv, [Next]_vars PROVE TypeInv'
  OBVIOUS
<1>1. ASSUME NEW r \in Requests, Step(r) PROVE TypeInv'
  BY <1>1, TypeLockInstall, TypeLockLocal, TypeLockUpgrade, TypeFetch, TypeDeploy, TypeUndo,
     TypeDelete, TypeRemoval, TypeLockRemove, TypeGcRemoved DEF Step
<1>2. ASSUME NEW r \in Requests, Fail(r) PROVE TypeInv'
  BY <1>2, TypeFail, TypeUpgradeCommitFails, TypeDelete DEF Fail
<1> QED BY <1>1, <1>2, TypeArrive, TypeCrash, TypeStutter DEF Next

\* The invariant on which the others rest.
LEMMA TypeInvariant == Spec => []TypeInv
  BY TypeInit, TypeNext, PTL DEF Spec

\* Every variable keeps its type: positions stay inside their lists and what a
\* handler has read belongs to the request it serves, whatever fails.
THEOREM Typing == Spec => []TypeOK
<1>1. TypeInv => TypeOK
  BY DEF TypeInv
<1> QED BY <1>1, TypeInvariant, PTL

-----------------------------------------------------------------------------
(* Who leaves a transaction open. *)

\* A commit that fails rolls back, unless it is that of an upgrade.
CommitsRollBack == "upgrade" \notin Kinds \/ "commit" \notin Faults

\* No transaction is open between two steps, and a request is of a kind that arrives.
Closed == ~txn /\ \A r \in Requests : pc[r] # "idle" => req[r].kind \in Kinds

\* Steps that open no transaction and change no kind.
LEMMA ClosedKept ==
  ASSUME Closed, ~txn',
         \A r \in Requests : pc'[r] # "idle" =>
            \/ pc[r] # "idle" /\ req'[r].kind = req[r].kind
            \/ req'[r].kind \in Kinds
  PROVE  Closed'
  BY DEF Closed

\* Only the failed commit of an upgrade opens a transaction.
LEMMA ClosedNext == ASSUME CommitsRollBack, TypeInv, Closed, [Next]_vars PROVE Closed'
<1> USE DEF Goto, disk, database, locals, bounds, Unlock
<1>1. ASSUME NEW r \in Requests, Arrive(r) PROVE Closed'
  <2>1. ASSUME NEW q, NEW l \in {"planned", "deleting", "failed"}, Receive(r, q, l) PROVE Closed'
    BY <2>1, ClosedKept DEF Receive, Closed, TypeInv, TypeOK
  <2> QED BY <1>1, <2>1 DEF Arrive, PlanInstall, PlanLocal, PlanUpgrade, ReadRemove
<1>2. ASSUME NEW r \in Requests,
             LockInstall(r) \/ LockLocal(r) \/ LockUpgrade(r) \/ LockRemove(r)
      PROVE  Closed'
  <2>1. UNCHANGED <<txn, req>> /\ pc[r] # "idle" /\ \E l : pc' = [pc EXCEPT ![r] = l]
    BY <1>2 DEF LockInstall, LockLocal, LockUpgrade, LockRemove, Refuse, Enter
  <2> QED BY <2>1, ClosedKept DEF Closed, TypeInv, TypeOK
<1>3. ASSUME NEW r \in Requests, Fetch(r) \/ FetchFails(r) \/ DropGuard(r) \/ RolledBack(r) PROVE Closed'
  BY <1>3, ClosedKept DEF Fetch, FetchFails, DropGuard, RolledBack, Closed, TypeInv, TypeOK
<1>4. ASSUME NEW r \in Requests, Deploy(r) PROVE Closed'
  <2>1. CASE ReuseStore(r) \/ CopyBegin(r) \/ CopyEnd(r) \/ LinkOne(r) \/ SaveScripts(r)
    BY <2>1, ClosedKept DEF ReuseStore, CopyBegin, CopyEnd, LinkOne, SaveScripts, Closed, TypeInv, TypeOK
  <2>2. CASE Commit(r) \/ CommitFails(r) \/ CleanupRemoved(r) \/ Finish(r)
    BY <2>2, ClosedKept DEF Commit, CommitFails, CleanupRemoved, Finish, Closed, TypeInv, TypeOK
  <2> QED BY <1>4, <2>1, <2>2 DEF Deploy
<1>5. ASSUME NEW r \in Requests, DeleteFile(r) \/ DeleteHome(r) \/ DeleteFails(r) PROVE Closed'
  <2>1. /\ UNCHANGED <<txn, pc>> /\ pc[r] = "deleting" /\ req'[r].kind = req[r].kind
        /\ \A t \in Requests : t # r => req'[t] = req[t]
    BY <1>5, Deleting
  <2> QED BY <2>1, ClosedKept DEF Closed
<1>6. ASSUME NEW r \in Requests,
             Deleted(r) \/ DeleteFileRows(r) \/ DeleteRow(r) \/ GcRemoved(r) \/ StatementFails(r)
      PROVE  Closed'
  BY <1>6, ClosedKept DEF Deleted, DeleteFileRows, DeleteRow, GcRemoved, StatementFails, Closed,
                          TypeInv, TypeOK
<1>7. ASSUME NEW r \in Requests, CopyFails(r) \/ LinkFails(r) \/ SaveFails(r) PROVE Closed'
  BY <1>7, ClosedKept DEF CopyFails, LinkFails, SaveFails, Fault, Closed, TypeInv, TypeOK
<1>8. ASSUME NEW r \in Requests, UpgradeCommitFails(r) PROVE FALSE
  BY <1>8 DEF CommitsRollBack, UpgradeCommitFails, Fault, Closed
<1>9. CASE Crash
  BY <1>9, ClosedKept DEF Crash, Closed, TypeInv, TypeOK
<1>10. CASE UNCHANGED vars
  BY <1>10, ClosedKept DEF vars, Closed
<1> QED BY <1>1, <1>2, <1>3, <1>4, <1>5, <1>6, <1>7, <1>8, <1>9, <1>10 DEF Next, Step, Fail

-----------------------------------------------------------------------------
(* What the process sees is durable. *)

\* Removals, which run their statements one by one, are left out.
WholeKinds == Kinds \cap {"remove", "purge"} = {}

\* No removal is under way, and unless a failed upgrade has left a transaction open, the
\* process sees what is durable.
Recorded ==
  /\ \A r \in Requests : pc[r] \notin {"deleting", "deleted", "files", "row", "gc"}
  /\ ~txn => durable = [rows |-> rows, owned |-> owned]

\* Removals excluded, what the process sees is durable whatever fails.
LEMMA RecordedNext == ASSUME WholeKinds, TypeInv, Recorded, [Next]_vars PROVE Recorded'
<1> USE DEF Goto, disk, database, locals, bounds
<1>1. ASSUME NEW r \in Requests, Arrive(r) PROVE Recorded'
  <2>1. ASSUME NEW q, NEW l \in {"planned", "failed"}, Receive(r, q, l) PROVE Recorded'
    BY <2>1 DEF Receive, Recorded, TypeInv, TypeOK
  <2>2. ASSUME NEW p \in Pkgs, NEW k \in {"remove", "purge"} PROVE ~ReadRemove(r, p, k)
    BY DEF ReadRemove, Receive, Request, WholeKinds
  <2> QED BY <1>1, <2>1, <2>2, ZenonT(40) DEF Arrive, PlanInstall, PlanLocal, PlanUpgrade
<1>2. ASSUME NEW r \in Requests, LockInstall(r) \/ LockLocal(r) \/ LockUpgrade(r) PROVE Recorded'
  <2>1. UNCHANGED <<rows, owned, durable, txn>> /\ \E l \in {"done", "failed", "fetch", "copy"} : pc' = [pc EXCEPT ![r] = l]
    BY <1>2 DEF LockInstall, LockLocal, LockUpgrade, Refuse, Enter
  <2> QED BY <2>1 DEF Recorded, TypeInv, TypeOK
<1>3. ASSUME NEW r \in Requests,
             \/ Fetch(r) \/ FetchFails(r) \/ DropGuard(r) \/ RolledBack(r) \/ Finish(r)
             \/ CleanupRemoved(r)
      PROVE  Recorded'
  BY <1>3 DEF Fetch, FetchFails, DropGuard, RolledBack, Finish, CleanupRemoved, Unlock,
              Recorded, TypeInv, TypeOK
<1>4. ASSUME NEW r \in Requests,
             \/ ReuseStore(r) \/ CopyBegin(r) \/ CopyEnd(r) \/ LinkOne(r) \/ SaveScripts(r)
             \/ CommitFails(r) \/ CopyFails(r) \/ LinkFails(r) \/ SaveFails(r)
      PROVE  Recorded'
  BY <1>4 DEF ReuseStore, CopyBegin, CopyEnd, LinkOne, SaveScripts, CommitFails,
              CopyFails, LinkFails, SaveFails, Recorded, TypeInv, TypeOK
<1>5. ASSUME NEW r \in Requests, Commit(r) \/ UpgradeCommitFails(r) PROVE Recorded'
  <2>1. /\ \E l \in {"cleanup", "rollback"} : pc' = [pc EXCEPT ![r] = l]
        /\ ~txn' => durable' = [rows |-> rows', owned |-> owned']
    BY <1>5 DEF Commit, UpgradeCommitFails
  <2> QED BY <2>1 DEF Recorded, TypeInv, TypeOK
<1>6. ASSUME NEW r \in Requests,
             \/ DeleteFile(r) \/ DeleteHome(r) \/ Deleted(r) \/ LockRemove(r) \/ DeleteFileRows(r)
             \/ DeleteRow(r) \/ GcRemoved(r) \/ DeleteFails(r) \/ StatementFails(r)
      PROVE  FALSE
  BY <1>6 DEF DeleteFile, DeleteHome, Deleted, LockRemove, DeleteFileRows, DeleteRow, GcRemoved, DeleteFails,
              StatementFails, Recorded
<1>7. CASE Crash
  <2>1. durable' = [rows |-> rows', owned |-> owned']
    BY <1>7 DEF Crash, TypeInv, TypeOK, Database
  <2>2. \A r \in Requests : pc'[r] = pc[r] \/ pc'[r] = "idle"
    BY <1>7 DEF Crash, TypeInv, TypeOK
  <2> QED BY <2>1, <2>2 DEF Recorded
<1>8. CASE UNCHANGED vars
  BY <1>8 DEF vars, Recorded
<1> QED BY <1>1, <1>2, <1>3, <1>4, <1>5, <1>6, <1>7, <1>8 DEF Next, Step, Fail, Deploy

-----------------------------------------------------------------------------
(* The tables agree, but for the package a removal is between its two      *)
(* statements for.                                                         *)

Paired(p) == IF rows[p] # None THEN FilesOf[rows[p]] \subseteq owned[p] ELSE owned[p] = {}

\* Only the writer is between the two statements; the files are gone, the row is there.
Pairing ==
  /\ \A p \in Pkgs : \/ Paired(p)
                     \/ \E r \in Requests : pc[r] = "row" /\ req[r].pkg = p
  /\ \A r \in Requests : pc[r] = "row" => owned[req[r].pkg] = {}

\* Faults that leave no half of a change to a table behind.
HarmlessForTables ==
  CommitsRollBack /\ (WholeKinds \/ Faults \cap {"statement", "crash"} = {})

\* The tables, and what makes a crash harmless to them.
Agreeing == Closed /\ (WholeKinds => Recorded) /\ Pairing

\* When the write lock is free nobody is between two statements.
LEMMA PairingAgrees == TypeInv /\ Pairing => TablesAgree
  BY DEF TypeInv, TypeOK, Owner, Pairing, Paired, TablesAgree, Unlocked, Installed

\* Steps that change no table and of no request between its statements.
LEMMA PairingKept ==
  ASSUME Pairing, UNCHANGED <<rows, owned>>,
         \A r \in Requests : (pc[r] = "row" \/ pc'[r] = "row") => pc'[r] = pc[r] /\ req'[r].pkg = req[r].pkg
  PROVE  Pairing'
<1>1. \A p : Paired(p)' = Paired(p)
  BY DEF Paired
<1>2. \A r \in Requests : pc[r] = "row" => pc'[r] = "row" /\ req'[r].pkg = req[r].pkg
  OBVIOUS
<1>3. \A r \in Requests : pc'[r] = "row" => pc[r] = "row" /\ req'[r].pkg = req[r].pkg
  OBVIOUS
<1>4. \A p \in Pkgs : Paired(p)' \/ \E r \in Requests : pc'[r] = "row" /\ req'[r].pkg = p
  BY <1>1, <1>2 DEF Pairing
<1>5. \A r \in Requests : pc'[r] = "row" => owned'[req'[r].pkg] = {}
  BY <1>3 DEF Pairing
<1> QED BY <1>4, <1>5 DEF Pairing

\* A new commit pairs every package: what comes has its files on record, what goes
\* without being replaced has none.
LEMMA PairingCommit == ASSUME TypeInv, Pairing, NEW r \in Requests, Commit(r) PROVE Pairing'
<1>1. \A t \in Requests : pc[t] # "row" /\ pc'[t] # "row"
  BY DEF Commit, Goto, TypeInv, TypeOK, Owner
<1>2. ASSUME NEW p \in Pkgs PROVE Paired(p)'
  <2>1. Paired(p) /\ rows \in [Pkgs -> Builds \cup {None}]
    BY <1>1 DEF Pairing, TypeInv, TypeOK
  <2>2. /\ rows'[p] = IF NewOf(p) # {} THEN CHOOSE b \in NewOf(p) : TRUE
                      ELSE IF p \in removed THEN None ELSE rows[p]
        /\ owned'[p] = (IF p \in removed \cap Installed THEN {} ELSE owned[p])
                       \cup UNION {FilesOf[b] : b \in NewOf(p)}
    BY DEF Commit
  <2>3. CASE NewOf(p) # {}
    <3>1. rows'[p] \in NewOf(p)
      BY <2>2, <2>3
    <3>2. rows'[p] \in Builds
      BY <3>1 DEF NewOf, NewBuilds, TypeInv, TypeOK
    <3>3. FilesOf[rows'[p]] \in {FilesOf[b] : b \in NewOf(p)}
      BY <3>1
    <3>4. rows'[p] # None /\ FilesOf[rows'[p]] \subseteq owned'[p]
      BY <2>2, <3>2, <3>3
    <3> QED BY <3>4 DEF Paired
  <2>4. CASE NewOf(p) = {}
    BY <2>1, <2>2, <2>4 DEF Paired, Installed
  <2> QED BY <2>3, <2>4
<1> QED BY <1>1, <1>2 DEF Pairing

\* The two statements of a removal.
LEMMA PairingStatements ==
  ASSUME TypeInv, Pairing, NEW r \in Requests, DeleteFileRows(r) \/ DeleteRow(r) PROVE Pairing'
<1> USE DEF Goto
<1>1. req[r] \in ReqType /\ req[r].pkg \in Pkgs /\ UNCHANGED req
  BY DEF TypeInv, Owner, DeleteFileRows, DeleteRow, ReqType
<1>2. \A t \in Requests : t # r => pc[t] # "row" /\ pc'[t] # "row"
  BY DEF TypeInv, TypeOK, Owner, DeleteFileRows, DeleteRow
<1>3. CASE DeleteFileRows(r)
  <2>1. /\ pc'[r] = "row" /\ UNCHANGED rows /\ owned' = [owned EXCEPT ![req[r].pkg] = {}]
        /\ pc[r] = "files"
    BY <1>3 DEF DeleteFileRows, TypeInv, TypeOK
  <2>2. owned'[req'[r].pkg] = {} /\ \A p \in Pkgs : p # req[r].pkg => owned'[p] = owned[p]
    BY <1>1, <2>1 DEF TypeInv, TypeOK
  <2>3. \A p \in Pkgs : p # req[r].pkg => Paired(p)'
    BY <1>2, <2>1, <2>2 DEF Pairing, Paired
  <2> QED BY <1>1, <1>2, <2>1, <2>2, <2>3 DEF Pairing
<1>4. CASE DeleteRow(r)
  <2>1. /\ pc[r] = "row" /\ pc'[r] = "gc" /\ UNCHANGED owned
        /\ rows' = [rows EXCEPT ![req[r].pkg] = None]
    BY <1>4 DEF DeleteRow, TypeInv, TypeOK
  <2>2. rows'[req[r].pkg] = None /\ \A p \in Pkgs : p # req[r].pkg => rows'[p] = rows[p]
    BY <1>1, <2>1 DEF TypeInv, TypeOK
  <2>3. \A p \in Pkgs : p = req[r].pkg => Paired(p)'
    BY <2>1, <2>2 DEF Pairing, Paired
  <2>4. \A p \in Pkgs : p # req[r].pkg => Paired(p)'
    BY <1>2, <2>1, <2>2 DEF Pairing, Paired
  <2> QED BY <1>2, <2>1, <2>3, <2>4 DEF Pairing
<1> QED BY <1>3, <1>4

\* The invariant is inductive relative to the others when no fault leaves half a change.
LEMMA PairingNext ==
  ASSUME HarmlessForTables, TypeInv, Agreeing, [Next]_vars PROVE Pairing'
<1>0. Pairing /\ Closed
  BY DEF Agreeing
<1> USE DEF Goto, disk, database, locals, bounds
<1>1. ASSUME NEW r \in Requests, Arrive(r) PROVE Pairing'
  <2>1. ASSUME NEW q, NEW l \in {"planned", "deleting", "failed"}, Receive(r, q, l) PROVE Pairing'
    BY <1>0, <2>1, PairingKept DEF Receive, TypeInv, TypeOK
  <2> QED BY <1>1, <2>1 DEF Arrive, PlanInstall, PlanLocal, PlanUpgrade, ReadRemove
<1>2. ASSUME NEW r \in Requests,
             LockInstall(r) \/ LockLocal(r) \/ LockUpgrade(r) \/ LockRemove(r)
      PROVE  Pairing'
  BY <1>0, <1>2, PairingKept, ZenonT(40) DEF LockInstall, LockLocal, LockUpgrade, LockRemove, Refuse, Enter, TypeInv, TypeOK
<1>3. ASSUME NEW r \in Requests, Fetch(r) \/ FetchFails(r) \/ DropGuard(r) \/ RolledBack(r) PROVE Pairing'
  BY <1>0, <1>3, PairingKept DEF Fetch, FetchFails, DropGuard, RolledBack, Unlock, TypeInv, TypeOK
<1>4. ASSUME NEW r \in Requests, Deploy(r) PROVE Pairing'
  <2>1. CASE ReuseStore(r) \/ CopyBegin(r) \/ CopyEnd(r) \/ LinkOne(r) \/ SaveScripts(r)
    BY <1>0, <2>1, PairingKept DEF ReuseStore, CopyBegin, CopyEnd, LinkOne, SaveScripts, TypeInv, TypeOK
  <2>2. CASE CommitFails(r) \/ CleanupRemoved(r) \/ Finish(r)
    BY <1>0, <2>2, PairingKept DEF CommitFails, CleanupRemoved, Finish, Unlock, TypeInv, TypeOK
  <2> QED BY <1>4, <2>1, <2>2, PairingCommit, <1>0 DEF Deploy
<1>5. ASSUME NEW r \in Requests,
             DeleteFile(r) \/ DeleteHome(r) \/ Deleted(r) \/ GcRemoved(r) \/ DeleteFails(r)
      PROVE  Pairing'
  <2>1. CASE Deleted(r) \/ GcRemoved(r)
    BY <1>0, <2>1, PairingKept DEF Deleted, GcRemoved, Unlock, TypeInv, TypeOK
  <2>2. CASE DeleteFile(r) \/ DeleteHome(r) \/ DeleteFails(r)
    <3>1. /\ UNCHANGED <<rows, owned, pc>> /\ pc[r] = "deleting"
          /\ \A t \in Requests : t # r => req'[t] = req[t]
      BY <2>2, <1>0, Deleting
    <3> QED BY <3>1, PairingKept, <1>0
  <2> QED BY <1>5, <2>1, <2>2
<1>6. ASSUME NEW r \in Requests, CopyFails(r) \/ LinkFails(r) \/ SaveFails(r) PROVE Pairing'
  BY <1>0, <1>6, PairingKept DEF CopyFails, LinkFails, SaveFails, Fault, TypeInv, TypeOK
<1>7. ASSUME NEW r \in Requests, UpgradeCommitFails(r) PROVE FALSE
  BY <1>0, <1>7 DEF HarmlessForTables, CommitsRollBack, UpgradeCommitFails, Fault, Closed
<1>9. ASSUME NEW r \in Requests, StatementFails(r) PROVE FALSE
  BY <1>9 DEF HarmlessForTables, Agreeing, Recorded, StatementFails
<1>10. CASE Crash
  <2>1. /\ Recorded /\ ~txn /\ rows' = durable.rows /\ owned' = durable.owned
        /\ \A r \in Requests : pc'[r] = pc[r] \/ pc'[r] = "idle"
    BY <1>0, <1>10 DEF HarmlessForTables, Agreeing, Crash, Fault, Closed, TypeInv, TypeOK
  <2>2. UNCHANGED <<rows, owned>> /\ \A r \in Requests : pc[r] # "row"
    BY <2>1 DEF Recorded
  <2> QED BY <1>0, <2>1, <2>2, PairingKept
<1>8. CASE UNCHANGED vars
  BY <1>0, <1>8, PairingKept DEF vars
<1> QED BY <1>0, <1>1, <1>2, <1>3, <1>4, <1>5, <1>6, <1>7, <1>8, <1>9, <1>10, PairingStatements
   DEF Next, Step, Fail

\* The three together.
LEMMA AgreeingNext == ASSUME HarmlessForTables, TypeInv, Agreeing, [Next]_vars PROVE Agreeing'
<1>1. Closed'
  BY ClosedNext DEF HarmlessForTables, Agreeing
<1>2. WholeKinds => Recorded'
  BY RecordedNext DEF Agreeing
<1> QED BY <1>1, <1>2, PairingNext DEF Agreeing

LEMMA AgreeingInit == Init => Agreeing
BY DEF Init, Agreeing, Closed, Recorded, Pairing, Paired

\* Whatever a removal or a plan read before it locked, and whatever failed before the
\* commit or in it, the two tables agree whenever the write lock is free; without removals
\* also after a crash.
THEOREM Agreement == ASSUME HarmlessForTables PROVE Spec => []TablesAgree
<1>1. TypeInv /\ Agreeing /\ [Next]_vars => Agreeing'
  BY AgreeingNext
<1>2. TypeInv /\ Agreeing => TablesAgree
  BY PairingAgrees DEF Agreeing
<1> QED BY <1>1, <1>2, AgreeingInit, TypeInvariant, PTL DEF Spec

-----------------------------------------------------------------------------
(* No package is fetched twice. *)

Once ==
  /\ \A i, j \in 1 .. Len(fetched) : PkgOf[fetched[i]] = PkgOf[fetched[j]] => i = j
  /\ \A r \in Requests : pc[r] = "fetch" =>
       \A i \in 1 .. Len(fetched) : PkgOf[fetched[i]] \notin todo

\* Steps that forget what was fetched, or keep it.
LEMMA OnceKept ==
  ASSUME TypeInv, Once,
         \/ UNCHANGED <<fetched, todo>> /\ \A r \in Requests : pc'[r] = "fetch" => pc[r] = "fetch"
         \/ Len(fetched') \in {0, 1} /\ \A r \in Requests : pc'[r] = "fetch" => Len(fetched') = 0
  PROVE  Once'
<1>1. CASE UNCHANGED <<fetched, todo>> /\ \A r \in Requests : pc'[r] = "fetch" => pc[r] = "fetch"
  BY <1>1 DEF Once
<1>2. CASE Len(fetched') \in {0, 1} /\ \A r \in Requests : pc'[r] = "fetch" => Len(fetched') = 0
  BY <1>2 DEF Once
<1> QED BY <1>1, <1>2

\* A fetched package was among the names left to fetch, and is no more.
LEMMA OnceFetch == ASSUME TypeInv, Once, NEW r \in Requests, Fetch(r) PROVE Once'
<1>1. pc[r] = "fetch" /\ fetched \in Seq(Builds) /\ Len(fetched) \in Nat
  BY DEF Fetch, TypeInv, TypeOK
<1>2. \A t \in Requests : t # r => pc'[t] = pc[t]
  BY DEF Fetch, Goto, TypeInv, TypeOK
<1>3. PICK p \in todo : /\ todo' = todo \ {p}
                        /\ \/ fetched' = fetched
                           \/ \E b \in BuildsOf(p) : fetched' = Append(fetched, b)
  BY DEF Fetch
<1>4. /\ \A i, j \in 1 .. Len(fetched) : PkgOf[fetched[i]] = PkgOf[fetched[j]] => i = j
      /\ \A i \in 1 .. Len(fetched) : PkgOf[fetched[i]] \notin todo
  BY <1>1 DEF Once
<1>5. /\ \A i, j \in 1 .. Len(fetched') : PkgOf[fetched'[i]] = PkgOf[fetched'[j]] => i = j
      /\ \A i \in 1 .. Len(fetched') : PkgOf[fetched'[i]] \notin todo'
  <2>1. CASE fetched' = fetched
    BY <1>3, <1>4, <2>1
  <2>2. ASSUME NEW b \in BuildsOf(p), fetched' = Append(fetched, b)
        PROVE  /\ \A i, j \in 1 .. Len(fetched') : PkgOf[fetched'[i]] = PkgOf[fetched'[j]] => i = j
               /\ \A i \in 1 .. Len(fetched') : PkgOf[fetched'[i]] \notin todo'
    <3>1. b \in Builds /\ PkgOf[b] = p
      BY DEF BuildsOf
    <3>2. PICK n \in Nat : n = Len(fetched)
      BY <1>1
    <3>3. /\ Len(fetched') = n + 1 /\ fetched'[n + 1] = b
          /\ \A i \in 1 .. n : fetched'[i] = fetched[i]
      BY <1>1, <2>2, <3>1, <3>2
    <3>4. ASSUME NEW i \in 1 .. n PROVE PkgOf[fetched'[i]] = PkgOf[fetched[i]] /\ PkgOf[fetched[i]] \notin todo
      BY <1>4, <3>2, <3>3
    <3>5. ASSUME NEW i \in 1 .. n + 1 PROVE i \in 1 .. n \/ (i = n + 1 /\ PkgOf[fetched'[i]] = p)
      BY <3>1, <3>2, <3>3
    <3>6. ASSUME NEW i \in 1 .. n + 1, NEW j \in 1 .. n + 1, PkgOf[fetched'[i]] = PkgOf[fetched'[j]]
          PROVE  i = j
      <4>1. CASE i \in 1 .. n /\ j \in 1 .. n
        BY <1>4, <3>2, <3>4, <3>6, <4>1
      <4>2. CASE i = n + 1 \/ j = n + 1
        BY <1>3, <3>1, <3>3, <3>4, <3>5, <3>6, <4>2
      <4> QED BY <3>5, <4>1, <4>2
    <3>7. ASSUME NEW i \in 1 .. n + 1 PROVE PkgOf[fetched'[i]] \notin todo'
      BY <1>3, <3>4, <3>5
    <3> QED BY <3>3, <3>6, <3>7
  <2> QED BY <1>3, <2>1, <2>2
<1> QED BY <1>1, <1>5 DEF Once

\* The write section of an install begins with nothing fetched, the others with one build.
LEMMA EnteredOnce ==
  ASSUME TypeInv, Once, NEW r \in Requests, NEW names, NEW gone, NEW new, NEW l \in {"fetch", "copy", "files"},
         \/ new = << >>
         \/ l = "copy" /\ \E b \in Builds : new = <<b>>,
         writer = None, Enter(r, l, names, gone, new)
  PROVE  Once'
<1>1. fetched' = new /\ pc' = [pc EXCEPT ![r] = l]
  BY DEF Enter, Goto
<1>2. Len(new) \in {0, 1} /\ (l = "fetch" => Len(new) = 0)
  OBVIOUS
<1>3. \A t \in Requests : pc'[t] = "fetch" => t = r /\ l = "fetch"
  BY <1>1 DEF TypeInv, TypeOK, Owner
<1> QED BY <1>1, <1>2, <1>3, OnceKept

\* No step fetches a package twice.
LEMMA OnceNext == TypeInv /\ Once /\ [Next]_vars => Once'
<1> SUFFICES ASSUME TypeInv, Once, [Next]_vars PROVE Once'
  OBVIOUS
<1> USE DEF Goto, disk, database, locals, bounds
<1>1. ASSUME NEW r \in Requests, Arrive(r) PROVE Once'
  <2>1. ASSUME NEW q, NEW l \in {"planned", "deleting", "failed"}, Receive(r, q, l) PROVE Once'
    BY <2>1, OnceKept DEF Receive, TypeInv, TypeOK
  <2> QED BY <1>1, <2>1 DEF Arrive, PlanInstall, PlanLocal, PlanUpgrade, ReadRemove
<1>2. ASSUME NEW r \in Requests,
             LockInstall(r) \/ LockLocal(r) \/ LockUpgrade(r) \/ LockRemove(r)
      PROVE  Once'
  <2>1. ASSUME NEW l \in {"done", "failed"}, Refuse(r, l) PROVE Once'
    BY <2>1, OnceKept DEF Refuse, TypeInv, TypeOK
  <2>2. ASSUME LockLocal(r) PROVE req[r].build \in Builds
    BY <2>2 DEF LockLocal, TypeInv, Owner
  <2>3. CASE LockInstall(r) \/ LockRemove(r)
    BY <2>1, <2>3, EnteredOnce DEF LockInstall, LockRemove
  <2>4. CASE LockLocal(r)
    BY <2>1, <2>2, <2>4, EnteredOnce DEF LockLocal
  <2>5. CASE LockUpgrade(r)
    BY <2>1, <2>5, EnteredOnce DEF LockUpgrade, BuildsOf
  <2> QED BY <1>2, <2>3, <2>4, <2>5
<1>3. ASSUME NEW r \in Requests,
             \/ FetchFails(r) \/ DropGuard(r) \/ RolledBack(r) \/ Finish(r) \/ CleanupRemoved(r)
             \/ GcRemoved(r)
      PROVE  Once'
  BY <1>3, OnceKept DEF FetchFails, DropGuard, RolledBack, Finish, CleanupRemoved, GcRemoved, Unlock,
                        TypeInv, TypeOK
<1>4. ASSUME NEW r \in Requests,
             \/ ReuseStore(r) \/ CopyBegin(r) \/ CopyEnd(r) \/ LinkOne(r) \/ SaveScripts(r)
             \/ CommitFails(r) \/ CopyFails(r) \/ LinkFails(r) \/ SaveFails(r)
      PROVE  Once'
  BY <1>4, OnceKept DEF ReuseStore, CopyBegin, CopyEnd, LinkOne, SaveScripts, CommitFails,
                        CopyFails, LinkFails, SaveFails, TypeInv, TypeOK
<1>5. ASSUME NEW r \in Requests, Commit(r) \/ UpgradeCommitFails(r) PROVE Once'
  BY <1>5, OnceKept DEF Commit, UpgradeCommitFails, TypeInv, TypeOK
<1>6. ASSUME NEW r \in Requests,
             \/ DeleteFile(r) \/ DeleteHome(r) \/ Deleted(r) \/ DeleteFileRows(r) \/ DeleteRow(r)
             \/ DeleteFails(r) \/ StatementFails(r)
      PROVE  Once'
  BY <1>6, OnceKept DEF DeleteFile, DeleteHome, Deleted, DeleteFileRows, DeleteRow, DeleteFails, StatementFails,
                        TypeInv, TypeOK
<1>7. CASE Crash
  BY <1>7, OnceKept DEF Crash, TypeInv, TypeOK
<1>8. CASE UNCHANGED vars
  BY <1>8, OnceKept DEF vars
<1> QED BY <1>1, <1>2, <1>3, <1>4, <1>5, <1>6, <1>7, <1>8, OnceFetch DEF Next, Step, Fail, Deploy

\* No package is fetched twice, whatever fails.
LEMMA OnceInvariant == Spec => []Once
<1>1. Init => Once
  BY DEF Init, Once
<1> QED BY <1>1, OnceNext, TypeInvariant, PTL DEF Spec

-----------------------------------------------------------------------------
(* Installs and upgrades implement SpmPackageDb. *)

\* A commit takes out the installed packages to be removed and puts in what was fetched.
LEMMA CommitTransacts ==
  ASSUME TypeInv, Once, Recorded, NEW r \in Requests, Commit(r) PROVE PackageDb!Next
<1> DEFINE new == [p \in Pkgs |-> IF NewOf(p) # {} THEN CHOOSE b \in NewOf(p) : TRUE ELSE None]
           gone == removed \cap Installed
<1>1. NewBuilds \subseteq Builds
  BY DEF NewBuilds, TypeInv, TypeOK
<1>2. \A b, c \in NewBuilds : PkgOf[b] = PkgOf[c] => b = c
  BY DEF NewBuilds, Once
<1>3. ASSUME NEW p \in Pkgs
      PROVE  /\ NewOf(p) # {} => new[p] \in NewOf(p) /\ new[p] # None /\ NewOf(p) = {new[p]}
             /\ NewOf(p) = {} => new[p] = None
  <2>1. NewOf(p) # {} => new[p] \in NewOf(p)
    OBVIOUS
  <2>2. \A b, c \in NewOf(p) : b \in Builds /\ b = c
    BY <1>1, <1>2 DEF NewOf
  <2> QED BY <2>1, <2>2
<1>4. new \in PackageDb!Offered
  BY <1>1, <1>3 DEF PackageDb!Offered, NewOf
<1> HIDE DEF new
<1>5. /\ ~txn /\ durable.rows = rows /\ durable.owned = owned
      /\ durable'.rows = rows' /\ durable'.owned = owned'
      /\ owned \in [Pkgs -> SUBSET Paths] /\ rows \in [Pkgs -> Builds \cup {None}]
  BY DEF Commit, Recorded, TypeInv, TypeOK
<1>6. rows' = [p \in Pkgs |-> IF new[p] # None THEN new[p]
                              ELSE IF p \in gone THEN None ELSE rows[p]]
  <2>1. ASSUME NEW p \in Pkgs
        PROVE  (IF NewOf(p) # {} THEN CHOOSE b \in NewOf(p) : TRUE
                ELSE IF p \in removed THEN None ELSE rows[p])
               = (IF new[p] # None THEN new[p] ELSE IF p \in gone THEN None ELSE rows[p])
    BY <1>3 DEF new, Installed
  <2> QED BY <2>1 DEF Commit
<1>7. owned' = [p \in Pkgs |-> (IF p \in gone THEN {} ELSE owned[p])
                               \cup (IF new[p] # None THEN FilesOf[new[p]] ELSE {})]
  <2>1. ASSUME NEW p \in Pkgs
        PROVE  UNION {FilesOf[b] : b \in NewOf(p)} = (IF new[p] # None THEN FilesOf[new[p]] ELSE {})
    <3>1. CASE NewOf(p) = {}
      BY <1>3, <3>1
    <3>2. CASE NewOf(p) = {new[p]} /\ new[p] # None
      <4>1. {FilesOf[b] : b \in NewOf(p)} = {FilesOf[new[p]]}
        BY <3>2
      <4> QED BY <3>2, <4>1
    <3> QED BY <1>3, <3>1, <3>2
  <2> QED BY <2>1 DEF Commit
<1>8. PackageDb!Transact(gone, new)
  BY <1>5, <1>6, <1>7 DEF PackageDb!Transact
<1>9. gone \in SUBSET Pkgs
  BY DEF Installed
<1> QED BY <1>4, <1>8, <1>9 DEF PackageDb!Next

\* Without removals, what a restarted daemon reads changes by whole transactions only:
\* every other step, a failure or a crash among them, leaves it as it is.
THEOREM Implements == ASSUME WholeKinds PROVE Spec => WholeTransactions
<1>1. Init => Recorded /\ PackageDb!Init
  BY DEF Init, Recorded, PackageDb!Init
<1>2. TypeInv /\ Recorded /\ [Next]_vars => Recorded'
  BY RecordedNext
<1>3. TypeInv /\ Once /\ Recorded /\ [Next]_vars => [PackageDb!Next]_<<durable.rows, durable.owned>>
  <2> SUFFICES ASSUME TypeInv, Once, Recorded, [Next]_vars, durable' # durable PROVE PackageDb!Next
    OBVIOUS
  <2> USE DEF database
  <2>1. ASSUME NEW r \in Requests, Arrive(r) PROVE FALSE
    BY <2>1 DEF Arrive, PlanInstall, PlanLocal, PlanUpgrade, ReadRemove, Receive
  <2>2. ASSUME NEW r \in Requests,
               LockInstall(r) \/ LockLocal(r) \/ LockUpgrade(r) \/ LockRemove(r)
        PROVE  FALSE
    BY <2>2 DEF LockInstall, LockLocal, LockUpgrade, LockRemove, Refuse, Enter
  <2>3. ASSUME NEW r \in Requests,
               Fetch(r) \/ FetchFails(r) \/ DropGuard(r) \/ RolledBack(r) \/ DeleteFile(r) \/ DeleteHome(r)
               \/ Deleted(r) \/ GcRemoved(r)
        PROVE  FALSE
    BY <2>3 DEF Fetch, FetchFails, DropGuard, RolledBack, DeleteFile, DeleteHome, Deleted, GcRemoved
  <2>4. ASSUME NEW r \in Requests, Deploy(r), ~Commit(r) PROVE FALSE
    BY <2>4 DEF Deploy, ReuseStore, CopyBegin, CopyEnd, LinkOne, SaveScripts, CommitFails,
                CleanupRemoved, Finish
  <2>5. ASSUME NEW r \in Requests, Fail(r) PROVE FALSE
    BY <2>5 DEF Fail, CopyFails, LinkFails, SaveFails, UpgradeCommitFails, DeleteFails, StatementFails
  <2>6. ~Crash /\ ~UNCHANGED vars
    BY DEF Crash, vars
  <2>7. \A r \in Requests : ~DeleteFileRows(r) /\ ~DeleteRow(r)
    BY DEF Recorded, DeleteFileRows, DeleteRow
  <2>8. \E r \in Requests : Commit(r)
    BY <2>1, <2>2, <2>3, <2>4, <2>5, <2>6, <2>7 DEF Next, Step
  <2> QED BY <2>8, CommitTransacts
<1> QED BY <1>1, <1>2, <1>3, TypeInvariant, OnceInvariant, PTL DEF Spec, WholeTransactions, PackageDb!Spec

\* Whole transactions pair every package with its files.
LEMMA TransactionsPair == PackageDb!Spec => []PackageDb!Paired
<1>1. PackageDb!Init => PackageDb!Paired
  BY DEF PackageDb!Init, PackageDb!Paired
<1>2. PackageDb!Paired /\ [PackageDb!Next]_<<durable.rows, durable.owned>> => PackageDb!Paired'
  <2> SUFFICES ASSUME PackageDb!Paired, PackageDb!Next PROVE PackageDb!Paired'
    BY DEF PackageDb!Paired
  <2> QED BY DEF PackageDb!Paired, PackageDb!Next, PackageDb!Transact
<1> QED BY <1>1, <1>2, PTL DEF PackageDb!Spec

\* So a restart after any fault finds every installed package paired with its files, as
\* long as there are no removals.
THEOREM RestartSafe == ASSUME WholeKinds PROVE Spec => []DurableTablesAgree
<1>1. PackageDb!Paired => DurableTablesAgree
  BY DEF PackageDb!Paired, DurableTablesAgree
<1> QED BY <1>1, Implements, TransactionsPair, PTL DEF WholeTransactions

-----------------------------------------------------------------------------
(* The store: every directory is complete but the one being copied into. *)

Complete(h) == \A b \in Builds : HashOf[b] = h => store[h] = FilesOf[b]

\* What the writer has ready: the builds before the current one while that one is
\* copied, the current one too once it is linked.
Ready(r) == {i \in 1 .. Len(fetched) : i < cur \/ (pc[r] = "link" /\ i = cur)}

Deploying == {"copy", "copying", "link", "commit"}

\* No rollback is under way, nobody has deleted the directory of an installed package
\* or of a build that is about to be recorded, and only the directory that is being
\* copied into is incomplete, which is not one of an installed package.
Backing ==
  /\ ~txn
  /\ \A r \in Requests :
       /\ pc[r] # "rollback"
       /\ pc[r] = "copying" => Hash \in dirs /\ \A p \in Installed : HashOf[rows[p]] # Hash
       /\ pc[r] \in Deploying => \A i \in Ready(r) : HashOf[fetched[i]] \in dirs
  /\ \A p \in Installed : HashOf[rows[p]] \in dirs
  /\ \A h \in dirs : Complete(h) \/ \E r \in Requests : pc[r] = "copying" /\ h = Hash

\* Faults that start no rollback and leave no partial copy behind.
HarmlessForStore == Faults \subseteq {"delete", "statement"}

\* Two builds with one hash have the same files, so a directory that holds the files
\* of one is complete.
LEMMA CompleteByOne ==
  ASSUME NEW b \in Builds, store[HashOf[b]] = FilesOf[b]
  PROVE  Complete(HashOf[b])
  BY HashAssumption DEF Complete

\* The invariant says what the theorem is about.
LEMMA BackingBacks == TypeInv /\ Backing => RowsBacked
<1> SUFFICES ASSUME TypeInv, Backing, NEW p \in Installed
             PROVE  HashOf[rows[p]] \in dirs /\ store[HashOf[rows[p]]] = FilesOf[rows[p]]
  BY DEF RowsBacked
<1>1. rows[p] \in Builds /\ HashOf[rows[p]] \in dirs
  BY DEF Installed, TypeInv, TypeOK, Backing
<1>2. Complete(HashOf[rows[p]])
  BY <1>1 DEF Backing
<1> QED BY <1>1, <1>2 DEF Complete

\* Steps that leave the store, the rows and the deploying alone.
LEMMA BackingKept ==
  ASSUME TypeInv, TypeInv', Backing,
         UNCHANGED <<dirs, store, rows, txn, fetched, cur>>,
         \A r \in Requests : \/ pc'[r] = pc[r]
                             \/ pc'[r] \notin Deploying \cup {"rollback"} /\ pc[r] # "copying"
  PROVE  Backing'
<1>1. Installed' = Installed /\ Hash' = Hash /\ \A h : Complete(h)' = Complete(h)
  BY DEF Installed, Hash, Build, Complete
<1>2. \A r \in Requests : pc'[r] \in Deploying => Ready(r)' = Ready(r) /\ pc[r] \in Deploying
  BY DEF Ready, Deploying
<1>3. \A r \in Requests : pc[r] = "copying" => pc'[r] = "copying"
  BY DEF Deploying
<1>4. \A r \in Requests : pc'[r] # "rollback" /\ (pc'[r] = "copying" => pc[r] = "copying")
  BY DEF Backing, Deploying
<1> QED BY <1>1, <1>2, <1>3, <1>4 DEF Backing

\* A step that leaves the store and the rows alone and after which nothing is ready.
LEMMA BackingFresh ==
  ASSUME TypeInv, TypeInv', Backing,
         UNCHANGED <<dirs, store, rows, txn>>,
         \A r \in Requests : pc[r] # "copying",
         \A r \in Requests : pc'[r] \in Deploying => pc'[r] \in {"copy", "commit"} /\ cur' = 1,
         \A r \in Requests : pc'[r] # "rollback"
  PROVE  Backing'
<1>1. Installed' = Installed /\ \A h : Complete(h)' = Complete(h)
  BY DEF Installed, Complete
<1>2. ASSUME NEW r \in Requests, pc'[r] \in Deploying PROVE Ready(r)' = {}
  BY <1>2 DEF Ready
<1>3. \A r \in Requests : pc'[r] # "copying"
  BY DEF Deploying
<1> QED BY <1>1, <1>2, <1>3 DEF Backing

\* Whoever holds the write lock is alone in the write section.
LEMMA Alone ==
  ASSUME TypeInv, NEW r \in Requests \cup {None}, writer = r
  PROVE  \A t \in Requests : t # r => pc[t] \notin Held
  BY DEF TypeInv, TypeOK, Owner

\* Taking and leaving the write lock, and fetching.
LEMMA BackingOutside ==
  ASSUME TypeInv, TypeInv', Backing, NEW r \in Requests,
         \/ LockInstall(r) \/ LockLocal(r) \/ LockUpgrade(r) \/ LockRemove(r)
         \/ Fetch(r) \/ FetchFails(r) \/ Finish(r)
  PROVE  Backing'
<1> USE DEF Goto, disk, database, locals, bounds
<1>1. ASSUME NEW l \in Locations, Refuse(r, l), l \notin Held, pc[r] \notin Held PROVE Backing'
  BY <1>1, BackingKept DEF Refuse, TypeInv, TypeOK, Deploying
<1>2. ASSUME NEW l \in {"fetch", "copy", "files"}, NEW names, NEW gone, NEW new,
             writer = None, pc[r] \notin Held, Enter(r, l, names, gone, new)
      PROVE  Backing'
  <2>1. \A t \in Requests : pc[t] \notin Held
    BY <1>2, Alone
  <2>2. cur' = 1 /\ UNCHANGED <<dirs, store, rows, txn>> /\ pc' = [pc EXCEPT ![r] = l]
    BY <1>2 DEF Enter, TypeInv, Position
  <2> QED BY <2>1, <2>2, BackingFresh DEF TypeInv, TypeOK, Deploying
<1>3. CASE LockInstall(r)
  BY <1>1, <1>2, <1>3 DEF LockInstall
<1>4. CASE LockLocal(r)
  BY <1>1, <1>2, <1>4 DEF LockLocal
<1>5. CASE LockUpgrade(r)
  BY <1>1, <1>2, <1>5 DEF LockUpgrade
<1>6. CASE LockRemove(r)
  BY <1>1, <1>2, <1>6 DEF LockRemove
<1>7. CASE Fetch(r)
  <2>1. \A t \in Requests : t # r => pc[t] \notin Held
    BY <1>7, Alone DEF Fetch
  <2>2. /\ cur' = 1 /\ UNCHANGED <<dirs, store, rows, txn>> /\ pc[r] = "fetch"
        /\ \E l \in {"copy", "fetch"} : pc' = [pc EXCEPT ![r] = l]
    BY <1>7 DEF Fetch, TypeInv, Position
  <2> QED BY <2>1, <2>2, BackingFresh DEF TypeInv, TypeOK, Deploying
<1>8. CASE FetchFails(r) \/ Finish(r)
  <2>1. \A t \in Requests : t # r => pc[t] \notin Held
    BY <1>8, Alone DEF FetchFails, Finish
  <2>2. /\ cur' = 1 /\ UNCHANGED <<dirs, store, rows, txn>> /\ pc[r] # "copying"
        /\ \E l \in {"failed", "done"} : pc' = [pc EXCEPT ![r] = l]
    BY <1>8 DEF FetchFails, Finish, Unlock
  <2> QED BY <2>1, <2>2, BackingFresh DEF TypeInv, TypeOK, Deploying
<1> QED BY <1>3, <1>4, <1>5, <1>6, <1>7, <1>8

\* Deploying: a directory is reused as it is, or filled before it counts as ready.
LEMMA BackingDeploy ==
  ASSUME TypeInv, TypeInv', Backing, NEW r \in Requests,
         ReuseStore(r) \/ CopyBegin(r) \/ CopyEnd(r) \/ LinkOne(r) \/ SaveScripts(r)
  PROVE  Backing'
<1> USE DEF Goto, disk, database, locals, bounds
<1>1. writer = r /\ \A t \in Requests : t # r => pc[t] \notin Held
  BY Alone DEF ReuseStore, CopyBegin, CopyEnd, LinkOne, SaveScripts
<1>2. ~txn /\ ~txn' /\ UNCHANGED <<rows, fetched>> /\ Installed' = Installed
  BY DEF Backing, ReuseStore, CopyBegin, CopyEnd, LinkOne, SaveScripts, Installed
<1>3. /\ pc[r] \in {"copy", "copying", "link"} /\ cur \in 1 .. Len(fetched)
      /\ Len(fetched) \in Nat /\ Build \in Builds /\ Hash \in Hashes
  BY DEF ReuseStore, CopyBegin, CopyEnd, LinkOne, SaveScripts, TypeInv, TypeOK, Position, Build, Hash
<1>4. \A i \in Ready(r) : HashOf[fetched[i]] \in dirs
  BY <1>3 DEF Backing, Deploying
<1>5. \A h \in dirs : Complete(h) \/ (pc[r] = "copying" /\ h = Hash)
  BY <1>1 DEF Backing
<1>6. CASE ReuseStore(r)
  <2>1. Ready(r)' \subseteq Ready(r) \cup {cur}
    BY <1>6 DEF ReuseStore, Ready
  <2>2. \A h : Complete(h)' = Complete(h)
    BY <1>6 DEF ReuseStore, Complete
  <2>3. pc' = [pc EXCEPT ![r] = "link"] /\ UNCHANGED dirs /\ Hash \in dirs /\ pc[r] = "copy"
    BY <1>6 DEF ReuseStore
  <2> QED BY <1>1, <1>2, <1>4, <1>5, <2>1, <2>2, <2>3
          DEF Backing, TypeInv, TypeOK, Deploying, Hash, Build
<1>7. CASE CopyBegin(r)
  <2>1. pc' = [pc EXCEPT ![r] = "copying"] /\ dirs' = dirs \cup {Hash} /\ Hash \notin dirs
    BY <1>7 DEF CopyBegin
  <2>2. Ready(r)' \subseteq Ready(r) /\ Hash' = Hash
    BY <1>7, <2>1 DEF CopyBegin, Ready, Hash, Build, TypeInv, TypeOK
  <2>3. \A h : h # Hash => Complete(h)' = Complete(h)
    BY <1>7 DEF CopyBegin, Complete, TypeInv, TypeOK
  <2>4. \A p \in Installed : HashOf[rows[p]] # Hash
    BY <2>1 DEF Backing
  <2>5. pc[r] = "copy" /\ pc'[r] = "copying"
    BY <1>7, <2>1 DEF CopyBegin, TypeInv, TypeOK
  <2>6. \A h \in dirs' : Complete(h)' \/ h = Hash'
    BY <1>5, <2>1, <2>2, <2>3, <2>5
  <2>7. \A i \in Ready(r)' : HashOf[fetched'[i]] \in dirs'
    BY <1>2, <1>4, <2>1, <2>2
  <2>8. \A t \in Requests : t # r => pc'[t] \notin Held
    BY <1>1, <2>1 DEF TypeInv, TypeOK
  <2>9. /\ Hash' \in dirs' /\ \A p \in Installed' : HashOf[rows'[p]] # Hash' /\ HashOf[rows'[p]] \in dirs'
    BY <1>2, <2>1, <2>2, <2>4 DEF Backing
  <2> QED BY <1>2, <2>5, <2>6, <2>7, <2>8, <2>9 DEF Backing, Deploying
<1>8. CASE CopyEnd(r)
  <2>1. /\ pc[r] = "copying" /\ pc' = [pc EXCEPT ![r] = "link"] /\ dirs' = dirs
        /\ Hash \in dirs /\ store' = [store EXCEPT ![Hash] = FilesOf[Build]] /\ cur' = cur
    BY <1>8 DEF CopyEnd, Backing
  <2>2. Ready(r)' \subseteq Ready(r) \cup {cur}
    BY <1>2, <2>1 DEF Ready
  <2>3. \A h : h # Hash => Complete(h)' = Complete(h)
    BY <2>1 DEF Complete, TypeInv, TypeOK
  <2>4. \A h : h = Hash => Complete(h)'
    <3>1. store'[Hash] = FilesOf[Build]
      BY <1>3, <2>1 DEF TypeInv, TypeOK
    <3>2. \A b \in Builds : HashOf[b] = HashOf[Build] => FilesOf[b] = FilesOf[Build]
      BY <1>3, HashAssumption
    <3> QED BY <3>1, <3>2 DEF Complete, Hash
  <2>5. \A t \in Requests : pc'[t] \in Deploying \cup {"rollback"} => t = r
    BY <1>1, <2>1 DEF TypeInv, TypeOK, Deploying
  <2>6. pc'[r] = "link"
    BY <2>1 DEF TypeInv, TypeOK
  <2>7. \A i \in Ready(r)' : HashOf[fetched'[i]] \in dirs'
    BY <1>2, <1>4, <2>1, <2>2 DEF Hash, Build
  <2>8. \A h \in dirs' : Complete(h)'
    BY <1>5, <2>1, <2>3, <2>4
  <2> QED BY <1>2, <2>1, <2>5, <2>6, <2>7, <2>8 DEF Backing, Deploying
<1>9. CASE LinkOne(r)
  BY <1>9, BackingKept DEF LinkOne
<1>10. CASE SaveScripts(r)
  <2>1. /\ pc[r] = "link" /\ cur' = cur + 1 /\ UNCHANGED <<dirs, store>>
        /\ pc' = [pc EXCEPT ![r] = IF cur = Len(fetched) THEN "commit" ELSE "copy"]
    BY <1>10 DEF SaveScripts
  <2>2. pc'[r] \in {"copy", "commit"}
    BY <2>1 DEF TypeInv, TypeOK
  <2>3. Ready(r)' \subseteq Ready(r)
    BY <1>2, <1>3, <2>1, <2>2 DEF Ready
  <2>4. \A h : Complete(h)' = Complete(h)
    BY <2>1 DEF Complete
  <2>5. \A t \in Requests : pc'[t] \in Deploying \cup {"rollback"} => t = r
    BY <1>1, <2>1 DEF TypeInv, TypeOK, Deploying
  <2> QED BY <1>2, <1>4, <1>5, <2>1, <2>2, <2>3, <2>4, <2>5 DEF Backing, Deploying
<1> QED BY <1>6, <1>7, <1>8, <1>9, <1>10

\* The commit records builds that are all ready.
LEMMA BackingCommit ==
  ASSUME TypeInv, TypeInv', Backing, NEW r \in Requests, Commit(r) PROVE Backing'
<1> USE DEF Goto, disk, database, locals, bounds
<1>1. /\ writer = r /\ pc[r] = "commit" /\ ~txn /\ ~txn' /\ UNCHANGED <<dirs, store>>
      /\ pc' = [pc EXCEPT ![r] = "cleanup"]
  BY DEF Commit
<1>2. \A t \in Requests : pc[t] # "copying" /\ pc'[t] \notin Deploying \cup {"rollback"}
  BY <1>1, Alone DEF TypeInv, TypeOK, Deploying
<1>3. \A h : Complete(h)' = Complete(h)
  BY <1>1 DEF Complete
<1>4. \A b \in NewBuilds : b \in Builds /\ HashOf[b] \in dirs
  <2>1. Len(fetched) \in Nat /\ cur = Len(fetched) + 1
    BY <1>1 DEF TypeInv, TypeOK, Position
  <2>2. Ready(r) = 1 .. Len(fetched)
    BY <1>1, <2>1 DEF Ready
  <2>3. \A i \in 1 .. Len(fetched) : HashOf[fetched[i]] \in dirs
    BY <1>1, <2>2 DEF Backing, Deploying
  <2> QED BY <2>3 DEF NewBuilds, TypeInv, TypeOK
<1>5. ASSUME NEW p \in Installed' PROVE HashOf[rows'[p]] \in dirs'
  <2>1. p \in Pkgs /\ rows'[p] # None
    BY DEF Installed
  <2>2. CASE NewOf(p) # {}
    <3>1. rows'[p] \in NewOf(p)
      BY <2>1, <2>2 DEF Commit
    <3> QED BY <1>1, <1>4, <3>1 DEF NewOf
  <2>3. CASE NewOf(p) = {}
    <3>1. rows'[p] = rows[p]
      BY <2>1, <2>3 DEF Commit
    <3> QED BY <1>1, <2>1, <3>1 DEF Backing, Installed
  <2> QED BY <2>2, <2>3
<1> QED BY <1>1, <1>2, <1>3, <1>5 DEF Backing, Deploying

\* Garbage collection takes a directory no row refers to, at a moment when nothing is
\* being deployed.
LEMMA BackingCollect ==
  ASSUME TypeInv, TypeInv', Backing, NEW r \in Requests,
         CleanupRemoved(r) \/ GcRemoved(r) \/ DeleteFileRows(r) \/ DeleteRow(r)
  PROVE  Backing'
<1> USE DEF Goto, disk, database, locals, bounds, Unlock
<1>1. /\ writer = r /\ ~txn /\ ~txn'
      /\ pc[r] \in {"cleanup", "gc", "files", "row"}
      /\ \E l \in {"cleanup", "done", "row", "gc"} : pc' = [pc EXCEPT ![r] = l]
  BY DEF CleanupRemoved, GcRemoved, DeleteFileRows, DeleteRow, Backing, TypeInv, TypeOK
<1>2. \A t \in Requests : pc[t] # "copying" /\ pc'[t] \notin Deploying \cup {"rollback"}
  BY <1>1, Alone DEF TypeInv, TypeOK, Deploying
<1>3. /\ \A p \in Installed' : p \in Installed /\ rows'[p] = rows[p]
      /\ dirs' \subseteq dirs /\ \A h \in dirs' : store'[h] = store[h]
      /\ \A p \in Installed : rows' = rows => HashOf[rows[p]] \in dirs'
      /\ rows' # rows => dirs' = dirs
  <2>1. ASSUME NEW h, GcStore(h), rows' = rows
        PROVE  /\ dirs' \subseteq dirs /\ \A g \in dirs' : store'[g] = store[g]
               /\ \A p \in Installed : HashOf[rows[p]] \in dirs'
    BY <2>1 DEF GcStore, RemoveStore, Backing, TypeInv, TypeOK
  <2>2. CASE CleanupRemoved(r)
    BY <2>1, <2>2 DEF CleanupRemoved, Installed
  <2>3. CASE GcRemoved(r)
    BY <2>1, <2>3 DEF GcRemoved, Installed
  <2>4. CASE DeleteFileRows(r)
    BY <2>4 DEF DeleteFileRows, Installed, Backing
  <2>5. CASE DeleteRow(r)
    BY <2>5 DEF DeleteRow, Installed, Backing, TypeInv, TypeOK
  <2> QED BY <2>2, <2>3, <2>4, <2>5
<1>4. \A h \in dirs' : Complete(h)'
  BY <1>2, <1>3 DEF Backing, Complete
<1>5. \A p \in Installed' : HashOf[rows'[p]] \in dirs'
  BY <1>3 DEF Backing
<1> QED BY <1>1, <1>2, <1>4, <1>5 DEF Backing, Deploying

\* The other steps change neither the store nor a row; faults that would are excluded.
LEMMA BackingRest ==
  ASSUME HarmlessForStore, TypeInv, TypeInv', Backing, NEW r \in Requests,
         \/ Arrive(r) \/ Fail(r) \/ CommitFails(r) \/ DropGuard(r) \/ RolledBack(r)
         \/ DeleteFile(r) \/ DeleteHome(r) \/ Deleted(r)
  PROVE  Backing'
<1> USE DEF Goto, disk, database, locals, bounds
<1>1. ASSUME NEW q, NEW l \in {"planned", "deleting", "failed"}, Receive(r, q, l) PROVE Backing'
  BY <1>1, BackingKept DEF Receive, TypeInv, TypeOK, Deploying
<1>2. CASE Arrive(r)
  BY <1>1, <1>2 DEF Arrive, PlanInstall, PlanLocal, PlanUpgrade, ReadRemove
<1>3. CASE DeleteFails(r) \/ StatementFails(r) \/ DeleteFile(r) \/ DeleteHome(r) \/ Deleted(r)
  BY <1>3, BackingKept DEF DeleteFails, StatementFails, DeleteFile, DeleteHome, Deleted, Fault, TypeInv, TypeOK, Deploying
<1>4. ~(CopyFails(r) \/ LinkFails(r) \/ SaveFails(r) \/ UpgradeCommitFails(r))
  BY DEF HarmlessForStore, CopyFails, LinkFails, SaveFails, UpgradeCommitFails, Fault
<1>5. ~(CommitFails(r) \/ DropGuard(r) \/ RolledBack(r))
  BY DEF HarmlessForStore, CommitFails, DropGuard, RolledBack, Fault, Backing
<1> QED BY <1>2, <1>3, <1>4, <1>5 DEF Fail

\* Under the excluded faults Backing is inductive relative to the type invariant.
LEMMA BackingNext ==
  ASSUME HarmlessForStore, TypeInv, TypeInv', Backing, [Next]_vars PROVE Backing'
<1>1. ASSUME NEW r \in Requests, Step(r) PROVE Backing'
  BY <1>1, BackingOutside, BackingDeploy, BackingCommit, BackingCollect, BackingRest DEF Step, Deploy
<1>2. CASE UNCHANGED vars
  BY <1>2, BackingKept DEF vars, disk, database, locals
<1>3. ~Crash
  BY DEF HarmlessForStore, Crash, Fault
<1> QED BY <1>1, <1>2, <1>3, BackingRest DEF Next

\* Whatever requests run concurrently and share content, and whatever they read before
\* they locked, an installed package keeps its complete store directory, as long as no
\* file operation of a deployment, no commit and no process fails: then a rollback or a
\* partial copy may take it.
THEOREM Backed == ASSUME HarmlessForStore PROVE Spec => []RowsBacked
<1>1. Init => Backing
  BY DEF Init, Backing, Installed, Ready, Deploying
<1>2. TypeInv /\ Backing /\ TypeInv' /\ [Next]_vars => Backing'
  BY BackingNext
<1>3. TypeInv /\ Backing => RowsBacked
  BY BackingBacks
<1> QED BY <1>1, <1>2, <1>3, TypeInvariant, PTL DEF Spec

-----------------------------------------------------------------------------
(* One request at a time: nothing is left in the store that no row refers  *)
(* to.  A removal and an upgrade of one package at the same time do leave  *)
(* the new directory behind.                                               *)

OneAtATime == \A q, r \in Requests : q = r

Removing == {"deleting", "deleted", "files", "row"}
Planning == {"fetch"} \cup Deploying

\* The request is going to record the hash, or to ask whether it is still referred to.
Answers(r, h) ==
  \/ pc[r] \in Deploying /\ \E b \in NewBuilds : HashOf[b] = h
  \/ pc[r] = "cleanup" /\ \E i \in infos : i.hash = h
  \/ pc[r] = "gc" /\ req[r].hash = h

\* A build that takes the place of an installed one has the old one among the packages to
\* be removed, whose directories are collected.
Replacing(r) ==
  /\ pc[r] = "planned" /\ req[r].kind = "install" => {req[r].pkg} \cap Installed \subseteq req[r].remove
  /\ pc[r] = "planned" /\ req[r].kind = "local" => PkgOf[req[r].build] = req[r].pkg
  /\ pc[r] = "fetch" => {req[r].pkg} \cap Installed \subseteq removed
  /\ pc[r] \in Planning => \A b \in NewBuilds : PkgOf[b] \in Installed => PkgOf[b] \in removed

\* What a removal read is what the database holds.
Current(r) ==
  pc[r] \in Removing => req[r].pkg \in Installed /\ HashOf[rows[req[r].pkg]] = req[r].hash

Counted ==
  /\ \A h \in dirs : (\E p \in Installed : HashOf[rows[p]] = h) \/ \E r \in Requests : Answers(r, h)
  /\ \A r \in Requests : Replacing(r) /\ Current(r)

\* With nobody under way, only rows answer for directories.
LEMMA CountedCounts == Counted => NoOrphanStore
  BY DEF Counted, Answers, NoOrphanStore, Quiet, Deploying

\* Steps that add no directory, keep the rows and the parameters of requests, and after
\* which every request answers for what it answered for.
LEMMA CountedKept ==
  ASSUME Counted, dirs' \subseteq dirs, UNCHANGED rows,
         \A r \in Requests : /\ \A h \in dirs' : Answers(r, h) => Answers(r, h)'
                             /\ Replacing(r)' /\ Current(r)'
  PROVE  Counted'
<1>1. Installed' = Installed
  BY DEF Installed
<1> QED BY <1>1 DEF Counted

\* The last fetched build is among the new ones.
LEMMA NewBuildsAppend ==
  ASSUME fetched \in Seq(Builds), NEW b \in Builds, fetched' = Append(fetched, b)
  PROVE  NewBuilds' = NewBuilds \cup {b}
<1>1. PICK n \in Nat : n = Len(fetched)
  OBVIOUS
<1>2. /\ Len(fetched') = n + 1 /\ fetched'[n + 1] = b
      /\ \A i \in 1 .. n : fetched'[i] = fetched[i]
  BY <1>1
<1>3. 1 .. n + 1 = (1 .. n) \cup {n + 1}
  BY <1>1
<1> QED BY <1>1, <1>2, <1>3 DEF NewBuilds

\* A request arrives when none is under way, and reads what is there.
LEMMA CountedArrive ==
  ASSUME OneAtATime, TypeInv, Counted, NEW r \in Requests, Arrive(r) PROVE Counted'
<1> USE DEF Goto, disk, database, locals, bounds
<1>1. ASSUME NEW q, NEW l \in {"planned", "deleting", "failed"}, Receive(r, q, l),
             l = "planned" /\ q.kind = "install" => {q.pkg} \cap Installed \subseteq q.remove,
             l = "planned" /\ q.kind = "local" => PkgOf[q.build] = q.pkg,
             l = "deleting" => q.pkg \in Installed /\ HashOf[rows[q.pkg]] = q.hash
      PROVE  Counted'
  <2>1. pc[r] \in Ended /\ pc'[r] = l /\ req'[r] = q /\ UNCHANGED <<dirs, rows>> /\ Installed' = Installed
    BY <1>1 DEF Receive, TypeInv, TypeOK, Installed
  <2>2. \A h : ~Answers(r, h)
    BY <2>1 DEF Answers, Deploying
  <2>3. Replacing(r)' /\ Current(r)'
    BY <1>1, <2>1 DEF Replacing, Current, Planning, Deploying, Removing
  <2> QED BY <2>1, <2>2, <2>3, CountedKept DEF OneAtATime
<1>2. ASSUME NEW p \in Pkgs, NEW rep \in Replaces, NEW sm \in Smarts, PlanInstall(r, p, rep, sm)
      PROVE  Counted'
  <2> DEFINE q == [Request("install", p, None, rep, sm) EXCEPT !.remove = {p} \cap Installed]
  <2>1. q.kind = "install" /\ q.pkg = p /\ q.remove = {p} \cap Installed
    BY DEF Request
  <2>2. Receive(r, q, "planned")
    BY <1>2 DEF PlanInstall
  <2> HIDE DEF q
  <2> QED BY <1>1, <2>1, <2>2
<1>3. ASSUME NEW b \in Builds, NEW rep \in Replaces, PlanLocal(r, b, rep) PROVE Counted'
  <2> DEFINE q == Request("local", PkgOf[b], b, rep, FALSE)
  <2>1. q.kind = "local" /\ q.pkg = PkgOf[b] /\ q.build = b
    BY DEF Request
  <2>2. \E l \in {"planned", "failed"} : Receive(r, q, l)
    BY <1>3 DEF PlanLocal
  <2> HIDE DEF q
  <2> QED BY <1>1, <2>1, <2>2
<1>4. ASSUME NEW p \in Pkgs, PlanUpgrade(r, p) PROVE Counted'
  <2> DEFINE q == Request("upgrade", p, None, TRUE, FALSE)
  <2>1. q.kind = "upgrade"
    BY DEF Request
  <2>2. Receive(r, q, "planned")
    BY <1>4 DEF PlanUpgrade
  <2> HIDE DEF q
  <2> QED BY <1>1, <2>1, <2>2
<1>5. ASSUME NEW p \in Pkgs, NEW k \in {"remove", "purge"}, ReadRemove(r, p, k) PROVE Counted'
  <2>1. CASE p \in Installed
    <3> DEFINE q == [Request(k, p, rows[p], FALSE, FALSE) EXCEPT
                       !.hash = HashOf[rows[p]], !.files = owned[p],
                       !.homes = IF k = "purge" THEN DirsToCleanup(p) ELSE {}]
    <3>1. q.pkg = p /\ q.hash = HashOf[rows[p]]
      BY DEF Request
    <3>2. Receive(r, q, "deleting")
      BY <1>5, <2>1 DEF ReadRemove
    <3> HIDE DEF q
    <3> QED BY <1>1, <2>1, <3>1, <3>2
  <2>2. CASE p \notin Installed
    <3>1. Receive(r, Request(k, p, None, FALSE, FALSE), "failed")
      BY <1>5, <2>2 DEF ReadRemove
    <3> QED BY <1>1, <3>1
  <2> QED BY <2>1, <2>2
<1> QED BY <1>2, <1>3, <1>4, <1>5 DEF Arrive

\* Taking the write lock, and fetching: what is installed and fetched anew is to be removed.
LEMMA CountedBegin ==
  ASSUME OneAtATime, TypeInv, Counted, NEW r \in Requests,
         LockInstall(r) \/ LockLocal(r) \/ LockUpgrade(r) \/ LockRemove(r) \/ Fetch(r)
  PROVE  Counted'
<1> USE DEF Goto, disk, database, locals, bounds
<1>1. ASSUME NEW l \in {"done", "failed"}, Refuse(r, l), pc[r] = "planned" PROVE Counted'
  <2>1. pc'[r] = l /\ UNCHANGED <<dirs, rows>> /\ \A h : ~Answers(r, h)
    BY <1>1 DEF Refuse, TypeInv, TypeOK, Answers, Deploying
  <2>2. Replacing(r)' /\ Current(r)'
    BY <2>1 DEF Replacing, Current, Planning, Deploying, Removing
  <2> QED BY <2>1, <2>2, CountedKept DEF OneAtATime
<1>2. ASSUME NEW l \in {"fetch", "copy", "files"}, NEW names, NEW gone, NEW new, Enter(r, l, names, gone, new),
             pc[r] \in {"planned", "deleted"},
             l = "fetch" => new = << >> /\ {req[r].pkg} \cap Installed \subseteq gone,
             l = "copy" => \E b \in Builds : new = <<b>> /\ {PkgOf[b]} \cap Installed \subseteq gone,
             l = "files" => pc[r] = "deleted"
      PROVE  Counted'
  <2>1. /\ pc'[r] = l /\ UNCHANGED <<dirs, rows, req>> /\ removed' = gone /\ fetched' = new
        /\ \A h : ~Answers(r, h)
    BY <1>2 DEF Enter, TypeInv, TypeOK, Answers, Deploying
  <2>2. Installed' = Installed
    BY <2>1 DEF Installed
  <2>3. l = "fetch" => NewBuilds' = {}
    BY <1>2, <2>1 DEF NewBuilds
  <2>4. l = "copy" => \E b \in Builds : NewBuilds' = {b} /\ {PkgOf[b]} \cap Installed \subseteq gone
    <3>1. ASSUME NEW b \in Builds, new = <<b>> PROVE NewBuilds' = {b}
      BY <2>1, <3>1 DEF NewBuilds
    <3> QED BY <1>2, <3>1
  <2>5. Replacing(r)'
    BY <1>2, <2>1, <2>2, <2>3, <2>4 DEF Replacing, Planning, Deploying
  <2>6. Current(r)'
    BY <1>2, <2>1, <2>2 DEF Counted, Current, Removing
  <2> QED BY <2>1, <2>5, <2>6, CountedKept DEF OneAtATime
<1>3. Replacing(r)
  BY DEF Counted
<1>4. CASE LockInstall(r)
  BY <1>1, <1>2, <1>3, <1>4 DEF LockInstall, Replacing
<1>5. CASE LockLocal(r)
  <2>1. req[r].build \in Builds /\ PkgOf[req[r].build] = req[r].pkg
    BY <1>3, <1>5 DEF LockLocal, TypeInv, Owner, Replacing
  <2> QED BY <1>1, <1>2, <1>5, <2>1 DEF LockLocal
<1>6. CASE LockUpgrade(r)
  BY <1>1, <1>2, <1>6 DEF LockUpgrade, BuildsOf
<1>7. CASE LockRemove(r)
  BY <1>2, <1>7 DEF LockRemove
<1>8. CASE Fetch(r)
  <2>1. /\ pc[r] = "fetch" /\ pc'[r] \in {"copy", "fetch"} /\ UNCHANGED <<dirs, rows, req>>
        /\ fetched \in Seq(Builds) /\ \A h : ~Answers(r, h)
    BY <1>8 DEF Fetch, TypeInv, TypeOK, Answers, Deploying
  <2>2. Installed' = Installed
    BY <2>1 DEF Installed
  <2>3. \/ UNCHANGED <<removed, fetched>>
        \/ \E p \in todo : /\ p \notin Installed \/ p = req[r].pkg
                           /\ \E b \in BuildsOf(p) : removed \subseteq removed' /\ fetched' = Append(fetched, b)
    BY <1>8 DEF Fetch
  <2>4. removed \subseteq removed'
    BY <2>3
  <2>5. \A b \in NewBuilds' : PkgOf[b] \in Installed => PkgOf[b] \in removed'
    <3>1. \A b \in NewBuilds : PkgOf[b] \in Installed => PkgOf[b] \in removed
      BY <1>3, <2>1 DEF Replacing, Planning
    <3>2. CASE UNCHANGED <<removed, fetched>>
      BY <3>1, <3>2 DEF NewBuilds
    <3>3. ASSUME NEW p \in todo, p \notin Installed \/ p = req[r].pkg, NEW b \in BuildsOf(p),
                 fetched' = Append(fetched, b)
          PROVE  \A d \in NewBuilds' : PkgOf[d] \in Installed => PkgOf[d] \in removed'
      <4>1. b \in Builds /\ PkgOf[b] = p
        BY DEF BuildsOf
      <4>2. NewBuilds' = NewBuilds \cup {b}
        BY <2>1, <3>3, <4>1, NewBuildsAppend
      <4>3. p \in Installed => p \in removed
        BY <1>3, <2>1, <3>3 DEF Replacing
      <4> QED BY <2>4, <3>1, <4>1, <4>2, <4>3
    <3> QED BY <2>3, <3>2, <3>3
  <2>6. Replacing(r)'
    BY <1>3, <2>1, <2>2, <2>4, <2>5 DEF Replacing
  <2>7. Current(r)'
    BY <2>1 DEF Current, Removing
  <2> QED BY <2>1, <2>6, <2>7, CountedKept DEF OneAtATime
<1> QED BY <1>4, <1>5, <1>6, <1>7, <1>8

\* Deploying adds the directories of new builds only, and the commit records every one of
\* them and has the old ones collected.
LEMMA CountedDeploy ==
  ASSUME OneAtATime, TypeInv, Once, Counted, NEW r \in Requests,
         ReuseStore(r) \/ CopyBegin(r) \/ CopyEnd(r) \/ LinkOne(r) \/ SaveScripts(r) \/ Commit(r)
  PROVE  Counted'
<1> USE DEF Goto, disk, database, locals, bounds
<1>1. CASE ~Commit(r)
  <2>1. /\ pc[r] \in {"copy", "copying", "link"} /\ pc'[r] \in Deploying
        /\ UNCHANGED <<rows, req, fetched, removed>> /\ Installed' = Installed
        /\ dirs' \subseteq dirs \cup {Hash}
    BY <1>1 DEF ReuseStore, CopyBegin, CopyEnd, LinkOne, SaveScripts, TypeInv, TypeOK, Installed, Deploying
  <2>2. NewBuilds' = NewBuilds
    BY <2>1 DEF NewBuilds
  <2>3. \A h : Answers(r, h) => Answers(r, h)'
    BY <2>1, <2>2 DEF Answers, Deploying
  <2>4. \A h : h = Hash => Answers(r, h)'
    <3>1. cur \in 1 .. Len(fetched)
      BY <2>1 DEF TypeInv, TypeOK, Position
    <3>2. Build \in NewBuilds
      BY <3>1 DEF NewBuilds, Build
    <3> QED BY <2>1, <2>2, <3>2 DEF Answers, Hash
  <2>5. Replacing(r)' /\ Current(r)'
    BY <2>1, <2>2 DEF Counted, Replacing, Current, Planning, Deploying, Removing
  <2> QED BY <2>1, <2>3, <2>4, <2>5 DEF Counted, OneAtATime
<1>2. CASE Commit(r)
  <2>1. pc[r] = "commit" /\ pc'[r] = "cleanup" /\ UNCHANGED <<dirs, removed>>
    BY <1>2 DEF Commit, TypeInv, TypeOK
  <2>2. \A p \in Pkgs : rows'[p] = IF NewOf(p) # {} THEN CHOOSE b \in NewOf(p) : TRUE
                                   ELSE IF p \in removed THEN None ELSE rows[p]
    BY <1>2 DEF Commit
  <2>3. infos' = {[pkg |-> p, hash |-> HashOf[rows[p]]] : p \in removed \cap Installed}
    BY <1>2 DEF Commit
  <2>4. NewBuilds \subseteq Builds
    BY DEF NewBuilds, TypeInv, TypeOK
  <2>5. ASSUME NEW b \in NewBuilds PROVE \E p \in Installed' : HashOf[rows'[p]] = HashOf[b]
    <3>1. PkgOf[b] \in Pkgs /\ b \in Builds
      BY <2>4
    <3>2. NewOf(PkgOf[b]) = {b}
      BY DEF NewOf, NewBuilds, Once
    <3>3. rows'[PkgOf[b]] = b
      BY <2>2, <3>1, <3>2
    <3> QED BY <3>1, <3>3 DEF Installed
  <2>6. ASSUME NEW p \in Installed
        PROVE  \/ p \in Installed' /\ rows'[p] = rows[p]
               \/ \E i \in infos' : i.hash = HashOf[rows[p]]
    <3>1. CASE p \in removed
      <4>1. [pkg |-> p, hash |-> HashOf[rows[p]]] \in infos'
        BY <2>3, <3>1
      <4> QED BY <4>1
    <3>2. CASE p \notin removed
      <4>1. p \in Pkgs /\ rows[p] # None
        BY DEF Installed
      <4>2. NewOf(p) = {}
        BY <2>1, <3>2 DEF Counted, Replacing, Planning, Deploying, NewOf
      <4>3. rows'[p] = rows[p]
        BY <2>2, <3>2, <4>1, <4>2
      <4> QED BY <4>1, <4>3 DEF Installed
    <3> QED BY <3>1, <3>2
  <2>7. ASSUME NEW h \in dirs
        PROVE  (\E p \in Installed' : HashOf[rows'[p]] = h) \/ Answers(r, h)'
    <3>1. CASE \E p \in Installed : HashOf[rows[p]] = h
      BY <2>1, <2>6, <3>1 DEF Answers
    <3>2. CASE \E t \in Requests : Answers(t, h)
      <4>1. \E b \in NewBuilds : HashOf[b] = h
        BY <2>1, <3>2 DEF OneAtATime, Answers
      <4> QED BY <2>5, <4>1
    <3> QED BY <3>1, <3>2 DEF Counted
  <2>8. Replacing(r)' /\ Current(r)'
    BY <2>1 DEF Replacing, Current, Planning, Deploying, Removing
  <2> QED BY <2>1, <2>7, <2>8 DEF Counted, OneAtATime
<1> QED BY <1>1, <1>2

\* Whoever answers for a directory has it collected unless a row refers to it.
LEMMA CountedCollect ==
  ASSUME OneAtATime, TypeInv, Counted, NEW r \in Requests,
         CleanupRemoved(r) \/ GcRemoved(r) \/ Finish(r) \/ FetchFails(r)
  PROVE  Counted'
<1> USE DEF Goto, disk, database, locals, bounds, Unlock
<1>1. /\ UNCHANGED <<rows, req>> /\ Installed' = Installed
      /\ pc[r] \in {"cleanup", "gc", "fetch"} /\ pc'[r] \in {"cleanup", "done", "failed"}
  BY DEF CleanupRemoved, GcRemoved, Finish, FetchFails, Installed, TypeInv, TypeOK
<1>2. Replacing(r)' /\ Current(r)'
  BY <1>1 DEF Replacing, Current, Planning, Deploying, Removing
<1>3. ASSUME NEW h, GcStore(h)
      PROVE  dirs' \subseteq dirs /\ (h \in dirs' => \E p \in Installed : HashOf[rows[p]] = h)
  BY <1>3 DEF GcStore, RemoveStore
<1>4. CASE CleanupRemoved(r)
  <2>1. PICK i \in infos : GcStore(i.hash) /\ infos' = infos \ {i}
    BY <1>4 DEF CleanupRemoved
  <2>2. pc[r] = "cleanup" /\ pc'[r] = "cleanup"
    BY <1>4 DEF CleanupRemoved
  <2>3. \A h \in dirs' : Answers(r, h) => Answers(r, h)' \/ \E p \in Installed : HashOf[rows[p]] = h
    BY <1>3, <2>1, <2>2 DEF Answers, Deploying
  <2> QED BY <1>1, <1>2, <1>3, <2>1, <2>3 DEF Counted, OneAtATime
<1>5. CASE GcRemoved(r)
  <2>1. GcStore(req[r].hash) /\ pc[r] = "gc"
    BY <1>5 DEF GcRemoved
  <2>2. \A h \in dirs' : Answers(r, h) => \E p \in Installed : HashOf[rows[p]] = h
    BY <1>3, <2>1 DEF Answers, Deploying
  <2> QED BY <1>1, <1>2, <1>3, <2>1, <2>2 DEF Counted, OneAtATime
<1>6. CASE Finish(r) \/ FetchFails(r)
  <2>1. UNCHANGED dirs /\ \A h : ~Answers(r, h)
    BY <1>6 DEF Finish, FetchFails, Answers, Deploying
  <2> QED BY <1>1, <1>2, <2>1, CountedKept DEF OneAtATime
<1> QED BY <1>4, <1>5, <1>6

\* A removal answers for the directory of the row it drops.
LEMMA CountedRemove ==
  ASSUME OneAtATime, TypeInv, Counted, NEW r \in Requests,
         \/ DeleteFile(r) \/ DeleteHome(r) \/ DeleteFails(r) \/ Deleted(r)
         \/ DeleteFileRows(r) \/ DeleteRow(r) \/ StatementFails(r)
  PROVE  Counted'
<1> USE DEF Goto, disk, database, locals, bounds
<1>1. UNCHANGED dirs /\ pc[r] \in Removing /\ pc'[r] \in Removing \cup {"failed", "gc"}
  BY DEF DeleteFile, DeleteHome, DeleteFails, Deleted, DeleteFileRows, DeleteRow, StatementFails, Removing, TypeInv, TypeOK
<1>2. req[r] \in ReqType
  BY <1>1 DEF TypeInv, Owner, Removing
<1>3. req'[r].pkg = req[r].pkg /\ req'[r].hash = req[r].hash
  <2>1. CASE DeleteFile(r) \/ DeleteHome(r) \/ DeleteFails(r)
    BY <2>1, Deleting
  <2>2. CASE ~(DeleteFile(r) \/ DeleteHome(r) \/ DeleteFails(r))
    BY <2>2 DEF Deleted, DeleteFileRows, DeleteRow, StatementFails
  <2> QED BY <2>1, <2>2
<1>4. \A h : ~Answers(r, h)
  BY <1>1 DEF Answers, Removing, Deploying
<1>5. Replacing(r)'
  BY <1>1 DEF Replacing, Removing, Planning, Deploying
<1>6. CASE ~DeleteRow(r)
  <2>1. UNCHANGED rows /\ Installed' = Installed
    BY <1>6 DEF DeleteFile, DeleteHome, DeleteFails, Deleted, DeleteFileRows, StatementFails, Installed
  <2>2. Current(r)'
    BY <1>1, <1>3, <2>1 DEF Counted, Current
  <2> QED BY <1>1, <1>4, <1>5, <2>1, <2>2, CountedKept DEF OneAtATime
<1>7. CASE DeleteRow(r)
  <2>1. pc[r] = "row" /\ pc'[r] = "gc" /\ rows' = [rows EXCEPT ![req[r].pkg] = None]
    BY <1>7 DEF DeleteRow, TypeInv, TypeOK
  <2>2. \A p \in Installed : p # req[r].pkg => p \in Installed' /\ rows'[p] = rows[p]
    BY <2>1 DEF Installed, TypeInv, TypeOK
  <2>3. HashOf[rows[req[r].pkg]] = req[r].hash
    BY <2>1 DEF Counted, Current, Removing
  <2>4. \A h : h = req[r].hash => Answers(r, h)'
    BY <1>3, <2>1 DEF Answers
  <2>5. Current(r)'
    BY <2>1 DEF Current, Removing
  <2> QED BY <1>1, <1>4, <1>5, <2>2, <2>3, <2>4, <2>5 DEF Counted, OneAtATime
<1> QED BY <1>6, <1>7

\* With one request at a time Counted is inductive relative to the other invariants.
LEMMA CountedNext ==
  ASSUME OneAtATime, HarmlessForStore, TypeInv, Once, Backing, Counted, [Next]_vars PROVE Counted'
<1>1. ASSUME NEW r \in Requests PROVE ~(CommitFails(r) \/ DropGuard(r) \/ RolledBack(r))
  BY DEF HarmlessForStore, CommitFails, DropGuard, RolledBack, Fault, Backing
<1>2. ASSUME NEW r \in Requests
      PROVE  ~(CopyFails(r) \/ LinkFails(r) \/ SaveFails(r) \/ UpgradeCommitFails(r))
  BY DEF HarmlessForStore, CopyFails, LinkFails, SaveFails, UpgradeCommitFails, Fault
<1>3. ~Crash
  BY DEF HarmlessForStore, Crash, Fault
<1>4. CASE UNCHANGED vars
  <2>1. /\ UNCHANGED <<dirs, rows, pc, req, infos, fetched, removed>> /\ Installed' = Installed
        /\ NewBuilds' = NewBuilds
    BY <1>4 DEF vars, disk, database, locals, Installed, NewBuilds
  <2>2. \A r \in Requests : /\ \A h : Answers(r, h)' = Answers(r, h)
                            /\ Replacing(r)' = Replacing(r) /\ Current(r)' = Current(r)
    BY <2>1 DEF Answers, Replacing, Current
  <2> QED BY <2>1, <2>2, CountedKept DEF Counted
<1> QED BY <1>1, <1>2, <1>3, <1>4, CountedArrive, CountedBegin, CountedDeploy, CountedCollect,
          CountedRemove DEF Next, Step, Fail, Deploy

\* With one request at a time every directory of the store is that of an installed package
\* when nothing is under way, whatever was replaced, shared or removed before, and also
\* when files could not be deleted or a statement of a removal failed.
THEOREM Collected == ASSUME OneAtATime, HarmlessForStore PROVE Spec => []NoOrphanStore
<1>1. Init => Backing /\ Counted
  BY DEF Init, Backing, Counted, Installed, Ready, Deploying, Replacing, Current, Planning, Removing
<1>2. TypeInv /\ Backing /\ TypeInv' /\ [Next]_vars => Backing'
  BY BackingNext
<1>3. TypeInv /\ Once /\ Backing /\ Counted /\ [Next]_vars => Counted'
  BY CountedNext
<1> QED BY <1>1, <1>2, <1>3, CountedCounts, TypeInvariant, OnceInvariant, PTL DEF Spec

-----------------------------------------------------------------------------
(* One request at a time, none of them a local archive, and nothing fails: *)
(* every file of an installed package is reached through its path.  The    *)
(* code compares the paths of a fetched build with those on record, not    *)
(* with those of the other builds of its plan, and an upgrade compares     *)
(* nothing, so these must be apart by themselves.                          *)

\* No path of both but libraries, which the property leaves aside.
Apart(b, c) == FilesOf[b] \cap FilesOf[c] \subseteq Libraries

PlansApart ==
  \A x \in Pkgs : \A b, c \in Builds :
    {PkgOf[b], PkgOf[c]} \subseteq DepsOf[x] \cup {x} /\ PkgOf[b] # PkgOf[c] => Apart(b, c)

UpgradesSpareOthers ==
  \A n \in Newer : \A c \in Builds :
    PkgOf[c] # PkgOf[n[2]] => FilesOf[n[2]] \cap FilesOf[c] \subseteq FilesOf[n[1]] \cup Libraries

\* The paths of a build lead into its directory, but for libraries and those that go
\* with another package.
Reached(b) == \A f \in FilesOf[b] \ (Libraries \cup AtRisk(PkgOf[b])) : link[f] = HashOf[b]

\* What a purge removes besides the files of its package, the others are at risk of.
LEMMA BelowAtRisk ==
  ASSUME NEW p \in Pkgs, NEW q \in Pkgs, p # q, NEW d \in HomesOf[q] PROVE d.below \subseteq AtRisk(p)
<1>1. d \in UNION {HomesOf[x] : x \in Pkgs \ {p}}
  OBVIOUS
<1>2. d.below \in {e.below : e \in UNION {HomesOf[x] : x \in Pkgs \ {p}}}
  BY <1>1
<1> QED BY <1>2 DEF AtRisk

\* The request is removing the package or putting another build in its place.
Touches(r, p) ==
  \/ pc[r] \in Removing /\ req[r].pkg = p
  \/ pc[r] \in Deploying /\ p \in removed

\* What is going to be recorded shares no path with what stays, nor among itself.
Fitting(r) ==
  /\ pc[r] = "fetch" => /\ todo \subseteq DepsOf[req[r].pkg] \cup {req[r].pkg}
                        /\ \A b \in NewBuilds : PkgOf[b] \in DepsOf[req[r].pkg] \cup {req[r].pkg}
  /\ pc[r] \in Planning => /\ \A b \in NewBuilds : \A p \in Installed \ removed : Apart(b, rows[p])
                           /\ \A b, c \in NewBuilds : PkgOf[b] # PkgOf[c] => Apart(b, c)

\* The builds before the current one are linked, the current one is as far as it is made.
Advanced(r) ==
  /\ pc[r] \in Deploying => \A i \in 1 .. Len(fetched) : i < cur => Reached(fetched[i])
  /\ pc[r] = "link" => \A f \in made : link[f] = Hash
  /\ pc[r] = "deleting" => /\ req[r].files \subseteq FilesOf[rows[req[r].pkg]]
                           /\ req[r].homes \subseteq HomesOf[req[r].pkg] /\ ~req[r].error

\* The files on record are those of the installed build, which is one of its package, no
\* two installed packages share a path, and only the package at work may be out of reach.
Linking ==
  /\ \A p \in Pkgs : owned[p] \subseteq (IF rows[p] # None THEN FilesOf[rows[p]] ELSE {})
  /\ \A p \in Installed : PkgOf[rows[p]] = p /\ \A q \in Installed \ {p} : Apart(rows[p], rows[q])
  /\ made # {} => \E r \in Requests : pc[r] = "link"
  /\ \A p \in Installed : Reached(rows[p]) \/ \E r \in Requests : Touches(r, p)
  /\ \A r \in Requests : Fitting(r) /\ Advanced(r)

\* When nobody is at work every file is reached, since the directory is there and complete.
LEMMA LinkingLinks == TypeInv /\ Backing /\ Linking => InstalledLinked
<1> SUFFICES ASSUME TypeInv, Backing, Linking, Quiet, NEW p \in Installed,
                    NEW f \in FilesOf[rows[p]] \ (Libraries \cup AtRisk(p))
             PROVE  View[f] = HashOf[rows[p]]
  BY DEF InstalledLinked
<1>1. rows[p] \in Builds /\ f \in Paths
  BY DEF Installed, TypeInv, TypeOK
<1>2. link[f] = HashOf[rows[p]]
  BY DEF Linking, Reached, Touches, Quiet, Removing, Deploying
<1>3. HashOf[rows[p]] \in dirs /\ store[HashOf[rows[p]]] = FilesOf[rows[p]]
  BY BackingBacks DEF RowsBacked
<1> QED BY <1>1, <1>2, <1>3 DEF View

\* Steps that leave links and tables alone, and leave nobody's package to itself.
LEMMA LinkingKept ==
  ASSUME Linking, UNCHANGED <<rows, owned, link>>,
         made' = {} \/ (UNCHANGED made /\ \A r \in Requests : pc[r] = "link" => pc'[r] = "link"),
         \A r \in Requests : Fitting(r)' /\ Advanced(r)',
         \A r \in Requests : \A p \in Installed : Touches(r, p) => Touches(r, p)'
  PROVE  Linking'
<1>1. Installed' = Installed /\ \A b : Reached(b)' = Reached(b)
  BY DEF Installed, Reached
<1>2. (\A p \in Installed : Reached(rows[p]) \/ \E r \in Requests : Touches(r, p))'
  <2> SUFFICES ASSUME NEW p \in Installed' PROVE Reached(rows[p])' \/ \E r \in Requests : Touches(r, p)'
    OBVIOUS
  <2>1. p \in Installed /\ rows'[p] = rows[p]
    BY <1>1
  <2>2. CASE Reached(rows[p])
    BY <2>1, <2>2 DEF Reached
  <2>3. CASE \E r \in Requests : Touches(r, p)
    BY <2>1, <2>3
  <2> QED BY <2>1, <2>2, <2>3 DEF Linking
<1>3. made' # {} => \E r \in Requests : pc'[r] = "link"
  BY DEF Linking
<1>4. /\ \A p \in Pkgs : owned'[p] \subseteq (IF rows'[p] # None THEN FilesOf[rows'[p]] ELSE {})
      /\ \A p \in Installed' : PkgOf[rows'[p]] = p /\ \A q \in Installed' \ {p} : Apart(rows'[p], rows'[q])
  BY <1>1 DEF Linking
<1> QED BY <1>1, <1>2, <1>3, <1>4 DEF Linking

\* A request arrives: a removal has read the files of the installed build.
LEMMA LinkingArrive ==
  ASSUME OneAtATime, TypeInv, Linking, NEW r \in Requests, Arrive(r) PROVE Linking'
<1> USE DEF Goto, disk, database, locals, bounds
<1>1. ASSUME NEW q, NEW l \in {"planned", "deleting", "failed"}, Receive(r, q, l),
             l = "deleting" => /\ q.pkg \in Installed /\ q.files \subseteq FilesOf[rows[q.pkg]]
                               /\ q.homes \subseteq HomesOf[q.pkg] /\ ~q.error
      PROVE  Linking'
  <2>1. /\ pc[r] \in Ended /\ pc'[r] = l /\ req'[r] = q
        /\ UNCHANGED <<rows, owned, link, made>> /\ Installed' = Installed
    BY <1>1 DEF Receive, TypeInv, TypeOK, Installed
  <2>2. \A p : ~Touches(r, p)
    BY <2>1 DEF Touches, Deploying, Removing
  <2>3. Fitting(r)' /\ Advanced(r)'
    BY <1>1, <2>1 DEF Fitting, Advanced, Planning, Deploying
  <2> QED BY <2>1, <2>2, <2>3, LinkingKept DEF OneAtATime
<1>2. ASSUME NEW q, Receive(r, q, "planned") \/ Receive(r, q, "failed") PROVE Linking'
  BY <1>1, <1>2
<1>3. ASSUME NEW p \in Pkgs, NEW k \in {"remove", "purge"}, ReadRemove(r, p, k) PROVE Linking'
  <2>1. CASE p \in Installed
    <3> DEFINE q == [Request(k, p, rows[p], FALSE, FALSE) EXCEPT
                       !.hash = HashOf[rows[p]], !.files = owned[p],
                       !.homes = IF k = "purge" THEN DirsToCleanup(p) ELSE {}]
    <3>1. q.pkg = p /\ q.files = owned[p] /\ q.homes \subseteq HomesOf[p] /\ q.error = FALSE
      BY DEF Request, DirsToCleanup
    <3>2. Receive(r, q, "deleting")
      BY <1>3, <2>1 DEF ReadRemove
    <3>3. owned[p] \subseteq FilesOf[rows[p]]
      BY <2>1 DEF Linking, Installed
    <3> HIDE DEF q
    <3> QED BY <1>1, <2>1, <3>1, <3>2, <3>3
  <2>2. CASE p \notin Installed
    BY <1>2, <1>3, <2>2 DEF ReadRemove
  <2> QED BY <2>1, <2>2
<1>4. CASE \E p \in Pkgs, rep \in Replaces, sm \in Smarts : PlanInstall(r, p, rep, sm)
  BY <1>2, <1>4 DEF PlanInstall
<1>5. CASE \E b \in Builds, rep \in Replaces : PlanLocal(r, b, rep)
  BY <1>2, <1>5 DEF PlanLocal
<1>6. CASE \E p \in Pkgs : PlanUpgrade(r, p)
  BY <1>2, <1>6 DEF PlanUpgrade
<1> QED BY <1>3, <1>4, <1>5, <1>6 DEF Arrive

\* The write section begins with nothing fetched, or with a newer build that takes
\* no path of another package.
LEMMA LinkingLock ==
  ASSUME OneAtATime, UpgradesSpareOthers, "local" \notin Kinds, TypeInv, Closed, Linking,
         NEW r \in Requests,
         LockInstall(r) \/ LockLocal(r) \/ LockUpgrade(r) \/ LockRemove(r)
  PROVE  Linking'
<1> USE DEF Goto, disk, database, locals, bounds
<1>1. ASSUME NEW l \in {"done", "failed"}, Refuse(r, l), pc[r] = "planned" PROVE Linking'
  <2>1. /\ pc'[r] = l /\ UNCHANGED <<rows, owned, link, made>>
        /\ \A p : ~Touches(r, p)
    BY <1>1 DEF Refuse, TypeInv, TypeOK, Touches, Deploying, Removing
  <2>2. Fitting(r)' /\ Advanced(r)'
    BY <2>1 DEF Fitting, Advanced, Planning, Deploying
  <2> QED BY <1>1, <2>1, <2>2, LinkingKept DEF OneAtATime
<1>2. ASSUME NEW l \in {"fetch", "copy", "files"}, NEW names, NEW gone, NEW new, Enter(r, l, names, gone, new),
             pc[r] \in {"planned", "deleted"}, writer = None,
             l = "fetch" => new = << >> /\ names \subseteq DepsOf[req[r].pkg] \cup {req[r].pkg},
             l = "copy" => \E b \in Builds : /\ new = <<b>>
                                             /\ \A p \in Installed \ gone : Apart(b, rows[p]),
             l = "files" <=> pc[r] = "deleted"
      PROVE  Linking'
  <2>1. /\ pc'[r] = l /\ UNCHANGED <<rows, owned, link, made, req, cur>> /\ removed' = gone
        /\ fetched' = new /\ todo' = names /\ cur' = 1 /\ Installed' = Installed
    BY <1>2 DEF Enter, TypeInv, TypeOK, Installed, Position
  <2>2. \A p : Touches(r, p) => Touches(r, p)'
    BY <1>2, <2>1 DEF Touches, Deploying, Removing
  <2>3. l = "fetch" => NewBuilds' = {}
    BY <1>2, <2>1 DEF NewBuilds
  <2>4. l = "copy" => \E b \in Builds : /\ NewBuilds' = {b}
                                        /\ \A p \in Installed \ gone : Apart(b, rows[p])
    <3>1. ASSUME NEW b \in Builds, new = <<b>> PROVE NewBuilds' = {b}
      BY <2>1, <3>1 DEF NewBuilds
    <3> QED BY <1>2, <3>1
  <2>5. Fitting(r)'
    BY <1>2, <2>1, <2>3, <2>4 DEF Fitting, Planning, Deploying
  <2>6. Advanced(r)'
    BY <1>2, <2>1 DEF Advanced, Deploying
  <2> QED BY <1>2, <2>1, <2>2, <2>5, <2>6, LinkingKept DEF OneAtATime
<1>3. CASE LockInstall(r)
  BY <1>1, <1>2, <1>3 DEF LockInstall
<1>4. CASE LockLocal(r)
  BY <1>4 DEF LockLocal, Closed
<1>5. CASE LockUpgrade(r)
  <2>1. ASSUME req[r].pkg \in Installed, NEW b \in BuildsOf(req[r].pkg), <<rows[req[r].pkg], b>> \in Newer,
               NEW p \in Installed \ {req[r].pkg}
        PROVE  b \in Builds /\ Apart(b, rows[p])
    <3>1. /\ b \in Builds /\ PkgOf[b] = req[r].pkg
          /\ p \in Pkgs /\ rows[p] \in Builds /\ PkgOf[rows[p]] = p
      BY DEF BuildsOf, Linking, Installed, TypeInv, TypeOK
    <3>2. FilesOf[b] \cap FilesOf[rows[p]] \subseteq FilesOf[rows[req[r].pkg]] \cup Libraries
      BY <2>1, <3>1 DEF UpgradesSpareOthers
    <3>3. Apart(rows[req[r].pkg], rows[p])
      BY <2>1 DEF Linking
    <3> QED BY <3>1, <3>2, <3>3 DEF Apart
  <2>2. ASSUME NEW b \in BuildsOf(req[r].pkg) PROVE b \in Builds
    BY DEF BuildsOf
  <2> QED BY <1>1, <1>2, <1>5, <2>1, <2>2 DEF LockUpgrade
<1>6. CASE LockRemove(r)
  BY <1>2, <1>6 DEF LockRemove
<1> QED BY <1>3, <1>4, <1>5, <1>6

\* What is fetched is compared with the paths on record of the packages that stay.
LEMMA LinkingFetch ==
  ASSUME OneAtATime, PlansApart, TypeInv, Once, Pairing, Linking, NEW r \in Requests, Fetch(r)
  PROVE  Linking'
<1> USE DEF Goto, disk, database, locals, bounds
<1>1. /\ pc[r] = "fetch" /\ pc'[r] \in {"copy", "fetch"}
      /\ UNCHANGED <<rows, owned, link, made, req, cur>> /\ cur' = 1
      /\ fetched \in Seq(Builds) /\ Installed' = Installed /\ req[r].pkg \in Pkgs
  BY DEF Fetch, TypeInv, TypeOK, Installed, Position, Owner, ReqType
<1>2. PICK p \in todo :
        /\ todo' = todo \ {p}
        /\ \/ UNCHANGED <<removed, fetched>>
           \/ \E b \in BuildsOf(p) : /\ removed \subseteq removed' /\ fetched' = Append(fetched, b)
                                     /\ \A q \in Pkgs \ removed' : owned[q] \cap FilesOf[b] = {}
  <2>1. PICK p \in todo :
          /\ todo' = todo \ {p}
          /\ \/ UNCHANGED <<removed, fetched>>
             \/ \E b \in BuildsOf(p) :
                  LET gone == removed \cup (ObsoletesOf[b] \cap Installed)
                  IN  removed' = gone \cup Conflicts(b, gone) /\ fetched' = Append(fetched, b)
    BY DEF Fetch
  <2>2. ASSUME NEW b \in BuildsOf(p), NEW gone, removed' = gone \cup Conflicts(b, gone)
        PROVE  \A q \in Pkgs \ removed' : owned[q] \cap FilesOf[b] = {}
    BY <2>2 DEF Conflicts
  <2> QED BY <2>1, <2>2
<1>3. /\ todo \subseteq DepsOf[req[r].pkg] \cup {req[r].pkg}
      /\ \A b \in NewBuilds : PkgOf[b] \in DepsOf[req[r].pkg] \cup {req[r].pkg}
      /\ \A b \in NewBuilds : \A q \in Installed \ removed : Apart(b, rows[q])
      /\ \A b, c \in NewBuilds : PkgOf[b] # PkgOf[c] => Apart(b, c)
  BY <1>1 DEF Linking, Fitting, Planning
<1>4. /\ \A b \in NewBuilds' : PkgOf[b] \in DepsOf[req[r].pkg] \cup {req[r].pkg}
      /\ \A b \in NewBuilds' : \A q \in Installed \ removed' : Apart(b, rows[q])
      /\ \A b, c \in NewBuilds' : PkgOf[b] # PkgOf[c] => Apart(b, c)
  <2>1. CASE UNCHANGED <<removed, fetched>>
    BY <1>3, <2>1 DEF NewBuilds
  <2>2. ASSUME NEW b \in BuildsOf(p), removed \subseteq removed', fetched' = Append(fetched, b),
               \A q \in Pkgs \ removed' : owned[q] \cap FilesOf[b] = {}
        PROVE  <1>4!:
    <3>1. b \in Builds /\ PkgOf[b] = p /\ NewBuilds' = NewBuilds \cup {b} /\ NewBuilds \subseteq Builds
      BY <1>1, <2>2, NewBuildsAppend DEF BuildsOf, NewBuilds
    <3>2. ASSUME NEW q \in Installed \ removed' PROVE Apart(b, rows[q])
      <4>1. q \in Pkgs /\ rows[q] # None
        BY DEF Installed
      <4>2. ~ \E t \in Requests : pc[t] = "row" /\ req[t].pkg = q
        BY <1>1 DEF OneAtATime
      <4>3. FilesOf[rows[q]] \subseteq owned[q]
        BY <4>1, <4>2 DEF Pairing, Paired
      <4> QED BY <2>2, <4>1, <4>3 DEF Apart
    <3>3. ASSUME NEW c \in NewBuilds, PkgOf[c] # PkgOf[b] PROVE Apart(b, c) /\ Apart(c, b)
      <4>1. {PkgOf[b], PkgOf[c]} \subseteq DepsOf[req[r].pkg] \cup {req[r].pkg} /\ c \in Builds
        BY <1>3, <3>1
      <4> QED BY <1>1, <3>1, <3>3, <4>1 DEF PlansApart
    <3>4. PkgOf[b] \in DepsOf[req[r].pkg] \cup {req[r].pkg}
      BY <1>3, <3>1
    <3> QED BY <1>3, <2>2, <3>1, <3>2, <3>3, <3>4
  <2> QED BY <1>2, <2>1, <2>2
<1>5. Fitting(r)'
  BY <1>1, <1>2, <1>3, <1>4 DEF Fitting
<1>6. Advanced(r)'
  BY <1>1 DEF Advanced
<1>7. \A q : ~Touches(r, q)
  BY <1>1 DEF Touches, Deploying, Removing
<1> QED BY <1>1, <1>5, <1>6, <1>7, LinkingKept DEF OneAtATime

\* A link made for the current build takes no path of one that stays or is linked already.
LEMMA LinkingDeploy ==
  ASSUME OneAtATime, TypeInv, Once, Backing, Linking, NEW r \in Requests,
         ReuseStore(r) \/ CopyBegin(r) \/ CopyEnd(r) \/ LinkOne(r) \/ SaveScripts(r)
  PROVE  Linking'
<1> USE DEF Goto, disk, database, locals, bounds
<1>1. /\ pc[r] \in {"copy", "copying", "link"} /\ pc'[r] \in Deploying /\ pc[r] \in Deploying
      /\ UNCHANGED <<rows, owned, req, fetched, removed>> /\ Installed' = Installed
      /\ cur \in 1 .. Len(fetched) /\ Len(fetched) \in Nat /\ fetched \in Seq(Builds)
      /\ Build \in Builds /\ Build \in NewBuilds /\ NewBuilds' = NewBuilds /\ NewBuilds \subseteq Builds
  BY DEF ReuseStore, CopyBegin, CopyEnd, LinkOne, SaveScripts, TypeInv, TypeOK, Installed, Deploying,
         Position, Build, NewBuilds
<1>2. pc'[r] # "fetch" /\ pc'[r] # "deleting"
  BY <1>1 DEF Deploying
<1>3. Fitting(r)'
  BY <1>1, <1>2 DEF Linking, Fitting, Planning
<1>4. \A p : Touches(r, p) => Touches(r, p)'
  BY <1>1 DEF Touches, Deploying, Removing
<1>5. Advanced(r) /\ Fitting(r)
  BY DEF Linking
<1>6. CASE ReuseStore(r) \/ CopyBegin(r) \/ CopyEnd(r)
  <2>1. UNCHANGED <<link, made, cur>> /\ pc[r] # "link"
    BY <1>6 DEF ReuseStore, CopyBegin, CopyEnd
  <2>2. made = {}
    BY <2>1 DEF Linking, OneAtATime
  <2>3. Advanced(r)'
    BY <1>1, <1>2, <1>5, <2>1, <2>2 DEF Advanced, Reached
  <2> QED BY <1>1, <1>3, <1>4, <2>1, <2>2, <2>3, LinkingKept DEF OneAtATime
<1>7. CASE LinkOne(r)
  <2>1. PICK f \in ToLink(r) : link' = [link EXCEPT ![f] = Hash] /\ made' = made \cup {f}
    BY <1>7 DEF LinkOne
  <2>2. UNCHANGED cur /\ pc' = pc /\ pc[r] = "link" /\ Hash' = Hash
    BY <1>7 DEF LinkOne, Hash, Build
  <2>3. f \in FilesOf[Build] /\ f \in Paths
    <3>1. Hash \in dirs
      BY <1>1, <2>2 DEF Backing, Ready, Deploying, Hash, Build
    <3>2. Complete(Hash)
      BY <2>2, <3>1 DEF Backing, OneAtATime
    <3>3. store[Hash] = FilesOf[Build]
      BY <1>1, <3>2 DEF Complete, Hash
    <3> QED BY <1>1, <3>3 DEF ToLink
  <2>4. \A g : link'[g] = IF g = f THEN Hash ELSE link[g]
    BY <2>1, <2>3 DEF TypeInv, TypeOK
  <2>5. ASSUME NEW b \in Builds, Reached(b), f \notin FilesOf[b] \/ f \in Libraries PROVE Reached(b)'
    BY <2>4, <2>5 DEF Reached
  <2>6. ASSUME NEW p \in Installed, p \notin removed, Reached(rows[p]) PROVE Reached(rows[p])'
    <3>1. Apart(Build, rows[p]) /\ rows[p] \in Builds
      BY <1>1, <1>5, <2>6 DEF Fitting, Planning, Installed, TypeInv, TypeOK
    <3>2. Reached(rows[p]) => Reached(rows[p])'
      BY <1>1, <2>3, <2>4, <3>1 DEF Apart, Reached
    <3> QED BY <2>6, <3>2
  <2>7. (\A p \in Installed : Reached(rows[p]) \/ \E t \in Requests : Touches(t, p))'
    <3> SUFFICES ASSUME NEW p \in Installed' PROVE Reached(rows[p])' \/ \E t \in Requests : Touches(t, p)'
      OBVIOUS
    <3>1. p \in Installed
      BY <1>1
    <3>2. CASE p \in removed
      BY <1>1, <3>2 DEF Touches
    <3>3. CASE p \notin removed
      <4>1. ~Touches(r, p)
        BY <1>1, <3>3 DEF Touches, Deploying, Removing
      <4>2. Reached(rows[p])
        BY <3>1, <4>1 DEF Linking, OneAtATime
      <4> QED BY <2>6, <3>1, <3>3, <4>2
    <3> QED BY <3>2, <3>3
  <2>8. ASSUME NEW i \in 1 .. Len(fetched), i < cur PROVE Reached(fetched[i])'
    <3>1. fetched[i] \in NewBuilds /\ fetched[i] \in Builds /\ Reached(fetched[i])
      BY <1>1, <1>5, <2>8 DEF NewBuilds, Advanced
    <3>2. PkgOf[fetched[i]] # PkgOf[Build]
      BY <1>1, <2>8 DEF Once, Build
    <3>3. Apart(Build, fetched[i])
      BY <1>1, <1>5, <3>1, <3>2 DEF Fitting, Planning
    <3>4. f \notin FilesOf[fetched[i]] \/ f \in Libraries
      BY <2>3, <3>3 DEF Apart
    <3>5. fetched'[i] = fetched[i]
      BY <1>1
    <3> QED BY <2>5, <3>1, <3>4, <3>5 DEF Reached
  <2>9. \A g \in made' : link'[g] = Hash'
    BY <1>5, <2>1, <2>2, <2>4 DEF Advanced
  <2>10. Advanced(r)'
    BY <1>1, <2>2, <2>8, <2>9 DEF Advanced
  <2>11. (\A p \in Installed : PkgOf[rows[p]] = p /\ \A q \in Installed \ {p} : Apart(rows[p], rows[q]))'
    BY <1>1 DEF Linking
  <2>12. (\A p \in Pkgs : owned[p] \subseteq (IF rows[p] # None THEN FilesOf[rows[p]] ELSE {}))'
    BY <1>1 DEF Linking
  <2>13. (made # {} => \E t \in Requests : pc[t] = "link")'
    BY <2>2
  <2> QED BY <1>3, <2>7, <2>10, <2>11, <2>12, <2>13 DEF Linking, OneAtATime
<1>8. CASE SaveScripts(r)
  <2>1. /\ pc[r] = "link" /\ ToLink(r) = {} /\ made' = {} /\ cur' = cur + 1 /\ UNCHANGED link
        /\ pc'[r] \in {"commit", "copy"}
    BY <1>8 DEF SaveScripts, TypeInv, TypeOK
  <2>2. Reached(Build)
    <3>1. Hash \in dirs
      BY <1>1, <2>1 DEF Backing, Ready, Deploying, Hash, Build
    <3>2. Complete(Hash)
      BY <2>1, <3>1 DEF Backing, OneAtATime
    <3>3. store[Hash] = FilesOf[Build]
      BY <1>1, <3>2 DEF Complete, Hash
    <3>4. FilesOf[Build] \ Libraries \subseteq made
      BY <2>1, <3>3 DEF ToLink
    <3> QED BY <1>5, <2>1, <3>4 DEF Advanced, Reached, Hash
  <2>3. \A i \in 1 .. Len(fetched) : i < cur + 1 => Reached(fetched[i])
    BY <1>1, <1>5, <2>2 DEF Advanced, Build
  <2>4. Advanced(r)'
    BY <1>1, <2>1, <2>3 DEF Advanced, Reached
  <2> QED BY <1>1, <1>3, <1>4, <2>1, <2>4, LinkingKept DEF OneAtATime
<1> QED BY <1>6, <1>7, <1>8

\* The commit records builds that are all linked, apart from each other and from what stays,
\* and takes out what they replace.
LEMMA LinkingCommit ==
  ASSUME OneAtATime, TypeInv, Once, Counted, Linking, NEW r \in Requests, Commit(r) PROVE Linking'
<1> USE DEF Goto, disk, database, locals, bounds
<1>1. /\ pc[r] = "commit" /\ pc'[r] = "cleanup" /\ UNCHANGED <<link, made, fetched, removed>>
      /\ pc[r] \in Deploying /\ pc[r] \in Planning
  BY DEF Commit, TypeInv, TypeOK, Deploying, Planning
<1>2. \A p \in Pkgs :
        /\ rows'[p] = IF NewOf(p) # {} THEN CHOOSE b \in NewOf(p) : TRUE
                      ELSE IF p \in removed THEN None ELSE rows[p]
        /\ owned'[p] = (IF p \in removed \cap Installed THEN {} ELSE owned[p])
                       \cup UNION {FilesOf[b] : b \in NewOf(p)}
  BY DEF Commit
<1>3. NewBuilds \subseteq Builds
  BY DEF NewBuilds, TypeInv, TypeOK
<1>4. ASSUME NEW p \in Pkgs
      PROVE  \/ NewOf(p) = {}
             \/ /\ NewOf(p) = {rows'[p]} /\ rows'[p] \in NewBuilds /\ PkgOf[rows'[p]] = p
                /\ rows'[p] # None
  <2>1. NewOf(p) # {} => rows'[p] \in NewOf(p)
    BY <1>2
  <2>2. \A b, c \in NewOf(p) : b = c
    BY <1>3 DEF NewOf, NewBuilds, Once
  <2>3. NewOf(p) # {} => NewOf(p) = {rows'[p]}
    BY <2>1, <2>2
  <2> QED BY <1>3, <2>1, <2>3 DEF NewOf
<1>5. ASSUME NEW p \in Installed'
      PROVE  \/ rows'[p] \in NewBuilds /\ PkgOf[rows'[p]] = p
             \/ p \in Installed \ removed /\ rows'[p] = rows[p]
  <2>1. p \in Pkgs /\ rows'[p] # None
    BY DEF Installed
  <2> QED BY <1>2, <1>4, <2>1 DEF Installed
<1>6. ASSUME NEW b \in NewBuilds PROVE Reached(b)
  <2>1. cur = Len(fetched) + 1 /\ Len(fetched) \in Nat
    BY <1>1 DEF TypeInv, TypeOK, Position
  <2>2. PICK i \in 1 .. Len(fetched) : b = fetched[i]
    BY DEF NewBuilds
  <2> QED BY <1>1, <2>1, <2>2 DEF Linking, Advanced
<1>7. (\A p \in Installed : Reached(rows[p]) \/ \E t \in Requests : Touches(t, p))'
  <2> SUFFICES ASSUME NEW p \in Installed' PROVE Reached(rows[p])'
    OBVIOUS
  <2>1. CASE rows'[p] \in NewBuilds
    BY <1>1, <1>6, <2>1 DEF Reached
  <2>2. CASE p \in Installed \ removed /\ rows'[p] = rows[p]
    <3>1. ~Touches(r, p)
      BY <1>1, <2>2 DEF Touches, Removing
    <3>2. Reached(rows[p])
      BY <2>2, <3>1 DEF Linking, OneAtATime
    <3> QED BY <1>1, <2>2, <3>2 DEF Reached
  <2> QED BY <1>5, <2>1, <2>2
<1>8. Fitting(r)
  BY DEF Linking
<1>9. ASSUME NEW p \in Installed', NEW q \in Installed' \ {p} PROVE Apart(rows'[p], rows'[q])
  <2>1. CASE /\ rows'[p] \in NewBuilds /\ PkgOf[rows'[p]] = p
             /\ rows'[q] \in NewBuilds /\ PkgOf[rows'[q]] = q
    BY <1>1, <1>8, <1>9, <2>1 DEF Fitting
  <2>2. CASE rows'[p] \in NewBuilds /\ q \in Installed \ removed /\ rows'[q] = rows[q]
    BY <1>1, <1>8, <2>2 DEF Fitting
  <2>3. CASE rows'[q] \in NewBuilds /\ p \in Installed \ removed /\ rows'[p] = rows[p]
    <3>1. Apart(rows'[q], rows'[p])
      BY <1>1, <1>8, <2>3 DEF Fitting
    <3> QED BY <3>1 DEF Apart
  <2>4. CASE p \in Installed /\ rows'[p] = rows[p] /\ q \in Installed /\ rows'[q] = rows[q]
    BY <1>9, <2>4 DEF Linking
  <2> QED BY <1>5, <2>1, <2>2, <2>3, <2>4
<1>10. (\A p \in Installed : PkgOf[rows[p]] = p /\ \A q \in Installed \ {p} : Apart(rows[p], rows[q]))'
  BY <1>5, <1>9 DEF Linking, Apart
<1>11. ASSUME NEW p \in Pkgs
       PROVE  owned'[p] \subseteq (IF rows'[p] # None THEN FilesOf[rows'[p]] ELSE {})
  <2>1. owned[p] \subseteq (IF rows[p] # None THEN FilesOf[rows[p]] ELSE {})
    BY DEF Linking
  <2>2. CASE NewOf(p) = {}
    <3>1. UNION {FilesOf[b] : b \in NewOf(p)} = {}
      BY <2>2
    <3> QED BY <1>2, <2>1, <2>2, <3>1 DEF Installed
  <2>3. CASE /\ NewOf(p) = {rows'[p]} /\ rows'[p] \in NewBuilds /\ PkgOf[rows'[p]] = p
             /\ rows'[p] # None
    <3>1. {FilesOf[b] : b \in NewOf(p)} = {FilesOf[rows'[p]]}
      BY <2>3
    <3>2. UNION {FilesOf[b] : b \in NewOf(p)} = FilesOf[rows'[p]]
      BY <3>1
    <3>3. p \in Installed => p \in removed
      BY <1>1, <2>3 DEF Counted, Replacing
    <3>4. p \notin Installed => owned[p] = {}
      BY <2>1 DEF Installed
    <3>5. owned'[p] = FilesOf[rows'[p]]
      BY <1>2, <3>2, <3>3, <3>4
    <3> QED BY <2>3, <3>5
  <2> QED BY <1>4, <2>2, <2>3
<1>12. made' = {}
  BY <1>1 DEF Linking, OneAtATime
<1>13. Fitting(r)' /\ Advanced(r)'
  BY <1>1 DEF Fitting, Advanced, Planning, Deploying
<1> QED BY <1>7, <1>10, <1>11, <1>12, <1>13 DEF Linking, OneAtATime

\* Cleaning up, and giving the write lock back, touch no link.
LEMMA LinkingEnd ==
  ASSUME OneAtATime, TypeInv, Linking, NEW r \in Requests,
         CleanupRemoved(r) \/ GcRemoved(r) \/ Finish(r) \/ FetchFails(r)
  PROVE  Linking'
<1> USE DEF Goto, disk, database, locals, bounds, Unlock
<1>1. /\ UNCHANGED <<rows, owned, link>>
      /\ pc[r] \in {"cleanup", "gc", "fetch"} /\ pc'[r] \in {"cleanup", "done", "failed"}
      /\ made' = {} \/ UNCHANGED made
  BY DEF CleanupRemoved, GcRemoved, Finish, FetchFails, TypeInv, TypeOK
<1>2. Fitting(r)' /\ Advanced(r)' /\ \A p : ~Touches(r, p)
  BY <1>1 DEF Fitting, Advanced, Touches, Planning, Deploying, Removing
<1> QED BY <1>1, <1>2, LinkingKept DEF OneAtATime

\* A removal unlinks paths of its package, which nobody else has, or that are at risk,
\* and drops its records.
LEMMA LinkingRemove ==
  ASSUME OneAtATime, Faults = {}, TypeInv, Counted, Pairing, Linking, NEW r \in Requests,
         \/ DeleteFile(r) \/ DeleteHome(r) \/ DeleteFails(r) \/ Deleted(r)
         \/ DeleteFileRows(r) \/ DeleteRow(r) \/ StatementFails(r)
  PROVE  Linking'
<1> USE DEF Goto, disk, database, locals, bounds
<1>1. ~DeleteFails(r) /\ ~StatementFails(r)
  BY DEF DeleteFails, StatementFails, Fault
<1>2. UNCHANGED made /\ pc[r] \in Removing /\ pc'[r] \notin Planning /\ pc[r] # "link"
  BY <1>1 DEF DeleteFile, DeleteHome, Deleted, DeleteFileRows, DeleteRow, Removing, Planning, Deploying,
              TypeInv, TypeOK
<1>3. /\ req[r] \in ReqType /\ req[r].pkg \in Installed /\ req[r].pkg \in Pkgs
      /\ Advanced(r) /\ made = {}
  BY <1>2 DEF TypeInv, Owner, Removing, Counted, Current, Linking, OneAtATime, ReqType
<1>4. Fitting(r)'
  BY <1>2 DEF Fitting, Planning
<1>5. CASE Deleted(r) \/ DeleteFileRows(r)
  <2>1. /\ UNCHANGED <<rows, link, req>> /\ pc'[r] \in {"deleted", "row"} /\ Installed' = Installed
        /\ \A p \in Pkgs : owned'[p] = owned[p] \/ owned'[p] = {}
    <3>1. CASE Deleted(r)
      <4>1. ~req[r].error
        BY <1>3, <3>1 DEF Deleted, Advanced
      <4> QED BY <3>1, <4>1 DEF Deleted, Installed, TypeInv, TypeOK
    <3>2. CASE DeleteFileRows(r)
      BY <1>3, <3>2 DEF DeleteFileRows, Installed, TypeInv, TypeOK
    <3> QED BY <1>5, <3>1, <3>2
  <2>2. Advanced(r)'
    BY <2>1 DEF Advanced, Deploying
  <2>3. (\A p \in Installed : Reached(rows[p]) \/ \E t \in Requests : Touches(t, p))'
    <3> SUFFICES ASSUME NEW p \in Installed' PROVE Reached(rows[p])' \/ \E t \in Requests : Touches(t, p)'
      OBVIOUS
    <3>1. Touches(r, p) => Touches(r, p)'
      BY <1>2, <2>1 DEF Touches, Removing, Deploying
    <3>2. Reached(rows[p]) => Reached(rows[p])'
      BY <2>1 DEF Reached
    <3> QED BY <2>1, <3>1, <3>2 DEF Linking, OneAtATime
  <2>4. (\A p \in Installed : PkgOf[rows[p]] = p /\ \A q \in Installed \ {p} : Apart(rows[p], rows[q]))'
    BY <2>1 DEF Linking
  <2>5. (\A p \in Pkgs : owned[p] \subseteq (IF rows[p] # None THEN FilesOf[rows[p]] ELSE {}))'
    BY <2>1 DEF Linking
  <2> QED BY <1>2, <1>3, <1>4, <2>2, <2>3, <2>4, <2>5 DEF Linking, OneAtATime
<1>6. CASE DeleteFile(r) \/ DeleteHome(r)
  <2>1. /\ UNCHANGED <<rows, owned, pc>> /\ Installed' = Installed /\ pc[r] = "deleting"
        /\ req'[r].pkg = req[r].pkg
    BY <1>6, Deleting DEF Installed
  <2>2. /\ req'[r].files \subseteq req[r].files /\ req'[r].homes \subseteq req[r].homes
        /\ req'[r].error = req[r].error
    <3>1. CASE DeleteFile(r)
      <4>1. PICK f \in req[r].files : req' = [req EXCEPT ![r].files = @ \ {f}]
        BY <3>1 DEF DeleteFile
      <4> QED BY <1>3, <4>1 DEF TypeInv, TypeOK, ReqType
    <3>2. CASE DeleteHome(r)
      <4>1. PICK d \in req[r].homes : req' = [req EXCEPT ![r].homes = @ \ {d}]
        BY <3>2 DEF DeleteHome
      <4> QED BY <1>3, <4>1 DEF TypeInv, TypeOK, ReqType
    <3> QED BY <1>6, <3>1, <3>2
  <2>3. ASSUME NEW p \in Installed, p # req[r].pkg, NEW f \in FilesOf[rows[p]] \ (Libraries \cup AtRisk(p))
        PROVE  link'[f] = link[f]
    <3>1. /\ rows[p] \in Builds /\ f \in Paths /\ p \in Pkgs
          /\ Apart(rows[req[r].pkg], rows[p])
      BY <1>3, <2>3 DEF Installed, Linking, TypeInv, TypeOK
    <3>2. CASE DeleteFile(r)
      <4>1. PICK g \in req[r].files : link' = link \/ link' = [link EXCEPT ![g] = None]
        BY <3>2 DEF DeleteFile
      <4>2. f # g
        BY <1>3, <2>1, <2>3, <3>1, <4>1 DEF Advanced, Apart
      <4> QED BY <3>1, <4>1, <4>2 DEF TypeInv, TypeOK
    <3>3. CASE DeleteHome(r)
      <4>1. PICK d \in req[r].homes : link' = [g \in Paths |-> IF g \in d.below THEN None ELSE link[g]]
        BY <3>3 DEF DeleteHome
      <4>2. d \in HomesOf[req[r].pkg]
        BY <1>3, <2>1, <4>1 DEF Advanced
      <4>3. d.below \subseteq AtRisk(p)
        BY <1>3, <2>3, <3>1, <4>2, BelowAtRisk
      <4> QED BY <2>3, <3>1, <4>1, <4>3
    <3> QED BY <1>6, <3>2, <3>3
  <2>4. (\A p \in Installed : Reached(rows[p]) \/ \E t \in Requests : Touches(t, p))'
    <3> SUFFICES ASSUME NEW p \in Installed' PROVE Reached(rows[p])' \/ \E t \in Requests : Touches(t, p)'
      OBVIOUS
    <3>1. CASE p = req[r].pkg
      BY <1>2, <2>1, <3>1 DEF Touches
    <3>2. CASE p # req[r].pkg
      <4>1. Reached(rows[p])
        BY <1>2, <2>1, <3>2 DEF Linking, OneAtATime, Touches, Deploying
      <4>2. PkgOf[rows[p]] = p
        BY <2>1 DEF Linking
      <4> QED BY <2>1, <2>3, <3>2, <4>1, <4>2 DEF Reached
    <3> QED BY <3>1, <3>2
  <2>5. Advanced(r)'
    BY <1>3, <2>1, <2>2 DEF Advanced, Deploying
  <2>6. (\A p \in Installed : PkgOf[rows[p]] = p /\ \A q \in Installed \ {p} : Apart(rows[p], rows[q]))'
    BY <2>1 DEF Linking
  <2>7. (\A p \in Pkgs : owned[p] \subseteq (IF rows[p] # None THEN FilesOf[rows[p]] ELSE {}))'
    BY <2>1 DEF Linking
  <2> QED BY <1>2, <1>3, <1>4, <2>4, <2>5, <2>6, <2>7 DEF Linking, OneAtATime
<1>7. CASE DeleteRow(r)
  <2>1. /\ pc[r] = "row" /\ pc'[r] = "gc" /\ UNCHANGED <<link, owned>>
        /\ rows' = [rows EXCEPT ![req[r].pkg] = None]
    BY <1>7 DEF DeleteRow, TypeInv, TypeOK
  <2>2. owned[req[r].pkg] = {}
    BY <2>1 DEF Pairing
  <2>3. \A p \in Pkgs : p # req[r].pkg => rows'[p] = rows[p]
    BY <2>1 DEF TypeInv, TypeOK
  <2>4. \A p \in Installed' : p \in Installed /\ p # req[r].pkg /\ rows'[p] = rows[p]
    BY <1>3, <2>1, <2>3 DEF Installed, TypeInv, TypeOK
  <2>5. (\A p \in Installed : Reached(rows[p]) \/ \E t \in Requests : Touches(t, p))'
    <3> SUFFICES ASSUME NEW p \in Installed' PROVE Reached(rows[p])'
      OBVIOUS
    <3>1. Reached(rows[p])
      BY <2>1, <2>4 DEF Linking, OneAtATime, Touches, Deploying
    <3> QED BY <2>1, <2>4, <3>1 DEF Reached
  <2>6. Advanced(r)'
    BY <2>1 DEF Advanced, Deploying
  <2>7. (\A p \in Installed : PkgOf[rows[p]] = p /\ \A q \in Installed \ {p} : Apart(rows[p], rows[q]))'
    <3> SUFFICES ASSUME NEW p \in Installed'
                 PROVE  PkgOf[rows'[p]] = p /\ \A q \in Installed' \ {p} : Apart(rows'[p], rows'[q])
      BY DEF Apart
    <3> QED BY <2>4 DEF Linking
  <2>8. (\A p \in Pkgs : owned[p] \subseteq (IF rows[p] # None THEN FilesOf[rows[p]] ELSE {}))'
    BY <2>1, <2>2, <2>3 DEF Linking
  <2> QED BY <1>2, <1>3, <1>4, <2>5, <2>6, <2>7, <2>8 DEF Linking, OneAtATime
<1> QED BY <1>1, <1>5, <1>6, <1>7

\* Linking is inductive relative to the other invariants.
LEMMA LinkingNext ==
  ASSUME OneAtATime, Faults = {}, "local" \notin Kinds, PlansApart, UpgradesSpareOthers,
         TypeInv, Once, Closed, Pairing, Backing, Counted, Linking, [Next]_vars
  PROVE  Linking'
<1>1. ASSUME NEW r \in Requests PROVE ~(CommitFails(r) \/ DropGuard(r) \/ RolledBack(r))
  BY DEF CommitFails, DropGuard, RolledBack, Fault, Backing
<1>2. ASSUME NEW r \in Requests
      PROVE  ~(CopyFails(r) \/ LinkFails(r) \/ SaveFails(r) \/ UpgradeCommitFails(r))
  BY DEF CopyFails, LinkFails, SaveFails, UpgradeCommitFails, Fault
<1>3. ~Crash
  BY DEF Crash, Fault
<1>4. CASE UNCHANGED vars
  <2>1. /\ UNCHANGED <<rows, owned, link, made, pc, req, removed, fetched, todo, cur>>
        /\ Installed' = Installed /\ NewBuilds' = NewBuilds /\ Hash' = Hash
    BY <1>4 DEF vars, disk, database, locals, Installed, NewBuilds, Hash, Build
  <2>2. ASSUME NEW r \in Requests
        PROVE  Fitting(r)' /\ Advanced(r)' /\ \A p : Touches(r, p) => Touches(r, p)'
    BY <2>1 DEF Linking, Fitting, Advanced, Touches, Reached
  <2> QED BY <2>1, <2>2, LinkingKept
<1> QED BY <1>1, <1>2, <1>3, <1>4, LinkingArrive, LinkingLock, LinkingFetch, LinkingDeploy, LinkingCommit,
          LinkingEnd, LinkingRemove DEF Next, Step, Fail, Deploy

\* With one request at a time and nothing failing, every file of an installed package leads
\* into its directory whenever nothing is under way, but for the libraries of a smart install
\* and what lies below a directory with the name of another package, whatever was installed,
\* replaced, upgraded, removed or purged before: provided the builds of one plan share no
\* path, an upgrade brings none of another package, and no local archive is installed, which
\* the code does not look at.
THEOREM Linked ==
  ASSUME OneAtATime, Faults = {}, "local" \notin Kinds, PlansApart, UpgradesSpareOthers
  PROVE  Spec => []InstalledLinked
<1>1. HarmlessForStore /\ HarmlessForTables /\ CommitsRollBack
  BY DEF HarmlessForStore, HarmlessForTables, CommitsRollBack
<1> DEFINE Inv == TypeInv /\ Once /\ Agreeing /\ Backing /\ Counted /\ Linking
<1>2. Init => Inv
  <2>1. Init => Once /\ Agreeing
    BY AgreeingInit DEF Init, Once
  <2>2. Init => Backing /\ Counted
    BY DEF Init, Backing, Counted, Installed, Ready, Deploying, Replacing, Current, Planning, Removing
  <2>3. Init => Linking
    BY DEF Init, Linking, Installed, Fitting, Advanced, Planning, Deploying
  <2> QED BY <2>1, <2>2, <2>3, TypeInit
<1>3. Inv /\ [Next]_vars => Inv'
  <2> SUFFICES ASSUME Inv, [Next]_vars PROVE Inv'
    OBVIOUS
  <2>1. TypeInv' /\ Once' /\ Agreeing'
    BY <1>1, TypeNext, OnceNext, AgreeingNext
  <2>2. Backing'
    BY <1>1, <2>1, BackingNext
  <2>3. Counted'
    BY <1>1, CountedNext
  <2>4. Linking'
    BY LinkingNext DEF Agreeing
  <2> QED BY <2>1, <2>2, <2>3, <2>4
<1>4. Inv => InstalledLinked
  BY LinkingLinks
<1> HIDE DEF Inv
<1> QED BY <1>2, <1>3, <1>4, PTL DEF Spec

-----------------------------------------------------------------------------
(* An install of new packages that fails leaves nothing behind: what it    *)
(* makes is at paths that nobody has, and the rollback removes the         *)
(* directories that the new links lead into.  What obsoletes a package is  *)
(* not compared with it, so these must be apart by themselves.             *)

\* Installs without --replace, and removals; and no copy fails, which arms no guard.
NewInstalls ==
  Kinds \subseteq {"install", "remove", "purge"} /\ Replaces \subseteq {FALSE} /\ "copy" \notin Faults

\* The builds of a plan share no path with a package that one of them obsoletes.
ObsoletesApart ==
  \A x \in Pkgs : \A b, c, d \in Builds :
    {PkgOf[b], PkgOf[c]} \subseteq DepsOf[x] \cup {x} /\ PkgOf[d] \in ObsoletesOf[b]
      => FilesOf[c] \cap FilesOf[d] = {}

\* Where an install may still fail.
Undoable == {"fetch", "rollback"} \cup Deploying

\* An installed package has the path.
Taken(f) == \E p \in Installed : f \in FilesOf[rows[p]]

\* The directories that a failure is going to remove.
Touched(r) == {g.hash : g \in guards} \cup (IF pc[r] \in {"copying", "link"} THEN {Hash} ELSE {})

\* No directory holds more than the files that its hash stands for.
Within == \A b \in Builds : store[HashOf[b]] \subseteq FilesOf[b]

\* Who holds the lock is in the write section, and guards and links are kept by nobody else.
Tidy ==
  /\ writer # None => pc[writer] \in Held
  /\ guards # {} => \E r \in Requests : pc[r] \in Deploying \cup {"rollback"}
  /\ made # {} => \E r \in Requests : pc[r] = "link"

\* A package has one of its builds.
Named == \A p \in Installed : PkgOf[rows[p]] = p

\* It is an install without --replace.
Asked(r) == pc[r] \in {"planned"} \cup Undoable =>
  req[r].kind = "install" /\ ~req[r].replace /\ req[r].remove \subseteq {req[r].pkg}

\* An installed package is to be removed only because a new one obsoletes it.
Plain(r) == pc[r] = "fetch" =>
  /\ todo \subseteq DepsOf[req[r].pkg] \cup {req[r].pkg}
  /\ \A b \in NewBuilds : PkgOf[b] \in DepsOf[req[r].pkg] \cup {req[r].pkg}
  /\ \A p \in removed \cap Installed : \E b \in NewBuilds : p \in ObsoletesOf[b]

\* Nothing that is new has a path that is taken, in the guards neither.
Sparing(r) == pc[r] \in Undoable =>
  /\ \A b \in NewBuilds : \A f \in FilesOf[b] : ~Taken(f)
  /\ \A g \in guards : /\ \E b \in NewBuilds : HashOf[b] = g.hash
                       /\ \A f \in g.links : ~Taken(f)
  /\ \A f \in made : ~Taken(f)

\* What a path shows is what it showed when the write section began or, at a path that is not
\* taken, nothing or what a failure is going to remove.
Restorable(r) == pc[r] \in Undoable =>
  /\ rows = before.rows
  /\ \A f \in Paths : \/ View[f] = before.view[f]
                      \/ ~Taken(f) /\ View[f] \in {None} \cup Touched(r)

Undoing(r) == Asked(r) /\ Plain(r) /\ Sparing(r) /\ Restorable(r)

Undo == Within /\ Tidy /\ Named /\ \A r \in Requests : Undoing(r)

\* What a path shows.
LEMMA Shows ==
  ASSUME NEW f \in Paths
  PROVE  View[f] = IF link[f] \in dirs /\ f \in store[link[f]] THEN link[f] ELSE None
  BY DEF View

\* The directories are filled from their builds.
LEMMA WithinNext == ASSUME TypeInv, Within, [Next]_vars PROVE Within'
<1> USE DEF disk
<1>1. CASE store' = store
  BY <1>1 DEF Within
<1>2. ASSUME \A b \in Builds : store'[HashOf[b]] \subseteq store[HashOf[b]] \cup FilesOf[b]
      PROVE  Within'
  BY <1>2 DEF Within
<1>3. ASSUME NEW h, RemoveStore(h) PROVE Within'
  BY <1>2, <1>3 DEF RemoveStore, TypeInv, TypeOK
<1>4. ASSUME NEW h, GcStore(h) PROVE Within'
  BY <1>1, <1>3, <1>4 DEF GcStore
<1>5. ASSUME NEW r \in Requests, Arrive(r) PROVE Within'
  BY <1>1, <1>5 DEF Arrive, PlanInstall, PlanLocal, PlanUpgrade, ReadRemove, Receive
<1>6. ASSUME NEW r \in Requests,
             LockInstall(r) \/ LockLocal(r) \/ LockUpgrade(r) \/ LockRemove(r) \/ Fetch(r) \/ FetchFails(r)
      PROVE  Within'
  BY <1>1, <1>6 DEF LockInstall, LockLocal, LockUpgrade, LockRemove, Refuse, Enter, Fetch, FetchFails
<1>7. ASSUME NEW r \in Requests, CopyBegin(r) \/ CopyEnd(r) PROVE Within'
  <2>1. Build \in Builds /\ Hash = HashOf[Build]
    BY <1>7 DEF CopyBegin, CopyEnd, TypeInv, TypeOK, Position, Build, Hash
  <2>2. PICK s \in SUBSET FilesOf[Build] : store' = [store EXCEPT ![Hash] = s]
    BY <1>7 DEF CopyBegin, CopyEnd
  <2>3. \A b \in Builds : HashOf[b] = Hash => FilesOf[b] = FilesOf[Build]
    BY <2>1, HashAssumption
  <2> QED BY <1>2, <2>1, <2>2, <2>3 DEF TypeInv, TypeOK
<1>8. ASSUME NEW r \in Requests,
             \/ ReuseStore(r) \/ LinkOne(r) \/ SaveScripts(r) \/ Commit(r) \/ CommitFails(r) \/ Finish(r)
             \/ RolledBack(r)
      PROVE  Within'
  BY <1>1, <1>8 DEF ReuseStore, LinkOne, SaveScripts, Commit, CommitFails, Finish, RolledBack
<1>9. ASSUME NEW r \in Requests, CleanupRemoved(r) \/ GcRemoved(r) \/ DropGuard(r) PROVE Within'
  BY <1>3, <1>4, <1>9 DEF CleanupRemoved, GcRemoved, DropGuard
<1>10. ASSUME NEW r \in Requests,
              \/ DeleteFile(r) \/ DeleteHome(r) \/ Deleted(r) \/ DeleteFileRows(r) \/ DeleteRow(r)
              \/ Fail(r)
       PROVE  Within'
  BY <1>1, <1>10 DEF DeleteFile, DeleteHome, Deleted, DeleteFileRows, DeleteRow, Fail, CopyFails, LinkFails,
       SaveFails, UpgradeCommitFails, DeleteFails, StatementFails
<1>11. CASE Crash \/ UNCHANGED vars
  BY <1>1, <1>11 DEF Crash, vars
<1> QED BY <1>5, <1>6, <1>7, <1>8, <1>9, <1>10, <1>11 DEF Next, Step, Deploy

\* Steps of the holder of the lock inside the write section, and of others outside it.
LEMMA TidyKept ==
  ASSUME TypeInv, Tidy, NEW r \in Requests, NEW l, pc' = [pc EXCEPT ![r] = l],
         \/ /\ writer = r /\ pc[r] \in Held
            /\ writer' = None \/ (writer' = writer /\ l \in Held)
            /\ guards' # {} => l \in Deploying \cup {"rollback"}
            /\ made' # {} => l = "link"
         \/ pc[r] \notin Held /\ UNCHANGED <<writer, guards, made>>
         \/ pc[r] \notin Held /\ writer = None /\ writer' = r /\ l \in Held /\ UNCHANGED <<guards, made>>
  PROVE  Tidy'
<1>1. pc'[r] = l /\ \A t \in Requests : t # r => pc'[t] = pc[t]
  BY DEF TypeInv, TypeOK
<1>2. \A t \in Requests : pc[t] \in Held => writer = t
  BY DEF TypeInv, Owner
<1>3. writer \in Requests \cup {None}
  BY DEF TypeInv, TypeOK
<1>4. CASE writer = r /\ pc[r] \in Held
  BY <1>1, <1>4 DEF Tidy
<1>5. CASE pc[r] \notin Held
  <2>1. /\ guards # {} => \E t \in Requests : t # r /\ pc[t] \in Deploying \cup {"rollback"}
        /\ made # {} => \E t \in Requests : t # r /\ pc[t] = "link"
    BY <1>5 DEF Tidy, Deploying
  <2>2. UNCHANGED <<guards, made>>
    BY <1>5
  <2>3. writer' # None => pc'[writer'] \in Held
    BY <1>1, <1>3, <1>5 DEF Tidy
  <2> QED BY <1>1, <2>1, <2>2, <2>3 DEF Tidy
<1> QED BY <1>4, <1>5

\* Who leaves the write section leaves nothing in it.
LEMMA TidyNext == ASSUME TypeInv, Tidy, [Next]_vars PROVE Tidy'
<1> USE DEF Goto, disk, database, locals, bounds, Fault
<1>1. ASSUME NEW r \in Requests, Arrive(r) PROVE Tidy'
  <2>1. ASSUME NEW q, NEW l \in {"planned", "deleting", "failed"}, Receive(r, q, l) PROVE Tidy'
    BY <2>1, TidyKept DEF Receive
  <2> QED BY <1>1, <2>1 DEF Arrive, PlanInstall, PlanLocal, PlanUpgrade, ReadRemove
<1>2. ASSUME NEW r \in Requests,
             LockInstall(r) \/ LockLocal(r) \/ LockUpgrade(r) \/ LockRemove(r)
      PROVE  Tidy'
  <2>1. ASSUME NEW l \in {"done", "failed"}, Refuse(r, l), pc[r] = "planned" PROVE Tidy'
    BY <2>1, TidyKept DEF Refuse
  <2>2. ASSUME NEW l \in {"fetch", "copy", "files"}, NEW names, NEW gone, NEW new, pc[r] \in {"planned", "deleted"},
               writer = None, Enter(r, l, names, gone, new)
        PROVE  Tidy'
    BY <2>2, TidyKept DEF Enter
  <2>3. CASE LockInstall(r)
    BY <2>1, <2>2, <2>3 DEF LockInstall
  <2>4. CASE LockLocal(r)
    BY <2>1, <2>2, <2>4 DEF LockLocal
  <2>5. CASE LockUpgrade(r)
    <3>1. CASE Refuse(r, "done") \/ Refuse(r, "failed")
      BY <2>1, <2>5, <3>1 DEF LockUpgrade
    <3>2. ASSUME NEW b, Enter(r, "copy", {}, {req[r].pkg}, <<b>>) PROVE Tidy'
      BY <2>2, <2>5, <3>2 DEF LockUpgrade
    <3> QED BY <2>5, <3>1, <3>2 DEF LockUpgrade
  <2>6. CASE LockRemove(r)
    BY <2>2, <2>6 DEF LockRemove
  <2> QED BY <1>2, <2>3, <2>4, <2>5, <2>6
\* The holder of the lock is the only one in the write section.
<1>3. ASSUME NEW r \in Requests, writer = r, pc[r] \in Held
      PROVE  /\ pc[r] \notin Deploying \cup {"rollback"} => guards = {}
             /\ pc[r] # "link" => made = {}
  BY <1>3, Alone DEF Tidy, Deploying
<1>4. ASSUME NEW r \in Requests, Fetch(r) \/ FetchFails(r) \/ DropGuard(r) \/ RolledBack(r) PROVE Tidy'
  <2>1. CASE Fetch(r)
    <3>1. \E l \in {"copy", "fetch"} : pc' = [pc EXCEPT ![r] = l]
      BY <2>1 DEF Fetch
    <3>2. writer = r /\ pc[r] = "fetch" /\ UNCHANGED <<writer, guards, made>>
      BY <2>1 DEF Fetch
    <3> QED BY <1>3, <3>1, <3>2, TidyKept DEF Deploying
  <2>2. CASE FetchFails(r) \/ RolledBack(r)
    BY <2>2, TidyKept DEF FetchFails, RolledBack, Unlock
  <2>3. CASE DropGuard(r)
    <3>1. pc' = [pc EXCEPT ![r] = "rollback"] /\ pc[r] = "rollback" /\ writer = r /\ UNCHANGED <<writer, made>>
      BY <2>3 DEF DropGuard, TypeInv, TypeOK
    <3> QED BY <1>3, <3>1, TidyKept
  <2> QED BY <1>4, <2>1, <2>2, <2>3
<1>5. ASSUME NEW r \in Requests, Deploy(r) PROVE Tidy'
  <2>1. CASE ReuseStore(r) \/ CopyBegin(r) \/ CopyEnd(r)
    <3>1. /\ \E l \in {"copying", "link"} : pc' = [pc EXCEPT ![r] = l]
          /\ writer = r /\ pc[r] \in {"copy", "copying"} /\ UNCHANGED <<writer, guards, made>>
      BY <2>1 DEF ReuseStore, CopyBegin, CopyEnd
    <3> QED BY <1>3, <3>1, TidyKept DEF Deploying
  <2>2. CASE LinkOne(r)
    <3>1. /\ pc' = [pc EXCEPT ![r] = "link"]
          /\ writer = r /\ pc[r] = "link" /\ UNCHANGED <<writer, guards>>
      BY <2>2 DEF LinkOne, TypeInv, TypeOK
    <3> QED BY <1>3, <3>1, TidyKept DEF Deploying
  <2>3. CASE SaveScripts(r)
    <3>1. /\ \E l \in {"commit", "copy"} : pc' = [pc EXCEPT ![r] = l]
          /\ writer = r /\ pc[r] = "link" /\ UNCHANGED writer /\ made' = {}
      BY <2>3 DEF SaveScripts
    <3> QED BY <3>1, TidyKept DEF Deploying
  <2>4. CASE Commit(r) \/ CommitFails(r)
    <3>1. PICK l \in {"cleanup", "rollback"} :
            pc' = [pc EXCEPT ![r] = l] /\ (guards' # {} => l = "rollback")
      BY <2>4 DEF Commit, CommitFails
    <3>2. writer = r /\ pc[r] = "commit" /\ UNCHANGED <<writer, made>>
      BY <2>4 DEF Commit, CommitFails
    <3>3. writer' = writer /\ pc[r] \in Held /\ l \in Held /\ made' = {}
      BY <1>3, <3>2
    <3>4. guards' # {} => l \in Deploying \cup {"rollback"}
      BY <3>1
    <3> QED BY <3>1, <3>2, <3>3, <3>4, TidyKept
  <2>5. CASE CleanupRemoved(r)
    <3>1. /\ pc' = [pc EXCEPT ![r] = "cleanup"]
          /\ writer = r /\ pc[r] = "cleanup" /\ UNCHANGED <<writer, made, guards>>
      BY <2>5 DEF CleanupRemoved, TypeInv, TypeOK
    <3> QED BY <1>3, <3>1, TidyKept DEF Deploying
  <2>6. CASE Finish(r)
    BY <2>6, TidyKept DEF Finish, Unlock
  <2> QED BY <1>5, <2>1, <2>2, <2>3, <2>4, <2>5, <2>6 DEF Deploy
<1>6. ASSUME NEW r \in Requests, DeleteFile(r) \/ DeleteHome(r) \/ DeleteFails(r) \/ Deleted(r) PROVE Tidy'
  <2>1. /\ \E l : pc' = [pc EXCEPT ![r] = l]
        /\ pc[r] = "deleting" /\ UNCHANGED <<writer, guards, made>>
    BY <1>6 DEF DeleteFile, DeleteHome, DeleteFails, Deleted, TypeInv, TypeOK
  <2> QED BY <2>1, TidyKept
<1>7. ASSUME NEW r \in Requests, DeleteFileRows(r) \/ DeleteRow(r) \/ StatementFails(r) PROVE Tidy'
  <2>1. /\ \E l \in {"row", "gc", "failed"} : pc' = [pc EXCEPT ![r] = l] /\ (l = "failed" => writer' = None)
        /\ writer = r /\ pc[r] \in {"files", "row"} /\ UNCHANGED <<guards, made>> /\ writer' \in {writer, None}
    BY <1>7 DEF DeleteFileRows, DeleteRow, StatementFails
  <2> QED BY <1>3, <2>1, TidyKept DEF Deploying
<1>8. ASSUME NEW r \in Requests, GcRemoved(r) PROVE Tidy'
  BY <1>8, TidyKept DEF GcRemoved, Unlock
<1>9. ASSUME NEW r \in Requests, CopyFails(r) \/ LinkFails(r) \/ SaveFails(r) \/ UpgradeCommitFails(r)
      PROVE  Tidy'
  <2>1. /\ pc' = [pc EXCEPT ![r] = "rollback"]
        /\ writer = r /\ pc[r] \in {"copying", "link", "commit"} /\ UNCHANGED writer
        /\ made' = {} \/ (pc[r] # "link" /\ UNCHANGED made)
    BY <1>9 DEF CopyFails, LinkFails, SaveFails, UpgradeCommitFails
  <2> QED BY <1>3, <2>1, TidyKept
<1>10. CASE Crash \/ UNCHANGED vars
  BY <1>10 DEF Crash, vars, Tidy
<1> QED BY <1>1, <1>2, <1>4, <1>5, <1>6, <1>7, <1>8, <1>9, <1>10 DEF Next, Step, Fail

\* Packages keep the names of their builds.
LEMMA NamedNext == ASSUME HarmlessForTables, TypeInv, Agreeing, Named, [Next]_vars PROVE Named'
<1> USE DEF disk, database, locals, bounds
<1>1. ASSUME \A p \in Pkgs : rows'[p] # None => rows'[p] = rows[p] \/ PkgOf[rows'[p]] = p PROVE Named'
  BY <1>1 DEF Named, Installed
<1>2. CASE rows' = rows
  BY <1>1, <1>2
<1>3. ASSUME NEW r \in Requests, Arrive(r) PROVE Named'
  BY <1>2, <1>3 DEF Arrive, PlanInstall, PlanLocal, PlanUpgrade, ReadRemove, Receive
<1>4. ASSUME NEW r \in Requests,
             \/ LockInstall(r) \/ LockLocal(r) \/ LockUpgrade(r) \/ LockRemove(r) \/ Fetch(r) \/ FetchFails(r)
             \/ DropGuard(r) \/ RolledBack(r) \/ GcRemoved(r)
      PROVE  Named'
  BY <1>2, <1>4 DEF LockInstall, LockLocal, LockUpgrade, LockRemove, Refuse, Enter, Fetch, FetchFails,
                    DropGuard, RolledBack, GcRemoved
<1>5. ASSUME NEW r \in Requests,
             \/ ReuseStore(r) \/ CopyBegin(r) \/ CopyEnd(r) \/ LinkOne(r) \/ SaveScripts(r)
             \/ CommitFails(r) \/ CleanupRemoved(r) \/ Finish(r)
      PROVE  Named'
  BY <1>2, <1>5 DEF ReuseStore, CopyBegin, CopyEnd, LinkOne, SaveScripts, CommitFails, CleanupRemoved, Finish
<1>6. ASSUME NEW r \in Requests, Commit(r) PROVE Named'
  <2>1. ASSUME NEW p \in Pkgs, rows'[p] # None PROVE rows'[p] = rows[p] \/ PkgOf[rows'[p]] = p
    <3>1. rows'[p] = IF NewOf(p) # {} THEN CHOOSE b \in NewOf(p) : TRUE
                     ELSE IF p \in removed THEN None ELSE rows[p]
      BY <1>6 DEF Commit
    <3>2. NewOf(p) # {} => (CHOOSE b \in NewOf(p) : TRUE) \in NewOf(p)
      OBVIOUS
    <3> QED BY <2>1, <3>1, <3>2 DEF NewOf
  <2> QED BY <1>1, <2>1
<1>7. ASSUME NEW r \in Requests,
             DeleteFile(r) \/ DeleteHome(r) \/ Deleted(r) \/ DeleteFileRows(r) \/ DeleteRow(r)
      PROVE  Named'
  <2>1. rows' = rows \/ \E p : rows' = [rows EXCEPT ![p] = None]
    BY <1>7 DEF DeleteFile, DeleteHome, Deleted, DeleteFileRows, DeleteRow
  <2> QED BY <1>1, <2>1 DEF TypeInv, TypeOK
<1>8. ASSUME NEW r \in Requests, Fail(r) PROVE Named'
  <2>1. rows' = rows \/ \E p : rows' = [rows EXCEPT ![p] = None]
    BY <1>8 DEF Fail, CopyFails, LinkFails, SaveFails, UpgradeCommitFails, DeleteFails, StatementFails
  <2> QED BY <1>1, <2>1 DEF TypeInv, TypeOK
<1>9. CASE Crash
  BY <1>2, <1>9 DEF HarmlessForTables, Agreeing, Recorded, Closed, Crash, Fault
<1>10. CASE UNCHANGED vars
  BY <1>2, <1>10 DEF vars
<1> QED BY <1>3, <1>4, <1>5, <1>6, <1>7, <1>8, <1>9, <1>10 DEF Next, Step, Deploy

\* Outside the write section of an install only what is asked for matters.
LEMMA UndoingOutside ==
  ASSUME NEW r \in Requests, pc[r] \notin Undoable, Asked(r) PROVE Undoing(r)
  BY DEF Undoing, Plain, Sparing, Restorable, Undoable

\* Somebody who is not under the lock stays where it is.
LEMMA OthersUndo ==
  ASSUME Undo, NEW r \in Requests, pc[r] \notin Held, pc'[r] = pc[r], req'[r] = req[r]
  PROVE  Undoing(r)'
<1>1. pc'[r] \notin Undoable
  BY DEF Undoable, Deploying
<1>2. Asked(r)'
  BY DEF Undo, Undoing, Asked
<1> QED BY <1>1, <1>2 DEF Undoing, Plain, Sparing, Restorable, Undoable

\* The state that an install depends on stays.
LEMMA UndoingKept ==
  ASSUME Undo, NEW r \in Requests, pc'[r] = pc[r], req'[r] = req[r],
         UNCHANGED <<dirs, store, link, rows, todo, removed, fetched, cur, made, guards, before>>
  PROVE  Undoing(r)'
<1>1. /\ Installed' = Installed /\ NewBuilds' = NewBuilds /\ View' = View /\ Hash' = Hash
      /\ \A f : Taken(f)' = Taken(f)
  BY DEF Installed, NewBuilds, View, Hash, Build, Taken
<1>2. Touched(r)' = Touched(r)
  BY <1>1 DEF Touched
<1>3. Asked(r)' /\ Plain(r)'
  BY <1>1 DEF Undo, Undoing, Asked, Plain
<1>4. Sparing(r)'
  BY <1>1 DEF Undo, Undoing, Sparing
<1>5. Restorable(r)'
  BY <1>1, <1>2 DEF Undo, Undoing, Restorable
<1> QED BY <1>3, <1>4, <1>5 DEF Undoing

\* Requests arrive, which changes nothing for an install under way.
LEMMA UndoArrive ==
  ASSUME NewInstalls, TypeInv, Undo, NEW r \in Requests, Arrive(r), NEW t \in Requests PROVE Undoing(t)'
<1> USE DEF Goto, disk, database, locals, bounds
<1>1. ASSUME NEW q, NEW l \in {"planned", "deleting", "failed"}, Receive(r, q, l),
             l = "planned" => q.kind = "install" /\ ~q.replace /\ q.remove \subseteq {q.pkg}
      PROVE  Undoing(t)'
  <2>1. CASE t # r
    BY <1>1, <2>1, UndoingKept DEF Receive, TypeInv, TypeOK
  <2>2. CASE t = r
    <3>1. pc'[r] = l /\ (pc[r] # "idle" => req'[r] = q)
      BY <1>1 DEF Receive, TypeInv, TypeOK
    <3>2. req'[r] = q
      BY <1>1 DEF Receive, TypeInv, TypeOK
    <3> QED BY <1>1, <2>2, <3>1, <3>2 DEF Undoing, Asked, Plain, Sparing, Restorable, Undoable, Deploying
  <2> QED BY <2>1, <2>2
<1>2. ASSUME NEW p \in Pkgs, NEW rep \in Replaces, NEW sm \in Smarts, PlanInstall(r, p, rep, sm)
      PROVE  Undoing(t)'
  <2> DEFINE q == [Request("install", p, None, rep, sm) EXCEPT !.remove = {p} \cap Installed]
  <2>1. q.kind = "install" /\ ~q.replace /\ q.remove \subseteq {q.pkg}
    BY DEF Request, NewInstalls
  <2>2. Receive(r, q, "planned")
    BY <1>2 DEF PlanInstall
  <2> HIDE DEF q
  <2> QED BY <1>1, <2>1, <2>2
<1>3. ASSUME NEW b \in Builds, NEW rep \in Replaces, PlanLocal(r, b, rep) PROVE FALSE
  BY <1>3 DEF PlanLocal, Receive, Request, NewInstalls
<1>4. ASSUME NEW p \in Pkgs, PlanUpgrade(r, p) PROVE FALSE
  BY <1>4 DEF PlanUpgrade, Receive, Request, NewInstalls
<1>5. ASSUME NEW p \in Pkgs, NEW k \in {"remove", "purge"}, ReadRemove(r, p, k) PROVE Undoing(t)'
  <2>1. ASSUME NEW q, NEW l \in {"deleting", "failed"}, Receive(r, q, l) PROVE Undoing(t)'
    BY <1>1, <2>1
  <2> DEFINE found == [Request(k, p, rows[p], FALSE, FALSE) EXCEPT
                         !.hash = HashOf[rows[p]], !.files = owned[p],
                         !.homes = IF k = "purge" THEN DirsToCleanup(p) ELSE {}]
  <2>2. Receive(r, found, "deleting") \/ Receive(r, Request(k, p, None, FALSE, FALSE), "failed")
    BY <1>5 DEF ReadRemove
  <2> HIDE DEF found
  <2> QED BY <2>1, <2>2
<1> QED BY <1>2, <1>3, <1>4, <1>5 DEF Arrive

\* An install takes the lock: what it finds is what it will have to restore.
LEMMA UndoLock ==
  ASSUME NewInstalls, TypeInv, Undo, NEW r \in Requests,
         LockInstall(r) \/ LockLocal(r) \/ LockUpgrade(r) \/ LockRemove(r),
         NEW t \in Requests
  PROVE  Undoing(t)'
<1> USE DEF Goto, disk, database, locals, bounds
<1>1. writer = None /\ req' = req /\ pc[r] \in {"planned", "deleted"}
      /\ \E l : pc' = [pc EXCEPT ![r] = l]
  BY DEF LockInstall, LockLocal, LockUpgrade, LockRemove, Refuse, Enter
<1>2. \A s \in Requests : pc[s] \notin Held
  BY <1>1, Alone
<1>3. CASE t # r
  <2>1. pc'[t] = pc[t] /\ req'[t] = req[t]
    BY <1>1, <1>3 DEF TypeInv, TypeOK
  <2> QED BY <1>2, <2>1, OthersUndo
<1>4. ASSUME NEW l \in {"done", "failed", "files"}, pc' = [pc EXCEPT ![r] = l], t = r PROVE Undoing(t)'
  BY <1>4 DEF Undoing, Asked, Plain, Sparing, Restorable, Undoable, Deploying, TypeInv, TypeOK
<1>5. CASE t = r /\ LockInstall(r)
  <2>1. CASE Refuse(r, "failed")
    BY <1>4, <1>5, <2>1 DEF Refuse
  <2>2. CASE ~(req[r].pkg \in Installed /\ ~req[r].replace)
             /\ Enter(r, "fetch", DepsOf[req[r].pkg] \cup {req[r].pkg}, req[r].remove, << >>)
    <3>1. pc[r] = "planned" /\ ~req[r].replace /\ req[r].remove \subseteq {req[r].pkg}
          /\ req[r].kind = "install" /\ req[r].pkg \notin Installed
      BY <1>5, <2>2 DEF LockInstall, Undo, Undoing, Asked
    <3>2. guards = {} /\ made = {}
      BY <1>2 DEF Undo, Tidy, Deploying
    <3>3. /\ pc'[r] = "fetch" /\ todo' = DepsOf[req[r].pkg] \cup {req[r].pkg}
          /\ removed' = req[r].remove /\ fetched' = << >> /\ before' = [rows |-> rows, view |-> View]
          /\ UNCHANGED <<dirs, store, link, rows, req, made, guards>>
      BY <2>2 DEF Enter, TypeInv, TypeOK
    <3>4. Installed' = Installed /\ NewBuilds' = {} /\ View' = View
      BY <3>3 DEF Installed, NewBuilds, View
    <3>5. Asked(r)' /\ Plain(r)'
      BY <3>1, <3>3, <3>4 DEF Asked, Plain
    <3>6. Sparing(r)'
      BY <3>2, <3>3, <3>4 DEF Sparing
    <3>7. Restorable(r)'
      BY <3>3, <3>4 DEF Restorable
    <3> QED BY <1>5, <3>5, <3>6, <3>7 DEF Undoing
  <2> QED BY <1>5, <2>1, <2>2 DEF LockInstall
<1>6. CASE LockLocal(r) \/ LockUpgrade(r)
  BY <1>6 DEF LockLocal, LockUpgrade, Undo, Undoing, Asked
<1>7. CASE t = r /\ LockRemove(r)
  BY <1>4, <1>7 DEF LockRemove, Enter
<1> QED BY <1>3, <1>5, <1>6, <1>7

\* A new package is compared with every installed one that is not obsolete, which has its
\* files on record; and it shares no path with those that are.
LEMMA UndoFetch ==
  ASSUME ObsoletesApart, TypeInv, Pairing, Undo, NEW r \in Requests, Fetch(r) PROVE Undoing(r)'
<1> USE DEF Goto, disk, database, locals, bounds
<1>1. /\ writer = r /\ pc[r] = "fetch" /\ req' = req /\ ~req[r].replace /\ pc[r] \in Undoable
      /\ pc'[r] \in {"fetch", "copy"} /\ Undoing(r)
      /\ UNCHANGED <<dirs, store, link, rows, owned, cur, made, guards, before>>
  BY DEF Fetch, Undo, Undoing, Asked, Undoable, TypeInv, TypeOK
<1>2. /\ Installed' = Installed /\ View' = View /\ \A f : Taken(f)' = Taken(f)
      /\ Touched(r)' = Touched(r)
  BY <1>1 DEF Installed, View, Taken, Touched
<1>3. Asked(r)' /\ Restorable(r)'
  BY <1>1, <1>2 DEF Undoing, Asked, Restorable, Undoable, Deploying
<1>4. PICK p \in todo :
        /\ todo' = todo \ {p}
        /\ \/ UNCHANGED <<removed, fetched>>
           \/ \E b \in BuildsOf(p) :
                LET gone == removed \cup (ObsoletesOf[b] \cap Installed)
                IN  Conflicts(b, gone) = {} /\ removed' = gone /\ fetched' = Append(fetched, b)
  BY <1>1 DEF Fetch
<1>5. CASE UNCHANGED <<removed, fetched>>
  <2>1. NewBuilds' = NewBuilds
    BY <1>5 DEF NewBuilds
  <2>2. Plain(r)'
    BY <1>1, <1>2, <1>4, <1>5, <2>1 DEF Undoing, Plain
  <2>3. Sparing(r)'
    BY <1>1, <1>2, <2>1 DEF Undoing, Sparing
  <2> QED BY <1>3, <2>2, <2>3 DEF Undoing
<1>6. ASSUME NEW b \in BuildsOf(p),
             Conflicts(b, removed \cup (ObsoletesOf[b] \cap Installed)) = {},
             removed' = removed \cup (ObsoletesOf[b] \cap Installed), fetched' = Append(fetched, b)
      PROVE  Undoing(r)'
  <2>1. b \in Builds /\ PkgOf[b] = p /\ NewBuilds' = NewBuilds \cup {b}
    BY <1>6, NewBuildsAppend DEF BuildsOf, TypeInv, TypeOK
  <2>2. /\ p \in DepsOf[req[r].pkg] \cup {req[r].pkg}
        /\ \A c \in NewBuilds' : PkgOf[c] \in DepsOf[req[r].pkg] \cup {req[r].pkg}
        /\ \A q \in removed' \cap Installed : \E c \in NewBuilds' : q \in ObsoletesOf[c]
    BY <1>1, <1>4, <1>6, <2>1 DEF Undoing, Plain
  <2>3. Plain(r)'
    BY <1>1, <1>2, <1>4, <2>1, <2>2 DEF Undoing, Plain
  <2>4. NewBuilds' \subseteq Builds /\ req[r].pkg \in Pkgs
    <3>1. NewBuilds \subseteq Builds
      BY DEF NewBuilds, TypeInv, TypeOK
    <3>2. req[r] \in ReqType
      BY <1>1 DEF TypeInv, Owner
    <3> QED BY <2>1, <3>1, <3>2 DEF ReqType
  <2>5. ASSUME NEW f \in FilesOf[b], Taken(f) PROVE FALSE
    <3>1. PICK q \in Installed : f \in FilesOf[rows[q]]
      BY <2>5 DEF Taken
    <3>2. q \in Pkgs /\ rows[q] \in Builds /\ PkgOf[rows[q]] = q
      BY DEF Installed, TypeInv, TypeOK, Undo, Named
    <3>3. \A s \in Requests : pc[s] # "row"
      BY <1>1, Alone
    <3>4. f \in owned[q]
      BY <3>1, <3>2, <3>3 DEF Pairing, Paired, Installed
    <3>5. q \in removed'
      BY <1>6, <3>2, <3>4 DEF Conflicts
    <3>6. PICK c \in NewBuilds' : q \in ObsoletesOf[c]
      BY <2>2, <3>5
    <3>7. c \in Builds /\ {PkgOf[c], PkgOf[b]} \subseteq DepsOf[req[r].pkg] \cup {req[r].pkg}
      BY <2>1, <2>2, <2>4, <3>6
    <3>8. FilesOf[b] \cap FilesOf[rows[q]] = {}
      BY <2>1, <2>4, <3>2, <3>6, <3>7 DEF ObsoletesApart
    <3> QED BY <3>1, <3>8
  <2>6. Sparing(r)'
    BY <1>1, <1>2, <2>1, <2>5 DEF Undoing, Sparing
  <2> QED BY <1>3, <2>3, <2>6 DEF Undoing
<1> QED BY <1>4, <1>5, <1>6

\* While it deploys, an install changes what paths show that nobody has.
LEMMA UndoDeploy ==
  ASSUME TypeInv, Undo, NEW r \in Requests,
         \/ ReuseStore(r) \/ CopyBegin(r) \/ CopyEnd(r) \/ LinkOne(r) \/ SaveScripts(r)
         \/ LinkFails(r) \/ SaveFails(r)
  PROVE  Undoing(r)'
<1> USE DEF Goto, disk, database, locals, bounds, Fault
<1>1. /\ writer = r /\ pc[r] \in {"copy", "copying", "link"} /\ pc[r] \in Undoable
      /\ UNCHANGED <<rows, fetched, before, req>> /\ Undoing(r)
      /\ pc'[r] \in Undoable /\ pc'[r] \notin {"fetch", "planned"}
  BY DEF ReuseStore, CopyBegin, CopyEnd, LinkOne, SaveScripts, LinkFails, SaveFails, Undo, Undoable,
         Deploying, TypeInv, TypeOK
<1>2. Installed' = Installed /\ NewBuilds' = NewBuilds /\ \A f : Taken(f)' = Taken(f)
  BY <1>1 DEF Installed, NewBuilds, Taken
<1>3. /\ Build \in NewBuilds /\ Build \in Builds /\ Hash = HashOf[Build] /\ Hash \in Hashes
      /\ FilesOf[Build] \subseteq Paths
  BY <1>1 DEF TypeInv, TypeOK, Position, Build, Hash, NewBuilds
<1>4. /\ store[Hash] \subseteq FilesOf[Build]
      /\ \A f \in FilesOf[Build] : ~Taken(f)
      /\ \A f \in made : ~Taken(f)
  BY <1>1, <1>3 DEF Undo, Within, Undoing, Sparing
<1>5. Asked(r)' /\ Plain(r)'
  BY <1>1 DEF Undoing, Asked, Plain, Undoable
<1>6. Sparing(r)'
  <2>1. \/ guards' = guards
        \/ \E L \in SUBSET made : guards' = guards \cup {[hash |-> Hash, links |-> L]}
    BY DEF ReuseStore, CopyBegin, CopyEnd, LinkOne, SaveScripts, LinkFails, SaveFails
  <2>2. \A f \in made' : f \in made \/ f \in store[Hash]
    BY DEF ReuseStore, CopyBegin, CopyEnd, LinkOne, ToLink, SaveScripts, LinkFails, SaveFails
  <2>3. \A g \in guards' : \/ g \in guards
                           \/ g.hash = Hash /\ \A f \in g.links : f \in made
    BY <2>1
  <2>4. \A g \in guards' : /\ \E b \in NewBuilds : HashOf[b] = g.hash
                           /\ \A f \in g.links : ~Taken(f)
    BY <1>1, <1>3, <1>4, <2>3 DEF Undoing, Sparing
  <2>5. \A f \in made' : ~Taken(f)
    BY <1>4, <2>2
  <2> QED BY <1>1, <1>2, <2>4, <2>5 DEF Undoing, Sparing
<1>7. /\ rows = before.rows
      /\ \A f \in Paths : \/ View[f] = before.view[f]
                          \/ ~Taken(f) /\ View[f] \in {None} \cup Touched(r)
  BY <1>1 DEF Undoing, Restorable
<1>8. Touched(r) \subseteq Touched(r)'
  <2>1. CASE ReuseStore(r) \/ CopyBegin(r) \/ CopyEnd(r) \/ LinkOne(r)
    <3>1. /\ Hash' = Hash /\ guards' = guards
          /\ pc[r] \in {"copying", "link"} => pc'[r] \in {"copying", "link"}
      BY <2>1 DEF ReuseStore, CopyBegin, CopyEnd, LinkOne, Hash, Build, TypeInv, TypeOK
    <3> QED BY <3>1 DEF Touched
  <2>2. CASE SaveScripts(r) \/ LinkFails(r) \/ SaveFails(r)
    <3>1. PICK L : guards' = guards \cup {[hash |-> Hash, links |-> L]}
      BY <2>2 DEF SaveScripts, LinkFails, SaveFails
    <3> DEFINE new == [hash |-> Hash, links |-> L]
    <3>2. new.hash = Hash /\ guards \cup {new} = guards'
      BY <3>1
    <3> HIDE DEF new
    <3>3. Hash \in {g.hash : g \in guards'} /\ {g.hash : g \in guards} \subseteq {g.hash : g \in guards'}
      BY <3>2
    <3> QED BY <3>3 DEF Touched
  <2> QED BY <2>1, <2>2
<1>9. \A f \in Paths : \/ View'[f] = View[f]
                       \/ ~Taken(f) /\ View'[f] \in {None} \cup Touched(r)'
  <2>1. CASE ReuseStore(r) \/ SaveScripts(r) \/ LinkFails(r) \/ SaveFails(r)
    BY <2>1 DEF ReuseStore, SaveScripts, LinkFails, SaveFails, View
  <2>2. CASE CopyBegin(r) \/ CopyEnd(r)
    <3>1. /\ link' = link /\ \A h \in Hashes \ {Hash} : store'[h] = store[h] /\ (h \in dirs' <=> h \in dirs)
          /\ pc'[r] \in {"copying", "link"} /\ Hash' = Hash
      BY <1>3, <2>2 DEF CopyBegin, CopyEnd, Hash, Build, TypeInv, TypeOK
    <3>2. store'[Hash] \subseteq FilesOf[Build] /\ dirs \subseteq dirs'
      BY <1>3, <2>2 DEF CopyBegin, CopyEnd, TypeInv, TypeOK
    <3>3. Hash \in Touched(r)'
      BY <3>1 DEF Touched
    <3>4. ASSUME NEW f \in Paths PROVE \/ View'[f] = View[f]
                                       \/ ~Taken(f) /\ View'[f] \in {None} \cup Touched(r)'
      <4>1. /\ View[f] = IF link[f] \in dirs /\ f \in store[link[f]] THEN link[f] ELSE None
            /\ View'[f] = IF link'[f] \in dirs' /\ f \in store'[link'[f]] THEN link'[f] ELSE None
        BY DEF View
      <4>2. CASE link[f] = Hash
        <5>1. CASE f \in FilesOf[Build]
          BY <1>4, <3>1, <3>3, <4>1, <4>2, <5>1
        <5>2. CASE f \notin FilesOf[Build]
          BY <1>4, <3>1, <3>2, <4>1, <4>2, <5>2
        <5> QED BY <5>1, <5>2
      <4>3. CASE link[f] # Hash
        <5>1. link[f] \in dirs' <=> link[f] \in dirs
          BY <2>2, <4>3 DEF CopyBegin, CopyEnd
        <5>2. link[f] \in dirs => store'[link[f]] = store[link[f]]
          BY <3>1, <4>3 DEF TypeInv, TypeOK
        <5> QED BY <3>1, <4>1, <5>1, <5>2
      <4> QED BY <4>2, <4>3
    <3> QED BY <3>4
  <2>3. CASE LinkOne(r)
    <3>1. PICK f \in store[Hash] : link' = [link EXCEPT ![f] = Hash]
      BY <2>3 DEF LinkOne, ToLink
    <3>2. /\ UNCHANGED <<dirs, store>> /\ pc'[r] = "link" /\ Hash' = Hash
          /\ \A g \in Paths : g # f => link'[g] = link[g]
          /\ f \in Paths /\ link'[f] = Hash /\ ~Taken(f)
      BY <1>3, <1>4, <2>3, <3>1 DEF LinkOne, Hash, Build, TypeInv, TypeOK
    <3>3. Hash \in Touched(r)'
      BY <3>2 DEF Touched
    <3>4. ASSUME NEW g \in Paths, g # f PROVE View'[g] = View[g]
      BY <3>2, <3>4 DEF View
    <3>5. View'[f] \in {None, Hash}
      BY <3>2 DEF View
    <3> QED BY <3>2, <3>3, <3>4, <3>5
  <2> QED BY <2>1, <2>2, <2>3
<1>10. Restorable(r)'
  BY <1>1, <1>2, <1>7, <1>8, <1>9 DEF Restorable
<1> QED BY <1>5, <1>6, <1>10 DEF Undoing

\* A guard takes the links and the directory away that lead to what is new, and no others.
LEMMA UndoGuard ==
  ASSUME TypeInv, Undo, NEW r \in Requests, DropGuard(r) PROVE Undoing(r)'
<1> USE DEF Goto, disk, database, locals, bounds
<1>1. /\ pc[r] = "rollback" /\ pc[r] \in Undoable /\ pc'[r] = "rollback" /\ Undoing(r)
      /\ UNCHANGED <<rows, fetched, before, req, made>>
  BY DEF DropGuard, Undo, Undoable
<1>2. Installed' = Installed /\ NewBuilds' = NewBuilds /\ \A f : Taken(f)' = Taken(f)
  BY <1>1 DEF Installed, NewBuilds, Taken
<1>3. PICK g \in guards : /\ link' = [f \in Paths |-> IF f \in g.links THEN None ELSE link[f]]
                          /\ dirs' = dirs \ {g.hash} /\ store' = [store EXCEPT ![g.hash] = {}]
                          /\ guards' = guards \ {g}
  BY DEF DropGuard, RemoveStore
<1>4. Asked(r)' /\ Plain(r)'
  BY <1>1 DEF Undoing, Asked, Plain, Undoable
<1>5. Sparing(r)'
  BY <1>1, <1>2, <1>3 DEF Undoing, Sparing
<1>6. PICK b \in NewBuilds : HashOf[b] = g.hash
  BY <1>1, <1>3 DEF Undoing, Sparing
<1>7. /\ b \in Builds /\ \A f \in g.links : ~Taken(f)
      /\ store[g.hash] \subseteq FilesOf[b] /\ \A f \in FilesOf[b] : ~Taken(f)
  <2>1. b \in Builds
    BY DEF NewBuilds, TypeInv, TypeOK
  <2>2. store[g.hash] \subseteq FilesOf[b]
    BY <1>6, <2>1 DEF Undo, Within
  <2>3. (\A f \in g.links : ~Taken(f)) /\ \A f \in FilesOf[b] : ~Taken(f)
    BY <1>1, <1>3 DEF Undoing, Sparing
  <2> QED BY <2>1, <2>2, <2>3
<1>8. Touched(r) \subseteq Touched(r)' \cup {g.hash}
  BY <1>1, <1>3 DEF Touched
<1>9. ASSUME NEW f \in Paths
      PROVE  \/ View'[f] = before.view[f]
             \/ ~Taken(f) /\ View'[f] \in {None} \cup Touched(r)'
  <2>1. /\ View[f] = IF link[f] \in dirs /\ f \in store[link[f]] THEN link[f] ELSE None
        /\ View'[f] = IF link'[f] \in dirs' /\ f \in store'[link'[f]] THEN link'[f] ELSE None
    BY DEF View
  <2>2. \/ View[f] = before.view[f]
        \/ ~Taken(f) /\ View[f] \in {None} \cup Touched(r)
    BY <1>1 DEF Undoing, Restorable
  <2>3. None \notin dirs' /\ link[f] \in Hashes \cup {None} /\ dirs \subseteq Hashes
    BY <1>3 DEF TypeInv, TypeOK
  <2>4. CASE f \in g.links
    BY <1>3, <1>7, <2>1, <2>3, <2>4
  <2>5. CASE f \notin g.links /\ link[f] = g.hash
    <3>1. View'[f] = None
      BY <1>3, <2>1, <2>5
    <3>2. f \notin store[g.hash] => View[f] = None
      BY <2>1, <2>5
    <3> QED BY <1>7, <2>2, <3>1, <3>2
  <2>6. CASE f \notin g.links /\ link[f] # g.hash
    <3>1. link'[f] = link[f] /\ (link[f] \in dirs' <=> link[f] \in dirs)
      BY <1>3, <2>6
    <3>2. link[f] \in dirs => store'[link[f]] = store[link[f]]
      BY <1>3, <2>3, <2>6 DEF TypeInv, TypeOK
    <3>3. View'[f] = View[f] /\ (View[f] # None => View[f] # g.hash)
      BY <2>1, <2>6, <3>1, <3>2
    <3> QED BY <1>8, <2>2, <3>3
  <2> QED BY <2>4, <2>5, <2>6
<1>10. Restorable(r)'
  BY <1>1, <1>2, <1>9 DEF Undoing, Restorable
<1> QED BY <1>4, <1>5, <1>10 DEF Undoing

\* A request moves no other.
LEMMA OwnStep ==
  ASSUME TypeInv, NEW r \in Requests, Arrive(r) \/ Step(r) \/ Fail(r), NEW t \in Requests, t # r
  PROVE  pc'[t] = pc[t] /\ req'[t] = req[t]
<1> USE DEF Goto, Unlock
<1>1. ASSUME pc' = pc \/ \E l : pc' = [pc EXCEPT ![r] = l],
             req' = req \/ \E q : req' = [req EXCEPT ![r] = q]
      PROVE  pc'[t] = pc[t] /\ req'[t] = req[t]
  BY <1>1 DEF TypeInv, TypeOK
<1>2. CASE Arrive(r)
  BY <1>1, <1>2 DEF Arrive, PlanInstall, PlanLocal, PlanUpgrade, ReadRemove, Receive
<1>3. CASE LockInstall(r) \/ LockLocal(r) \/ LockUpgrade(r) \/ LockRemove(r) \/ Fetch(r) \/ FetchFails(r)
  BY <1>1, <1>3 DEF LockInstall, LockLocal, LockUpgrade, LockRemove, Refuse, Enter, Fetch, FetchFails
<1>4. CASE Deploy(r)
  BY <1>1, <1>4 DEF Deploy, ReuseStore, CopyBegin, CopyEnd, LinkOne, SaveScripts, Commit, CommitFails,
                    CleanupRemoved, Finish
<1>5. CASE DropGuard(r) \/ RolledBack(r) \/ Deleted(r) \/ DeleteFileRows(r) \/ DeleteRow(r) \/ GcRemoved(r)
  BY <1>1, <1>5 DEF DropGuard, RolledBack, Deleted, DeleteFileRows, DeleteRow, GcRemoved
<1>6. CASE DeleteFile(r) \/ DeleteHome(r) \/ DeleteFails(r)
  BY <1>6, Deleting
<1>7. CASE CopyFails(r) \/ LinkFails(r) \/ SaveFails(r) \/ UpgradeCommitFails(r) \/ StatementFails(r)
  BY <1>1, <1>7 DEF CopyFails, LinkFails, SaveFails, UpgradeCommitFails, StatementFails
<1> QED BY <1>2, <1>3, <1>4, <1>5, <1>6, <1>7 DEF Step, Fail

\* An install that is over, or under no lock any more, has nothing to restore.
LEMMA UndoLeft ==
  ASSUME NEW r \in Requests, pc'[r] \notin {"planned"} \cup Undoable PROVE Undoing(r)'
  BY DEF Undoing, Asked, Plain, Sparing, Restorable, Undoable

\* The commit fails: the rollback begins with what was linked.
LEMMA UndoCommit ==
  ASSUME Undo, TypeInv, NEW r \in Requests, CommitFails(r) PROVE Undoing(r)'
<1> USE DEF Goto, disk, database, locals
<1>1. /\ pc[r] = "commit" /\ pc'[r] = "rollback" /\ pc[r] \in Undoable /\ Undoing(r)
      /\ UNCHANGED <<dirs, store, link, rows, fetched, cur, made, guards, before, req>>
  BY DEF CommitFails, Undo, Undoable, Deploying, TypeInv, TypeOK
<1>2. /\ Installed' = Installed /\ NewBuilds' = NewBuilds /\ View' = View
      /\ \A f : Taken(f)' = Taken(f)
  BY <1>1 DEF Installed, NewBuilds, View, Taken
<1>3. Touched(r)' = Touched(r)
  BY <1>1 DEF Touched
<1>4. Asked(r)' /\ Plain(r)'
  BY <1>1 DEF Undoing, Asked, Plain, Undoable
<1>5. Sparing(r)'
  BY <1>1, <1>2 DEF Undoing, Sparing
<1>6. Restorable(r)'
  BY <1>1, <1>2, <1>3 DEF Undoing, Restorable
<1> QED BY <1>4, <1>5, <1>6 DEF Undoing

\* Undo is inductive relative to the other invariants.
LEMMA UndoNext ==
  ASSUME NewInstalls, ObsoletesApart, HarmlessForTables, WholeKinds \/ OneAtATime,
         TypeInv, Agreeing, Undo, [Next]_vars
  PROVE  Undo'
<1> SUFFICES ASSUME NEW t \in Requests PROVE Undoing(t)'
  BY WithinNext, TidyNext, NamedNext DEF Undo
<1>1. ASSUME NEW r \in Requests, Arrive(r) \/ Step(r) \/ Fail(r), t # r, pc[t] \notin Held
      PROVE  Undoing(t)'
  BY <1>1, OwnStep, OthersUndo
<1>2. ASSUME NEW r \in Requests, Arrive(r) \/ LockInstall(r) \/ LockLocal(r) \/ LockUpgrade(r) \/ LockRemove(r)
      PROVE  Undoing(t)'
  BY <1>2, UndoArrive, UndoLock
\* A step under the lock: the others are not in the write section.
<1>3. ASSUME NEW r \in Requests, Step(r) \/ Fail(r), writer = r, t = r => Undoing(r)' PROVE Undoing(t)'
  BY <1>1, <1>3, Alone
<1>4. ASSUME NEW r \in Requests, Fetch(r) PROVE Undoing(t)'
  <2>1. Undoing(r)' /\ writer = r
    BY <1>4, UndoFetch DEF Agreeing, Fetch
  <2> QED BY <1>3, <1>4, <2>1 DEF Step
<1>5. ASSUME NEW r \in Requests,
             \/ ReuseStore(r) \/ CopyBegin(r) \/ CopyEnd(r) \/ LinkOne(r) \/ SaveScripts(r)
             \/ LinkFails(r) \/ SaveFails(r)
      PROVE  Undoing(t)'
  <2>1. Undoing(r)'
    BY <1>5, UndoDeploy
  <2>2. writer = r
    BY <1>5 DEF ReuseStore, CopyBegin, CopyEnd, LinkOne, SaveScripts, LinkFails, SaveFails
  <2> QED BY <1>3, <1>5, <2>1, <2>2 DEF Step, Deploy, Fail
<1>6. ASSUME NEW r \in Requests, CommitFails(r) \/ DropGuard(r) PROVE Undoing(t)'
  <2>1. Undoing(r)' /\ writer = r
    BY <1>6, UndoCommit, UndoGuard DEF CommitFails, DropGuard
  <2> QED BY <1>3, <1>6, <2>1 DEF Step, Deploy
<1>7. ASSUME NEW r \in Requests, FetchFails(r) \/ RolledBack(r) \/ Commit(r) \/ CleanupRemoved(r) \/ Finish(r)
      PROVE  Undoing(t)'
  <2>1. writer = r /\ pc'[r] \notin {"planned"} \cup Undoable
    BY <1>7 DEF FetchFails, RolledBack, Commit, CleanupRemoved, Finish, Unlock, Goto, Undoable, Deploying,
                TypeInv, TypeOK
  <2> QED BY <1>3, <1>7, <2>1, UndoLeft DEF Step, Deploy
<1>8. ASSUME NEW r \in Requests, DeleteFileRows(r) \/ DeleteRow(r) \/ GcRemoved(r) \/ StatementFails(r)
      PROVE  Undoing(t)'
  <2>1. writer = r /\ pc'[r] \notin {"planned"} \cup Undoable
    BY <1>8 DEF DeleteFileRows, DeleteRow, GcRemoved, StatementFails, Unlock, Goto, Undoable, Deploying,
                TypeInv, TypeOK
  <2> QED BY <1>3, <1>8, <2>1, UndoLeft DEF Step, Fail
\* A removal deletes files under no lock, but where there are removals it is alone.
<1>9. ASSUME NEW r \in Requests, DeleteFile(r) \/ DeleteHome(r) \/ DeleteFails(r) \/ Deleted(r)
      PROVE  Undoing(t)'
  <2>1. pc[r] = "deleting" /\ pc'[r] \notin {"planned"} \cup Undoable
    BY <1>9 DEF DeleteFile, DeleteHome, DeleteFails, Deleted, Goto, Undoable, Deploying, TypeInv, TypeOK
  <2>2. CASE WholeKinds
    BY <2>1, <2>2 DEF Agreeing, Recorded
  <2>3. CASE OneAtATime
    BY <2>1, <2>3, UndoLeft DEF OneAtATime
  <2> QED BY <2>2, <2>3
<1>10. ASSUME NEW r \in Requests, CopyFails(r) \/ UpgradeCommitFails(r) PROVE FALSE
  <2>1. ~CopyFails(r)
    BY DEF NewInstalls, CopyFails, Fault
  <2>2. ~UpgradeCommitFails(r)
    BY DEF UpgradeCommitFails, Undo, Undoing, Asked, Undoable, Deploying
  <2> QED BY <1>10, <2>1, <2>2
<1>11. CASE Crash
  <2>1. pc'[t] \in Ended
    BY <1>11 DEF Crash
  <2> QED BY <2>1, UndoLeft DEF Undoable, Deploying
<1>12. CASE UNCHANGED vars
  BY <1>12, UndoingKept DEF vars, disk, database, locals
<1> QED BY <1>2, <1>4, <1>5, <1>6, <1>7, <1>8, <1>9, <1>10, <1>11, <1>12 DEF Next, Step, Fail, Deploy

\* Where an install fails there is nothing left that a failure is going to remove.
LEMMA UndoneAtEnd ==
  ASSUME TypeInv, Undo, NEW r \in Requests, FetchFails(r) \/ RolledBack(r)
  PROVE  /\ rows' = before.rows
         /\ \A f \in Paths : \/ View'[f] = before.view[f]
                             \/ View'[f] = None /\ \A p \in Installed : f \notin FilesOf[rows[p]]
<1>1. /\ writer = r /\ pc[r] \in {"fetch", "rollback"} /\ pc[r] \in Undoable
      /\ UNCHANGED <<dirs, store, link, rows>> /\ (pc[r] = "rollback" => guards = {})
  BY DEF FetchFails, RolledBack, disk, database, Undoable
<1>2. guards = {}
  BY <1>1, Alone DEF Undo, Tidy, Deploying
<1>3. Touched(r) = {}
  BY <1>1, <1>2 DEF Touched
<1>4. View' = View
  BY <1>1 DEF View
<1>5. Restorable(r)
  BY DEF Undo, Undoing
<1> QED BY <1>1, <1>3, <1>4, <1>5 DEF Restorable, Taken

\* Only these two end the write section of an install with an error.
LEMMA UndoneByFailure ==
  ASSUME HarmlessForTables, TypeInv, Agreeing, Undo, [Next]_vars,
         NEW r \in Requests, writer = r, pc'[r] = "failed"
  PROVE  FetchFails(r) \/ RolledBack(r)
<1>1. pc[r] \in Held
  BY DEF Undo, Tidy
<1>2. ~Crash /\ ~UNCHANGED vars
  BY <1>1 DEF Crash, vars
<1>3. Arrive(r) \/ Step(r) \/ Fail(r)
  BY <1>1, <1>2, OwnStep DEF Next
<1> USE DEF Goto, Unlock
<1>4. ~Arrive(r)
  BY <1>1 DEF Arrive, PlanInstall, PlanLocal, PlanUpgrade, ReadRemove, Receive
<1>5. ~LockInstall(r) /\ ~LockLocal(r) /\ ~LockUpgrade(r) /\ ~LockRemove(r) /\ ~Fetch(r)
  BY <1>1 DEF LockInstall, LockLocal, LockUpgrade, LockRemove, Fetch, TypeInv, TypeOK
<1>6. ~Deploy(r)
  BY <1>1 DEF Deploy, ReuseStore, CopyBegin, CopyEnd, LinkOne, SaveScripts, Commit, CommitFails,
              CleanupRemoved, Finish, TypeInv, TypeOK
<1>7. /\ ~DropGuard(r) /\ ~DeleteFile(r) /\ ~DeleteHome(r) /\ ~Deleted(r)
      /\ ~DeleteFileRows(r) /\ ~DeleteRow(r) /\ ~GcRemoved(r)
  BY <1>1 DEF DropGuard, DeleteFile, DeleteHome, Deleted, DeleteFileRows, DeleteRow, GcRemoved, TypeInv, TypeOK
<1>8. ~CopyFails(r) /\ ~LinkFails(r) /\ ~SaveFails(r) /\ ~UpgradeCommitFails(r) /\ ~DeleteFails(r)
  BY <1>1 DEF CopyFails, LinkFails, SaveFails, UpgradeCommitFails, DeleteFails, TypeInv, TypeOK
<1>9. ~StatementFails(r)
  BY DEF HarmlessForTables, Agreeing, Recorded, StatementFails
<1> QED BY <1>3, <1>4, <1>5, <1>6, <1>7, <1>8, <1>9 DEF Step, Fail

\* An install that fails, at whatever step before or in the commit and however many others
\* wait, leaves the rows as they were when it took the write lock, every path of an
\* installed package resolving to what it did, and no path resolving to something new:
\* provided packages are not replaced, no copy fails, which leaves a directory no guard knows
\* of, and an obsoleted package shares no path with what replaces it.  Where removals
\* arrive too, which delete files without the lock, it is for one request at a time.
THEOREM FailedInstalls ==
  ASSUME NewInstalls, ObsoletesApart, HarmlessForTables, WholeKinds \/ OneAtATime
  PROVE  Spec => FailureInvisible
<1>1. Init => Undo
  BY DEF Init, Undo, Within, Tidy, Named, Installed, Undoing, Asked, Plain, Sparing, Restorable,
         Undoable, Deploying
<1>2. TypeInv /\ Agreeing /\ Undo /\ [Next]_vars => Agreeing' /\ Undo'
  BY AgreeingNext, UndoNext
<1>3. TypeInv /\ Agreeing /\ Undo /\ [Next]_vars =>
        [\A r \in Requests : (writer = r /\ pc'[r] = "failed") =>
           /\ rows' = before.rows
           /\ \A f \in Paths :
                \/ View'[f] = before.view[f]
                \/ View'[f] = None /\ \A p \in Installed : f \notin FilesOf[rows[p]]]_vars
  BY UndoneByFailure, UndoneAtEnd
<1> QED BY <1>1, <1>2, <1>3, AgreeingInit, TypeInvariant, PTL DEF Spec, FailureInvisible

-----------------------------------------------------------------------------
(* What is answered as done is recorded, and durable.                      *)

\* A build of the package that was asked for has been fetched.
Has(r) == \E i \in 1 .. Len(fetched) : PkgOf[fetched[i]] = req[r].pkg

\* On its way to the commit a request keeps what it was asked for, and once committed it
\* is on record and no transaction is open.
Promised(r) ==
  /\ pc[r] = "planned" /\ req[r].kind = "local" => PkgOf[req[r].build] = req[r].pkg
  /\ pc[r] = "fetch" => req[r].pkg \in todo \/ Has(r)
  /\ pc[r] \in Deploying => Has(r)
  /\ pc[r] = "cleanup" => ~txn /\ rows[req[r].pkg] # None

\* Unless a failed upgrade has left a transaction open, the process sees what is durable.
Promising ==
  /\ ~txn => durable = [rows |-> rows, owned |-> owned]
  /\ \A r \in Requests : Promised(r)

\* Steps outside the write section of an install, or by its holder that leave the tables
\* and what is fetched alone.
LEMMA PromisingKept ==
  ASSUME Promising, UNCHANGED <<rows, owned, durable, txn>>,
         \A t \in Requests :
           \/ pc'[t] \notin {"planned", "fetch", "cleanup"} \cup Deploying
           \/ /\ UNCHANGED <<fetched, todo>> /\ req'[t].pkg = req[t].pkg
              /\ pc'[t] = "planned" => pc[t] = "planned" /\ req'[t] = req[t]
              /\ pc'[t] = "fetch" => pc[t] = "fetch"
              /\ pc'[t] \in Deploying => pc[t] \in Deploying
              /\ pc'[t] = "cleanup" => pc[t] = "cleanup"
           \/ /\ pc'[t] = "planned"
              /\ req'[t].kind = "local" => PkgOf[req'[t].build] = req'[t].pkg
  PROVE  Promising'
<1> SUFFICES ASSUME NEW t \in Requests PROVE Promised(t)'
  BY DEF Promising
<1>1. Promised(t)
  BY DEF Promising
<1>2. CASE pc'[t] \notin {"planned", "fetch", "cleanup"} \cup Deploying
  BY <1>2 DEF Promised
<1>3. CASE /\ UNCHANGED <<fetched, todo>> /\ req'[t].pkg = req[t].pkg
           /\ pc'[t] = "planned" => pc[t] = "planned" /\ req'[t] = req[t]
           /\ pc'[t] = "fetch" => pc[t] = "fetch"
           /\ pc'[t] \in Deploying => pc[t] \in Deploying
           /\ pc'[t] = "cleanup" => pc[t] = "cleanup"
  BY <1>1, <1>3 DEF Promised, Has
<1>4. CASE /\ pc'[t] = "planned"
           /\ req'[t].kind = "local" => PkgOf[req'[t].build] = req'[t].pkg
  BY <1>4 DEF Promised, Deploying
<1> QED BY <1>2, <1>3, <1>4

\* The write section of an upgrade or a local install begins with the one build asked for.
LEMMA PromisingLock ==
  ASSUME TypeInv, Promising, NEW r \in Requests,
         LockInstall(r) \/ LockLocal(r) \/ LockUpgrade(r) \/ LockRemove(r)
  PROVE  Promising'
<1> USE DEF Goto, disk, database, locals, bounds
<1>1. /\ writer = None /\ pc[r] \in {"planned", "deleted"} /\ Promised(r)
      /\ req[r] \in ReqType
  BY DEF LockInstall, LockLocal, LockUpgrade, LockRemove, Promising, TypeInv, Owner
<1>2. \A t \in Requests : pc[t] \notin {"fetch", "cleanup"} \cup Deploying
  BY <1>1 DEF TypeInv, TypeOK, Owner, Deploying
<1>3. ASSUME NEW l \in {"done", "failed"}, Refuse(r, l) PROVE Promising'
  <2>1. UNCHANGED <<rows, owned, durable, txn, req, fetched, todo>> /\ pc' = [pc EXCEPT ![r] = l]
    BY <1>3 DEF Refuse
  <2> QED BY <1>2, <2>1, PromisingKept DEF TypeInv, TypeOK, Deploying
<1>4. ASSUME NEW l \in {"fetch", "copy", "files"}, NEW names, NEW gone, NEW new,
             Enter(r, l, names, gone, new),
             l = "fetch" => req[r].pkg \in names,
             l = "copy" => \E b \in Builds : new = <<b>> /\ PkgOf[b] = req[r].pkg
      PROVE  Promising'
  <2>1. /\ UNCHANGED <<rows, owned, durable, txn, req>> /\ pc' = [pc EXCEPT ![r] = l]
        /\ fetched' = new /\ todo' = names
    BY <1>4 DEF Enter
  <2>2. Promised(r)'
    <3>1. pc'[r] = l
      BY <2>1 DEF TypeInv, TypeOK
    <3>2. CASE l \in {"fetch", "files"}
      BY <1>4, <2>1, <3>1, <3>2 DEF Promised, Deploying
    <3>3. CASE l = "copy"
      <4>1. PICK b \in Builds : new = <<b>> /\ PkgOf[b] = req[r].pkg
        BY <1>4, <3>3
      <4>2. Len(fetched') = 1 /\ fetched'[1] = b
        BY <2>1, <4>1
      <4>3. Has(r)'
        BY <2>1, <4>1, <4>2 DEF Has
      <4> QED BY <3>1, <3>3, <4>3 DEF Promised
    <3> QED BY <3>2, <3>3
  <2>3. ASSUME NEW t \in Requests, t # r PROVE Promised(t)'
    <3>1. pc'[t] = pc[t] /\ Promised(t)
      BY <2>1, <2>3 DEF Promising, TypeInv, TypeOK
    <3> QED BY <1>2, <2>1, <3>1 DEF Promised
  <2> QED BY <2>1, <2>2, <2>3 DEF Promising
<1>5. CASE LockInstall(r)
  BY <1>3, <1>4, <1>5 DEF LockInstall
<1>6. CASE LockLocal(r)
  <2>1. req[r].build \in Builds /\ PkgOf[req[r].build] = req[r].pkg
    BY <1>1, <1>6 DEF LockLocal, Promised, TypeInv, Owner
  <2> QED BY <1>3, <1>4, <1>6, <2>1 DEF LockLocal
<1>7. CASE LockUpgrade(r)
  BY <1>3, <1>4, <1>7 DEF LockUpgrade, BuildsOf
<1>8. CASE LockRemove(r)
  BY <1>4, <1>8 DEF LockRemove
<1> QED BY <1>5, <1>6, <1>7, <1>8

\* The package asked for is never skipped.
LEMMA PromisingFetch ==
  ASSUME TypeInv, Promising, NEW r \in Requests, Fetch(r) PROVE Promising'
<1> USE DEF disk, database, locals, bounds
<1>1. /\ pc[r] = "fetch" /\ writer = r /\ UNCHANGED <<rows, owned, durable, txn, req>>
      /\ fetched \in Seq(Builds) /\ Len(fetched) \in Nat
      /\ \A t \in Requests : t # r => pc'[t] = pc[t]
  BY DEF Fetch, Goto, TypeInv, TypeOK
<1>2. PICK p \in todo :
        /\ todo' = todo \ {p} /\ pc'[r] = IF todo = {p} THEN "copy" ELSE "fetch"
        /\ \/ UNCHANGED fetched /\ p # req[r].pkg
           \/ \E b \in BuildsOf(p) : fetched' = Append(fetched, b)
  BY DEF Fetch, Goto, TypeInv, TypeOK
<1>3. req[r].pkg \in todo \/ Has(r)
  BY <1>1 DEF Promising, Promised
<1>4. req[r].pkg \in todo' \/ Has(r)'
  <2>1. CASE UNCHANGED fetched /\ p # req[r].pkg
    BY <1>1, <1>2, <1>3, <2>1 DEF Has
  <2>2. ASSUME NEW b \in BuildsOf(p), fetched' = Append(fetched, b) PROVE <1>4!:
    <3>1. b \in Builds /\ PkgOf[b] = p
      BY DEF BuildsOf
    <3>2. /\ Len(fetched') = Len(fetched) + 1 /\ fetched'[Len(fetched) + 1] = b
          /\ \A i \in 1 .. Len(fetched) : fetched'[i] = fetched[i]
      BY <1>1, <2>2, <3>1
    <3>3. CASE req[r].pkg = p
      BY <1>1, <3>1, <3>2, <3>3 DEF Has
    <3>4. CASE Has(r)
      BY <1>1, <3>2, <3>4 DEF Has
    <3> QED BY <1>2, <1>3, <3>3, <3>4
  <2> QED BY <1>2, <2>1, <2>2
<1>5. Promised(r)'
  <2>1. CASE todo = {p}
    <3>1. Has(r)' /\ pc'[r] = "copy"
      BY <1>2, <1>4, <2>1
    <3> QED BY <3>1 DEF Promised
  <2>2. CASE todo # {p}
    <3>1. pc'[r] = "fetch" /\ req' = req
      BY <1>1, <1>2, <2>2
    <3> QED BY <1>4, <3>1 DEF Promised, Deploying
  <2> QED BY <2>1, <2>2
<1>6. ASSUME NEW t \in Requests, t # r PROVE Promised(t)'
  <2>1. pc[t] \notin {"fetch", "cleanup"} \cup Deploying /\ Promised(t)
    BY <1>1, <1>6 DEF TypeInv, Owner, Deploying, Promising
  <2> QED BY <1>1, <1>6, <2>1 DEF Promised
<1> QED BY <1>1, <1>5, <1>6 DEF Promising

\* The commit records what was fetched, in a transaction of its own.
LEMMA PromisingCommit ==
  ASSUME TypeInv, Promising, NEW r \in Requests, Commit(r) \/ UpgradeCommitFails(r) PROVE Promising'
<1> USE DEF Goto, disk, database, locals, bounds
<1>1. /\ pc[r] = "commit" /\ writer = r /\ UNCHANGED req /\ req[r] \in ReqType
      /\ \A t \in Requests : t # r => pc'[t] = pc[t]
      /\ pc'[r] = (IF Commit(r) THEN "cleanup" ELSE "rollback")
  <2>1. /\ req[r] \in ReqType \cup {None} /\ pc \in [Requests -> Locations]
        /\ pc[r] # "idle" => req[r] \in ReqType
    BY DEF TypeInv, TypeOK, Owner
  <2>2. CASE Commit(r)
    BY <2>1, <2>2 DEF Commit
  <2>3. CASE UpgradeCommitFails(r) /\ ~Commit(r)
    BY <2>1, <2>3 DEF UpgradeCommitFails
  <2> QED BY <2>2, <2>3
<1>2. Commit(r) => ~txn' /\ durable' = [rows |-> rows', owned |-> owned']
  BY DEF Commit
<1>3. ~Commit(r) => txn'
  BY DEF UpgradeCommitFails
<1>4. Commit(r) => rows'[req[r].pkg] # None
  <2> SUFFICES ASSUME Commit(r) PROVE rows'[req[r].pkg] # None
    OBVIOUS
  <2>1. req[r].pkg \in Pkgs /\ NewBuilds \subseteq Builds
    BY <1>1 DEF ReqType, NewBuilds, TypeInv, TypeOK
  <2>2. PICK i \in 1 .. Len(fetched) : PkgOf[fetched[i]] = req[r].pkg
    BY <1>1 DEF Promising, Promised, Has, Deploying
  <2>3. fetched[i] \in NewOf(req[r].pkg)
    BY <2>2 DEF NewOf, NewBuilds
  <2>4. rows'[req[r].pkg] = CHOOSE b \in NewOf(req[r].pkg) : TRUE
    BY <2>1, <2>3 DEF Commit
  <2>5. rows'[req[r].pkg] \in NewOf(req[r].pkg)
    BY <2>3, <2>4
  <2> QED BY <2>1, <2>5 DEF NewOf
<1>5. Promised(r)'
  BY <1>1, <1>2, <1>4 DEF Promised, Deploying
<1>6. ASSUME NEW t \in Requests, t # r PROVE Promised(t)'
  <2>1. pc[t] \notin {"fetch", "cleanup"} \cup Deploying /\ Promised(t)
    BY <1>1, <1>6 DEF TypeInv, Owner, Deploying, Promising
  <2> QED BY <1>1, <1>6, <2>1 DEF Promised
<1> QED BY <1>2, <1>3, <1>5, <1>6 DEF Promising

\* The statements of a removal are durable at once, or in the open transaction.
LEMMA PromisingStatement ==
  ASSUME TypeInv, Promising, NEW r \in Requests, DeleteFileRows(r) \/ DeleteRow(r) PROVE Promising'
<1> USE DEF Goto, disk, database, locals, bounds
<1>1. /\ writer = r /\ UNCHANGED <<req, txn>> /\ pc'[r] \in {"row", "gc"}
      /\ \A t \in Requests : t # r => pc'[t] = pc[t]
      /\ ~txn => durable' = [rows |-> rows', owned |-> owned']
  BY DEF DeleteFileRows, DeleteRow, Statement, TypeInv, TypeOK
<1>2. Promised(r)'
  BY <1>1 DEF Promised, Deploying
<1>3. ASSUME NEW t \in Requests, t # r PROVE Promised(t)'
  <2>1. pc[t] \notin {"fetch", "cleanup"} \cup Deploying /\ Promised(t)
    BY <1>1, <1>3 DEF TypeInv, Owner, Deploying, Promising
  <2> QED BY <1>1, <1>3, <2>1 DEF Promised
<1> QED BY <1>1, <1>2, <1>3 DEF Promising

\* Whatever fails, what was promised is kept.
LEMMA PromisingNext == TypeInv /\ Promising /\ [Next]_vars => Promising'
<1> SUFFICES ASSUME TypeInv, Promising, [Next]_vars PROVE Promising'
  OBVIOUS
<1> USE DEF Goto, disk, database, locals, bounds, Unlock
<1>1. ASSUME NEW r \in Requests, Arrive(r) PROVE Promising'
  <2>1. ASSUME NEW q, NEW l \in {"planned", "deleting", "failed"}, Receive(r, q, l),
               l = "planned" /\ q.kind = "local" => PkgOf[q.build] = q.pkg
        PROVE  Promising'
    <3>1. /\ UNCHANGED <<rows, owned, durable, txn, fetched, todo>> /\ pc'[r] = l /\ req'[r] = q
          /\ \A t \in Requests : t # r => pc'[t] = pc[t] /\ req'[t] = req[t]
      BY <2>1 DEF Receive, TypeInv, TypeOK
    <3> QED BY <2>1, <3>1, PromisingKept DEF Deploying
  <2>2. CASE \E p \in Pkgs, rep \in Replaces, sm \in Smarts : PlanInstall(r, p, rep, sm)
    BY <2>1, <2>2 DEF PlanInstall, Request
  <2>3. CASE \E b \in Builds, rep \in Replaces : PlanLocal(r, b, rep)
    BY <2>1, <2>3 DEF PlanLocal, Request
  <2>4. CASE \E p \in Pkgs : PlanUpgrade(r, p)
    BY <2>1, <2>4 DEF PlanUpgrade, Request
  <2>5. CASE \E p \in Pkgs, k \in {"remove", "purge"} : ReadRemove(r, p, k)
    BY <2>1, <2>5 DEF ReadRemove, Request
  <2> QED BY <1>1, <2>2, <2>3, <2>4, <2>5 DEF Arrive
<1>2. ASSUME NEW r \in Requests,
             \/ FetchFails(r) \/ RolledBack(r) \/ Finish(r) \/ GcRemoved(r) \/ CleanupRemoved(r)
             \/ DropGuard(r) \/ StatementFails(r)
      PROVE  Promising'
  <2>1. /\ UNCHANGED <<rows, owned, durable, txn, req>> /\ writer = r
        /\ \A t \in Requests : t # r => pc'[t] = pc[t]
        /\ pc'[r] \in {"failed", "done"} \/ UNCHANGED <<pc, fetched, todo>>
    BY <1>2 DEF FetchFails, RolledBack, Finish, GcRemoved, CleanupRemoved, DropGuard, StatementFails,
                TypeInv, TypeOK
  <2>2. \A t \in Requests : t # r => pc[t] \notin {"fetch", "cleanup"} \cup Deploying
    BY <2>1 DEF TypeInv, Owner, Deploying
  <2>3. ASSUME NEW t \in Requests PROVE Promised(t)'
    <3>1. Promised(t)
      BY DEF Promising
    <3> QED BY <2>1, <2>2, <3>1 DEF Promised, Has, Deploying
  <2> QED BY <2>1, <2>3 DEF Promising
<1>3. ASSUME NEW r \in Requests,
             \/ ReuseStore(r) \/ CopyBegin(r) \/ CopyEnd(r) \/ LinkOne(r) \/ SaveScripts(r)
             \/ CommitFails(r) \/ CopyFails(r) \/ LinkFails(r) \/ SaveFails(r)
      PROVE  Promising'
  <2>1. /\ UNCHANGED <<rows, owned, durable, txn, req, fetched, todo>> /\ pc[r] \in Deploying
        /\ pc'[r] \in Deploying \cup {"rollback"}
        /\ \A t \in Requests : t # r => pc'[t] = pc[t]
    BY <1>3 DEF ReuseStore, CopyBegin, CopyEnd, LinkOne, SaveScripts, CommitFails,
                CopyFails, LinkFails, SaveFails, Deploying, TypeInv, TypeOK
  <2> QED BY <2>1, PromisingKept DEF Deploying
<1>4. ASSUME NEW r \in Requests, DeleteFile(r) \/ DeleteHome(r) \/ DeleteFails(r) \/ Deleted(r)
      PROVE  Promising'
  <2>1. /\ UNCHANGED <<rows, owned, durable, txn, fetched, todo>>
        /\ pc'[r] \in {"deleting", "deleted", "failed"}
        /\ \A t \in Requests : t # r => pc'[t] = pc[t] /\ req'[t] = req[t]
    <3>1. CASE Deleted(r)
      BY <3>1 DEF Deleted, TypeInv, TypeOK
    <3>2. CASE ~Deleted(r)
      BY <1>4, <3>2, Deleting
    <3> QED BY <3>1, <3>2
  <2> QED BY <2>1, PromisingKept DEF Deploying
<1>5. CASE Crash
  <2>1. durable' = [rows |-> rows', owned |-> owned']
    BY <1>5 DEF Crash, TypeInv, TypeOK, Database
  <2>2. \A t \in Requests : pc'[t] \in Ended
    BY <1>5 DEF Crash
  <2> QED BY <2>1, <2>2 DEF Promising, Promised, Deploying
<1>6. CASE UNCHANGED vars
  <2>1. UNCHANGED <<rows, owned, durable, txn, req, fetched, todo, pc>>
    BY <1>6 DEF vars
  <2> QED BY <2>1, PromisingKept
<1> QED BY <1>1, <1>2, <1>3, <1>4, <1>5, <1>6, PromisingLock, PromisingFetch, PromisingCommit,
          PromisingStatement DEF Next, Step, Fail, Deploy

\* An install or upgrade that is answered as done has its package on record, and everything
\* the process then has on record is what a restarted daemon reads, whatever else is under
\* way, whatever has failed, and although a failed upgrade leaves a transaction open.
THEOREM DoneIsDurable == Spec => SuccessDurable
<1>1. Init => Promising
  BY DEF Init, Promising, Promised, Deploying
<1>2. TypeInv /\ Promising /\ [Next]_vars =>
        [\A r \in Requests : (pc[r] = "cleanup" /\ pc'[r] = "done") =>
           /\ rows'[req[r].pkg] # None
           /\ durable' = [rows |-> rows', owned |-> owned']]_vars
  <2> SUFFICES ASSUME TypeInv, Promising, Next, NEW r \in Requests, pc[r] = "cleanup", pc'[r] = "done"
               PROVE  rows'[req[r].pkg] # None /\ durable' = [rows |-> rows', owned |-> owned']
    OBVIOUS
  <2>1. Arrive(r) \/ Step(r) \/ Fail(r)
    BY OwnStep DEF Next, Crash
  <2>2. Finish(r)
    <3> USE DEF Goto, Unlock
    <3>1. ~Arrive(r)
      BY DEF Arrive, PlanInstall, PlanLocal, PlanUpgrade, ReadRemove, Receive
    <3>2. ~LockInstall(r) /\ ~LockLocal(r) /\ ~LockUpgrade(r) /\ ~LockRemove(r) /\ ~Fetch(r) /\ ~FetchFails(r)
      BY DEF LockInstall, LockLocal, LockUpgrade, LockRemove, Fetch, FetchFails
    <3>3. Deploy(r) => Finish(r)
      BY DEF Deploy, ReuseStore, CopyBegin, CopyEnd, LinkOne, SaveScripts, Commit, CommitFails,
             CleanupRemoved
    <3>4. /\ ~DropGuard(r) /\ ~RolledBack(r) /\ ~DeleteFile(r) /\ ~DeleteHome(r) /\ ~Deleted(r)
          /\ ~DeleteFileRows(r) /\ ~DeleteRow(r) /\ ~GcRemoved(r)
      BY DEF DropGuard, RolledBack, DeleteFile, DeleteHome, Deleted, DeleteFileRows, DeleteRow, GcRemoved
    <3>5. ~Fail(r)
      BY DEF Fail, CopyFails, LinkFails, SaveFails, UpgradeCommitFails, DeleteFails, StatementFails
    <3> QED BY <2>1, <3>1, <3>2, <3>3, <3>4, <3>5 DEF Step
  <2>3. UNCHANGED <<rows, owned, durable>>
    BY <2>2 DEF Finish, database
  <2> QED BY <2>3 DEF Promising, Promised
<1>3. TypeInv /\ Promising /\ [Next]_vars => Promising'
  BY PromisingNext
<1> QED BY <1>1, <1>2, <1>3, TypeInvariant, PTL DEF Spec, SuccessDurable
=============================================================================
