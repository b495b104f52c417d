------------------------- MODULE SpmUserCacheProofs -------------------------
(***************************************************************************)
(* Theorems about SpmUserCache.  OneInstall holds whatever runs at the     *)
(* same time.  What is said of the shared directories holds while requests *)
(* run one after another (OneAtATime), whatever fails; with two at a time  *)
(* it does not.                                                            *)
(***************************************************************************)
EXTENDS SpmUserCache, FiniteSetTheorems, TLAPS

USE OffersAssumption, LimitsAssumption, NoneAssumption DEF Ended, Held, Locations

\* A request that is under way has its parameters.
Asked == \A r \in Requests : pc[r] \notin Ended => req[r] \in ReqType

TypeInv == TypeOK /\ Asked

Removing == {"unlinking", "collecting", "emptying", "collected"}

-----------------------------------------------------------------------------
\* Leaving the write section.
LEMMA TypeUnlock ==
  ASSUME TypeInv, NEW r \in Requests, pc[r] \in Held, NEW l \in {"done", "failed"}, Unlock(r, l)
  PROVE  /\ pc' \in [Requests -> Locations] /\ req' \in [Requests -> ReqType \cup {None}]
         /\ writer' \in Requests \cup {None} /\ \A s \in Requests : pc'[s] \in Held <=> writer' = s
         /\ new' \in BOOLEAN /\ made' \subseteq Names /\ damaged' \subseteq Hashes
         /\ Asked'
  BY DEF TypeInv, TypeOK, Asked, Unlock, Goto

\* Requests that arrive.
LEMMA TypeArrive == ASSUME TypeInv, NEW r \in Requests, Arrive(r) PROVE TypeInv'
<1>1. ASSUME NEW q \in ReqType \cup {None}, NEW l \in {"fetched", "unlinking", "failed"},
             q \in ReqType \/ l = "failed", Receive(r, q, l)
      PROVE  TypeInv'
  <2>1. pc[r] \notin Held /\ l \notin Held
    BY <1>1 DEF Receive
  <2>2. /\ pc' = [pc EXCEPT ![r] = l] /\ req' = [req EXCEPT ![r] = q]
        /\ started' = started + 1 /\ started < MaxStarts
        /\ UNCHANGED <<dirs, content, link, rows, writer, new, made, damaged, faults>>
    BY <1>1 DEF Receive, Goto, disk, locals
  <2>3. TypeOK'
    BY <2>1, <2>2 DEF TypeInv, TypeOK
  <2>4. Asked'
    BY <1>1, <2>2, NoneAssumption DEF TypeInv, TypeOK, Asked
  <2> QED BY <2>3, <2>4 DEF TypeInv
<1>2. ASSUME NEW u \in Users, NEW b \in Builds, Fetch(r, u, b) PROVE TypeInv'
  <2>1. [user |-> u, build |-> b, targets |-> {}, error |-> FALSE] \in ReqType
    BY DEF ReqType
  <2> QED BY <1>1, <1>2, <2>1 DEF Fetch
<1>3. ASSUME NEW u \in Users, NEW p \in Pkgs, ReadInstall(r, u, p) PROVE TypeInv'
  <2>1. CASE \E x \in RowsOf(u, p) :
               Receive(r, [user |-> u, build |-> x[2], targets |-> content[HashOf[x[2]]], error |-> FALSE],
                       "unlinking")
    <3>1. PICK x \in RowsOf(u, p) :
               Receive(r, [user |-> u, build |-> x[2], targets |-> content[HashOf[x[2]]], error |-> FALSE],
                       "unlinking")
      BY <2>1
    <3>2. x[2] \in Builds /\ content[HashOf[x[2]]] \in SUBSET Names
      BY <3>1 DEF RowsOf, TypeInv, TypeOK
    <3>3. [user |-> u, build |-> x[2], targets |-> content[HashOf[x[2]]], error |-> FALSE] \in ReqType
      BY <3>2 DEF ReqType
    <3> QED BY <1>1, <3>1, <3>3
  <2>2. CASE Receive(r, None, "failed")
    BY <1>1, <2>2
  <2> QED BY <1>3, <2>1, <2>2 DEF ReadInstall
<1> QED BY <1>2, <1>3 DEF Arrive

\* The steps of an install.
LEMMA TypeInstall == ASSUME TypeInv, NEW r \in Requests, Install(r) PROVE TypeInv'
<1>0. ASSUME pc[r] \notin Ended
      PROVE  User(r) \in Users /\ req[r].build \in Builds /\ Hash(r) \in Hashes
             /\ <<User(r), req[r].build>> \in Users \X Builds
  BY <1>0 DEF TypeInv, TypeOK, Asked, ReqType, User, Hash
<1>1. CASE LockInstall(r)
  <2>1. /\ pc[r] = "fetched" /\ writer = None
        /\ UNCHANGED <<dirs, content, link, rows, req, new, made, damaged, started, faults>>
        /\ \/ pc' = [pc EXCEPT ![r] = "failed"] /\ UNCHANGED writer
           \/ pc' = [pc EXCEPT ![r] = "copy"] /\ writer' = r
    BY <1>1 DEF LockInstall, Lock, Goto, At, disk, locals, bounds
  <2>2. CASE pc' = [pc EXCEPT ![r] = "failed"] /\ UNCHANGED writer
    BY <2>1, <2>2 DEF TypeInv, TypeOK, Asked
  <2>3. CASE pc' = [pc EXCEPT ![r] = "copy"] /\ writer' = r
    BY <2>1, <2>3 DEF TypeInv, TypeOK, Asked
  <2> QED BY <2>1, <2>2, <2>3
<1>2. CASE Copy(r)
  BY <1>0, <1>2 DEF Copy, Goto, At, TypeInv, TypeOK, Asked, bounds
<1>3. CASE CopyFails(r)
  BY <1>3, TypeUnlock DEF CopyFails, Fault, At, TypeInv, TypeOK, disk
<1>4. CASE LinkOne(r)
  <2>1. PICK n \in content[Hash(r)] \ made :
               link' = [link EXCEPT ![User(r)][n] = Hash(r)] /\ made' = made \cup {n}
    BY <1>4 DEF LinkOne
  <2>2. n \in Names
    BY <1>0, <1>4, <2>1 DEF LinkOne, At, TypeInv, TypeOK
  <2>3. link' \in [Users -> [Names -> Hashes \cup {None}]] /\ made' \subseteq Names
    BY <1>0, <1>4, <2>1, <2>2 DEF LinkOne, At, TypeInv, TypeOK
  <2> QED BY <1>4, <2>3 DEF LinkOne, TypeInv, TypeOK, Asked, bounds
<1>5. CASE LinkFails(r)
  <2>1. PICK n \in content[Hash(r)] \ made : link' = [link EXCEPT ![User(r)][n] = None]
    BY <1>5 DEF LinkFails
  <2>2. n \in Names
    BY <1>0, <1>5, <2>1 DEF LinkFails, At, TypeInv, TypeOK
  <2>3. link' \in [Users -> [Names -> Hashes \cup {None}]]
    BY <1>0, <1>5, <2>1, <2>2 DEF LinkFails, At, TypeInv, TypeOK
  <2>4. faults' \in 0 .. MaxFaults /\ UNCHANGED started
    BY <1>5 DEF LinkFails, Fault, TypeInv, TypeOK
  <2>5. pc[r] \in Held /\ Unlock(r, "failed")
    BY <1>5 DEF LinkFails, At
  <2> QED BY <1>5, <2>3, <2>4, <2>5, TypeUnlock DEF LinkFails, TypeInv, TypeOK
<1>6. CASE Record(r)
  <2>1. pc[r] \in Held /\ UNCHANGED <<link, started, faults>>
    BY <1>6 DEF Record, At, bounds
  <2>2. CASE /\ rows' = Without(User(r), req[r].build) \cup {<<User(r), req[r].build>>}
             /\ Unlock(r, "done") /\ UNCHANGED <<dirs, content>>
    <3>1. rows' \subseteq Users \X Builds
      BY <1>0, <2>1, <2>2 DEF Without, TypeInv, TypeOK
    <3> QED BY <2>1, <2>2, <3>1, TypeUnlock DEF TypeInv, TypeOK
  <2>3. CASE /\ dirs' = IF new THEN dirs \ {Hash(r)} ELSE dirs
             /\ content' = IF new THEN [content EXCEPT ![Hash(r)] = {}] ELSE content
             /\ Unlock(r, "failed") /\ UNCHANGED rows
    <3>1. dirs' \subseteq Hashes /\ content' \in [Hashes -> SUBSET Names]
      BY <1>0, <2>1, <2>3 DEF TypeInv, TypeOK
    <3> QED BY <2>1, <2>3, <3>1, TypeUnlock DEF TypeInv, TypeOK
  <2> QED BY <1>6, <2>2, <2>3 DEF Record
<1>7. CASE RecordFails(r)
  BY <1>7, TypeUnlock DEF RecordFails, Fault, At, TypeInv, TypeOK, disk
<1> QED
  BY <1>1, <1>2, <1>3, <1>4, <1>5, <1>6, <1>7 DEF Install

\* The steps of a removal.
LEMMA TypeRemove == ASSUME TypeInv, NEW r \in Requests, Remove(r) PROVE TypeInv'
<1>0. ASSUME pc[r] \notin Ended
      PROVE  User(r) \in Users /\ Hash(r) \in Hashes /\ req[r] \in ReqType
  BY <1>0 DEF TypeInv, TypeOK, Asked, ReqType, User, Hash
<1>1. CASE Unlink(r)
  <2>1. PICK n \in req[r].targets : /\ link' = [link EXCEPT ![User(r)][n] = None]
                                   /\ req' = [req EXCEPT ![r].targets = @ \ {n}]
    BY <1>1 DEF Unlink
  <2>2. req[r] \in ReqType /\ User(r) \in Users
    BY <1>0, <1>1 DEF Unlink, At
  <2>3. n \in Names
    BY <2>1, <2>2 DEF ReqType
  <2>4. link' \in [Users -> [Names -> Hashes \cup {None}]]
    BY <2>1, <2>2, <2>3 DEF TypeInv, TypeOK
  <2>5. [req[r] EXCEPT !.targets = @ \ {n}] \in ReqType
    BY <2>2 DEF ReqType
  <2>6. req' = [req EXCEPT ![r] = [req[r] EXCEPT !.targets = @ \ {n}]]
    BY <2>1
  <2>7. req' \in [Requests -> ReqType \cup {None}] /\ req'[r] \in ReqType
        /\ \A s \in Requests : s # r => req'[s] = req[s]
    BY <2>5, <2>6 DEF TypeInv, TypeOK
  <2> QED BY <1>1, <2>4, <2>7 DEF Unlink, TypeInv, TypeOK, Asked, locals, bounds
<1>2. CASE UnlinkFails(r)
  <2>1. PICK n \in req[r].targets : req' = [req EXCEPT ![r].targets = @ \ {n}, ![r].error = TRUE]
    BY <1>2 DEF UnlinkFails
  <2>2. req[r] \in ReqType
    BY <1>0, <1>2 DEF UnlinkFails, At
  <2>3. [req[r] EXCEPT !.targets = @ \ {n}, !.error = TRUE] \in ReqType
    BY <2>2 DEF ReqType
  <2>4. req' = [req EXCEPT ![r] = [req[r] EXCEPT !.targets = @ \ {n}, !.error = TRUE]]
    BY <2>1
  <2>5. req' \in [Requests -> ReqType \cup {None}] /\ req'[r] \in ReqType
        /\ \A s \in Requests : s # r => req'[s] = req[s]
    BY <2>3, <2>4 DEF TypeInv, TypeOK
  <2> QED BY <1>2, <2>5 DEF UnlinkFails, Fault, TypeInv, TypeOK, Asked, disk, locals
<1>3. CASE Count(r)
  BY <1>3 DEF Count, Goto, At, TypeInv, TypeOK, Asked, disk, locals, bounds
<1>4. CASE CollectBegin(r)
  BY <1>0, <1>4 DEF CollectBegin, Goto, At, TypeInv, TypeOK, Asked, locals, bounds
<1>5. CASE CollectEnd(r)
  BY <1>0, <1>5 DEF CollectEnd, Goto, At, TypeInv, TypeOK, Asked, locals, bounds
<1>6. CASE CollectFails(r)
  <2>1. req[r] \in ReqType
    BY <1>0, <1>6 DEF CollectFails, At
  <2>2. [req[r] EXCEPT !.error = TRUE] \in ReqType
    BY <2>1 DEF ReqType
  <2>3. req' = [req EXCEPT ![r] = [req[r] EXCEPT !.error = TRUE]]
    BY <1>6 DEF CollectFails
  <2>4. req' \in [Requests -> ReqType \cup {None}] /\ req'[r] \in ReqType
        /\ \A s \in Requests : s # r => req'[s] = req[s]
    BY <2>2, <2>3 DEF TypeInv, TypeOK
  <2>5. /\ pc[r] = "emptying" /\ pc' = [pc EXCEPT ![r] = "collected"]
        /\ faults' \in 0 .. MaxFaults /\ UNCHANGED started
        /\ UNCHANGED <<dirs, content, link, rows, writer, new, made, damaged>>
    BY <1>6 DEF CollectFails, Fault, Goto, At, TypeInv, TypeOK, disk, locals
  <2> QED BY <2>4, <2>5 DEF TypeInv, TypeOK, Asked
<1>7. CASE RemoveRow(r)
  BY <1>7 DEF RemoveRow, Without, Goto, At, TypeInv, TypeOK, Asked, disk, locals, bounds
<1>8. CASE RemoveRowFails(r)
  BY <1>8 DEF RemoveRowFails, Fault, Goto, At, TypeInv, TypeOK, Asked, disk, locals
<1> QED
  BY <1>1, <1>2, <1>3, <1>4, <1>5, <1>6, <1>7, <1>8 DEF Remove

LEMMA TypeNext == ASSUME TypeInv, [Next]_vars PROVE TypeInv'
<1>1. CASE Crash
  <2>1. /\ pc' = [r \in Requests |-> IF pc[r] \in Ended THEN pc[r] ELSE "idle"]
        /\ writer' = None /\ new' = FALSE /\ made' = {}
        /\ faults' \in 0 .. MaxFaults /\ UNCHANGED started
        /\ UNCHANGED <<dirs, content, link, rows, req, damaged>>
    BY <1>1 DEF Crash, Fault, TypeInv, TypeOK, disk
  <2>2. pc' \in [Requests -> Locations] /\ \A r \in Requests : pc'[r] \in Ended
    BY <2>1 DEF TypeInv, TypeOK
  <2>3. TypeOK'
    BY <2>1, <2>2 DEF TypeInv, TypeOK
  <2>4. Asked'
    BY <2>2 DEF Asked
  <2> QED BY <2>3, <2>4 DEF TypeInv
<1>2. CASE UNCHANGED vars
  BY <1>2 DEF vars, disk, locals, bounds, TypeInv, TypeOK, Asked
<1> QED
  BY <1>1, <1>2, TypeArrive, TypeInstall, TypeRemove DEF Next

LEMMA TypeInvariant == Spec => []TypeInv
<1>1. Init => TypeInv
  <2> SUFFICES ASSUME Init PROVE TypeInv
    OBVIOUS
  <2>1. Asked
    BY DEF Init, Asked
  <2>2. /\ pc \in [Requests -> Locations] /\ req \in [Requests -> ReqType \cup {None}]
        /\ writer \in Requests \cup {None} /\ \A r \in Requests : pc[r] \in Held <=> writer = r
    BY DEF Init
  <2>3. /\ dirs \subseteq Hashes /\ content \in [Hashes -> SUBSET Names]
        /\ link \in [Users -> [Names -> Hashes \cup {None}]] /\ rows \subseteq Users \X Builds
    BY DEF Init
  <2>4. new \in BOOLEAN /\ made \subseteq Names /\ damaged \subseteq Hashes
    BY DEF Init
  <2>5. started \in 0 .. MaxStarts /\ faults \in 0 .. MaxFaults
    BY DEF Init
  <2> QED BY <2>1, <2>2, <2>3, <2>4, <2>5 DEF TypeInv, TypeOK
<1> QED BY <1>1, TypeNext, PTL DEF Spec

\* The state of the user cache is well formed, and the write section has one owner.
THEOREM Typing == Spec => []TypeOK
<1>1. TypeInv => TypeOK
  BY DEF TypeInv
<1> QED BY <1>1, TypeInvariant, PTL

-----------------------------------------------------------------------------
(* A user has a package once. *)

\* What the check has found under the write lock is so until the row is written.
StillAbsent ==
  \A r \in Requests : pc[r] \in Held => RowsOf(User(r), PkgOf[req[r].build]) = {}

\* Rows only go, and nobody enters the write section with the package recorded.
LEMMA AbsentKept ==
  ASSUME OneInstall, StillAbsent, rows' \subseteq rows,
         \A r \in Requests : pc'[r] \in Held => pc[r] \in Held /\ req'[r] = req[r]
  PROVE  (OneInstall /\ StillAbsent)'
  BY DEF OneInstall, StillAbsent, RowsOf, User

LEMMA OneNext ==
  ASSUME TypeInv, OneInstall, StillAbsent, [Next]_vars
  PROVE  (OneInstall /\ StillAbsent)'
<1>1. ASSUME NEW r \in Requests, Arrive(r) PROVE (OneInstall /\ StillAbsent)'
  <2>1. \E q, l : l \notin Held /\ Receive(r, q, l)
    BY <1>1 DEF Arrive, Fetch, ReadInstall
  <2>2. PICK q, l : l \notin Held /\ Receive(r, q, l)
    BY <2>1
  <2>3. UNCHANGED rows /\ \A s \in Requests : pc'[s] \in Held => pc[s] \in Held /\ req'[s] = req[s]
    BY <2>2 DEF Receive, Goto, TypeInv, TypeOK
  <2> QED BY <2>3, AbsentKept
<1>2. ASSUME NEW r \in Requests, LockInstall(r) PROVE (OneInstall /\ StillAbsent)'
  <2>1. UNCHANGED <<rows, req>>
    BY <1>2 DEF LockInstall, Lock
  <2>2. CASE RowsOf(User(r), PkgOf[req[r].build]) # {}
    <3>1. \A s \in Requests : pc'[s] \in Held => pc[s] \in Held
      BY <1>2, <2>2 DEF LockInstall, Goto, TypeInv, TypeOK
    <3> QED BY <2>1, <3>1, AbsentKept
  <2>3. CASE RowsOf(User(r), PkgOf[req[r].build]) = {}
    <3>1. \A s \in Requests : s # r => pc'[s] = pc[s]
      BY <1>2, <2>3 DEF LockInstall, Lock, Goto, TypeInv, TypeOK
    <3> QED BY <2>1, <2>3, <3>1 DEF OneInstall, StillAbsent, RowsOf, User
  <2> QED BY <2>2, <2>3
<1>3. ASSUME NEW r \in Requests, Record(r) PROVE (OneInstall /\ StillAbsent)'
  <2>1. pc[r] \in Held /\ writer = r /\ UNCHANGED req
    BY <1>3 DEF Record, At, Unlock, TypeInv, TypeOK
  <2>2. \A s \in Requests : pc'[s] \notin Held
    BY <1>3, <2>1 DEF Record, Unlock, Goto, TypeInv, TypeOK
  <2>3. RowsOf(User(r), PkgOf[req[r].build]) = {}
    BY <2>1 DEF StillAbsent
  <2>4. rows' \subseteq rows \cup {<<User(r), req[r].build>>}
    BY <1>3 DEF Record, Without
  <2> QED BY <2>2, <2>3, <2>4 DEF OneInstall, StillAbsent, RowsOf
<1>4. ASSUME NEW r \in Requests, Copy(r) \/ CopyFails(r) \/ LinkOne(r) \/ LinkFails(r) \/ RecordFails(r)
      PROVE  (OneInstall /\ StillAbsent)'
  <2>1. UNCHANGED <<rows, req>>
    BY <1>4 DEF Copy, CopyFails, LinkOne, LinkFails, RecordFails, Unlock
  <2>2. pc[r] \in Held /\ \A s \in Requests : s # r => pc'[s] = pc[s]
    BY <1>4 DEF Copy, CopyFails, LinkOne, LinkFails, RecordFails, Unlock, Goto, At, TypeInv, TypeOK
  <2> QED BY <2>1, <2>2, AbsentKept
<1>5. ASSUME NEW r \in Requests, Remove(r) PROVE (OneInstall /\ StillAbsent)'
  <2>1. rows' \subseteq rows
    BY <1>5 DEF Remove, Unlink, UnlinkFails, Count, CollectBegin, CollectEnd, CollectFails, RemoveRow,
                RemoveRowFails, Without
  <2>2. pc[r] \notin Held /\ pc'[r] \notin Held /\ \A s \in Requests : s # r => pc'[s] = pc[s] /\ req'[s] = req[s]
    BY <1>5 DEF Remove, Unlink, UnlinkFails, Count, CollectBegin, CollectEnd, CollectFails, RemoveRow,
                RemoveRowFails, Goto, At, TypeInv, TypeOK
  <2> QED BY <2>1, <2>2, AbsentKept
<1>6. CASE Crash
  <2>1. UNCHANGED <<rows, req>> /\ \A s \in Requests : pc'[s] \notin Held
    BY <1>6 DEF Crash, disk, TypeInv, TypeOK
  <2> QED BY <2>1, AbsentKept
<1>7. CASE UNCHANGED vars
  BY <1>7, AbsentKept DEF vars, disk
<1> QED
  BY <1>1, <1>2, <1>3, <1>4, <1>5, <1>6, <1>7 DEF Next, Install

\* A user has a package once, in one format, whatever is installed, removed or fails at the same time.
THEOREM InstalledOnce == Spec => []OneInstall
<1>1. Init => OneInstall /\ StillAbsent
  BY DEF Init, OneInstall, StillAbsent
<1>2. TypeInv /\ OneInstall /\ StillAbsent /\ [Next]_vars => (OneInstall /\ StillAbsent)'
  BY OneNext
<1> QED BY <1>1, <1>2, TypeInvariant, PTL DEF Spec

-----------------------------------------------------------------------------
(* Requests one after another. *)

\* One request at a time.  With two, the directory that a removal deletes may have got another user
\* since the users were counted.
OneAtATime == \A r, s \in Requests : r = s

Own(r) == <<User(r), req[r].build>>

\* A directory is complete unless a deletion has begun on it.
Solid ==
  \A h \in Hashes : /\ content[h] \subseteq ExecsOf[h]
                    /\ h \in dirs => Backed(h) \/ h \in damaged

\* What the rows need: a directory, certainly where two installs refer to it.
Referred ==
  /\ \A x \in rows : ExecsOf[HashOf[x[2]]] # {} /\ HashOf[x[2]] \in dirs \cup damaged
  /\ \A x, y \in rows : x # y /\ HashOf[x[2]] = HashOf[y[2]] => HashOf[x[2]] \in dirs

Installing(r) ==
  /\ pc[r] = "link" =>
       Hash(r) \in dirs /\ made \subseteq ExecsOf[Hash(r)] /\ (new => Hash(r) \notin damaged)
  /\ pc[r] # "link" => made = {}

\* A removal keeps its row to the last, and what it has counted stays true.
Leaving(r) ==
  /\ pc[r] \in Removing => Own(r) \in rows
  /\ pc[r] \in {"collecting", "emptying"} => UsersOf(Hash(r)) = {Own(r)}
  /\ pc[r] = "emptying" => Hash(r) \in damaged
  /\ pc[r] = "collected" /\ ~req[r].error => (Hash(r) \in dirs <=> UsersOf(Hash(r)) # {Own(r)})

SeqInv == Solid /\ Referred /\ \A r \in Requests : Installing(r) /\ Leaving(r)

\* The directory is deleted when the count has found the remover's row and no other.
LEMMA CountedAlone ==
  ASSUME TypeInv, NEW r \in Requests, Own(r) \in rows
  PROVE  Cardinality(UsersOf(Hash(r))) <= 1 <=> UsersOf(Hash(r)) = {Own(r)}
<1>1. IsFiniteSet(UsersOf(Hash(r)))
  <2>1. IsFiniteSet(Users \X Builds)
    BY FiniteAssumption, FS_Product
  <2>2. UsersOf(Hash(r)) \in SUBSET (Users \X Builds)
    BY DEF UsersOf, TypeInv, TypeOK
  <2> QED BY <2>1, <2>2, FS_Subset
<1>2. Own(r) \in UsersOf(Hash(r))
  BY DEF Own, UsersOf, Hash
<1>3. Cardinality(UsersOf(Hash(r))) \in Nat /\ Cardinality(UsersOf(Hash(r))) # 0
  BY <1>1, <1>2, FS_CardinalityType, FS_EmptySet
<1>4. Cardinality(UsersOf(Hash(r))) = 1 <=> \E x : UsersOf(Hash(r)) = {x}
  BY <1>1, FS_Singleton
<1>5. Cardinality(UsersOf(Hash(r))) <= 1 <=> Cardinality(UsersOf(Hash(r))) = 1
  BY <1>3, SMT
<1>6. (\E x : UsersOf(Hash(r)) = {x}) <=> UsersOf(Hash(r)) = {Own(r)}
  BY <1>2
<1> QED BY <1>4, <1>5, <1>6

LEMMA SeqArrive ==
  ASSUME OneAtATime, TypeInv, SeqInv, NEW r \in Requests, Arrive(r)
  PROVE  SeqInv'
<1>1. /\ UNCHANGED <<dirs, content, rows, new, made, damaged>>
      /\ pc[r] \in Ended /\ pc'[r] \in {"fetched", "unlinking", "failed"}
  BY DEF Arrive, Fetch, ReadInstall, Receive, Goto, disk, locals, TypeInv, TypeOK
<1>2. pc'[r] = "unlinking" => Own(r)' \in rows
  <2>1. CASE \E u \in Users, b \in Builds : Fetch(r, u, b)
    BY <2>1 DEF Fetch, Receive, Goto, TypeInv, TypeOK
  <2>2. CASE \E u \in Users, p \in Pkgs : ReadInstall(r, u, p)
    <3>1. PICK u \in Users, p \in Pkgs : ReadInstall(r, u, p)
      BY <2>2
    <3>2. CASE Receive(r, None, "failed")
      BY <3>2 DEF Receive, Goto, TypeInv, TypeOK
    <3>3. ASSUME NEW x \in RowsOf(u, p), req'[r].user = u, req'[r].build = x[2]
          PROVE  Own(r)' \in rows
      <4>1. x \in rows /\ x[1] = u /\ x \in Users \X Builds
        BY <3>3 DEF RowsOf, TypeInv, TypeOK
      <4> QED BY <3>3, <4>1 DEF Own, User
    <3>4. CASE \E x \in RowsOf(u, p) :
                 Receive(r, [user |-> u, build |-> x[2], targets |-> content[HashOf[x[2]]], error |-> FALSE],
                         "unlinking")
      <4>1. PICK x \in RowsOf(u, p) :
                 Receive(r, [user |-> u, build |-> x[2], targets |-> content[HashOf[x[2]]], error |-> FALSE],
                         "unlinking")
        BY <3>4
      <4>2. req'[r] = [user |-> u, build |-> x[2], targets |-> content[HashOf[x[2]]], error |-> FALSE]
        BY <4>1 DEF Receive, TypeInv, TypeOK
      <4> QED BY <3>3, <4>2
    <3> QED BY <3>1, <3>2, <3>4 DEF ReadInstall
  <2> QED BY <2>1, <2>2 DEF Arrive
<1>3. Solid' /\ Referred'
  BY <1>1 DEF SeqInv, Solid, Referred, Backed
<1>4. Installing(r)'
  BY <1>1 DEF SeqInv, Installing
<1>5. Leaving(r)'
  BY <1>1, <1>2 DEF Leaving, Removing
<1> QED BY <1>3, <1>4, <1>5 DEF SeqInv, OneAtATime

LEMMA SeqInstall ==
  ASSUME OneAtATime, TypeInv, SeqInv, NEW r \in Requests, Install(r)
  PROVE  SeqInv'
<1>0. UNCHANGED req /\ pc[r] \notin Removing /\ pc'[r] \notin Removing
  BY DEF Install, LockInstall, Lock, Copy, CopyFails, LinkOne, LinkFails, Record, RecordFails, Unlock, Goto,
         At, Removing, TypeInv, TypeOK
<1>1. Leaving(r)'
  BY <1>0 DEF Leaving, Removing
<1>2. Hash(r)' = Hash(r) /\ User(r)' = User(r)
  BY <1>0 DEF Hash, User
<1>3. ASSUME pc[r] \notin Ended PROVE Hash(r) \in Hashes /\ User(r) \in Users /\ req[r].build \in Builds
  BY <1>3 DEF TypeInv, TypeOK, Asked, ReqType, User, Hash
<1>4. CASE LockInstall(r) \/ CopyFails(r) \/ LinkFails(r) \/ RecordFails(r)
  <2>1. UNCHANGED <<dirs, content, rows, damaged>> /\ pc'[r] # "link" /\ made' = {}
    BY <1>4 DEF LockInstall, Lock, CopyFails, LinkFails, RecordFails, Unlock, Goto, At, disk, locals,
                TypeInv, TypeOK, SeqInv, Installing
  <2>2. Solid' /\ Referred' /\ Installing(r)'
    BY <2>1 DEF SeqInv, Solid, Referred, Backed, Installing
  <2> QED BY <1>1, <2>2 DEF SeqInv, OneAtATime
<1>5. CASE Copy(r)
  <2>1. /\ pc[r] = "copy" /\ pc'[r] = "link" /\ UNCHANGED <<rows, made>>
        /\ Hash(r) \in Hashes /\ dirs' = dirs \cup {Hash(r)}
        /\ new' = (Hash(r) \notin dirs)
    BY <1>3, <1>5 DEF Copy, Goto, At, TypeInv, TypeOK
  <2>2. CASE Hash(r) \in dirs
    <3>1. UNCHANGED <<content, damaged, dirs>> /\ ~new'
      BY <1>5, <2>1, <2>2 DEF Copy
    <3>2. Solid' /\ Referred'
      BY <2>1, <3>1 DEF SeqInv, Solid, Referred, Backed
    <3>3. Installing(r)'
      BY <1>2, <2>1, <3>1 DEF SeqInv, Installing
    <3> QED BY <1>1, <3>2, <3>3 DEF SeqInv, OneAtATime
  <2>3. CASE Hash(r) \notin dirs
    <3>1. /\ content' = [content EXCEPT ![Hash(r)] = ExecsOf[Hash(r)]]
          /\ damaged' = damaged \ {Hash(r)}
      BY <1>5, <2>1, <2>3 DEF Copy
    <3>2. Solid'
      BY <2>1, <3>1 DEF SeqInv, Solid, Backed, TypeInv, TypeOK
    <3>3. Referred'
      BY <2>1, <3>1 DEF SeqInv, Referred
    <3>4. Installing(r)'
      BY <1>2, <2>1, <3>1 DEF SeqInv, Installing
    <3> QED BY <1>1, <3>2, <3>3, <3>4 DEF SeqInv, OneAtATime
  <2> QED BY <2>2, <2>3
<1>6. CASE LinkOne(r)
  <2>1. PICK n \in content[Hash(r)] : made' = made \cup {n}
    BY <1>6 DEF LinkOne
  <2>2. pc[r] = "link" /\ UNCHANGED <<pc, dirs, content, rows, new, damaged>> /\ Hash(r) \in Hashes
    BY <1>3, <1>6 DEF LinkOne, At
  <2>3. Solid' /\ Referred'
    BY <2>2 DEF SeqInv, Solid, Referred, Backed
  <2>4. Installing(r)'
    BY <1>2, <2>1, <2>2 DEF SeqInv, Solid, Installing
  <2> QED BY <1>1, <2>3, <2>4 DEF SeqInv, OneAtATime
<1>7. CASE Record(r)
  <2>1. /\ pc[r] = "link" /\ pc'[r] # "link" /\ made' = {} /\ UNCHANGED damaged
        /\ Hash(r) \in Hashes /\ Hash(r) \in dirs /\ content[Hash(r)] \subseteq made
        /\ User(r) \in Users /\ req[r].build \in Builds
    BY <1>3, <1>7 DEF Record, Unlock, Goto, At, TypeInv, TypeOK, SeqInv, Installing
  <2>2. Installing(r)'
    BY <2>1 DEF Installing
  <2>3. CASE made # {} /\ UNCHANGED <<dirs, content>>
             /\ rows' = Without(User(r), req[r].build) \cup {<<User(r), req[r].build>>}
    <3>1. Solid'
      BY <2>1, <2>3 DEF SeqInv, Solid, Backed
    <3>2. ExecsOf[Hash(r)] # {}
      BY <2>1, <2>3 DEF SeqInv, Installing
    <3>3. rows' \subseteq rows \cup {Own(r)} /\ HashOf[Own(r)[2]] = Hash(r)
      BY <2>3 DEF Without, Own, Hash
    <3>4. Referred'
      BY <2>1, <2>3, <3>2, <3>3 DEF SeqInv, Referred
    <3> QED BY <1>1, <2>2, <3>1, <3>4 DEF SeqInv, OneAtATime
  <2>4. CASE made = {} /\ UNCHANGED rows
             /\ dirs' = (IF new THEN dirs \ {Hash(r)} ELSE dirs)
             /\ content' = (IF new THEN [content EXCEPT ![Hash(r)] = {}] ELSE content)
    <3>1. Solid'
      BY <2>1, <2>4 DEF SeqInv, Solid, Backed, TypeInv, TypeOK
    <3>2. CASE new
      <4>1. Backed(Hash(r)) /\ ExecsOf[Hash(r)] = {}
        BY <2>1, <2>4, <3>2 DEF SeqInv, Solid, Installing, Backed
      <4>2. Referred'
        BY <2>1, <2>4, <3>2, <4>1 DEF SeqInv, Referred
      <4> QED BY <1>1, <2>2, <3>1, <4>2 DEF SeqInv, OneAtATime
    <3>3. CASE ~new
      <4>1. Referred'
        BY <2>1, <2>4, <3>3 DEF SeqInv, Referred
      <4> QED BY <1>1, <2>2, <3>1, <4>1 DEF SeqInv, OneAtATime
    <3> QED BY <3>2, <3>3
  <2> QED BY <1>7, <2>3, <2>4 DEF Record
<1> QED
  BY <1>4, <1>5, <1>6, <1>7 DEF Install

LEMMA SeqRemove ==
  ASSUME OneAtATime, TypeInv, SeqInv, NEW r \in Requests, Remove(r)
  PROVE  SeqInv'
<1>0. /\ pc[r] \in Removing /\ pc'[r] # "link" /\ UNCHANGED made
      /\ req[r] \in ReqType /\ req \in [Requests -> ReqType \cup {None}]
  BY DEF Remove, Unlink, UnlinkFails, Count, CollectBegin, CollectEnd, CollectFails, RemoveRow,
         RemoveRowFails, Goto, At, Removing, locals, TypeInv, TypeOK, Asked
<1>1. Installing(r)'
  BY <1>0 DEF Installing, SeqInv, Removing
<1>2. Hash(r)' = Hash(r) /\ Own(r)' = Own(r) /\ Hash(r) \in Hashes /\ Own(r) \in Users \X Builds
  <2>1. req'[r].user = req[r].user /\ req'[r].build = req[r].build
    <3>1. CASE Unlink(r)
      BY <1>0, <3>1 DEF Unlink, ReqType
    <3>2. CASE UnlinkFails(r)
      BY <1>0, <3>2 DEF UnlinkFails, ReqType
    <3>3. CASE CollectFails(r)
      BY <1>0, <3>3 DEF CollectFails, ReqType
    <3>4. CASE Count(r) \/ CollectBegin(r) \/ CollectEnd(r) \/ RemoveRow(r) \/ RemoveRowFails(r)
      BY <3>4 DEF Count, CollectBegin, CollectEnd, RemoveRow, RemoveRowFails
    <3> QED BY <3>1, <3>2, <3>3, <3>4 DEF Remove
  <2> QED BY <1>0, <2>1 DEF Hash, Own, User, ReqType
<1>3. Own(r) \in rows /\ Own(r) \in UsersOf(Hash(r))
  BY <1>0 DEF SeqInv, Leaving, UsersOf, Own, Hash
<1>4. CASE Unlink(r) \/ UnlinkFails(r)
  <2>1. pc[r] = "unlinking" /\ UNCHANGED <<pc, dirs, content, rows, damaged>>
    BY <1>4 DEF Unlink, UnlinkFails, At, disk
  <2>2. Solid' /\ Referred'
    BY <2>1 DEF SeqInv, Solid, Referred, Backed
  <2>3. Leaving(r)'
    BY <1>2, <1>3, <2>1 DEF Leaving, Removing
  <2> QED BY <1>1, <2>2, <2>3 DEF SeqInv, OneAtATime
<1>5. CASE Count(r)
  <2>1. /\ UNCHANGED <<dirs, content, rows, damaged, req>>
        /\ pc' = [pc EXCEPT ![r] = IF UsersOf(Hash(r)) = {Own(r)} THEN "collecting" ELSE "collected"]
    BY <1>3, <1>5, CountedAlone DEF Count, Goto, disk
  <2>2. Solid' /\ Referred'
    BY <2>1 DEF SeqInv, Solid, Referred, Backed
  <2>3. UsersOf(Hash(r)) # {Own(r)} => Hash(r) \in dirs
    <3>1. SUFFICES ASSUME UsersOf(Hash(r)) # {Own(r)} PROVE Hash(r) \in dirs
      OBVIOUS
    <3>2. PICK x \in UsersOf(Hash(r)) : x # Own(r)
      BY <1>3, <3>1
    <3>3. x \in rows /\ HashOf[x[2]] = Hash(r) /\ HashOf[Own(r)[2]] = Hash(r)
      BY DEF UsersOf, Own, Hash
    <3> QED BY <1>3, <3>2, <3>3 DEF SeqInv, Referred
  <2>4. UsersOf(Hash(r))' = UsersOf(Hash(r))
    BY <1>2, <2>1 DEF UsersOf
  <2>5. pc'[r] = IF UsersOf(Hash(r)) = {Own(r)} THEN "collecting" ELSE "collected"
    BY <2>1 DEF TypeInv, TypeOK
  <2>6. Leaving(r)'
    BY <1>2, <1>3, <2>1, <2>3, <2>4, <2>5 DEF Leaving, Removing
  <2> QED BY <1>1, <2>2, <2>6 DEF SeqInv, OneAtATime
<1>6. CASE CollectBegin(r)
  <2>1. /\ pc[r] = "collecting" /\ pc'[r] = "emptying" /\ UNCHANGED <<dirs, rows>>
        /\ damaged' = damaged \cup {Hash(r)}
        /\ \E left \in SUBSET content[Hash(r)] : content' = [content EXCEPT ![Hash(r)] = left]
    BY <1>6 DEF CollectBegin, Goto, At, TypeInv, TypeOK
  <2>2. Solid'
    BY <1>2, <2>1 DEF SeqInv, Solid, Backed, TypeInv, TypeOK
  <2>3. Referred'
    BY <2>1 DEF SeqInv, Referred
  <2>4. UsersOf(Hash(r))' = {Own(r)}
    BY <1>2, <2>1 DEF SeqInv, Leaving, UsersOf
  <2>5. Leaving(r)'
    BY <1>2, <1>3, <2>1, <2>4 DEF Leaving, Removing
  <2> QED BY <1>1, <2>2, <2>3, <2>5 DEF SeqInv, OneAtATime
<1>7. CASE CollectEnd(r)
  <2>1. /\ pc[r] = "emptying" /\ pc'[r] = "collected" /\ UNCHANGED <<rows, damaged>>
        /\ dirs' = dirs \ {Hash(r)} /\ content' = [content EXCEPT ![Hash(r)] = {}]
    BY <1>7 DEF CollectEnd, Goto, At, TypeInv, TypeOK
  <2>2. UsersOf(Hash(r)) = {Own(r)} /\ Hash(r) \in damaged
    BY <2>1 DEF SeqInv, Leaving
  <2>3. Solid'
    BY <1>2, <2>1 DEF SeqInv, Solid, Backed, TypeInv, TypeOK
  <2>4. Referred'
    <3>1. \A x \in rows : HashOf[x[2]] = Hash(r) => x = Own(r)
      BY <2>2 DEF UsersOf
    <3> QED BY <2>1, <2>2, <3>1 DEF SeqInv, Referred
  <2>5. UsersOf(Hash(r))' = {Own(r)}
    BY <1>2, <2>1, <2>2 DEF UsersOf
  <2>6. Leaving(r)'
    BY <1>2, <1>3, <2>1, <2>5 DEF Leaving, Removing
  <2> QED BY <1>1, <2>3, <2>4, <2>6 DEF SeqInv, OneAtATime
<1>8. CASE CollectFails(r)
  <2>1. /\ pc'[r] = "collected" /\ req'[r].error /\ UNCHANGED <<dirs, content, rows, damaged>>
    BY <1>0, <1>8 DEF CollectFails, Goto, disk, TypeInv, TypeOK, ReqType
  <2>2. Solid' /\ Referred'
    BY <2>1 DEF SeqInv, Solid, Referred, Backed
  <2>3. Leaving(r)'
    BY <1>2, <1>3, <2>1 DEF Leaving, Removing
  <2> QED BY <1>1, <2>2, <2>3 DEF SeqInv, OneAtATime
<1>9. CASE RemoveRow(r) \/ RemoveRowFails(r)
  <2>1. /\ pc'[r] \in {"done", "failed"} /\ rows' \subseteq rows /\ UNCHANGED <<dirs, content, damaged>>
    BY <1>9 DEF RemoveRow, RemoveRowFails, Without, Goto, disk, TypeInv, TypeOK
  <2>2. Solid' /\ Referred'
    BY <2>1 DEF SeqInv, Solid, Referred, Backed
  <2>3. Leaving(r)'
    BY <2>1 DEF Leaving, Removing
  <2> QED BY <1>1, <2>2, <2>3 DEF SeqInv, OneAtATime
<1> QED
  BY <1>4, <1>5, <1>6, <1>7, <1>8, <1>9 DEF Remove

LEMMA SeqNext == ASSUME OneAtATime, TypeInv, SeqInv, [Next]_vars PROVE SeqInv'
<1>1. CASE Crash
  <2>1. /\ UNCHANGED <<dirs, content, rows, damaged>> /\ made' = {}
        /\ \A r \in Requests : pc'[r] \in Ended
    BY <1>1 DEF Crash, disk, TypeInv, TypeOK
  <2>2. Solid' /\ Referred'
    BY <2>1 DEF SeqInv, Solid, Referred, Backed
  <2>3. \A r \in Requests : Installing(r)' /\ Leaving(r)'
    BY <2>1 DEF Installing, Leaving, Removing
  <2> QED BY <2>2, <2>3 DEF SeqInv
<1>2. CASE UNCHANGED vars
  BY <1>2 DEF vars, disk, locals, SeqInv, Solid, Referred, Backed, Installing, Leaving, Own, User, Hash, UsersOf
<1> QED
  BY <1>1, <1>2, SeqArrive, SeqInstall, SeqRemove DEF Next

LEMMA SeqInvariant == ASSUME OneAtATime PROVE Spec => []SeqInv
<1>1. Init => SeqInv
  BY DEF Init, SeqInv, Solid, Referred, Installing, Leaving, Removing
<1>2. TypeInv /\ SeqInv /\ [Next]_vars => SeqInv'
  BY SeqNext
<1> QED BY <1>1, <1>2, TypeInvariant, PTL DEF Spec

\* One request at a time, and whatever fails: a recorded install has its complete directory until a
\* deletion begins on it.
THEOREM Kept == ASSUME OneAtATime PROVE Spec => []CacheBacked
<1>1. TypeInv /\ SeqInv => CacheBacked
  <2> SUFFICES ASSUME TypeInv, SeqInv, NEW x \in rows
               PROVE  Backed(HashOf[x[2]]) \/ HashOf[x[2]] \in damaged
    BY DEF CacheBacked
  <2>1. HashOf[x[2]] \in Hashes /\ HashOf[x[2]] \in dirs \cup damaged
    BY DEF SeqInv, Referred, TypeInv, TypeOK
  <2> QED BY <2>1 DEF SeqInv, Solid
<1> QED BY <1>1, TypeInvariant, SeqInvariant, PTL

\* One request at a time, and whatever fails: a removal that succeeds frees the directory exactly if
\* it was the last to refer to it.
THEOREM LastFrees == ASSUME OneAtATime PROVE Spec => LastRemovalFrees
<1> DEFINE Freed == \A r \in Requests : pc[r] = "collected" /\ pc'[r] = "done" =>
                      (Hash(r) \in dirs' <=> \E x \in rows' : HashOf[x[2]] = Hash(r))
<1>1. TypeInv /\ OneInstall /\ SeqInv /\ [Next]_vars => [Freed]_vars
  <2> SUFFICES ASSUME TypeInv, OneInstall, SeqInv, Next, NEW r \in Requests,
                      pc[r] = "collected", pc'[r] = "done"
               PROVE  Hash(r) \in dirs' <=> \E x \in rows' : HashOf[x[2]] = Hash(r)
    BY DEF vars
  <2>1. RemoveRow(r) /\ ~req[r].error
    BY OneAtATime DEF OneAtATime, Next, Arrive, Fetch, ReadInstall, Receive, Install, LockInstall, Lock, Copy,
       CopyFails, LinkOne, LinkFails, Record, RecordFails, Unlock, Remove, Unlink, UnlinkFails, Count,
       CollectBegin, CollectEnd, CollectFails, RemoveRow, RemoveRowFails, Crash, Goto, At, TypeInv, TypeOK
  <2>2. UNCHANGED dirs /\ rows' = Without(User(r), req[r].build)
    BY <2>1 DEF RemoveRow, Goto, disk, TypeInv, TypeOK
  <2>3. Own(r) \in rows /\ (Hash(r) \in dirs <=> UsersOf(Hash(r)) # {Own(r)})
    BY <2>1 DEF SeqInv, Leaving, Removing
  <2>4. rows' = rows \ {Own(r)}
    BY <2>2, <2>3 DEF OneInstall, Without, SameKey, Own
  <2>5. Own(r) \in UsersOf(Hash(r))
    BY <2>3 DEF UsersOf, Own, Hash
  <2>6. UsersOf(Hash(r)) # {Own(r)} <=> \E x \in rows' : HashOf[x[2]] = Hash(r)
    BY <2>4, <2>5 DEF UsersOf
  <2> QED BY <2>2, <2>3, <2>6
<1>2. LastRemovalFrees <=> [][Freed]_vars
  BY DEF LastRemovalFrees
<1> QED BY <1>1, <1>2, TypeInvariant, InstalledOnce, SeqInvariant, PTL DEF Spec
=============================================================================
