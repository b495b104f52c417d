------------------------------ MODULE SpmLocks ------------------------------
(***************************************************************************)
(* The two locks in front of the SPM database (src/src/db/mod.rs) and the  *)
(* order in which the operations of the package manager take them.         *)
(*                                                                         *)
(*  - an advisory lock (flock) on metadata.db.lock, shared for             *)
(*    with_read_lock and exclusive for with_write_lock.  It belongs to the *)
(*    file description, and every call opens a new one, so a thread's      *)
(*    second call conflicts with its own first call;                       *)
(*  - one std::sync::Mutex<Connection> per process, taken by both of the   *)
(*    above after the flock and taken alone by get_connection.  It is not  *)
(*    reentrant, and it is poisoned by a panic of its holder.              *)
(*                                                                         *)
(* A request is the sequence of lock calls its code makes: "read", "write" *)
(* and "conn" enter a call, "leave" returns from the innermost one.        *)
(***************************************************************************)
EXTENDS Naturals, Sequences

CONSTANTS Threads,    \* threads that serve requests (the daemon's blocking pool, a CLI process)
          Processes,  \* processes that share the lock file
          ProcOf,     \* the process of each thread
          Requests,   \* the requests threads may receive
          MaxServed,  \* bound: requests one thread serves
          None        \* nobody, nothing

ASSUME ThreadsAssumption   == ProcOf \in [Threads -> Processes]
ASSUME NoneAssumption      == None \notin Threads /\ None \notin Requests
ASSUME MaxServedAssumption == MaxServed \in Nat

Modes  == {"read", "write", "conn"}
Phases == {"run",      \* executing, or blocked in the flock its next token asks for
           "conn",     \* flock taken (or not needed), waiting for the mutex
           "unlock"}   \* mutex released, flock still held

(***************************************************************************)
(* The lock calls of each operation, in program order.  Section(m) is one  *)
(* call whose closure takes no lock; Autoremove and DistUpgrade call       *)
(* remove_package inside the guard they hold, when they find something to  *)
(* remove.                                                                 *)
(***************************************************************************)
Section(m) == <<m, "leave">>

InstallPackage  == Section("read") \o Section("write")
InstallSandbox  == Section("write")
UpgradePackage  == Section("write")
\* Mutation: remove_package keeps its read lock across the whole removal.
RemovePackageNested == <<"read">> \o Section("write") \o <<"leave">>
RemovePackage   == Section("read") \o Section("write")
UndoTransaction == Section("write")
ListPackages    == Section("read")
PackageInfo     == Section("conn") \o Section("conn") \o Section("conn")
RemoveForUser   == Section("read") \o Section("read") \o Section("write")
CleanupAll      == Section("conn") \o Section("conn")
InstallLocal    == Section("read") \o Section("write")
PurgePackage    == Section("read") \o Section("write")
InstallForUser  == Section("write")
CheckIntegrity  == Section("write")
SyncSystem      == Section("write")
SearchFileOwner == Section("conn")
Dependencies    == Section("conn")
ReverseDependencies == Section("conn")
ListFiles       == Section("conn")
ShowHistory     == Section("conn")
FullAnalysis    == Section("conn") \o Section("conn")
Autoremove      == <<"conn">> \o RemovePackage \o <<"leave">>
DistUpgrade     == <<"write">> \o RemovePackage \o <<"leave">>

LockProgram ==
  [install     |-> InstallPackage,  sandbox     |-> InstallSandbox,
   upgrade     |-> UpgradePackage,  remove      |-> RemovePackage,
   undo        |-> UndoTransaction, list        |-> ListPackages,
   info        |-> PackageInfo,     user_remove |-> RemoveForUser,
   cleanup     |-> CleanupAll,      autoremove  |-> Autoremove,
   dist_upgrade |-> DistUpgrade,    local       |-> InstallLocal,
   purge       |-> PurgePackage,    user_install |-> InstallForUser,
   fsck        |-> CheckIntegrity,  sync        |-> SyncSystem,
   search_file |-> SearchFileOwner, depends     |-> Dependencies,
   rdepends    |-> ReverseDependencies, files   |-> ListFiles,
   history     |-> ShowHistory,     analyze     |-> FullAnalysis]

ASSUME RequestsAssumption == Requests \subseteq DOMAIN LockProgram

VARIABLES op,       \* op[t]: the request thread t serves, or None
          pc,       \* pc[t]: the next token of its program
          phase,    \* phase[t]: where it is inside a lock call
          stack,    \* stack[t]: the calls it is inside, innermost last
          mutex,    \* mutex[p]: the thread that holds the connection mutex of p
          poisoned, \* poisoned[p]: a holder of that mutex panicked
          served    \* served[t]: requests t has received

vars == <<op, pc, phase, stack, mutex, poisoned, served>>

Program(t)   == LockProgram[op[t]]
Busy(t)      == op[t] # None
AtToken(t, k) == Busy(t) /\ phase[t] = "run" /\ pc[t] <= Len(Program(t)) /\ Program(t)[pc[t]] = k

\* t has an open description of the lock file that holds the flock in mode m.
HoldsFlock(t, m) == \E i \in DOMAIN stack[t] : stack[t][i] = m
ReadAllowed  == \A u \in Threads : ~HoldsFlock(u, "write")
\* Mutation: with_write_lock takes the flock with read() instead of write().
WriteAllowedAsRead == ReadAllowed
WriteAllowed == \A u \in Threads : ~HoldsFlock(u, "write") /\ ~HoldsFlock(u, "read")

\* t executes the closure of its innermost call.
InBody(t) == phase[t] = "run" /\ stack[t] # << >>

Init ==
  /\ op = [t \in Threads |-> None]
  /\ pc = [t \in Threads |-> 1]
  /\ phase = [t \in Threads |-> "run"]
  /\ stack = [t \in Threads |-> << >>]
  /\ mutex = [p \in Processes |-> None]
  /\ poisoned = [p \in Processes |-> FALSE]
  /\ served = [t \in Threads |-> 0]

\* A request arrives at an idle thread.
Begin(t, r) ==
  /\ ~Busy(t) /\ served[t] < MaxServed
  /\ op' = [op EXCEPT ![t] = r]
  /\ pc' = [pc EXCEPT ![t] = 1]
  /\ served' = [served EXCEPT ![t] = @ + 1]
  /\ UNCHANGED <<phase, stack, mutex, poisoned>>

\* The call in mode m is entered: its flock is held, the mutex is next.
Enter(t, m) ==
  /\ AtToken(t, m)
  /\ stack' = [stack EXCEPT ![t] = Append(@, m)]
  /\ phase' = [phase EXCEPT ![t] = "conn"]
  /\ UNCHANGED <<op, pc, mutex, poisoned, served>>

AcquireRead(t)  == ReadAllowed  /\ Enter(t, "read")
AcquireWrite(t) == WriteAllowed /\ Enter(t, "write")
GetConnection(t) == Enter(t, "conn")

\* Every guard of t is dropped and its request answered.
Release(t) ==
  /\ op' = [op EXCEPT ![t] = None]
  /\ phase' = [phase EXCEPT ![t] = "run"]
  /\ stack' = [stack EXCEPT ![t] = << >>]
  /\ mutex' = [mutex EXCEPT ![ProcOf[t]] = IF @ = t THEN None ELSE @]
  /\ UNCHANGED <<pc, served>>

\* Mutation: get_connection recovers the guard of a poisoned mutex and goes on.
LockConnectionIgnoringPoison(t) ==
  /\ phase[t] = "conn" /\ mutex[ProcOf[t]] = None
  /\ mutex' = [mutex EXCEPT ![ProcOf[t]] = t]
  /\ phase' = [phase EXCEPT ![t] = "run"]
  /\ pc' = [pc EXCEPT ![t] = @ + 1]
  /\ UNCHANGED <<op, stack, poisoned, served>>

\* The mutex of the connection is free: take it, or give up if it is poisoned.
LockConnection(t) ==
  /\ phase[t] = "conn" /\ mutex[ProcOf[t]] = None
  /\ \/ /\ ~poisoned[ProcOf[t]]
        /\ mutex' = [mutex EXCEPT ![ProcOf[t]] = t]
        /\ phase' = [phase EXCEPT ![t] = "run"]
        /\ pc' = [pc EXCEPT ![t] = @ + 1]
        /\ UNCHANGED <<op, stack, poisoned, served>>
     \/ poisoned[ProcOf[t]] /\ Release(t) /\ UNCHANGED poisoned

\* Mutation: the connection guard outlives the call that took it.
DropConnectionLeaked(t) ==
  /\ AtToken(t, "leave") /\ InBody(t)
  /\ phase' = [phase EXCEPT ![t] = "unlock"]
  /\ UNCHANGED <<op, pc, stack, mutex, poisoned, served>>

\* The closure returns.  Its guards are dropped in reverse order: the mutex ...
DropConnection(t) ==
  /\ AtToken(t, "leave") /\ InBody(t)
  /\ mutex' = [mutex EXCEPT ![ProcOf[t]] = None]
  /\ phase' = [phase EXCEPT ![t] = "unlock"]
  /\ UNCHANGED <<op, pc, stack, poisoned, served>>

\* Mutation: the flock is dropped without its file description being closed, and
\* the closure runs on as if the call had not returned.
DropFlockTwice(t) ==
  /\ phase[t] = "unlock"
  /\ stack' = [stack EXCEPT ![t] = SubSeq(@, 1, Len(@) - 1)]
  /\ phase' = [phase EXCEPT ![t] = "unlocked"]
  /\ pc' = [pc EXCEPT ![t] = @ + 1]
  /\ UNCHANGED <<op, mutex, poisoned, served>>

\* ... then the flock.
DropFlock(t) ==
  /\ phase[t] = "unlock"
  /\ stack' = [stack EXCEPT ![t] = SubSeq(@, 1, Len(@) - 1)]
  /\ phase' = [phase EXCEPT ![t] = "run"]
  /\ pc' = [pc EXCEPT ![t] = @ + 1]
  /\ UNCHANGED <<op, mutex, poisoned, served>>

Finish(t) ==
  /\ Busy(t) /\ phase[t] = "run" /\ pc[t] > Len(Program(t))
  /\ Release(t) /\ UNCHANGED poisoned

\* The body returns an error, which `?` carries out of every enclosing call.
Fail(t) ==
  /\ Busy(t) /\ phase[t] = "run"
  /\ Release(t) /\ UNCHANGED poisoned

\* The body panics while it uses the connection: unwinding poisons the mutex.
Panic(t) ==
  /\ phase[t] = "run" /\ mutex[ProcOf[t]] = t
  /\ poisoned' = [poisoned EXCEPT ![ProcOf[t]] = TRUE]
  /\ Release(t)

\* The process ends (a signal, process::exit): the kernel drops its flocks and
\* a new process starts with a new mutex.
Crash(p) ==
  /\ poisoned[p] \/ \E t \in Threads : ProcOf[t] = p /\ Busy(t)
  /\ op' = [t \in Threads |-> IF ProcOf[t] = p THEN None ELSE op[t]]
  /\ phase' = [t \in Threads |-> IF ProcOf[t] = p THEN "run" ELSE phase[t]]
  /\ stack' = [t \in Threads |-> IF ProcOf[t] = p THEN << >> ELSE stack[t]]
  /\ mutex' = [mutex EXCEPT ![p] = None]
  /\ poisoned' = [poisoned EXCEPT ![p] = FALSE]
  /\ UNCHANGED <<pc, served>>

Step(t) == \/ AcquireRead(t) \/ AcquireWrite(t) \/ GetConnection(t)
           \/ LockConnection(t) \/ DropConnection(t) \/ DropFlock(t) \/ Finish(t)

Next ==
  \/ \E t \in Threads : \/ \E r \in Requests : Begin(t, r)
                        \/ Step(t) \/ Fail(t) \/ Panic(t)
  \/ \E p \in Processes : Crash(p)

Spec == Init /\ [][Next]_vars

\* The kernel grants a lock that stays free and the scheduler runs every thread;
\* nothing makes a request fail, panic or a process end.
FairSpec == Spec /\ \A t \in Threads : WF_vars(Step(t))
-----------------------------------------------------------------------------
TypeOK ==
  /\ op \in [Threads -> Requests \cup {None}]
  /\ pc \in [Threads -> Nat]
  /\ phase \in [Threads -> Phases]
  /\ stack \in [Threads -> Seq(Modes)]
  /\ mutex \in [Processes -> Threads \cup {None}]
  /\ poisoned \in [Processes -> BOOLEAN]
  /\ served \in [Threads -> 0 .. MaxServed]

\* The closure given to with_write_lock runs alone: no other thread, of this
\* process or another, is inside a closure that took the flock, and no other
\* thread of the process uses the connection, get_connection callers included.
WriteBodyAlone ==
  \A t, u \in Threads :
    (t # u /\ InBody(t) /\ HoldsFlock(t, "write") /\ InBody(u)) =>
      /\ ~HoldsFlock(u, "read") /\ ~HoldsFlock(u, "write")
      /\ ProcOf[u] # ProcOf[t]

\* A connection whose holder panicked is not used again by its process: a panic
\* in the middle of a closure never hands half-done work to the next request.
NoBodyAfterPoison ==
  \A t \in Threads : poisoned[ProcOf[t]] => ~InBody(t)

(***************************************************************************)
(* Waiting.  Blockers(t) are the threads, t included, whose locks thread t *)
(* waits for.                                                              *)
(***************************************************************************)
Blockers(t) ==
  {u \in Threads :
     \/ phase[t] = "conn" /\ mutex[ProcOf[t]] = u
     \/ AtToken(t, "read") /\ HoldsFlock(u, "write")
     \/ AtToken(t, "write") /\ (HoldsFlock(u, "read") \/ HoldsFlock(u, "write"))}

\* No set of threads waits only for each other's locks: neither a cycle between
\* the flock of one operation and the mutex of another, nor an operation that
\* waits for a lock it holds itself.
NoWaitCycle ==
  \A S \in SUBSET Threads :
    S # {} => \E t \in S : Blockers(t) \cap S = {}

\* Every request is answered, whatever the other threads and processes do.
EveryRequestReturns == \A t \in Threads : Busy(t) ~> ~Busy(t)

\* dist_upgrade_packages and autoremove_packages remove what they find to remove and return, as
\* the comment of the one and architecture.md on the other say.
RemovingReturns ==
  \A t \in Threads : op[t] \in {"dist_upgrade", "autoremove"} ~> op[t] = None
=============================================================================
