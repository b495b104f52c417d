--------------------------- MODULE SpmLocksProofs ---------------------------
(***************************************************************************)
(* What holds of the database locks for any number of threads, processes   *)
(* and requests.  LockInv ties a thread's stack of lock calls to the mutex *)
(* and the flock; FlatInv adds where the thread is in its program, for     *)
(* requests that never enter a lock call inside another one.               *)
(***************************************************************************)
EXTENDS SpmLocks, TLAPS

USE ThreadsAssumption, NoneAssumption, MaxServedAssumption

-----------------------------------------------------------------------------
\* A shared flock excludes exclusive ones, an exclusive one excludes all others.
FlockExclusive ==
  \A t, u \in Threads :
    t # u /\ HoldsFlock(t, "write") => ~HoldsFlock(u, "read") /\ ~HoldsFlock(u, "write")

\* The connection mutex of a process belongs to the thread whose closure runs.
\* A second call inside a closure stays at the mutex its own thread holds.
MutexOwned(t) ==
  /\ phase[t] = "run" => \/ stack[t] = << >> /\ mutex[ProcOf[t]] # t
                         \/ Len(stack[t]) = 1 /\ mutex[ProcOf[t]] = t
  /\ phase[t] = "unlock" => Len(stack[t]) = 1 /\ mutex[ProcOf[t]] # t
  /\ phase[t] = "conn" => \/ Len(stack[t]) = 1 /\ mutex[ProcOf[t]] # t
                          \/ mutex[ProcOf[t]] = t
  /\ ~Busy(t) => phase[t] = "run" /\ stack[t] = << >>

PoisonReleased == \A p \in Processes : poisoned[p] => mutex[p] = None

LockInv == FlockExclusive /\ (\A t \in Threads : MutexOwned(t)) /\ PoisonReleased

-----------------------------------------------------------------------------
\* The variables keep their types: a waiting, failing, panicking or killed
\* request leaves a well-formed lock state.
THEOREM Typing == Spec => []TypeOK
<1>1. Init => TypeOK
  BY DEF Init, TypeOK, Phases, Modes
<1>2. TypeOK /\ [Next]_vars => TypeOK'
  <2> SUFFICES ASSUME TypeOK, [Next]_vars PROVE TypeOK'
    OBVIOUS
  <2> USE DEF TypeOK
  <2>1. ASSUME NEW t \in Threads, NEW r \in Requests, Begin(t, r) PROVE TypeOK'
    BY <2>1 DEF Begin
  <2>2. ASSUME NEW t \in Threads, NEW m \in Modes, Enter(t, m) PROVE TypeOK'
    <3>1. Append(stack[t], m) \in Seq(Modes)
      OBVIOUS
    <3> QED BY <2>2, <3>1 DEF Enter, Phases
  <2>3. ASSUME NEW t \in Threads, Release(t) PROVE
          /\ op' \in [Threads -> Requests \cup {None}]
          /\ pc' \in [Threads -> Nat]
          /\ phase' \in [Threads -> Phases]
          /\ stack' \in [Threads -> Seq(Modes)]
          /\ mutex' \in [Processes -> Threads \cup {None}]
          /\ served' \in [Threads -> 0 .. MaxServed]
    BY <2>3 DEF Release, Phases
  <2>4. ASSUME NEW t \in Threads, LockConnection(t) PROVE TypeOK'
    <3>1. CASE Release(t) /\ UNCHANGED poisoned
      BY <2>3, <3>1
    <3>2. CASE /\ mutex' = [mutex EXCEPT ![ProcOf[t]] = t]
               /\ phase' = [phase EXCEPT ![t] = "run"]
               /\ pc' = [pc EXCEPT ![t] = @ + 1]
               /\ UNCHANGED <<op, stack, poisoned, served>>
      BY <3>2 DEF Phases
    <3> QED BY <2>4, <3>1, <3>2 DEF LockConnection
  <2>5. ASSUME NEW t \in Threads, DropConnection(t) PROVE TypeOK'
    BY <2>5 DEF DropConnection, Phases
  <2>6. ASSUME NEW t \in Threads, DropFlock(t) PROVE TypeOK'
    <3>1. SubSeq(stack[t], 1, Len(stack[t]) - 1) \in Seq(Modes)
      OBVIOUS
    <3> QED BY <2>6, <3>1 DEF DropFlock, Phases
  <2>7. ASSUME NEW t \in Threads, Finish(t) \/ Fail(t) PROVE TypeOK'
    BY <2>3, <2>7 DEF Finish, Fail
  <2>8. ASSUME NEW t \in Threads, Panic(t) PROVE TypeOK'
    BY <2>3, <2>8 DEF Panic
  <2>9. ASSUME NEW p \in Processes, Crash(p) PROVE TypeOK'
    BY <2>9 DEF Crash, Phases
  <2>10. CASE UNCHANGED vars
    BY <2>10 DEF vars
  <2> QED
    BY <2>1, <2>2, <2>4, <2>5, <2>6, <2>7, <2>8, <2>9, <2>10
    DEF Next, Step, AcquireRead, AcquireWrite, GetConnection, Modes
<1>3. QED
  BY <1>1, <1>2, PTL DEF Spec

-----------------------------------------------------------------------------
\* What entering and leaving a lock call does to the flocks a thread holds.
LEMMA EnterFlocks ==
  ASSUME TypeOK, NEW t \in Threads, NEW m \in Modes, Enter(t, m)
  PROVE  \A u \in Threads, k \in Modes :
           HoldsFlock(u, k)' <=> HoldsFlock(u, k) \/ (u = t /\ k = m)
<1> SUFFICES ASSUME NEW u \in Threads, NEW k \in Modes
             PROVE  HoldsFlock(u, k)' <=> HoldsFlock(u, k) \/ (u = t /\ k = m)
  OBVIOUS
<1>1. stack[t] \in Seq(Modes) /\ stack[u] \in Seq(Modes) /\ stack \in [Threads -> Seq(Modes)]
  BY DEF TypeOK
<1>2. stack' = [stack EXCEPT ![t] = Append(@, m)]
  BY DEF Enter
<1>3. CASE u # t
  BY <1>1, <1>2, <1>3 DEF HoldsFlock
<1>4. CASE u = t
  <2>1. stack'[t] = Append(stack[t], m)
    BY <1>1, <1>2
  <2>2. /\ DOMAIN stack[t] = 1 .. Len(stack[t])
        /\ DOMAIN stack'[t] = 1 .. (Len(stack[t]) + 1)
        /\ Len(stack[t]) \in Nat
    BY <1>1, <2>1
  <2>3. \A i \in 1 .. Len(stack[t]) : stack'[t][i] = stack[t][i]
    BY <1>1, <2>1
  <2>4. stack'[t][Len(stack[t]) + 1] = m
    BY <1>1, <2>1
  <2>5. HoldsFlock(t, k) => HoldsFlock(t, k)'
    BY <2>2, <2>3 DEF HoldsFlock
  <2>6. k = m => HoldsFlock(t, k)'
    BY <2>2, <2>4 DEF HoldsFlock
  <2>7. ASSUME HoldsFlock(t, k)' PROVE HoldsFlock(t, k) \/ k = m
    <3>1. PICK i \in 1 .. (Len(stack[t]) + 1) : stack'[t][i] = k
      BY <2>2, <2>7 DEF HoldsFlock
    <3>2. i \in 1 .. Len(stack[t]) \/ i = Len(stack[t]) + 1
      BY <2>2
    <3> QED BY <2>2, <2>3, <2>4, <3>1, <3>2 DEF HoldsFlock
  <2> QED BY <1>4, <2>5, <2>6, <2>7
<1> QED BY <1>3, <1>4

\* A thread inside no lock call holds no flock.
LEMMA EmptyStack ==
  ASSUME NEW t \in Threads, stack[t] = << >>
  PROVE  \A k \in Modes : ~HoldsFlock(t, k)
BY DEF HoldsFlock

\* Releasing flocks keeps the remaining ones compatible.
LEMMA FewerFlocks ==
  ASSUME FlockExclusive, \A u \in Threads : stack'[u] = stack[u] \/ stack'[u] = << >>
  PROVE  FlockExclusive'
<1>1. ASSUME NEW u \in Threads, NEW k, HoldsFlock(u, k)' PROVE HoldsFlock(u, k)
  <2>1. CASE stack'[u] = stack[u]
    BY <1>1, <2>1 DEF HoldsFlock
  <2>2. CASE stack'[u] = << >>
    BY <1>1, <2>2 DEF HoldsFlock
  <2> QED BY <2>1, <2>2
<1> QED BY <1>1 DEF FlockExclusive

\* The relation between stacks, the mutex and the flock is inductive, for
\* flat and nested requests alike.
LEMMA LockInvInductive == TypeOK /\ LockInv /\ [Next]_vars => LockInv'
<1> SUFFICES ASSUME TypeOK, LockInv, [Next]_vars PROVE LockInv'
  OBVIOUS
<1> USE DEF TypeOK, LockInv
<1>1. ASSUME NEW t \in Threads, NEW r \in Requests, Begin(t, r) PROVE LockInv'
  <2>1. FlockExclusive'
    BY <1>1, FewerFlocks DEF Begin
  <2>2. ASSUME NEW u \in Threads PROVE MutexOwned(u)'
    BY <1>1 DEF Begin, MutexOwned, Busy
  <2>3. PoisonReleased'
    BY <1>1 DEF Begin, PoisonReleased
  <2> QED BY <2>1, <2>2, <2>3
<1>2. ASSUME NEW t \in Threads, NEW m \in Modes, Enter(t, m),
             m = "read" => ReadAllowed, m = "write" => WriteAllowed
      PROVE  LockInv'
  <2>1. FlockExclusive'
    BY <1>2, EnterFlocks DEF FlockExclusive, ReadAllowed, WriteAllowed, Modes
  <2>2. ASSUME NEW u \in Threads PROVE MutexOwned(u)'
    <3>1. CASE u # t
      BY <1>2, <3>1 DEF Enter, MutexOwned, Busy, AtToken
    <3>2. CASE u = t
      <4>1. stack'[t] = Append(stack[t], m) /\ stack[t] \in Seq(Modes)
        BY <1>2 DEF Enter
      <4>2. stack[t] = << >> => Len(stack'[t]) = 1
        BY <4>1
      <4> QED BY <1>2, <3>2, <4>2 DEF Enter, MutexOwned, Busy, AtToken
    <3> QED BY <3>1, <3>2
  <2>3. PoisonReleased'
    BY <1>2 DEF Enter, PoisonReleased
  <2> QED BY <2>1, <2>2, <2>3
<1>3. ASSUME NEW t \in Threads, Release(t)
      PROVE  FlockExclusive' /\ \A u \in Threads : MutexOwned(u)'
  <2>1. \A u \in Threads : stack'[u] = stack[u] \/ stack'[u] = << >>
    BY <1>3 DEF Release
  <2>2. FlockExclusive'
    BY <2>1, FewerFlocks
  <2>3. ASSUME NEW u \in Threads PROVE MutexOwned(u)'
    BY <1>3 DEF Release, MutexOwned, Busy
  <2> QED BY <2>2, <2>3
<1>4. ASSUME NEW t \in Threads, LockConnection(t) PROVE LockInv'
  <2>1. CASE poisoned[ProcOf[t]] /\ Release(t) /\ UNCHANGED poisoned
    <3>1. PoisonReleased'
      BY <2>1 DEF PoisonReleased, Release
    <3> QED BY <1>3, <2>1, <3>1
  <2>2. CASE /\ ~poisoned[ProcOf[t]]
             /\ mutex' = [mutex EXCEPT ![ProcOf[t]] = t]
             /\ phase' = [phase EXCEPT ![t] = "run"]
             /\ pc' = [pc EXCEPT ![t] = @ + 1]
             /\ UNCHANGED <<op, stack, poisoned, served>>
    <3>1. phase[t] = "conn" /\ mutex[ProcOf[t]] = None
      BY <1>4 DEF LockConnection
    <3>2. FlockExclusive'
      BY <2>2, FewerFlocks
    <3>3. ASSUME NEW u \in Threads PROVE MutexOwned(u)'
      BY <2>2, <3>1 DEF MutexOwned, Busy
    <3>4. PoisonReleased'
      BY <2>2 DEF PoisonReleased
    <3> QED BY <3>2, <3>3, <3>4
  <2> QED BY <1>4, <2>1, <2>2 DEF LockConnection
<1>5. ASSUME NEW t \in Threads, DropConnection(t) PROVE LockInv'
  <2>1. FlockExclusive'
    BY <1>5, FewerFlocks DEF DropConnection
  <2>2. ASSUME NEW u \in Threads PROVE MutexOwned(u)'
    BY <1>5 DEF DropConnection, MutexOwned, Busy, AtToken, InBody
  <2>3. PoisonReleased'
    BY <1>5 DEF DropConnection, PoisonReleased
  <2> QED BY <2>1, <2>2, <2>3
<1>6. ASSUME NEW t \in Threads, DropFlock(t) PROVE LockInv'
  <2>1. Len(stack[t]) = 1 /\ mutex[ProcOf[t]] # t
    BY <1>6 DEF DropFlock, MutexOwned
  <2>2. stack' = [stack EXCEPT ![t] = << >>]
    <3>1. SubSeq(stack[t], 1, Len(stack[t]) - 1) = << >>
      BY <2>1
    <3> QED BY <1>6, <3>1 DEF DropFlock
  <2>3. FlockExclusive'
    BY <2>2, FewerFlocks
  <2>4. ASSUME NEW u \in Threads PROVE MutexOwned(u)'
    BY <1>6, <2>1, <2>2 DEF DropFlock, MutexOwned, Busy
  <2>5. PoisonReleased'
    BY <1>6 DEF DropFlock, PoisonReleased
  <2> QED BY <2>3, <2>4, <2>5
<1>7. ASSUME NEW t \in Threads, Finish(t) \/ Fail(t) PROVE LockInv'
  <2>1. Release(t) /\ UNCHANGED poisoned
    BY <1>7 DEF Finish, Fail
  <2>2. PoisonReleased'
    BY <2>1 DEF PoisonReleased, Release
  <2> QED BY <1>3, <2>1, <2>2
<1>8. ASSUME NEW t \in Threads, Panic(t) PROVE LockInv'
  <2>1. Release(t) /\ mutex[ProcOf[t]] = t /\ poisoned' = [poisoned EXCEPT ![ProcOf[t]] = TRUE]
    BY <1>8 DEF Panic
  <2>2. PoisonReleased'
    BY <2>1 DEF PoisonReleased, Release
  <2> QED BY <1>3, <2>1, <2>2
<1>9. ASSUME NEW p \in Processes, Crash(p) PROVE LockInv'
  <2>1. \A u \in Threads : stack'[u] = stack[u] \/ stack'[u] = << >>
    BY <1>9 DEF Crash
  <2>2. FlockExclusive'
    BY <2>1, FewerFlocks
  <2>3. ASSUME NEW u \in Threads PROVE MutexOwned(u)'
    BY <1>9 DEF Crash, MutexOwned, Busy
  <2>4. PoisonReleased'
    BY <1>9 DEF Crash, PoisonReleased
  <2> QED BY <2>2, <2>3, <2>4
<1>10. CASE UNCHANGED vars
  BY <1>10 DEF vars, FlockExclusive, MutexOwned, PoisonReleased, HoldsFlock, Busy
<1> QED
  BY <1>1, <1>2, <1>4, <1>5, <1>6, <1>7, <1>8, <1>9, <1>10
  DEF Next, Step, AcquireRead, AcquireWrite, GetConnection, Modes

LEMMA LockInvHolds == Spec => []LockInv
<1>1. Init => LockInv
  BY DEF Init, LockInv, FlockExclusive, MutexOwned, PoisonReleased, HoldsFlock, Busy
<1>2. QED
  BY <1>1, Typing, LockInvInductive, PTL DEF Spec

-----------------------------------------------------------------------------
\* A closure given to with_write_lock runs alone, for every number of threads
\* and processes and every mix of requests, the nested ones included.
THEOREM WriteExclusion == Spec => []WriteBodyAlone
<1>1. TypeOK /\ LockInv => WriteBodyAlone
  BY DEF TypeOK, LockInv, FlockExclusive, MutexOwned, WriteBodyAlone, InBody
<1>2. QED
  BY <1>1, Typing, LockInvHolds, PTL

\* After a panic in a closure no thread of the process enters a closure again.
THEOREM PoisonIsFinal == Spec => []NoBodyAfterPoison
<1>1. TypeOK /\ LockInv => NoBodyAfterPoison
  BY DEF TypeOK, LockInv, MutexOwned, PoisonReleased, NoBodyAfterPoison, InBody
<1>2. QED
  BY <1>1, Typing, LockInvHolds, PTL

-----------------------------------------------------------------------------
(***************************************************************************)
(* Freedom from deadlock, for requests that are flat: no lock call inside  *)
(* another one.  Every entry of LockProgram but autoremove and             *)
(* dist_upgrade is.                                                        *)
(***************************************************************************)
Flat(p) ==
  /\ p \in Seq(Modes \cup {"leave"})
  /\ \A i \in 1 .. Len(p) : p[i] # "leave" <=> (i = 1 \/ p[i - 1] = "leave")

FlatRequests == \A r \in Requests : Flat(LockProgram[r])

\* Where thread t is in its program tells which lock call it is inside.
Positioned(t) ==
  /\ pc[t] >= 1
  /\ phase[t] = "run" /\ Busy(t) /\ pc[t] <= Len(Program(t)) =>
       (stack[t] = << >> <=> (pc[t] = 1 \/ Program(t)[pc[t] - 1] = "leave"))
  /\ phase[t] = "conn" =>
       /\ pc[t] <= Len(Program(t)) /\ Program(t)[pc[t]] # "leave"
       /\ stack[t] # << >> /\ mutex[ProcOf[t]] # t
  /\ phase[t] = "unlock" => pc[t] <= Len(Program(t)) /\ Program(t)[pc[t]] = "leave"

MutexHome == \A p \in Processes : mutex[p] # None => ProcOf[mutex[p]] = p

FlatInv == MutexHome /\ \A t \in Threads : Positioned(t)

\* At an entering token a thread with a flat program is inside no lock call.
LEMMA EntersOutside ==
  ASSUME TypeOK, FlatRequests, FlatInv, NEW t \in Threads, NEW m \in Modes, AtToken(t, m)
  PROVE  stack[t] = << >>
<1>1. op[t] \in Requests /\ Flat(Program(t)) /\ pc[t] \in Nat /\ pc[t] >= 1
  BY DEF TypeOK, FlatRequests, FlatInv, Positioned, AtToken, Busy, Program
<1>2. pc[t] \in 1 .. Len(Program(t)) /\ Program(t)[pc[t]] # "leave"
  BY <1>1 DEF AtToken, Flat, Modes
<1>3. pc[t] = 1 \/ Program(t)[pc[t] - 1] = "leave"
  BY <1>1, <1>2 DEF Flat
<1> QED BY <1>3 DEF FlatInv, Positioned, AtToken

\* The position of a thread in a flat program is inductive.
LEMMA FlatInvInductive ==
  FlatRequests /\ TypeOK /\ LockInv /\ FlatInv /\ [Next]_vars => FlatInv'
<1> SUFFICES ASSUME FlatRequests, TypeOK, LockInv, FlatInv, [Next]_vars PROVE FlatInv'
  OBVIOUS
<1> USE DEF TypeOK, FlatInv
<1>1. ASSUME NEW t \in Threads, NEW r \in Requests, Begin(t, r) PROVE FlatInv'
  BY <1>1 DEF Begin, MutexHome, Positioned, Busy, Program, LockInv, MutexOwned
<1>2. ASSUME NEW t \in Threads, NEW m \in Modes, Enter(t, m) PROVE FlatInv'
  <2>1. stack[t] = << >> /\ mutex[ProcOf[t]] # t
    BY <1>2, EntersOutside DEF Enter, LockInv, MutexOwned, AtToken
  <2>2. stack'[t] # << >>
    BY <1>2, <2>1 DEF Enter
  <2>3. m # "leave"
    BY DEF Modes
  <2>4. ASSUME NEW u \in Threads PROVE Positioned(u)'
    BY <1>2, <2>1, <2>2, <2>3, <2>4 DEF Enter, Positioned, Busy, Program, AtToken
  <2>5. MutexHome'
    BY <1>2 DEF Enter, MutexHome
  <2> QED BY <2>4, <2>5
<1>3. ASSUME NEW t \in Threads, Release(t) PROVE FlatInv'
  BY <1>3 DEF Release, MutexHome, Positioned, Busy, Program
<1>4. ASSUME NEW t \in Threads, LockConnection(t) PROVE FlatInv'
  <2>1. CASE Release(t)
    BY <1>3, <2>1
  <2>2. CASE /\ ~poisoned[ProcOf[t]]
             /\ mutex' = [mutex EXCEPT ![ProcOf[t]] = t]
             /\ phase' = [phase EXCEPT ![t] = "run"]
             /\ pc' = [pc EXCEPT ![t] = @ + 1]
             /\ UNCHANGED <<op, stack, poisoned, served>>
    <3>1. phase[t] = "conn" /\ mutex[ProcOf[t]] = None
      BY <1>4 DEF LockConnection
    <3>2. ASSUME NEW u \in Threads PROVE Positioned(u)'
      BY <2>2, <3>1, <3>2 DEF Positioned, Busy, Program
    <3>3. MutexHome'
      BY <2>2 DEF MutexHome
    <3> QED BY <3>2, <3>3
  <2> QED BY <1>4, <2>1, <2>2 DEF LockConnection
<1>5. ASSUME NEW t \in Threads, DropConnection(t) PROVE FlatInv'
  <2>1. ASSUME NEW u \in Threads PROVE Positioned(u)'
    BY <1>5, <2>1 DEF DropConnection, Positioned, Busy, Program, AtToken
  <2>2. MutexHome'
    BY <1>5 DEF DropConnection, MutexHome
  <2> QED BY <2>1, <2>2
<1>6. ASSUME NEW t \in Threads, DropFlock(t) PROVE FlatInv'
  <2>1. stack' = [stack EXCEPT ![t] = << >>]
    <3>1. Len(stack[t]) = 1
      BY <1>6 DEF DropFlock, LockInv, MutexOwned
    <3>2. SubSeq(stack[t], 1, Len(stack[t]) - 1) = << >>
      BY <3>1
    <3> QED BY <1>6, <3>2 DEF DropFlock
  <2>2. ASSUME NEW u \in Threads PROVE Positioned(u)'
    BY <1>6, <2>1, <2>2 DEF DropFlock, Positioned, Busy, Program
  <2>3. MutexHome'
    BY <1>6 DEF DropFlock, MutexHome
  <2> QED BY <2>2, <2>3
<1>7. ASSUME NEW p \in Processes, Crash(p) PROVE FlatInv'
  BY <1>7 DEF Crash, MutexHome, Positioned, Busy, Program
<1>8. CASE UNCHANGED vars
  BY <1>8 DEF vars, MutexHome, Positioned, Busy, Program
<1> QED
  BY <1>1, <1>2, <1>3, <1>4, <1>5, <1>6, <1>7, <1>8
  DEF Next, Step, AcquireRead, AcquireWrite, GetConnection, Modes, Finish, Fail, Panic

\* Waiting chains have at most two links: a thread at the flock waits for one at
\* the mutex, which waits for one that runs.
LEMMA NoCycle == FlatRequests /\ TypeOK /\ LockInv /\ FlatInv => NoWaitCycle
<1> SUFFICES ASSUME FlatRequests, TypeOK, LockInv, FlatInv,
                    NEW S \in SUBSET Threads, S # {},
                    \A t \in S : Blockers(t) \cap S # {}
             PROVE  FALSE
  BY DEF NoWaitCycle
<1>1. ASSUME NEW t \in Threads, phase[t] # "conn", stack[t] # << >>
      PROVE  Blockers(t) = {}
  <2>1. ~AtToken(t, "read") /\ ~AtToken(t, "write")
    BY <1>1, EntersOutside DEF Modes
  <2> QED BY <1>1, <2>1 DEF Blockers
<1>2. ASSUME NEW t \in Threads, phase[t] = "conn", NEW u \in Blockers(t)
      PROVE  Blockers(u) = {}
  <2>1. u \in Threads /\ mutex[ProcOf[t]] = u
    BY <1>2 DEF Blockers, AtToken
  <2>2. mutex[ProcOf[u]] = u
    BY <2>1 DEF FlatInv, MutexHome, TypeOK
  <2>3. phase[u] # "conn" /\ stack[u] # << >>
    <3>1. Positioned(u) /\ MutexOwned(u) /\ phase[u] \in Phases
      BY <2>1 DEF FlatInv, LockInv, TypeOK
    <3>2. phase[u] = "run"
      BY <2>2, <3>1 DEF Positioned, MutexOwned, Phases
    <3>3. Len(stack[u]) = 1
      BY <2>2, <3>1, <3>2 DEF MutexOwned
    <3>4. ASSUME stack[u] = << >> PROVE FALSE
      BY <3>3, <3>4, SMT
    <3> QED BY <3>2, <3>4
  <2> QED BY <1>1, <2>1, <2>3
<1>3. ASSUME NEW t \in S, phase[t] = "conn" PROVE FALSE
  <2>1. PICK u \in S : u \in Blockers(t)
    OBVIOUS
  <2>2. Blockers(u) = {}
    BY <1>2, <1>3, <2>1
  <2> QED BY <2>1, <2>2
<1>4. PICK t \in S : TRUE
  OBVIOUS
<1>5. PICK u \in S : u \in Blockers(t)
  BY <1>4
<1>6. HoldsFlock(u, "read") \/ HoldsFlock(u, "write")
  BY <1>3, <1>5 DEF Blockers
<1>7. stack[u] # << >>
  BY <1>6 DEF HoldsFlock
<1> QED BY <1>1, <1>3, <1>7

\* No set of flat requests ever waits for each other, however many threads and
\* processes serve them.
THEOREM DeadlockFreedom == ASSUME FlatRequests PROVE Spec => []NoWaitCycle
<1>1. Init => FlatInv
  BY DEF Init, FlatInv, MutexHome, Positioned, Busy
<1>2. TypeOK /\ LockInv /\ FlatInv /\ [Next]_vars => FlatInv'
  BY FlatInvInductive
<1>3. TypeOK /\ LockInv /\ FlatInv => NoWaitCycle
  BY NoCycle
<1>4. QED
  BY <1>1, <1>2, <1>3, Typing, LockInvHolds, PTL DEF Spec
=============================================================================
