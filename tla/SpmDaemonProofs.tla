-------------------------- MODULE SpmDaemonProofs --------------------------
(***************************************************************************)
(* What holds of the daemon's front end for any number of connections,     *)
(* users and threads and any limits: the variables keep their types, the   *)
(* slots of a user are counted exactly, and nothing follows an answer.     *)
(***************************************************************************)
EXTENDS SpmDaemon, FiniteSetTheorems, TLAPS

USE LimitsAssumption, ConnsAssumption, ThreadsAssumption, LoadsAssumption, BoundAssumption

-----------------------------------------------------------------------------
\* Lines are appended to a socket, and nothing else is done to it.
LEMMA WriteType ==
  ASSUME TypeOK, NEW c \in Conns, NEW line \in {"progress", "answer"}, Write(c, line)
  PROVE  out' \in [Conns -> Seq({"progress", "answer"})]
<1>1. Append(out[c], line) \in Seq({"progress", "answer"})
  BY DEF TypeOK
<1> QED BY <1>1 DEF TypeOK, Write

\* The variables keep their types: a user's count stays within the limit, the windows of the rate
\* limiter too, and the map of channels and the threads' current users name what exists.
THEOREM Typing == Spec => []TypeOK
<1> USE DEF Expired, Kinds
<1>1. Init => TypeOK
  BY DEF Init, TypeOK, TaskStates
<1>2. TypeOK /\ [Next]_vars => TypeOK'
  <2> SUFFICES ASSUME TypeOK, [Next]_vars PROVE TypeOK'
    OBVIOUS
  <2> USE DEF clientVars, limitVars, progressVars, socketVars
  <2>1. ASSUME NEW c \in Conns, ClientStep(c) PROVE TypeOK'
    BY <2>1 DEF TypeOK, ClientStep, Connect, Send, ReadAnswer, ReadReset, ReadEndOfFile, SetClient
  <2>2. ASSUME NEW c \in Conns, NEW w \in Workers, Accept(c, w) \/ Resume(c, w) PROVE TypeOK'
    <3>1. CASE Accept(c, w)
      BY <3>1 DEF TypeOK, Accept, Goto, RunOn, TaskStates, InFlight, Threads
    <3>2. CASE Resume(c, w)
      BY <3>2 DEF TypeOK, Resume, Goto, RunOn, TaskStates, InFlight, Threads
    <3> QED BY <2>2, <3>1, <3>2
  <2>3. ASSUME NEW c \in Conns, NEW p \in Pool, StartJob(c, p) PROVE TypeOK'
    BY <2>3 DEF TypeOK, StartJob, Goto, RunOn, TaskStates, InFlight, Threads
  <2>4. ASSUME NEW c \in Conns, NEW from, Reject(c, from) PROVE TypeOK'
    BY <2>4, WriteType DEF TypeOK, Reject, Goto, RunOn, TaskStates
  <2>5. ASSUME NEW c \in Conns, CheckRate(c) PROVE TypeOK'
    <3> DEFINE window == windows[uid[c]]
    <3>1. window \in [age : 0..Expired, count : 0..RateMax]
      BY DEF TypeOK
    <3>2. ASSUME NEW next \in [age : 0..Expired, count : 0..RateMax], LetThrough(c, next)
          PROVE  TypeOK'
      <4>1. windows' \in [Uids -> [age : 0..Expired, count : 0..RateMax]]
        BY <3>2 DEF TypeOK, LetThrough
      <4>2. since' \in [Conns -> 0..Expired]
        BY <3>2 DEF TypeOK, LetThrough
      <4>3. task' \in [Conns -> TaskStates]
        BY <3>2 DEF TypeOK, LetThrough, Goto, TaskStates
      <4> QED BY <3>2, <4>1, <4>2, <4>3 DEF TypeOK, LetThrough
    <3>3. [age |-> 0, count |-> 1] \in [age : 0..Expired, count : 0..RateMax]
      OBVIOUS
    <3>4. window.count < RateMax
          => [window EXCEPT !.count = @ + 1] \in [age : 0..Expired, count : 0..RateMax]
      BY <3>1
    <3> HIDE DEF window
    <3> QED BY <2>4, <2>5, <3>2, <3>3, <3>4 DEF CheckRate, window
  <2>6. ASSUME NEW c \in Conns, CheckSlot(c) PROVE TypeOK'
    <3>1. CASE concurrent[uid[c]] < MaxConcurrent /\ TakeSlot(c)
      <4>1. concurrent' \in [Uids -> 0..MaxConcurrent]
        BY <3>1 DEF TypeOK, TakeSlot
      <4>2. task' \in [Conns -> TaskStates]
        BY <3>1 DEF TypeOK, TakeSlot, Goto, TaskStates, InFlight
      <4> QED BY <3>1, <4>1, <4>2 DEF TypeOK, TakeSlot
    <3> QED BY <2>4, <2>6, <3>1 DEF CheckSlot
  <2>7. ASSUME NEW c \in Conns, ReadRequest(c) PROVE TypeOK'
    BY <2>7, WriteType DEF TypeOK, ReadRequest, Goto, TaskStates, InFlight
  <2>8. ASSUME NEW c \in Conns, Register(c) PROVE TypeOK'
    BY <2>8 DEF TypeOK, Register, Goto, TaskStates, InFlight
  <2>9. ASSUME NEW c \in Conns, Suspend(c) \/ Refuse(c) \/ FinishJob(c) \/ List(c) PROVE TypeOK'
    BY <2>9 DEF TypeOK, Suspend, Refuse, FinishJob, List, Goto, RunOn, TaskStates, InFlight
  <2>10. ASSUME NEW c \in Conns, CloseChannel(c) PROVE TypeOK'
    BY <2>10 DEF TypeOK, CloseChannel, Goto, TaskStates, InFlight
  <2>11. ASSUME NEW c \in Conns, Answer(c) PROVE TypeOK'
    BY <2>11, WriteType DEF TypeOK, Answer, Goto, TaskStates, InFlight
  <2>12. ASSUME NEW c \in Conns, Release(c) PROVE TypeOK'
    <3>1. concurrent' \in [Uids -> 0..MaxConcurrent]
      BY <2>12 DEF TypeOK, Release
    <3>2. task' \in [Conns -> TaskStates] /\ at' \in [Conns -> Threads \cup {None}]
      BY <2>12 DEF TypeOK, Release, Goto, RunOn, TaskStates
    <3> QED BY <2>12, <3>1, <3>2 DEF TypeOK, Release
  <2>13. ASSUME NEW c \in Conns, RelayStep(c) PROVE TypeOK'
    <3>1. CASE RelayMessage(c)
      <4>1. out' \in [Conns -> Seq({"progress", "answer"})]
        BY <3>1, WriteType DEF RelayMessage
      <4>2. chan' \in [Conns -> Nat]
        BY <3>1 DEF TypeOK, RelayMessage
      <4> QED BY <3>1, <4>1, <4>2 DEF TypeOK, RelayMessage
    <3>2. CASE RelayEnd(c)
      BY <3>2 DEF TypeOK, RelayEnd
    <3> QED BY <2>13, <3>1, <3>2 DEF RelayStep
  <2>14. ASSUME NEW t \in Threads, Report(t) PROVE TypeOK'
    <3>1. chan' \in [Conns -> Nat]
      BY <2>14 DEF TypeOK, Report
    <3>2. messages' \in Nat
      BY <2>14 DEF TypeOK, Report
    <3> QED BY <2>14, <3>1, <3>2 DEF TypeOK, Report
  <2>15. CASE Tick
    <3>1. \A age \in 0..Expired : Older(age) \in 0..Expired
      BY DEF Older
    <3>2. ASSUME NEW u \in Uids
          PROVE  [windows[u] EXCEPT !.age = Older(@)] \in [age : 0..Expired, count : 0..RateMax]
      <4>1. windows[u] \in [age : 0..Expired, count : 0..RateMax]
        BY DEF TypeOK
      <4>2. Older(windows[u].age) \in 0..Expired
        BY <3>1, <4>1
      <4> QED BY <4>1, <4>2
    <3>3. windows' \in [Uids -> [age : 0..Expired, count : 0..RateMax]]
      BY <2>15, <3>2 DEF Tick
    <3>4. since' \in [Conns -> 0..Expired]
      BY <2>15, <3>1 DEF TypeOK, Tick
    <3> QED BY <2>15, <3>3, <3>4 DEF TypeOK, Tick
  <2>16. CASE Exit
    <3> DEFINE closed == [age |-> Expired, count |-> 0]
    <3>1. closed \in [age : 0..Expired, count : 0..RateMax]
      OBVIOUS
    <3>2. windows' = [u \in Uids |-> closed]
      BY <2>16 DEF Exit
    <3> HIDE DEF closed
    <3>3. windows' \in [Uids -> [age : 0..Expired, count : 0..RateMax]]
      BY <3>1, <3>2
    <3>4. since' \in [Conns -> 0..Expired] /\ concurrent' \in [Uids -> 0..MaxConcurrent]
      BY <2>16 DEF Exit
    <3>5. /\ task' \in [Conns -> TaskStates] /\ at' \in [Conns -> Threads \cup {None}]
          /\ relay' \in [Conns -> {"none", "running", "ended"}] /\ chan' \in [Conns -> Nat]
      BY <2>16 DEF Exit, TaskStates
    <3>6. progress' \in [Uids -> Conns \cup {None}] /\ current' \in [Threads -> Uids \cup {None}]
      BY <2>16 DEF Exit
    <3> QED BY <2>16, <3>3, <3>4, <3>5, <3>6 DEF TypeOK, Exit
  <2>17. CASE UNCHANGED vars
    BY <2>17 DEF TypeOK, vars
  <2> QED
    BY <2>1, <2>2, <2>3, <2>5, <2>6, <2>7, <2>8, <2>9, <2>10, <2>11, <2>12, <2>13, <2>14,
       <2>15, <2>16, <2>17 DEF Next, TaskStep
<1>3. QED
  BY <1>1, <1>2, PTL DEF Spec

-----------------------------------------------------------------------------
\* What a step does to the slots: nothing, take one, give one back, or end the process.
SlotsUntouched ==
  /\ concurrent' = concurrent /\ uid' = uid
  /\ \A c \in Conns : task'[c] \in InFlight <=> task[c] \in InFlight
SlotsAllGone ==
  /\ \A c \in Conns : task'[c] \notin InFlight
  /\ \A u \in Uids : concurrent'[u] = 0

LEMMA SlotSteps ==
  ASSUME TypeOK, [Next]_vars
  PROVE  \/ SlotsUntouched
         \/ \E c \in Conns : TakeSlot(c) \/ Release(c)
         \/ SlotsAllGone
<1> USE DEF TypeOK, SlotsUntouched, InFlight, Goto, clientVars, limitVars, progressVars, socketVars
<1>1. ASSUME NEW c \in Conns, ClientStep(c) PROVE SlotsUntouched
  BY <1>1 DEF ClientStep, Connect, Send, ReadAnswer, ReadReset, ReadEndOfFile, SetClient
<1>2. ASSUME NEW c \in Conns, NEW from \in {"accepted", "rated"}, Reject(c, from) PROVE SlotsUntouched
  BY <1>2 DEF Reject
<1>3. ASSUME NEW c \in Conns, CheckRate(c) PROVE SlotsUntouched
  BY <1>2, <1>3 DEF CheckRate, LetThrough
<1>4. ASSUME NEW c \in Conns, CheckSlot(c) PROVE SlotsUntouched \/ TakeSlot(c)
  BY <1>2, <1>4 DEF CheckSlot
<1>5. ASSUME NEW c \in Conns, NEW w \in Workers, Accept(c, w) \/ Resume(c, w) PROVE SlotsUntouched
  BY <1>5 DEF Accept, Resume
<1>6. ASSUME NEW c \in Conns, NEW p \in Pool, StartJob(c, p) PROVE SlotsUntouched
  BY <1>6 DEF StartJob
<1>7. ASSUME NEW c \in Conns, ReadRequest(c) \/ Register(c) \/ Suspend(c) PROVE SlotsUntouched
  BY <1>7 DEF ReadRequest, Register, Suspend
<1>8. ASSUME NEW c \in Conns, Refuse(c) \/ FinishJob(c) \/ List(c) PROVE SlotsUntouched
  BY <1>8 DEF Refuse, FinishJob, List
<1>9. ASSUME NEW c \in Conns, CloseChannel(c) \/ Answer(c) PROVE SlotsUntouched
  BY <1>9 DEF CloseChannel, Answer
<1>10. ASSUME NEW c \in Conns, RelayStep(c) PROVE SlotsUntouched
  BY <1>10 DEF RelayStep, RelayMessage, RelayEnd
<1>11. ASSUME NEW t \in Threads, Report(t) PROVE SlotsUntouched
  BY <1>11 DEF Report
<1>12. CASE Tick
  BY <1>12 DEF Tick
<1>13. CASE Exit
  BY <1>13 DEF Exit, SlotsAllGone
<1>14. CASE UNCHANGED vars
  BY <1>14 DEF vars
<1> QED
  BY <1>1, <1>3, <1>4, <1>5, <1>6, <1>7, <1>8, <1>9, <1>10, <1>11, <1>12, <1>13, <1>14
  DEF Next, TaskStep

\* However the requests of a user interleave, its count is the number of those that have been
\* admitted and not released: no slot is lost, and none is given back twice.
THEOREM SlotsCounted == Spec => []CountsInFlight
<1>1. Init => CountsInFlight
  <2> SUFFICES ASSUME Init, NEW u \in Uids PROVE concurrent[u] = Cardinality(Slots(u))
    BY DEF CountsInFlight
  <2>1. Slots(u) = {}
    BY DEF Init, Slots, InFlight
  <2> QED BY <2>1, FS_EmptySet DEF Init
<1>2. TypeOK /\ CountsInFlight /\ [Next]_vars => CountsInFlight'
  <2> SUFFICES ASSUME TypeOK, CountsInFlight, [Next]_vars, NEW u \in Uids
               PROVE  concurrent'[u] = Cardinality(Slots(u)')
    BY DEF CountsInFlight
  <2>1. IsFiniteSet(Slots(u)) /\ Cardinality(Slots(u)) = concurrent[u] /\ concurrent[u] \in Nat
    <3>1. Slots(u) \in SUBSET Conns
      BY DEF Slots
    <3> QED BY <3>1, FS_Subset DEF CountsInFlight, TypeOK
  <2>2. CASE SlotsUntouched
    <3>1. Slots(u)' = Slots(u)
      BY <2>2 DEF SlotsUntouched, Slots
    <3> QED BY <2>1, <2>2, <3>1 DEF SlotsUntouched
  <2>3. ASSUME NEW c \in Conns, TakeSlot(c) PROVE concurrent'[u] = Cardinality(Slots(u)')
    <3> USE DEF TakeSlot, Goto, Slots, InFlight, TypeOK, clientVars
    <3>1. CASE uid[c] = u
      <4>1. Slots(u)' = Slots(u) \cup {c} /\ c \notin Slots(u)
        BY <2>3, <3>1
      <4>2. concurrent'[u] = concurrent[u] + 1
        BY <2>3, <3>1
      <4>3. Cardinality(Slots(u) \cup {c}) = Cardinality(Slots(u)) + 1
        BY <2>1, <4>1, FS_AddElement
      <4> HIDE DEF Slots, TypeOK
      <4> QED BY <2>1, <4>1, <4>2, <4>3
    <3>2. CASE uid[c] # u
      <4>1. Slots(u)' = Slots(u)
        BY <2>3, <3>2
      <4>2. concurrent'[u] = concurrent[u]
        BY <2>3, <3>2
      <4> HIDE DEF Slots
      <4> QED BY <2>1, <4>1, <4>2
    <3> QED BY <3>1, <3>2
  <2>4. ASSUME NEW c \in Conns, Release(c) PROVE concurrent'[u] = Cardinality(Slots(u)')
    <3> USE DEF Release, Goto, Slots, InFlight, TypeOK, clientVars
    <3>1. CASE uid[c] = u
      <4>1. Slots(u)' = Slots(u) \ {c} /\ c \in Slots(u)
        BY <2>4, <3>1
      <4>2. concurrent'[u] = IF concurrent[u] = 0 THEN 0 ELSE concurrent[u] - 1
        BY <2>4, <3>1
      <4> HIDE DEF Slots, TypeOK
      <4>3. concurrent[u] # 0
        BY <2>1, <4>1, FS_EmptySet
      <4>4. Cardinality(Slots(u) \ {c}) = Cardinality(Slots(u)) - 1
        BY <2>1, <4>1, FS_RemoveElement
      <4> QED BY <2>1, <4>1, <4>2, <4>3, <4>4
    <3>2. CASE uid[c] # u
      <4>1. Slots(u)' = Slots(u)
        BY <2>4, <3>2
      <4>2. concurrent'[u] = concurrent[u]
        BY <2>4, <3>2
      <4> HIDE DEF Slots
      <4> QED BY <2>1, <4>1, <4>2
    <3> QED BY <3>1, <3>2
  <2>5. CASE SlotsAllGone
    <3>1. Slots(u)' = {}
      BY <2>5 DEF SlotsAllGone, Slots
    <3> QED BY <2>5, <3>1, FS_EmptySet DEF SlotsAllGone
  <2> QED BY <2>2, <2>3, <2>4, <2>5, SlotSteps
<1>3. QED
  BY <1>1, <1>2, Typing, PTL DEF Spec

-----------------------------------------------------------------------------
\* A connection that was answered is over: its task has nothing more to write and its relay thread
\* has ended, because the answer waits for the join or comes before there is a relay.
OverWhenAnswered ==
  up => \A c \in Conns :
          /\ task[c] \in {"new", "accepted", "rated", "admitted"} => relay[c] = "none"
          /\ Answered(c) => task[c] \in {"releasing", "done"} /\ relay[c] # "running"

\* A line written to a connection that has no answer yet, and what it leaves true.
LEMMA WriteUnanswered ==
  ASSUME TypeOK, AnswerIsLast, NEW c \in Conns, NEW line \in {"progress", "answer"},
         Write(c, line), ~Answered(c)
  PROVE  /\ AnswerIsLast'
         /\ \A d \in Conns : Answered(d)' <=> Answered(d) \/ (d = c /\ line = "answer")
<1>1. out' = [out EXCEPT ![c] = Append(@, line)] /\ out \in [Conns -> Seq({"progress", "answer"})]
  BY DEF Write, TypeOK
<1>2. /\ out'[c] = Append(out[c], line)
      /\ DOMAIN out'[c] = 1..(Len(out[c]) + 1) /\ Len(out'[c]) = Len(out[c]) + 1
      /\ DOMAIN out[c] = 1..Len(out[c]) /\ Len(out[c]) \in Nat
      /\ out'[c][Len(out[c]) + 1] = line
      /\ \A i \in 1..Len(out[c]) : out'[c][i] = out[c][i]
  BY <1>1
<1>3. \A d \in Conns : d # c => out'[d] = out[d]
  BY <1>1
<1>4. ASSUME NEW i \in DOMAIN out'[c], out'[c][i] = "answer" PROVE i = Len(out'[c]) /\ line = "answer"
  <2>1. CASE i \in 1..Len(out[c])
    BY <1>2, <1>4, <2>1 DEF Answered
  <2>2. CASE i = Len(out[c]) + 1
    BY <1>2, <1>4, <2>2
  <2>3. i \in 1..Len(out[c]) \/ i = Len(out[c]) + 1
    BY <1>2
  <2> QED BY <2>1, <2>2, <2>3
<1>5. ASSUME NEW d \in Conns PROVE Answered(d)' <=> Answered(d) \/ (d = c /\ line = "answer")
  <2>1. CASE d # c
    BY <1>3, <2>1 DEF Answered
  <2>2. CASE d = c /\ line = "answer"
    <3>1. Len(out[c]) + 1 \in DOMAIN out'[c] /\ out'[c][Len(out[c]) + 1] = "answer"
      BY <1>2, <2>2
    <3> QED BY <2>2, <3>1 DEF Answered
  <2>3. CASE d = c /\ line # "answer"
    BY <1>4, <2>3 DEF Answered
  <2> QED BY <2>1, <2>2, <2>3
<1>6. AnswerIsLast'
  BY <1>3, <1>4 DEF AnswerIsLast
<1> QED BY <1>5, <1>6

\* Sockets nobody writes to keep what holds of them.
LEMMA NoWrite ==
  ASSUME AnswerIsLast, out' = out
  PROVE  AnswerIsLast' /\ \A d \in Conns : Answered(d)' <=> Answered(d)
BY DEF AnswerIsLast, Answered

\* Whatever other requests of the user do to the map of channels, the answer of a connection is
\* its last line.
THEOREM AnswerEnds == Spec => []AnswerIsLast
<1>1. Init => OverWhenAnswered /\ AnswerIsLast
  BY DEF Init, OverWhenAnswered, AnswerIsLast, Answered
<1>2. TypeOK /\ OverWhenAnswered /\ AnswerIsLast /\ [Next]_vars => (OverWhenAnswered /\ AnswerIsLast)'
  <2> DEFINE Kept == (OverWhenAnswered /\ AnswerIsLast)'
  <2> SUFFICES ASSUME TypeOK, OverWhenAnswered, AnswerIsLast, [Next]_vars PROVE Kept
    OBVIOUS
  <2> USE DEF TypeOK, OverWhenAnswered, Goto, clientVars, limitVars, progressVars, socketVars
  <2> HIDE DEF TypeOK
  <2>1. ASSUME NEW c \in Conns, ClientStep(c) PROVE Kept
    BY <2>1, NoWrite DEF ClientStep, Connect, Send, ReadAnswer, ReadReset, ReadEndOfFile, SetClient
  <2>2. ASSUME NEW c \in Conns, NEW from \in {"accepted", "rated"}, Reject(c, from) PROVE Kept
    <3>1. ~Answered(c) /\ up /\ task' = [task EXCEPT ![c] = "done"] /\ relay' = relay
      BY <2>2 DEF Reject
    <3>2. Write(c, "answer")
      BY <2>2 DEF Reject
    <3>3. relay[c] = "none"
      BY <2>2 DEF Reject
    <3>4. AnswerIsLast' /\ \A d \in Conns : Answered(d)' <=> Answered(d) \/ d = c
      BY <3>1, <3>2, WriteUnanswered
    <3>5. \A d \in Conns : task'[d] = IF d = c THEN "done" ELSE task[d]
      BY <3>1 DEF TypeOK
    <3> QED BY <3>1, <3>3, <3>4, <3>5
  <2>3. ASSUME NEW c \in Conns, CheckRate(c) \/ CheckSlot(c) PROVE Kept
    <3>1. CASE /\ out' = out /\ relay' = relay /\ up' = up
               /\ task[c] \in {"accepted", "rated"}
               /\ task' = [task EXCEPT ![c] = "rated"] \/ task' = [task EXCEPT ![c] = "admitted"]
      BY <3>1, NoWrite DEF TypeOK
    <3> QED BY <2>2, <2>3, <3>1 DEF CheckRate, CheckSlot, LetThrough, TakeSlot
  <2>4. ASSUME NEW c \in Conns, NEW w \in Workers, Accept(c, w) \/ Resume(c, w) PROVE Kept
    <3>1. CASE Accept(c, w)
      BY <3>1, NoWrite DEF TypeOK, Accept
    <3>2. CASE Resume(c, w)
      BY <3>2, NoWrite DEF TypeOK, Resume
    <3> QED BY <2>4, <3>1, <3>2
  <2>5. ASSUME NEW c \in Conns, NEW p \in Pool, StartJob(c, p) PROVE Kept
    BY <2>5, NoWrite DEF TypeOK, StartJob
  <2>6. ASSUME NEW c \in Conns, ReadRequest(c) PROVE Kept
    <3>1. ~Answered(c) /\ up /\ up' = up /\ task[c] = "admitted" /\ relay[c] = "none"
      BY <2>6 DEF ReadRequest
    <3>2. CASE task' = [task EXCEPT ![c] = "releasing"] /\ out' = out /\ relay' = relay
      BY <3>1, <3>2, NoWrite DEF TypeOK
    <3>3. CASE task' = [task EXCEPT ![c] = "releasing"] /\ Write(c, "answer") /\ relay' = relay
      <4>1. AnswerIsLast' /\ \A d \in Conns : Answered(d)' <=> Answered(d) \/ d = c
        BY <3>1, <3>3, WriteUnanswered
      <4>2. \A d \in Conns : task'[d] = IF d = c THEN "releasing" ELSE task[d]
        BY <3>3 DEF TypeOK
      <4> QED BY <3>1, <3>3, <4>1, <4>2
    <3>4. CASE /\ task' = [task EXCEPT ![c] = "registering"] /\ out' = out
               /\ relay' = [relay EXCEPT ![c] = "running"]
      BY <3>1, <3>4, NoWrite DEF TypeOK
    <3> QED BY <2>6, <3>2, <3>3, <3>4 DEF ReadRequest
  <2>7. ASSUME NEW c \in Conns, Register(c) \/ Suspend(c) \/ Refuse(c) PROVE Kept
    <3>1. CASE Register(c)
      BY <3>1, NoWrite DEF TypeOK, Register
    <3>2. CASE Suspend(c)
      BY <3>2, NoWrite DEF TypeOK, Suspend
    <3>3. CASE Refuse(c)
      BY <3>3, NoWrite DEF TypeOK, Refuse
    <3> QED BY <2>7, <3>1, <3>2, <3>3
  <2>8. ASSUME NEW c \in Conns, FinishJob(c) \/ List(c) \/ CloseChannel(c) PROVE Kept
    <3>1. CASE FinishJob(c)
      BY <3>1, NoWrite DEF TypeOK, FinishJob
    <3>2. CASE List(c)
      BY <3>2, NoWrite DEF TypeOK, List
    <3>3. CASE CloseChannel(c)
      BY <3>3, NoWrite DEF TypeOK, CloseChannel
    <3> QED BY <2>8, <3>1, <3>2, <3>3
  <2>9. ASSUME NEW c \in Conns, Answer(c) PROVE Kept
    <3>1. /\ ~Answered(c) /\ up /\ task' = [task EXCEPT ![c] = "releasing"] /\ relay' = relay
          /\ relay[c] = "ended" /\ Write(c, "answer")
      BY <2>9 DEF Answer
    <3>2. AnswerIsLast' /\ \A d \in Conns : Answered(d)' <=> Answered(d) \/ d = c
      BY <3>1, WriteUnanswered
    <3>3. \A d \in Conns : task'[d] = IF d = c THEN "releasing" ELSE task[d]
      BY <3>1 DEF TypeOK
    <3> QED BY <3>1, <3>2, <3>3
  <2>10. ASSUME NEW c \in Conns, Release(c) PROVE Kept
    BY <2>10, NoWrite DEF TypeOK, Release
  <2>11. ASSUME NEW c \in Conns, RelayMessage(c) PROVE Kept
    <3>1. ~Answered(c) /\ Write(c, "progress") /\ up' = up /\ task' = task /\ relay' = relay
      BY <2>11 DEF RelayMessage
    <3> QED BY <3>1, WriteUnanswered
  <2>12. ASSUME NEW c \in Conns, RelayEnd(c) PROVE Kept
    BY <2>12, NoWrite DEF TypeOK, RelayEnd
  <2>13. ASSUME NEW t \in Threads, Report(t) PROVE Kept
    BY <2>13, NoWrite DEF Report
  <2>14. CASE Tick
    BY <2>14, NoWrite DEF Tick
  <2>15. CASE Exit
    BY <2>15, NoWrite DEF Exit
  <2>16. CASE UNCHANGED vars
    BY <2>16, NoWrite DEF vars
  <2> QED
    BY <2>1, <2>3, <2>4, <2>5, <2>6, <2>7, <2>8, <2>9, <2>10, <2>11, <2>12, <2>13, <2>14, <2>15, <2>16
    DEF Next, TaskStep, RelayStep
<1>3. QED
  BY <1>1, <1>2, Typing, PTL DEF Spec

-----------------------------------------------------------------------------
\* The requests of u that passed the rate check at most k ticks ago, and those that passed it more
\* than k ticks ago but within the length of a window.
Recent(u, k) == {c \in Conns : uid[c] = u /\ since[c] <= k}
Former(u, k) == {c \in Conns : uid[c] = u /\ k < since[c] /\ since[c] <= Window}

\* A window that is open counts those that passed since it was opened; at most one window before it
\* reaches into the interval.  When the last one is over nobody has passed in this tick.
WindowCounts(u) ==
  LET age == windows[u].age IN
  /\ age <= Window => /\ Cardinality(Recent(u, age)) <= windows[u].count
                      /\ Cardinality(Former(u, age)) <= RateMax
  /\ age > Window => /\ Cardinality(Recent(u, Window)) <= RateMax
                     /\ Recent(u, 0) = {}

\* The steps of the rate limiter, as far as user u sees them.
LEMMA RateSteps ==
  ASSUME TypeOK, [Next]_vars
  PROVE  \/ UNCHANGED <<uid, since, windows>>
         \/ \E c \in Conns : CheckRate(c) /\ ~Reject(c, "accepted")
         \/ Tick
         \/ Exit
<1> USE DEF TypeOK, clientVars, limitVars, progressVars, socketVars
<1> DEFINE Kept == UNCHANGED <<uid, since, windows>>
<1>1. ASSUME NEW c \in Conns, ClientStep(c) PROVE Kept
  BY <1>1 DEF ClientStep, Connect, Send, ReadAnswer, ReadReset, ReadEndOfFile, SetClient
<1>2. ASSUME NEW c \in Conns, NEW from \in {"accepted", "rated"}, Reject(c, from) PROVE Kept
  BY <1>2 DEF Reject
<1>3. ASSUME NEW c \in Conns, CheckSlot(c) PROVE Kept
  BY <1>2, <1>3 DEF CheckSlot, TakeSlot
<1>4. ASSUME NEW c \in Conns, NEW w \in Workers, Accept(c, w) \/ Resume(c, w) PROVE Kept
  BY <1>4 DEF Accept, Resume
<1>5. ASSUME NEW c \in Conns, NEW p \in Pool, StartJob(c, p) PROVE Kept
  BY <1>5 DEF StartJob
<1>6. ASSUME NEW c \in Conns, ReadRequest(c) \/ Register(c) \/ Suspend(c) \/ Refuse(c) PROVE Kept
  BY <1>6 DEF ReadRequest, Register, Suspend, Refuse
<1>7. ASSUME NEW c \in Conns, FinishJob(c) \/ List(c) \/ CloseChannel(c) \/ Answer(c) \/ Release(c)
      PROVE  Kept
  BY <1>7 DEF FinishJob, List, CloseChannel, Answer, Release
<1>8. ASSUME NEW c \in Conns, RelayStep(c) PROVE Kept
  BY <1>8 DEF RelayStep, RelayMessage, RelayEnd
<1>9. ASSUME NEW t \in Threads, Report(t) PROVE Kept
  BY <1>9 DEF Report
<1>10. CASE UNCHANGED vars
  BY <1>10 DEF vars
<1> QED
  BY <1>1, <1>2, <1>3, <1>4, <1>5, <1>6, <1>7, <1>8, <1>9, <1>10 DEF Next, TaskStep

\* Sets of connections are finite and their sizes ordered by inclusion.
LEMMA ConnSets ==
  ASSUME NEW S \in SUBSET Conns, NEW T \in SUBSET S
  PROVE  /\ IsFiniteSet(S) /\ Cardinality(S) \in Nat
         /\ Cardinality(T) \in Nat /\ Cardinality(T) <= Cardinality(S)
<1>1. IsFiniteSet(S)
  BY FS_Subset
<1> QED BY <1>1, FS_Subset, FS_CardinalityType

\* Opening a window, and being counted in one that is open.
LEMMA PassRate ==
  ASSUME TypeOK, NEW c \in Conns, NEW u \in Uids, WindowCounts(u),
         CheckRate(c), ~Reject(c, "accepted")
  PROVE  WindowCounts(u)'
<1>1. PICK next : LetThrough(c, next) /\ next = IF windows[uid[c]].age > Window
                                                THEN [age |-> 0, count |-> 1]
                                                ELSE [windows[uid[c]] EXCEPT !.count = @ + 1]
  BY DEF CheckRate, TypeOK
<1>2. /\ windows' = [windows EXCEPT ![uid[c]] = next] /\ since' = [since EXCEPT ![c] = 0] /\ uid' = uid
      /\ windows[u] \in [age : 0..Expired, count : 0..RateMax] /\ uid[c] \in Uids
      /\ since \in [Conns -> 0..Expired]
      /\ windows \in [Uids -> [age : 0..Expired, count : 0..RateMax]]
  BY <1>1 DEF LetThrough, TypeOK, clientVars
<1>3. CASE uid[c] # u
  <2>1. \A k : Recent(u, k)' = Recent(u, k) /\ Former(u, k)' = Former(u, k)
    BY <1>2, <1>3 DEF Recent, Former
  <2>2. windows'[u] = windows[u]
    BY <1>2, <1>3
  <2> QED BY <2>1, <2>2 DEF WindowCounts
<1>4. CASE uid[c] = u /\ windows[u].age > Window
  <2>1. windows'[u] = [age |-> 0, count |-> 1]
    BY <1>1, <1>2, <1>4
  <2>2. \A k : k = 0 => Recent(u, k)' = {c}
    BY <1>2, <1>4 DEF WindowCounts, Recent, Expired
  <2>3. \A k : k = 0 => Former(u, k)' \subseteq Recent(u, Window)
    BY <1>2, <1>4 DEF Former, Recent, Expired
  <2>4. Cardinality({c}) = 1
    BY FS_Singleton
  <2>5. Recent(u, Window) \in SUBSET Conns
    BY DEF Recent
  <2>6. \A k : k = 0 => Cardinality(Former(u, k)') <= RateMax
    BY <1>4, <2>3, <2>5, ConnSets DEF WindowCounts
  <2>7. \A k : k = 0 => Cardinality(Recent(u, k)') <= 1
    <3>1. ASSUME NEW k, k = 0 PROVE Cardinality(Recent(u, k)') = 1
      <4>1. Recent(u, k)' = {c}
        BY <2>2, <3>1
      <4> QED BY <2>4, <4>1
    <3> QED BY <3>1
  <2>8. windows'[u].age = 0 /\ windows'[u].count = 1 /\ 0 <= Window /\ ~(0 > Window)
    BY <2>1
  <2> QED BY <2>6, <2>7, <2>8 DEF WindowCounts
<1>5. CASE uid[c] = u /\ windows[u].age <= Window
  <2> DEFINE age == windows[u].age
  <2>1. windows'[u].age = age /\ windows'[u].count = windows[u].count + 1
    BY <1>1, <1>2, <1>5
  <2>2. \A k : k = age => Recent(u, k)' = Recent(u, k) \cup {c}
    BY <1>2, <1>5 DEF Recent
  <2>3. \A k : k = age => Former(u, k)' \subseteq Former(u, k)
    BY <1>2, <1>5 DEF Former
  <2>4. Recent(u, age) \in SUBSET Conns /\ Former(u, age) \in SUBSET Conns
    BY DEF Recent, Former
  <2>5. /\ IsFiniteSet(Recent(u, age)) /\ Cardinality(Recent(u, age)) \in Nat
        /\ Cardinality(Recent(u, age)) <= windows[u].count
    BY <1>5, <2>4, ConnSets DEF WindowCounts
  <2>6. Cardinality(Recent(u, age) \cup {c}) <= windows[u].count + 1
    <3>1. Cardinality(Recent(u, age) \cup {c}) \in {Cardinality(Recent(u, age)), Cardinality(Recent(u, age)) + 1}
      BY <2>5, FS_AddElement
    <3>2. Cardinality(Recent(u, age) \cup {c}) \in Nat
      BY <2>5, FS_AddElement, FS_CardinalityType
    <3> QED BY <1>2, <2>5, <3>1, <3>2
  <2>7. \A k : k = age => Cardinality(Former(u, k)') <= RateMax
    BY <1>5, <2>3, <2>4, ConnSets DEF WindowCounts
  <2>8. \A k : k = age => Cardinality(Recent(u, k)') <= windows[u].count + 1
    BY <2>2, <2>6
  <2>9. windows'[u].age = age /\ age <= Window /\ ~(age > Window)
    BY <1>2, <1>5, <2>1 DEF Expired
  <2> QED BY <2>1, <2>7, <2>8, <2>9 DEF WindowCounts
<1> QED BY <1>2, <1>3, <1>4, <1>5 DEF Expired

\* A tick makes the window and every request in it one tick older.
LEMMA TickRate ==
  ASSUME TypeOK, NEW u \in Uids, WindowCounts(u), Tick
  PROVE  WindowCounts(u)'
<1> DEFINE age == windows[u].age
<1>1. /\ since \in [Conns -> 0..Expired] /\ age \in 0..Expired /\ windows[u].count \in 0..RateMax
      /\ since' = [c \in Conns |-> Older(since[c])] /\ uid' = uid
      /\ windows'[u].age = Older(age) /\ windows'[u].count = windows[u].count
  BY DEF TypeOK, Tick, clientVars
<1>2. CASE age < Window
  <2>1. Older(age) = age + 1
    BY <1>1, <1>2 DEF Older, Expired
  <2>2. \A k : k = age + 1 => Recent(u, k)' = Recent(u, age) /\ Former(u, k)' \subseteq Former(u, age)
    BY <1>1, <1>2 DEF Recent, Former, Older, Expired
  <2>3. Former(u, age) \in SUBSET Conns
    BY DEF Former
  <2>4. \A k : k = age + 1 => Cardinality(Former(u, k)') <= RateMax
    BY <1>1, <1>2, <2>2, <2>3, ConnSets DEF WindowCounts
  <2> QED BY <1>1, <1>2, <2>1, <2>2, <2>4 DEF WindowCounts
<1>3. CASE age >= Window
  <2>1. Older(age) = Expired
    BY <1>1, <1>3 DEF Older, Expired
  <2>2. \A k : k = 0 => Recent(u, k)' = {}
    BY <1>1 DEF Recent, Older, Expired
  <2>3. \A k : k = Window => Recent(u, k)' \subseteq Recent(u, k)
    BY <1>1 DEF Recent, Older, Expired
  <2>4. Cardinality(Recent(u, Window)) <= RateMax /\ Recent(u, Window) \in SUBSET Conns
    <3>1. CASE age = Window
      BY <1>1, <3>1, ConnSets DEF WindowCounts, Recent
    <3>2. CASE age > Window
      BY <3>2 DEF WindowCounts, Recent
    <3> QED BY <1>1, <1>3, <3>1, <3>2 DEF Expired
  <2>5. \A k : k = Window => Cardinality(Recent(u, k)') <= RateMax
    BY <2>3, <2>4, ConnSets
  <2> QED BY <1>1, <2>1, <2>2, <2>5 DEF WindowCounts, Expired
<1> QED BY <1>1, <1>2, <1>3 DEF Expired

\* In no interval of the length of a window do more than two windows' worth of a user's requests
\* pass the rate check: the last window and the one before it are the only ones that reach into it.
THEOREM RateBounded == Spec => []RateBound
<1> DEFINE Counts == \A u \in Uids : WindowCounts(u)
<1> DEFINE Fresh == \A u \in Uids : windows[u].age = Expired /\ \A c \in Conns : since[c] = Expired
<1>1. Fresh => Counts
  <2> SUFFICES ASSUME Fresh, NEW u \in Uids PROVE WindowCounts(u)
    OBVIOUS
  <2>1. Recent(u, Window) = {} /\ Recent(u, 0) = {}
    BY DEF Recent, Expired
  <2> QED BY <2>1, FS_EmptySet DEF WindowCounts, Expired
<1>2. (Init => Counts) /\ (Exit => Counts')
  <2>1. Init => Fresh
    BY DEF Init
  <2>2. Exit => Fresh'
    BY DEF Exit
  <2>3. Fresh' => Counts'
    BY <1>1, PTL
  <2> QED BY <1>1, <2>1, <2>2, <2>3
<1>3. TypeOK /\ Counts /\ [Next]_vars => Counts'
  <2> SUFFICES ASSUME TypeOK, Counts, [Next]_vars, NEW u \in Uids PROVE WindowCounts(u)'
    OBVIOUS
  <2>1. CASE UNCHANGED <<uid, since, windows>>
    BY <2>1 DEF WindowCounts, Recent, Former
  <2>2. CASE Exit
    BY <1>2, <2>2
  <2> QED BY <2>1, <2>2, RateSteps, PassRate, TickRate
<1>4. TypeOK /\ Counts => RateBound
  <2> SUFFICES ASSUME TypeOK, Counts, NEW u \in Uids
               PROVE  Cardinality(Recent(u, Window)) <= 2 * RateMax
    BY DEF RateBound, Recent
  <2> DEFINE age == windows[u].age
  <2>1. age \in 0..Expired /\ windows[u].count \in 0..RateMax /\ since \in [Conns -> 0..Expired]
    BY DEF TypeOK
  <2>2. CASE age > Window
    <3>1. Cardinality(Recent(u, Window)) \in Nat
      BY ConnSets DEF Recent
    <3> QED BY <2>2, <3>1 DEF WindowCounts
  <2>3. CASE age <= Window
    <3>1. Recent(u, Window) = Recent(u, age) \cup Former(u, age)
      BY <2>1, <2>3 DEF Recent, Former
    <3>2. /\ IsFiniteSet(Recent(u, age)) /\ Cardinality(Recent(u, age)) \in Nat
          /\ IsFiniteSet(Former(u, age)) /\ Cardinality(Former(u, age)) \in Nat
      BY ConnSets DEF Recent, Former
    <3>3. Recent(u, age) \cap Former(u, age) = {}
      BY <2>1 DEF Recent, Former
    <3>4. Cardinality(Recent(u, age) \cup Former(u, age))
            = Cardinality(Recent(u, age)) + Cardinality(Former(u, age))
      <4> DEFINE S == Recent(u, age)
      <4> DEFINE T == Former(u, age)
      <4>1. Cardinality(S \cup T) = Cardinality(S) + Cardinality(T) - Cardinality(S \cap T)
        BY <3>2, FS_Union
      <4>2. Cardinality(S \cap T) = 0
        BY <3>3, FS_EmptySet
      <4> HIDE DEF S, T
      <4>3. Cardinality(S) \in Nat /\ Cardinality(T) \in Nat
        BY <3>2 DEF S, T
      <4>4. Cardinality(S \cup T) = Cardinality(S) + Cardinality(T)
        BY <4>1, <4>2, <4>3
      <4> QED BY <4>4 DEF S, T
    <3> QED BY <2>1, <2>3, <3>1, <3>2, <3>4 DEF WindowCounts
  <2> QED BY <2>1, <2>2, <2>3 DEF Expired
<1>5. QED
  BY <1>2, <1>3, <1>4, Typing, PTL DEF Spec
=============================================================================
