----------------------------- MODULE SpmDaemon -----------------------------
(***************************************************************************)
(* The front end of spmd (src/src/daemon/mod.rs), the progress channels    *)
(* (src/src/output.rs) and the client that waits for the answer            *)
(* (src/src/cli/client.rs).                                                *)
(*                                                                         *)
(* Every connection is a task of the async runtime.  It runs on one of its *)
(* worker threads up to the await of the operation it asks for, the        *)
(* operation runs on a thread of the blocking pool, and the task resumes   *)
(* on any worker.  What the operation reports goes to the channel that the *)
(* map PROGRESS_TX holds for the user id CURRENT_UID of the thread it runs *)
(* on; a relay thread per request writes it to the socket.                 *)
(*                                                                         *)
(* An operation is what its handler does to this state: "install" stands   *)
(* for those that run on the pool, "update" for the one that also sets     *)
(* CURRENT_UID there, "list" for the one that runs on the worker, and      *)
(* "invalid" for a line that is no request of its sender.                  *)
(***************************************************************************)
EXTENDS Naturals, Sequences, FiniteSets

CONSTANTS Conns,          \* connections, each opened at most once
          Uids,           \* users
          Workers,        \* threads of the async runtime
          Pool,           \* threads of the blocking pool
          Loads,          \* what the connections may be for: the user and the request of each,
                          \* or None as the request of one that is not opened
          MaxConcurrent,  \* MAX_CONCURRENT_PER_USER
          RateMax,        \* RATE_LIMIT_MAX
          Window,         \* RATE_LIMIT_WINDOW, in ticks
          MaxMessages,    \* bound: progress messages in a behaviour
          MayExit,        \* whether the daemon may receive SIGINT or SIGTERM
          None            \* nobody, no thread

ASSUME LimitsAssumption == MaxConcurrent \in Nat \ {0} /\ RateMax \in Nat \ {0} /\ Window \in Nat
ASSUME ConnsAssumption  == IsFiniteSet(Conns)
ASSUME ThreadsAssumption == None \notin Conns \cup Uids \cup Workers \cup Pool
                            /\ Workers \cap Pool = {}
Kinds == {"install", "update", "list", "invalid"}
ASSUME LoadsAssumption  == Loads \subseteq [Conns -> Uids \X (Kinds \cup {None})]
ASSUME BoundAssumption  == MaxMessages \in Nat /\ MayExit \in BOOLEAN

VARIABLES up,          \* the daemon process runs
          client,      \* client[c]: what the client of c has done
          uid, kind,   \* the user and the request of c
          task,        \* task[c]: where handle_connection is
          at,          \* at[c]: the thread that executes for c, or None
          relay,       \* relay[c]: the relay thread of c
          chan,        \* chan[c]: messages in the progress channel of c
          out,         \* out[c]: the lines written to the socket of c
          windows,     \* windows[u]: age (in ticks) and count of u's rate window
          since,       \* since[c]: ticks since the rate limit let c through
          concurrent,  \* concurrent[u]: the count of u's requests
          progress,    \* PROGRESS_TX: the connection whose channel u's messages go to
          current,     \* CURRENT_UID of each thread
          messages     \* progress messages so far

clientVars   == <<client, uid, kind>>
limitVars    == <<windows, since, concurrent>>
progressVars == <<progress, current, messages>>
socketVars   == <<relay, chan, out>>
vars == <<up, clientVars, task, at, socketVars, limitVars, progressVars>>

Threads == Workers \cup Pool
Expired == Window + 1                      \* the age of every older window
Idle(t) == \A c \in Conns : at[c] # t

\* Tasks that hold a slot of their user, and those that hold a sender of their channel.
InFlight  == {"admitted", "registering", "handling", "queued", "running", "finished",
              "closing", "joining", "releasing"}
OwnSender == {"registering", "handling", "queued", "running", "finished", "closing"}

\* No description of the server's end of c is left.
Closed(c) == ~up \/ (task[c] \in {"releasing", "done"} /\ relay[c] # "running")
Answered(c) == \E i \in DOMAIN out[c] : out[c][i] = "answer"

Init ==
  /\ up = TRUE
  /\ client = [c \in Conns |-> "off"]
  /\ \E load \in Loads : /\ uid = [c \in Conns |-> load[c][1]]
                         /\ kind = [c \in Conns |-> load[c][2]]
  /\ task = [c \in Conns |-> "new"]
  /\ at = [c \in Conns |-> None]
  /\ relay = [c \in Conns |-> "none"]
  /\ chan = [c \in Conns |-> 0]
  /\ out = [c \in Conns |-> << >>]
  /\ windows = [u \in Uids |-> [age |-> Expired, count |-> 0]]
  /\ since = [c \in Conns |-> Expired]
  /\ concurrent = [u \in Uids |-> 0]
  /\ progress = [u \in Uids |-> None]
  /\ current = [t \in Threads |-> None]
  /\ messages = 0

(***************************************************************************)
(* The client: connect, write the request, read until the answer.          *)
(***************************************************************************)
SetClient(c, from, to) ==
  /\ client[c] = from
  /\ client' = [client EXCEPT ![c] = to]
  /\ UNCHANGED <<up, uid, kind, task, at, socketVars, limitVars, progressVars>>

Connect(c) == up /\ kind[c] # None /\ SetClient(c, "off", "connected")

\* The write fails when the daemon has closed its end already.
Send(c) == \/ ~Closed(c) /\ SetClient(c, "connected", "sent")
           \/ Closed(c) /\ SetClient(c, "connected", "returned")

ReadAnswer(c) == /\ Answered(c)
                 /\ \/ SetClient(c, "sent", "returned")
                    \/ SetClient(c, "received", "returned")

\* A socket closed with the request unread resets the connection: read_line fails.
ReadReset(c) == Closed(c) /\ ~Answered(c) /\ SetClient(c, "sent", "returned")

\* At end of file read_line returns an empty line, which the loop skips, for ever.
ReadEndOfFile(c) == Closed(c) /\ ~Answered(c) /\ SetClient(c, "received", "spinning")

(***************************************************************************)
(* Admission                                                               *)
(***************************************************************************)
Goto(c, from, to) == up /\ task[c] = from /\ task' = [task EXCEPT ![c] = to]
Write(c, line) == out' = [out EXCEPT ![c] = Append(@, line)]
RunOn(c, t) == at' = [at EXCEPT ![c] = t]

Accept(c, w) ==
  /\ client[c] # "off" /\ Idle(w)
  /\ Goto(c, "new", "accepted") /\ RunOn(c, w)
  /\ UNCHANGED <<up, clientVars, socketVars, limitVars, progressVars>>

\* An error response and the end of the connection: no slot was taken.
Reject(c, from) ==
  /\ Goto(c, from, "done") /\ RunOn(c, None) /\ Write(c, "answer")
  /\ UNCHANGED <<up, clientVars, relay, chan, limitVars, progressVars>>

LetThrough(c, window) ==
  /\ Goto(c, "accepted", "rated")
  /\ windows' = [windows EXCEPT ![uid[c]] = window]
  /\ since' = [since EXCEPT ![c] = 0]
  /\ UNCHANGED <<up, clientVars, at, socketVars, concurrent, progressVars>>

\* Mutation: the window is changed on a copy of the map's entry.
CheckRateOnCopy(c) ==
  LET window == windows[uid[c]] IN
  /\ task[c] = "accepted"
  /\ \/ window.age > Window /\ LetThrough(c, window)
     \/ window.age <= Window /\ window.count >= RateMax /\ Reject(c, "accepted")
     \/ window.age <= Window /\ window.count < RateMax /\ LetThrough(c, window)

\* try_acquire, first half: the window of the user, opened again when it is over.
CheckRate(c) ==
  LET window == windows[uid[c]] IN
  /\ task[c] = "accepted"
  /\ \/ window.age > Window /\ LetThrough(c, [age |-> 0, count |-> 1])
     \/ window.age <= Window /\ window.count >= RateMax /\ Reject(c, "accepted")
     \/ window.age <= Window /\ window.count < RateMax
        /\ LetThrough(c, [window EXCEPT !.count = @ + 1])

TakeSlot(c) ==
  /\ Goto(c, "rated", "admitted")
  /\ concurrent' = [concurrent EXCEPT ![uid[c]] = @ + 1]
  /\ UNCHANGED <<up, clientVars, at, socketVars, windows, since, progressVars>>

\* Mutation: one request more than the limit is let in.
CheckSlotOffByOne(c) ==
  /\ task[c] = "rated"
  /\ \/ concurrent[uid[c]] > MaxConcurrent /\ Reject(c, "rated")
     \/ concurrent[uid[c]] <= MaxConcurrent /\ TakeSlot(c)

\* try_acquire, second half: one of the user's slots.
CheckSlot(c) ==
  /\ task[c] = "rated"
  /\ \/ concurrent[uid[c]] >= MaxConcurrent /\ Reject(c, "rated")
     \/ concurrent[uid[c]] < MaxConcurrent /\ TakeSlot(c)

(***************************************************************************)
(* The request: handle_inner                                               *)
(***************************************************************************)
\* Mutation: a line that is no request is dropped without an error response.
ReadRequestSilently(c) ==
  \/ /\ client[c] # "sent" /\ Goto(c, "admitted", "releasing")
     /\ UNCHANGED <<up, clientVars, at, socketVars, limitVars, progressVars>>
  \/ /\ client[c] = "sent" /\ kind[c] = "invalid" /\ Goto(c, "admitted", "releasing")
     /\ client' = [client EXCEPT ![c] = "received"]
     /\ UNCHANGED <<up, uid, kind, at, socketVars, limitVars, progressVars>>
  \/ /\ client[c] = "sent" /\ kind[c] # "invalid" /\ Goto(c, "admitted", "registering")
     /\ client' = [client EXCEPT ![c] = "received"]
     /\ relay' = [relay EXCEPT ![c] = "running"]
     /\ UNCHANGED <<up, uid, kind, at, chan, out, limitVars, progressVars>>

\* The socket does not block: a request that has not arrived yet is an error without a response.
\* One that has arrived and is valid gets a channel and a relay thread.
ReadRequest(c) ==
  \/ /\ client[c] # "sent" /\ Goto(c, "admitted", "releasing")
     /\ UNCHANGED <<up, clientVars, at, socketVars, limitVars, progressVars>>
  \/ /\ client[c] = "sent" /\ kind[c] = "invalid" /\ Goto(c, "admitted", "releasing")
     /\ Write(c, "answer")
     /\ client' = [client EXCEPT ![c] = "received"]
     /\ UNCHANGED <<up, uid, kind, at, relay, chan, limitVars, progressVars>>
  \/ /\ client[c] = "sent" /\ kind[c] # "invalid" /\ Goto(c, "admitted", "registering")
     /\ client' = [client EXCEPT ![c] = "received"]
     /\ relay' = [relay EXCEPT ![c] = "running"]
     /\ UNCHANGED <<up, uid, kind, at, chan, out, limitVars, progressVars>>

\* set_progress_tx replaces the channel of another request of the user; set_current_uid.
Register(c) ==
  /\ Goto(c, "registering", "handling")
  /\ progress' = [progress EXCEPT ![uid[c]] = c]
  /\ current' = [current EXCEPT ![at[c]] = uid[c]]
  /\ UNCHANGED <<up, clientVars, at, socketVars, limitVars, messages>>

\* t executes code that reports progress: a handler on its worker (the warnings of --replace),
\* an operation on the pool, or the periodic update of the repositories on an idle worker.
Reporting(t) ==
  \/ \E c \in Conns : at[c] = t /\ (task[c] = "running" \/ (task[c] = "handling" /\ kind[c] = "install"))
  \/ t \in Workers /\ Idle(t)

\* send_msg: to the channel of the user that t last worked for, if there is one.
Report(t) ==
  LET u == current[t] IN
  /\ up /\ Reporting(t) /\ messages < MaxMessages
  /\ u # None /\ progress[u] # None
  /\ chan' = [chan EXCEPT ![progress[u]] = @ + 1]
  /\ messages' = messages + 1
  /\ UNCHANGED <<up, clientVars, task, at, relay, out, limitVars, progress, current>>

\* The handler leaves its worker at spawn_blocking(..).await.
Suspend(c) ==
  /\ kind[c] \in {"install", "update"}
  /\ Goto(c, "handling", "queued") /\ RunOn(c, None)
  /\ UNCHANGED <<up, clientVars, socketVars, limitVars, progressVars>>

\* The handler refuses (missing field, file conflict, not root) before any await.
Refuse(c) ==
  /\ kind[c] = "install"
  /\ Goto(c, "handling", "closing")
  /\ UNCHANGED <<up, clientVars, at, socketVars, limitVars, progressVars>>

\* The closure of spawn_blocking starts; handle_update sets the user of its thread, never cleared.
StartJob(c, p) ==
  /\ Idle(p) /\ Goto(c, "queued", "running") /\ RunOn(c, p)
  /\ current' = IF kind[c] = "update" THEN [current EXCEPT ![p] = uid[c]] ELSE current
  /\ UNCHANGED <<up, clientVars, socketVars, limitVars, progress, messages>>

FinishJob(c) ==
  /\ Goto(c, "running", "finished") /\ RunOn(c, None)
  /\ UNCHANGED <<up, clientVars, socketVars, limitVars, progressVars>>

Resume(c, w) ==
  /\ Idle(w) /\ Goto(c, "finished", "closing") /\ RunOn(c, w)
  /\ UNCHANGED <<up, clientVars, socketVars, limitVars, progressVars>>

\* handle_list runs on the worker; when it fails, the ? leaves handle_inner at once: the relay
\* thread is detached and the map keeps a sender of its channel.
List(c) ==
  /\ kind[c] = "list"
  /\ Goto(c, "handling", "closing") \/ Goto(c, "handling", "releasing")
  /\ UNCHANGED <<up, clientVars, at, socketVars, limitVars, progressVars>>

\* Mutation: the map keeps its sender until the relay thread has been joined.
CloseChannelLate(c) ==
  /\ Goto(c, "closing", "joining")
  /\ current' = [current EXCEPT ![at[c]] = None]
  /\ UNCHANGED <<up, clientVars, at, socketVars, limitVars, progress, messages>>

\* drop(progress_tx), clear_progress_tx (whosever channel it is), clear_current_uid.
CloseChannel(c) ==
  /\ Goto(c, "closing", "joining")
  /\ progress' = [progress EXCEPT ![uid[c]] = None]
  /\ current' = [current EXCEPT ![at[c]] = None]
  /\ UNCHANGED <<up, clientVars, at, socketVars, limitVars, messages>>

\* Mutation: the answer does not wait for the relay thread.
AnswerUnjoined(c) ==
  /\ Goto(c, "joining", "releasing")
  /\ Write(c, "answer")
  /\ UNCHANGED <<up, clientVars, at, relay, chan, limitVars, progressVars>>

\* relay.join(), then the response.
Answer(c) ==
  /\ relay[c] = "ended"
  /\ Goto(c, "joining", "releasing")
  /\ Write(c, "answer")
  /\ UNCHANGED <<up, clientVars, at, relay, chan, limitVars, progressVars>>

\* Mutation: a request that ends without a response keeps its slot.
ReleaseAnswered(c) ==
  /\ Goto(c, "releasing", "done") /\ RunOn(c, None)
  /\ concurrent' = IF Answered(c) THEN [concurrent EXCEPT ![uid[c]] = IF @ = 0 THEN 0 ELSE @ - 1]
                                  ELSE concurrent
  /\ UNCHANGED <<up, clientVars, socketVars, windows, since, progressVars>>

\* release, on every way out of handle_inner.
Release(c) ==
  /\ Goto(c, "releasing", "done") /\ RunOn(c, None)
  /\ concurrent' = [concurrent EXCEPT ![uid[c]] = IF @ = 0 THEN 0 ELSE @ - 1]
  /\ UNCHANGED <<up, clientVars, socketVars, windows, since, progressVars>>

(***************************************************************************)
(* The relay thread, time, and the end of the process                      *)
(***************************************************************************)
RelayMessage(c) ==
  /\ up /\ relay[c] = "running" /\ chan[c] > 0
  /\ chan' = [chan EXCEPT ![c] = @ - 1]
  /\ Write(c, "progress")
  /\ UNCHANGED <<up, clientVars, task, at, relay, limitVars, progressVars>>

\* recv fails: the channel is empty and its last sender is gone.
RelayEnd(c) ==
  /\ up /\ relay[c] = "running" /\ chan[c] = 0
  /\ task[c] \notin OwnSender /\ \A u \in Uids : progress[u] # c
  /\ relay' = [relay EXCEPT ![c] = "ended"]
  /\ UNCHANGED <<up, clientVars, task, at, chan, out, limitVars, progressVars>>

Older(age) == IF age < Expired THEN age + 1 ELSE age

Tick ==
  /\ up
  /\ windows' = [u \in Uids |-> [windows[u] EXCEPT !.age = Older(@)]]
  /\ since' = [c \in Conns |-> Older(since[c])]
  /\ UNCHANGED <<up, clientVars, task, at, socketVars, concurrent, progressVars>>

\* signal: the process exits, whatever is in flight; its memory and its sockets are gone.
Exit ==
  /\ MayExit /\ up /\ up' = FALSE
  /\ task' = [c \in Conns |-> "new"]
  /\ at' = [c \in Conns |-> None]
  /\ relay' = [c \in Conns |-> "none"]
  /\ chan' = [c \in Conns |-> 0]
  /\ windows' = [u \in Uids |-> [age |-> Expired, count |-> 0]]
  /\ since' = [c \in Conns |-> Expired]
  /\ concurrent' = [u \in Uids |-> 0]
  /\ progress' = [u \in Uids |-> None]
  /\ current' = [t \in Threads |-> None]
  /\ UNCHANGED <<clientVars, out, messages>>

ClientStep(c) == Connect(c) \/ Send(c) \/ ReadAnswer(c) \/ ReadReset(c) \/ ReadEndOfFile(c)
RelayStep(c)  == RelayMessage(c) \/ RelayEnd(c)
TaskStep(c) ==
  \/ \E w \in Workers : Accept(c, w) \/ Resume(c, w)
  \/ \E p \in Pool : StartJob(c, p)
  \/ CheckRate(c) \/ CheckSlot(c) \/ ReadRequest(c) \/ Register(c) \/ Suspend(c) \/ Refuse(c)
  \/ FinishJob(c) \/ List(c) \/ CloseChannel(c) \/ Answer(c) \/ Release(c)

Next == \/ \E c \in Conns : ClientStep(c) \/ TaskStep(c) \/ RelayStep(c)
        \/ \E t \in Threads : Report(t)
        \/ Tick
        \/ Exit

Spec == Init /\ [][Next]_vars

\* The runtime polls every task that can run, operations return (SpmLocks), the scheduler runs
\* every relay thread, and a client that has connected writes its request and reads.  The steps
\* of a connection are finitely many, so it is enough that one that stays possible is taken.
Served(c) == TaskStep(c) \/ RelayStep(c) \/ Send(c) \/ ReadAnswer(c) \/ ReadReset(c) \/ ReadEndOfFile(c)
FairSpec  == Spec /\ \A c \in Conns : WF_vars(Served(c))

(***************************************************************************)
(* Properties                                                              *)
(***************************************************************************)
TaskStates == InFlight \cup {"new", "accepted", "rated", "done"}

\* Type invariant: in particular a user's count stays within MAX_CONCURRENT_PER_USER.
TypeOK ==
  /\ up \in BOOLEAN
  /\ client \in [Conns -> {"off", "connected", "sent", "received", "returned", "spinning"}]
  /\ uid \in [Conns -> Uids] /\ kind \in [Conns -> Kinds \cup {None}]
  /\ task \in [Conns -> TaskStates]
  /\ at \in [Conns -> Threads \cup {None}]
  /\ relay \in [Conns -> {"none", "running", "ended"}]
  /\ chan \in [Conns -> Nat]
  /\ out \in [Conns -> Seq({"progress", "answer"})]
  /\ windows \in [Uids -> [age : 0..Expired, count : 0..RateMax]]
  /\ since \in [Conns -> 0..Expired]
  /\ concurrent \in [Uids -> 0..MaxConcurrent]
  /\ progress \in [Uids -> Conns \cup {None}]
  /\ current \in [Threads -> Uids \cup {None}]
  /\ messages \in Nat

Slots(u) == {c \in Conns : uid[c] = u /\ task[c] \in InFlight}

\* The count of a user is the number of its requests between try_acquire and release: every way
\* out of a request gives its slot back, once (handle_connection, release).
CountsInFlight == \A u \in Uids : concurrent[u] = Cardinality(Slots(u))

\* What the fixed window of the rate limit amounts to: in any interval of the window's length at
\* most two windows' worth of a user's requests pass it, and not RATE_LIMIT_MAX.
RateBound ==
  \A u \in Uids : Cardinality({c \in Conns : uid[c] = u /\ since[c] <= Window}) <= 2 * RateMax

\* The answer is the last line of a connection and there is one at most: the client stops at the
\* first line with a status, so a progress line after it is lost and a second answer unread.
AnswerIsLast == \A c \in Conns : \A i \in DOMAIN out[c] : out[c][i] = "answer" => i = Len(out[c])

\* handle_connection ends: joining the relay thread cannot wait for ever for a sender that
\* another request of the user left in the map, and the slot is released.  A task that has ended
\* does not start again, so that every one ends is that again and again none is under way.
TasksEnd == []<>(\A c \in Conns : task[c] \in {"new", "done"})

\* While the daemon lives, a client that has sent a request other than a list gets an answer or
\* an error and returns (send_request_raw): again and again none is waiting.
Waiting(c) == client[c] \in {"sent", "received", "spinning"}
ClientsReturnUnlessListing == []<>(~up \/ \A c \in Conns : Waiting(c) => kind[c] = "list")
=============================================================================
