-------------------------- MODULE SpmRequestsProofs --------------------------
(***************************************************************************)
(* The properties of SpmRequests for any clients, commands, users and      *)
(* versions.  JobsInv says of a request that replaces files how far it has *)
(* come in its list of writes and, unless another one has been beside it,  *)
(* what it has written aside by then; Crossing says who has been beside    *)
(* whom.  Sent says of the others that they are what RequestOf makes of a  *)
(* command, and CommandsAreRight that this is what the handler listens     *)
(* for, command by command.                                                *)
(***************************************************************************)
EXTENDS SpmRequests, TLAPS

Labels == {"ok", "error", "sent", "hung", "group", "ask", "download", "verify", "write"}

Shape ==
  /\ pc \in [Clients -> Labels] /\ crossed \in [Clients -> BOOLEAN]
  /\ DOMAIN cmd = Clients /\ DOMAIN req = Clients /\ DOMAIN todo = Clients /\ DOMAIN place = Clients
  /\ DOMAIN want = Clients /\ DOMAIN release = Clients /\ DOMAIN damaged = Clients
  /\ DOMAIN file = Files /\ DOMAIN tmp = Files

\* What is left of UpdateSteps and of GroupSteps.
U2 == <<<<"fill", "spm">>, <<"truncate", "spmd">>, <<"fill", "spmd">>, <<"rename", "spm">>, <<"rename", "spmd">>>>
U3 == <<<<"truncate", "spmd">>, <<"fill", "spmd">>, <<"rename", "spm">>, <<"rename", "spmd">>>>
U4 == <<<<"fill", "spmd">>, <<"rename", "spm">>, <<"rename", "spmd">>>>
U5 == <<<<"rename", "spm">>, <<"rename", "spmd">>>>
U6 == <<<<"rename", "spmd">>>>
G2 == <<<<"fill", "group">>, <<"rename", "group">>>>
G3 == <<<<"rename", "group">>>>

Updating(c) == req[c].action = "self-update"
Later(c)    == release[c] \in Versions /\ release[c] > Installed

\* Where a request is in its list.
Kind(c) ==
  /\ pc[c] = "group" => ~Updating(c)
  /\ pc[c] \in {"ask", "download", "verify"} => Updating(c)
  /\ pc[c] \in {"download", "verify"} => Later(c)
  /\ pc[c] = "write" /\ Updating(c) => Later(c) /\ todo[c] \in {UpdateSteps, U2, U3, U4, U5, U6, <<>>}
  /\ pc[c] = "write" /\ ~Updating(c) => todo[c] \in {GroupSteps, G2, G3, <<>>}

UpdateJob(c) ==
  /\ damaged[c] = {}
  /\ todo[c] \in {U3, U4, U5} => tmp["spm"] = release[c]
  /\ todo[c] \in {U5, U6} => tmp["spmd"] = release[c]

\* What a request wants the group to be differs from what it is by the user it is about.
WantFits(c) ==
  /\ file["group"] = Absent => want[c] = {}
  /\ file["group"] \notin {Absent, Torn} =>
       \/ req[c].action = "group add" /\ want[c] = file["group"] \cup {cmd[c].user}
       \/ req[c].action = "group remove" /\ want[c] = file["group"] \ {cmd[c].user}
  /\ file["group"] # Torn => want[c] # Torn

GroupJob(c) ==
  /\ todo[c] # <<>> => WantFits(c)
  /\ todo[c] = G3 => tmp["group"] = want[c]

\* A request that nobody has been beside has what it is going to rename, and has open what it has there.
Job(c) ==
  ~crossed[c] =>
    /\ place[c] = "aside"
    /\ pc[c] = "write" /\ Updating(c) => UpdateJob(c)
    /\ pc[c] = "write" /\ ~Updating(c) => GroupJob(c)

GroupTyped ==
  /\ file["group"] \in {Absent, Torn} \cup SUBSET Users /\ tmp["group"] \in {Absent, Torn} \cup SUBSET Users
  /\ \A c \in Clients : want[c] \in {Torn} \cup SUBSET Users

Crossing == \A c, d \in Clients : c # d /\ Replaces(c) \cap Replaces(d) # {} => crossed[c]

JobsInv == Shape /\ GroupTyped /\ Crossing /\ \A c \in Clients : Kind(c) /\ Job(c)

-----------------------------------------------------------------------------
(* The lists of writes. *)

LEMMA Heads ==
  /\ UpdateSteps # <<>> /\ Head(UpdateSteps) = <<"truncate", "spm">> /\ Tail(UpdateSteps) = U2
  /\ U2 # <<>> /\ Head(U2) = <<"fill", "spm">> /\ Tail(U2) = U3
  /\ U3 # <<>> /\ Head(U3) = <<"truncate", "spmd">> /\ Tail(U3) = U4
  /\ U4 # <<>> /\ Head(U4) = <<"fill", "spmd">> /\ Tail(U4) = U5
  /\ U5 # <<>> /\ Head(U5) = <<"rename", "spm">> /\ Tail(U5) = U6
  /\ U6 # <<>> /\ Head(U6) = <<"rename", "spmd">> /\ Tail(U6) = <<>>
  /\ GroupSteps # <<>> /\ Head(GroupSteps) = <<"truncate", "group">> /\ Tail(GroupSteps) = G2
  /\ G2 # <<>> /\ Head(G2) = <<"fill", "group">> /\ Tail(G2) = G3
  /\ G3 # <<>> /\ Head(G3) = <<"rename", "group">> /\ Tail(G3) = <<>>
BY DEF UpdateSteps, GroupSteps, U2, U3, U4, U5, U6, G2, G3

LEMMA Ops ==
  /\ Head(UpdateSteps)[1] = "truncate" /\ Head(UpdateSteps)[2] = "spm"
  /\ Head(U2)[1] = "fill" /\ Head(U2)[2] = "spm"
  /\ Head(U3)[1] = "truncate" /\ Head(U3)[2] = "spmd"
  /\ Head(U4)[1] = "fill" /\ Head(U4)[2] = "spmd"
  /\ Head(U5)[1] = "rename" /\ Head(U5)[2] = "spm"
  /\ Head(U6)[1] = "rename" /\ Head(U6)[2] = "spmd"
  /\ Head(GroupSteps)[1] = "truncate" /\ Head(GroupSteps)[2] = "group"
  /\ Head(G2)[1] = "fill" /\ Head(G2)[2] = "group"
  /\ Head(G3)[1] = "rename" /\ Head(G3)[2] = "group"
<1>1. Head(UpdateSteps)[1] = "truncate" /\ Head(UpdateSteps)[2] = "spm"
  <2>1. Head(UpdateSteps) = <<"truncate", "spm">>
    BY Heads
  <2> QED BY <2>1
<1>2. Head(U2)[1] = "fill" /\ Head(U2)[2] = "spm"
  <2>1. Head(U2) = <<"fill", "spm">>
    BY Heads
  <2> QED BY <2>1
<1>3. Head(U3)[1] = "truncate" /\ Head(U3)[2] = "spmd"
  <2>1. Head(U3) = <<"truncate", "spmd">>
    BY Heads
  <2> QED BY <2>1
<1>4. Head(U4)[1] = "fill" /\ Head(U4)[2] = "spmd"
  <2>1. Head(U4) = <<"fill", "spmd">>
    BY Heads
  <2> QED BY <2>1
<1>5. Head(U5)[1] = "rename" /\ Head(U5)[2] = "spm"
  <2>1. Head(U5) = <<"rename", "spm">>
    BY Heads
  <2> QED BY <2>1
<1>6. Head(U6)[1] = "rename" /\ Head(U6)[2] = "spmd"
  <2>1. Head(U6) = <<"rename", "spmd">>
    BY Heads
  <2> QED BY <2>1
<1>7. Head(GroupSteps)[1] = "truncate" /\ Head(GroupSteps)[2] = "group"
  <2>1. Head(GroupSteps) = <<"truncate", "group">>
    BY Heads
  <2> QED BY <2>1
<1>8. Head(G2)[1] = "fill" /\ Head(G2)[2] = "group"
  <2>1. Head(G2) = <<"fill", "group">>
    BY Heads
  <2> QED BY <2>1
<1>9. Head(G3)[1] = "rename" /\ Head(G3)[2] = "group"
  <2>1. Head(G3) = <<"rename", "group">>
    BY Heads
  <2> QED BY <2>1
<1> QED BY <1>1, <1>2, <1>3, <1>4, <1>5, <1>6, <1>7, <1>8, <1>9

LEMMA Tails ==
  /\ Tail(UpdateSteps) = U2 /\ Tail(U2) = U3 /\ Tail(U3) = U4 /\ Tail(U4) = U5 /\ Tail(U5) = U6
  /\ Tail(U6) = <<>> /\ Tail(GroupSteps) = G2 /\ Tail(G2) = G3 /\ Tail(G3) = <<>>
BY Heads

LEMMA FileNames == "group" \in Files /\ "spm" \in Files /\ "spmd" \in Files
BY DEF Files, Binaries

\* The lists are told apart by their first writes.
LEMMA ListsApart ==
  /\ UpdateSteps \notin {U2, U3, U4, U5, U6, <<>>} /\ U2 \notin {UpdateSteps, U3, U4, U5, U6, <<>>}
  /\ U3 \notin {UpdateSteps, U2, U4, U5, U6, <<>>} /\ U4 \notin {UpdateSteps, U2, U3, U5, U6, <<>>}
  /\ U5 \notin {UpdateSteps, U2, U3, U4, U6, <<>>} /\ U6 \notin {UpdateSteps, U2, U3, U4, U5, <<>>}
  /\ G3 \notin {GroupSteps, G2, <<>>} /\ GroupSteps \notin {G2, G3, <<>>} /\ G2 \notin {GroupSteps, G3, <<>>}
<1>1. UpdateSteps \notin {U2, U3, U4, U5, U6, <<>>} /\ U2 \notin {UpdateSteps, U3, U4, U5, U6, <<>>}
  BY Ops, Heads
<1>2. U3 \notin {UpdateSteps, U2, U4, U5, U6, <<>>}
  BY Ops, Heads
<1>3. U4 \notin {UpdateSteps, U2, U3, U5, U6, <<>>}
  BY Ops, Heads
<1>4. U5 \notin {UpdateSteps, U2, U3, U4, U6, <<>>}
  BY Ops, Heads
<1>5. U6 \notin {UpdateSteps, U2, U3, U4, U5, <<>>}
  BY Ops, Heads
<1>6. G3 \notin {GroupSteps, G2, <<>>} /\ GroupSteps \notin {G2, G3, <<>>} /\ G2 \notin {GroupSteps, G3, <<>>}
  BY Ops, Heads
<1> QED BY <1>1, <1>2, <1>3, <1>4, <1>5, <1>6

\* The first write of a job says which job it is.
LEMMA AtOp == ASSUME NEW c \in Clients, Kind(c), pc[c] = "write", todo[c] # <<>>
  PROVE /\ Head(todo[c])[1] = "truncate" =>
             \/ Updating(c) /\ todo[c] \in {UpdateSteps, U3}
             \/ ~Updating(c) /\ todo[c] = GroupSteps
        /\ Head(todo[c])[1] = "fill" =>
             \/ Updating(c) /\ todo[c] \in {U2, U4}
             \/ ~Updating(c) /\ todo[c] = G2
        /\ Head(todo[c])[1] = "rename" =>
             \/ Updating(c) /\ todo[c] \in {U5, U6}
             \/ ~Updating(c) /\ todo[c] = G3
        /\ Updating(c) => Its(c) \in Binaries
        /\ ~Updating(c) => Its(c) = "group"
<1>1. CASE Updating(c)
  <2>1. todo[c] \in {UpdateSteps, U2, U3, U4, U5, U6}
    BY <1>1 DEF Kind
  <2> QED BY <1>1, <2>1, Ops DEF Its, Binaries
<1>2. CASE ~Updating(c)
  <2>1. todo[c] \in {GroupSteps, G2, G3}
    BY <1>2 DEF Kind
  <2> QED BY <1>2, <2>1, Ops DEF Its
<1> QED BY <1>1, <1>2

-----------------------------------------------------------------------------
(* Who replaces what. *)

\* A request that is served is at one of these places.
LEMMA ServedPlaces == ASSUME Shape, NEW c \in Clients
                      PROVE Served(c) <=> pc[c] \in {"group", "ask", "download", "verify", "write"}
BY DEF Shape, Served, Idle, Labels

LEMMA ReplacesOf ==
  ASSUME Shape, NEW c \in Clients, Kind(c)
  PROVE  /\ pc[c] = "write" /\ Updating(c) => Replaces(c) = Binaries
         /\ pc[c] = "write" /\ ~Updating(c) => Replaces(c) = {"group"}
         /\ pc[c] = "group" => Replaces(c) = {"group"}
         /\ pc[c] \notin {"write", "group"} => Replaces(c) = {}
BY ServedPlaces DEF Replaces, Kind, Updating

LEMMA ReplacesSame ==
  ASSUME NEW d \in Clients, pc'[d] = pc[d], req'[d] = req[d]
  PROVE  Replaces(d)' = Replaces(d)
BY DEF Replaces, Served

LEMMA ItsFile ==
  ASSUME JobsInv, NEW c \in Clients, pc[c] = "write", todo[c] # <<>>
  PROVE  Its(c) \in Replaces(c) /\ Its(c) \in Files
BY AtOp, ReplacesOf, FileNames DEF JobsInv, Binaries

\* A request that nobody has been beside has its files for itself.
LEMMA ForItself ==
  ASSUME JobsInv, NEW c \in Clients, NEW d \in Clients, d # c, ~crossed[d]
  PROVE  Replaces(c) \cap Replaces(d) = {}
BY DEF JobsInv, Crossing

\* What d does depends on nothing but this.
LEMMA JobStays ==
  ASSUME NEW d \in Clients, Shape, Kind(d), Job(d), pc'[d] = pc[d], cmd'[d] = cmd[d], req'[d] = req[d],
         todo'[d] = todo[d], want'[d] = want[d], release'[d] = release[d], damaged'[d] = damaged[d],
         crossed[d] => crossed'[d], place'[d] = place[d] \/ crossed[d],
         \A f \in Replaces(d) : ~crossed[d] => tmp'[f] = tmp[f] /\ file'[f] = file[f]
  PROVE  Kind(d)' /\ Job(d)'
<1>1. (Later(d)' <=> Later(d)) /\ (Updating(d)' <=> Updating(d))
  BY DEF Later, Updating
<1>2. Kind(d)'
  BY <1>1 DEF Kind
<1>3. ASSUME pc[d] = "write", ~crossed[d], Updating(d) PROVE UpdateJob(d)'
  <2>1. tmp'["spm"] = tmp["spm"] /\ tmp'["spmd"] = tmp["spmd"]
    BY <1>3, ReplacesOf DEF Binaries
  <2>2. UpdateJob(d)
    BY <1>3 DEF Job
  <2> QED BY <2>1, <2>2 DEF UpdateJob
<1>4. ASSUME pc[d] = "write", ~crossed[d], ~Updating(d) PROVE GroupJob(d)'
  <2>1. tmp'["group"] = tmp["group"] /\ file'["group"] = file["group"]
    BY <1>4, ReplacesOf
  <2>2. GroupJob(d)
    BY <1>4 DEF Job
  <2> QED BY <2>1, <2>2 DEF GroupJob, WantFits
<1>5. Job(d)'
  BY <1>1, <1>3, <1>4 DEF Job
<1> QED BY <1>2, <1>5

\* What a step of c must do to keep JobsInv.
LEMMA StepOf ==
  ASSUME JobsInv, NEW c \in Clients, Shape', GroupTyped', Kind(c)', Job(c)',
         \A d \in Clients : d # c =>
           /\ pc'[d] = pc[d] /\ cmd'[d] = cmd[d] /\ req'[d] = req[d] /\ todo'[d] = todo[d] /\ want'[d] = want[d]
           /\ release'[d] = release[d] /\ damaged'[d] = damaged[d]
           /\ crossed[d] => crossed'[d]
           /\ place'[d] = place[d] \/ crossed[d]
           /\ Replaces(d) \cap Replaces(c)' # {} => crossed'[c] /\ crossed'[d],
         \A f \in Files : f \notin Replaces(c) => tmp'[f] = tmp[f] /\ file'[f] = file[f]
  PROVE  JobsInv'
<1>1. ASSUME NEW d \in Clients, d # c PROVE Kind(d)' /\ Job(d)'
  <2>1. \A f \in Replaces(d) : f \in Files /\ (~crossed[d] => f \notin Replaces(c))
    <3>1. Replaces(d) \subseteq Files
      BY ReplacesOf, FileNames DEF JobsInv, Binaries
    <3> QED BY <1>1, <3>1, ForItself
  <2>2. \A f \in Replaces(d) : ~crossed[d] => tmp'[f] = tmp[f] /\ file'[f] = file[f]
    BY <2>1
  <2>3. Shape /\ Kind(d) /\ Job(d)
    BY DEF JobsInv
  <2> QED BY <1>1, <2>2, <2>3, JobStays
<1>2. \A d \in Clients : d # c => Replaces(d)' = Replaces(d)
  BY ReplacesSame
<1>3. ASSUME NEW a \in Clients, NEW b \in Clients, a # b, Replaces(a)' \cap Replaces(b)' # {} PROVE crossed'[a]
  <2>1. CASE a = c
    BY <1>2, <1>3, <2>1
  <2>2. CASE b = c
    BY <1>2, <1>3, <2>2
  <2>3. CASE a # c /\ b # c
    <3>1. crossed[a]
      BY <1>2, <1>3, <2>3 DEF JobsInv, Crossing
    <3> QED BY <2>3, <3>1
  <2> QED BY <2>1, <2>2, <2>3
<1>4. Crossing'
  BY <1>3 DEF Crossing
<1> QED BY <1>1, <1>4 DEF JobsInv

\* When c does not begin to replace anything, those beside it have been so.
LEMMA NothingNew ==
  ASSUME JobsInv, NEW c \in Clients, NEW d \in Clients, d # c, Replaces(c)' \subseteq Replaces(c),
         crossed[c] /\ Replaces(c)' # {} => crossed'[c], crossed[d] => crossed'[d]
  PROVE  Replaces(d) \cap Replaces(c)' # {} => crossed'[c] /\ crossed'[d]
<1> SUFFICES ASSUME Replaces(d) \cap Replaces(c)' # {} PROVE crossed'[c] /\ crossed'[d]
  OBVIOUS
<1>1. Replaces(d) \cap Replaces(c) # {} /\ Replaces(c)' # {}
  OBVIOUS
<1>2. crossed[c] /\ crossed[d]
  BY <1>1 DEF JobsInv, Crossing
<1> QED BY <1>1, <1>2

\* A step of c that changes no file, after which c replaces what it did or nothing.
LEMMA Quiet ==
  ASSUME JobsInv, NEW c \in Clients, Shape', Kind(c)', Job(c)', NEW l \in Labels, pc' = [pc EXCEPT ![c] = l],
         UNCHANGED file, Replaces(c)' \subseteq Replaces(c), crossed[c] /\ Replaces(c)' # {} => crossed'[c],
         want'[c] \in {Torn} \cup SUBSET Users,
         \A f \in Files : tmp'[f] = tmp[f] \/ (f \in Replaces(c) /\ tmp'[f] = Absent),
         \A d \in Clients : d # c =>
           /\ cmd'[d] = cmd[d] /\ req'[d] = req[d] /\ todo'[d] = todo[d] /\ want'[d] = want[d]
           /\ release'[d] = release[d] /\ damaged'[d] = damaged[d] /\ crossed'[d] = crossed[d] /\ place'[d] = place[d]
  PROVE  JobsInv'
<1>1. \A d \in Clients : d # c => pc'[d] = pc[d]
  BY DEF JobsInv, Shape
<1>2. GroupTyped'
  <2>1. tmp'["group"] = tmp["group"] \/ tmp'["group"] = Absent
    BY FileNames
  <2> QED BY <2>1 DEF JobsInv, GroupTyped
<1>3. \A d \in Clients : d # c => (Replaces(d) \cap Replaces(c)' # {} => crossed'[c] /\ crossed'[d])
  BY NothingNew
<1>4. \A f \in Files : f \notin Replaces(c) => tmp'[f] = tmp[f] /\ file'[f] = file[f]
  OBVIOUS
<1> QED BY <1>1, <1>2, <1>3, <1>4, StepOf

-----------------------------------------------------------------------------
(* The steps. *)

\* A request that is at none of these places does nothing yet.
LEMMA AtRest ==
  ASSUME Shape', NEW c \in Clients, pc'[c] \notin {"group", "ask", "download", "verify", "write"}
  PROVE  /\ Kind(c)' /\ Replaces(c)' = {}
         /\ place'[c] = "aside" \/ crossed'[c] => Job(c)'
BY DEF Kind, Job, Replaces, Served, Idle, Shape, Labels

\* The end of a request, with what it has written aside forgotten or not.
LEMMA EndKeeps ==
  ASSUME JobsInv, NEW c \in Clients, NEW l \in {"ok", "error"}, End(c, l), UNCHANGED file, DOMAIN tmp' = Files,
         \A f \in Files : tmp'[f] = tmp[f] \/ (f \in Replaces(c) /\ tmp'[f] = Absent)
  PROVE  JobsInv'
<1>1. pc' = [pc EXCEPT ![c] = l] /\ l \in Labels
  BY DEF End, Goto, Labels
<1>2. Shape'
  BY <1>1 DEF End, Shape, JobsInv
<1>3. pc'[c] = l
  BY <1>1 DEF JobsInv, Shape
<1>4. Kind(c)' /\ Job(c)' /\ Replaces(c)' = {}
  <2>1. place'[c] = "aside"
    BY DEF End, JobsInv, Shape
  <2> QED BY <1>2, <1>3, <2>1, AtRest
<1>5. \A d \in Clients : d # c =>
        /\ cmd'[d] = cmd[d] /\ req'[d] = req[d] /\ todo'[d] = todo[d] /\ want'[d] = want[d]
        /\ release'[d] = release[d] /\ damaged'[d] = damaged[d] /\ crossed'[d] = crossed[d] /\ place'[d] = place[d]
  BY DEF End, JobsInv, Shape
<1>6. want'[c] = {}
  BY DEF End, JobsInv, Shape
<1> QED BY <1>1, <1>2, <1>4, <1>5, <1>6, Quiet

LEMMA TypeKeeps == ASSUME JobsInv, NEW c \in Clients, NEW x \in CommandsOf[c], Type(c, x) PROVE JobsInv'
<1>1. UNCHANGED <<file, tmp, todo, place, want, release, damaged, crossed>>
  BY DEF Type, disk, progress
<1>2. PICK l \in {"ok", "error", "sent"} : pc' = [pc EXCEPT ![c] = l]
  BY DEF Type, Goto, Idle
<1>3. \A d \in Clients : d # c => cmd'[d] = cmd[d] /\ req'[d] = req[d]
  BY DEF Type, JobsInv, Shape
<1>4. Shape'
  <2>1. DOMAIN cmd' = Clients /\ DOMAIN req' = Clients
    BY DEF Type, JobsInv, Shape
  <2> QED BY <1>1, <1>2, <2>1 DEF JobsInv, Shape, Labels
<1>5. pc'[c] = l
  BY <1>2 DEF JobsInv, Shape
<1>6. Kind(c)' /\ Job(c)' /\ Replaces(c)' = {}
  <2>1. place'[c] = "aside" \/ crossed'[c]
    BY <1>1 DEF JobsInv, Job
  <2> QED BY <1>4, <1>5, <2>1, AtRest
<1>7. want'[c] \in {Torn} \cup SUBSET Users
  BY <1>1 DEF JobsInv, GroupTyped
<1> QED BY <1>1, <1>2, <1>3, <1>4, <1>6, <1>7, Quiet DEF Labels

\* c begins to replace fs, and whoever does so too is marked with it.
LEMMA MeetKeeps ==
  ASSUME JobsInv, NEW c \in Clients, NEW fs, Meet(c, fs), Replaces(c)' = fs, Shape', Kind(c)', Job(c)',
         NEW l, pc' = [pc EXCEPT ![c] = l], UNCHANGED <<file, tmp, cmd, req, place, want, release, damaged>>,
         \A d \in Clients : d # c => todo'[d] = todo[d]
  PROVE  JobsInv'
<1>1. \A d \in Clients : crossed'[d] = (crossed[d] \/ (Beside(c, fs) # {} /\ d \in Beside(c, fs) \cup {c}))
  BY DEF Meet
<1>2. \A d \in Clients : d # c => pc'[d] = pc[d]
  BY DEF JobsInv, Shape
<1>3. ASSUME NEW d \in Clients, d # c
      PROVE  (crossed[d] => crossed'[d]) /\ (Replaces(d) \cap Replaces(c)' # {} => crossed'[c] /\ crossed'[d])
  <2>1. crossed[d] => crossed'[d]
    BY <1>1
  <2>2. Replaces(d) \cap fs # {} => d \in Beside(c, fs)
    BY <1>3 DEF Beside
  <2>3. Replaces(d) \cap Replaces(c)' # {} => crossed'[c] /\ crossed'[d]
    BY <1>1, <2>2
  <2> QED BY <2>1, <2>3
<1>4. GroupTyped'
  BY DEF JobsInv, GroupTyped
<1> QED BY <1>2, <1>3, <1>4, StepOf

LEMMA ServeKeeps == ASSUME JobsInv, NEW c \in Clients, Serve(c) PROVE JobsInv'
<1>0. pc[c] = "sent" /\ UNCHANGED <<file, tmp>>
  BY DEF Serve, disk
<1>1. CASE \E l \in {"ok", "error"} : End(c, l)
  BY <1>0, <1>1, EndKeeps DEF JobsInv, Shape
<1>2. CASE /\ req[c].action \in {"group create", "group add", "group remove", "group list"}
           /\ Goto(c, "group") /\ Meet(c, {"group"})
           /\ UNCHANGED <<cmd, req, todo, place, want, release, damaged>>
  <2>1. pc' = [pc EXCEPT ![c] = "group"] /\ pc'[c] = "group" /\ req' = req
    BY <1>2 DEF Goto, JobsInv, Shape
  <2>2. Shape'
    <3>1. crossed' \in [Clients -> BOOLEAN]
      BY <1>2 DEF Meet, JobsInv, Shape
    <3> QED BY <1>0, <1>2, <2>1, <3>1 DEF JobsInv, Shape, Labels
  <2>3. ~Updating(c)'
    BY <1>2, <2>1 DEF Updating
  <2>6. crossed[c] => crossed'[c]
    BY <1>2 DEF Meet
  <2>4. Kind(c)' /\ Job(c)'
    BY <1>2, <2>1, <2>3, <2>6 DEF Kind, Job, JobsInv
  <2>5. Replaces(c)' = {"group"}
    BY <2>1, <2>3 DEF Replaces, Served, Idle, Updating
  <2> QED BY <1>0, <1>2, <2>1, <2>2, <2>4, <2>5, MeetKeeps
<1>3. CASE req[c].action = "self-update" /\ Goto(c, "ask") /\ UNCHANGED <<cmd, req, progress>>
  <2>1. pc' = [pc EXCEPT ![c] = "ask"] /\ pc'[c] = "ask"
        /\ UNCHANGED <<cmd, req, todo, place, want, release, damaged, crossed>>
    BY <1>3 DEF Goto, JobsInv, Shape, progress
  <2>2. Shape'
    BY <1>0, <2>1 DEF JobsInv, Shape, Labels
  <2>3. Kind(c)' /\ Job(c)' /\ Replaces(c)' = {}
    BY <1>3, <2>1 DEF Kind, Job, Updating, Replaces, Served, JobsInv
  <2>4. want'[c] \in {Torn} \cup SUBSET Users
    BY <2>1 DEF JobsInv, GroupTyped
  <2> QED BY <1>0, <2>1, <2>2, <2>3, <2>4, Quiet DEF Labels
<1> QED BY <1>1, <1>2, <1>3 DEF Serve, Idle

LEMMA GroupKeeps == ASSUME JobsInv, NEW c \in Clients, Group(c) PROVE JobsInv'
<1> DEFINE group == file["group"]
           u     == cmd[c].user
           is(a) == req[c].action = a
           new   == IF group = Absent THEN {} ELSE IF group = Torn THEN Torn
                    ELSE IF is("group add") THEN group \cup {u} ELSE group \ {u}
<1>0. pc[c] = "group" /\ UNCHANGED <<file, tmp>>
  BY DEF Group, disk
<1>1. CASE End(c, "ok")
  BY <1>0, <1>1, EndKeeps DEF JobsInv, Shape
<1>2. CASE /\ Put(c, new)
           /\ group \in {Absent, Torn} \/ (is("group add") /\ u \in Known) \/ (is("group remove") /\ u \in group)
  <2>1. /\ pc' = [pc EXCEPT ![c] = "write"] /\ want' = [want EXCEPT ![c] = new]
        /\ todo' = [todo EXCEPT ![c] = GroupSteps] /\ UNCHANGED <<cmd, req, place, release, damaged, crossed>>
    BY <1>2 DEF Put, Goto
  <2>2. Shape'
    BY <1>0, <2>1 DEF JobsInv, Shape, Labels
  <2>3. pc'[c] = "write" /\ want'[c] = new /\ todo'[c] = GroupSteps /\ crossed'[c] = crossed[c]
    BY <2>1 DEF JobsInv, Shape
  <2>4. group \in {Absent, Torn} \cup SUBSET Users
    BY DEF JobsInv, GroupTyped
  <2>5. new \in {Torn} \cup SUBSET Users
    BY <1>2, <2>4, SetsAssumption
  <2>6. ~Updating(c) /\ ~Updating(c)'
    BY <1>0, <2>1 DEF JobsInv, Kind, Updating
  <2>7. WantFits(c)'
    <3>1. file' = file /\ cmd' = cmd /\ req' = req
      BY <1>0, <2>1
    <3>2. group # Torn => new # Torn
      BY <1>2, <2>4, MarksAssumption, SetsAssumption
    <3> QED BY <1>2, <2>3, <3>1, <3>2 DEF WantFits
  <2>8. Kind(c)' /\ Replaces(c)' = {"group"} /\ Replaces(c) = {"group"}
    BY <1>0, <2>3, <2>6, ServedPlaces, ReplacesOf DEF Kind, Replaces, Served, Idle, Updating, JobsInv
  <2>9. place'[c] = "aside" \/ crossed'[c]
    BY <2>1 DEF JobsInv, Job
  <2>10. Job(c)'
    <3>1. GroupJob(c)'
      BY <2>3, <2>7, ListsApart DEF GroupJob
    <3> QED BY <2>6, <2>9, <3>1 DEF Job
  <2> HIDE DEF group, u, is, new
  <2>11. \A d \in Clients : d # c =>
        /\ cmd'[d] = cmd[d] /\ req'[d] = req[d] /\ todo'[d] = todo[d] /\ want'[d] = want[d]
        /\ release'[d] = release[d] /\ damaged'[d] = damaged[d] /\ crossed'[d] = crossed[d] /\ place'[d] = place[d]
    BY <2>1 DEF JobsInv, Shape
  <2> QED BY <1>0, <2>1, <2>2, <2>3, <2>5, <2>8, <2>10, <2>11, Quiet DEF Labels
<1> QED BY <1>1, <1>2 DEF Group

LEMMA OfferKeeps == ASSUME JobsInv, NEW c \in Clients, Offer(c) PROVE JobsInv'
<1>0. pc[c] = "ask" /\ UNCHANGED <<file, tmp>>
  BY DEF Offer, disk
<1>1. CASE \E l \in {"ok", "error"} : End(c, l)
  BY <1>0, <1>1, EndKeeps DEF JobsInv, Shape
<1>2. CASE \E v \in Versions : /\ IsNewer(v) /\ Goto(c, "download") /\ release' = [release EXCEPT ![c] = v]
                               /\ UNCHANGED <<cmd, req, todo, place, want, damaged, crossed>>
  <2>1. PICK v \in Versions : /\ v > Installed /\ pc' = [pc EXCEPT ![c] = "download"]
                              /\ release' = [release EXCEPT ![c] = v]
                              /\ UNCHANGED <<cmd, req, todo, place, want, damaged, crossed>>
    BY <1>2 DEF IsNewer, Goto
  <2>2. Shape'
    BY <1>0, <2>1 DEF JobsInv, Shape, Labels
  <2>3. pc'[c] = "download" /\ release'[c] = v /\ Updating(c)' /\ Updating(c)
    BY <1>0, <2>1 DEF JobsInv, Shape, Kind, Updating
  <2>4. Kind(c)' /\ Job(c)' /\ Replaces(c)' = {}
    BY <2>1, <2>3 DEF Kind, Job, JobsInv, Later, Replaces, Updating
  <2>5. want'[c] \in {Torn} \cup SUBSET Users
    BY <2>1 DEF JobsInv, GroupTyped
  <2>6. \A d \in Clients : d # c => release'[d] = release[d]
    BY <2>1 DEF JobsInv, Shape
  <2> QED BY <1>0, <2>1, <2>2, <2>4, <2>5, <2>6, Quiet DEF Labels
<1> QED BY <1>1, <1>2 DEF Offer

LEMMA DownloadKeeps == ASSUME JobsInv, NEW c \in Clients, Download(c) PROVE JobsInv'
<1>0. pc[c] = "download" /\ UNCHANGED <<file, tmp>>
  BY DEF Download, disk
<1>1. CASE End(c, "error")
  BY <1>0, <1>1, EndKeeps DEF JobsInv, Shape
<1>2. CASE /\ Goto(c, "verify") /\ damaged' \in {[damaged EXCEPT ![c] = d] : d \in SUBSET Binaries}
           /\ UNCHANGED <<cmd, req, todo, place, want, release, crossed>>
  <2>1. pc' = [pc EXCEPT ![c] = "verify"]
    BY <1>2 DEF Goto
  <2>2. Shape' /\ \A d \in Clients : d # c => damaged'[d] = damaged[d]
    BY <1>0, <1>2, <2>1 DEF JobsInv, Shape, Labels
  <2>3. pc'[c] = "verify" /\ release' = release /\ Later(c) /\ Updating(c) /\ Updating(c)'
    BY <1>0, <1>2, <2>1 DEF JobsInv, Shape, Kind, Updating
  <2>4. Kind(c)' /\ Job(c)' /\ Replaces(c)' = {}
    BY <1>2, <2>3 DEF Kind, Job, JobsInv, Later, Replaces, Updating
  <2>5. want'[c] \in {Torn} \cup SUBSET Users
    BY <1>2 DEF JobsInv, GroupTyped
  <2> QED BY <1>0, <1>2, <2>1, <2>2, <2>4, <2>5, Quiet DEF Labels
<1> QED BY <1>1, <1>2 DEF Download

LEMMA VerifyKeeps == ASSUME JobsInv, NEW c \in Clients, Verify(c) PROVE JobsInv'
<1>0. pc[c] = "verify" /\ UNCHANGED <<file, tmp>>
  BY DEF Verify, disk
<1>1. CASE End(c, "error")
  BY <1>0, <1>1, EndKeeps DEF JobsInv, Shape
<1>2. CASE damaged[c] = {} /\ Replace(c)
  <2>1. /\ pc' = [pc EXCEPT ![c] = "write"] /\ todo' = [todo EXCEPT ![c] = UpdateSteps] /\ Meet(c, Binaries)
        /\ UNCHANGED <<cmd, req, place, want, release, damaged>>
    BY <1>2 DEF Replace, Goto
  <2>2. Shape'
    <3>1. crossed' \in [Clients -> BOOLEAN]
      BY <2>1 DEF Meet, JobsInv, Shape
    <3> QED BY <1>0, <2>1, <3>1 DEF JobsInv, Shape, Labels
  <2>3. /\ pc'[c] = "write" /\ todo'[c] = UpdateSteps /\ release' = release /\ Later(c) /\ Updating(c)
        /\ Updating(c)' /\ damaged'[c] = {}
    BY <1>0, <1>2, <2>1 DEF JobsInv, Shape, Kind, Updating
  <2>4. Kind(c)' /\ Replaces(c)' = Binaries
    BY <2>3 DEF Kind, Later, Replaces, Updating
  <2>5. UpdateJob(c)'
    BY <2>3, ListsApart DEF UpdateJob
  <2>6. crossed[c] => crossed'[c]
    BY <2>1 DEF Meet
  <2>7. Job(c)'
    BY <2>1, <2>3, <2>5, <2>6 DEF Job, JobsInv
  <2>8. \A d \in Clients : d # c => todo'[d] = todo[d]
    BY <2>1 DEF JobsInv, Shape
  <2> QED BY <1>0, <2>1, <2>2, <2>4, <2>7, <2>8, MeetKeeps
<1> QED BY <1>1, <1>2 DEF Verify

LEMMA WrittenKeeps == ASSUME JobsInv, NEW c \in Clients, Written(c) PROVE JobsInv'
<1>0. pc[c] = "write" /\ UNCHANGED <<file, tmp>>
  BY DEF Written, disk
<1>1. CASE End(c, "ok")
  BY <1>0, <1>1, EndKeeps DEF JobsInv, Shape
<1>2. CASE ~Updating(c) /\ Goto(c, "group") /\ UNCHANGED <<cmd, req, progress>>
  <2>1. pc' = [pc EXCEPT ![c] = "group"] /\ UNCHANGED <<cmd, req, todo, place, want, release, damaged, crossed>>
    BY <1>2 DEF Goto, progress
  <2>2. Shape'
    BY <1>0, <2>1 DEF JobsInv, Shape, Labels
  <2>3. pc'[c] = "group" /\ ~Updating(c)'
    BY <1>2, <2>1 DEF JobsInv, Shape, Updating
  <2>4. Kind(c)' /\ Job(c)'
    BY <2>1, <2>3 DEF Kind, Job, JobsInv
  <2>5. Replaces(c) = {"group"} /\ Replaces(c)' = {"group"}
    BY <1>0, <1>2, <2>3 DEF Replaces, Served, Idle, Updating
  <2>6. want'[c] \in {Torn} \cup SUBSET Users
    BY <2>1 DEF JobsInv, GroupTyped
  <2> QED BY <1>0, <2>1, <2>2, <2>4, <2>5, <2>6, Quiet DEF Labels
<1> QED BY <1>1, <1>2 DEF Written, Updating

LEMMA WriteFailsKeeps == ASSUME JobsInv, NEW c \in Clients, WriteFails(c) PROVE JobsInv'
<1>1. UNCHANGED file /\ Forget(c) /\ \E l \in {"ok", "error"} : End(c, l)
  BY DEF WriteFails
<1>2. DOMAIN tmp' = Files /\ \A f \in Files : tmp'[f] = tmp[f] \/ (f \in Replaces(c) /\ tmp'[f] = Absent)
  BY <1>1 DEF Forget
<1> QED BY <1>1, <1>2, EndKeeps

\* Of what is left of its writes, the first one is done.
LEMMA AdvanceType == ASSUME JobsInv, NEW c \in Clients, pc[c] = "write", todo[c] # <<>>, Advance(c)
  PROVE /\ UNCHANGED <<pc, cmd, req, up, want, release, damaged, crossed>>
        /\ todo'[c] = Tail(todo[c]) /\ DOMAIN todo' = Clients
        /\ \A d \in Clients : d # c => todo'[d] = todo[d]
        /\ (Updating(c)' <=> Updating(c)) /\ (Later(c)' <=> Later(c))
        /\ Kind(c)' /\ Replaces(c)' = Replaces(c)
<1>1. /\ UNCHANGED <<pc, cmd, req, up, want, release, damaged, crossed>>
      /\ todo'[c] = Tail(todo[c]) /\ DOMAIN todo' = Clients
      /\ \A d \in Clients : d # c => todo'[d] = todo[d]
  BY DEF Advance, JobsInv, Shape
<1>2. (Updating(c)' <=> Updating(c)) /\ (Later(c)' <=> Later(c))
  BY <1>1 DEF Updating, Later
<1>3. Kind(c)'
  <2>1. CASE Updating(c)
    <3>1. todo[c] \in {UpdateSteps, U2, U3, U4, U5, U6} /\ Later(c)
      BY <2>1 DEF JobsInv, Kind
    <3>2. todo'[c] \in {U2, U3, U4, U5, U6, <<>>}
      BY <1>1, <3>1, Tails
    <3> QED BY <1>1, <1>2, <2>1, <3>1, <3>2 DEF Kind
  <2>2. CASE ~Updating(c)
    <3>1. todo[c] \in {GroupSteps, G2, G3}
      BY <2>2 DEF JobsInv, Kind
    <3>2. todo'[c] \in {G2, G3, <<>>}
      BY <1>1, <3>1, Tails
    <3> QED BY <1>1, <1>2, <2>2, <3>2 DEF Kind
  <2> QED BY <2>1, <2>2
<1>4. Replaces(c)' = Replaces(c)
  BY <1>1, ReplacesSame
<1> QED BY <1>1, <1>2, <1>3, <1>4

\* A write of c, which reaches only one of its own files.
LEMMA WriteKeeps ==
  ASSUME JobsInv, NEW c \in Clients, pc[c] = "write", todo[c] # <<>>, Advance(c), Job(c)',
         DOMAIN file' = Files, DOMAIN tmp' = Files, DOMAIN place' = Clients, GroupTyped',
         \A f \in Files : f # Its(c) => tmp'[f] = tmp[f] /\ file'[f] = file[f],
         \A d \in Clients : d # c => place'[d] = place[d] \/ crossed[d]
  PROVE  JobsInv'
<1>1. /\ UNCHANGED <<pc, cmd, req, up, want, release, damaged, crossed>> /\ DOMAIN todo' = Clients
      /\ \A d \in Clients : d # c => todo'[d] = todo[d]
      /\ Kind(c)' /\ Replaces(c)' = Replaces(c)
  BY AdvanceType
<1>2. Shape'
  BY <1>1 DEF JobsInv, Shape
<1>3. \A d \in Clients : d # c => (Replaces(d) \cap Replaces(c)' # {} => crossed'[c] /\ crossed'[d])
  BY <1>1, NothingNew
<1>4. \A f \in Files : f \notin Replaces(c) => tmp'[f] = tmp[f] /\ file'[f] = file[f]
  BY ItsFile
<1> QED BY <1>1, <1>2, <1>3, <1>4, StepOf

LEMMA TruncateKeeps == ASSUME JobsInv, NEW c \in Clients, Truncate(c) PROVE JobsInv'
<1>0. /\ pc[c] = "write" /\ todo[c] # <<>> /\ Head(todo[c])[1] = "truncate"
      /\ Advance(c) /\ tmp' = [tmp EXCEPT ![Its(c)] = Torn] /\ UNCHANGED <<file, place>>
  BY DEF Truncate, Does
<1>1. /\ UNCHANGED <<pc, cmd, req, up, want, release, damaged, crossed>>
      /\ todo'[c] = Tail(todo[c]) /\ (Updating(c)' <=> Updating(c)) /\ (Later(c)' <=> Later(c))
  BY <1>0, AdvanceType
<1>2. Kind(c) /\ Job(c)
  BY DEF JobsInv
<1>3. ASSUME ~crossed[c], Updating(c) PROVE UpdateJob(c)'
  <2>1. todo[c] \in {UpdateSteps, U3} /\ UpdateJob(c)
    BY <1>0, <1>2, <1>3, AtOp DEF Job
  <2>2. CASE todo[c] = UpdateSteps
    BY <1>1, <2>1, <2>2, Tails, ListsApart DEF UpdateJob
  <2>3. CASE todo[c] = U3
    <3>1. todo'[c] = U4 /\ Its(c) = "spmd"
      BY <1>1, <2>3, Tails, Ops DEF Its
    <3>2. tmp'["spm"] = tmp["spm"]
      BY <1>0, <3>1, FileNames DEF JobsInv, Shape
    <3> QED BY <1>1, <2>1, <2>3, <3>1, <3>2, ListsApart DEF UpdateJob
  <2> QED BY <2>1, <2>2, <2>3
<1>4. ASSUME ~crossed[c], ~Updating(c) PROVE GroupJob(c)'
  <2>1. todo[c] = GroupSteps /\ GroupJob(c)
    BY <1>0, <1>2, <1>4, AtOp DEF Job
  <2>2. todo'[c] = G2 /\ WantFits(c)
    BY <1>0, <1>1, <2>1, Tails DEF GroupJob
  <2> QED BY <1>0, <1>1, <2>2, ListsApart DEF GroupJob, WantFits
<1>5. Job(c)'
  BY <1>0, <1>1, <1>2, <1>3, <1>4 DEF Job
<1>6. GroupTyped'
  <2>1. tmp'["group"] \in {tmp["group"], Torn}
    BY <1>0, FileNames DEF JobsInv, Shape
  <2> QED BY <1>0, <1>1, <2>1 DEF JobsInv, GroupTyped
<1>7. DOMAIN file' = Files /\ DOMAIN tmp' = Files /\ DOMAIN place' = Clients
      /\ \A f \in Files : f # Its(c) => tmp'[f] = tmp[f] /\ file'[f] = file[f]
  BY <1>0 DEF JobsInv, Shape
<1> QED BY <1>0, <1>5, <1>6, <1>7, WriteKeeps

LEMMA FillKeeps == ASSUME JobsInv, NEW c \in Clients, Fill(c) PROVE JobsInv'
<1>0. /\ pc[c] = "write" /\ todo[c] # <<>> /\ Head(todo[c])[1] = "fill"
      /\ Advance(c) /\ place' = [place EXCEPT ![c] = "aside"]
  BY DEF Fill, Does
<1>1. /\ UNCHANGED <<pc, cmd, req, up, want, release, damaged, crossed>>
      /\ todo'[c] = Tail(todo[c]) /\ (Updating(c)' <=> Updating(c)) /\ (Later(c)' <=> Later(c))
  BY <1>0, AdvanceType
<1>2. Kind(c) /\ Job(c)
  BY DEF JobsInv
<1>3. PICK x \in Contents(c, Its(c)) :
         /\ tmp'  = IF place[c] = "aside" THEN [tmp EXCEPT ![Its(c)] = x] ELSE tmp
         /\ file' = IF place[c] = "there" THEN [file EXCEPT ![Its(c)] = x] ELSE file
  BY DEF Fill
<1>4. DOMAIN file' = Files /\ DOMAIN tmp' = Files /\ DOMAIN place' = Clients
      /\ \A f \in Files : f # Its(c) => tmp'[f] = tmp[f] /\ file'[f] = file[f]
  BY <1>0, <1>3 DEF JobsInv, Shape
<1>5. ASSUME ~crossed[c] PROVE tmp'[Its(c)] = Content(c, Its(c)) /\ file' = file
  <2>1. place[c] = "aside" /\ x = Content(c, Its(c))
    BY <1>2, <1>3, <1>5 DEF Job, Contents
  <2> QED BY <1>0, <1>3, <2>1, ItsFile DEF JobsInv, Shape
<1>6. ASSUME ~crossed[c], Updating(c) PROVE UpdateJob(c)'
  <2>1. todo[c] \in {U2, U4} /\ UpdateJob(c)
    BY <1>0, <1>2, <1>6, AtOp DEF Job
  <2>2. CASE todo[c] = U2
    <3>1. todo'[c] = U3 /\ Its(c) = "spm"
      BY <1>1, <2>2, Tails, Ops DEF Its
    <3>2. tmp'["spm"] = release[c]
      BY <1>5, <1>6, <2>1, <3>1 DEF Content, UpdateJob
    <3> QED BY <1>1, <2>1, <3>1, <3>2, ListsApart DEF UpdateJob
  <2>3. CASE todo[c] = U4
    <3>1. todo'[c] = U5 /\ Its(c) = "spmd"
      BY <1>1, <2>3, Tails, Ops DEF Its
    <3>2. tmp'["spmd"] = release[c] /\ tmp'["spm"] = tmp["spm"]
      BY <1>4, <1>5, <1>6, <2>1, <3>1, FileNames DEF Content, UpdateJob
    <3> QED BY <1>1, <2>1, <2>3, <3>1, <3>2, ListsApart DEF UpdateJob
  <2> QED BY <2>1, <2>2, <2>3
<1>7. ASSUME ~crossed[c], ~Updating(c) PROVE GroupJob(c)'
  <2>1. todo[c] = G2 /\ GroupJob(c)
    BY <1>0, <1>2, <1>7, AtOp DEF Job
  <2>2. todo'[c] = G3 /\ Its(c) = "group" /\ WantFits(c)
    BY <1>0, <1>1, <2>1, Tails, Ops DEF GroupJob, Its
  <2>3. tmp'["group"] = want[c] /\ file' = file
    BY <1>5, <1>7, <2>2 DEF Content
  <2> QED BY <1>1, <2>2, <2>3 DEF GroupJob, WantFits
<1>8. Job(c)'
  <2>1. place'[c] = "aside"
    BY <1>0 DEF JobsInv, Shape
  <2> QED BY <1>1, <1>6, <1>7, <2>1 DEF Job
<1>9. GroupTyped'
  <2>1. CASE Its(c) = "group"
    <3>1. x \in {Torn} \cup SUBSET Users
      BY <2>1 DEF Contents, Content, JobsInv, GroupTyped
    <3>2. tmp'["group"] \in {tmp["group"], x} /\ file'["group"] \in {file["group"], x}
      BY <1>3, <2>1, FileNames DEF JobsInv, Shape
    <3> QED BY <1>1, <3>1, <3>2 DEF JobsInv, GroupTyped
  <2>2. CASE Its(c) # "group"
    <3>1. tmp'["group"] = tmp["group"] /\ file'["group"] = file["group"]
      BY <1>4, <2>2, FileNames
    <3> QED BY <1>1, <3>1 DEF JobsInv, GroupTyped
  <2> QED BY <2>1, <2>2
<1>10. \A d \in Clients : d # c => place'[d] = place[d] \/ crossed[d]
  BY <1>0 DEF JobsInv, Shape
<1> QED BY <1>0, <1>4, <1>8, <1>9, <1>10, WriteKeeps

\* What has a file of c open that is renamed is a request beside c.
LEMMA OpenedBeside ==
  ASSUME JobsInv, NEW c \in Clients, NEW d \in Clients, d # c, pc[c] = "write", todo[c] # <<>>, d \in Opened(Its(c))
  PROVE  crossed[d]
<1>1. pc[d] = "write" /\ todo[d] # <<>> /\ Its(d) = Its(c)
  BY DEF Opened, Does
<1>2. Its(c) \in Replaces(c) \cap Replaces(d)
  BY <1>1, ItsFile
<1> QED BY <1>2 DEF JobsInv, Crossing

LEMMA RenameKeeps == ASSUME JobsInv, NEW c \in Clients, Rename(c) PROVE JobsInv'
<1>0. /\ pc[c] = "write" /\ todo[c] # <<>> /\ Head(todo[c])[1] = "rename" /\ tmp[Its(c)] # Absent
      /\ Advance(c) /\ file' = [file EXCEPT ![Its(c)] = tmp[Its(c)]] /\ tmp' = [tmp EXCEPT ![Its(c)] = Absent]
      /\ place' = [d \in Clients |-> IF d \notin Opened(Its(c)) THEN place[d]
                                     ELSE IF place[d] = "aside" THEN "there" ELSE "nowhere"]
  BY DEF Rename, Does
<1>1. /\ UNCHANGED <<pc, cmd, req, up, want, release, damaged, crossed>>
      /\ todo'[c] = Tail(todo[c]) /\ (Updating(c)' <=> Updating(c)) /\ (Later(c)' <=> Later(c))
  BY <1>0, AdvanceType
<1>2. Kind(c) /\ Job(c)
  BY DEF JobsInv
<1>3. ASSUME ~crossed[c], Updating(c) PROVE UpdateJob(c)'
  <2>1. todo[c] \in {U5, U6} /\ UpdateJob(c)
    BY <1>0, <1>2, <1>3, AtOp DEF Job
  <2>2. CASE todo[c] = U5
    <3>1. todo'[c] = U6 /\ Its(c) = "spm"
      BY <1>1, <2>2, Tails, Ops DEF Its
    <3>2. tmp'["spmd"] = tmp["spmd"]
      BY <1>0, <3>1, FileNames DEF JobsInv, Shape
    <3> QED BY <1>1, <2>1, <2>2, <3>1, <3>2, ListsApart DEF UpdateJob
  <2>3. CASE todo[c] = U6
    BY <1>1, <2>1, <2>3, Tails, ListsApart DEF UpdateJob
  <2> QED BY <2>1, <2>2, <2>3
<1>4. ASSUME ~crossed[c], ~Updating(c) PROVE GroupJob(c)'
  <2>1. todo[c] = G3
    BY <1>0, <1>2, <1>4, AtOp
  <2>2. todo'[c] = <<>>
    BY <1>1, <2>1, Tails
  <2> QED BY <2>2, ListsApart DEF GroupJob
<1>5. place'[c] = place[c] /\ \A d \in Clients : d # c => place'[d] = place[d] \/ crossed[d]
  <2>1. c \notin Opened(Its(c))
    BY <1>0 DEF Opened, Does
  <2> QED BY <1>0, <2>1, OpenedBeside
<1>6. Job(c)'
  BY <1>1, <1>2, <1>3, <1>4, <1>5 DEF Job
<1>7. DOMAIN file' = Files /\ DOMAIN tmp' = Files /\ DOMAIN place' = Clients
      /\ \A f \in Files : f # Its(c) => tmp'[f] = tmp[f] /\ file'[f] = file[f]
  BY <1>0 DEF JobsInv, Shape
<1>8. GroupTyped'
  <2>1. tmp'["group"] \in {tmp["group"], Absent} /\ file'["group"] \in {file["group"], tmp["group"]}
    BY <1>0, FileNames DEF JobsInv, Shape
  <2> QED BY <1>1, <2>1 DEF JobsInv, GroupTyped
<1> QED BY <1>0, <1>5, <1>6, <1>7, <1>8, WriteKeeps

LEMMA StopKeeps == ASSUME JobsInv, Stop PROVE JobsInv'
<1>1. pc' = [c \in Clients |-> IF pc[c] \in Idle THEN pc[c] ELSE "hung"]
  BY DEF Stop
<1>2. Shape'
  BY <1>1 DEF Stop, JobsInv, Shape, Labels
<1>3. \A c \in Clients : pc'[c] \notin {"group", "ask", "download", "verify", "write"} /\ place'[c] = "aside"
  BY <1>1 DEF Stop, Idle
<1>4. \A c \in Clients : Kind(c)' /\ Job(c)' /\ Replaces(c)' = {}
  BY <1>2, <1>3, AtRest
<1>5. Crossing'
  BY <1>4 DEF Crossing
<1>6. GroupTyped'
  <2>1. tmp'["group"] = Absent /\ file' = file /\ \A c \in Clients : want'[c] = {}
    BY FileNames DEF Stop
  <2> QED BY <2>1 DEF JobsInv, GroupTyped
<1> QED BY <1>2, <1>4, <1>5, <1>6 DEF JobsInv

LEMMA NothingKeeps ==
  ASSUME JobsInv, UNCHANGED <<pc, cmd, req, file, tmp, todo, place, want, release, damaged, crossed>>
  PROVE  JobsInv'
<1>1. Shape' /\ GroupTyped'
  BY DEF JobsInv, Shape, GroupTyped
<1>2. \A c \in Clients : Replaces(c)' = Replaces(c)
  BY ReplacesSame
<1>3. Crossing'
  BY <1>2 DEF JobsInv, Crossing
<1>4. \A c \in Clients : Kind(c)' /\ Job(c)'
  BY JobStays DEF JobsInv
<1> QED BY <1>1, <1>3, <1>4 DEF JobsInv

LEMMA InterruptKeeps == ASSUME JobsInv, NEW c \in Clients, Interrupt(c) PROVE JobsInv'
<1>1. pc' = [pc EXCEPT ![c] = "error"]
      /\ UNCHANGED <<file, tmp, cmd, req, todo, place, want, release, damaged, crossed>>
  BY DEF Interrupt, Goto, disk, progress
<1>2. Shape' /\ pc'[c] = "error"
  BY <1>1 DEF JobsInv, Shape, Labels
<1>3. Kind(c)' /\ Job(c)' /\ Replaces(c)' = {}
  <2>1. place'[c] = "aside" \/ crossed'[c]
    BY <1>1 DEF JobsInv, Job
  <2> QED BY <1>2, <2>1, AtRest
<1>4. want'[c] \in {Torn} \cup SUBSET Users
  BY <1>1 DEF JobsInv, GroupTyped
<1> QED BY <1>1, <1>2, <1>3, <1>4, Quiet DEF Labels

LEMMA StepKeeps == JobsInv /\ [Next]_vars => JobsInv'
<1> SUFFICES ASSUME JobsInv, [Next]_vars PROVE JobsInv'
  OBVIOUS
<1>1. CASE Stop
  BY <1>1, StopKeeps
<1>2. CASE Start \/ UNCHANGED vars
  BY <1>2, NothingKeeps DEF Start, vars, disk, progress
<1>3. ASSUME NEW c \in Clients, Step(c) PROVE JobsInv'
  <2>1. CASE \E x \in CommandsOf[c] : Type(c, x)
    BY <2>1, TypeKeeps
  <2>2. CASE Serve(c) \/ Group(c) \/ Offer(c) \/ Download(c) \/ Verify(c)
    BY <2>2, ServeKeeps, GroupKeeps, OfferKeeps, DownloadKeeps, VerifyKeeps
  <2>3. CASE Truncate(c) \/ Fill(c) \/ Rename(c) \/ WriteFails(c) \/ Written(c) \/ Interrupt(c)
    BY <2>3, TruncateKeeps, FillKeeps, RenameKeeps, WriteFailsKeeps, WrittenKeeps, InterruptKeeps
  <2> QED BY <1>3, <2>1, <2>2, <2>3 DEF Step
<1> QED BY <1>1, <1>2, <1>3 DEF Next

LEMMA InitHolds == Init => JobsInv
<1> SUFFICES ASSUME Init PROVE JobsInv
  OBVIOUS
<1>1. Shape
  BY DEF Init, Shape, Labels
<1>2. GroupTyped
  <2>1. PICK g \in {Absent} \cup SUBSET Users :
           file = [f \in Files |-> CASE f = "group" -> g [] f = "spm" -> Installed [] f = "spmd" -> Absent]
    BY DEF Init
  <2>2. file["group"] = g /\ tmp["group"] = Absent /\ \A c \in Clients : want[c] = {}
    BY <2>1, FileNames DEF Init
  <2> QED BY <2>2 DEF GroupTyped
<1>3. \A c \in Clients : Kind(c) /\ Job(c) /\ Replaces(c) = {}
  BY DEF Init, Kind, Job, Replaces, Served, Idle
<1>4. Crossing
  BY <1>3 DEF Crossing
<1> QED BY <1>1, <1>2, <1>3, <1>4 DEF JobsInv

LEMMA Always == Spec => []JobsInv
BY InitHolds, StepKeeps, PTL DEF Spec

-----------------------------------------------------------------------------
(* What a request says to its handler. *)

\* The request of a command of the name n, and what CommandsHeard asks of one.
Sending(n, given, root) ==
  [action |-> RequestOf(n, given).action, params |-> RequestOf(n, given).params, root |-> root]
Right(q, given) == Answered(q) /\ given \ Heard(q) = given \cap Lost(q)
\* What a handler hears that reads these fields, of pairs of fields and arguments.
HeardOf(ps, reads) == {x[2] : x \in {y \in ps : y[1] \in reads}}
FieldsOf(ps) == {x[1] : x \in ps}
Paired(ps) == \A x \in ps : x = <<x[1], x[2]>>

LEMMA PairsHeard ==
  ASSUME NEW ps, Paired(ps), NEW reads
  PROVE  /\ \A a : a \in HeardOf(ps, reads) <=> \E f : f \in reads /\ <<f, a>> \in ps
         /\ \A f : f \in FieldsOf(ps) <=> \E a : <<f, a>> \in ps
<1>1. \A x \in ps : x = <<x[1], x[2]>>
  BY DEF Paired
<1>2. ASSUME NEW a, a \in HeardOf(ps, reads) PROVE \E f : f \in reads /\ <<f, a>> \in ps
  <2>1. PICK x \in ps : x[1] \in reads /\ a = x[2]
    BY <1>2 DEF HeardOf
  <2>2. x[1] \in reads /\ <<x[1], a>> \in ps
    BY <1>1, <2>1
  <2> QED BY <2>2
<1>3. ASSUME NEW f, NEW a, <<f, a>> \in ps PROVE f \in FieldsOf(ps) /\ (f \in reads => a \in HeardOf(ps, reads))
  <2>1. <<f, a>>[1] = f /\ <<f, a>>[2] = a
    OBVIOUS
  <2> QED BY <1>3, <2>1 DEF HeardOf, FieldsOf
<1>4. ASSUME NEW f, f \in FieldsOf(ps) PROVE \E a : <<f, a>> \in ps
  <2>1. PICK x \in ps : f = x[1]
    BY <1>4 DEF FieldsOf
  <2>2. <<f, x[2]>> \in ps
    BY <1>1, <2>1
  <2> QED BY <2>2
<1> QED BY <1>2, <1>3, <1>4, Zenon

\* A parameter "package" is in two fields.
LEMMA SayPairs ==
  ASSUME NEW action, NEW pairs, Paired(pairs), NEW given
  PROVE  /\ Paired(Say(action, pairs, given).params)
         /\ \A f, a : <<f, a>> \in Say(action, pairs, given).params <=>
              a \in given /\ (<<f, a>> \in pairs \/ (f = Field /\ <<"package", a>> \in pairs))
<1> DEFINE ps   == Say(action, pairs, given).params
           sent == {x \in pairs : x[2] \in given}
           copy == {<<Field, x[2]>> : x \in {y \in sent : y[1] = "package"}}
<1>1. ps = sent \cup copy
  BY DEF Say
<1>2. \A x \in pairs : x = <<x[1], x[2]>>
  BY DEF Paired
<1>3. \A f, a : <<f, a>> \in sent <=> a \in given /\ <<f, a>> \in pairs
  OBVIOUS
<1>4. ASSUME NEW x \in copy
      PROVE  \E a : x = <<Field, a>> /\ a \in given /\ <<"package", a>> \in pairs
  <2>1. PICK y \in sent : y[1] = "package" /\ x = <<Field, y[2]>>
    OBVIOUS
  <2>2. y \in pairs /\ y = <<"package", y[2]>> /\ y[2] \in given
    BY <1>2, <2>1
  <2> HIDE DEF copy, sent
  <2> QED BY <2>1, <2>2
<1>5. ASSUME NEW a \in given, <<"package", a>> \in pairs PROVE <<Field, a>> \in copy
  <2>1. <<"package", a>> \in sent /\ <<"package", a>>[1] = "package" /\ <<"package", a>>[2] = a
    BY <1>5
  <2> HIDE DEF sent
  <2> QED BY <2>1
<1>6. \A x \in sent : x = <<x[1], x[2]>>
  BY <1>2
<1> HIDE DEF ps, sent, copy
<1>7. ASSUME NEW x \in copy PROVE x = <<x[1], x[2]>>
  <2>1. PICK a : x = <<Field, a>>
    BY <1>4
  <2> QED BY <2>1
<1>8. \A f, a : <<f, a>> \in copy <=> f = Field /\ a \in given /\ <<"package", a>> \in pairs
  <2> SUFFICES ASSUME NEW f, NEW a PROVE <<f, a>> \in copy <=> f = Field /\ a \in given /\ <<"package", a>> \in pairs
    OBVIOUS
  <2>1. ASSUME <<f, a>> \in copy PROVE f = Field /\ a \in given /\ <<"package", a>> \in pairs
    <3>1. PICK b : <<f, a>> = <<Field, b>> /\ b \in given /\ <<"package", b>> \in pairs
      BY <1>4, <2>1
    <3>2. f = Field /\ a = b
      BY <3>1
    <3> QED BY <3>1, <3>2
  <2> QED BY <1>5, <2>1
<1>9. Paired(ps)
  BY <1>1, <1>6, <1>7 DEF Paired
<1>10. \A f, a : <<f, a>> \in ps <=> <<f, a>> \in sent \/ <<f, a>> \in copy
  BY <1>1
<1>11. \A f, a : <<f, a>> \in ps <=>
         a \in given /\ (<<f, a>> \in pairs \/ (f = Field /\ <<"package", a>> \in pairs))
  BY <1>3, <1>8, <1>10, Zenon
<1> QED BY <1>9, <1>11 DEF ps

LEMMA SayInPackagePairs ==
  ASSUME NEW action, NEW pairs, Paired(pairs), NEW given
  PROVE  /\ Paired(SayInPackage(action, pairs, given).params)
         /\ \A f, a : <<f, a>> \in SayInPackage(action, pairs, given).params <=>
              (a \in given /\ <<f, a>> \in pairs) \/ (f = Field /\ a = "detail")
<1> DEFINE ps   == SayInPackage(action, pairs, given).params
           sent == {x \in pairs : x[2] \in given}
<1>1. ps = {<<Field, "detail">>} \cup sent
  BY DEF SayInPackage
<1>2. \A x \in sent : x = <<x[1], x[2]>>
  BY DEF Paired
<1>3. \A f, a : <<f, a>> \in sent <=> a \in given /\ <<f, a>> \in pairs
  OBVIOUS
<1> HIDE DEF ps, sent
<1>4. <<Field, "detail">> = <<<<Field, "detail">>[1], <<Field, "detail">>[2]>>
      /\ \A f, a : <<f, a>> = <<Field, "detail">> <=> f = Field /\ a = "detail"
  OBVIOUS
<1>5. Paired(ps)
  BY <1>1, <1>2, <1>4 DEF Paired
<1>6. \A f, a : <<f, a>> \in ps <=> <<f, a>> = <<Field, "detail">> \/ <<f, a>> \in sent
  BY <1>1
<1>7. \A f, a : <<f, a>> \in ps <=> (a \in given /\ <<f, a>> \in pairs) \/ (f = Field /\ a = "detail")
  BY <1>3, <1>4, <1>6, Zenon
<1> QED BY <1>5, <1>7 DEF ps

LEMMA SamePairs ==
  ASSUME NEW as
  PROVE  Paired(Same(as)) /\ \A f, a : <<f, a>> \in Same(as) <=> f = a /\ a \in as
<1>1. \A a \in as : <<a, a>> = <<<<a, a>>[1], <<a, a>>[2]>>
  OBVIOUS
<1>2. ASSUME NEW f, NEW a PROVE <<f, a>> \in Same(as) <=> f = a /\ a \in as
  <2>1. \A c : <<f, a>> = <<c, c>> <=> f = c /\ a = c
    OBVIOUS
  <2> QED BY <2>1 DEF Same
<1> QED BY <1>1, <1>2 DEF Same, Paired

\* One more pair.
LEMMA AlsoPairs ==
  ASSUME NEW as, NEW g, NEW b
  PROVE  /\ Paired(Same(as) \cup {<<g, b>>})
         /\ \A f, a : <<f, a>> \in Same(as) \cup {<<g, b>>} <=> (f = a /\ a \in as) \/ (f = g /\ a = b)
<1>1. <<g, b>> = <<<<g, b>>[1], <<g, b>>[2]>> /\ \A f, a : <<f, a>> = <<g, b>> <=> f = g /\ a = b
  OBVIOUS
<1>2. Paired(Same(as)) /\ \A f, a : <<f, a>> \in Same(as) <=> f = a /\ a \in as
  BY SamePairs
<1> QED BY <1>1, <1>2 DEF Paired

\* The arguments that are heard, and the fields that are there, of what is sent: of these arguments in fields
\* of their own names, with b in the field g besides, and with all of them in the field package too.
HearsInSame(a, as, sent, reads) == a \in sent /\ a \in as /\ (a \in reads \/ (a = "package" /\ Field \in reads))
FillsInSame(f, as, sent) == (f \in sent /\ f \in as) \/ (f = Field /\ "package" \in sent /\ "package" \in as)
HearsInAlso(a, as, g, b, sent, reads) ==
  /\ a \in sent
  /\ \/ a \in as /\ (a \in reads \/ (a = "package" /\ Field \in reads))
     \/ a = b /\ (g \in reads \/ (g = "package" /\ Field \in reads))
FillsInAlso(f, as, g, b, sent) ==
  \/ f \in sent /\ f \in as
  \/ f = Field /\ "package" \in sent /\ "package" \in as
  \/ b \in sent /\ (f = g \/ (f = Field /\ g = "package"))
HearsInPackage(a, as, g, b, sent, reads) ==
  \/ a \in sent /\ ((a \in as /\ a \in reads) \/ (a = b /\ g \in reads))
  \/ a = "detail" /\ Field \in reads
FillsInPackage(f, as, g, b, sent) ==
  f = Field \/ (f \in sent /\ f \in as) \/ (f = g /\ b \in sent)

\* Arguments in fields of their own names.
LEMMA SaySame ==
  ASSUME NEW action, NEW as, NEW sent, NEW reads
  PROVE  /\ \A a : a \in HeardOf(Say(action, Same(as), sent).params, reads) <=> HearsInSame(a, as, sent, reads)
         /\ \A f : f \in FieldsOf(Say(action, Same(as), sent).params) <=> FillsInSame(f, as, sent)
<1> DEFINE ps == Say(action, Same(as), sent).params
<1>1. Paired(Same(as)) /\ \A f, a : <<f, a>> \in Same(as) <=> f = a /\ a \in as
  BY SamePairs
<1>2. Paired(ps)
  BY <1>1, SayPairs, Zenon
<1>3. \A f, a : <<f, a>> \in ps <=>
        a \in sent /\ (<<f, a>> \in Same(as) \/ (f = Field /\ <<"package", a>> \in Same(as)))
  BY <1>1, SayPairs, Zenon
<1> HIDE DEF ps
<1>4. /\ \A a : a \in HeardOf(ps, reads) <=> \E f : f \in reads /\ <<f, a>> \in ps
      /\ \A f : f \in FieldsOf(ps) <=> \E a : <<f, a>> \in ps
  BY <1>2, PairsHeard, Zenon
<1>5. \A f, a : <<f, a>> \in ps <=> a \in sent /\ a \in as /\ (f = a \/ (f = Field /\ a = "package"))
  BY <1>1, <1>3, Zenon
<1>6. ASSUME NEW a PROVE a \in HeardOf(ps, reads) <=> HearsInSame(a, as, sent, reads)
  <2>1. a \in HeardOf(ps, reads) <=> \E f : f \in reads /\ <<f, a>> \in ps
    BY <1>4
  <2>2. /\ <<a, a>> \in ps <=> a \in sent /\ a \in as
        /\ <<Field, a>> \in ps <=> a \in sent /\ a \in as /\ (Field = a \/ a = "package")
        /\ \A f : <<f, a>> \in ps => f = a \/ (f = Field /\ a = "package")
    BY <1>5
  <2> QED BY <2>1, <2>2 DEF HearsInSame
<1>7. ASSUME NEW f PROVE f \in FieldsOf(ps) <=> FillsInSame(f, as, sent)
  <2>1. f \in FieldsOf(ps) <=> \E a : <<f, a>> \in ps
    BY <1>4
  <2>2. /\ <<f, f>> \in ps <=> f \in sent /\ f \in as
        /\ <<f, "package">> \in ps <=> "package" \in sent /\ "package" \in as /\ (f = "package" \/ f = Field)
        /\ \A a : <<f, a>> \in ps => f = a \/ (f = Field /\ a = "package")
    BY <1>5
  <2> QED BY <2>1, <2>2 DEF FillsInSame
<1> QED BY <1>6, <1>7 DEF ps

\* One more argument, in a field of another name.
LEMMA SayAlso ==
  ASSUME NEW action, NEW as, NEW g, NEW b, NEW sent, NEW reads
  PROVE  /\ \A a : a \in HeardOf(Say(action, Same(as) \cup {<<g, b>>}, sent).params, reads) <=>
              HearsInAlso(a, as, g, b, sent, reads)
         /\ \A f : f \in FieldsOf(Say(action, Same(as) \cup {<<g, b>>}, sent).params) <=> FillsInAlso(f, as, g, b, sent)
<1> DEFINE S  == Same(as) \cup {<<g, b>>}
           ps == Say(action, S, sent).params
<1>1. Paired(S) /\ \A f, a : <<f, a>> \in S <=> (f = a /\ a \in as) \/ (f = g /\ a = b)
  BY AlsoPairs
<1> HIDE DEF S
<1>2. Paired(ps)
  BY <1>1, SayPairs, Zenon
<1>3. \A f, a : <<f, a>> \in ps <=> a \in sent /\ (<<f, a>> \in S \/ (f = Field /\ <<"package", a>> \in S))
  BY <1>1, SayPairs, Zenon
<1> HIDE DEF ps
<1>4. /\ \A a : a \in HeardOf(ps, reads) <=> \E f : f \in reads /\ <<f, a>> \in ps
      /\ \A f : f \in FieldsOf(ps) <=> \E a : <<f, a>> \in ps
  BY <1>2, PairsHeard, Zenon
<1>5. \A f, a : <<f, a>> \in ps <=>
        /\ a \in sent
        /\ \/ a \in as /\ (f = a \/ (f = Field /\ a = "package"))
           \/ a = b /\ (f = g \/ (f = Field /\ g = "package"))
  BY <1>1, <1>3, Zenon
<1>6. ASSUME NEW a PROVE a \in HeardOf(ps, reads) <=> HearsInAlso(a, as, g, b, sent, reads)
  <2>1. a \in HeardOf(ps, reads) <=> \E f : f \in reads /\ <<f, a>> \in ps
    BY <1>4
  <2>2. /\ a \in sent /\ a \in as => <<a, a>> \in ps /\ (a = "package" => <<Field, a>> \in ps)
        /\ a \in sent /\ a = b => <<g, a>> \in ps /\ (g = "package" => <<Field, a>> \in ps)
    BY <1>5
  <2>3. \A f : <<f, a>> \in ps =>
          a \in sent /\ \/ a \in as /\ (f = a \/ (f = Field /\ a = "package"))
                        \/ a = b /\ (f = g \/ (f = Field /\ g = "package"))
    BY <1>5
  <2>4. ASSUME NEW f, f \in reads, <<f, a>> \in ps
        PROVE  /\ a \in sent
               /\ \/ a \in as /\ (a \in reads \/ (a = "package" /\ Field \in reads))
                  \/ a = b /\ (g \in reads \/ (g = "package" /\ Field \in reads))
    <3>1. \/ a \in as /\ (f = a \/ (f = Field /\ a = "package"))
          \/ a = b /\ (f = g \/ (f = Field /\ g = "package"))
      BY <2>3, <2>4
    <3>2. a \in sent
      BY <2>3, <2>4
    <3> QED BY <2>4, <3>1, <3>2
  <2>5. CASE a \in sent /\ a \in as /\ (a \in reads \/ (a = "package" /\ Field \in reads))
    BY <2>1, <2>2, <2>5 DEF HearsInAlso
  <2>6. CASE a \in sent /\ a = b /\ (g \in reads \/ (g = "package" /\ Field \in reads))
    BY <2>1, <2>2, <2>6 DEF HearsInAlso
  <2> QED BY <2>1, <2>4, <2>5, <2>6 DEF HearsInAlso
<1>7. ASSUME NEW f PROVE f \in FieldsOf(ps) <=> FillsInAlso(f, as, g, b, sent)
  <2>1. f \in FieldsOf(ps) <=> \E a : <<f, a>> \in ps
    BY <1>4
  <2>2. f \in sent /\ f \in as => <<f, f>> \in ps
    BY <1>5
  <2>3. f = Field /\ "package" \in sent /\ "package" \in as => <<f, "package">> \in ps
    BY <1>5
  <2>4. b \in sent /\ (f = g \/ (f = Field /\ g = "package")) => <<f, b>> \in ps
    BY <1>5
  <2>5. ASSUME NEW a, <<f, a>> \in ps
        PROVE  \/ f \in sent /\ f \in as
               \/ f = Field /\ "package" \in sent /\ "package" \in as
               \/ b \in sent /\ (f = g \/ (f = Field /\ g = "package"))
    <3>1. a \in sent /\ \/ a \in as /\ (f = a \/ (f = Field /\ a = "package"))
                        \/ a = b /\ (f = g \/ (f = Field /\ g = "package"))
      BY <1>5, <2>5
    <3> QED BY <3>1
  <2> QED BY <2>1, <2>2, <2>3, <2>4, <2>5 DEF FillsInAlso
<1> QED BY <1>6, <1>7 DEF ps, S

\* The same with the parameters in the field package.
LEMMA SayInPackageAlso ==
  ASSUME NEW action, NEW as, NEW g, NEW b, NEW sent, NEW reads
  PROVE  /\ \A a : a \in HeardOf(SayInPackage(action, Same(as) \cup {<<g, b>>}, sent).params, reads) <=>
              HearsInPackage(a, as, g, b, sent, reads)
         /\ \A f : f \in FieldsOf(SayInPackage(action, Same(as) \cup {<<g, b>>}, sent).params) <=> 
              FillsInPackage(f, as, g, b, sent)
<1> DEFINE S  == Same(as) \cup {<<g, b>>}
           ps == SayInPackage(action, S, sent).params
<1>1. Paired(S) /\ \A f, a : <<f, a>> \in S <=> (f = a /\ a \in as) \/ (f = g /\ a = b)
  BY AlsoPairs
<1> HIDE DEF S
<1>2. Paired(ps)
  BY <1>1, SayInPackagePairs, Zenon
<1>3. \A f, a : <<f, a>> \in ps <=> (a \in sent /\ <<f, a>> \in S) \/ (f = Field /\ a = "detail")
  BY <1>1, SayInPackagePairs, Zenon
<1> HIDE DEF ps
<1>4. /\ \A a : a \in HeardOf(ps, reads) <=> \E f : f \in reads /\ <<f, a>> \in ps
      /\ \A f : f \in FieldsOf(ps) <=> \E a : <<f, a>> \in ps
  BY <1>2, PairsHeard, Zenon
<1>5. \A f, a : <<f, a>> \in ps <=>
        \/ a \in sent /\ ((f = a /\ a \in as) \/ (f = g /\ a = b))
        \/ f = Field /\ a = "detail"
  BY <1>1, <1>3, Zenon
<1>6. ASSUME NEW a PROVE a \in HeardOf(ps, reads) <=> HearsInPackage(a, as, g, b, sent, reads)
  <2>1. a \in HeardOf(ps, reads) <=> \E f : f \in reads /\ <<f, a>> \in ps
    BY <1>4
  <2>2. /\ a \in sent /\ a \in as => <<a, a>> \in ps
        /\ a \in sent /\ a = b => <<g, a>> \in ps
        /\ a = "detail" => <<Field, a>> \in ps
    BY <1>5
  <2>3. \A f : <<f, a>> \in ps => \/ a \in sent /\ ((f = a /\ a \in as) \/ (f = g /\ a = b))
                                  \/ f = Field /\ a = "detail"
    BY <1>5
  <2> QED BY <2>1, <2>2, <2>3 DEF HearsInPackage
<1>7. ASSUME NEW f PROVE f \in FieldsOf(ps) <=> FillsInPackage(f, as, g, b, sent)
  <2>1. f \in FieldsOf(ps) <=> \E a : <<f, a>> \in ps
    BY <1>4
  <2>2. /\ f \in sent /\ f \in as => <<f, f>> \in ps
        /\ b \in sent /\ f = g => <<f, b>> \in ps
        /\ f = Field => <<f, "detail">> \in ps
    BY <1>5
  <2>3. ASSUME NEW a, <<f, a>> \in ps
        PROVE  f = Field \/ (f \in sent /\ f \in as) \/ (f = g /\ b \in sent)
    <3>1. \/ a \in sent /\ ((f = a /\ a \in as) \/ (f = g /\ a = b))
          \/ f = Field /\ a = "detail"
      BY <1>5, <2>3
    <3> QED BY <3>1
  <2> QED BY <2>1, <2>2, <2>3 DEF FillsInPackage
<1> QED BY <1>6, <1>7 DEF ps, S

\* A handler that needs and reads these fields is right when it needs nothing that is not sent, and
\* loses of what was given what it is known to lose.
LEMMA PlainRight ==
  ASSUME NEW q, NEW given, NEW action, NEW as, NEW sent, NEW needs, NEW reads,
         q.params = Say(action, Same(as), sent).params,
         HandlerOf(q) = H(needs, reads),
         \A f \in needs : FillsInSame(f, as, sent),
         \A a \in given : a \notin Lost(q) <=> HearsInSame(a, as, sent, needs \cup reads)
  PROVE  Right(q, given)
<1> DEFINE ps == Say(action, Same(as), sent).params
<1>1. HandlerOf(q).needs = needs /\ HandlerOf(q).reads = needs \cup reads
  BY DEF H
<1>2. /\ \A a : a \in HeardOf(ps, needs \cup reads) <=> HearsInSame(a, as, sent, needs \cup reads)
      /\ \A f : f \in FieldsOf(ps) <=> FillsInSame(f, as, sent)
  BY SaySame
<1>3. q.params = ps
  OBVIOUS
<1> HIDE DEF ps
<1>4. Answered(q)
  BY <1>1, <1>2, <1>3 DEF Answered, FieldsOf
<1>5. Heard(q) = HeardOf(ps, needs \cup reads)
  BY <1>1, <1>3 DEF Heard, HeardOf
<1>6. \A a \in given : a \notin Lost(q) <=> a \in Heard(q)
  BY <1>2, <1>5
<1> QED BY <1>4, <1>6 DEF Right

LEMMA AlsoRight ==
  ASSUME NEW q, NEW given, NEW action, NEW as, NEW g, NEW b, NEW needs, NEW reads,
         q.params = Say(action, Same(as) \cup {<<g, b>>}, given).params,
         HandlerOf(q) = H(needs, reads),
         \A f \in needs : FillsInAlso(f, as, g, b, given),
         \A a \in given : a \notin Lost(q) <=> HearsInAlso(a, as, g, b, given, needs \cup reads)
  PROVE  Right(q, given)
<1> DEFINE ps == Say(action, Same(as) \cup {<<g, b>>}, given).params
<1>1. HandlerOf(q).needs = needs /\ HandlerOf(q).reads = needs \cup reads
  BY DEF H
<1>2. /\ \A a : a \in HeardOf(ps, needs \cup reads) <=> HearsInAlso(a, as, g, b, given, needs \cup reads)
      /\ \A f : f \in FieldsOf(ps) <=> FillsInAlso(f, as, g, b, given)
  BY SayAlso
<1>3. q.params = ps
  OBVIOUS
<1> HIDE DEF ps
<1>4. Answered(q)
  BY <1>1, <1>2, <1>3 DEF Answered, FieldsOf
<1>5. Heard(q) = HeardOf(ps, needs \cup reads)
  BY <1>1, <1>3 DEF Heard, HeardOf
<1>6. \A a \in given : a \notin Lost(q) <=> a \in Heard(q)
  BY <1>2, <1>5
<1> QED BY <1>4, <1>6 DEF Right

LEMMA InPackageRight ==
  ASSUME NEW q, NEW given, NEW action, NEW as, NEW g, NEW b, NEW needs, NEW reads,
         q.params = SayInPackage(action, Same(as) \cup {<<g, b>>}, given).params,
         HandlerOf(q) = H(needs, reads),
         \A f \in needs : FillsInPackage(f, as, g, b, given),
         \A a \in given : a \notin Lost(q) <=> HearsInPackage(a, as, g, b, given, needs \cup reads)
  PROVE  Right(q, given)
<1> DEFINE ps == SayInPackage(action, Same(as) \cup {<<g, b>>}, given).params
<1>1. HandlerOf(q).needs = needs /\ HandlerOf(q).reads = needs \cup reads
  BY DEF H
<1>2. /\ \A a : a \in HeardOf(ps, needs \cup reads) <=> HearsInPackage(a, as, g, b, given, needs \cup reads)
      /\ \A f : f \in FieldsOf(ps) <=> FillsInPackage(f, as, g, b, given)
  BY SayInPackageAlso
<1>3. q.params = ps
  OBVIOUS
<1> HIDE DEF ps
<1>4. Answered(q)
  BY <1>1, <1>2, <1>3 DEF Answered, FieldsOf
<1>5. Heard(q) = HeardOf(ps, needs \cup reads)
  BY <1>1, <1>3 DEF Heard, HeardOf
<1>6. \A a \in given : a \notin Lost(q) <=> a \in Heard(q)
  BY <1>2, <1>5
<1> QED BY <1>4, <1>6 DEF Right

\* The query of a search is in the field package, and a search is for everything without one.
LEMMA AskRight ==
  ASSUME NEW q, NEW arg, NEW needs, NEW reads,
         q.params = {<<Field, arg>>}, HandlerOf(q) = H(needs, reads),
         needs \subseteq {Field}, Field \in needs \cup reads, Lost(q) = {}
  PROVE  Right(q, {arg})
<1>1. HandlerOf(q).needs = needs /\ HandlerOf(q).reads = needs \cup reads
  BY DEF H
<1>2. <<Field, arg>>[1] = Field /\ <<Field, arg>>[2] = arg
  OBVIOUS
<1>3. Answered(q)
  BY <1>1, <1>2 DEF Answered
<1>4. Heard(q) = {arg}
  BY <1>1, <1>2 DEF Heard
<1> QED BY <1>3, <1>4 DEF Right

\* What is sent under the name of a command that has one handler for everybody.
LEMMA PlainIsHeard ==
  ASSUME NEW n, NEW given, NEW root, NEW action, NEW as, NEW sent, NEW needs, NEW reads, NEW lost,
         RequestOf(n, given) = Say(action, Same(as), sent),
         \A q : q.action = action => HandlerOf(q) = H(needs, reads) /\ Lost(q) = lost,
         \A f \in needs : FillsInSame(f, as, sent),
         \A a \in given : a \notin lost <=> HearsInSame(a, as, sent, needs \cup reads)
  PROVE  Right(Sending(n, given, root), given)
<1> DEFINE q == Sending(n, given, root)
<1>1. q.action = action /\ q.params = Say(action, Same(as), sent).params
  BY DEF Sending, Say
<1> HIDE DEF q
<1>2. HandlerOf(q) = H(needs, reads) /\ Lost(q) = lost
  BY <1>1
<1>3. Right(q, given)
  BY <1>1, <1>2, PlainRight, Zenon
<1> QED BY <1>3 DEF q

LEMMA RemoveIsHeard ==
  ASSUME NEW given, NEW root, {"package"} \subseteq given, given \subseteq {"package", "yes"}
  PROVE  Right(Sending("remove", given, root), given)
<1>1. RequestOf("remove", given) = Say("remove", Same({"package", "yes"}), given)
  BY DEF RequestOf, KeyRequest, RepoRequest, ToolRequest, PackageRequest, SystemRequest
<1>2. \A q : q.action = "remove" => HandlerOf(q) = H({Field}, {}) /\ Lost(q) = {"yes"}
  BY DEF HandlerOf, InstallHandler, UpkeepHandler, RepoHandler, FileHandler, QueryHandler, AdminHandler,
         PublishHandler, ToolHandler, Lost, Nothing
<1>3. \A f \in {Field} : FillsInSame(f, {"package", "yes"}, given)
  BY DEF FillsInSame
<1>4. \A a \in given : a \notin {"yes"} <=>
        HearsInSame(a, {"package", "yes"}, given, {Field} \cup {})
  BY DEF HearsInSame, Field
<1> QED BY <1>1, <1>2, <1>3, <1>4, PlainIsHeard, Zenon

LEMMA PurgeIsHeard ==
  ASSUME NEW given, NEW root, {"package"} \subseteq given, given \subseteq {"package"}
  PROVE  Right(Sending("purge", given, root), given)
<1>1. RequestOf("purge", given) = Say("purge", Same({"package", "yes"}), given)
  BY DEF RequestOf, KeyRequest, RepoRequest, ToolRequest, PackageRequest, SystemRequest
<1>2. \A q : q.action = "purge" => HandlerOf(q) = H({Field}, {}) /\ Lost(q) = {}
  BY DEF HandlerOf, InstallHandler, UpkeepHandler, RepoHandler, FileHandler, QueryHandler, AdminHandler,
         PublishHandler, ToolHandler, Lost, Nothing
<1>3. \A f \in {Field} : FillsInSame(f, {"package", "yes"}, given)
  BY DEF FillsInSame
<1>4. \A a \in given : a \notin {} <=>
        HearsInSame(a, {"package", "yes"}, given, {Field} \cup {})
  BY DEF HearsInSame, Field
<1> QED BY <1>1, <1>2, <1>3, <1>4, PlainIsHeard, Zenon

LEMMA UpkeepIsHeard ==
  ASSUME NEW n \in {"autoremove", "dist-upgrade"}, NEW given, NEW root, given \subseteq {"yes"}
  PROVE  Right(Sending(n, given, root), given)
<1>1. RequestOf(n, given) = Say(n, Same({"yes"}), given)
  BY DEF RequestOf, KeyRequest, RepoRequest, ToolRequest, PackageRequest, SystemRequest
<1>2. \A q : q.action = n => HandlerOf(q) = H({}, {"yes"}) /\ Lost(q) = {}
  BY DEF HandlerOf, InstallHandler, UpkeepHandler, RepoHandler, FileHandler, QueryHandler, AdminHandler,
         PublishHandler, ToolHandler, Lost, Nothing
<1>3. \A f \in {} : FillsInSame(f, {"yes"}, given)
  BY DEF FillsInSame
<1>4. \A a \in given : a \notin {} <=>
        HearsInSame(a, {"yes"}, given, {} \cup {"yes"})
  BY DEF HearsInSame, Field
<1> QED BY <1>1, <1>2, <1>3, <1>4, PlainIsHeard, Zenon

LEMMA CleanupIsHeard ==
  ASSUME NEW given, NEW root, given \subseteq {"force"}
  PROVE  Right(Sending("cleanup", given, root), given)
<1>1. RequestOf("cleanup", given) = Say("cleanup", Same({"force"}), given)
  BY DEF RequestOf, KeyRequest, RepoRequest, ToolRequest, PackageRequest, SystemRequest
<1>2. \A q : q.action = "cleanup" => HandlerOf(q) = H({}, {"force"}) /\ Lost(q) = {}
  BY DEF HandlerOf, InstallHandler, UpkeepHandler, RepoHandler, FileHandler, QueryHandler, AdminHandler,
         PublishHandler, ToolHandler, Lost, Nothing
<1>3. \A f \in {} : FillsInSame(f, {"force"}, given)
  BY DEF FillsInSame
<1>4. \A a \in given : a \notin {} <=>
        HearsInSame(a, {"force"}, given, {} \cup {"force"})
  BY DEF HearsInSame, Field
<1> QED BY <1>1, <1>2, <1>3, <1>4, PlainIsHeard, Zenon

LEMMA DetectIsHeard ==
  ASSUME NEW given, NEW root, given \subseteq {"install"}
  PROVE  Right(Sending("detect", given, root), given)
<1>1. RequestOf("detect", given) = Say("detect", Same({"install"}), given)
  BY DEF RequestOf, KeyRequest, RepoRequest, ToolRequest, PackageRequest, SystemRequest
<1>2. \A q : q.action = "detect" => HandlerOf(q) = H({}, {"install"}) /\ Lost(q) = {}
  BY DEF HandlerOf, InstallHandler, UpkeepHandler, RepoHandler, FileHandler, QueryHandler, AdminHandler,
         PublishHandler, ToolHandler, Lost, Nothing
<1>3. \A f \in {} : FillsInSame(f, {"install"}, given)
  BY DEF FillsInSame
<1>4. \A a \in given : a \notin {} <=>
        HearsInSame(a, {"install"}, given, {} \cup {"install"})
  BY DEF HearsInSame, Field
<1> QED BY <1>1, <1>2, <1>3, <1>4, PlainIsHeard, Zenon

LEMMA BuildIsHeard ==
  ASSUME NEW given, NEW root, {"path"} \subseteq given, given \subseteq {"path", "output", "sign"}
  PROVE  Right(Sending("build", given, root), given)
<1>1. RequestOf("build", given) = Say("build", Same({"path", "output", "sign"}), given)
  BY DEF RequestOf, KeyRequest, RepoRequest, ToolRequest, PackageRequest, SystemRequest
<1>2. \A q : q.action = "build" => HandlerOf(q) = H({"path"}, {"output", "sign"}) /\ Lost(q) = {}
  BY DEF HandlerOf, InstallHandler, UpkeepHandler, RepoHandler, FileHandler, QueryHandler, AdminHandler,
         PublishHandler, ToolHandler, Lost, Nothing
<1>3. \A f \in {"path"} : FillsInSame(f, {"path", "output", "sign"}, given)
  BY DEF FillsInSame
<1>4. \A a \in given : a \notin {} <=>
        HearsInSame(a, {"path", "output", "sign"}, given, {"path"} \cup {"output", "sign"})
  BY DEF HearsInSame, Field
<1> QED BY <1>1, <1>2, <1>3, <1>4, PlainIsHeard, Zenon

LEMMA SyncIsHeard ==
  ASSUME NEW given, NEW root, given \subseteq {"files", "prune"}
  PROVE  Right(Sending("sync", given, root), given)
<1>1. RequestOf("sync", given) = Say("sync", Same({"files", "prune"}), given)
  BY DEF RequestOf, KeyRequest, RepoRequest, ToolRequest, PackageRequest, SystemRequest
<1>2. \A q : q.action = "sync" => HandlerOf(q) = H({}, {"files", "prune"}) /\ Lost(q) = {}
  BY DEF HandlerOf, InstallHandler, UpkeepHandler, RepoHandler, FileHandler, QueryHandler, AdminHandler,
         PublishHandler, ToolHandler, Lost, Nothing
<1>3. \A f \in {} : FillsInSame(f, {"files", "prune"}, given)
  BY DEF FillsInSame
<1>4. \A a \in given : a \notin {} <=>
        HearsInSame(a, {"files", "prune"}, given, {} \cup {"files", "prune"})
  BY DEF HearsInSame, Field
<1> QED BY <1>1, <1>2, <1>3, <1>4, PlainIsHeard, Zenon

LEMMA FsckIsHeard ==
  ASSUME NEW given, NEW root, given \subseteq {"fix", "files"}
  PROVE  Right(Sending("fsck", given, root), given)
<1>1. RequestOf("fsck", given) = Say("fsck", Same({"fix", "files"}), given)
  BY DEF RequestOf, KeyRequest, RepoRequest, ToolRequest, PackageRequest, SystemRequest
<1>2. \A q : q.action = "fsck" => HandlerOf(q) = H({}, {"fix", "files"}) /\ Lost(q) = {}
  BY DEF HandlerOf, InstallHandler, UpkeepHandler, RepoHandler, FileHandler, QueryHandler, AdminHandler,
         PublishHandler, ToolHandler, Lost, Nothing
<1>3. \A f \in {} : FillsInSame(f, {"fix", "files"}, given)
  BY DEF FillsInSame
<1>4. \A a \in given : a \notin {} <=>
        HearsInSame(a, {"fix", "files"}, given, {} \cup {"fix", "files"})
  BY DEF HearsInSame, Field
<1> QED BY <1>1, <1>2, <1>3, <1>4, PlainIsHeard, Zenon

LEMMA InitIsHeard ==
  ASSUME NEW given, NEW root, given \subseteq {"root", "from_system", "fix_backend", "install_daemon"}
  PROVE  Right(Sending("init", given, root), given)
<1> DEFINE as == {"root", "from_system", "fix_backend", "install_daemon"}
<1>1. RequestOf("init", given) = Say("init", Same(as), given)
  BY DEF RequestOf, KeyRequest, RepoRequest, ToolRequest, PackageRequest, SystemRequest
<1>2. \A q : q.action = "init" => HandlerOf(q) = H({}, as) /\ Lost(q) = {}
  BY DEF HandlerOf, InstallHandler, UpkeepHandler, RepoHandler, FileHandler, QueryHandler, AdminHandler,
         PublishHandler, ToolHandler, Lost, Nothing
<1>3. \A f \in {} : FillsInSame(f, as, given)
  BY DEF FillsInSame
<1>4. \A a \in given : a \notin {} <=>
        HearsInSame(a, as, given, {} \cup as)
  BY DEF HearsInSame, Field
<1> HIDE DEF as
<1> QED BY <1>1, <1>2, <1>3, <1>4, PlainIsHeard, Zenon

LEMMA SelfUpdateIsHeard ==
  ASSUME NEW given, NEW root, given \subseteq {"check", "version"}
  PROVE  Right(Sending("self-update", given, root), given)
<1>1. RequestOf("self-update", given) = Say("self-update", Same({"check", "version"}), given)
  BY DEF RequestOf, KeyRequest, RepoRequest, ToolRequest, PackageRequest, SystemRequest
<1>2. \A q : q.action = "self-update" => HandlerOf(q) = H({}, {"check", "version"}) /\ Lost(q) = {}
  BY DEF HandlerOf, InstallHandler, UpkeepHandler, RepoHandler, FileHandler, QueryHandler, AdminHandler,
         PublishHandler, ToolHandler, Lost, Nothing
<1>3. \A f \in {} : FillsInSame(f, {"check", "version"}, given)
  BY DEF FillsInSame
<1>4. \A a \in given : a \notin {} <=>
        HearsInSame(a, {"check", "version"}, given, {} \cup {"check", "version"})
  BY DEF HearsInSame, Field
<1> QED BY <1>1, <1>2, <1>3, <1>4, PlainIsHeard, Zenon

LEMMA ConfigSetIsHeard ==
  ASSUME NEW given, NEW root, {"key", "value"} \subseteq given, given \subseteq {"key", "value"}
  PROVE  Right(Sending("config set", given, root), given)
<1>1. RequestOf("config set", given) = Say("config-set", Same({"key", "value"}), given)
  BY DEF RequestOf, KeyRequest, RepoRequest, ToolRequest, PackageRequest, SystemRequest
<1>2. \A q : q.action = "config-set" => HandlerOf(q) = H({"key", "value"}, {}) /\ Lost(q) = {}
  BY DEF HandlerOf, InstallHandler, UpkeepHandler, RepoHandler, FileHandler, QueryHandler, AdminHandler,
         PublishHandler, ToolHandler, Lost, Nothing
<1>3. \A f \in {"key", "value"} : FillsInSame(f, {"key", "value"}, given)
  BY DEF FillsInSame
<1>4. \A a \in given : a \notin {} <=>
        HearsInSame(a, {"key", "value"}, given, {"key", "value"} \cup {})
  BY DEF HearsInSame, Field
<1> QED BY <1>1, <1>2, <1>3, <1>4, PlainIsHeard, Zenon

LEMMA PublishIsHeard ==
  ASSUME NEW given, NEW root, {"name", "package"} \subseteq given, given \subseteq {"name", "package"}
  PROVE  Right(Sending("repo publish", given, root), given)
<1>1. RequestOf("repo publish", given) = Say("repo-publish", Same({"name", "package"}), given)
  BY DEF RequestOf, KeyRequest, RepoRequest, ToolRequest, PackageRequest, SystemRequest
<1>2. \A q : q.action = "repo-publish" => HandlerOf(q) = H({"name", "package"}, {}) /\ Lost(q) = {}
  BY DEF HandlerOf, InstallHandler, UpkeepHandler, RepoHandler, FileHandler, QueryHandler, AdminHandler,
         PublishHandler, ToolHandler, Lost, Nothing
<1>3. \A f \in {"name", "package"} : FillsInSame(f, {"name", "package"}, given)
  BY DEF FillsInSame
<1>4. \A a \in given : a \notin {} <=>
        HearsInSame(a, {"name", "package"}, given, {"name", "package"} \cup {})
  BY DEF HearsInSame, Field
<1> QED BY <1>1, <1>2, <1>3, <1>4, PlainIsHeard, Zenon

LEMMA GroupChangeIsHeard ==
  ASSUME NEW n \in {"group add", "group remove"}, NEW given, NEW root, {"user"} \subseteq given,
         given \subseteq {"user"}
  PROVE  Right(Sending(n, given, root), given)
<1>1. RequestOf(n, given) = Say(n, Same({"user"}), given)
  BY DEF RequestOf, KeyRequest, RepoRequest, ToolRequest, PackageRequest, SystemRequest
<1>2. \A q : q.action = n => HandlerOf(q) = H({"user"}, {}) /\ Lost(q) = {}
  BY DEF HandlerOf, InstallHandler, UpkeepHandler, RepoHandler, FileHandler, QueryHandler, AdminHandler,
         PublishHandler, ToolHandler, Lost, Nothing
<1>3. \A f \in {"user"} : FillsInSame(f, {"user"}, given)
  BY DEF FillsInSame
<1>4. \A a \in given : a \notin {} <=>
        HearsInSame(a, {"user"}, given, {"user"} \cup {})
  BY DEF HearsInSame, Field
<1> QED BY <1>1, <1>2, <1>3, <1>4, PlainIsHeard, Zenon

\* A command without arguments is right if there is a handler that needs nothing.
LEMMA BareIsHeard ==
  ASSUME NEW n \in {"update", "index rebuild", "ps", "sandbox list", "config show", "repo list",
                    "group create", "group list"}, NEW root
  PROVE  Right(Sending(n, {}, root), {})
<1> DEFINE q == Sending(n, {}, root)
<1>1. q.action = CASE n = "index rebuild" -> "index-rebuild" [] n = "sandbox list" -> "sandbox-list"
                   [] n = "config show" -> "config-show" [] n = "repo list" -> "repo-list" [] OTHER -> n
  BY DEF Sending, Say, RequestOf, KeyRequest, RepoRequest, ToolRequest, PackageRequest, SystemRequest
<1>2. q.action \in {"update", "index-rebuild", "ps", "sandbox-list", "config-show", "repo-list",
                   "group create", "group list"}
  BY <1>1
<1> HIDE DEF q
<1>3. HandlerOf(q).needs = {}
  BY <1>2 DEF HandlerOf, InstallHandler, UpkeepHandler, RepoHandler, FileHandler, QueryHandler, AdminHandler,
              PublishHandler, ToolHandler, H, Nothing
<1>4. Right(q, {})
  BY <1>3 DEF Right, Answered
<1> QED BY <1>4 DEF q

LEMMA UpgradeIsHeard ==
  ASSUME NEW given, NEW root, given \subseteq {"package"} \cup Strategies
  PROVE  Right(Sending("upgrade", given, root), given)
<1> DEFINE as == {"package"} \cup Strategies
           reads == {Field} \cup Strategies
<1>1. RequestOf("upgrade", given) = Say("upgrade", Same(as), given)
  BY DEF RequestOf, KeyRequest, RepoRequest, ToolRequest, PackageRequest, SystemRequest
<1>2. \A q : q.action = "upgrade" => HandlerOf(q) = H({}, reads) /\ Lost(q) = {}
  BY DEF HandlerOf, InstallHandler, UpkeepHandler, RepoHandler, FileHandler, QueryHandler, AdminHandler,
         PublishHandler, ToolHandler, Lost, Nothing
<1>3. \A f \in {} : FillsInSame(f, as, given)
  OBVIOUS
<1>4. \A a \in given : a \notin {} <=> HearsInSame(a, as, given, {} \cup reads)
  BY DEF HearsInSame, Field
<1> QED BY <1>1, <1>2, <1>3, <1>4, PlainIsHeard, Zenon

\* The client puts the source in when it is not given.
LEMMA CreateIsHeard ==
  ASSUME NEW given, NEW root, {"name"} \subseteq given,
         given \subseteq {"name", "source", "path", "codename", "component", "mirror"}
  PROVE  Right(Sending("repo create", given, root), given)
<1> DEFINE as    == {"name", "source", "path", "codename", "component", "mirror"}
           reads == {"path", "codename", "component", "mirror"}
           sent  == given \cup {"source"}
<1>1. RequestOf("repo create", given) = Say("repo-create", Same(as), sent)
  BY DEF RequestOf, KeyRequest, RepoRequest, ToolRequest, PackageRequest, SystemRequest
<1>2. \A q : q.action = "repo-create" => HandlerOf(q) = H({"name", "source"}, reads) /\ Lost(q) = {}
  BY DEF HandlerOf, InstallHandler, UpkeepHandler, RepoHandler, FileHandler, QueryHandler, AdminHandler,
         PublishHandler, ToolHandler, Lost, Nothing
<1>3. \A f \in {"name", "source"} : FillsInSame(f, as, sent)
  BY DEF FillsInSame
<1>4. \A a \in given : a \notin {} <=> HearsInSame(a, as, sent, {"name", "source"} \cup reads)
  BY DEF HearsInSame, Field
<1> HIDE DEF as, sent, reads
<1> QED BY <1>1, <1>2, <1>3, <1>4, PlainIsHeard, Zenon

\* With a trace the mode is not read.
LEMMA AnalyzeIsHeard ==
  ASSUME NEW given, NEW root, given \subseteq {"mode", "trace"}
  PROVE  Right(Sending("analyze", given, root), given)
<1> DEFINE q  == Sending("analyze", given, root)
           as == {"mode", "trace"}
           reads == IF "trace" \in given THEN {"trace"} ELSE {"mode", "trace"}
           lost  == IF "trace" \in given THEN {"mode"} ELSE {}
<1>1. RequestOf("analyze", given) = Say("analyze", Same(as), given)
  BY DEF RequestOf, KeyRequest, RepoRequest, ToolRequest, PackageRequest, SystemRequest
<1>2. q.action = "analyze" /\ q.params = Say("analyze", Same(as), given).params
  BY <1>1 DEF Sending, Say
<1> HIDE DEF q
<1>3. <<"trace", "trace">> \in q.params <=> "trace" \in given
  <2>1. Paired(Same(as)) /\ \A f, a : <<f, a>> \in Same(as) <=> f = a /\ a \in as
    BY SamePairs
  <2> DEFINE ps == Say("analyze", Same(as), given).params
  <2>2. \A f, a : <<f, a>> \in ps <=>
          a \in given /\ (<<f, a>> \in Same(as) \/ (f = Field /\ <<"package", a>> \in Same(as)))
    <3> HIDE DEF as
    <3> QED BY <2>1, SayPairs, Zenon
  <2>3. q.params = ps
    BY <1>2
  <2> HIDE DEF ps
  <2> QED BY <2>1, <2>2, <2>3 DEF Field
<1>4. HandlerOf(q) = H({}, reads) /\ Lost(q) = lost
  BY <1>2, <1>3 DEF HandlerOf, InstallHandler, UpkeepHandler, RepoHandler, FileHandler, QueryHandler,
                    AdminHandler, PublishHandler, ToolHandler, Lost, Nothing
<1>5. \A f \in {} : FillsInSame(f, as, given)
  OBVIOUS
<1>6. \A a \in given : a \notin Lost(q) <=> HearsInSame(a, as, given, {} \cup reads)
  BY <1>4 DEF HearsInSame
<1>7. Right(q, given)
  BY <1>2, <1>4, <1>5, <1>6, PlainRight, Zenon
<1> QED BY <1>7 DEF q

\* With an argument in a field of another name.
LEMMA AlsoIsHeard ==
  ASSUME NEW n, NEW given, NEW root, NEW action, NEW as, NEW g, NEW b, NEW needs, NEW reads, NEW lost,
         RequestOf(n, given) = Say(action, Same(as) \cup {<<g, b>>}, given),
         \A q : q.action = action => HandlerOf(q) = H(needs, reads) /\ Lost(q) = lost,
         \A f \in needs : FillsInAlso(f, as, g, b, given),
         \A a \in given : a \notin lost <=> HearsInAlso(a, as, g, b, given, needs \cup reads)
  PROVE  Right(Sending(n, given, root), given)
<1> DEFINE q == Sending(n, given, root)
<1>1. q.action = action /\ q.params = Say(action, Same(as) \cup {<<g, b>>}, given).params
  BY DEF Sending, Say
<1> HIDE DEF q
<1>2. HandlerOf(q) = H(needs, reads) /\ Lost(q) = lost
  BY <1>1
<1>3. Right(q, given)
  BY <1>1, <1>2, AlsoRight, Zenon
<1> QED BY <1>3 DEF q

\* With the parameters as text in the field package.
LEMMA InPackageIsHeard ==
  ASSUME NEW n, NEW given, NEW root, NEW action, NEW as, NEW g, NEW b, NEW needs, NEW reads, NEW lost,
         RequestOf(n, given) = SayInPackage(action, Same(as) \cup {<<g, b>>}, given),
         \A q : q.action = action => HandlerOf(q) = H(needs, reads) /\ Lost(q) = lost,
         "detail" \notin given,
         \A f \in needs : FillsInPackage(f, as, g, b, given),
         \A a \in given : a \notin lost <=> HearsInPackage(a, as, g, b, given, needs \cup reads)
  PROVE  Right(Sending(n, given, root), given)
<1> DEFINE q == Sending(n, given, root)
<1>1. q.action = action /\ q.params = SayInPackage(action, Same(as) \cup {<<g, b>>}, given).params
  BY DEF Sending, SayInPackage
<1> HIDE DEF q
<1>2. HandlerOf(q) = H(needs, reads) /\ Lost(q) = lost
  BY <1>1
<1>3. Right(q, given)
  BY <1>1, <1>2, InPackageRight, Zenon
<1> QED BY <1>3 DEF q

LEMMA SandboxRunIsHeard ==
  ASSUME NEW given, NEW root, {"package"} \subseteq given, given \subseteq {"package", "command"}
  PROVE  Right(Sending("sandbox run", given, root), given)
<1> DEFINE as == {"package"}
<1>1. RequestOf("sandbox run", given) = Say("sandbox-run", Same(as) \cup {<<"commands", "command">>}, given)
  BY DEF RequestOf, KeyRequest, RepoRequest, ToolRequest, PackageRequest, SystemRequest, Same
<1>2. \A q : q.action = "sandbox-run" => HandlerOf(q) = H({"package"}, {"commands"}) /\ Lost(q) = {}
  BY DEF HandlerOf, InstallHandler, UpkeepHandler, RepoHandler, FileHandler, QueryHandler, AdminHandler,
         PublishHandler, ToolHandler, Lost, Nothing
<1>3. \A f \in {"package"} : FillsInAlso(f, as, "commands", "command", given)
  BY DEF FillsInAlso, Field
<1>4. \A a \in given : a \notin {} <=>
        HearsInAlso(a, as, "commands", "command", given, {"package"} \cup {"commands"})
  BY DEF HearsInAlso, Field
<1> HIDE DEF as
<1> QED BY <1>1, <1>2, <1>3, <1>4, AlsoIsHeard, Zenon

LEMMA HistoryIsHeard ==
  ASSUME NEW given, NEW root, given \subseteq {"undo"}
  PROVE  Right(Sending("history", given, root), given)
<1> DEFINE as == {}
<1>1. RequestOf("history", given) = Say("history", Same(as) \cup {<<"id", "undo">>}, given)
  BY DEF RequestOf, KeyRequest, RepoRequest, ToolRequest, PackageRequest, SystemRequest, Same
<1>2. \A q : q.action = "history" => HandlerOf(q) = H({}, {"id"}) /\ Lost(q) = {}
  BY DEF HandlerOf, InstallHandler, UpkeepHandler, RepoHandler, FileHandler, QueryHandler, AdminHandler,
         PublishHandler, ToolHandler, Lost, Nothing
<1>3. \A f \in {} : FillsInAlso(f, as, "id", "undo", given)
  BY DEF FillsInAlso, Field
<1>4. \A a \in given : a \notin {} <=>
        HearsInAlso(a, as, "id", "undo", given, {} \cup {"id"})
  BY DEF HearsInAlso, Field
<1> HIDE DEF as
<1> QED BY <1>1, <1>2, <1>3, <1>4, AlsoIsHeard, Zenon

LEMMA GenKeyIsHeard ==
  ASSUME NEW given, NEW root, {"name"} \subseteq given, given \subseteq {"name"}
  PROVE  Right(Sending("repo gen-key", given, root), given)
<1> DEFINE as == {}
<1>1. RequestOf("repo gen-key", given) = Say("repo-gen-key", Same(as) \cup {<<"package", "name">>}, given)
  BY DEF RequestOf, KeyRequest, RepoRequest, ToolRequest, PackageRequest, SystemRequest, Same
<1>2. \A q : q.action = "repo-gen-key" => HandlerOf(q) = H({Field}, {}) /\ Lost(q) = {}
  BY DEF HandlerOf, InstallHandler, UpkeepHandler, RepoHandler, FileHandler, QueryHandler, AdminHandler,
         PublishHandler, ToolHandler, Lost, Nothing
<1>3. \A f \in {Field} : FillsInAlso(f, as, "package", "name", given)
  BY DEF FillsInAlso, Field
<1>4. \A a \in given : a \notin {} <=>
        HearsInAlso(a, as, "package", "name", given, {Field} \cup {})
  BY DEF HearsInAlso, Field
<1> HIDE DEF as
<1> QED BY <1>1, <1>2, <1>3, <1>4, AlsoIsHeard, Zenon

LEMMA SignIsHeard ==
  ASSUME NEW given, NEW root, {"name"} \subseteq given, given \subseteq {"name"}
  PROVE  Right(Sending("repo sign", given, root), given)
<1> DEFINE as == {}
<1>1. RequestOf("repo sign", given) = Say("repo-sign", Same(as) \cup {<<"package", "name">>}, given)
  BY DEF RequestOf, KeyRequest, RepoRequest, ToolRequest, PackageRequest, SystemRequest, Same
<1>2. \A q : q.action = "repo-sign" => HandlerOf(q) = H({Field}, {}) /\ Lost(q) = {}
  BY DEF HandlerOf, InstallHandler, UpkeepHandler, RepoHandler, FileHandler, QueryHandler, AdminHandler,
         PublishHandler, ToolHandler, Lost, Nothing
<1>3. \A f \in {Field} : FillsInAlso(f, as, "package", "name", given)
  BY DEF FillsInAlso, Field
<1>4. \A a \in given : a \notin {} <=>
        HearsInAlso(a, as, "package", "name", given, {Field} \cup {})
  BY DEF HearsInAlso, Field
<1> HIDE DEF as
<1> QED BY <1>1, <1>2, <1>3, <1>4, AlsoIsHeard, Zenon

LEMMA SnapshotCreateIsHeard ==
  ASSUME NEW given, NEW root, given \subseteq {}
  PROVE  Right(Sending("snapshot create", given, root), given)
<1> DEFINE as == {"id"}
<1>1. RequestOf("snapshot create", given) = SayInPackage("snapshot create", Same(as) \cup {<<"id", "id">>}, given)
  BY DEF RequestOf, KeyRequest, RepoRequest, ToolRequest, PackageRequest, SystemRequest, Same
<1>2. \A q : q.action = "snapshot create" => HandlerOf(q) = H({Field}, {}) /\ Lost(q) = {}
  BY DEF HandlerOf, InstallHandler, UpkeepHandler, RepoHandler, FileHandler, QueryHandler, AdminHandler,
         PublishHandler, ToolHandler, Lost, Nothing
<1>3. \A f \in {Field} : FillsInPackage(f, as, "id", "id", given)
  BY DEF FillsInPackage, Field
<1>4. \A a \in given : a \notin {} <=>
        HearsInPackage(a, as, "id", "id", given, {Field} \cup {})
  BY DEF HearsInPackage, Field
<1>5. "detail" \notin given
  OBVIOUS
<1> HIDE DEF as
<1> QED BY <1>1, <1>2, <1>3, <1>4, <1>5, InPackageIsHeard, Zenon

LEMMA SnapshotRollbackIsHeard ==
  ASSUME NEW given, NEW root, {"id"} \subseteq given, given \subseteq {"id"}
  PROVE  Right(Sending("snapshot rollback", given, root), given)
<1> DEFINE as == {"id"}
<1>1. RequestOf("snapshot rollback", given) = SayInPackage("snapshot rollback", Same(as) \cup {<<"id", "id">>}, given)
  BY DEF RequestOf, KeyRequest, RepoRequest, ToolRequest, PackageRequest, SystemRequest, Same
<1>2. \A q : q.action = "snapshot rollback" => HandlerOf(q) = H({Field, "id"}, {}) /\ Lost(q) = {}
  BY DEF HandlerOf, InstallHandler, UpkeepHandler, RepoHandler, FileHandler, QueryHandler, AdminHandler,
         PublishHandler, ToolHandler, Lost, Nothing
<1>3. \A f \in {Field, "id"} : FillsInPackage(f, as, "id", "id", given)
  BY DEF FillsInPackage, Field
<1>4. \A a \in given : a \notin {} <=>
        HearsInPackage(a, as, "id", "id", given, {Field, "id"} \cup {})
  BY DEF HearsInPackage, Field
<1>5. "detail" \notin given
  OBVIOUS
<1> HIDE DEF as
<1> QED BY <1>1, <1>2, <1>3, <1>4, <1>5, InPackageIsHeard, Zenon

LEMMA RepoAddIsHeard ==
  ASSUME NEW given, NEW root, {"name"} \subseteq given,
         given \subseteq {"name", "source", "url", "mirror", "priority"}
  PROVE  Right(Sending("repo add", given, root), given)
<1> DEFINE as == {"name", "source", "url"}
<1>1. RequestOf("repo add", given) = SayInPackage("repo add", Same(as) \cup {<<"mirrors", "mirror">>}, given)
  BY DEF RequestOf, KeyRequest, RepoRequest, ToolRequest, PackageRequest, SystemRequest, Same
<1>2. \A q : q.action = "repo add" => /\ HandlerOf(q) = H({Field, "name"}, {"source", "url", "mirrors", "priority"})
                                      /\ Lost(q) = {"priority"}
  BY DEF HandlerOf, InstallHandler, UpkeepHandler, RepoHandler, FileHandler, QueryHandler, AdminHandler,
         PublishHandler, ToolHandler, Lost, Nothing
<1>3. \A f \in {Field, "name"} : FillsInPackage(f, as, "mirrors", "mirror", given)
  BY DEF FillsInPackage, Field
<1>4. \A a \in given : a \notin {"priority"} <=>
        HearsInPackage(a, as, "mirrors", "mirror", given, {Field, "name"} \cup {"source", "url", "mirrors", "priority"})
  BY DEF HearsInPackage, Field
<1>5. "detail" \notin given
  OBVIOUS
<1> HIDE DEF as
<1> QED BY <1>1, <1>2, <1>3, <1>4, <1>5, InPackageIsHeard, Zenon

LEMMA RepoRemoveIsHeard ==
  ASSUME NEW given, NEW root, {"name"} \subseteq given, given \subseteq {"name"}
  PROVE  Right(Sending("repo remove", given, root), given)
<1> DEFINE as == {"name"}
<1>1. RequestOf("repo remove", given) = SayInPackage("repo remove", Same(as) \cup {<<"name", "name">>}, given)
  BY DEF RequestOf, KeyRequest, RepoRequest, ToolRequest, PackageRequest, SystemRequest, Same
<1>2. \A q : q.action = "repo remove" => HandlerOf(q) = H({Field, "name"}, {}) /\ Lost(q) = {}
  BY DEF HandlerOf, InstallHandler, UpkeepHandler, RepoHandler, FileHandler, QueryHandler, AdminHandler,
         PublishHandler, ToolHandler, Lost, Nothing
<1>3. \A f \in {Field, "name"} : FillsInPackage(f, as, "name", "name", given)
  BY DEF FillsInPackage, Field
<1>4. \A a \in given : a \notin {} <=>
        HearsInPackage(a, as, "name", "name", given, {Field, "name"} \cup {})
  BY DEF HearsInPackage, Field
<1>5. "detail" \notin given
  OBVIOUS
<1> HIDE DEF as
<1> QED BY <1>1, <1>2, <1>3, <1>4, <1>5, InPackageIsHeard, Zenon

\* A query has one argument.
LEMMA SearchIsHeard ==
  ASSUME NEW given, NEW root, given = {"query"}
  PROVE  Right(Sending("search", given, root), given)
<1> DEFINE q == Sending("search", given, root)
<1>1. RequestOf("search", given) = Ask("search", "query")
  BY DEF RequestOf, KeyRequest, RepoRequest, ToolRequest, PackageRequest, SystemRequest
<1>2. q.action = "search" /\ q.params = {<<Field, "query">>}
  BY <1>1 DEF Sending, Ask
<1> HIDE DEF q
<1>3. HandlerOf(q) = H({}, {Field}) /\ Lost(q) = {}
  BY <1>2 DEF HandlerOf, InstallHandler, UpkeepHandler, RepoHandler, FileHandler, QueryHandler, AdminHandler,
              PublishHandler, ToolHandler, Lost, Nothing
<1>4. Right(q, {"query"})
  BY <1>2, <1>3, AskRight
<1> QED BY <1>4 DEF q

LEMMA SearchFileIsHeard ==
  ASSUME NEW given, NEW root, given = {"path"}
  PROVE  Right(Sending("search-file", given, root), given)
<1> DEFINE q == Sending("search-file", given, root)
<1>1. RequestOf("search-file", given) = Ask("search-file", "path")
  BY DEF RequestOf, KeyRequest, RepoRequest, ToolRequest, PackageRequest, SystemRequest
<1>2. q.action = "search-file" /\ q.params = {<<Field, "path">>}
  BY <1>1 DEF Sending, Ask
<1> HIDE DEF q
<1>3. HandlerOf(q) = H({Field}, {}) /\ Lost(q) = {}
  BY <1>2 DEF HandlerOf, InstallHandler, UpkeepHandler, RepoHandler, FileHandler, QueryHandler, AdminHandler,
              PublishHandler, ToolHandler, Lost, Nothing
<1>4. Right(q, {"path"})
  BY <1>2, <1>3, AskRight
<1> QED BY <1>4 DEF q

LEMMA QueryIsHeard ==
  ASSUME NEW n \in {"info", "files", "depends", "rdepends"}, NEW given, NEW root, given = {"package"}
  PROVE  Right(Sending(n, given, root), given)
<1> DEFINE q == Sending(n, given, root)
<1>1. RequestOf(n, given) = Ask(n, "package")
  BY DEF RequestOf, KeyRequest, RepoRequest, ToolRequest, PackageRequest, SystemRequest
<1>2. q.action = n /\ q.params = {<<Field, "package">>}
  BY <1>1 DEF Sending, Ask
<1> HIDE DEF q
<1>3. HandlerOf(q) = H({Field}, {}) /\ Lost(q) = {}
  BY <1>2 DEF HandlerOf, InstallHandler, UpkeepHandler, RepoHandler, FileHandler, QueryHandler, AdminHandler,
              PublishHandler, ToolHandler, Lost, Nothing
<1>4. Right(q, {"package"})
  BY <1>2, <1>3, AskRight
<1> QED BY <1>4 DEF q

\* install asks for different things by its options.
LEMMA ConvertIsHeard ==
  ASSUME NEW n \in {"install", "install file"}, NEW given, NEW root,
         {"package", "convert_only"} \subseteq given, given \subseteq {"package"} \cup InstallOptions
  PROVE  Right(Sending(n, given, root), given)
<1> DEFINE lost == {"package"} \cup (InstallOptions \ {"convert_only"})
<1>1. RequestOf(n, given) = Say("convert", Same({}) \cup {<<"path", "convert_only">>}, given)
  BY DEF RequestOf, InstallRequest, Same
<1>2. \A q : q.action = "convert" => HandlerOf(q) = H({"path"}, {}) /\ Lost(q) = lost
  BY DEF HandlerOf, InstallHandler, UpkeepHandler, RepoHandler, FileHandler, QueryHandler, AdminHandler,
         PublishHandler, ToolHandler, Lost, Nothing
<1>3. \A f \in {"path"} : FillsInAlso(f, {}, "path", "convert_only", given)
  BY DEF FillsInAlso
<1>4. \A a \in given : a \notin lost <=> HearsInAlso(a, {}, "path", "convert_only", given, {"path"} \cup {})
  BY DEF HearsInAlso, InstallOptions, Strategies
<1> HIDE DEF lost
<1> QED BY <1>1, <1>2, <1>3, <1>4, AlsoIsHeard, Zenon

LEMMA InstallSandboxIsHeard ==
  ASSUME NEW n \in {"install", "install file"}, NEW given, NEW root, {"package", "sandbox"} \subseteq given,
         given \subseteq {"package"} \cup InstallOptions, "convert_only" \notin given
  PROVE  Right(Sending(n, given, root), given)
<1> DEFINE as    == {"package", "replace", "yes", "smart"} \cup Strategies
           reads == {"level", "replace", "yes", "smart"} \cup Strategies
<1>1. RequestOf(n, given) = Say("install-sandbox", Same(as) \cup {<<"level", "sandbox">>}, given)
  BY DEF RequestOf, InstallRequest
<1>2. \A q : q.action = "install-sandbox" => HandlerOf(q) = H({"package"}, reads) /\ Lost(q) = {}
  BY DEF HandlerOf, InstallHandler, UpkeepHandler, RepoHandler, FileHandler, QueryHandler, AdminHandler,
         PublishHandler, ToolHandler, Lost, Nothing
<1>3. \A f \in {"package"} : FillsInAlso(f, as, "level", "sandbox", given)
  BY DEF FillsInAlso
<1>4. \A a \in given : a \notin {} <=> HearsInAlso(a, as, "level", "sandbox", given, {"package"} \cup reads)
  BY DEF HearsInAlso, InstallOptions, Strategies
<1> HIDE DEF as, reads
<1> QED BY <1>1, <1>2, <1>3, <1>4, AlsoIsHeard, Zenon

LEMMA InstallLocalIsHeard ==
  ASSUME NEW given, NEW root, {"package"} \subseteq given, given \subseteq {"package"} \cup InstallOptions,
         "convert_only" \notin given, "sandbox" \notin given
  PROVE  Right(Sending("install file", given, root), given)
<1> DEFINE as   == {"replace", "yes"}
           lost == {"smart"} \cup Strategies
<1>1. RequestOf("install file", given) = Say("install-local", Same(as) \cup {<<"path", "package">>}, given)
  BY DEF RequestOf, InstallRequest
<1>2. \A q : q.action = "install-local" => HandlerOf(q) = H({"path"}, {"replace", "yes"}) /\ Lost(q) = lost
  BY DEF HandlerOf, InstallHandler, UpkeepHandler, RepoHandler, FileHandler, QueryHandler, AdminHandler,
         PublishHandler, ToolHandler, Lost, Nothing
<1>3. \A f \in {"path"} : FillsInAlso(f, as, "path", "package", given)
  BY DEF FillsInAlso
<1>4. \A a \in given : a \notin lost <=>
        HearsInAlso(a, as, "path", "package", given, {"path"} \cup {"replace", "yes"})
  BY DEF HearsInAlso, InstallOptions, Strategies, Field
<1> HIDE DEF as, lost
<1> QED BY <1>1, <1>2, <1>3, <1>4, AlsoIsHeard, Zenon

\* What is lost depends on who asks.
LEMMA SendingParts ==
  ASSUME NEW n, NEW given, NEW root
  PROVE  /\ Sending(n, given, root).action = RequestOf(n, given).action
         /\ Sending(n, given, root).params = RequestOf(n, given).params
         /\ Sending(n, given, root).root = root
BY DEF Sending

LEMMA InstallNamedIsHeard ==
  ASSUME NEW given, NEW root \in BOOLEAN, {"package"} \subseteq given,
         given \subseteq {"package"} \cup InstallOptions, "convert_only" \notin given, "sandbox" \notin given
  PROVE  Right(Sending("install", given, root), given)
<1> DEFINE q     == Sending("install", given, root)
           as    == {"package", "replace", "yes"} \cup Strategies
           reads == {"replace"} \cup (IF root THEN {"yes"} \cup Strategies ELSE {})
           lost  == {"smart"} \cup (IF root THEN {} ELSE {"yes"} \cup Strategies)
<1>1. RequestOf("install", given) = Say("install", Same(as), given)
  BY DEF RequestOf, InstallRequest
<1>2. q.action = "install" /\ q.params = Say("install", Same(as), given).params
  <2>1. Say("install", Same(as), given).action = "install"
    BY DEF Say
  <2>2. q.action = RequestOf("install", given).action /\ q.params = RequestOf("install", given).params
    BY SendingParts
  <2> HIDE DEF q, as
  <2> QED BY <1>1, <2>1, <2>2
<1>3. q.root = root
  BY SendingParts
<1> HIDE DEF q
<1>4. HandlerOf(q) = H({Field}, reads) /\ Lost(q) = lost
  BY <1>2, <1>3 DEF HandlerOf, InstallHandler, Lost
<1>5. \A f \in {Field} : FillsInSame(f, as, given)
  BY DEF FillsInSame
<1>6. \A a \in given : a \notin lost <=> HearsInSame(a, as, given, {Field} \cup reads)
  BY DEF HearsInSame, InstallOptions, Strategies, Field
<1>7. \A a \in given : a \notin Lost(q) <=> HearsInSame(a, as, given, {Field} \cup reads)
  BY <1>4, <1>6
<1> HIDE DEF as, reads, lost
<1>8. given \subseteq given
  OBVIOUS
<1>9. Right(q, given)
  BY <1>2, <1>4, <1>5, <1>7, <1>8, PlainRight, Zenon
<1> QED BY <1>9 DEF q

LEMMA InstallIsHeard ==
  ASSUME NEW n \in {"install", "install file"}, NEW given, NEW root \in BOOLEAN,
         {"package"} \subseteq given, given \subseteq {"package"} \cup InstallOptions
  PROVE  Right(Sending(n, given, root), given)
<1>1. CASE "convert_only" \in given
  BY <1>1, ConvertIsHeard
<1>2. CASE "convert_only" \notin given /\ "sandbox" \in given
  BY <1>2, InstallSandboxIsHeard
<1>3. CASE "convert_only" \notin given /\ "sandbox" \notin given
  BY <1>3, InstallLocalIsHeard, InstallNamedIsHeard
<1> QED BY <1>1, <1>2, <1>3

\* Of every command, whatever options it is given.
LEMMA PackageCommandsAreHeard ==
  ASSUME NEW k \in PackageCommands, NEW given, NEW root \in BOOLEAN,
         k.args \subseteq given, given \subseteq k.args \cup k.options
  PROVE  Right(Sending(k.name, given, root), given)
<1>1. ASSUME k \in Takes({"install", "install file"}, {"package"}, InstallOptions)
      PROVE  Right(Sending(k.name, given, root), given)
  <2>1. k.name \in {"install", "install file"} /\ k.args = {"package"} /\ k.options = InstallOptions
    BY <1>1 DEF Takes, Nothing
  <2>2. {"package"} \subseteq given /\ given \subseteq {"package"} \cup InstallOptions
    BY <2>1
  <2> QED BY <2>1, <2>2, InstallIsHeard
<1>2. ASSUME k \in Takes({"remove"}, {"package"}, {"yes"})
      PROVE  Right(Sending(k.name, given, root), given)
  <2>1. k.name = "remove" /\ k.args = {"package"} /\ k.options = {"yes"}
    BY <1>2 DEF Takes, Nothing
  <2>2. {"package"} \subseteq given /\ given \subseteq {"package"} \cup {"yes"}
    BY <2>1
  <2> QED BY <2>1, <2>2, RemoveIsHeard
<1>3. ASSUME k \in Takes({"purge"}, {"package"}, Nothing)
      PROVE  Right(Sending(k.name, given, root), given)
  <2>1. k.name = "purge" /\ k.args = {"package"} /\ k.options = {}
    BY <1>3 DEF Takes, Nothing
  <2>2. {"package"} \subseteq given /\ given \subseteq {"package"}
    BY <2>1
  <2> QED BY <2>1, <2>2, PurgeIsHeard
<1>4. ASSUME k \in Takes({"autoremove", "dist-upgrade"}, Nothing, {"yes"})
      PROVE  Right(Sending(k.name, given, root), given)
  <2>1. k.name \in {"autoremove", "dist-upgrade"} /\ k.args = {} /\ k.options = {"yes"}
    BY <1>4 DEF Takes, Nothing
  <2>2. given \subseteq {"yes"}
    BY <2>1
  <2> QED BY <2>1, <2>2, UpkeepIsHeard
<1>5. ASSUME k \in Takes({"update"}, Nothing, Nothing)
      PROVE  Right(Sending(k.name, given, root), given)
  <2>1. k.name = "update" /\ k.args = {} /\ k.options = {}
    BY <1>5 DEF Takes, Nothing
  <2>2. given = {}
    BY <2>1
  <2> QED BY <2>1, <2>2, BareIsHeard
<1>6. ASSUME k \in Takes({"upgrade"}, Nothing, {"package"} \cup Strategies)
      PROVE  Right(Sending(k.name, given, root), given)
  <2>1. k.name = "upgrade" /\ k.args = {} /\ k.options = {"package"} \cup Strategies
    BY <1>6 DEF Takes, Nothing
  <2>2. given \subseteq {"package"} \cup Strategies
    BY <2>1
  <2> QED BY <2>1, <2>2, UpgradeIsHeard
<1> QED BY <1>1, <1>2, <1>3, <1>4, <1>5, <1>6 DEF PackageCommands

LEMMA QueryCommandsAreHeard ==
  ASSUME NEW k \in QueryCommands, k.name \notin ByItself, NEW given, NEW root \in BOOLEAN,
         k.args \subseteq given, given \subseteq k.args \cup k.options
  PROVE  Right(Sending(k.name, given, root), given)
<1>1. ASSUME k \in Takes({"search"}, {"query"}, Nothing)
      PROVE  Right(Sending(k.name, given, root), given)
  <2>1. k.name = "search" /\ k.args = {"query"} /\ k.options = {}
    BY <1>1 DEF Takes, Nothing
  <2>2. {"query"} \subseteq given /\ given \subseteq {"query"}
    BY <2>1
  <2> QED BY <2>1, <2>2, SearchIsHeard
<1>2. ASSUME k \in Takes({"search-file"}, {"path"}, Nothing)
      PROVE  Right(Sending(k.name, given, root), given)
  <2>1. k.name = "search-file" /\ k.args = {"path"} /\ k.options = {}
    BY <1>2 DEF Takes, Nothing
  <2>2. {"path"} \subseteq given /\ given \subseteq {"path"}
    BY <2>1
  <2> QED BY <2>1, <2>2, SearchFileIsHeard
<1>3. ASSUME k \in Takes({"info", "files", "depends", "rdepends"}, {"package"}, Nothing)
      PROVE  Right(Sending(k.name, given, root), given)
  <2>1. k.name \in {"info", "files", "depends", "rdepends"} /\ k.args = {"package"} /\ k.options = {}
    BY <1>3 DEF Takes, Nothing
  <2>2. {"package"} \subseteq given /\ given \subseteq {"package"}
    BY <2>1
  <2> QED BY <2>1, <2>2, QueryIsHeard
<1>4. ASSUME k \in Takes({"history"}, Nothing, {"undo"})
      PROVE  Right(Sending(k.name, given, root), given)
  <2>1. k.name = "history" /\ k.args = {} /\ k.options = {"undo"}
    BY <1>4 DEF Takes, Nothing
  <2>2. given \subseteq {"undo"}
    BY <2>1
  <2> QED BY <2>1, <2>2, HistoryIsHeard
<1>5. ASSUME k \in Takes({"analyze"}, Nothing, {"mode", "trace"})
      PROVE  Right(Sending(k.name, given, root), given)
  <2>1. k.name = "analyze" /\ k.args = {} /\ k.options = {"mode", "trace"}
    BY <1>5 DEF Takes, Nothing
  <2>2. given \subseteq {"mode", "trace"}
    BY <2>1
  <2> QED BY <2>1, <2>2, AnalyzeIsHeard
<1>6. ASSUME k \in Takes({"ps"}, Nothing, Nothing)
      PROVE  Right(Sending(k.name, given, root), given)
  <2>1. k.name = "ps" /\ k.args = {} /\ k.options = {}
    BY <1>6 DEF Takes, Nothing
  <2>2. given = {}
    BY <2>1
  <2> QED BY <2>1, <2>2, BareIsHeard
<1>7. k \notin Takes({"global-search"}, {"query"}, {"yes"})
  BY DEF Takes, ByItself
<1> QED BY <1>1, <1>2, <1>3, <1>4, <1>5, <1>6, <1>7 DEF QueryCommands

LEMMA SystemCommandsAreHeard ==
  ASSUME NEW k \in SystemCommands, NEW given, NEW root \in BOOLEAN,
         k.args \subseteq given, given \subseteq k.args \cup k.options
  PROVE  Right(Sending(k.name, given, root), given)
<1>1. ASSUME k \in Takes({"detect"}, Nothing, {"install"})
      PROVE  Right(Sending(k.name, given, root), given)
  <2>1. k.name = "detect" /\ k.args = {} /\ k.options = {"install"}
    BY <1>1 DEF Takes, Nothing
  <2>2. given \subseteq {"install"}
    BY <2>1
  <2> QED BY <2>1, <2>2, DetectIsHeard
<1>2. ASSUME k \in Takes({"build"}, {"path"}, {"output", "sign"})
      PROVE  Right(Sending(k.name, given, root), given)
  <2>1. k.name = "build" /\ k.args = {"path"} /\ k.options = {"output", "sign"}
    BY <1>2 DEF Takes, Nothing
  <2>2. {"path"} \subseteq given /\ given \subseteq {"path"} \cup {"output", "sign"}
    BY <2>1
  <2> QED BY <2>1, <2>2, BuildIsHeard
<1>3. ASSUME k \in Takes({"cleanup"}, Nothing, {"force"})
      PROVE  Right(Sending(k.name, given, root), given)
  <2>1. k.name = "cleanup" /\ k.args = {} /\ k.options = {"force"}
    BY <1>3 DEF Takes, Nothing
  <2>2. given \subseteq {"force"}
    BY <2>1
  <2> QED BY <2>1, <2>2, CleanupIsHeard
<1>4. ASSUME k \in Takes({"sync"}, Nothing, {"files", "prune"})
      PROVE  Right(Sending(k.name, given, root), given)
  <2>1. k.name = "sync" /\ k.args = {} /\ k.options = {"files", "prune"}
    BY <1>4 DEF Takes, Nothing
  <2>2. given \subseteq {"files", "prune"}
    BY <2>1
  <2> QED BY <2>1, <2>2, SyncIsHeard
<1>5. ASSUME k \in Takes({"fsck"}, Nothing, {"fix", "files"})
      PROVE  Right(Sending(k.name, given, root), given)
  <2>1. k.name = "fsck" /\ k.args = {} /\ k.options = {"fix", "files"}
    BY <1>5 DEF Takes, Nothing
  <2>2. given \subseteq {"fix", "files"}
    BY <2>1
  <2> QED BY <2>1, <2>2, FsckIsHeard
<1>6. ASSUME k \in Takes({"init"}, Nothing, {"root", "from_system", "fix_backend", "install_daemon"})
      PROVE  Right(Sending(k.name, given, root), given)
  <2>1. k.name = "init" /\ k.args = {} /\ k.options = {"root", "from_system", "fix_backend", "install_daemon"}
    BY <1>6 DEF Takes, Nothing
  <2>2. given \subseteq {"root", "from_system", "fix_backend", "install_daemon"}
    BY <2>1
  <2> QED BY <2>1, <2>2, InitIsHeard
<1>7. ASSUME k \in Takes({"self-update"}, Nothing, {"check", "version"})
      PROVE  Right(Sending(k.name, given, root), given)
  <2>1. k.name = "self-update" /\ k.args = {} /\ k.options = {"check", "version"}
    BY <1>7 DEF Takes, Nothing
  <2>2. given \subseteq {"check", "version"}
    BY <2>1
  <2> QED BY <2>1, <2>2, SelfUpdateIsHeard
<1> QED BY <1>1, <1>2, <1>3, <1>4, <1>5, <1>6, <1>7 DEF SystemCommands

LEMMA SubCommandsAreHeard ==
  ASSUME NEW k \in SubCommands, NEW given, NEW root \in BOOLEAN,
         k.args \subseteq given, given \subseteq k.args \cup k.options
  PROVE  Right(Sending(k.name, given, root), given)
<1>1. ASSUME k \in Takes({"snapshot create", "sandbox list", "repo list", "index rebuild", "config show"},
                          Nothing, Nothing)
      PROVE  Right(Sending(k.name, given, root), given)
  <2>1. k.name \in {"snapshot create", "sandbox list", "repo list", "index rebuild", "config show"}
        /\ k.args = {} /\ k.options = {}
    BY <1>1 DEF Takes, Nothing
  <2>2. given = {}
    BY <2>1
  <2> QED BY <2>1, <2>2, BareIsHeard, SnapshotCreateIsHeard
<1>2. ASSUME k \in Takes({"snapshot rollback"}, {"id"}, Nothing)
      PROVE  Right(Sending(k.name, given, root), given)
  <2>1. k.name = "snapshot rollback" /\ k.args = {"id"} /\ k.options = {}
    BY <1>2 DEF Takes, Nothing
  <2>2. {"id"} \subseteq given /\ given \subseteq {"id"}
    BY <2>1
  <2> QED BY <2>1, <2>2, SnapshotRollbackIsHeard
<1>3. ASSUME k \in Takes({"sandbox run"}, {"package"}, {"command"})
      PROVE  Right(Sending(k.name, given, root), given)
  <2>1. k.name = "sandbox run" /\ k.args = {"package"} /\ k.options = {"command"}
    BY <1>3 DEF Takes, Nothing
  <2>2. {"package"} \subseteq given /\ given \subseteq {"package"} \cup {"command"}
    BY <2>1
  <2> QED BY <2>1, <2>2, SandboxRunIsHeard
<1>4. ASSUME k \in Takes({"repo add"}, {"name"}, {"source", "url", "mirror", "priority"})
      PROVE  Right(Sending(k.name, given, root), given)
  <2>1. k.name = "repo add" /\ k.args = {"name"} /\ k.options = {"source", "url", "mirror", "priority"}
    BY <1>4 DEF Takes, Nothing
  <2>2. {"name"} \subseteq given /\ given \subseteq {"name"} \cup {"source", "url", "mirror", "priority"}
    BY <2>1
  <2> QED BY <2>1, <2>2, RepoAddIsHeard
<1>5. ASSUME k \in Takes({"repo create"}, {"name"}, {"source", "path", "codename", "component", "mirror"})
      PROVE  Right(Sending(k.name, given, root), given)
  <2>1. k.name = "repo create" /\ k.args = {"name"} /\ k.options = {"source", "path", "codename", "component", "mirror"}
    BY <1>5 DEF Takes, Nothing
  <2>2. {"name"} \subseteq given /\ given \subseteq {"name"} \cup {"source", "path", "codename", "component", "mirror"}
    BY <2>1
  <2> QED BY <2>1, <2>2, CreateIsHeard
<1>6. ASSUME k \in Takes({"repo publish"}, {"name", "package"}, Nothing)
      PROVE  Right(Sending(k.name, given, root), given)
  <2>1. k.name = "repo publish" /\ k.args = {"name", "package"} /\ k.options = {}
    BY <1>6 DEF Takes, Nothing
  <2>2. {"name", "package"} \subseteq given /\ given \subseteq {"name", "package"}
    BY <2>1
  <2> QED BY <2>1, <2>2, PublishIsHeard
<1>7. ASSUME k \in Takes({"repo remove", "repo gen-key", "repo sign"}, {"name"}, Nothing)
      PROVE  Right(Sending(k.name, given, root), given)
  <2>1. k.name \in {"repo remove", "repo gen-key", "repo sign"} /\ k.args = {"name"} /\ k.options = {}
    BY <1>7 DEF Takes, Nothing
  <2>2. {"name"} \subseteq given /\ given \subseteq {"name"}
    BY <2>1
  <2> QED BY <2>1, <2>2, RepoRemoveIsHeard, GenKeyIsHeard, SignIsHeard
<1>8. ASSUME k \in Takes({"config set"}, {"key", "value"}, Nothing)
      PROVE  Right(Sending(k.name, given, root), given)
  <2>1. k.name = "config set" /\ k.args = {"key", "value"} /\ k.options = {}
    BY <1>8 DEF Takes, Nothing
  <2>2. {"key", "value"} \subseteq given /\ given \subseteq {"key", "value"}
    BY <2>1
  <2> QED BY <2>1, <2>2, ConfigSetIsHeard
<1>9. ASSUME k \in Takes({"group create", "group list"}, Nothing, Nothing)
      PROVE  Right(Sending(k.name, given, root), given)
  <2>1. k.name \in {"group create", "group list"} /\ k.args = {} /\ k.options = {}
    BY <1>9 DEF Takes, Nothing
  <2>2. given = {}
    BY <2>1
  <2> QED BY <2>1, <2>2, BareIsHeard
<1>10. ASSUME k \in Takes({"group add", "group remove"}, {"user"}, Nothing)
      PROVE  Right(Sending(k.name, given, root), given)
  <2>1. k.name \in {"group add", "group remove"} /\ k.args = {"user"} /\ k.options = {}
    BY <1>10 DEF Takes, Nothing
  <2>2. {"user"} \subseteq given /\ given \subseteq {"user"}
    BY <2>1
  <2> QED BY <2>1, <2>2, GroupChangeIsHeard
<1> QED BY <1>1, <1>2, <1>3, <1>4, <1>5, <1>6, <1>7, <1>8, <1>9, <1>10 DEF SubCommands

LEMMA CommandsAreRight ==
  ASSUME NEW k \in Commands, NEW x, Fits(x, k), x.name \notin ByItself, x.root \in BOOLEAN
  PROVE  Right(Sending(x.name, x.given, x.root), x.given)
BY PackageCommandsAreHeard, QueryCommandsAreHeard, SystemCommandsAreHeard, SubCommandsAreHeard DEF Commands, Fits

-----------------------------------------------------------------------------
(* A request that was sent is that of a command the client may type, and stays so until it is served. *)

Sent(c) ==
  pc[c] = "sent" => \E x \in CommandsOf[c] :
    x.name \notin ByItself /\ cmd[c] = x /\ req[c] = Sending(x.name, x.given, x.root)
StillSent(c) == pc'[c] = "sent" => pc[c] = "sent" /\ cmd'[c] = cmd[c] /\ req'[c] = req[c]

LEMMA GoneOn ==
  ASSUME Shape, NEW c \in Clients, NEW d \in Clients, NEW l, l # "sent", Goto(c, l), UNCHANGED <<cmd, req>>
  PROVE  StillSent(d)
BY DEF Shape, Goto, StillSent

LEMMA Ended ==
  ASSUME Shape, NEW c \in Clients, NEW d \in Clients, NEW l \in {"ok", "error"}, End(c, l)
  PROVE  StillSent(d)
<1>1. l # "sent" /\ pc' = [pc EXCEPT ![c] = l] /\ cmd' = [cmd EXCEPT ![c] = NoCmd] /\ req' = [req EXCEPT ![c] = NoReq]
  BY DEF End, Goto
<1> QED BY <1>1 DEF Shape, StillSent

\* Of all steps only that of typing a command sends.
LEMMA OnlyTyped ==
  ASSUME Shape, NEW c \in Clients, NEW d \in Clients, Step(c), ~\E x \in CommandsOf[c] : Type(c, x)
  PROVE  StillSent(d)
<1>1. CASE Serve(c)
  <2>1. \/ \E l \in {"ok", "error"} : End(c, l)
        \/ \E l \in {"group", "ask"} : Goto(c, l) /\ UNCHANGED <<cmd, req>>
    BY <1>1 DEF Serve, Idle
  <2> QED BY <2>1, Ended, GoneOn
<1>2. CASE Group(c)
  <2>1. End(c, "ok") \/ (Goto(c, "write") /\ UNCHANGED <<cmd, req>>)
    BY <1>2 DEF Group, Put
  <2> QED BY <2>1, Ended, GoneOn
<1>3. CASE Offer(c) \/ Download(c) \/ Verify(c)
  <2>1. \/ End(c, "ok") \/ End(c, "error")
        \/ \E l \in {"download", "verify", "write"} : Goto(c, l) /\ UNCHANGED <<cmd, req>>
    BY <1>3 DEF Offer, Download, Verify, Replace
  <2> QED BY <2>1, Ended, GoneOn
<1>4. CASE Truncate(c) \/ Fill(c) \/ Rename(c)
  <2>1. UNCHANGED <<pc, cmd, req>>
    BY <1>4 DEF Truncate, Fill, Rename, Advance
  <2> QED BY <2>1 DEF StillSent
<1>5. CASE WriteFails(c)
  <2>1. End(c, "ok") \/ End(c, "error")
    BY <1>5 DEF WriteFails
  <2> QED BY <2>1, Ended
<1>6. CASE Written(c)
  <2>1. End(c, "ok") \/ (Goto(c, "group") /\ UNCHANGED <<cmd, req>>)
    BY <1>6 DEF Written
  <2> QED BY <2>1, Ended, GoneOn
<1>7. CASE Interrupt(c)
  BY <1>7, GoneOn DEF Interrupt
<1> QED BY <1>1, <1>2, <1>3, <1>4, <1>5, <1>6, <1>7 DEF Step

LEMMA TypeSends ==
  ASSUME Shape, NEW c \in Clients, NEW x \in CommandsOf[c], Type(c, x)
  PROVE  (StillSent(c) \/ Sent(c)') /\ \A d \in Clients : d # c => StillSent(d)
<1>1. CASE \E l \in {"ok", "error"} : Goto(c, l) /\ UNCHANGED <<cmd, req>>
  BY <1>1, GoneOn
<1>2. CASE /\ x.name \notin ByItself /\ Goto(c, "sent") /\ cmd' = [cmd EXCEPT ![c] = x]
           /\ req' = [req EXCEPT ![c] = Sending(x.name, x.given, x.root)]
  <2>2. cmd'[c] = x /\ req'[c] = Sending(x.name, x.given, x.root)
    BY <1>2 DEF Shape
  <2>3. \A d \in Clients : d # c => pc'[d] = pc[d] /\ cmd'[d] = cmd[d] /\ req'[d] = req[d]
    BY <1>2 DEF Shape, Goto
  <2> QED BY <1>2, <2>2, <2>3 DEF Sent, StillSent
<1> QED BY <1>1, <1>2 DEF Type, Idle, Sending

LEMMA SentKeeps ==
  ASSUME Shape, \A c \in Clients : Sent(c), [Next]_vars, NEW d \in Clients
  PROVE  Sent(d)'
<1>1. StillSent(d) => Sent(d)'
  BY DEF StillSent, Sent
<1>2. CASE Stop
  BY <1>2 DEF Stop, Shape, Idle, Sent
<1>3. CASE Start \/ UNCHANGED vars
  BY <1>1, <1>3 DEF Start, vars, StillSent
<1>4. ASSUME NEW c \in Clients, Step(c) PROVE Sent(d)'
  <2>1. ASSUME NEW x \in CommandsOf[c], Type(c, x) PROVE Sent(d)'
    BY <1>1, <2>1, TypeSends
  <2> QED BY <1>1, <1>4, <2>1, OnlyTyped
<1> QED BY <1>2, <1>3, <1>4 DEF Next

-----------------------------------------------------------------------------
(* The theorems. *)

\* The steps that change a file in its place: a rename, and a write to what another request renamed.
LEMMA Changes ==
  ASSUME JobsInv, [Next]_vars, NEW f \in Files, file'[f] # file[f], Alone(f)
  PROVE  \E c \in Clients :
           /\ pc[c] = "write" /\ todo[c] # <<>> /\ Its(c) = f /\ Head(todo[c])[1] = "rename"
           /\ file'[f] = tmp[f] /\ ~crossed[c] /\ Kind(c) /\ Job(c)
<1>1. ASSUME NEW c \in Clients, pc[c] = "write", todo[c] # <<>>, Its(c) = f PROVE ~crossed[c]
  BY <1>1, ItsFile DEF Alone
<1>2. ASSUME NEW c \in Clients, Rename(c)
      PROVE  /\ pc[c] = "write" /\ todo[c] # <<>> /\ Its(c) = f /\ Head(todo[c])[1] = "rename"
             /\ file'[f] = tmp[f] /\ ~crossed[c] /\ Kind(c) /\ Job(c)
  <2>1. pc[c] = "write" /\ todo[c] # <<>> /\ Head(todo[c])[1] = "rename" /\ file' = [file EXCEPT ![Its(c)] = tmp[Its(c)]]
    BY <1>2 DEF Rename, Does
  <2>2. Its(c) = f
    BY <2>1 DEF JobsInv, Shape
  <2> QED BY <1>1, <2>1, <2>2 DEF JobsInv, Shape
<1>3. ASSUME NEW c \in Clients, Fill(c) PROVE FALSE
  <2>1. pc[c] = "write" /\ todo[c] # <<>> /\ (place[c] # "there" => file' = file)
        /\ \A g \in Files : g # Its(c) => file'[g] = file[g]
    BY <1>3 DEF Fill, Does, JobsInv, Shape
  <2>2. ~crossed[c]
    BY <1>1, <2>1
  <2> QED BY <2>1, <2>2 DEF JobsInv, Job
<1>4. ASSUME Stop \/ Start \/ UNCHANGED vars PROVE UNCHANGED file
  BY <1>4 DEF Stop, Start, disk, vars
<1>5. ASSUME NEW c \in Clients, Step(c), ~Rename(c), ~Fill(c) PROVE UNCHANGED file
  BY <1>5 DEF Step, Type, Serve, Group, Offer, Download, Verify, Truncate, WriteFails, Written, Interrupt, disk
<1>6. PICK c \in Clients : Step(c)
  BY <1>4 DEF Next
<1> QED BY <1>2, <1>3, <1>5, <1>6

\* However self-updates, their failures, the ends of the daemon and all other requests are ordered, a
\* binary in /usr/bin becomes a whole release that is newer than the daemon, whenever it changes while
\* no two updates are at it: handle_self_update verifies both and writes both aside before it renames either.
THEOREM RequestsKeepBinaries == Spec => BinariesWhole
<1> DEFINE Kept == \A b \in Binaries : Alone(b) /\ file'[b] # file[b] => file'[b] \in Versions /\ file'[b] > Installed
<1>1. ASSUME JobsInv, [Next]_vars PROVE Kept
  <2> SUFFICES ASSUME NEW b \in Binaries, Alone(b), file'[b] # file[b]
               PROVE  file'[b] \in Versions /\ file'[b] > Installed
    OBVIOUS
  <2>1. b \in Files
    BY DEF Files
  <2>2. PICK c \in Clients :
           /\ pc[c] = "write" /\ todo[c] # <<>> /\ Its(c) = b /\ Head(todo[c])[1] = "rename"
           /\ file'[b] = tmp[b] /\ ~crossed[c] /\ Kind(c) /\ Job(c)
    BY <1>1, <2>1, Changes
  <2>3. Updating(c) /\ todo[c] \in {U5, U6}
    BY <2>2, AtOp DEF Binaries
  <2>4. Later(c) /\ UpdateJob(c)
    BY <2>2, <2>3 DEF Kind, Job
  <2>5. tmp[b] = release[c]
    BY <2>2, <2>3, <2>4, Ops DEF UpdateJob, Its
  <2> QED BY <2>2, <2>4, <2>5 DEF Later
<1>2. JobsInv /\ [Next]_vars => [Kept]_vars
  BY <1>1
<1>3. BinariesWhole <=> [][Kept]_vars
  BY DEF BinariesWhole
<1> QED BY <1>2, <1>3, Always, PTL DEF Spec

\* A change of /etc/group that meets no other one, whatever fails meanwhile, leaves it whole, never
\* removes it, and adds or removes the one user whom a request for just that is about.
THEOREM RequestsKeepMembers == Spec => GroupKeepsMembers
<1> DEFINE Right3 ==
      /\ file'["group"] # Torn /\ (file["group"] # Absent => file'["group"] # Absent)
      /\ \A u \in Members(file'["group"]) \ Members(file["group"]) : Asked("group add", u)
      /\ \A u \in Members(file["group"]) \ Members(file'["group"]) : Asked("group remove", u)
    Kept == Alone("group") /\ file["group"] # Torn => Right3
<1>1. ASSUME JobsInv, [Next]_vars PROVE Kept
  <2> SUFFICES ASSUME Alone("group"), file["group"] # Torn PROVE Right3
    OBVIOUS
  <2>1. file["group"] \in {Absent} \cup SUBSET Users
    BY <1>1 DEF JobsInv, GroupTyped
  <2>2. CASE file'["group"] = file["group"]
    BY <2>2
  <2>3. CASE file'["group"] # file["group"]
    <3>0. PICK c \in Clients :
             /\ pc[c] = "write" /\ todo[c] # <<>> /\ Its(c) = "group" /\ Head(todo[c])[1] = "rename"
             /\ file'["group"] = tmp["group"] /\ ~crossed[c] /\ Kind(c) /\ Job(c)
      BY <1>1, <2>3, FileNames, Changes
    <3>1. ~Updating(c) /\ todo[c] = G3 /\ Served(c)
      BY <3>0, AtOp DEF Binaries, Served, Idle
    <3>2. WantFits(c) /\ file'["group"] = want[c]
      BY <3>0, <3>1 DEF Job, GroupJob
    <3>3. want[c] \in SUBSET Users /\ want[c] \notin {Absent, Torn}
      BY <1>1, <3>2, MarksAssumption DEF WantFits, JobsInv, GroupTyped
    <3>4. Members(file'["group"]) = want[c]
      BY <3>2, <3>3 DEF Members
    <3>5. CASE file["group"] = Absent
      <4>1. Members(file["group"]) = {} /\ want[c] = {}
        BY <3>2, <3>5 DEF Members, WantFits
      <4> QED BY <3>2, <3>3, <3>4, <3>5, <4>1
    <3>6. CASE file["group"] # Absent
      <4>1. Members(file["group"]) = file["group"]
        BY <2>1, <3>6, MarksAssumption DEF Members
      <4>2. ASSUME NEW u \in want[c] \ file["group"] PROVE Asked("group add", u)
        <5>1. req[c].action = "group add" /\ cmd[c].user = u
          BY <3>2, <3>6, <4>2 DEF WantFits
        <5> QED BY <3>1, <5>1 DEF Asked
      <4>3. ASSUME NEW u \in file["group"] \ want[c] PROVE Asked("group remove", u)
        <5>1. req[c].action = "group remove" /\ cmd[c].user = u
          BY <3>2, <3>6, <4>3 DEF WantFits
        <5> QED BY <3>1, <5>1 DEF Asked
      <4> QED BY <3>2, <3>3, <3>4, <4>1, <4>2, <4>3
    <3> QED BY <3>5, <3>6
  <2> QED BY <2>2, <2>3
<1>2. JobsInv /\ [Next]_vars => [Kept]_vars
  BY <1>1
<1>3. GroupKeepsMembers <=> [][Kept]_vars
  BY DEF GroupKeepsMembers
<1> QED BY <1>2, <1>3, Always, PTL DEF Spec

\* What is sent is answered by a handler that finds all that it needs, and that reads every argument
\* that was given but those it is known to lose: for every command but the one that is not sent, and every
\* set of its options.  The request is that of the command until it is served, so a case for each name shows it.
THEOREM RequestsAreHeard == Spec => []CommandsHeard
<1> DEFINE Inv == JobsInv /\ \A c \in Clients : Sent(c)
<1>1. Init => Inv
  BY InitHolds DEF Init, Sent
<1>2. Inv /\ [Next]_vars => Inv'
  BY StepKeeps, SentKeeps DEF JobsInv
<1>3. Inv => CommandsHeard
  <2> SUFFICES ASSUME \A c \in Clients : Sent(c), NEW c \in Clients, pc[c] = "sent"
               PROVE  Answered(req[c]) /\ cmd[c].given \ Heard(req[c]) = cmd[c].given \cap Lost(req[c])
    BY DEF CommandsHeard
  <2>1. PICK x \in CommandsOf[c] :
           x.name \notin ByItself /\ cmd[c] = x /\ req[c] = Sending(x.name, x.given, x.root)
    BY DEF Sent
  <2>2. x.root \in BOOLEAN /\ \E k \in Commands : Fits(x, k)
    BY CommandsAssumption
  <2>3. Right(req[c], x.given)
    BY <2>1, <2>2, CommandsAreRight
  <2> QED BY <2>1, <2>3 DEF Right
<1> QED BY <1>1, <1>2, <1>3, PTL DEF Spec
=============================================================================
