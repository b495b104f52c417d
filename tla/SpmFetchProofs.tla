--------------------------- MODULE SpmFetchProofs ---------------------------
(***************************************************************************)
(* ServedWhole and SpoiledOnce of SpmFetch for every list of repositories, *)
(* every number of requests and any sizes of files: what a request         *)
(* extracts after a download that began with nothing and met nobody is     *)
(* what its repository had; and the next steady download that follows one  *)
(* that a spoiled file has failed replaces it.  FetchInv says where an     *)
(* undisturbed download is in its file, and that a request vouches for     *)
(* nothing before it has extracted.  SpoilInv says where a steady one is,  *)
(* and that a file that has failed one is too long to be resumed or is     *)
(* being replaced from its beginning.                                      *)
(***************************************************************************)
EXTENDS SpmFetch, SequenceTheorems, TLAPS

Downloads == [file : Files, attempt : Nat, size : Nat, fresh : BOOLEAN,
              ver : Versions, pos : Nat, append : BOOLEAN, open : BOOLEAN]

Places == {"idle", "try", "connect", "stream", "read", "live", "body", "primary",
           "rpm", "local", "pack", "stub", "done", "failed"}

Shape ==
  /\ published \in [Sources -> Versions] /\ listing \in Files
  /\ archives \in [Files -> Seq(Chunks)]
  /\ pc \in [Requests -> Places] /\ dl \in [Requests -> Downloads]
  /\ want \in [Requests -> Versions] /\ got \in [Requests -> Seq(Chunks)]
  /\ sound \in [Requests -> BOOLEAN] /\ alone \in [Requests -> BOOLEAN]

\* The first n parts of the file of version v.
Part(v, n) == [i \in 1..n |-> <<v, i>>]

\* A download that began with nothing and that nobody has met writes what it has received.
Undisturbed(r) ==
  dl[r].fresh /\ alone[r] =>
    /\ dl[r].size = 0
    /\ pc[r] = "stream" =>
         /\ dl[r].open /\ ~dl[r].append /\ dl[r].pos <= Parts[dl[r].ver]
         /\ archives[dl[r].file] = Part(dl[r].ver, dl[r].pos)
    /\ pc[r] = "read" => archives[dl[r].file] = Whole(dl[r].ver)

\* A request vouches for what it has extracted, and for nothing before.
Vouched(r) ==
  sound[r] => pc[r] \in {"pack", "stub", "done"} /\ got[r] = Whole(want[r])

FetchInv == \A r \in Requests : Undisturbed(r) /\ Vouched(r)

-----------------------------------------------------------------------------
(* Files and what is written to them. *)

LEMMA PartsAreNumbers == ASSUME NEW v \in Versions PROVE Parts[v] \in Nat /\ v \in Files /\ v \in Nat
BY PartsAssumption DEF Versions, Files

LEMMA PartIsSeq == ASSUME NEW v \in Versions, NEW n \in Nat
                   PROVE Part(v, n) \in Seq(Chunks) /\ Len(Part(v, n)) = n
<1>1. Part(v, n) \in [1..n -> Chunks]
  BY PartsAreNumbers DEF Part, Chunks
<1> QED BY <1>1, IsASeq, LenProperties DEF Part

LEMMA WholeIsSeq == ASSUME NEW v \in Versions
                    PROVE Whole(v) = Part(v, Parts[v]) /\ Whole(v) \in Seq(Chunks)
<1>1. Whole(v) = Part(v, Parts[v])
  BY DEF Whole, Part
<1> QED BY <1>1, PartIsSeq, PartsAreNumbers

LEMMA LeftIsSeq == ASSUME NEW c \in Seq(Chunks), NEW left \in {<<>>} \cup Leaves(c)
                   PROVE left \in Seq(Chunks)
<1>1. CASE left = <<>>
  BY <1>1
<1>2. CASE left # <<>>
  <2>1. PICK n \in 1..Len(c) : left = SubSeq(c, 1, n)
    BY <1>2 DEF Leaves
  <2> QED BY <2>1
<1> QED BY <1>1, <1>2

LEMMA OntoIsSeq == ASSUME NEW v \in Versions, NEW left \in Seq(Chunks)
                   PROVE Onto(v, left) \in Seq(Chunks)
<1>1. Whole(v) \in Seq(Chunks)
  BY WholeIsSeq
<1> HIDE DEF Whole
<1>2. Whole(v) \o left \in Seq(Chunks)
  BY <1>1
<1> QED BY <1>1, <1>2 DEF Onto

\* Over nothing, a version is unpacked as it is.
LEMMA OntoNothing == ASSUME NEW v \in Versions PROVE Onto(v, <<>>) = Whole(v)
BY DEF Onto

LEMMA WriteIsSeq == ASSUME NEW c \in Seq(Chunks), NEW n \in Nat, NEW x \in Chunks
                    PROVE Write(c, n, x) \in Seq(Chunks)
<1> DEFINE m == IF n < Len(c) THEN Len(c) ELSE n + 1
<1>1. m \in Nat /\ Hole \in Chunks
  BY DEF Hole, Chunks, Files
<1>2. \A i \in 1..m : i <= Len(c) => c[i] \in Chunks
  OBVIOUS
<1>3. Write(c, n, x) = [i \in 1..m |-> IF i = n + 1 THEN x ELSE IF i <= Len(c) THEN c[i] ELSE Hole]
  BY DEF Write
<1>4. Write(c, n, x) \in [1..m -> Chunks]
  BY <1>1, <1>2, <1>3
<1> QED BY <1>1, <1>4, IsASeq

\* The part that comes next is written behind those before it.
LEMMA WriteNext == ASSUME NEW v \in Versions, NEW n \in Nat
                   PROVE Write(Part(v, n), n, <<v, n + 1>>) = Part(v, n + 1)
<1>1. Len(Part(v, n)) = n
  BY PartIsSeq
<1>2. Write(Part(v, n), n, <<v, n + 1>>)
        = [i \in 1..(n + 1) |-> IF i = n + 1 THEN <<v, n + 1>> ELSE IF i <= n THEN Part(v, n)[i] ELSE Hole]
  BY <1>1 DEF Write
<1>3. \A i \in 1..(n + 1) : i # n + 1 => i <= n /\ Part(v, n)[i] = <<v, i>>
  BY DEF Part
<1> QED BY <1>2, <1>3 DEF Part

-----------------------------------------------------------------------------
(* The types of the variables that ServedWhole depends on. *)

LEMMA Constants == NoDownload \in Downloads /\ 0 \in Files /\ 1 \in Versions
                   /\ Stub \in Chunks /\ Hole \in Chunks /\ Versions \subseteq Files /\ Files \subseteq Nat
<1>1. 1 \in Versions /\ 0 \in Files /\ Versions \subseteq Files /\ Files \subseteq Nat
  BY PartsAssumption DEF Versions, Files
<1>2. [file |-> 0, attempt |-> 1, size |-> 0, fresh |-> FALSE, ver |-> 1,
       pos |-> 0, append |-> FALSE, open |-> FALSE] \in Downloads
  BY <1>1 DEF Downloads
<1> QED BY <1>1, <1>2 DEF NoDownload, Stub, Hole, Chunks

LEMMA InitShape == Init => Shape
<1> SUFFICES ASSUME Init PROVE Shape
  OBVIOUS
<1> USE Constants DEF Init
<1>1. published \in [Sources -> Versions] /\ listing \in Files
  OBVIOUS
<1>2. archives \in [Files -> Seq(Chunks)] /\ got \in [Requests -> Seq(Chunks)]
  OBVIOUS
<1>3. pc \in [Requests -> Places] /\ dl \in [Requests -> Downloads] /\ want \in [Requests -> Versions]
  OBVIOUS
<1>4. sound \in [Requests -> BOOLEAN] /\ alone \in [Requests -> BOOLEAN]
  OBVIOUS
<1> QED BY <1>1, <1>2, <1>3, <1>4 DEF Shape

LEMMA ServingType == ASSUME Shape, NEW q \in Requests
                     PROVE Serving(q) \in Versions /\ published["Deb"] \in Versions /\ published["Rpm"] \in Versions
<1>1. "Deb" \in Sources /\ "Rpm" \in Sources /\ "Native" \in Sources
  BY DEF Sources
<1> QED BY <1>1 DEF Shape, Serving

LEMMA Names == /\ "idle" \in Places /\ "try" \in Places /\ "connect" \in Places /\ "stream" \in Places
               /\ "read" \in Places /\ "live" \in Places /\ "body" \in Places /\ "primary" \in Places
               /\ "rpm" \in Places /\ "local" \in Places /\ "pack" \in Places /\ "stub" \in Places
               /\ "done" \in Places /\ "failed" \in Places
BY DEF Places

LEMMA GotoType == ASSUME Shape, NEW q \in Requests, NEW p \in Places, Goto(q, p)
                  PROVE pc' \in [Requests -> Places] /\ pc' = [pc EXCEPT ![q] = p]
BY DEF Shape, Goto

LEMMA AloneType == ASSUME Shape, NEW q \in Requests, NEW F
                   PROVE Alone(q, F) \in [Requests -> BOOLEAN]
BY DEF Shape, Alone, Uses

LEMMA DetachedType == ASSUME Shape, NEW q \in Requests, NEW F
                      PROVE Detached(q, F) \in Downloads
<1>1. dl[q] \in Downloads /\ [dl[q] EXCEPT !.open = FALSE] \in Downloads
  BY DEF Shape, Downloads
<1> QED BY <1>1 DEF Detached

LEMMA LeaveRepoType == ASSUME Shape, NEW q \in Requests, LeaveRepo(q)
                       PROVE /\ \E p \in {"try", "failed"} : pc' = [pc EXCEPT ![q] = p]
                             /\ pc' \in [Requests -> Places]
<1>1. \E p \in {"try", "failed"} : pc' = [pc EXCEPT ![q] = p]
  BY DEF LeaveRepo, Goto
<1>2. PICK p \in Places : pc' = [pc EXCEPT ![q] = p]
  BY <1>1, Names
<1>3. pc' \in [Requests -> Places]
  BY <1>2 DEF Shape
<1> QED BY <1>1, <1>3

LEMMA LeaveFileType == ASSUME Shape, NEW q \in Requests, LeaveFile(q)
                       PROVE /\ \E p \in {"live", "try", "failed"} : pc' = [pc EXCEPT ![q] = p]
                             /\ pc' \in [Requests -> Places]
<1>1. \E p \in {"live", "try", "failed"} : pc' = [pc EXCEPT ![q] = p]
  BY LeaveRepoType DEF LeaveFile, Goto
<1>2. PICK p \in Places : pc' = [pc EXCEPT ![q] = p]
  BY <1>1, Names
<1>3. pc' \in [Requests -> Places]
  BY <1>2 DEF Shape
<1> QED BY <1>1, <1>3

\* The locals of a download that are set together.
Answer(d, v, n, b) == [d EXCEPT !.ver = v, !.pos = n, !.append = b, !.open = TRUE]
Open(f, n, b)      == [NoDownload EXCEPT !.file = f, !.size = n, !.fresh = b]

LEMMA Restarted == ASSUME NEW d \in Downloads, NEW n \in Nat
  PROVE LET e == [d EXCEPT !.size = n, !.attempt = @ + 1, !.open = FALSE]
        IN  /\ e \in Downloads /\ e.size = n /\ e.fresh = d.fresh
            /\ e.file = d.file /\ e.attempt = d.attempt + 1
<1> DEFINE d1 == [d EXCEPT !.size = n]
           d2 == [d1 EXCEPT !.attempt = d.attempt + 1]
           d3 == [d2 EXCEPT !.open = FALSE]
<1>1. /\ d1 \in Downloads /\ d1.size = n /\ d1.fresh = d.fresh /\ d1.file = d.file
      /\ d.attempt \in Nat
  BY DEF Downloads
<1> HIDE DEF d1
<1>2. /\ d2 \in Downloads /\ d2.size = n /\ d2.fresh = d.fresh /\ d2.file = d.file
      /\ d2.attempt = d.attempt + 1
  BY <1>1 DEF Downloads
<1> HIDE DEF d2
<1>3. /\ d3 \in Downloads /\ d3.size = n /\ d3.fresh = d.fresh /\ d3.file = d.file
      /\ d3.attempt = d.attempt + 1
  BY <1>2 DEF Downloads
<1>4. d3 = [d EXCEPT !.size = n, !.attempt = @ + 1, !.open = FALSE]
  BY DEF d1, d2, d3
<1> QED BY <1>3, <1>4

LEMMA Answered == ASSUME NEW d \in Downloads, NEW v \in Versions, NEW n \in Nat, NEW b \in {FALSE, TRUE}
  PROVE /\ Answer(d, v, n, b) \in Downloads
        /\ Answer(d, v, n, b).file = d.file /\ Answer(d, v, n, b).size = d.size
        /\ Answer(d, v, n, b).fresh = d.fresh /\ Answer(d, v, n, b).ver = v
        /\ Answer(d, v, n, b).pos = n /\ Answer(d, v, n, b).append = b /\ Answer(d, v, n, b).open
<1> DEFINE d1 == [d EXCEPT !.ver = v]
           d2 == [d1 EXCEPT !.pos = n]
           d3 == [d2 EXCEPT !.append = b]
           d4 == [d3 EXCEPT !.open = TRUE]
<1>1. d1 \in Downloads /\ d1.file = d.file /\ d1.size = d.size /\ d1.fresh = d.fresh /\ d1.ver = v
  BY DEF Downloads
<1> HIDE DEF d1
<1>2. /\ d2 \in Downloads /\ d2.file = d.file /\ d2.size = d.size /\ d2.fresh = d.fresh /\ d2.ver = v
      /\ d2.pos = n
  BY <1>1 DEF Downloads
<1> HIDE DEF d2
<1>3. /\ d3 \in Downloads /\ d3.file = d.file /\ d3.size = d.size /\ d3.fresh = d.fresh /\ d3.ver = v
      /\ d3.pos = n /\ d3.append = b
  BY <1>2 DEF Downloads
<1> HIDE DEF d3
<1>4. /\ d4 \in Downloads /\ d4.file = d.file /\ d4.size = d.size /\ d4.fresh = d.fresh /\ d4.ver = v
      /\ d4.pos = n /\ d4.append = b /\ d4.open
  BY <1>3 DEF Downloads
<1>5. d4 = Answer(d, v, n, b)
  BY DEF Answer, d1, d2, d3, d4
<1> QED BY <1>4, <1>5

LEMMA AnsweredWhole == ASSUME NEW d \in Downloads, NEW v \in Versions
  PROVE /\ Answer(d, v, 0, FALSE) \in Downloads /\ Answer(d, v, 0, FALSE).file = d.file
        /\ Answer(d, v, 0, FALSE).size = d.size /\ Answer(d, v, 0, FALSE).fresh = d.fresh
        /\ Answer(d, v, 0, FALSE).ver = v /\ Answer(d, v, 0, FALSE).pos = 0
        /\ ~Answer(d, v, 0, FALSE).append /\ Answer(d, v, 0, FALSE).open
<1>1. FALSE \in {FALSE, TRUE} /\ 0 \in Nat
  OBVIOUS
<1>2. Answer(d, v, 0, FALSE) \in Downloads /\ Answer(d, v, 0, FALSE).file = d.file
  BY <1>1, Answered, ZenonT(60)
<1>3. Answer(d, v, 0, FALSE).size = d.size /\ Answer(d, v, 0, FALSE).fresh = d.fresh
  BY <1>1, Answered, ZenonT(60)
<1>4. Answer(d, v, 0, FALSE).ver = v /\ Answer(d, v, 0, FALSE).pos = 0
  BY <1>1, Answered, ZenonT(60)
<1>5. Answer(d, v, 0, FALSE).append = FALSE /\ Answer(d, v, 0, FALSE).open
  BY <1>1, Answered, ZenonT(60)
<1> QED BY <1>2, <1>3, <1>4, <1>5

LEMMA AnsweredRest == ASSUME NEW d \in Downloads, NEW v \in Versions, NEW n \in Nat
  PROVE /\ Answer(d, v, n, TRUE) \in Downloads /\ Answer(d, v, n, TRUE).file = d.file
        /\ Answer(d, v, n, TRUE).size = d.size /\ Answer(d, v, n, TRUE).fresh = d.fresh
        /\ Answer(d, v, n, TRUE).ver = v /\ Answer(d, v, n, TRUE).pos = n
        /\ Answer(d, v, n, TRUE).append /\ Answer(d, v, n, TRUE).open
<1>1. TRUE \in {FALSE, TRUE}
  OBVIOUS
<1>2. Answer(d, v, n, TRUE) \in Downloads /\ Answer(d, v, n, TRUE).file = d.file
  BY <1>1, Answered, ZenonT(60)
<1>3. Answer(d, v, n, TRUE).size = d.size /\ Answer(d, v, n, TRUE).fresh = d.fresh
  BY <1>1, Answered, ZenonT(60)
<1>4. Answer(d, v, n, TRUE).ver = v /\ Answer(d, v, n, TRUE).pos = n
  BY <1>1, Answered, ZenonT(60)
<1>5. Answer(d, v, n, TRUE).append = TRUE /\ Answer(d, v, n, TRUE).open
  BY <1>1, Answered, ZenonT(60)
<1> QED BY <1>2, <1>3, <1>4, <1>5

LEMMA Opened == ASSUME NEW f \in Files, NEW n \in Nat, NEW b \in BOOLEAN
  PROVE /\ Open(f, n, b) \in Downloads /\ Open(f, n, b).file = f /\ Open(f, n, b).size = n
        /\ Open(f, n, b).fresh = b /\ Open(f, n, b).attempt = 1
<1> DEFINE d1 == [NoDownload EXCEPT !.file = f]
           d2 == [d1 EXCEPT !.size = n]
           d3 == [d2 EXCEPT !.fresh = b]
<1>1. d1 \in Downloads /\ d1.file = f /\ d1.attempt = 1
  BY Constants DEF Downloads, NoDownload
<1> HIDE DEF d1
<1>2. d2 \in Downloads /\ d2.file = f /\ d2.size = n /\ d2.attempt = 1
  BY <1>1 DEF Downloads
<1> HIDE DEF d2
<1>3. d3 \in Downloads /\ d3.file = f /\ d3.size = n /\ d3.fresh = b /\ d3.attempt = 1
  BY <1>2 DEF Downloads
<1>4. d3 = Open(f, n, b)
  BY DEF Open, d1, d2, d3
<1> QED BY <1>3, <1>4

LEMMA AgainType == ASSUME Shape, NEW q \in Requests, NEW n \in Nat, NEW F, Again(q, n, F)
  PROVE /\ dl' \in [Requests -> Downloads]
        /\ \A r \in Requests : r # q => dl'[r] = Detached(r, F)
        /\ dl'[q].fresh => dl'[q].size = n /\ dl[q].fresh
        /\ \E p \in {"live", "try", "failed", "connect"} : pc' = [pc EXCEPT ![q] = p]
        /\ pc' \in [Requests -> Places]
<1> DEFINE last == dl[q].attempt = Attempts
           next == IF last THEN NoDownload
                   ELSE [dl[q] EXCEPT !.size = n, !.attempt = @ + 1, !.open = FALSE]
<1>1. dl' = [r \in Requests |-> IF r = q THEN next ELSE Detached(r, F)]
  BY DEF Again
<1>2. dl[q] \in Downloads
  BY DEF Shape
<1>3. ASSUME last PROVE next \in Downloads /\ ~next.fresh
  BY <1>3, Constants DEF NoDownload
<1>4. ASSUME ~last PROVE next \in Downloads /\ next.size = n /\ next.fresh = dl[q].fresh
  BY <1>2, <1>4, Restarted
<1>5. dl' \in [Requests -> Downloads] /\ dl'[q] = next
  <2>1. next \in Downloads
    BY <1>3, <1>4
  <2> HIDE DEF next
  <2> QED BY <1>1, <2>1, DetachedType
<1>6. \E p \in {"live", "try", "failed", "connect"} : pc' = [pc EXCEPT ![q] = p]
  BY LeaveFileType DEF Again, Goto
<1>8. pc' \in [Requests -> Places]
  BY <1>6, Names DEF Shape
<1>7. next.fresh => next.size = n /\ dl[q].fresh
  BY <1>3, <1>4
<1> HIDE DEF next, last
<1> QED BY <1>1, <1>5, <1>6, <1>7, <1>8

\* Every step of a request keeps the types.
LEMMA StepShape == ASSUME Shape, NEW q \in Requests, Step(q) PROVE Shape'
<1> USE Constants, Names
<1>0. dl[q] \in Downloads /\ dl[q].file \in Files /\ dl[q].ver \in Versions /\ dl[q].pos \in Nat /\ dl[q].size \in Nat
  BY DEF Shape, Downloads
<1>a. UNCHANGED <<dl, archives, alone, server>> /\ pc' \in [Requests -> Places] /\ want' \in [Requests -> Versions]
      /\ got' \in [Requests -> Seq(Chunks)] /\ sound' \in [Requests -> BOOLEAN] => Shape'
  BY DEF Shape, server
<1>b. UNCHANGED <<server, taken>> /\ pc' \in [Requests -> Places] /\ dl' \in [Requests -> Downloads]
      /\ archives' \in [Files -> Seq(Chunks)] /\ alone' \in [Requests -> BOOLEAN] => Shape'
  BY DEF Shape, server, taken
<1>c. ASSUME NEW f \in Files, Download(q, f) PROVE Shape'
  <2> DEFINE d == Open(f, Len(archives[f]), archives[f] = <<>>)
  <2>1. Len(archives[f]) \in Nat /\ (archives[f] = <<>>) \in BOOLEAN
    BY DEF Shape
  <2>2. d \in Downloads
    BY <2>1, Opened
  <2>3. dl' = [dl EXCEPT ![q] = d] /\ alone' = [alone EXCEPT ![q] = TRUE]
        /\ UNCHANGED <<server, archives, taken>> /\ Goto(q, "connect")
    BY <1>c DEF Download, Open
  <2> HIDE DEF d
  <2>4. dl' \in [Requests -> Downloads] /\ alone' \in [Requests -> BOOLEAN]
    BY <2>2, <2>3 DEF Shape
  <2>5. pc' \in [Requests -> Places] /\ archives' \in [Files -> Seq(Chunks)]
    BY <2>3, GotoType DEF Shape
  <2> QED BY <1>b, <2>3, <2>4, <2>5
<1>d. ASSUME Forget(q) PROVE dl' \in [Requests -> Downloads] /\ alone' \in [Requests -> BOOLEAN]
  BY <1>d DEF Forget, Shape
<1>e. ASSUME NEW F, Disturb(q, F) PROVE alone' \in [Requests -> BOOLEAN]
  BY <1>e, AloneType DEF Disturb
<1>f. ASSUME NEW lock, NEW p \in Places, NEW order, Begin(q, lock, p, order) PROVE Shape'
  <2>1. pc' \in [Requests -> Places] /\ want' \in [Requests -> Versions]
        /\ got' \in [Requests -> Seq(Chunks)] /\ sound' \in [Requests -> BOOLEAN]
    BY <1>f, GotoType DEF Begin, Shape
  <2> QED BY <1>a, <1>f, <2>1 DEF Begin, history
<1>1. ASSUME Fetch(q) \/ FetchForUser(q) \/ FetchLocal(q) PROVE Shape'
  BY <1>1, <1>f DEF Fetch, FetchForUser, FetchLocal
<1>2. ASSUME TryDeb(q) \/ TryNative(q) PROVE Shape'
  <2>1. CASE \E f \in Files : Download(q, f)
    BY <2>1, <1>c
  <2>2. CASE Goto(q, "live") /\ UNCHANGED <<server, archives, locals, dl, taken, history, bounds>>
    <3>1. pc' \in [Requests -> Places] /\ UNCHANGED <<dl, archives, alone, server, want, got, sound>>
      BY <2>2, GotoType DEF taken, history
    <3> QED BY <1>a, <3>1 DEF Shape
  <2>3. listing \in Files
    BY DEF Shape
  <2> QED BY <1>2, <2>1, <2>2, <2>3 DEF TryDeb, TryNative
<1>3. ASSUME ConnectFails(q) \/ ReadFails(q) PROVE Shape'
  <2>1. Again(q, dl[q].size, {}) /\ UNCHANGED <<server, archives, taken, alone>>
    BY <1>3 DEF ConnectFails, ReadFails, Faulted
  <2>2. dl' \in [Requests -> Downloads] /\ pc' \in [Requests -> Places]
    BY <2>1, <1>0, AgainType DEF Shape
  <2> QED BY <1>b, <2>1, <2>2 DEF Shape
<1>4. ASSUME AnswerWhole(q) PROVE Shape'
  <2> DEFINE d == Answer(dl[q], Serving(q), 0, FALSE)
  <2>1. d \in Downloads
    BY <1>0, AnsweredWhole, ServingType
  <2>2. dl' = [dl EXCEPT ![q] = d] /\ archives' = [archives EXCEPT ![dl[q].file] = <<>>]
        /\ Disturb(q, {dl[q].file}) /\ UNCHANGED <<server, taken>> /\ Goto(q, "stream")
    BY <1>4 DEF AnswerWhole, Answer
  <2> HIDE DEF d
  <2>3. dl' \in [Requests -> Downloads] /\ archives' \in [Files -> Seq(Chunks)] /\ pc' \in [Requests -> Places]
    BY <1>0, <2>1, <2>2, GotoType DEF Shape
  <2> QED BY <1>b, <1>e, <2>2, <2>3
<1>5. ASSUME AnswerRest(q) PROVE Shape'
  <2>1. UNCHANGED <<server, archives, taken>>
    BY <1>5 DEF AnswerRest
  <2>2. CASE LeaveFile(q) /\ Forget(q)
    BY <1>b, <1>d, <2>1, <2>2, LeaveFileType DEF Shape
  <2>3. CASE /\ dl' = [dl EXCEPT ![q] = [@ EXCEPT !.ver = Serving(q), !.pos = dl[q].size,
                                             !.append = TRUE, !.open = TRUE]]
             /\ Goto(q, "stream") /\ UNCHANGED <<locals, history>>
    <3> DEFINE d == Answer(dl[q], Serving(q), dl[q].size, TRUE)
    <3>1. d \in Downloads
      BY <1>0, AnsweredRest, ServingType
    <3>2. dl' = [dl EXCEPT ![q] = d] /\ UNCHANGED alone
      BY <2>3 DEF Answer, history
    <3> HIDE DEF d
    <3>3. dl' \in [Requests -> Downloads] /\ pc' \in [Requests -> Places]
      BY <3>1, <3>2, <2>3, GotoType DEF Shape
    <3> QED BY <1>b, <2>1, <3>2, <3>3 DEF Shape
  <2> QED BY <1>5, <2>2, <2>3 DEF AnswerRest
<1>6. ASSUME AnswerUnsatisfiable(q) PROVE Shape'
  <2>1. Again(q, 0, {dl[q].file}) /\ UNCHANGED <<server, taken>> /\ alone' = Alone(q, {dl[q].file})
        /\ archives' = [archives EXCEPT ![dl[q].file] = <<>>]
    BY <1>6 DEF AnswerUnsatisfiable
  <2>2. dl' \in [Requests -> Downloads] /\ pc' \in [Requests -> Places]
    BY <2>1, AgainType DEF Shape
  <2>3. archives' \in [Files -> Seq(Chunks)]
    BY <1>0, <2>1 DEF Shape
  <2> QED BY <1>b, <2>1, <2>2, <2>3, AloneType
<1>7. ASSUME Read(q) PROVE Shape'
  <2> DEFINE d == dl[q]
             x == <<d.ver, d.pos + 1>>
  <2>1. dl' = [dl EXCEPT ![q].pos = @ + 1] /\ UNCHANGED <<server, pc, taken>>
    BY <1>7 DEF Read
  <2>2. dl' \in [Requests -> Downloads]
    <3>1. [dl[q] EXCEPT !.pos = @ + 1] \in Downloads
      BY <1>0 DEF Downloads
    <3> QED BY <2>1, <3>1 DEF Shape
  <2>3. CASE d.open
    <3>1. archives' = [archives EXCEPT ![d.file] = IF d.append THEN Append(@, x) ELSE Write(@, d.pos, x)]
          /\ Disturb(q, {d.file})
      BY <1>7, <2>3 DEF Read
    <3>2. x \in Chunks
      <4>1. dl[q].ver \in Files
        BY <1>0
      <4>2. dl[q].pos + 1 \in Nat
        BY <1>0
      <4> QED BY <4>1, <4>2 DEF Chunks
    <3>5. archives[d.file] \in Seq(Chunks)
      BY <1>0 DEF Shape
    <3>6. Write(archives[d.file], d.pos, x) \in Seq(Chunks)
      BY <1>0, <3>2, <3>5, WriteIsSeq
    <3>3. Append(archives[d.file], x) \in Seq(Chunks) /\ Write(archives[d.file], d.pos, x) \in Seq(Chunks)
      BY <3>2, <3>5, <3>6
    <3>4. archives' \in [Files -> Seq(Chunks)]
      BY <3>1, <3>3, <1>0 DEF Shape
    <3> QED BY <1>b, <1>e, <2>1, <2>2, <3>1, <3>4 DEF Shape
  <2>4. CASE ~d.open
    BY <1>7, <2>4, <1>b, <2>1, <2>2 DEF Read, Shape, history
  <2> QED BY <2>3, <2>4
<1>8. ASSUME Downloaded(q) PROVE Shape'
  BY <1>8, <1>b, GotoType DEF Downloaded, Shape, history
<1>9. ASSUME ExtractDeb(q) \/ ExtractSam(q) PROVE Shape'
  <2>1. Unpacked(q)
    BY <1>9 DEF ExtractDeb, ExtractSam
  <2>2. got' \in [Requests -> Seq(Chunks)] /\ want' \in [Requests -> Versions] /\ sound' \in [Requests -> BOOLEAN]
    BY <2>1, <1>0 DEF Unpacked, Shape, Downloads
  <2>3. pc' \in [Requests -> Places] /\ UNCHANGED <<server, archives>>
    BY <2>1, GotoType DEF Unpacked, Extracted
  <2> QED BY <2>1, <2>2, <2>3, <1>d DEF Shape, Unpacked, server
<1>10. ASSUME ExtractFails(q) PROVE Shape'
  <2>1. archives[dl[q].file] \in Seq(Chunks)
    BY <1>0 DEF Shape
  <2>2. PICK left \in {<<>>} \cup Leaves(archives[dl[q].file]) : got' = [got EXCEPT ![q] = left]
    BY <1>10 DEF ExtractFails
  <2>3. left \in Seq(Chunks)
    BY <2>1, <2>2, LeftIsSeq
  <2>4. got' \in [Requests -> Seq(Chunks)]
    BY <2>2, <2>3 DEF Shape
  <2>5. Forget(q) /\ LeaveFile(q) /\ UNCHANGED <<server, archives, want, sound>>
    BY <1>10 DEF ExtractFails
  <2>6. pc' \in [Requests -> Places]
    BY <2>5, LeaveFileType
  <2> QED BY <1>d, <2>4, <2>5, <2>6 DEF Shape, server
<1>18. ASSUME WriteFails(q) PROVE Shape'
  BY <1>18, <1>b, <1>d, LeaveFileType DEF WriteFails, Shape
<1>11. ASSUME SignatureRefused(q) PROVE Shape'
  BY <1>11, <1>b, <1>d, LeaveRepoType DEF SignatureRefused, Shape
<1>12. ASSUME LiveList(q) \/ Primary(q) PROVE Shape'
  <2>1. pc' \in [Requests -> Places]
    BY <1>12, GotoType DEF LiveList, Primary
  <2>2. want' \in [Requests -> Versions]
    BY <1>12, ServingType DEF LiveList, Primary, Shape
  <2> QED BY <1>12, <1>a, <2>1, <2>2 DEF LiveList, Primary, Shape, history
<1>13. ASSUME LiveBody(q) \/ RpmBody(q) PROVE Shape'
  <2>1. PICK x \in Seq(Chunks), s \in BOOLEAN : Received(q, x, s)
    <3>1. CASE LiveBody(q)
      <4>1. Onto(want[q], got[q]) \in Seq(Chunks) /\ (got[q] = <<>>) \in BOOLEAN
        BY OntoIsSeq DEF Shape
      <4> QED BY <3>1, <4>1 DEF LiveBody
    <3>2. CASE RpmBody(q)
      <4>1. Whole(published["Rpm"]) \in Seq(Chunks) /\ (want[q] \in Summed) \in BOOLEAN
        <5>1. published["Rpm"] \in Versions
          BY ServingType DEF Shape
        <5>2. Whole(published["Rpm"]) \in Seq(Chunks)
          BY <5>1, WholeIsSeq
        <5>3. (want[q] \in Summed) \in BOOLEAN
          OBVIOUS
        <5> QED BY <5>2, <5>3
      <4> QED BY <3>2, <4>1 DEF RpmBody
    <3> QED BY <1>13, <3>1, <3>2
  <2>2. pc' \in [Requests -> Places]
    BY <2>1, GotoType DEF Received, Extracted
  <2>3. got' \in [Requests -> Seq(Chunks)] /\ sound' \in [Requests -> BOOLEAN] /\ want' = want
    BY <2>1 DEF Received, Shape
  <2> QED BY <2>1, <2>2, <2>3, <1>a DEF Received, Shape, history
<1>14. ASSUME TryRpm(q) \/ UnpackLocal(q) PROVE Shape'
  <2>1. pc' \in [Requests -> Places]
    BY <1>14, GotoType DEF TryRpm, UnpackLocal
  <2> QED BY <1>14, <1>b, <2>1 DEF TryRpm, UnpackLocal, Shape, history
<1>15. ASSUME FetchFails(q) PROVE Shape'
  <2>1. pc' \in [Requests -> Places]
    BY <1>15, LeaveRepoType DEF FetchFails
  <2>2. got' \in [Requests -> Seq(Chunks)]
    BY <1>15 DEF FetchFails, Shape
  <2> QED BY <1>15, <2>1, <2>2 DEF FetchFails, Shape, history, server
<1>16. ASSUME Pack(q) PROVE Shape'
  <2> DEFINE d == [NoDownload EXCEPT !.open = TRUE]
  <2>1. d \in Downloads
    BY DEF Downloads
  <2>2. dl' = [dl EXCEPT ![q] = d] /\ archives' = [archives EXCEPT ![0] = <<>>]
        /\ Disturb(q, {0}) /\ UNCHANGED <<server, taken>> /\ Goto(q, "stub")
    BY <1>16 DEF Pack
  <2> HIDE DEF d
  <2>3. dl' \in [Requests -> Downloads] /\ archives' \in [Files -> Seq(Chunks)] /\ pc' \in [Requests -> Places]
    BY <2>1, <2>2, GotoType DEF Shape
  <2> QED BY <1>b, <1>e, <2>2, <2>3
<1>17. ASSUME PackStub(q) PROVE Shape'
  <2>1. dl' = [dl EXCEPT ![q] = NoDownload] /\ Goto(q, "done") /\ UNCHANGED <<server, taken>>
    BY <1>17 DEF PackStub
  <2>2. dl' \in [Requests -> Downloads] /\ pc' \in [Requests -> Places]
    BY <2>1, GotoType DEF Shape
  <2>3. Write(archives[0], 0, Stub) \in Seq(Chunks)
    BY WriteIsSeq DEF Shape
  <2>4. archives' \in [Files -> Seq(Chunks)]
    BY <1>17, <2>3 DEF PackStub, Shape
  <2>5. alone' \in [Requests -> BOOLEAN]
    BY <1>17, <1>e DEF PackStub, Shape, history
  <2> QED BY <1>b, <2>1, <2>2, <2>4, <2>5
<1> QED
  BY <1>1, <1>2, <1>3, <1>4, <1>5, <1>6, <1>7, <1>8, <1>9, <1>10, <1>11, <1>12, <1>13, <1>14, <1>15, <1>16, <1>17,
     <1>18
  DEF Step

LEMMA NextShape == Shape /\ [Next]_vars => Shape'
<1> SUFFICES ASSUME Shape, [Next]_vars PROVE Shape'
  OBVIOUS
<1> USE Constants, Names
<1>1. CASE \E q \in Requests : Step(q)
  BY <1>1, StepShape
<1>2. CASE Collect
  <2>1. PICK F \in {Orphans(TRUE), Orphans(FALSE), OfPackage} :
          /\ archives' = [f \in Files |-> IF f \in F THEN <<>> ELSE archives[f]]
          /\ dl' = [r \in Requests |-> Detached(r, F)]
          /\ alone' = [r \in Requests |-> alone[r] /\ ~\E f \in F : Uses(r, f)]
          /\ UNCHANGED <<server, locals, pc, taken, calm>>
    BY <1>2 DEF Collect
  <2>2. dl' \in [Requests -> Downloads]
    BY <2>1, DetachedType
  <2>3. archives' \in [Files -> Seq(Chunks)] /\ alone' \in [Requests -> BOOLEAN]
    BY <2>1 DEF Shape
  <2> QED BY <2>1, <2>2, <2>3 DEF Shape, server, taken
<1>3. CASE \E s \in Sources : Publish(s)
  BY <1>3 DEF Publish, Shape, taken
<1>4. CASE Update
  BY <1>4, ServingType DEF Update, Shape, taken, history, Sources
<1>5. CASE End
  BY <1>5 DEF End, Shape, server
<1>6. CASE UNCHANGED vars
  BY <1>6 DEF vars, Shape, server, taken, history
<1> QED BY <1>1, <1>2, <1>3, <1>4, <1>5, <1>6 DEF Next

-----------------------------------------------------------------------------
(* Downloads that nobody disturbs. *)

\* A request keeps its part of FetchInv when the step leaves its locals, and its file
\* as long as it is alone at it.
LEMMA Kept ==
  ASSUME NEW r \in Requests, Undisturbed(r), Vouched(r),
         pc'[r] = pc[r], dl'[r] = dl[r], want'[r] = want[r], got'[r] = got[r], sound'[r] = sound[r],
         alone'[r] => alone[r],
         alone'[r] /\ pc[r] \in {"stream", "read"} => archives'[dl[r].file] = archives[dl[r].file]
  PROVE  Undisturbed(r)' /\ Vouched(r)'
<1>1. Undisturbed(r)'
  BY DEF Undisturbed
<1>2. Vouched(r)'
  BY DEF Vouched
<1> QED BY <1>1, <1>2

\* Writing and unlinking the files F takes from the others no more than that.
LEMMA OthersKept ==
  ASSUME Shape, NEW r \in Requests, Undisturbed(r), Vouched(r), NEW F,
         pc'[r] = pc[r], dl'[r] = dl[r] \/ dl'[r] = Detached(r, F),
         want'[r] = want[r], got'[r] = got[r], sound'[r] = sound[r],
         alone'[r] => alone[r] /\ ~\E f \in F : Uses(r, f),
         \A f \in Files \ F : archives'[f] = archives[f]
  PROVE  Undisturbed(r)' /\ Vouched(r)'
<1>1. Vouched(r)'
  BY DEF Vouched
<1>2. CASE ~alone'[r]
  BY <1>1, <1>2 DEF Undisturbed
<1>3. CASE alone'[r]
  <2>1. dl'[r] = dl[r] /\ alone[r]
    BY <1>3 DEF Detached
  <2>2. dl[r].file \in Files
    BY DEF Shape, Downloads
  <2>3. pc[r] \in {"stream", "read"} => dl[r].file \notin F
    BY <1>3 DEF Uses
  <2> QED BY <2>1, <2>2, <2>3, Kept
<1> QED BY <1>2, <1>3

\* A request whose download is over, or is not one of these, has nothing to keep.
LEMMA NothingKept ==
  ASSUME NEW q \in Requests, ~(dl[q].fresh /\ alone[q])', ~sound'[q]
  PROVE  Undisturbed(q)' /\ Vouched(q)'
BY DEF Undisturbed, Vouched

LEMMA AgainKeeps ==
  ASSUME Shape, FetchInv, NEW q \in Requests, NEW n \in Nat, NEW F \in SUBSET Files, Again(q, n, F),
         pc[q] \in {"connect", "stream"}, n = 0 \/ n = dl[q].size, UNCHANGED taken,
         \A r \in Requests : alone'[r] => alone[r] /\ (r = q \/ ~\E f \in F : Uses(r, f)),
         \A f \in Files \ F : archives'[f] = archives[f]
  PROVE  FetchInv'
<1>1. /\ \A r \in Requests : r # q => dl'[r] = Detached(r, F)
      /\ dl'[q].fresh => dl'[q].size = n /\ dl[q].fresh
      /\ \E p \in {"live", "try", "failed", "connect"} : pc' = [pc EXCEPT ![q] = p]
  BY AgainType
<1>2. \A r \in Requests : want'[r] = want[r] /\ got'[r] = got[r] /\ sound'[r] = sound[r]
  BY DEF taken
<1>3. \A r \in Requests : r # q => pc'[r] = pc[r]
  BY <1>1
<1>4. pc'[q] \in {"live", "try", "failed", "connect"}
  BY <1>1 DEF Shape
<1>5. ~sound[q]
  BY DEF FetchInv, Vouched
<1>6. Undisturbed(q)'
  <2> SUFFICES ASSUME dl'[q].fresh, alone'[q] PROVE dl'[q].size = 0
    BY <1>4 DEF Undisturbed
  <2>1. dl[q].fresh /\ alone[q] /\ dl'[q].size = n
    BY <1>1
  <2>2. dl[q].size = 0
    BY <2>1 DEF FetchInv, Undisturbed
  <2> QED BY <2>1, <2>2
<1>7. Vouched(q)'
  BY <1>2, <1>5 DEF Vouched
<1>8. ASSUME NEW r \in Requests, r # q PROVE Undisturbed(r)' /\ Vouched(r)'
  <2>1. Undisturbed(r) /\ Vouched(r)
    BY DEF FetchInv
  <2>2. alone'[r] => alone[r] /\ ~\E f \in F : Uses(r, f)
    BY <1>8
  <2>3. dl'[r] = Detached(r, F) /\ pc'[r] = pc[r]
    BY <1>8, <1>1, <1>3
  <2> QED BY <1>2, <2>1, <2>2, <2>3, OthersKept
<1> QED BY <1>6, <1>7, <1>8 DEF FetchInv

\* A step of q that writes or unlinks no files but F.
OnlyOf(q, F) ==
  /\ \A r \in Requests : r # q =>
       /\ pc'[r] = pc[r] /\ dl'[r] = dl[r] /\ want'[r] = want[r] /\ got'[r] = got[r]
       /\ sound'[r] = sound[r] /\ (alone'[r] => alone[r] /\ ~\E f \in F : Uses(r, f))
  /\ \A f \in Files \ F : archives'[f] = archives[f]

\* The requests besides q keep theirs, whatever q does to the files F.
LEMMA OthersInv ==
  ASSUME Shape, FetchInv, NEW q \in Requests, NEW F, OnlyOf(q, F), Undisturbed(q)' /\ Vouched(q)'
  PROVE  FetchInv'
<1>1. ASSUME NEW r \in Requests, r # q PROVE Undisturbed(r)' /\ Vouched(r)'
  <2>1. Undisturbed(r) /\ Vouched(r)
    BY DEF FetchInv
  <2> QED BY <1>1, <2>1, OthersKept DEF OnlyOf
<1> QED BY <1>1 DEF FetchInv

LEMMA DisturbType == ASSUME Shape, NEW q \in Requests, NEW F, Disturb(q, F)
  PROVE /\ \A r \in Requests : r # q => (alone'[r] => alone[r] /\ ~\E f \in F : Uses(r, f))
        /\ alone'[q] = alone[q]
BY DEF Disturb, Alone, Shape

\* A request starts, or gives up before it has extracted: it vouches for nothing.
LEMMA OwnOnly ==
  ASSUME Shape, FetchInv, NEW q \in Requests, NEW p \in Places, pc' = [pc EXCEPT ![q] = p],
         UNCHANGED archives,
         \A r \in Requests : r # q =>
           /\ dl'[r] = dl[r] /\ want'[r] = want[r] /\ got'[r] = got[r]
           /\ sound'[r] = sound[r] /\ alone'[r] = alone[r],
         Undisturbed(q)' /\ Vouched(q)'
  PROVE  FetchInv'
<1>1. OnlyOf(q, {})
  BY DEF OnlyOf
<1> QED BY <1>1, OthersInv

LEMMA StepFetchInv == ASSUME Shape, FetchInv, NEW q \in Requests, Step(q) PROVE FetchInv'
<1> USE Constants, Names
<1>0. dl[q] \in Downloads /\ dl[q].file \in Files /\ dl[q].ver \in Versions /\ dl[q].pos \in Nat /\ dl[q].size \in Nat
  BY DEF Shape, Downloads
<1>i. Undisturbed(q) /\ Vouched(q)
  BY DEF FetchInv
<1>u. sound[q] => pc[q] \in {"pack", "stub", "done"}
  BY <1>i DEF Vouched
<1>c. ASSUME NEW f \in Files, Download(q, f), pc[q] = "try" PROVE FetchInv'
  <2> DEFINE d == Open(f, Len(archives[f]), archives[f] = <<>>)
  <2>1. Len(archives[f]) \in Nat /\ (archives[f] = <<>>) \in BOOLEAN /\ (archives[f] = <<>> => Len(archives[f]) = 0)
    BY DEF Shape
  <2>2. d.size = Len(archives[f]) /\ d.fresh = (archives[f] = <<>>)
    BY <2>1, Opened
  <2>3. dl' = [dl EXCEPT ![q] = d] /\ alone' = [alone EXCEPT ![q] = TRUE]
        /\ UNCHANGED <<archives, taken>> /\ Goto(q, "connect")
    BY <1>c DEF Download, Open
  <2> HIDE DEF d
  <2>4. dl'[q] = d /\ pc'[q] = "connect"
    BY <2>3, GotoType DEF Shape
  <2>5. Undisturbed(q)'
    BY <2>1, <2>2, <2>4 DEF Undisturbed
  <2>6. Vouched(q)'
    BY <1>c, <1>u, <2>3 DEF Vouched, taken
  <2>7. \A r \in Requests : r # q => dl'[r] = dl[r] /\ alone'[r] = alone[r]
    BY <2>3
  <2>8. pc' = [pc EXCEPT ![q] = "connect"] /\ UNCHANGED <<want, got, sound>>
    BY <2>3 DEF Goto, taken
  <2> QED BY <2>3, <2>5, <2>6, <2>7, <2>8, OwnOnly
<1>d. ASSUME NEW p \in Places, pc' = [pc EXCEPT ![q] = p], Forget(q), UNCHANGED <<archives, want, sound>>,
             \A r \in Requests : r # q => got'[r] = got[r], pc[q] \notin {"pack", "stub", "done"}
      PROVE FetchInv'
  <2>1. ~alone'[q] /\ ~sound'[q]
    BY <1>d, <1>u DEF Forget, Shape
  <2>2. \A r \in Requests : r # q => dl'[r] = dl[r] /\ alone'[r] = alone[r]
    BY <1>d DEF Forget
  <2> QED BY <1>d, <2>1, <2>2, NothingKept, OwnOnly
<1>f. ASSUME NEW lock, NEW p \in {"try", "local"}, NEW order, Begin(q, lock, p, order) PROVE FetchInv'
  <2>1. pc' = [pc EXCEPT ![q] = p] /\ sound' = [sound EXCEPT ![q] = FALSE] /\ UNCHANGED <<archives, dl, alone>>
        /\ want' = [want EXCEPT ![q] = 1] /\ got' = [got EXCEPT ![q] = <<>>]
    BY <1>f DEF Begin, Goto, history
  <2>2. pc'[q] = p /\ ~sound'[q]
    BY <2>1 DEF Shape
  <2>3. Undisturbed(q)' /\ Vouched(q)'
    BY <1>i, <2>1, <2>2 DEF Undisturbed, Vouched
  <2>4. \A r \in Requests : r # q => sound'[r] = sound[r] /\ want'[r] = want[r] /\ got'[r] = got[r]
    BY <2>1
  <2>5. p \in Places
    OBVIOUS
  <2> QED BY <2>1, <2>3, <2>4, <2>5, OwnOnly
<1>1. ASSUME Fetch(q) \/ FetchForUser(q) \/ FetchLocal(q) PROVE FetchInv'
  BY <1>1, <1>f DEF Fetch, FetchForUser, FetchLocal
\* Steps before anything is extracted that touch neither downloads nor files.
<1>g. ASSUME NEW p \in Places \ {"stream", "read"}, pc' = [pc EXCEPT ![q] = p], UNCHANGED <<archives, dl, alone, got, sound>>,
             pc[q] \notin {"pack", "stub", "done"}, \A r \in Requests : r # q => want'[r] = want[r]
      PROVE FetchInv'
  <2>1. pc'[q] = p /\ ~sound'[q]
    BY <1>g, <1>u DEF Shape
  <2>2. Undisturbed(q)' /\ Vouched(q)'
    BY <1>g, <1>i, <2>1 DEF Undisturbed, Vouched
  <2> QED BY <1>g, <2>2, OwnOnly
<1>2. ASSUME TryDeb(q) \/ TryNative(q) PROVE FetchInv'
  <2>1. CASE \E f \in Files : Download(q, f)
    BY <1>2, <2>1, <1>c DEF TryDeb, TryNative
  <2>2. CASE Goto(q, "live") /\ UNCHANGED <<server, archives, locals, dl, taken, history, bounds>>
    BY <1>2, <2>2, <1>g DEF TryDeb, TryNative, Goto, taken, history
  <2>3. listing \in Files
    BY DEF Shape
  <2> QED BY <1>2, <2>1, <2>2, <2>3 DEF TryDeb, TryNative
<1>3. ASSUME ConnectFails(q) \/ ReadFails(q) PROVE FetchInv'
  <2>1. Again(q, dl[q].size, {}) /\ UNCHANGED <<archives, taken, alone>> /\ pc[q] \in {"connect", "stream"}
    BY <1>3 DEF ConnectFails, ReadFails, Faulted
  <2>2. /\ \A r \in Requests : alone'[r] => alone[r] /\ (r = q \/ ~\E f \in {} : Uses(r, f))
        /\ \A f \in Files \ {} : archives'[f] = archives[f]
    BY <2>1
  <2> QED BY <1>0, <2>1, <2>2, AgainKeeps
<1>4. ASSUME AnswerWhole(q) PROVE FetchInv'
  <2> DEFINE d == Answer(dl[q], Serving(q), 0, FALSE)
  <2>1. d.file = dl[q].file /\ d.size = dl[q].size /\ d.fresh = dl[q].fresh
        /\ d.ver = Serving(q) /\ d.pos = 0 /\ ~d.append /\ d.open
    <3>1. Serving(q) \in Versions /\ dl[q] \in Downloads
      BY <1>0, ServingType
    <3>2. d.file = dl[q].file /\ d.size = dl[q].size /\ d.fresh = dl[q].fresh
      BY <3>1, AnsweredWhole, ZenonT(60)
    <3>3. d.ver = Serving(q) /\ d.pos = 0 /\ ~d.append /\ d.open
      BY <3>1, AnsweredWhole, ZenonT(60)
    <3> QED BY <3>2, <3>3
  <2>2. dl' = [dl EXCEPT ![q] = d] /\ archives' = [archives EXCEPT ![dl[q].file] = <<>>]
        /\ Disturb(q, {dl[q].file}) /\ UNCHANGED <<server, taken>> /\ Goto(q, "stream") /\ pc[q] = "connect"
    BY <1>4 DEF AnswerWhole, Answer
  <2> HIDE DEF d
  <2>3. dl'[q] = d /\ archives'[dl[q].file] = <<>> /\ pc' = [pc EXCEPT ![q] = "stream"] /\ pc'[q] = "stream"
    BY <1>0, <2>2 DEF Shape, Goto
  <2>4. Part(Serving(q), 0) = <<>> /\ 0 <= Parts[Serving(q)]
    <3>1. Part(Serving(q), 0) \in Seq(Chunks) /\ Len(Part(Serving(q), 0)) = 0
      BY PartIsSeq, ServingType
    <3>2. 0 <= Parts[Serving(q)]
      <4>1. Parts[Serving(q)] \in Nat
        BY ServingType, PartsAreNumbers
      <4> QED BY <4>1
    <3> QED BY <3>1, <3>2
  <2>5. alone'[q] = alone[q]
    BY <2>2, DisturbType
  <2>6. Undisturbed(q)'
    BY <1>i, <2>1, <2>3, <2>4, <2>5 DEF Undisturbed
  <2>7. Vouched(q)'
    BY <1>u, <2>2 DEF Vouched, taken
  <2>8. OnlyOf(q, {dl[q].file})
    <3>1. \A r \in Requests : r # q =>
            /\ pc'[r] = pc[r] /\ dl'[r] = dl[r] /\ want'[r] = want[r] /\ got'[r] = got[r]
            /\ sound'[r] = sound[r] /\ (alone'[r] => alone[r] /\ ~\E f \in {dl[q].file} : Uses(r, f))
      BY <2>2, <2>3, DisturbType DEF taken
    <3>2. \A f \in Files \ {dl[q].file} : archives'[f] = archives[f]
      BY <2>2 DEF Shape
    <3> QED BY <3>1, <3>2 DEF OnlyOf
  <2> QED BY <2>6, <2>7, <2>8, OthersInv
<1>5. ASSUME AnswerRest(q) PROVE FetchInv'
  <2>1. UNCHANGED <<archives, taken>> /\ pc[q] = "connect" /\ dl[q].size > 0
    BY <1>5 DEF AnswerRest, Asks
  <2>2. CASE LeaveFile(q) /\ Forget(q)
    <3>1. PICK p \in {"live", "try", "failed"} : pc' = [pc EXCEPT ![q] = p]
      BY <2>2, LeaveFileType
    <3> QED BY <1>d, <2>1, <2>2, <3>1 DEF taken
  <2>3. CASE /\ dl' = [dl EXCEPT ![q] = [@ EXCEPT !.ver = Serving(q), !.pos = dl[q].size,
                                             !.append = TRUE, !.open = TRUE]]
             /\ Goto(q, "stream") /\ UNCHANGED <<locals, history>>
    <3> DEFINE d == Answer(dl[q], Serving(q), dl[q].size, TRUE)
    <3>5. Serving(q) \in Versions /\ dl[q] \in Downloads /\ dl[q].size \in Nat
      BY <1>0, ServingType
    <3>6. d.fresh = dl[q].fresh
      BY <3>5, AnsweredRest, ZenonT(60)
    <3>1. d.fresh = dl[q].fresh /\ dl' = [dl EXCEPT ![q] = d]
      BY <2>3, <3>6 DEF Answer
    <3> HIDE DEF d
    <3>2. dl'[q].fresh = dl[q].fresh /\ UNCHANGED alone /\ ~sound'[q]
      BY <1>u, <2>1, <2>3, <3>1 DEF Shape, history, taken
    <3>3. ~(dl[q].fresh /\ alone[q])
      BY <1>0, <1>i, <2>1 DEF Undisturbed
    <3>4. Undisturbed(q)' /\ Vouched(q)'
      BY <3>2, <3>3, NothingKept
    <3>7. pc' = [pc EXCEPT ![q] = "stream"] /\ \A r \in Requests : r # q => dl'[r] = dl[r]
      BY <2>3 DEF Goto
    <3> QED BY <2>1, <3>2, <3>4, <3>7, OwnOnly DEF taken
  <2> QED BY <1>5, <2>2, <2>3 DEF AnswerRest
<1>6. ASSUME AnswerUnsatisfiable(q) PROVE FetchInv'
  <2>1. Again(q, 0, {dl[q].file}) /\ UNCHANGED <<server, taken>> /\ alone' = Alone(q, {dl[q].file})
        /\ archives' = [archives EXCEPT ![dl[q].file] = <<>>] /\ pc[q] = "connect"
    BY <1>6 DEF AnswerUnsatisfiable, Asks
  <2>2. \A r \in Requests : alone'[r] => alone[r] /\ (r = q \/ ~\E f \in {dl[q].file} : Uses(r, f))
    BY <2>1 DEF Alone
  <2>3. \A f \in Files \ {dl[q].file} : archives'[f] = archives[f]
    BY <2>1 DEF Shape
  <2>4. {dl[q].file} \in SUBSET Files
    BY <1>0
  <2> QED BY <2>1, <2>2, <2>3, <2>4, AgainKeeps
<1>7. ASSUME Read(q) PROVE FetchInv'
  <2> DEFINE x == <<dl[q].ver, dl[q].pos + 1>>
             g == dl[q].file
  <2>1. /\ pc[q] = "stream" /\ dl[q].pos < Parts[dl[q].ver] /\ Parts[dl[q].ver] \in Nat
        /\ dl' = [dl EXCEPT ![q].pos = @ + 1] /\ UNCHANGED <<pc, taken>>
    BY <1>0, <1>7, PartsAreNumbers DEF Read
  <2>2. /\ dl'[q].file = g /\ dl'[q].size = dl[q].size /\ dl'[q].fresh = dl[q].fresh
        /\ dl'[q].ver = dl[q].ver /\ dl'[q].pos = dl[q].pos + 1 /\ dl'[q].append = dl[q].append
        /\ dl'[q].open = dl[q].open
    <3>1. dl'[q] = [dl[q] EXCEPT !.pos = @ + 1]
      BY <2>1 DEF Shape
    <3> QED BY <1>0, <3>1 DEF Downloads
  <2>3. ~sound'[q] /\ Vouched(q)' /\ pc'[q] = "stream"
    BY <1>u, <2>1 DEF Vouched, taken
  <2>4. CASE dl[q].open
    <3>1. archives' = [archives EXCEPT ![g] = IF dl[q].append THEN Append(@, x) ELSE Write(@, dl[q].pos, x)]
          /\ Disturb(q, {g})
      BY <1>7, <2>4 DEF Read
    <3>2. alone'[q] = alone[q]
      BY <3>1, DisturbType
    <3>3. Undisturbed(q)'
      <4> SUFFICES ASSUME dl[q].fresh, alone[q]
                   PROVE /\ dl'[q].size = 0
                         /\ dl'[q].open /\ ~dl'[q].append /\ dl'[q].pos <= Parts[dl'[q].ver]
                         /\ archives'[dl'[q].file] = Part(dl'[q].ver, dl'[q].pos)
        BY <2>2, <2>3, <3>2 DEF Undisturbed
      <4>1. /\ dl[q].size = 0 /\ dl[q].open /\ ~dl[q].append
            /\ archives[g] = Part(dl[q].ver, dl[q].pos)
        BY <1>i, <2>1 DEF Undisturbed
      <4>2. archives'[g] = Write(archives[g], dl[q].pos, x)
        BY <1>0, <3>1, <4>1 DEF Shape
      <4>3. archives'[g] = Part(dl[q].ver, dl[q].pos + 1)
        <5>1. Write(Part(dl[q].ver, dl[q].pos), dl[q].pos, x) = Part(dl[q].ver, dl[q].pos + 1)
          BY <1>0, WriteNext
        <5> QED BY <4>1, <4>2, <5>1
      <4>4. dl[q].pos + 1 <= Parts[dl[q].ver]
        BY <1>0, <2>1
      <4> QED BY <2>2, <4>1, <4>3, <4>4
    <3>4. OnlyOf(q, {g})
      <4>1. \A r \in Requests : r # q =>
              /\ pc'[r] = pc[r] /\ dl'[r] = dl[r] /\ want'[r] = want[r] /\ got'[r] = got[r]
              /\ sound'[r] = sound[r] /\ (alone'[r] => alone[r] /\ ~\E f \in {g} : Uses(r, f))
        BY <2>1, <3>1, DisturbType DEF taken
      <4>2. \A f \in Files \ {g} : archives'[f] = archives[f]
        BY <3>1 DEF Shape
      <4> QED BY <4>1, <4>2 DEF OnlyOf
    <3> QED BY <2>3, <3>3, <3>4, OthersInv
  <2>5. CASE ~dl[q].open
    <3>1. UNCHANGED <<archives, alone>>
      BY <1>7, <2>5 DEF Read, history
    <3>2. ~(dl[q].fresh /\ alone[q])
      BY <1>i, <2>1, <2>5 DEF Undisturbed
    <3>3. Undisturbed(q)'
      BY <2>2, <3>1, <3>2 DEF Undisturbed
    <3>4. \A r \in Requests : r # q => dl'[r] = dl[r]
      BY <2>1
    <3>5. pc' = [pc EXCEPT ![q] = "stream"]
      BY <2>1 DEF Shape
    <3> QED BY <2>1, <2>3, <3>1, <3>3, <3>4, <3>5, OwnOnly DEF taken
  <2> QED BY <2>4, <2>5
<1>8. ASSUME Downloaded(q) PROVE FetchInv'
  <2>1. pc[q] = "stream" /\ dl[q].pos = Parts[dl[q].ver] /\ pc' = [pc EXCEPT ![q] = "read"]
        /\ UNCHANGED <<archives, dl, taken, alone>>
    BY <1>8 DEF Downloaded, Goto, history
  <2>2. pc'[q] = "read" /\ ~sound'[q]
    BY <1>u, <2>1 DEF Shape, taken
  <2>3. Undisturbed(q)'
    BY <1>0, <1>i, <2>1, <2>2, WholeIsSeq DEF Undisturbed
  <2>4. Vouched(q)'
    BY <2>2 DEF Vouched
  <2> QED BY <2>1, <2>3, <2>4, OwnOnly DEF taken
<1>9. ASSUME ExtractDeb(q) \/ ExtractSam(q) PROVE FetchInv'
  <2>1. Unpacked(q) /\ pc[q] = "read"
    BY <1>9 DEF ExtractDeb, ExtractSam
  <2>2. /\ got' = [got EXCEPT ![q] = archives[dl[q].file]] /\ want' = [want EXCEPT ![q] = dl[q].ver]
        /\ sound' = [sound EXCEPT ![q] = dl[q].fresh /\ alone[q]]
        /\ Goto(q, IF locked[q] THEN "pack" ELSE "done") /\ Forget(q) /\ UNCHANGED archives
    BY <2>1 DEF Unpacked, Extracted
  <2>3. PICK p \in {"pack", "done"} : pc' = [pc EXCEPT ![q] = p]
    BY <2>2 DEF Goto
  <2>4. pc'[q] = p /\ ~alone'[q]
    BY <2>2, <2>3 DEF Shape, Forget
  <2>5. sound'[q] => got'[q] = Whole(want'[q])
    BY <1>i, <2>1, <2>2 DEF Undisturbed, Shape
  <2>6. Undisturbed(q)' /\ Vouched(q)'
    BY <2>4, <2>5 DEF Undisturbed, Vouched
  <2>7. \A r \in Requests : r # q =>
           /\ dl'[r] = dl[r] /\ want'[r] = want[r] /\ got'[r] = got[r]
           /\ sound'[r] = sound[r] /\ alone'[r] = alone[r]
    BY <2>2 DEF Forget
  <2> QED BY <2>2, <2>3, <2>6, <2>7, OwnOnly
<1>10. ASSUME ExtractFails(q) \/ SignatureRefused(q) \/ WriteFails(q) PROVE FetchInv'
  <2>1. pc[q] \in {"connect", "stream", "read"} /\ Forget(q) /\ UNCHANGED <<archives, want, sound>>
    <3>1. CASE ExtractFails(q)
      BY <3>1 DEF ExtractFails
    <3>2. CASE SignatureRefused(q)
      BY <3>2 DEF SignatureRefused, taken
    <3>3. CASE WriteFails(q)
      BY <3>3 DEF WriteFails, taken
    <3> QED BY <1>10, <3>1, <3>2, <3>3
  <2>2. PICK p \in {"live", "try", "failed"} : pc' = [pc EXCEPT ![q] = p]
    BY <1>10, LeaveFileType, LeaveRepoType DEF ExtractFails, SignatureRefused, WriteFails
  <2>3. \A r \in Requests : r # q => got'[r] = got[r]
    <3>1. CASE ExtractFails(q)
      <4>1. \E left : got' = [got EXCEPT ![q] = left]
        BY <3>1 DEF ExtractFails
      <4> QED BY <4>1
    <3>2. CASE SignatureRefused(q)
      BY <3>2 DEF SignatureRefused, taken
    <3>3. CASE WriteFails(q)
      BY <3>3 DEF WriteFails, taken
    <3> QED BY <1>10, <3>1, <3>2, <3>3
  <2> QED BY <1>d, <2>1, <2>2, <2>3
<1>12. ASSUME LiveList(q) \/ Primary(q) PROVE FetchInv'
  <2>1. PICK p \in {"body", "rpm"} : pc' = [pc EXCEPT ![q] = p]
    BY <1>12 DEF LiveList, Primary, Goto
  <2>2. UNCHANGED <<archives, dl, alone, got, sound>> /\ pc[q] \in {"live", "primary"}
    BY <1>12 DEF LiveList, Primary, history
  <2>3. \E v : want' = [want EXCEPT ![q] = v]
    BY <1>12 DEF LiveList, Primary
  <2>4. \A r \in Requests : r # q => want'[r] = want[r]
    BY <2>3
  <2> QED BY <1>g, <2>1, <2>2, <2>4
<1>13. ASSUME LiveBody(q) \/ RpmBody(q) PROVE FetchInv'
  <2>1. PICK x \in Seq(Chunks), s \in BOOLEAN : Received(q, x, s) /\ (s => x = Whole(want[q]))
    <3>0. want[q] \in Versions /\ got[q] \in Seq(Chunks)
      BY DEF Shape
    <3>1. CASE LiveBody(q)
      <4>1. Onto(want[q], got[q]) \in Seq(Chunks) /\ (got[q] = <<>>) \in BOOLEAN
        BY <3>0, OntoIsSeq
      <4>2. got[q] = <<>> => Onto(want[q], got[q]) = Whole(want[q])
        BY <3>0, OntoNothing
      <4> QED BY <3>1, <4>1, <4>2 DEF LiveBody
    <3>2. CASE RpmBody(q)
      <4>1. Whole(published["Rpm"]) \in Seq(Chunks) /\ (want[q] \in Summed) \in BOOLEAN
        <5>1. published["Rpm"] \in Versions
          BY ServingType DEF Shape
        <5>2. Whole(published["Rpm"]) \in Seq(Chunks)
          BY <5>1, WholeIsSeq
        <5>3. (want[q] \in Summed) \in BOOLEAN
          OBVIOUS
        <5> QED BY <5>2, <5>3
      <4>2. want[q] \in Summed => Whole(published["Rpm"]) = Whole(want[q])
        BY <3>2 DEF RpmBody
      <4> QED BY <3>2, <4>1, <4>2 DEF RpmBody
    <3> QED BY <1>13, <3>1, <3>2
  <2>2. /\ got' = [got EXCEPT ![q] = x] /\ sound' = [sound EXCEPT ![q] = s]
        /\ Goto(q, IF locked[q] THEN "pack" ELSE "done") /\ UNCHANGED <<archives, dl, want, alone>>
    BY <2>1 DEF Received, Extracted, history
  <2>3. PICK p \in {"pack", "done"} : pc' = [pc EXCEPT ![q] = p]
    BY <2>2 DEF Goto
  <2>4. pc'[q] = p
    BY <2>3 DEF Shape
  <2>5. sound'[q] => got'[q] = Whole(want'[q])
    BY <2>1, <2>2 DEF Shape
  <2>6. Undisturbed(q)' /\ Vouched(q)'
    BY <1>i, <2>2, <2>4, <2>5 DEF Undisturbed, Vouched
  <2>7. \A r \in Requests : r # q => got'[r] = got[r] /\ sound'[r] = sound[r]
    BY <2>2
  <2> QED BY <2>2, <2>3, <2>6, <2>7, OwnOnly
<1>15. ASSUME FetchFails(q) PROVE FetchInv'
  <2>1. UNCHANGED <<archives, dl, alone, want, sound>> /\ got' = [got EXCEPT ![q] = <<>>]
        /\ pc[q] \in {"live", "body", "primary", "rpm"}
    BY <1>15 DEF FetchFails, history
  <2>2. PICK p \in {"failed", "try"} : pc' = [pc EXCEPT ![q] = p]
    BY <1>15, LeaveRepoType DEF FetchFails
  <2>3. pc'[q] = p /\ ~sound'[q]
    BY <1>u, <2>1, <2>2 DEF Shape
  <2>4. Undisturbed(q)' /\ Vouched(q)'
    BY <1>i, <2>1, <2>3 DEF Undisturbed, Vouched
  <2>5. \A r \in Requests : r # q => got'[r] = got[r]
    BY <2>1
  <2> QED BY <2>1, <2>2, <2>4, <2>5, OwnOnly
<1>14. ASSUME TryRpm(q) \/ UnpackLocal(q) PROVE FetchInv'
  <2>1. UNCHANGED <<archives, dl, alone, want, got, sound>> /\ pc[q] \notin {"pack", "stub", "done"}
    BY <1>14 DEF TryRpm, UnpackLocal, taken, history
  <2>2. PICK p \in {"primary", "pack", "failed"} : pc' = [pc EXCEPT ![q] = p]
    BY <1>14 DEF TryRpm, UnpackLocal, Goto
  <2> QED BY <1>g, <2>1, <2>2
<1>16. ASSUME Pack(q) PROVE FetchInv'
  <2> DEFINE d == [NoDownload EXCEPT !.open = TRUE]
  <2>1. ~d.fresh
    BY DEF NoDownload
  <2>2. dl' = [dl EXCEPT ![q] = d] /\ archives' = [archives EXCEPT ![0] = <<>>]
        /\ Disturb(q, {0}) /\ UNCHANGED taken /\ pc' = [pc EXCEPT ![q] = "stub"] /\ pc[q] = "pack"
    BY <1>16 DEF Pack, Goto
  <2> HIDE DEF d
  <2>3. dl'[q] = d /\ pc'[q] = "stub"
    BY <2>2 DEF Shape
  <2>4. Undisturbed(q)' /\ Vouched(q)'
    BY <1>i, <2>1, <2>2, <2>3 DEF Undisturbed, Vouched, taken
  <2>5. OnlyOf(q, {0})
    <3>1. \A r \in Requests : r # q =>
            /\ pc'[r] = pc[r] /\ dl'[r] = dl[r] /\ want'[r] = want[r] /\ got'[r] = got[r]
            /\ sound'[r] = sound[r] /\ (alone'[r] => alone[r] /\ ~\E f \in {0} : Uses(r, f))
      BY <2>2, DisturbType DEF taken
    <3>2. \A f \in Files \ {0} : archives'[f] = archives[f]
      BY <2>2 DEF Shape
    <3> QED BY <3>1, <3>2 DEF OnlyOf
  <2> QED BY <2>4, <2>5, OthersInv
<1>17. ASSUME PackStub(q) PROVE FetchInv'
  <2>1. dl' = [dl EXCEPT ![q] = NoDownload] /\ pc' = [pc EXCEPT ![q] = "done"] /\ UNCHANGED taken
        /\ pc[q] = "stub"
    BY <1>17 DEF PackStub, Goto
  <2>2. ~dl'[q].fresh /\ pc'[q] = "done"
    BY <2>1 DEF Shape, NoDownload
  <2>3. Undisturbed(q)' /\ Vouched(q)'
    BY <1>i, <2>1, <2>2 DEF Undisturbed, Vouched, taken
  <2>4. CASE dl[q].open
    <3>1. archives' = [archives EXCEPT ![0] = Write(@, 0, Stub)] /\ Disturb(q, {0})
      BY <1>17, <2>4 DEF PackStub
    <3>2. OnlyOf(q, {0})
      <4>1. \A r \in Requests : r # q =>
              /\ pc'[r] = pc[r] /\ dl'[r] = dl[r] /\ want'[r] = want[r] /\ got'[r] = got[r]
              /\ sound'[r] = sound[r] /\ (alone'[r] => alone[r] /\ ~\E f \in {0} : Uses(r, f))
        BY <2>1, <3>1, DisturbType DEF taken
      <4>2. \A f \in Files \ {0} : archives'[f] = archives[f]
        BY <3>1 DEF Shape
      <4> QED BY <4>1, <4>2 DEF OnlyOf
    <3> QED BY <2>3, <3>2, OthersInv
  <2>5. CASE ~dl[q].open
    <3>1. UNCHANGED <<archives, alone>> /\ \A r \in Requests : r # q => dl'[r] = dl[r]
      BY <1>17, <2>1, <2>5 DEF PackStub, history
    <3> QED BY <2>1, <2>3, <3>1, OwnOnly DEF taken
  <2> QED BY <2>4, <2>5
<1> QED
  BY <1>1, <1>2, <1>3, <1>4, <1>5, <1>6, <1>7, <1>8, <1>9, <1>10, <1>12, <1>13, <1>14, <1>15, <1>16,
     <1>17
  DEF Step

LEMMA NextFetchInv == Shape /\ FetchInv /\ [Next]_vars => FetchInv'
<1> SUFFICES ASSUME Shape, FetchInv, [Next]_vars PROVE FetchInv'
  OBVIOUS
<1>0. \A r \in Requests : Undisturbed(r) /\ Vouched(r)
  BY DEF FetchInv
<1>1. CASE \E q \in Requests : Step(q)
  BY <1>1, StepFetchInv
<1>2. CASE Collect
  <2>1. PICK F \in {Orphans(TRUE), Orphans(FALSE), OfPackage} :
          /\ archives' = [f \in Files |-> IF f \in F THEN <<>> ELSE archives[f]]
          /\ dl' = [r \in Requests |-> Detached(r, F)]
          /\ alone' = [r \in Requests |-> alone[r] /\ ~\E f \in F : Uses(r, f)]
          /\ UNCHANGED <<server, locals, pc, taken, calm>>
    BY <1>2 DEF Collect
  <2>2. \A f \in Files \ F : archives'[f] = archives[f]
    BY <2>1
  <2>3. ASSUME NEW r \in Requests PROVE Undisturbed(r)' /\ Vouched(r)'
    <3>1. dl'[r] = Detached(r, F) /\ (alone'[r] => alone[r] /\ ~\E f \in F : Uses(r, f))
      BY <2>1
    <3>2. UNCHANGED <<pc, want, got, sound>>
      BY <2>1 DEF taken
    <3> QED BY <1>0, <2>2, <3>1, <3>2, OthersKept
  <2> QED BY <2>3 DEF FetchInv
<1>3. CASE (\E s \in Sources : Publish(s)) \/ Update \/ UNCHANGED vars
  <2>1. UNCHANGED <<archives, pc, dl, want, got, sound, alone>>
    BY <1>3 DEF Publish, Update, vars, taken, history
  <2> QED BY <1>0, <2>1 DEF FetchInv, Undisturbed, Vouched
<1>4. CASE End
  <2>1. dl' = [q \in Requests |-> NoDownload] /\ sound' = [q \in Requests |-> FALSE]
    BY <1>4 DEF End
  <2> QED BY <2>1, NothingKept DEF FetchInv, NoDownload
<1> QED BY <1>1, <1>2, <1>3, <1>4 DEF Next

-----------------------------------------------------------------------------
(* Files that spoil a fetch.  A download that is steady makes its file at   *)
(* most as long as it is served, one that fails leaves it exactly as long,  *)
(* and the next one has it removed and receives it from the beginning.      *)

Marks == calm \in [Requests -> BOOLEAN] /\ failures \in [Files -> 0..2]

\* The version that is served under the name of a file.
Served(f) == published[IF f = 0 THEN "Native" ELSE "Deb"]

\* Where a steady download is in its file: it begins at its end, or with nothing.
Course(q) ==
  Steady(q) =>
    /\ pc[q] = "connect" => \/ dl[q].size = 0 /\ dl[q].attempt <= 2
                            \/ dl[q].size = Len(archives[dl[q].file]) /\ dl[q].attempt = 1
    /\ pc[q] = "stream" =>
         /\ dl[q].open /\ dl[q].ver = Served(dl[q].file) /\ dl[q].pos <= Parts[dl[q].ver]
         /\ dl[q].append => dl[q].size <= dl[q].pos /\ dl[q].pos = Len(archives[dl[q].file])
         /\ ~dl[q].append => archives[dl[q].file] = Part(dl[q].ver, dl[q].pos)
    /\ pc[q] = "read" => /\ dl[q].ver = Served(dl[q].file)
                         /\ Len(archives[dl[q].file]) = Parts[dl[q].ver]

\* After a failure it has received what is in the file.
Receives(q) ==
  Steady(q) /\ failures[dl[q].file] = 1 =>
    /\ pc[q] = "stream" => archives[dl[q].file] = Part(dl[q].ver, dl[q].pos)
    /\ pc[q] = "read" => archives[dl[q].file] = Whole(dl[q].ver)

\* It has not written to its file yet.
Unwritten(q) ==
  \/ pc[q] = "connect"
  \/ pc[q] = "stream" /\ dl[q].append /\ dl[q].pos = dl[q].size /\ dl[q].size < Parts[dl[q].ver]

\* Of two that are steady at one file one has not written.
Apart(q, r) == Steady(q) /\ Steady(r) /\ dl[q].file = dl[r].file => Unwritten(q) \/ Unwritten(r)

\* What has failed once is too long to be resumed, or is being replaced from its beginning.
Recovering(f) ==
  \/ Parts[Served(f)] <= Len(archives[f])
  \/ archives[f] = Part(Served(f), Len(archives[f]))

SpoilInv ==
  /\ \A q \in Requests : Course(q) /\ Receives(q)
  /\ \A q, r \in Requests : q # r => Apart(q, r)
  /\ \A f \in Files : failures[f] <= 1 /\ (failures[f] = 1 => Recovering(f))

\* A step of q that writes or unlinks no files but F, and is no failure of a steady download.
Spares(q, F) ==
  /\ \A r \in Requests : r # q =>
       /\ pc'[r] = pc[r] /\ (dl'[r] = dl[r] \/ dl'[r] = Detached(r, F))
       /\ calm'[r] = calm[r] /\ (alone'[r] => alone[r] /\ ~\E f \in F : Uses(r, f))
  /\ \A f \in Files \ F : archives'[f] = archives[f]
  /\ published' = published
  /\ \A f \in Files : failures'[f] = failures[f] \/ failures'[f] = 0

LEMMA AppendNext == ASSUME NEW v \in Versions, NEW n \in Nat
                    PROVE Append(Part(v, n), <<v, n + 1>>) = Part(v, n + 1)
<1>0. Part(v, n) \in Seq(Chunks) /\ Len(Part(v, n)) = n
  BY PartIsSeq
<1>1. Part(v, n) \in Seq(Chunks) /\ Len(Part(v, n)) = n /\ <<v, n + 1>> \in Chunks
  BY <1>0, PartsAreNumbers DEF Chunks
<1>2. Part(v, n + 1) \in Seq(Chunks) /\ Len(Part(v, n + 1)) = n + 1
  BY PartIsSeq
<1>3. Append(Part(v, n), <<v, n + 1>>) \in Seq(Chunks) /\ Len(Append(Part(v, n), <<v, n + 1>>)) = n + 1
  BY <1>1
<1>4. ASSUME NEW i \in 1..(n + 1) PROVE Append(Part(v, n), <<v, n + 1>>)[i] = Part(v, n + 1)[i]
  <2>1. CASE i = n + 1
    BY <1>1, <2>1 DEF Part
  <2>2. CASE i # n + 1
    <3>1. i \in 1..n /\ Append(Part(v, n), <<v, n + 1>>)[i] = Part(v, n)[i]
      BY <1>1, <2>2
    <3> QED BY <3>1 DEF Part
  <2> QED BY <2>1, <2>2
<1> QED BY <1>2, <1>3, <1>4, SeqEqual

\* Whoever is still steady has not been met.
LEMMA SteadySpared ==
  ASSUME Shape, NEW q \in Requests, NEW F, Spares(q, F), NEW r \in Requests, r # q, Steady(r)'
  PROVE  Steady(r) /\ pc'[r] = pc[r] /\ dl'[r] = dl[r] /\ dl[r].file \in Files \ F
<1>1. pc'[r] = pc[r] /\ alone[r] /\ calm[r] /\ ~\E f \in F : Uses(r, f)
  BY DEF Spares, Steady
<1>2. Steady(r) /\ dl'[r] = dl[r]
  BY <1>1 DEF Spares, Steady, Detached
<1>3. dl[r].file \in Files /\ dl[r].file \notin F
  BY <1>1, <1>2 DEF Shape, Downloads, Steady, Uses
<1> QED BY <1>1, <1>2, <1>3

LEMMA SpoilSpared ==
  ASSUME Shape, SpoilInv, NEW q \in Requests, NEW F, Spares(q, F), Course(q)', Receives(q)',
         \A r \in Requests : r # q => Apart(q, r)',
         \A f \in F \cap Files : failures'[f] = 1 => Recovering(f)'
  PROVE  SpoilInv'
<1>1. ASSUME NEW r \in Requests, r # q PROVE Course(r)' /\ Receives(r)'
  <2> SUFFICES ASSUME Steady(r)' PROVE Course(r)' /\ Receives(r)'
    BY DEF Course, Receives
  <2>1. Steady(r) /\ pc'[r] = pc[r] /\ dl'[r] = dl[r] /\ dl[r].file \in Files \ F
    BY <1>1, SteadySpared
  <2>2. archives'[dl[r].file] = archives[dl[r].file] /\ published' = published
        /\ (failures'[dl[r].file] = 1 => failures[dl[r].file] = 1)
    BY <2>1 DEF Spares
  <2>3. Course(r) /\ Receives(r)
    BY DEF SpoilInv
  <2>4. Course(r)'
    BY <2>1, <2>2, <2>3 DEF Course, Served
  <2>5. Receives(r)'
    BY <2>1, <2>2, <2>3 DEF Receives
  <2> QED BY <2>4, <2>5
<1>2. ASSUME NEW r \in Requests, NEW t \in Requests, r # t PROVE Apart(r, t)'
  <2>1. CASE r = q
    BY <1>2, <2>1
  <2>2. CASE t = q
    <3>1. Apart(t, r)'
      BY <1>2, <2>2
    <3> QED BY <3>1 DEF Apart
  <2>3. CASE r # q /\ t # q
    <3> SUFFICES ASSUME Steady(r)', Steady(t)', dl'[r].file = dl'[t].file
                 PROVE  Unwritten(r)' \/ Unwritten(t)'
      BY DEF Apart
    <3>1. Steady(r) /\ pc'[r] = pc[r] /\ dl'[r] = dl[r]
      BY <2>3, SteadySpared
    <3>2. Steady(t) /\ pc'[t] = pc[t] /\ dl'[t] = dl[t]
      BY <2>3, SteadySpared
    <3>3. Unwritten(r) \/ Unwritten(t)
      BY <1>2, <3>1, <3>2 DEF SpoilInv, Apart
    <3> QED BY <3>1, <3>2, <3>3 DEF Unwritten
  <2> QED BY <2>1, <2>2, <2>3
<1>3. ASSUME NEW f \in Files PROVE failures'[f] <= 1 /\ (failures'[f] = 1 => Recovering(f)')
  <2>1. failures'[f] <= 1 /\ (failures'[f] = 1 => failures[f] = 1)
    BY DEF Spares, SpoilInv
  <2>2. CASE f \in F
    BY <2>1, <2>2
  <2>3. CASE f \notin F
    BY <2>1, <2>3 DEF SpoilInv, Spares, Recovering, Served
  <2> QED BY <2>1, <2>2, <2>3
<1> QED BY <1>1, <1>2, <1>3 DEF SpoilInv

\* A request that is not steady afterwards has nothing to keep.
LEMMA SpoilLeft ==
  ASSUME Shape, SpoilInv, NEW q \in Requests, NEW F, Spares(q, F), ~Steady(q)',
         \A f \in F \cap Files : failures'[f] = 1 => Recovering(f)'
  PROVE  SpoilInv'
<1>1. Course(q)' /\ Receives(q)' /\ \A r \in Requests : Apart(q, r)'
  BY DEF Course, Receives, Apart
<1> QED BY <1>1, SpoilSpared

LEMMA SpoiledMark ==
  ASSUME Shape, Marks, NEW q \in Requests
  PROVE  /\ Spoiled(q) \in [Files -> 0..2]
         /\ \A f \in Files : f # dl[q].file => Spoiled(q)[f] = failures[f]
         /\ Spoiled(q)[dl[q].file] = IF ~Steady(q) THEN 0 ELSE IF failures[dl[q].file] = 0 THEN 1 ELSE 2
<1>1. dl[q].file \in Files
  BY DEF Shape, Downloads
<1> DEFINE m == IF ~Steady(q) THEN 0 ELSE IF failures[dl[q].file] = 0 THEN 1 ELSE 2
<1>2. Spoiled(q) = [failures EXCEPT ![dl[q].file] = m] /\ m \in 0..2
  BY <1>1 DEF Spoiled, Marks
<1> HIDE DEF m
<1>3. Spoiled(q)[dl[q].file] = m /\ \A f \in Files : f # dl[q].file => Spoiled(q)[f] = failures[f]
  BY <1>1, <1>2 DEF Marks
<1> QED BY <1>1, <1>2, <1>3 DEF Marks, m

LEMMA DisturbMark ==
  ASSUME Shape, Marks, NEW q \in Requests, NEW F, Disturb(q, F)
  PROVE  /\ Marks' /\ UNCHANGED calm
         /\ \A f \in Files : failures'[f] = failures[f] \/ failures'[f] = 0
         /\ \A f \in F \cap Files : failures'[f] = 1 => Steady(q) /\ failures[f] = 1
BY DEF Disturb, Marks

LEMMA NextMarks == Shape /\ Marks /\ [Next]_vars => Marks'
<1> SUFFICES ASSUME Shape, Marks, [Next]_vars PROVE Marks'
  OBVIOUS
<1>0. UNCHANGED history => Marks'
  BY DEF Marks, history
<1>1. ASSUME NEW q \in Requests, Step(q) PROVE Marks'
  <2>0. dl[q].file \in Files
    BY DEF Shape, Downloads
  <2>1. CASE Fetch(q) \/ FetchForUser(q) \/ FetchLocal(q)
    BY <1>0, <2>1 DEF Fetch, FetchForUser, FetchLocal, Begin
  <2>2. CASE TryDeb(q) \/ TryNative(q)
    BY <1>0, <2>2 DEF TryDeb, TryNative, Download, Marks
  <2>a. calm' = [calm EXCEPT ![q] = FALSE] /\ failures' = [failures EXCEPT ![dl[q].file] = 0] => Marks'
    BY <2>0 DEF Marks
  <2>3. CASE ConnectFails(q) \/ ReadFails(q)
    BY <2>a, <2>3 DEF ConnectFails, ReadFails, Faulted
  <2>4. CASE AnswerWhole(q)
    BY <2>4, DisturbMark DEF AnswerWhole
  <2>5. CASE AnswerRest(q)
    BY <1>0, <2>5, SpoiledMark DEF AnswerRest, Forget, Marks
  <2>6. CASE AnswerUnsatisfiable(q)
    BY <2>6, SpoiledMark DEF AnswerUnsatisfiable, Marks
  <2>7. CASE Read(q)
    BY <1>0, <2>7, DisturbMark DEF Read
  <2>8. CASE Downloaded(q) \/ LiveList(q) \/ TryRpm(q) \/ Primary(q) \/ FetchFails(q) \/ UnpackLocal(q)
    BY <1>0, <2>8 DEF Downloaded, LiveList, TryRpm, Primary, FetchFails, UnpackLocal
  <2>9. CASE LiveBody(q) \/ RpmBody(q)
    BY <1>0, <2>9 DEF LiveBody, RpmBody, Received
  <2>10. CASE ExtractDeb(q) \/ ExtractSam(q)
    BY <2>a, <2>10 DEF ExtractDeb, ExtractSam, Unpacked, Forget
  <2>11. CASE ExtractFails(q)
    <3>1. Forget(q) /\ (failures' = Spoiled(q) \/ failures' = [failures EXCEPT ![dl[q].file] = 0])
      BY <2>11 DEF ExtractFails
    <3> QED BY <2>a, <3>1, SpoiledMark DEF Forget, Marks
  <2>14. CASE WriteFails(q)
    BY <2>a, <2>14 DEF WriteFails, Forget
  <2>12. CASE SignatureRefused(q)
    BY <2>a, <2>12 DEF SignatureRefused, Forget
  <2>13. CASE Pack(q) \/ PackStub(q)
    BY <1>0, <2>13, DisturbMark DEF Pack, PackStub
  <2> QED BY <1>1, <2>1, <2>2, <2>3, <2>4, <2>5, <2>6, <2>7, <2>8, <2>9, <2>10, <2>11, <2>12, <2>13, <2>14
      DEF Step
<1>2. CASE Collect
  BY <1>2 DEF Collect, Marks
<1>3. CASE (\E s \in Sources : Publish(s)) \/ End
  <2>1. failures' = [f \in Files |-> 0] /\ (calm' = [r \in Requests |-> FALSE] \/ UNCHANGED calm)
    BY <1>3 DEF Publish, End
  <2>2. calm' \in [Requests -> BOOLEAN]
    <3>1. CASE calm' = [r \in Requests |-> FALSE]
      BY <3>1
    <3>2. CASE UNCHANGED calm
      BY <3>2 DEF Marks
    <3> QED BY <2>1, <3>1, <3>2
  <2>3. failures' \in [Files -> 0..2]
    BY <2>1
  <2> QED BY <2>2, <2>3 DEF Marks
<1>4. CASE Update \/ UNCHANGED vars
  BY <1>0, <1>4 DEF Update, vars
<1> QED BY <1>1, <1>2, <1>3, <1>4 DEF Next

\* Steps of q outside its download, or that end it, and write nothing.
LEMMA SpoilAway ==
  ASSUME Shape, Marks, SpoilInv, NEW q \in Requests,
         \A r \in Requests : r # q => pc'[r] = pc[r] /\ dl'[r] = dl[r] /\ calm'[r] = calm[r]
                                      /\ alone'[r] = alone[r],
         UNCHANGED <<archives, published>>, ~Steady(q)',
         \A f \in Files : failures'[f] = failures[f] \/ failures'[f] = 0
  PROVE  SpoilInv'
<1>1. Spares(q, {})
  BY DEF Spares
<1> QED BY <1>1, SpoilLeft

\* A download begins at the end of its file.
LEMMA SpoilDownload ==
  ASSUME Shape, Marks, SpoilInv, NEW q \in Requests, NEW f \in Files, Download(q, f)
  PROVE  SpoilInv'
<1> DEFINE d == Open(f, Len(archives[f]), archives[f] = <<>>)
<1>1. Len(archives[f]) \in Nat /\ (archives[f] = <<>>) \in BOOLEAN
  BY DEF Shape
<1>2. d.size = Len(archives[f]) /\ d.file = f /\ d.attempt = 1
  BY <1>1, Opened
<1>3. /\ dl' = [dl EXCEPT ![q] = d] /\ alone' = [alone EXCEPT ![q] = TRUE]
      /\ calm' = [calm EXCEPT ![q] = TRUE]
      /\ UNCHANGED <<server, archives, failures>> /\ pc' = [pc EXCEPT ![q] = "connect"]
  BY DEF Download, Open, Goto
<1> HIDE DEF d
<1>4. dl'[q] = d /\ pc'[q] = "connect"
  BY <1>3 DEF Shape
<1>5. Course(q)' /\ Receives(q)' /\ \A r \in Requests : Apart(q, r)'
  BY <1>2, <1>3, <1>4 DEF Course, Receives, Apart, Unwritten
<1>6. Spares(q, {})
  BY <1>3 DEF Spares, server
<1> QED BY <1>5, <1>6, SpoilSpared

LEMMA SpoilWhole ==
  ASSUME Shape, Marks, SpoilInv, NEW q \in Requests, AnswerWhole(q)
  PROVE  SpoilInv'
<1>0. PICK f \in Files : f = dl[q].file
  BY DEF Shape, Downloads
<1> DEFINE d == Answer(dl[q], Serving(q), 0, FALSE)
<1>1. Serving(q) \in Versions /\ dl[q] \in Downloads
  BY ServingType DEF Shape
<1>2. d.file = f /\ d.ver = Serving(q) /\ d.pos = 0 /\ ~d.append /\ d.open
  BY <1>0, <1>1, AnsweredWhole, ZenonT(60)
<1>3. /\ dl' = [dl EXCEPT ![q] = d] /\ archives' = [archives EXCEPT ![f] = <<>>]
      /\ Disturb(q, {f}) /\ UNCHANGED server /\ pc' = [pc EXCEPT ![q] = "stream"] /\ pc[q] = "connect"
  BY <1>0 DEF AnswerWhole, Answer, Goto
<1> HIDE DEF d
<1>4. dl'[q] = d /\ pc'[q] = "stream" /\ archives'[f] = <<>> /\ UNCHANGED published
  BY <1>1, <1>3 DEF Shape, server
<1>5. \A v \in Versions : Part(v, 0) = <<>> /\ 0 <= Parts[v]
  BY PartsAreNumbers, PartIsSeq
<1>6. Course(q)' /\ Receives(q)'
  BY <1>0, <1>1, <1>2, <1>4, <1>5 DEF Course, Receives, Served, Serving
<1>7. Spares(q, {f})
  <2>1. \A r \in Requests : r # q =>
          /\ pc'[r] = pc[r] /\ dl'[r] = dl[r] /\ calm'[r] = calm[r]
          /\ (alone'[r] => alone[r] /\ ~\E g \in {f} : Uses(r, g))
    BY <1>3, DisturbType, DisturbMark
  <2>2. \A g \in Files \ {f} : archives'[g] = archives[g]
    BY <1>3 DEF Shape
  <2> QED BY <1>3, <1>4, <2>1, <2>2, DisturbMark DEF Spares
<1>8. ASSUME NEW r \in Requests, r # q PROVE Apart(q, r)'
  BY <1>2, <1>4, <1>7, <1>8, SteadySpared DEF Apart
<1>9. Recovering(f)'
  <2>1. Served(f)' \in Versions
    BY <1>0, <1>1, <1>4 DEF Served, Serving
  <2>2. archives'[f] = Part(Served(f)', Len(archives'[f]))
    BY <1>4, <1>5, <2>1
  <2> QED BY <2>2 DEF Recovering
<1> QED BY <1>0, <1>6, <1>7, <1>8, <1>9, SpoilSpared

\* The rest of a file is appended to what a failure has left only if that is its beginning.
LEMMA SpoilRest ==
  ASSUME Shape, Marks, SpoilInv, NEW q \in Requests, AnswerRest(q)
  PROVE  SpoilInv'
<1>0. PICK f \in Files : f = dl[q].file
  BY DEF Shape, Downloads
<1>1. /\ pc[q] = "connect" /\ dl[q].size > 0 /\ dl[q].size < Parts[Serving(q)] /\ dl[q].size \in Nat
      /\ UNCHANGED <<archives, published>>
  BY DEF AnswerRest, Asks, server, Shape, Downloads
<1>2. CASE archives[f] = <<>> /\ LeaveFile(q) /\ Forget(q) /\ failures' = Spoiled(q)
  <2>1. ~Steady(q)
    BY <1>0, <1>1, <1>2 DEF SpoilInv, Course
  <2>2. \A g \in Files : failures'[g] = failures[g] \/ failures'[g] = 0
    BY <1>0, <1>2, <2>1, SpoiledMark
  <2>3. /\ ~Steady(q)'
        /\ \A r \in Requests : r # q => dl'[r] = dl[r] /\ calm'[r] = calm[r] /\ alone'[r] = alone[r]
    BY <1>2 DEF Forget, Steady, Marks, Shape
  <2>4. \A r \in Requests : r # q => pc'[r] = pc[r]
    BY <1>2, LeaveFileType
  <2> QED BY <1>1, <2>2, <2>3, <2>4, SpoilAway
<1>3. CASE /\ dl' = [dl EXCEPT ![q] = [@ EXCEPT !.ver = Serving(q), !.pos = dl[q].size,
                                           !.append = TRUE, !.open = TRUE]]
           /\ Goto(q, "stream") /\ UNCHANGED <<locals, history>>
  <2> DEFINE d == Answer(dl[q], Serving(q), dl[q].size, TRUE)
  <2>1. Serving(q) \in Versions /\ dl[q] \in Downloads
    BY ServingType DEF Shape
  <2>2. d.file = f /\ d.size = dl[q].size /\ d.ver = Serving(q) /\ d.pos = dl[q].size /\ d.append /\ d.open
    BY <1>0, <1>1, <2>1, AnsweredRest, ZenonT(60)
  <2>3. dl' = [dl EXCEPT ![q] = d] /\ pc' = [pc EXCEPT ![q] = "stream"] /\ UNCHANGED <<alone, calm, failures>>
    BY <1>3 DEF Answer, Goto, history
  <2> HIDE DEF d
  <2>4. dl'[q] = d /\ pc'[q] = "stream" /\ (Steady(q)' => Steady(q))
    BY <1>1, <2>3 DEF Shape, Steady
  <2>5. Parts[Serving(q)] \in Nat /\ Serving(q) = Served(f)
    BY <1>0, <2>1, PartsAreNumbers DEF Served, Serving
  <2>6. Steady(q) => dl[q].size = Len(archives[f])
    BY <1>0, <1>1 DEF SpoilInv, Course
  <2>7. Course(q)'
    BY <1>1, <2>2, <2>4, <2>5, <2>6 DEF Course, Served
  <2>8. Receives(q)'
    <3> SUFFICES ASSUME Steady(q), failures[f] = 1 PROVE archives[f] = Part(Serving(q), dl[q].size)
      BY <1>1, <2>2, <2>3, <2>4 DEF Receives
    <3>1. Recovering(f)
      BY DEF SpoilInv
    <3> QED BY <1>1, <2>5, <2>6, <3>1 DEF Recovering
  <2>9. \A r \in Requests : Apart(q, r)'
    BY <1>1, <2>2, <2>4 DEF Apart, Unwritten
  <2>10. Spares(q, {})
    BY <1>1, <2>3 DEF Spares
  <2> QED BY <2>7, <2>8, <2>9, <2>10, SpoilSpared
<1> QED BY <1>0, <1>2, <1>3 DEF AnswerRest

\* A file that has its length or is too long is removed.
LEMMA SpoilUnsatisfiable ==
  ASSUME Shape, Marks, SpoilInv, NEW q \in Requests, AnswerUnsatisfiable(q)
  PROVE  SpoilInv'
<1>0. PICK f \in Files : f = dl[q].file
  BY DEF Shape, Downloads
<1>1. /\ pc[q] = "connect" /\ dl[q].size > 0 /\ dl[q].size \in Nat
      /\ Again(q, 0, {f}) /\ archives' = [archives EXCEPT ![f] = <<>>] /\ alone' = Alone(q, {f})
      /\ failures' = IF dl[q].attempt = Attempts THEN Spoiled(q) ELSE failures
      /\ UNCHANGED <<calm, published>>
  BY <1>0 DEF AnswerUnsatisfiable, Asks, server, Shape, Downloads
<1>2. Steady(q) => dl[q].attempt = 1
  BY <1>1 DEF SpoilInv, Course
<1>3. \A g \in Files : failures'[g] = failures[g] \/ failures'[g] = 0
  <2>1. CASE dl[q].attempt = Attempts
    <3>1. ~Steady(q)
      BY <1>2, <2>1 DEF Attempts
    <3> QED BY <1>0, <1>1, <2>1, <3>1, SpoiledMark
  <2>2. CASE dl[q].attempt # Attempts
    BY <1>1, <2>2
  <2> QED BY <2>1, <2>2
<1>4. Spares(q, {f})
  <2>1. \A r \in Requests : r # q => pc'[r] = pc[r] /\ dl'[r] = Detached(r, {f})
    BY <1>1, AgainType
  <2>2. \A r \in Requests : r # q => (alone'[r] => alone[r] /\ ~\E g \in {f} : Uses(r, g))
    BY <1>1 DEF Alone
  <2>3. \A g \in Files \ {f} : archives'[g] = archives[g]
    BY <1>1 DEF Shape
  <2> QED BY <1>1, <1>3, <2>1, <2>2, <2>3 DEF Spares
<1>5. Recovering(f)'
  <2>1. Served(f)' \in Versions
    <3>1. Served(f) \in Versions
      BY <1>0, ServingType DEF Served, Serving
    <3> QED BY <1>1, <3>1 DEF Served
  <2>2. archives'[f] = Part(Served(f)', Len(archives'[f]))
    <3>1. archives'[f] = <<>> /\ Len(<<>>) = 0
      BY <1>1 DEF Shape
    <3>2. Part(Served(f)', 0) = <<>>
      BY <2>1, PartIsSeq
    <3> QED BY <3>1, <3>2
  <2> QED BY <2>2 DEF Recovering
<1>6. CASE ~Steady(q)'
  BY <1>4, <1>5, <1>6, SpoilLeft
<1>7. CASE Steady(q)'
  <2>1. Steady(q) /\ dl[q].attempt # Attempts
    <3>1. alone[q] /\ calm[q]
      BY <1>1, <1>7 DEF Steady, Alone
    <3>2. Steady(q)
      BY <1>1, <3>1 DEF Steady
    <3> QED BY <1>2, <3>2 DEF Attempts
  <2> DEFINE e == [dl[q] EXCEPT !.size = 0, !.attempt = @ + 1, !.open = FALSE]
  <2>2. e.size = 0 /\ e.file = f /\ e.attempt = 2
    <3>1. dl[q] \in Downloads /\ 0 \in Nat
      BY DEF Shape
    <3>2. e.size = 0 /\ e.file = dl[q].file /\ e.attempt = dl[q].attempt + 1
      BY <3>1, Restarted
    <3> HIDE DEF e
    <3> QED BY <1>0, <1>2, <2>1, <3>2
  <2>3. dl'[q] = e /\ pc'[q] = "connect"
    BY <1>1, <2>1 DEF Again, Goto, Shape
  <2> HIDE DEF e
  <2>4. Course(q)' /\ Receives(q)' /\ \A r \in Requests : Apart(q, r)'
    BY <2>2, <2>3 DEF Course, Receives, Apart, Unwritten
  <2> QED BY <1>4, <1>5, <2>4, SpoilSpared
<1> QED BY <1>6, <1>7

\* What a steady download receives comes where it belongs.
LEMMA SpoilRead ==
  ASSUME Shape, Marks, SpoilInv, NEW q \in Requests, Read(q)
  PROVE  SpoilInv'
<1>0. PICK f \in Files : f = dl[q].file
  BY DEF Shape, Downloads
<1>1. /\ pc[q] = "stream" /\ dl[q].pos < Parts[dl[q].ver] /\ dl[q].pos \in Nat /\ dl[q].size \in Nat
      /\ dl[q].ver \in Versions /\ Parts[dl[q].ver] \in Nat /\ dl[q] \in Downloads
      /\ dl' = [dl EXCEPT ![q].pos = @ + 1] /\ UNCHANGED <<pc, published>>
  BY PartsAreNumbers DEF Read, server, Shape, Downloads
<1>2. /\ dl'[q].file = f /\ dl'[q].size = dl[q].size /\ dl'[q].ver = dl[q].ver
      /\ dl'[q].pos = dl[q].pos + 1 /\ dl'[q].append = dl[q].append /\ dl'[q].open = dl[q].open
  <2>1. dl'[q] = [dl[q] EXCEPT !.pos = @ + 1]
    BY <1>1 DEF Shape
  <2> QED BY <1>0, <1>1, <2>1 DEF Downloads
<1>3. CASE ~dl[q].open
  <2>1. UNCHANGED <<archives, alone, calm, failures>>
    BY <1>3 DEF Read, history
  <2>2. ~Steady(q)
    BY <1>1, <1>3 DEF SpoilInv, Course
  <2>3. ~Steady(q)'
    BY <1>1, <2>1, <2>2 DEF Steady
  <2> QED BY <1>1, <2>1, <2>3, SpoilAway
<1>4. CASE dl[q].open
  <2> DEFINE x == <<dl[q].ver, dl[q].pos + 1>>
             c == IF dl[q].append THEN Append(archives[f], x) ELSE Write(archives[f], dl[q].pos, x)
  <2>1. archives' = [archives EXCEPT ![f] = c] /\ Disturb(q, {f})
    BY <1>0, <1>4 DEF Read
  <2>2. Spares(q, {f})
    <3>1. \A r \in Requests : r # q =>
            /\ pc'[r] = pc[r] /\ dl'[r] = dl[r] /\ calm'[r] = calm[r]
            /\ (alone'[r] => alone[r] /\ ~\E g \in {f} : Uses(r, g))
      BY <1>1, <2>1, DisturbType, DisturbMark
    <3>2. \A g \in Files \ {f} : archives'[g] = archives[g]
      BY <2>1 DEF Shape
    <3> QED BY <1>1, <2>1, <3>1, <3>2, DisturbMark DEF Spares
  <2>3. archives'[f] = c
    BY <2>1 DEF Shape
  <2>4. Steady(q)' => Steady(q)
    BY <1>1, <2>1, DisturbType, DisturbMark DEF Steady
  <2>5. Steady(q) => /\ dl[q].ver = Served(f)
                     /\ dl[q].append => dl[q].size <= dl[q].pos /\ dl[q].pos = Len(archives[f])
                     /\ ~dl[q].append => archives[f] = Part(dl[q].ver, dl[q].pos)
    BY <1>0, <1>1 DEF SpoilInv, Course
  <2>6. archives[f] = Part(dl[q].ver, dl[q].pos) => c = Part(dl[q].ver, dl[q].pos + 1)
    <3>1. Write(Part(dl[q].ver, dl[q].pos), dl[q].pos, x) = Part(dl[q].ver, dl[q].pos + 1)
      BY <1>1, WriteNext
    <3>2. Append(Part(dl[q].ver, dl[q].pos), x) = Part(dl[q].ver, dl[q].pos + 1)
      BY <1>1, AppendNext
    <3> QED BY <3>1, <3>2
  <2>7. dl[q].append => Len(c) = Len(archives[f]) + 1
    <3>1. x \in Chunks /\ archives[f] \in Seq(Chunks)
      BY <1>1, PartsAreNumbers DEF Chunks, Shape
    <3> QED BY <3>1
  <2> HIDE DEF c
  <2>8. Steady(q)' /\ failures'[f] = 1 => archives[f] = Part(dl[q].ver, dl[q].pos)
    BY <1>0, <1>1, <2>1, <2>4, DisturbMark DEF SpoilInv, Receives
  <2>9. Course(q)'
    <3> SUFFICES ASSUME Steady(q)
                 PROVE  /\ dl'[q].open /\ dl'[q].ver = Served(f)' /\ dl'[q].pos <= Parts[dl'[q].ver]
                        /\ dl'[q].append => dl'[q].size <= dl'[q].pos /\ dl'[q].pos = Len(archives'[f])
                        /\ ~dl'[q].append => archives'[f] = Part(dl'[q].ver, dl'[q].pos)
      BY <1>1, <1>2, <2>4 DEF Course, Served
    <3>1. dl'[q].open /\ dl'[q].ver = Served(f)' /\ dl'[q].pos <= Parts[dl'[q].ver]
      BY <1>1, <1>2, <1>4, <2>5 DEF Served
    <3>2. dl'[q].append => dl'[q].size <= dl'[q].pos /\ dl'[q].pos = Len(archives'[f])
      BY <1>1, <1>2, <2>3, <2>5, <2>7
    <3>3. ~dl'[q].append => archives'[f] = Part(dl'[q].ver, dl'[q].pos)
      BY <1>2, <2>3, <2>5, <2>6
    <3> QED BY <3>1, <3>2, <3>3
  <2>10. Receives(q)'
    BY <1>1, <1>2, <2>3, <2>6, <2>8 DEF Receives
  <2>11. \A r \in Requests : r # q => Apart(q, r)'
    BY <1>2, <2>2, SteadySpared DEF Apart
  <2>12. failures'[f] = 1 => Recovering(f)'
    <3> SUFFICES ASSUME failures'[f] = 1 PROVE Recovering(f)'
      OBVIOUS
    <3>1. Steady(q) /\ failures[f] = 1
      BY <2>1, DisturbMark
    <3>2. archives[f] = Part(dl[q].ver, dl[q].pos)
      BY <1>0, <1>1, <3>1 DEF SpoilInv, Receives
    <3>3. archives'[f] = Part(Served(f)', dl[q].pos + 1)
      BY <1>1, <2>3, <2>5, <2>6, <3>1, <3>2 DEF Served
    <3>4. Len(archives'[f]) = dl[q].pos + 1
      <4>1. Served(f)' \in Versions
        BY <1>1, <2>5, <3>1 DEF Served
      <4> QED BY <1>1, <3>3, <4>1, PartIsSeq
    <3> QED BY <3>3, <3>4 DEF Recovering
  <2> QED BY <2>2, <2>9, <2>10, <2>11, <2>12, SpoilSpared
<1> QED BY <1>3, <1>4

LEMMA StepSpoilInv == ASSUME Shape, Marks, SpoilInv, NEW q \in Requests, Step(q) PROVE SpoilInv'
<1>0. PICK f \in Files : f = dl[q].file
  BY DEF Shape, Downloads
<1>o. \A g \in Files : g # f /\ UNCHANGED failures => failures'[g] = failures[g]
  OBVIOUS
\* Steps that keep the history, and leave q outside its download.
<1>a. ASSUME NEW p \in Places \ {"connect", "stream", "read"}, pc' = [pc EXCEPT ![q] = p],
             UNCHANGED <<archives, dl, history, published>>
      PROVE  SpoilInv'
  <2>1. ~Steady(q)'
    BY <1>a DEF Steady, Shape
  <2> QED BY <1>a, <2>1, SpoilAway DEF history
<1>b. ASSUME Forget(q), UNCHANGED <<archives, published>>, NEW p \in Places, pc' = [pc EXCEPT ![q] = p],
             \A g \in Files : failures'[g] = failures[g] \/ failures'[g] = 0
      PROVE  SpoilInv'
  <2>1. ~Steady(q)' /\ \A r \in Requests : r # q => dl'[r] = dl[r] /\ calm'[r] = calm[r] /\ alone'[r] = alone[r]
    BY <1>b DEF Forget, Steady, Marks, Shape
  <2> QED BY <1>b, <2>1, SpoilAway
<1>1. CASE Fetch(q) \/ FetchForUser(q) \/ FetchLocal(q)
  <2>1. PICK p \in {"try", "local"} : pc' = [pc EXCEPT ![q] = p]
    BY <1>1 DEF Fetch, FetchForUser, FetchLocal, Begin, Goto
  <2>2. UNCHANGED <<archives, dl, history, published>>
    BY <1>1 DEF Fetch, FetchForUser, FetchLocal, Begin, server
  <2> QED BY <1>a, <2>1, <2>2, Names
<1>2. CASE TryDeb(q) \/ TryNative(q)
  <2>1. CASE \E g \in Files : Download(q, g)
    BY <2>1, SpoilDownload
  <2>2. CASE Goto(q, "live") /\ UNCHANGED <<server, archives, locals, dl, taken, history, bounds>>
    BY <1>a, <2>2, Names DEF Goto, server
  <2>3. listing \in Files /\ 0 \in Files
    BY Constants DEF Shape
  <2> QED BY <1>2, <2>1, <2>2, <2>3 DEF TryDeb, TryNative
<1>3. CASE ConnectFails(q) \/ ReadFails(q)
  <2>1. /\ Again(q, dl[q].size, {}) /\ calm' = [calm EXCEPT ![q] = FALSE] /\ UNCHANGED <<archives, alone, published>>
        /\ failures' = [failures EXCEPT ![dl[q].file] = 0] /\ dl[q].size \in Nat
    BY <1>3 DEF ConnectFails, ReadFails, Faulted, server, Shape, Downloads
  <2>2. ~Steady(q)' /\ \A g \in Files : failures'[g] = failures[g] \/ failures'[g] = 0
    BY <1>0, <2>1 DEF Steady, Marks
  <2>3. \A r \in Requests : r # q => pc'[r] = pc[r] /\ dl'[r] = Detached(r, {})
    BY <2>1, AgainType
  <2>4. Spares(q, {})
    BY <2>1, <2>2, <2>3 DEF Spares
  <2> QED BY <2>2, <2>4, SpoilLeft
<1>4. CASE Downloaded(q)
  <2>1. /\ pc[q] = "stream" /\ dl[q].pos = Parts[dl[q].ver] /\ pc' = [pc EXCEPT ![q] = "read"]
        /\ UNCHANGED <<archives, dl, alone, calm, failures, published>>
    BY <1>4 DEF Downloaded, Goto, history, server
  <2>2. pc'[q] = "read" /\ (Steady(q)' => Steady(q)) /\ dl[q].ver \in Versions /\ dl[q].size \in Nat
    BY <2>1 DEF Shape, Downloads, Steady
  <2>3. Whole(dl[q].ver) = Part(dl[q].ver, dl[q].pos) /\ Len(Whole(dl[q].ver)) = dl[q].pos
    BY <2>1, <2>2, WholeIsSeq, PartIsSeq, PartsAreNumbers
  <2>4. Course(q)'
    <3>1. Steady(q) => /\ dl[q].ver = Served(dl[q].file)
                       /\ Len(archives[dl[q].file]) = Parts[dl[q].ver]
      BY <2>1, <2>3 DEF SpoilInv, Course
    <3> QED BY <2>1, <2>2, <3>1 DEF Course, Served
  <2>5. Receives(q)'
    BY <2>1, <2>2, <2>3 DEF SpoilInv, Receives
  <2>6. ASSUME NEW r \in Requests, r # q PROVE Apart(q, r)'
    <3>1. Apart(q, r) /\ ~Unwritten(q)
      <4>1. Parts[dl[q].ver] \in Nat
        BY <2>2, PartsAreNumbers
      <4> QED BY <2>1, <2>2, <2>6, <4>1 DEF SpoilInv, Unwritten
    <3>2. pc'[r] = pc[r]
      BY <2>1, <2>6
    <3> QED BY <2>1, <2>2, <3>1, <3>2 DEF Apart, Unwritten, Steady
  <2>7. Spares(q, {})
    BY <2>1 DEF Spares
  <2> QED BY <2>4, <2>5, <2>6, <2>7, SpoilSpared
<1>5. CASE ExtractDeb(q) \/ ExtractSam(q)
  <2>1. Unpacked(q)
    BY <1>5 DEF ExtractDeb, ExtractSam
  <2>2. PICK p \in {"pack", "done"} : pc' = [pc EXCEPT ![q] = p]
    BY <2>1 DEF Unpacked, Extracted, Goto
  <2>3. failures' = [failures EXCEPT ![f] = 0] /\ Forget(q) /\ UNCHANGED <<archives, published>>
    BY <1>0, <2>1 DEF Unpacked, server
  <2>4. \A g \in Files : failures'[g] = failures[g] \/ failures'[g] = 0
    BY <2>3 DEF Marks
  <2> QED BY <1>b, <2>2, <2>3, <2>4, Names
<1>6. CASE SignatureRefused(q)
  <2>1. PICK p \in {"try", "failed"} : pc' = [pc EXCEPT ![q] = p]
    BY <1>6, LeaveRepoType DEF SignatureRefused
  <2>2. failures' = [failures EXCEPT ![0] = 0] /\ Forget(q) /\ UNCHANGED <<archives, published>>
    BY <1>6 DEF SignatureRefused, server
  <2>3. \A g \in Files : failures'[g] = failures[g] \/ failures'[g] = 0
    BY <2>2 DEF Marks
  <2> QED BY <1>b, <2>1, <2>2, <2>3, Names
\* A fault at an extraction or a write resets the mark of the file.
<1>12. CASE Forget(q) /\ (ExtractFails(q) \/ WriteFails(q)) /\ failures' = [failures EXCEPT ![f] = 0]
  <2>1. PICK p \in {"live", "try", "failed"} : pc' = [pc EXCEPT ![q] = p]
    BY <1>12, LeaveFileType DEF ExtractFails, WriteFails
  <2>2. UNCHANGED <<archives, published>>
    BY <1>12 DEF ExtractFails, WriteFails, server
  <2>3. \A g \in Files : failures'[g] = failures[g] \/ failures'[g] = 0
    BY <1>12 DEF Marks
  <2> QED BY <1>b, <1>12, <2>1, <2>2, <2>3, Names
<1>7. CASE ExtractFails(q) /\ ~IsWhole(archives[f]) /\ failures' = Spoiled(q)
  <2>1. PICK p \in {"live", "try", "failed"} : pc' = [pc EXCEPT ![q] = p]
    BY <1>7, LeaveFileType DEF ExtractFails
  <2>2. /\ pc[q] = "read" /\ ~IsWhole(archives[f]) /\ failures' = Spoiled(q) /\ Forget(q)
        /\ UNCHANGED <<archives, published>>
    BY <1>0, <1>7 DEF ExtractFails, server
  <2>3. CASE ~Steady(q)
    <3>1. \A g \in Files : failures'[g] = failures[g] \/ failures'[g] = 0
      BY <1>0, <2>2, <2>3, SpoiledMark
    <3> QED BY <1>b, <2>1, <2>2, <3>1, Names
  <2>4. CASE Steady(q)
    <3>1. dl[q].ver \in Versions /\ Served(f) = dl[q].ver /\ Len(archives[f]) = Parts[dl[q].ver]
      BY <1>0, <2>2, <2>4 DEF SpoilInv, Course, Shape, Downloads
    <3>2. failures[f] = 0
      <4>1. failures[f] # 1
        BY <1>0, <2>2, <2>4, <3>1 DEF SpoilInv, Receives, IsWhole
      <4>2. failures[f] \in 0..2 /\ failures[f] <= 1
        BY DEF SpoilInv, Marks
      <4> QED BY <4>1, <4>2
    <3>3. failures'[f] = 1 /\ \A g \in Files : g # f => failures'[g] = failures[g]
      BY <1>0, <2>2, <2>4, <3>2, SpoiledMark
    <3>4. /\ ~Steady(q)'
          /\ \A r \in Requests : r # q => /\ pc'[r] = pc[r] /\ dl'[r] = dl[r]
                                          /\ calm'[r] = calm[r] /\ alone'[r] = alone[r]
      BY <2>1, <2>2 DEF Forget, Steady, Marks, Shape
    <3>5. ASSUME NEW r \in Requests PROVE Course(r)' /\ Receives(r)'
      <4>1. CASE r = q
        BY <3>4, <4>1 DEF Course, Receives
      <4>2. CASE r # q
        <5>1. /\ pc'[r] = pc[r] /\ dl'[r] = dl[r] /\ (Steady(r)' <=> Steady(r))
              /\ Course(r) /\ Receives(r) /\ dl[r].file \in Files /\ dl[r].size \in Nat
          BY <3>4, <4>2 DEF Steady, SpoilInv, Shape, Downloads
        <5>2. Course(r)'
          BY <2>2, <5>1 DEF Course, Served
        <5>3. CASE dl[r].file # f
          <6>1. /\ failures'[dl[r].file] = failures[dl[r].file]
                /\ archives' = archives
            BY <2>2, <3>3, <5>1, <5>3
          <6> QED BY <5>1, <5>2, <6>1 DEF Receives
        <5>4. CASE dl[r].file = f
          <6>0. ASSUME Steady(r), pc[r] \in {"stream", "read"} PROVE FALSE
           <7>1. Unwritten(r)
            BY <1>0, <2>2, <2>4, <4>2, <5>4, <6>0 DEF SpoilInv, Apart, Unwritten
           <7>2. /\ pc[r] = "stream" /\ dl[r].append /\ dl[r].pos = dl[r].size
                 /\ dl[r].size < Parts[dl[r].ver]
            BY <7>1, <6>0 DEF Unwritten
           <7>3. dl[r].ver = Served(f) /\ dl[r].pos = Len(archives[f])
            BY <5>1, <5>4, <6>0, <7>2 DEF Course
           <7>4. Parts[dl[q].ver] \in Nat
            BY <3>1, PartsAreNumbers
           <7> QED BY <3>1, <5>1, <7>2, <7>3, <7>4
          <6> QED BY <5>1, <5>2, <6>0 DEF Receives
        <5> QED BY <5>2, <5>3, <5>4
      <4> QED BY <4>1, <4>2
    <3>6. ASSUME NEW r \in Requests, NEW t \in Requests, r # t PROVE Apart(r, t)'
      <4>1. CASE r = q \/ t = q
        BY <3>4, <4>1 DEF Apart
      <4>2. CASE r # q /\ t # q
        <5>1. Apart(r, t)
          BY <3>6 DEF SpoilInv
        <5> QED BY <3>4, <4>2, <5>1 DEF Apart, Steady, Unwritten
      <4> QED BY <4>1, <4>2
    <3>7. ASSUME NEW g \in Files PROVE failures'[g] <= 1 /\ (failures'[g] = 1 => Recovering(g)')
      <4>1. CASE g = f
        <5>1. Parts[Served(f)] <= Len(archives[f])
          BY <3>1, PartsAreNumbers
        <5>2. Recovering(g)'
          BY <2>2, <4>1, <5>1 DEF Recovering, Served
        <5> QED BY <3>3, <4>1, <5>2
      <4>2. CASE g # f
        BY <2>2, <3>3, <4>2 DEF SpoilInv, Recovering, Served
      <4> QED BY <4>1, <4>2
    <3> QED BY <3>5, <3>6, <3>7 DEF SpoilInv
  <2> QED BY <2>3, <2>4
<1>8. CASE LiveList(q) \/ Primary(q) \/ TryRpm(q) \/ UnpackLocal(q) \/ FetchFails(q)
  <2>1. PICK p \in {"body", "rpm", "primary", "pack", "failed", "try"} : pc' = [pc EXCEPT ![q] = p]
    BY <1>8, LeaveRepoType DEF LiveList, Primary, TryRpm, UnpackLocal, FetchFails, Goto
  <2>2. UNCHANGED <<archives, dl, history, published>>
    BY <1>8 DEF LiveList, Primary, TryRpm, UnpackLocal, FetchFails, server
  <2> QED BY <1>a, <2>1, <2>2, Names
<1>9. CASE LiveBody(q) \/ RpmBody(q)
  <2>1. PICK p \in {"pack", "done"} : pc' = [pc EXCEPT ![q] = p]
    BY <1>9 DEF LiveBody, RpmBody, Received, Extracted, Goto
  <2>2. UNCHANGED <<archives, dl, history, published>>
    BY <1>9 DEF LiveBody, RpmBody, Received, server
  <2> QED BY <1>a, <2>1, <2>2, Names
<1>10. CASE Pack(q) \/ (PackStub(q) /\ dl[q].open)
  <2>1. PICK p \in {"stub", "done"} : pc' = [pc EXCEPT ![q] = p]
    BY <1>10 DEF Pack, PackStub, Goto
  <2>2. /\ pc[q] \in {"pack", "stub"} /\ Disturb(q, {0}) /\ UNCHANGED published
        /\ \A r \in Requests : r # q => dl'[r] = dl[r]
        /\ \A g \in Files \ {0} : archives'[g] = archives[g]
    BY <1>10 DEF Pack, PackStub, server, Shape
  <2>3. ~Steady(q) /\ ~Steady(q)'
    BY <2>1, <2>2 DEF Steady, Shape
  <2>4. Spares(q, {0})
    BY <2>1, <2>2, DisturbType, DisturbMark DEF Spares
  <2>5. \A g \in {0} \cap Files : failures'[g] # 1
    BY <2>2, <2>3, DisturbMark
  <2> QED BY <2>3, <2>4, <2>5, SpoilLeft
<1>11. CASE PackStub(q) /\ ~dl[q].open
  <2>1. /\ pc' = [pc EXCEPT ![q] = "done"] /\ UNCHANGED <<archives, alone, calm, failures, published>>
        /\ \A r \in Requests : r # q => dl'[r] = dl[r]
    BY <1>11 DEF PackStub, Goto, history, server
  <2>2. ~Steady(q)'
    BY <2>1 DEF Steady, Shape
  <2> QED BY <2>1, <2>2, SpoilAway
<1>13. ASSUME ExtractFails(q) \/ WriteFails(q) PROVE SpoilInv'
  <2>1. Forget(q) /\ (\/ ExtractFails(q) /\ ~IsWhole(archives[f]) /\ failures' = Spoiled(q)
                      \/ failures' = [failures EXCEPT ![f] = 0])
    BY <1>0, <1>13 DEF ExtractFails, WriteFails
  <2> QED BY <1>7, <1>12, <1>13, <2>1
<1> QED
  BY <1>1, <1>2, <1>3, <1>4, <1>5, <1>6, <1>8, <1>9, <1>10, <1>11, <1>13, SpoilWhole, SpoilRest,
     SpoilUnsatisfiable, SpoilRead
  DEF Step

LEMMA NextSpoilInv == Shape /\ Marks /\ SpoilInv /\ [Next]_vars => SpoilInv'
<1> SUFFICES ASSUME Shape, Marks, SpoilInv, [Next]_vars PROVE SpoilInv'
  OBVIOUS
<1>1. CASE \E q \in Requests : Step(q)
  BY <1>1, StepSpoilInv
<1>2. CASE Collect
  <2>1. PICK F \in {Orphans(TRUE), Orphans(FALSE), OfPackage} :
          /\ archives' = [f \in Files |-> IF f \in F THEN <<>> ELSE archives[f]]
          /\ dl' = [r \in Requests |-> Detached(r, F)]
          /\ alone' = [r \in Requests |-> alone[r] /\ ~\E f \in F : Uses(r, f)]
          /\ failures' = [f \in Files |-> IF f \in F THEN 0 ELSE failures[f]]
          /\ UNCHANGED <<server, locals, pc, taken, calm>>
    BY <1>2 DEF Collect
  <2>2. ASSUME NEW r \in Requests, Steady(r)'
        PROVE  /\ Steady(r) /\ dl'[r] = dl[r] /\ dl[r].file \in Files
               /\ archives'[dl[r].file] = archives[dl[r].file]
               /\ failures'[dl[r].file] = failures[dl[r].file]
    <3>1. Steady(r) /\ dl'[r] = dl[r] /\ dl[r].file \notin F
      BY <2>1, <2>2 DEF Steady, Detached, Uses
    <3>2. dl[r].file \in Files
      BY DEF Shape, Downloads
    <3> QED BY <2>1, <3>1, <3>2
  <2>3. ASSUME NEW r \in Requests PROVE Course(r)' /\ Receives(r)'
    <3>1. Course(r) /\ Receives(r) /\ UNCHANGED <<pc, published>>
      BY <2>1 DEF SpoilInv, server
    <3> QED BY <2>2, <3>1 DEF Course, Receives, Served
  <2>4. ASSUME NEW r \in Requests, NEW t \in Requests, r # t PROVE Apart(r, t)'
    BY <2>1, <2>2, <2>4 DEF SpoilInv, Apart, Unwritten
  <2>5. ASSUME NEW f \in Files PROVE failures'[f] <= 1 /\ (failures'[f] = 1 => Recovering(f)')
    BY <2>1 DEF SpoilInv, Recovering, Served, server
  <2> QED BY <2>3, <2>4, <2>5 DEF SpoilInv
<1>3. CASE (\E s \in Sources : Publish(s)) \/ End
  <2>1. failures' = [f \in Files |-> 0] /\ \A r \in Requests : ~Steady(r)'
    BY <1>3 DEF Publish, End, Steady
  <2> QED BY <2>1 DEF SpoilInv, Course, Receives, Apart
<1>4. CASE Update \/ UNCHANGED vars
  <2>1. UNCHANGED <<archives, pc, dl, alone, calm, failures, published>>
    BY <1>4 DEF Update, vars, history, server
  <2> QED BY <2>1 DEF SpoilInv, Course, Receives, Apart, Recovering, Steady, Unwritten, Served
<1> QED BY <1>1, <1>2, <1>3, <1>4 DEF Next

-----------------------------------------------------------------------------
(* The theorems. *)

\* The types that the argument needs.
THEOREM FetchTypes == Spec => []Shape
BY InitShape, NextShape, PTL DEF Spec

\* What a fetch extracts after a download that began without a file and met nobody
\* is what its repository had, for any repositories, requests, versions and faults
\* (retry_download_resumable, fetch_debian_package, fetch_rpm_package).
THEOREM FetchServesWhole == Spec => []ServedWhole
<1>1. Init => FetchInv
  BY DEF Init, FetchInv, Undisturbed, Vouched, NoDownload
<1>2. FetchInv => ServedWhole
  BY DEF FetchInv, Vouched, ServedWhole
<1> QED BY <1>1, <1>2, InitShape, NextShape, NextFetchInv, PTL DEF Spec

\* A file that spoils a fetch spoils one, for any repositories, requests, versions and
\* faults: the next download that meets no fault, publication or other writer finds it too
\* long, has it removed and receives it anew (retry_download_resumable, status 416).
THEOREM FetchSpoiledOnce == Spec => []SpoiledOnce
<1>1. Init => Marks /\ SpoilInv
  <2> SUFFICES ASSUME Init PROVE Marks /\ SpoilInv
    OBVIOUS
  <2>1. Marks /\ \A f \in Files : failures[f] = 0
    BY DEF Init, Marks
  <2>2. \A r \in Requests : ~Steady(r)
    BY DEF Init, Steady
  <2> QED BY <2>1, <2>2 DEF SpoilInv, Course, Receives, Apart
<1>2. SpoilInv => SpoiledOnce
  BY DEF SpoilInv, SpoiledOnce
<1> QED BY <1>1, <1>2, InitShape, NextShape, NextMarks, NextSpoilInv, PTL DEF Spec
=============================================================================
