------------------------------ MODULE SpmFetch ------------------------------
(***************************************************************************)
(* How the files of a package reach the machine (src/src/package/fetch/,   *)
(* sam.rs, verify.rs, install/local.rs): the repositories that are tried   *)
(* in turn, the resumable download into the archives directory, the live   *)
(* fetches of deb and rpm repositories, extraction, the signature of a     *)
(* native package and the .sam file that is packed for the next time.      *)
(*                                                                         *)
(* One package is followed.  A file is a sequence of parts <<v, i>>: part  *)
(* i of the file that the repository has for version v.  archives[v] is    *)
(* the .deb of version v (its name holds the version) and archives[0] the  *)
(* .sam, whose name is the same for all versions; an absent file is like   *)
(* an empty one.  Transactions fetch under the write lock, one at a time;  *)
(* installs for users and of local files fetch without a lock.             *)
(***************************************************************************)
EXTENDS Naturals, Sequences

CONSTANTS Requests,     \* operations that may run at the same time
          RepoList,     \* the sources of the configured repositories, in order
          Parts,        \* Parts[v]: parts of the file of version v, for 1, 2, ...
          Rows,         \* what the row of the package may say it is: "Native" once spm has
                        \* installed it, "Deb" or "Rpm" if it was imported from the system
          Summed,       \* versions whose rpm listing holds a checksum
          SignatureOf,  \* the signature in the native manifest of a version
          Unsafe,       \* SPM_UNSAFE=1
          MaxStarts,    \* bound on operations
          MaxFaults,    \* bound on lost connections, read errors and ends of spmd
          MaxPublished  \* bound on new versions in the repositories

Sources    == {"Deb", "Rpm", "Native"}
Signatures == {"unsigned", "valid", "nokey", "bad"}
Versions   == DOMAIN Parts
Files      == {0} \cup Versions
Attempts   == 3         \* max_attempts

ASSUME RepoListAssumption  == RepoList \in Seq(Sources) /\ Rows \subseteq Sources
ASSUME PartsAssumption     == Parts \in Seq(Nat \ {0}) /\ Parts # <<>>
ASSUME SummedAssumption    == Summed \subseteq Versions
ASSUME SignatureAssumption == SignatureOf \in [Versions -> Signatures] /\ Unsafe \in BOOLEAN
ASSUME BoundsAssumption    == MaxStarts \in Nat /\ MaxFaults \in Nat /\ MaxPublished \in Nat

VARIABLES
  published,  \* the version each kind of repository offers now
  listing,    \* the version in the cached Packages files, 0 for none
  archives,   \* contents of the files in the archives directory
  locked,     \* requests of transactions, which hold the write lock
  pc,         \* the place of each request in the code
  rest,       \* sources a request has still to try, the current one first
  dl,         \* its download: the locals of retry_download_resumable
  want,       \* the version its repository named or sent
  got,        \* what is in its temporary directory: the files that it has extracted
  sound,      \* history: nothing but the code vouches for got
  alone,      \* history: nobody else has touched the file since its download began
  calm,       \* history: no fault and no publication has met its download
  failures,   \* history: downloads of a file, alone and calm, that failed in a row, with no
              \* others writing it in between
  starts, faults, news \* counters for the bounds

locals   == <<locked, rest>>
taken    == <<want, got, sound>>
history  == <<alone, calm, failures>>
bounds   == <<starts, faults, news>>
server   == <<published, listing>>
vars     == <<server, archives, locals, pc, dl, taken, history, bounds>>

Chunks   == Files \X Nat
Hole     == <<0, 0>>        \* bytes nobody wrote
Stub     == <<0, 1>>        \* magic and manifest of a .sam packed here
Whole(v) == [i \in 1..Parts[v] |-> <<v, i>>]

\* x is written at offset n of a file with content c.
Write(c, n, x) ==
  [i \in 1..(IF n < Len(c) THEN Len(c) ELSE n + 1) |->
     IF i = n + 1 THEN x ELSE IF i <= Len(c) THEN c[i] ELSE Hole]

NoDownload == [file |-> 0, attempt |-> 1, size |-> 0, fresh |-> FALSE, ver |-> 1,
               pos |-> 0, append |-> FALSE, open |-> FALSE]

TypeOK ==
  /\ published \in [Sources -> Versions] /\ listing \in Files
  /\ archives \in [Files -> Seq(Chunks)]
  /\ locked \in [Requests -> BOOLEAN]
  /\ pc \in [Requests -> {"idle", "try", "connect", "stream", "read", "live", "body", "primary",
                          "rpm", "local", "pack", "stub", "done", "failed"}]
  /\ rest \in [Requests -> Seq(Sources)]
  /\ dl \in [Requests -> [file : Files, attempt : 1..Attempts, size : Nat, fresh : BOOLEAN,
                          ver : Versions, pos : Nat, append : BOOLEAN, open : BOOLEAN]]
  /\ want \in [Requests -> Versions] /\ got \in [Requests -> Seq(Chunks)]
  /\ sound \in [Requests -> BOOLEAN]
  /\ alone \in [Requests -> BOOLEAN] /\ calm \in [Requests -> BOOLEAN]
  /\ failures \in [Files -> 0..2]
  /\ starts \in 0..MaxStarts /\ faults \in 0..MaxFaults /\ news \in 0..MaxPublished

Init ==
  /\ published = [s \in Sources |-> 1] /\ listing \in {0, 1}
  /\ archives = [f \in Files |-> <<>>]
  /\ locked = [q \in Requests |-> FALSE] /\ pc = [q \in Requests |-> "idle"]
  /\ rest = [q \in Requests |-> <<>>] /\ dl = [q \in Requests |-> NoDownload]
  /\ want = [q \in Requests |-> 1] /\ got = [q \in Requests |-> <<>>]
  /\ sound = [q \in Requests |-> FALSE]
  /\ alone = [q \in Requests |-> FALSE] /\ calm = [q \in Requests |-> FALSE]
  /\ failures = [f \in Files |-> 0]
  /\ starts = 0 /\ faults = 0 /\ news = 0

-----------------------------------------------------------------------------
(* Requests that meet at a file. *)

Goto(q, p) == pc' = [pc EXCEPT ![q] = p]
Started    == starts < MaxStarts /\ starts' = starts + 1 /\ UNCHANGED <<faults, news>>
Fault      == faults < MaxFaults /\ faults' = faults + 1 /\ UNCHANGED <<starts, news>>
Uses(q, f) == pc[q] \in {"connect", "stream", "read", "stub"} /\ dl[q].file = f

\* A download that has met nobody at its file, no fault and no publication.
Steady(q)  == pc[q] \in {"connect", "stream", "read"} /\ alone[q] /\ calm[q]

\* The files F are written or unlinked by q.
Alone(q, F) == [r \in Requests |-> alone[r] /\ (r = q \/ ~\E f \in F : Uses(r, f))]
Disturb(q, F) ==
  /\ alone' = Alone(q, F)
  /\ failures' = [f \in Files |-> IF f \in F /\ ~Steady(q) THEN 0 ELSE failures[f]]
  /\ UNCHANGED calm

\* What is left of a download whose file was unlinked: its handle stays open.
Detached(r, F) == IF \E f \in F : Uses(r, f) THEN [dl[r] EXCEPT !.open = FALSE] ELSE dl[r]

\* The download has met a fault, or has ended without a file that can be extracted.
Faulted(q) ==
  /\ calm' = [calm EXCEPT ![q] = FALSE] /\ failures' = [failures EXCEPT ![dl[q].file] = 0]
  /\ UNCHANGED alone
Forget(q) ==
  /\ dl' = [dl EXCEPT ![q] = NoDownload]
  /\ alone' = [alone EXCEPT ![q] = FALSE] /\ calm' = [calm EXCEPT ![q] = FALSE]
Spoiled(q) ==
  [failures EXCEPT ![dl[q].file] =
     IF ~Steady(q) THEN 0 ELSE IF @ = 0 THEN 1 ELSE 2]

-----------------------------------------------------------------------------
(* fetch_single, upgrade_package, install_for_user: which repositories. *)

Among(S) == SelectSeq(RepoList, LAMBDA s : s \in S)

\* The repositories of the planned source, then the native ones; an upgrade tries all.
Order(k, s) ==
  IF k = "upgrade" THEN RepoList
  ELSE Among({s}) \o (IF s = "Native" THEN <<>> ELSE Among({"Native"}))

Unlisted == listing = 0     \* no cached Packages file has an entry for the package

\* check_upgrade: an upgrade needs a repository of the row's own format that offers a
\* newer version: by the cached Packages files, the index or a list that is fetched now.
Offered(f, indexed) ==
  CASE f = "Deb" -> listing [] f = "Rpm" -> indexed [] f = "Native" -> published["Native"]
Upgradable ==
  \E f \in Rows, indexed \in Files, installed \in Versions :
    Among({f}) # <<>> /\ Offered(f, indexed) > installed

\* repo_has_package: deb by its cached Packages files, the others by an index.
Having(indexed) == Among(indexed \cup (IF Unlisted THEN {} ELSE {"Deb"}))

Over(q) == pc[q] \in {"idle", "done", "failed"}

Begin(q, lock, p, order) ==
  /\ Over(q) /\ Started
  /\ locked' = [locked EXCEPT ![q] = lock] /\ rest' = [rest EXCEPT ![q] = order] /\ Goto(q, p)
  /\ got' = [got EXCEPT ![q] = <<>>] /\ sound' = [sound EXCEPT ![q] = FALSE]
  /\ want' = [want EXCEPT ![q] = 1]
  /\ UNCHANGED <<server, archives, dl, history>>

Fetch(q) == \E k \in {"install", "upgrade"}, s \in Sources :
  /\ \A r \in Requests : ~locked[r]
  /\ Order(k, s) # <<>> /\ (k = "upgrade" => Upgradable)
  /\ Begin(q, TRUE, "try", Order(k, s))

FetchForUser(q) == \E indexed \in SUBSET {"Rpm", "Native"} :
  /\ Having(indexed) # <<>>
  /\ Begin(q, FALSE, "try", <<Having(indexed)[1]>>)

FetchLocal(q) == Begin(q, FALSE, "local", <<>>)

\* The error of a repository: the next one is tried.  The fallback to other formats finds nothing.
LeaveRepo(q) ==
  /\ rest' = [rest EXCEPT ![q] = Tail(@)]
  /\ IF Len(rest[q]) > 1 THEN Goto(q, "try") /\ UNCHANGED locked
     ELSE Goto(q, "failed") /\ locked' = [locked EXCEPT ![q] = FALSE]

\* The error of a download: a deb repository is asked for its current Packages.gz.
LeaveFile(q) ==
  IF dl[q].file # 0 THEN Goto(q, "live") /\ UNCHANGED locals ELSE LeaveRepo(q)

-----------------------------------------------------------------------------
(* fetch_deb_http_to_temp, fetch_native_to_temp: a download into the archives. *)

\* retry_download_resumable takes the size of the file once, before the first attempt.
Download(q, f) ==
  /\ dl' = [dl EXCEPT ![q] = [NoDownload EXCEPT !.file = f, !.size = Len(archives[f]),
                                                !.fresh = archives[f] = <<>>]]
  /\ alone' = [alone EXCEPT ![q] = TRUE] /\ calm' = [calm EXCEPT ![q] = TRUE]
  /\ Goto(q, "connect")
  /\ UNCHANGED <<server, archives, locals, taken, failures, bounds>>

TryDeb(q) ==
  /\ pc[q] = "try" /\ rest[q][1] = "Deb"
  /\ \/ ~Unlisted /\ Download(q, listing)
     \/ /\ Unlisted /\ Goto(q, "live")
        /\ UNCHANGED <<server, archives, locals, dl, taken, history, bounds>>

TryNative(q) == pc[q] = "try" /\ rest[q][1] = "Native" /\ Download(q, 0)

Serving(q) == published[IF dl[q].file = 0 THEN "Native" ELSE "Deb"]
Serves(q)  == dl[q].file \in {0, Serving(q)}

\* The next attempt asks from offset n; the files F are unlinked.
Again(q, n, F) ==
  LET last == dl[q].attempt = Attempts
      next == IF last THEN NoDownload
              ELSE [dl[q] EXCEPT !.size = n, !.attempt = @ + 1, !.open = FALSE]
  IN  /\ dl' = [r \in Requests |-> IF r = q THEN next ELSE Detached(r, F)]
      /\ IF last THEN LeaveFile(q) ELSE Goto(q, "connect") /\ UNCHANGED locals

\* A .deb that has been replaced by that of a newer version is not found.
ConnectFails(q) ==
  /\ pc[q] = "connect"
  /\ Fault \/ (~Serves(q) /\ UNCHANGED bounds)
  /\ Again(q, dl[q].size, {}) /\ Faulted(q)
  /\ UNCHANGED <<server, archives, taken>>

\* Status 200: nothing was asked to be left out, or the server sends all of it anyway.
\* Mutation: the file is opened for appending, as for the rest of it.
AnswerWholeAppended(q) ==
  /\ pc[q] = "connect" /\ Serves(q)
  /\ dl' = [dl EXCEPT ![q] = [@ EXCEPT !.ver = Serving(q), !.pos = 0, !.append = TRUE, !.open = TRUE]]
  /\ Goto(q, "stream") /\ Disturb(q, {dl[q].file})
  /\ UNCHANGED <<server, archives, locals, taken, bounds>>
AnswerWhole(q) ==
  /\ pc[q] = "connect" /\ Serves(q)
  /\ archives' = [archives EXCEPT ![dl[q].file] = <<>>]
  /\ dl' = [dl EXCEPT ![q] = [@ EXCEPT !.ver = Serving(q), !.pos = 0, !.append = FALSE, !.open = TRUE]]
  /\ Goto(q, "stream") /\ Disturb(q, {dl[q].file})
  /\ UNCHANGED <<server, locals, taken, bounds>>

Asks(q) == pc[q] = "connect" /\ Serves(q) /\ dl[q].size > 0

\* Status 206: the rest is appended to a file that is expected to be there still.
AnswerRest(q) ==
  /\ Asks(q) /\ dl[q].size < Parts[Serving(q)]
  /\ \/ /\ dl' = [dl EXCEPT ![q] = [@ EXCEPT !.ver = Serving(q), !.pos = dl[q].size,
                                             !.append = TRUE, !.open = TRUE]]
        /\ Goto(q, "stream") /\ UNCHANGED <<locals, history>>
     \/ /\ archives[dl[q].file] = <<>>
        /\ LeaveFile(q) /\ Forget(q) /\ failures' = Spoiled(q)
  /\ UNCHANGED <<server, archives, taken, bounds>>

\* Status 416: the file is removed, and the next attempt starts from nothing.
\* Mutation: it asks for the same range again.
AnswerUnsatisfiableKept(q) ==
  /\ Asks(q) /\ dl[q].size >= Parts[Serving(q)]
  /\ Again(q, dl[q].size, {dl[q].file})
  /\ archives' = [archives EXCEPT ![dl[q].file] = <<>>]
  /\ alone' = Alone(q, {dl[q].file})
  /\ failures' = IF dl[q].attempt = Attempts THEN Spoiled(q) ELSE failures
  /\ UNCHANGED <<server, taken, calm, bounds>>
AnswerUnsatisfiable(q) ==
  /\ Asks(q) /\ dl[q].size >= Parts[Serving(q)]
  /\ Again(q, 0, {dl[q].file})
  /\ archives' = [archives EXCEPT ![dl[q].file] = <<>>]
  /\ alone' = Alone(q, {dl[q].file})
  /\ failures' = IF dl[q].attempt = Attempts THEN Spoiled(q) ELSE failures
  /\ UNCHANGED <<server, taken, calm, bounds>>

\* A part arrives.  A handle on a file that was unlinked writes to nobody's file.
Read(q) ==
  LET d == dl[q]
      x == <<d.ver, d.pos + 1>>
  IN  /\ pc[q] = "stream" /\ d.pos < Parts[d.ver]
      /\ dl' = [dl EXCEPT ![q].pos = @ + 1]
      /\ IF d.open
         THEN /\ archives' = [archives EXCEPT ![d.file] =
                                IF d.append THEN Append(@, x) ELSE Write(@, d.pos, x)]
              /\ Disturb(q, {d.file})
         ELSE UNCHANGED <<archives, history>>
      /\ UNCHANGED <<server, locals, pc, taken, bounds>>

\* The size that the first attempt began with is asked from again.
ReadFails(q) ==
  /\ pc[q] = "stream" /\ Fault
  /\ Again(q, dl[q].size, {}) /\ Faulted(q)
  /\ UNCHANGED <<server, archives, taken>>

\* The file in the archives cannot be created or written: there is no other attempt.
WriteFails(q) ==
  /\ pc[q] \in {"connect", "stream"} /\ Fault
  /\ LeaveFile(q) /\ Forget(q) /\ failures' = [failures EXCEPT ![dl[q].file] = 0]
  /\ UNCHANGED <<server, archives, taken>>

Downloaded(q) ==
  /\ pc[q] = "stream" /\ dl[q].pos = Parts[dl[q].ver] /\ Goto(q, "read")
  /\ UNCHANGED <<server, archives, locals, dl, taken, history, bounds>>

-----------------------------------------------------------------------------
(* Extraction and the signature. *)

IsWhole(c)  == \E v \in Versions : c = Whole(v)
HasMagic(c) == c # <<>> /\ c[1][2] = 1

\* Only the manifest is signed.  That of a .sam packed here may carry a signature over.
Signed(c) == IF c[1][1] \in Versions THEN {SignatureOf[c[1][1]]} ELSE Signatures
Accepted  == {"unsigned", "valid"} \cup (IF Unsafe THEN {"nokey"} ELSE {})

\* fetch_and_extract goes on for a transaction: the files are scanned and packed.
Extracted(q) ==
  /\ Goto(q, IF locked[q] THEN "pack" ELSE "done")
  /\ rest' = [rest EXCEPT ![q] = <<>>] /\ UNCHANGED locked

\* A file that begins like an archive may be extracted as far as it can be decompressed.
Unpacked(q) ==
  LET c == archives[dl[q].file]
  IN  /\ HasMagic(c)
      /\ got' = [got EXCEPT ![q] = c] /\ want' = [want EXCEPT ![q] = dl[q].ver]
      /\ sound' = [sound EXCEPT ![q] = dl[q].fresh /\ alone[q]]
      /\ failures' = [failures EXCEPT ![dl[q].file] = 0]
      /\ Extracted(q) /\ Forget(q)
      /\ UNCHANGED <<server, archives, bounds>>

\* The SHA256 field of Packages has one word where the code looks for three: nothing is compared.
ExtractDeb(q) == pc[q] = "read" /\ dl[q].file # 0 /\ Unpacked(q)

ExtractSam(q) ==
  /\ pc[q] = "read" /\ dl[q].file = 0 /\ Unpacked(q)
  /\ Signed(archives[0]) \cap Accepted # {}

\* What has been extracted before the error stays in the temporary directory, which is that of the live
\* fetch, too.  A whole file can fail for want of space.
Leaves(c) == {<<>>} \cup IF HasMagic(c) THEN {SubSeq(c, 1, n) : n \in 1..Len(c)} ELSE {}
ExtractFails(q) ==
  /\ pc[q] = "read" /\ LeaveFile(q) /\ Forget(q)
  /\ \/ ~IsWhole(archives[dl[q].file]) /\ failures' = Spoiled(q) /\ UNCHANGED bounds
     \/ Fault /\ failures' = [failures EXCEPT ![dl[q].file] = 0]
  /\ \E left \in IF dl[q].file = 0 THEN {<<>>} ELSE Leaves(archives[dl[q].file]) :
       got' = [got EXCEPT ![q] = left]
  /\ UNCHANGED <<server, archives, want, sound>>

\* verify_manifest_signature: a package that the trusted keys do not vouch for stays in the archives.
SignatureRefused(q) ==
  /\ pc[q] = "read" /\ dl[q].file = 0 /\ HasMagic(archives[0])
  /\ ~(Signed(archives[0]) \subseteq Accepted)
  /\ LeaveRepo(q) /\ Forget(q) /\ failures' = [failures EXCEPT ![0] = 0]
  /\ UNCHANGED <<server, archives, taken, bounds>>

-----------------------------------------------------------------------------
(* The fetches that leave nothing in the archives. *)

\* fetch_debian_package: Packages.gz and the .deb it names are fetched one after the other.
LiveList(q) ==
  /\ pc[q] = "live" /\ Goto(q, "body")
  /\ want' = [want EXCEPT ![q] = published["Deb"]]
  /\ UNCHANGED <<server, archives, locals, dl, got, sound, history, bounds>>

Received(q, x, s) ==
  /\ got' = [got EXCEPT ![q] = x] /\ sound' = [sound EXCEPT ![q] = s]
  /\ Extracted(q)
  /\ UNCHANGED <<server, archives, dl, want, history, bounds>>

\* Version v is unpacked over what a failed extraction has left: the files of another version that v
\* does not have stay.
Onto(v, left) == IF \A i \in 1..Len(left) : left[i][1] = v THEN Whole(v) ELSE Whole(v) \o left
LiveBody(q) ==
  /\ pc[q] = "body" /\ published["Deb"] = want[q]
  /\ Received(q, Onto(want[q], got[q]), got[q] = <<>>)

\* fetch_rpm_package: repomd.xml, the primary it names and the package.  A primary
\* that repomd.xml does not describe any more is used with a warning.
TryRpm(q) ==
  /\ pc[q] = "try" /\ rest[q][1] = "Rpm" /\ Goto(q, "primary")
  /\ UNCHANGED <<server, archives, locals, dl, taken, history, bounds>>

Primary(q) ==
  /\ pc[q] = "primary" /\ Goto(q, "rpm")
  /\ want' = [want EXCEPT ![q] = published["Rpm"]]
  /\ UNCHANGED <<server, archives, locals, dl, got, sound, history, bounds>>

\* The repository may have replaced the file at that place; a listed checksum tells.
RpmBody(q) ==
  /\ pc[q] = "rpm" /\ (want[q] \in Summed => published["Rpm"] = want[q])
  /\ Received(q, Whole(published["Rpm"]), want[q] \in Summed)

\* No connection, no such package or file, no codename, another checksum.
FetchFails(q) ==
  /\ pc[q] \in {"live", "body", "primary", "rpm"} /\ LeaveRepo(q)
  /\ got' = [got EXCEPT ![q] = <<>>]
  /\ UNCHANGED <<server, archives, dl, want, sound, history, bounds>>

\* fetch_local_to_temp: what is in a local file is not followed.
UnpackLocal(q) ==
  /\ pc[q] = "local" /\ \E p \in {"pack", "failed"} : Goto(q, p)
  /\ UNCHANGED <<server, archives, locals, dl, taken, history, bounds>>

-----------------------------------------------------------------------------
(* create_sam and the archives directory. *)

Pack(q) ==
  /\ pc[q] = "pack" /\ Goto(q, "stub")
  /\ archives' = [archives EXCEPT ![0] = <<>>]
  /\ dl' = [dl EXCEPT ![q] = [NoDownload EXCEPT !.open = TRUE]]
  /\ Disturb(q, {0})
  /\ UNCHANGED <<server, locals, taken, bounds>>

\* compress_to_zstd reads the directory it is given like a file and fails, which is a warning.
PackStub(q) ==
  /\ pc[q] = "stub" /\ Goto(q, "done") /\ locked' = [locked EXCEPT ![q] = FALSE]
  /\ dl' = [dl EXCEPT ![q] = NoDownload]
  /\ IF dl[q].open
     THEN archives' = [archives EXCEPT ![0] = Write(@, 0, Stub)] /\ Disturb(q, {0})
     ELSE UNCHANGED <<archives, history>>
  /\ UNCHANGED <<server, rest, taken, bounds>>

\* gc_cache keeps the files named like an installed package: never a .deb.
Orphans(installed) == IF installed THEN Versions ELSE Files
OfPackage          == Files      \* gc_cache_for_package, after a purge

Collect == \E F \in {Orphans(TRUE), Orphans(FALSE), OfPackage} :
  /\ Started /\ \E f \in F : archives[f] # <<>>
  /\ archives' = [f \in Files |-> IF f \in F THEN <<>> ELSE archives[f]]
  /\ dl' = [r \in Requests |-> Detached(r, F)]
  /\ alone' = [r \in Requests |-> alone[r] /\ ~\E f \in F : Uses(r, f)]
  /\ failures' = [f \in Files |-> IF f \in F THEN 0 ELSE failures[f]]
  /\ UNCHANGED <<server, locals, pc, taken, calm>>

\* A repository replaces its files by those of the next version.
Publish(s) ==
  /\ published[s] + 1 \in Versions
  /\ news < MaxPublished /\ news' = news + 1 /\ UNCHANGED <<starts, faults>>
  /\ published' = [published EXCEPT ![s] = @ + 1]
  /\ calm' = [r \in Requests |-> FALSE] /\ failures' = [f \in Files |-> 0]
  /\ UNCHANGED <<listing, archives, locals, pc, dl, taken, alone>>

\* update: the Packages files are fetched into the cache.
Update ==
  /\ Started /\ listing' = published["Deb"]
  /\ UNCHANGED <<published, archives, locals, pc, dl, taken, history>>

\* spmd ends: temporary directories are lost, the archives stay as they are.
End ==
  /\ Fault /\ \E q \in Requests : ~Over(q)
  /\ pc' = [q \in Requests |-> "idle"] /\ rest' = [q \in Requests |-> <<>>]
  /\ locked' = [q \in Requests |-> FALSE] /\ dl' = [q \in Requests |-> NoDownload]
  /\ got' = [q \in Requests |-> <<>>] /\ sound' = [q \in Requests |-> FALSE]
  /\ failures' = [f \in Files |-> 0]
  /\ UNCHANGED <<server, archives, want, alone, calm>>

Step(q) ==
  \/ Fetch(q) \/ FetchForUser(q) \/ FetchLocal(q) \/ TryDeb(q) \/ TryNative(q)
  \/ ConnectFails(q) \/ AnswerWhole(q) \/ AnswerRest(q) \/ AnswerUnsatisfiable(q)
  \/ Read(q) \/ ReadFails(q) \/ WriteFails(q) \/ Downloaded(q)
  \/ ExtractDeb(q) \/ ExtractSam(q) \/ ExtractFails(q) \/ SignatureRefused(q)
  \/ LiveList(q) \/ LiveBody(q) \/ TryRpm(q) \/ Primary(q) \/ RpmBody(q) \/ FetchFails(q)
  \/ UnpackLocal(q) \/ Pack(q) \/ PackStub(q)

Next == (\E q \in Requests : Step(q)) \/ Collect \/ (\E s \in Sources : Publish(s)) \/ Update \/ End
Spec == Init /\ [][Next]_vars

-----------------------------------------------------------------------------
(* Properties. *)

\* What a fetch hands on is the file as its repository had it, of one version and in one piece: after
\* a download that began without a file and met nobody else at it, whatever connections and reads
\* failed and whatever was published in between; after a live fetch, unless the extraction of another
\* file had failed before it and left something in the directory; and for an rpm with a listed
\* checksum, always the version of the listing.
ServedWhole == \A q \in Requests : sound[q] => got[q] = Whole(want[q])

\* A file in the archives that spoils a fetch (the .sam that create_sam left in
\* pieces, a spliced or overlong download) spoils one: the next download that
\* meets no fault, publication or other writer replaces it.
SpoiledOnce == \A f \in Files : failures[f] <= 1
=============================================================================
