------------------------------ MODULE SpmRepos ------------------------------
(***************************************************************************)
(* Repositories (src/src/config/repos.rs), spm.conf (src/src/config/mod.rs)*)
(* and the soname index (src/src/index/): what administrators write, what  *)
(* a published place offers, and what updates cache of it.                 *)
(*                                                                         *)
(* All of it is files, written by fs::write, which truncates a file and    *)
(* then fills it: whoever reads in between finds it torn, and the end of   *)
(* the process leaves it so.  No operation takes a lock, and any two may   *)
(* be at work at once.  An operation reads, decides and queues its writes; *)
(* the two steps of a write are the same for all of them (Truncate, Fill). *)
(*                                                                         *)
(* A place is a directory that is published: the base of a file:// url on  *)
(* the publishing machine, of an http url for everybody else.  A listing   *)
(* is the set of packages in a metadata file; it is open when packages can *)
(* be added to it, which the empty element that create_rpm_repo writes is  *)
(* not.                                                                    *)
(***************************************************************************)
EXTENDS Naturals, Sequences, FiniteSets

CONSTANTS Requests,    \* threads that serve requests, and the automatic update
          Repos,       \* names of repositories
          Places, Pkgs,
          Settings,    \* keys of spm.conf
          Operations,  \* what is asked for
          FirstFiles,  \* the files there may be at the start
          Faults,      \* what may go wrong
          MaxStarts,   \* bound: requests received
          MaxFaults,   \* bound: network failures, failed writes, crashes
          None, Absent, Torn

Sources   == {"native", "deb", "rpm"}
AllFaults == {"network", "write", "delete", "crash"}

\* The metadata files of a layout in the order in which they are written, and those of them that a
\* publication reads once the package is there.
MetaOf == [native |-> <<"index">>, deb |-> <<"packages", "packages.gz">>,
           rpm |-> <<"primary", "filelists">>]
ReadOf == [native |-> <<>>, deb |-> <<"packages">>, rpm |-> <<"primary", "filelists">>]
\* The one that clients read.
PublicOf == [native |-> "index", deb |-> "packages.gz", rpm |-> "primary"]
\* fetch_with_retry and fetch_bytes_progress are called with these.
TriesOf == [native |-> 3, deb |-> 2, rpm |-> 2]

MetaKinds == {"index", "packages", "packages.gz", "primary", "filelists"}
Metas(s)  == {MetaOf[s][i] : i \in DOMAIN MetaOf[s]}

\* A file is named by its kind and what it is about.
SignedKinds == {"release", "sig"}
Paths == ({"cfg", "key"} \X Repos) \cup ({"cache"} \X (Sources \X Repos))
         \cup (MetaKinds \X Places) \cup (SignedKinds \X (Sources \X Places))
         \cup ({"archive"} \X (Places \X Pkgs)) \cup ({"soname", "conf", "conf.tmp"} \X {None})

Listings == [pkgs : SUBSET Pkgs, open : BOOLEAN]
Empty    == [pkgs |-> {}, open |-> TRUE]
Configs  == [source : Sources, url : Places \cup {None}, local : BOOLEAN,
             mirrors : {<<>>} \cup {<<p>> : p \in Places} \cup Places \X Places,
             dists : BOOLEAN, key : BOOLEAN]

\* What a file of each kind holds when it is whole.  A cache directory without a list is Empty and
\* not open.  Before it is signed, the repomd.xml of an rpm repository names its primary.  A Release
\* may have an entry for an earlier signature, "sig", which is of a file that is being replaced: Torn.
Releases == UNION {[ms -> Listings \cup {Torn}] : ms \in SUBSET (MetaKinds \cup {"sig"})}
Holds(kind) ==
  CASE kind = "cfg"                   -> Configs
    [] kind = "key"                   -> {"pem"}
    [] kind \in MetaKinds \cup {"cache"} -> Listings
    [] kind \in SignedKinds           -> Releases
    [] kind = "archive"               -> {"sam"}
    [] kind = "soname"                -> SUBSET (Repos \X Pkgs)
    [] OTHER                          -> SUBSET Settings

ASSUME OperationsAssumption ==
  Operations \subseteq [op : {"add"}, name : Repos, cfg : {c \in Configs : ~c.dists /\ ~c.key}]
    \cup [op : {"create"}, name : Repos, source : Sources, place : Places]
    \cup [op : {"publish"}, name : Repos, pkg : Pkgs]
    \cup [op : {"remove", "genkey", "sign"}, name : Repos]
    \cup [op : {"set"}, setting : Settings]
    \cup [op : {"update", "rebuild"}]
ASSUME MarksAssumption ==
  /\ Absent # Torn /\ \A w \in {"pem", "sam"} : w # Absent /\ w # Torn
  /\ \A w \in {Absent, Torn} : w \notin Listings /\ w \notin Configs /\ w \notin Releases
  /\ \A w \in (SUBSET (Repos \X Pkgs)) \cup (SUBSET Settings) : w # Absent /\ w # Torn
ASSUME LimitsAssumption ==
  Faults \subseteq AllFaults /\ MaxStarts \in Nat /\ MaxFaults \in Nat

\* The places that configurations of a name have.
PlacesOf(n) ==
  LET cs == {q.cfg : q \in {o \in Operations : o.op = "add" /\ o.name = n}}
            \cup ({f[<<"cfg", n>>] : f \in FirstFiles} \cap Configs)
  IN  {c.url : c \in cs} \cup UNION {{c.mirrors[i] : i \in DOMAIN c.mirrors} : c \in cs}

\* The lists that clients can read, as <<source, place, packages>>.
Offers(f) == UNION {{<<s, p, f[<<PublicOf[s], p>>].pkgs>> :
                       p \in {q \in Places : f[<<PublicOf[s], q>>] \in Listings}} : s \in Sources}

\* A package that a list names has its archive.
Archived(f) ==
  \A p \in Places : \A m \in MetaKinds : \A k \in Pkgs :
    f[<<m, p>>] \in Listings /\ k \in f[<<m, p>>].pkgs => f[<<"archive", <<p, k>>>>] # Absent

\* If c is a list, then it was offered by a place of the repository or, for rpm, by some of them.
WasServed(s, n, c, offers) ==
  LET lists == {x[3] : x \in {y \in offers : y[1] = s /\ y[2] \in PlacesOf(n)}}
  IN  c \in Listings /\ c.open =>
        IF s = "rpm" THEN c.pkgs = UNION {l \in lists : l \subseteq c.pkgs} ELSE c.pkgs \in lists
CachesServed(f, offers) ==
  \A s \in Sources : \A n \in Repos : WasServed(s, n, f[<<"cache", <<s, n>>>>], offers)

\* The files at the start are those that such operations leave, whole.
ASSUME FilesAssumption ==
  \A f \in FirstFiles : /\ f = [x \in Paths |-> f[x]]
                        /\ \A x \in Paths : f[x] \in Holds(x[1]) \cup {Absent}
                        /\ Archived(f) /\ CachesServed(f, Offers(f))

VARIABLES
  file,       \* the content of each path, Absent, or Torn: truncated and not filled
  pc, req,    \* per request: where it is, what was asked for
  queue,      \* the writes it goes on with: <<path, content>>
  half,       \* the first of them has truncated its file
  repo,       \* the repository that it works on: <<name, configuration>>
  todo,       \* the repositories left
  left,       \* the places left to fetch from, or the metadata files left to write
  tries,      \* failed attempts at the first of them
  got,        \* packages of the mirrors read, entries of the index being built
  offered,    \* history: the lists that clients could read, as <<source, place, packages>>
  published,  \* history: the packages whose publication succeeded, the same way
  crossed,    \* history: two administrators have been at work at once
  started, faults

locals  == <<queue, half, repo, todo, left, tries, got>>
history == <<offered, published, crossed>>
bounds  == <<started, faults>>
vars    == <<file, pc, req, locals, history, bounds>>

Ended  == {"idle", "done", "failed"}
AtWork(r) == pc[r] \notin Ended
Admin  == {"add", "create", "publish", "genkey", "sign", "set"}
NoCfg  == [source |-> "native", url |-> None, local |-> FALSE, mirrors |-> <<>>,
           dists |-> FALSE, key |-> FALSE]

Init ==
  /\ file \in FirstFiles
  /\ pc = [r \in Requests |-> "idle"]
  /\ req = [r \in Requests |-> [op |-> "update"]]
  /\ queue = [r \in Requests |-> <<>>] /\ half = [r \in Requests |-> FALSE]
  /\ repo = [r \in Requests |-> <<None, NoCfg>>] /\ todo = [r \in Requests |-> {}]
  /\ left = [r \in Requests |-> <<>>] /\ tries = [r \in Requests |-> 0]
  /\ got = [r \in Requests |-> {}]
  /\ offered = Offers(file) /\ published = {} /\ crossed = FALSE
  /\ started = 0 /\ faults = 0

Goto(r, l)   == pc' = [pc EXCEPT ![r] = l]
At(r, l)     == pc[r] = l /\ queue[r] = <<>>
Fault(k)     == k \in Faults /\ faults < MaxFaults /\ faults' = faults + 1 /\ UNCHANGED started
Enqueue(r, ws) == queue' = [queue EXCEPT ![r] = ws] /\ UNCHANGED half
Name(r)      == req[r].name
Cfg(r)       == repo[r][2]

\* load_repos: a file that does not parse is passed over with a warning.
Loaded == {n \in Repos : file[<<"cfg", n>>] \in Configs}

\* A request arrives, whatever else is at work: each has a thread of its own, and none takes a lock.
Begin(r, q) ==
  /\ ~AtWork(r) /\ started < MaxStarts /\ started' = started + 1
  /\ crossed' = (crossed \/ (q.op \in Admin /\ \E s \in Requests : AtWork(s) /\ req[s].op \in Admin))
  /\ req' = [req EXCEPT ![r] = q] /\ Goto(r, q.op)
  /\ queue' = [queue EXCEPT ![r] = <<>>] /\ half' = [half EXCEPT ![r] = FALSE]
  /\ UNCHANGED <<file, repo, todo, left, tries, got, offered, published, faults>>

-----------------------------------------------------------------------------
(* fs::write *)

To(r) == Head(queue[r])[1]
Is(r) == Head(queue[r])[2]

\* Nothing can be written into a cache directory that has been removed.
Truncate(r) ==
  /\ queue[r] # <<>> /\ ~half[r]
  /\ To(r)[1] = "cache" => file[To(r)] # Absent
  /\ file' = [file EXCEPT ![To(r)] = Torn] /\ half' = [half EXCEPT ![r] = TRUE]
  /\ UNCHANGED <<pc, req, queue, repo, todo, left, tries, got, history, bounds>>

\* A file that was removed meanwhile stays removed.  One that another request has filled keeps the
\* end of the longer content.
Fill(r) ==
  /\ queue[r] # <<>> /\ half[r]
  /\ \E end \in IF file[To(r)] = Absent THEN {Absent}
                ELSE IF file[To(r)] \in {Torn, Is(r)} THEN {Is(r)} ELSE {Is(r), Torn} :
       file' = [file EXCEPT ![To(r)] = end]
  /\ half' = [half EXCEPT ![r] = FALSE] /\ queue' = [queue EXCEPT ![r] = Tail(@)]
  /\ offered' = offered \cup Offers(file')
  /\ UNCHANGED <<pc, req, repo, todo, left, tries, got, published, crossed, bounds>>

\* A write fails before or after it truncates.  An update goes on: with the next mirror of a deb
\* repository, otherwise with the next repository; and it does not mind a failing index.  So does
\* signing after a publication.  Everything else ends with the error.
AfterFailure(r) ==
  CASE pc[r] = "fetch" -> IF Cfg(r).source = "deb" THEN "fetch" ELSE "next"
    [] pc[r] = "end" /\ req[r].op \in {"update", "publish"} -> "done"
    [] OTHER -> "failed"

WriteFails(r) ==
  /\ queue[r] # <<>>
  /\ IF To(r)[1] = "cache" /\ file[To(r)] = Absent /\ ~half[r]
     THEN UNCHANGED bounds ELSE Fault("write")
  /\ Goto(r, AfterFailure(r))
  /\ queue' = [queue EXCEPT ![r] = <<>>] /\ half' = [half EXCEPT ![r] = FALSE]
  /\ UNCHANGED <<file, req, repo, todo, left, tries, got, history>>

\* Every operation ends once its last writes are made.
End(r) ==
  /\ At(r, "end") /\ Goto(r, "done")
  /\ UNCHANGED <<file, req, locals, history, bounds>>

Fail(r) == Goto(r, "failed") /\ UNCHANGED <<file, req, locals, history, bounds>>

\* load_repos fails when a configuration goes away between its listing and its reading, that is
\* beside a removal; an update does without its index then.
LoadFails(r) ==
  /\ \E l \in {"register", "publish", "genkey", "sign", "update", "index", "rebuild"} : At(r, l)
  /\ \E s \in Requests : pc[s] = "uncache"
  /\ Goto(r, IF pc[r] = "index" THEN "done" ELSE "failed")
  /\ UNCHANGED <<file, req, locals, history, bounds>>

-----------------------------------------------------------------------------
(* add_repo, create_repo, remove_repo, generate_signing_key, config set *)

\* The file is written anew: signing_key, codename and components are None whatever it had.
Add(r) ==
  /\ At(r, "add") /\ Goto(r, "end")
  /\ Enqueue(r, <<<<<<"cfg", Name(r)>>, req[r].cfg>>>>)
  /\ UNCHANGED <<file, req, repo, todo, left, tries, got, history, bounds>>

\* What create_repo writes: the index even if there is one, of the other layouts the missing files
\* only.  The lists of an rpm repository take no packages.
Unless(x, w) == IF file[x] = Absent THEN <<<<x, w>>>> ELSE <<>>
Made(s, p) ==
  CASE s = "native" -> <<<<<<"index", p>>, Empty>>>>
    [] s = "deb"    -> Unless(<<"packages", p>>, Empty) \o Unless(<<"packages.gz", p>>, Empty)
    [] s = "rpm"    -> Unless(<<"release", <<"rpm", p>>>>, [m \in {} |-> Torn])
                       \o Unless(<<"primary", p>>, [pkgs |-> {}, open |-> FALSE])
                       \o Unless(<<"filelists", p>>, [pkgs |-> {}, open |-> FALSE])

Create(r) ==
  /\ At(r, "create") /\ Goto(r, "register")
  /\ LET s == req[r].source  p == req[r].place
     IN  /\ Enqueue(r, Made(s, p))
         /\ published' = IF s = "native" THEN {x \in published : <<x[1], x[2]>> # <<s, p>>}
                         ELSE published
  /\ UNCHANGED <<file, req, repo, todo, left, tries, got, offered, crossed, bounds>>

Register(r) ==
  /\ At(r, "register") /\ Goto(r, "end")
  /\ Enqueue(r, IF Name(r) \in Loaded THEN <<>>
       ELSE <<<<<<"cfg", Name(r)>>, [NoCfg EXCEPT !.source = req[r].source,
                                                  !.url = req[r].place, !.local = TRUE]>>>>)
  /\ UNCHANGED <<file, req, repo, todo, left, tries, got, history, bounds>>

\* The configuration goes first, then the cached lists, whose removal may fail without notice.
Remove(r) ==
  /\ At(r, "remove") /\ Goto(r, "uncache")
  /\ file' = [file EXCEPT ![<<"cfg", Name(r)>>] = Absent]
  /\ UNCHANGED <<req, locals, history, bounds>>

Uncache(r) ==
  /\ At(r, "uncache") /\ Goto(r, "end")
  /\ \E kept \in SUBSET Sources :
       /\ IF kept = {} THEN UNCHANGED bounds ELSE Fault("delete")
       /\ file' = [x \in Paths |-> IF x \in {<<"cache", <<s, Name(r)>>>> : s \in Sources \ kept}
                                  THEN Absent ELSE file[x]]
  /\ UNCHANGED <<req, locals, history>>

\* The private key, which stands for the pair, and then the configuration that names it.
GenKey(r) ==
  /\ At(r, "genkey")
  /\ IF Name(r) \notin Loaded THEN Fail(r) ELSE
       /\ Goto(r, "end")
       /\ Enqueue(r, <<<<<<"key", Name(r)>>, "pem">>,
            <<<<"cfg", Name(r)>>, [file[<<"cfg", Name(r)>>] EXCEPT !.key = TRUE]>>>>)
       /\ UNCHANGED <<file, req, repo, todo, left, tries, got, history, bounds>>

Conf == IF file[<<"conf", None>>] = Absent THEN {} ELSE file[<<"conf", None>>]

\* Mutation: the file is written in place.
SetConfInPlace(r) ==
  /\ At(r, "set")
  /\ IF Conf = Torn THEN Fail(r) ELSE
       /\ Goto(r, "end") /\ Enqueue(r, <<<<<<"conf", None>>, Conf \cup {req[r].setting}>>>>)
       /\ UNCHANGED <<file, req, repo, todo, left, tries, got, history, bounds>>

\* The keys that have been set: the file is read, written under another name, the same for all, and
\* renamed.  Torn, it does not parse, or parses as what is there of it.
SetConf(r) ==
  /\ At(r, "set")
  /\ \E read \in IF Conf = Torn THEN {Torn} \cup SUBSET Settings ELSE {Conf} :
       IF read = Torn THEN Fail(r) ELSE
         /\ Goto(r, "rename")
         /\ Enqueue(r, <<<<<<"conf.tmp", None>>, read \cup {req[r].setting}>>>>)
         /\ UNCHANGED <<file, req, repo, todo, left, tries, got, history, bounds>>

\* A rename moves the file under whoever is writing it, and what is being written to the file that it
\* replaces is lost.
Moved(s) == half[s] /\ To(s) = <<"conf.tmp", None>>
Dropped(s) == half[s] /\ To(s) = <<"conf", None>>
Rename(r) ==
  /\ At(r, "rename")
  /\ IF file[<<"conf.tmp", None>>] = Absent THEN Fail(r) ELSE
       /\ Goto(r, "end")
       /\ file' = [file EXCEPT ![<<"conf", None>>] = file[<<"conf.tmp", None>>],
                               ![<<"conf.tmp", None>>] = Absent]
       /\ queue' = [s \in Requests |-> IF Moved(s) THEN <<<<<<"conf", None>>, Is(s)>>>>
                                       ELSE IF Dropped(s) THEN <<>> ELSE queue[s]]
       /\ half' = [s \in Requests |-> half[s] /\ ~Dropped(s)]
       /\ UNCHANGED <<req, repo, todo, left, tries, got, history, bounds>>

-----------------------------------------------------------------------------
(* publish_package, sign_repo *)

\* A list with a package more, if it takes any.
Extended(l, k) == IF l.open THEN [l EXCEPT !.pkgs = @ \cup {k}] ELSE l

\* Mutation: the list is written before the package that it names.
PublishListFirst(r) ==
  /\ At(r, "publish")
  /\ LET c == file[<<"cfg", Name(r)>>]
     IN  IF Name(r) \notin Loaded \/ c.url = None \/ ~c.local THEN Fail(r) ELSE
         \E i \in {file[<<"index", c.url>>]} \cap Listings :
           /\ c.source = "native" /\ Goto(r, "list")
           /\ Enqueue(r, <<<<<<"index", c.url>>, Extended(i, req[r].pkg)>>,
                           <<<<"archive", <<c.url, req[r].pkg>>>>, "sam">>>>)
           /\ repo' = [repo EXCEPT ![r] = <<Name(r), c>>]
           /\ UNCHANGED <<file, req, todo, left, tries, got, history, bounds>>

\* The repository must be local.  A native index is read before anything is written, and written
\* with the package after it; the package of the other layouts is copied before a list is read.
Publish(r) ==
  /\ At(r, "publish")
  /\ LET c == file[<<"cfg", Name(r)>>]
         package == <<<<"archive", <<c.url, req[r].pkg>>>>, "sam">>
         index == file[<<"index", c.url>>]
     IN  IF \/ Name(r) \notin Loaded \/ c.url = None \/ ~c.local
            \/ c.source = "native" /\ index \notin Listings
         THEN Fail(r) ELSE
           /\ repo' = [repo EXCEPT ![r] = <<Name(r), c>>]
           /\ left' = [left EXCEPT ![r] = ReadOf[c.source]]
           /\ Enqueue(r, IF c.source = "native"
                         THEN <<package, <<<<"index", c.url>>, Extended(index, req[r].pkg)>>>>
                         ELSE <<package>>)
           /\ Goto(r, "list") /\ UNCHANGED <<file, req, todo, tries, got, history, bounds>>

\* Packages is text: torn, it reads as the start of a list.
ReadPackages(p) ==
  LET w == file[<<"packages", p>>]
  IN  CASE w = Absent -> {Empty}
        [] w = Torn -> {[Empty EXCEPT !.pkgs = ks] :
                          ks \in SUBSET {k \in Pkgs : file[<<"archive", <<p, k>>>>] # Absent}}
        [] OTHER -> {w}

\* A missing rpm list is taken for an empty text, which takes no packages.
ReadRpm(m, p) ==
  LET w == file[<<m, p>>]
  IN  IF w = Absent THEN {[Empty EXCEPT !.open = FALSE]} ELSE {w} \ {Torn}

\* What may be read of a metadata file.
Read(m, p) == IF m = "packages" THEN ReadPackages(p) ELSE ReadRpm(m, p)

\* A list that is written; Packages.gz is made of what is written to Packages.
WriteList(r, m, l) ==
  LET p == Cfg(r).url
  IN  /\ Enqueue(r, IF m = "packages" THEN <<<<<<m, p>>, l>>, <<<<"packages.gz", p>>, l>>>>
                                      ELSE <<<<<<m, p>>, l>>>>)
      /\ left' = [left EXCEPT ![r] = Tail(@)]
      /\ UNCHANGED <<file, pc, req, repo, todo, tries, got, history, bounds>>

\* Mutation: the metadata is made of the new package alone.
ListAlone(r) ==
  /\ At(r, "list") /\ left[r] # <<>>
  /\ IF Read(Head(left[r]), Cfg(r).url) = {} THEN Fail(r)
     ELSE WriteList(r, Head(left[r]), [Empty EXCEPT !.pkgs = {req[r].pkg}])

\* One metadata file: read, extended if it is open, written.
List(r) ==
  /\ At(r, "list") /\ left[r] # <<>>
  /\ LET m == Head(left[r])
     IN  \/ Read(m, Cfg(r).url) = {} /\ Fail(r)
         \/ \E l \in Read(m, Cfg(r).url) : WriteList(r, m, Extended(l, req[r].pkg))

Published(r) ==
  /\ At(r, "list") /\ left[r] = <<>>
  /\ published' = published \cup {<<Cfg(r).source, Cfg(r).url, req[r].pkg>>}
  /\ Goto(r, IF Cfg(r).key /\ file[<<"key", Name(r)>>] # Absent THEN "release" ELSE "done")
  /\ UNCHANGED <<file, req, locals, offered, crossed, bounds>>

Sign(r) ==
  /\ At(r, "sign")
  /\ LET c == file[<<"cfg", Name(r)>>]
     IN  IF Name(r) \notin Loaded \/ ~c.key \/ c.url = None \/ ~c.local THEN Fail(r) ELSE
           /\ repo' = [repo EXCEPT ![r] = <<Name(r), c>>] /\ Goto(r, "release")
           /\ UNCHANGED <<file, req, queue, half, todo, left, tries, got, history, bounds>>

Present(s, p) == {m \in Metas(s) : file[<<m, p>>] # Absent}
\* Of a deb repository everything below dists is listed but Release, Release.gpg and InRelease: so is
\* the Release.sig of an earlier signing, which this one replaces.
Earlier(s, p) == IF s = "deb" /\ file[<<"sig", <<s, p>>>>] # Absent THEN {"sig"} ELSE {}
ReleaseOf(s, p, old) ==
  [m \in Present(s, p) \cup old |-> IF m \in old THEN Torn ELSE file[<<m, p>>]]

\* Mutation: what is signed is the Release that was there.
ReleaseSignsOld(r) ==
  /\ At(r, "release")
  /\ LET s == Cfg(r).source  p == Cfg(r).url  new == ReleaseOf(s, p, Earlier(s, p))
     IN  IF file[<<"key", Name(r)>>] # "pem" \/ Present(s, p) = {}
         THEN /\ Goto(r, IF req[r].op = "publish" THEN "done" ELSE "failed")
              /\ UNCHANGED <<file, req, locals, history, bounds>>
         ELSE /\ Goto(r, "end")
              /\ Enqueue(r, <<<<<<"release", <<s, p>>>>, new>>,
                              <<<<"sig", <<s, p>>>>, file[<<"release", <<s, p>>>>]>>>>)
              /\ UNCHANGED <<file, req, repo, todo, left, tries, got, history, bounds>>

\* The checksums of the metadata there is, and their signature, which stands for Release.sig, the
\* InRelease file of a deb repository and repomd.xml.asc.
WriteRelease(r) ==
  /\ At(r, "release")
  /\ LET s == Cfg(r).source  p == Cfg(r).url  new == ReleaseOf(s, p, Earlier(s, p))
     IN  IF file[<<"key", Name(r)>>] # "pem" \/ Present(s, p) = {}
         THEN /\ Goto(r, IF req[r].op = "publish" THEN "done" ELSE "failed")
              /\ UNCHANGED <<file, req, locals, history, bounds>>
         ELSE /\ Goto(r, "end")
              /\ Enqueue(r, <<<<<<"release", <<s, p>>>>, new>>,
                              <<<<"sig", <<s, p>>>>, new>>>>)
              /\ UNCHANGED <<file, req, repo, todo, left, tries, got, history, bounds>>

-----------------------------------------------------------------------------
(* update_repos, build_index *)

Urls(c) == CASE c.source = "deb" -> IF c.dists THEN c.mirrors ELSE <<>>
             [] c.source = "rpm" -> IF c.url # None THEN <<c.url>> ELSE c.mirrors
             [] OTHER            -> IF c.url # None THEN <<c.url>> ELSE <<>>

Configured == {<<n, file[<<"cfg", n>>]>> : n \in Loaded}

\* The configurations are read once; an update keeps to them if they change.
Update(r) ==
  /\ At(r, "update") /\ Goto(r, "next")
  /\ todo' = [todo EXCEPT ![r] = Configured]
  /\ UNCHANGED <<file, req, queue, half, repo, left, tries, got, history, bounds>>

\* The next repository, whose cache directory is made unless it is native and has no url.
NextRepo(r) ==
  /\ At(r, "next")
  /\ IF todo[r] = {} THEN /\ Goto(r, "index")
                          /\ UNCHANGED <<file, req, locals, history, bounds>>
     ELSE \E x \in todo[r] :
       LET dir == <<"cache", <<x[2].source, x[1]>>>>
           ok  == x[2].source = "native" => x[2].url # None
       IN  /\ todo' = [todo EXCEPT ![r] = @ \ {x}] /\ repo' = [repo EXCEPT ![r] = x]
           /\ left' = [left EXCEPT ![r] = Urls(x[2])]
           /\ tries' = [tries EXCEPT ![r] = 0] /\ got' = [got EXCEPT ![r] = {}]
           /\ file' = IF ok /\ file[dir] = Absent
                      THEN [file EXCEPT ![dir] = [Empty EXCEPT !.open = FALSE]] ELSE file
           /\ Goto(r, IF ok THEN "fetch" ELSE "next")
           /\ UNCHANGED <<req, queue, half, history, bounds>>

Cache(r)  == <<"cache", <<Cfg(r).source, repo[r][1]>>>>
Remote(r) == <<PublicOf[Cfg(r).source], Head(left[r])>>
Skip(r)   == left' = [left EXCEPT ![r] = Tail(@)] /\ tries' = [tries EXCEPT ![r] = 0]
\* No client fetches a file:// url, a missing file, or an rpm list without a repomd.xml.
Reachable(r) ==
  /\ Cfg(r).source = "deb" \/ ~Cfg(r).local
  /\ file[Remote(r)] # Absent
  /\ Cfg(r).source = "rpm" => file[<<"release", <<"rpm", Head(left[r])>>>>] # Absent

\* Mutation: what could be unpacked of a torn download is taken.
DownloadPart(r) ==
  IF file[Remote(r)] = Torn THEN {[pkgs |-> ks, open |-> TRUE] : ks \in SUBSET Pkgs}
                            ELSE {file[Remote(r)]}

\* What a fetch brings.  A torn list does not decode; a torn repomd.xml may lack the primary.
Download(r) ==
  {file[Remote(r)]} \cup
    IF Cfg(r).source = "rpm" /\ file[<<"release", <<"rpm", Head(left[r])>>>>] = Torn
    THEN {Torn} ELSE {}

\* A native list is parsed and a deb list unpacked before it is written; each mirror of a deb
\* repository replaces what the one before has brought, those of an rpm repository add up.
Fetch(r) ==
  /\ At(r, "fetch") /\ left[r] # <<>> /\ Reachable(r)
  /\ \E l \in Download(r) :
       /\ IF l \in Listings /\ Cfg(r).source # "rpm"
          THEN Enqueue(r, <<<<Cache(r), [l EXCEPT !.open = TRUE]>>>>)
          ELSE UNCHANGED <<queue, half>>
       /\ got' = IF l \in Listings /\ Cfg(r).source = "rpm"
                 THEN [got EXCEPT ![r] = @ \cup l.pkgs] ELSE got
  /\ Skip(r) /\ UNCHANGED <<file, pc, req, repo, todo, history, bounds>>

\* Mutation: the attempts at a missing file are not counted.
FetchFailsForever(r) ==
  /\ At(r, "fetch") /\ left[r] # <<>>
  /\ IF Reachable(r) THEN Fault("network") ELSE UNCHANGED bounds
  /\ UNCHANGED <<file, pc, req, locals, history>>

\* Mutation: one attempt too many.
FetchFailsOnceMore(r) ==
  /\ At(r, "fetch") /\ left[r] # <<>>
  /\ IF Reachable(r) THEN Fault("network") ELSE UNCHANGED bounds
  /\ IF tries[r] < TriesOf[Cfg(r).source]
     THEN tries' = [tries EXCEPT ![r] = @ + 1] /\ UNCHANGED left ELSE Skip(r)
  /\ UNCHANGED <<file, pc, req, queue, half, repo, todo, got, history>>

FetchFails(r) ==
  /\ At(r, "fetch") /\ left[r] # <<>>
  /\ IF Reachable(r) THEN Fault("network") ELSE UNCHANGED bounds
  /\ IF tries[r] + 1 < TriesOf[Cfg(r).source]
     THEN tries' = [tries EXCEPT ![r] = @ + 1] /\ UNCHANGED left ELSE Skip(r)
  /\ UNCHANGED <<file, pc, req, queue, half, repo, todo, got, history>>

\* After the last mirror the packages of an rpm repository are written, if there are any.
Fetched(r) ==
  /\ At(r, "fetch") /\ left[r] = <<>>
  /\ IF got[r] # {}
     THEN /\ Enqueue(r, <<<<Cache(r), [pkgs |-> got[r], open |-> TRUE]>>>>)
          /\ got' = [got EXCEPT ![r] = {}] /\ UNCHANGED pc
     ELSE Goto(r, "next") /\ UNCHANGED <<queue, half, got>>
  /\ UNCHANGED <<file, req, repo, todo, left, tries, history, bounds>>

\* build_index, at the end of an update or on its own, reads the configurations again.
Index(r) ==
  /\ At(r, "index") \/ At(r, "rebuild")
  /\ Goto(r, "indexing")
  /\ todo' = [todo EXCEPT ![r] = Configured] /\ got' = [got EXCEPT ![r] = {}]
  /\ UNCHANGED <<file, req, queue, half, repo, left, tries, history, bounds>>

\* What a repository adds to the index: the packages of its cached list, if it is there and parses.
CachedPkgs(s, n) ==
  LET c == file[<<"cache", <<s, n>>>>] IN IF c \in Listings THEN {n} \X c.pkgs ELSE {}
SamEntries(n) == CachedPkgs("native", n)
RpmEntries(n) == CachedPkgs("rpm", n)
\* The index wants a Contents file beside a deb list, which no update downloads.
DebEntries(n) == {}

IndexRepo(r) ==
  /\ At(r, "indexing") /\ todo[r] # {}
  /\ \E x \in todo[r] :
       /\ todo' = [todo EXCEPT ![r] = @ \ {x}]
       /\ got' = [got EXCEPT ![r] = @ \cup CASE x[2].source = "native" -> SamEntries(x[1])
                                             [] x[2].source = "rpm"    -> RpmEntries(x[1])
                                             [] x[2].source = "deb"    -> DebEntries(x[1])]
  /\ UNCHANGED <<file, pc, req, queue, half, repo, left, tries, history, bounds>>

SaveIndex(r) ==
  /\ At(r, "indexing") /\ todo[r] = {} /\ Goto(r, "end")
  /\ Enqueue(r, <<<<<<"soname", None>>, got[r]>>>>)
  /\ got' = [got EXCEPT ![r] = {}]
  /\ UNCHANGED <<file, req, repo, todo, left, tries, history, bounds>>

-----------------------------------------------------------------------------
\* The process ends: nothing is finished, nothing is undone.
Crash ==
  /\ Fault("crash") /\ \E r \in Requests : AtWork(r)
  /\ pc' = [r \in Requests |-> IF AtWork(r) THEN "failed" ELSE pc[r]]
  /\ queue' = [r \in Requests |-> <<>>] /\ half' = [r \in Requests |-> FALSE]
  /\ UNCHANGED <<file, req, repo, todo, left, tries, got, history>>

Administer(r) ==
  \/ Add(r) \/ Create(r) \/ Register(r) \/ Remove(r) \/ Uncache(r) \/ GenKey(r)
  \/ SetConf(r) \/ Rename(r) \/ LoadFails(r)
  \/ Publish(r) \/ List(r) \/ Published(r) \/ Sign(r) \/ WriteRelease(r)

Refresh(r) ==
  \/ Update(r) \/ NextRepo(r) \/ Fetch(r) \/ FetchFails(r) \/ Fetched(r)
  \/ Index(r) \/ IndexRepo(r) \/ SaveIndex(r)

Step(r) == Truncate(r) \/ Fill(r) \/ WriteFails(r) \/ End(r) \/ Administer(r) \/ Refresh(r)

Next == \/ \E r \in Requests : Step(r) \/ \E q \in Operations : Begin(r, q)
        \/ Crash

\* Every request has a thread, and no call that it makes blocks for ever: connections and reads of
\* a fetch have timeouts.
Fairness == \A r \in Requests : WF_vars(Step(r))
Spec == Init /\ [][Next]_vars /\ Fairness

-----------------------------------------------------------------------------
(* Properties *)

TypeOK ==
  /\ DOMAIN file = Paths
  /\ \A x \in Paths : file[x] \in Holds(x[1]) \cup {Absent, Torn}
  /\ pc \in [Requests -> Ended \cup Admin \cup
       {"remove", "update", "rebuild", "end", "register", "uncache", "rename", "list", "release",
        "next", "fetch", "index", "indexing"}]
  /\ req \in [Requests -> Operations \cup {[op |-> "update"]}]
  /\ half \in [Requests -> BOOLEAN]
  /\ \A r \in Requests : \A i \in DOMAIN queue[r] :
       queue[r][i][1] \in Paths /\ queue[r][i][2] \in Holds(queue[r][i][1][1]) \cup {Absent, Torn}
  /\ repo \in [Requests -> (Repos \cup {None}) \X Configs]
  /\ todo \in [Requests -> SUBSET (Repos \X Configs)]
  /\ tries \in [Requests -> 0 .. 2]
  /\ published \subseteq Sources \X Places \X Pkgs /\ crossed \in BOOLEAN
  /\ started \in 0 .. MaxStarts /\ faults \in 0 .. MaxFaults

\* What an update has cached was offered as it is by one place of that repository, or, for an rpm
\* repository, is the union of what its mirrors offered: never a part of a list that was being
\* written or fetched, and never packages of another repository, however updates, removals and
\* publications overlap (update_from_deb, update_from_rpm, update_from_native).
CacheWasServed == CachesServed(file, offered)

\* A package that a list names has its archive at that place, also after a publication that failed
\* or was cut off (publish_to_native, publish_to_deb, publish_to_rpm).
ListedHasArchive == Archived(file)

\* As long as administrators work one after another, a package whose publication has succeeded stays
\* in the list that clients read until the native index is created again, unless the list takes no
\* packages, or is deb and was cut off once: a torn Packages file is extended from where it ends
\* (publish_package).  Two publications at once lose one of the packages, and nothing prevents it.
PublishedStaysListed ==
  ~crossed => \A x \in published :
    LET w == file[<<PublicOf[x[1]], x[2]>>]
    IN  w \in Listings /\ w.open /\ (x[1] = "deb" => faults = 0) => x[3] \in w.pkgs

\* As long as administrators work one after another, once a repository is signed, by repo sign or
\* after a publication, its Release names every metadata file with its current content, and the
\* signature is of that Release (sign_native_repo, sign_deb_repo, sign_rpm_repo).  The Release of a
\* deb repository may name the signature that it had before, besides.
ReleaseCurrent ==
  ~crossed => \A r \in Requests : At(r, "end") /\ req[r].op \in {"sign", "publish"} =>
    LET s == Cfg(r).source  p == Cfg(r).url
    IN  \E old \in SUBSET {"sig"} :
          /\ s # "deb" => old = {}
          /\ file[<<"release", <<s, p>>>>] = ReleaseOf(s, p, old)
          /\ file[<<"sig", <<s, p>>>>] = ReleaseOf(s, p, old)

\* As long as administrators work one after another, a change of spm.conf keeps every setting made
\* before, and nobody finds the file torn, whatever fails or ends in between (SpmConfig::set).  Two
\* changes at once share the file that is renamed: a setting is lost, or the file is found torn.
ConfKeepsSettings ==
  [][~crossed' /\ Conf # Conf' => Conf' # Torn /\ Conf \subseteq Conf']_vars

\* Every request ends: an update gives up on what it cannot reach (fetch_with_retry,
\* fetch_bytes_progress).
RequestsEnd == \A r \in Requests : AtWork(r) ~> ~AtWork(r)
=============================================================================
