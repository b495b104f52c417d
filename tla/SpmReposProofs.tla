---------------------------- MODULE SpmReposProofs ----------------------------
(***************************************************************************)
(* What holds of SpmRepos for every set of repositories, places, packages  *)
(* and operations, however many requests there are and whatever fails:     *)
(* operations run at any time, beside one another.  What is lost when two  *)
(* administrators are at work at once is proved for as long as none have.  *)
(***************************************************************************)
EXTENDS SpmRepos, TLAPS

\* What is written to a path, and what it may hold at any moment.
Proper(x) == Holds(x[1])
Fits(x)   == Proper(x) \cup {Absent, Torn}
Contents == (UNION {Proper(x) : x \in Paths}) \cup {Absent, Torn}
Writes   == {w \in Paths \X Contents : w[2] \in Proper(w[1])}
Items(q) == {q[i] : i \in DOMAIN q}

Stages == Ended \cup Admin \cup
  {"remove", "update", "rebuild", "end", "register", "uncache", "rename", "list", "release",
   "next", "fetch", "index", "indexing"}

Shape ==
  /\ file \in [Paths -> Contents] /\ \A x \in Paths : file[x] \in Fits(x)
  /\ pc \in [Requests -> Stages]
  /\ req \in [Requests -> Operations \cup {[op |-> "update"]}]
  /\ queue \in [Requests -> Seq(Writes)] /\ half \in [Requests -> BOOLEAN]
  /\ repo \in [Requests -> (Repos \cup {None}) \X Configs]
  /\ todo \in [Requests -> SUBSET (Repos \X Configs)]
  /\ left \in [Requests -> Seq(Places \cup MetaKinds)]
  /\ tries \in [Requests -> 0 .. 2]
  /\ got \in [Requests -> SUBSET (Pkgs \cup (Repos \X Pkgs))]
  /\ offered \subseteq Sources \X Places \X (SUBSET Pkgs)
  /\ published \subseteq Sources \X Places \X Pkgs /\ crossed \in BOOLEAN
  /\ started \in 0 .. MaxStarts /\ faults \in 0 .. MaxFaults

\* Where a request may be, by what was asked for.
Staged(r) ==
  \/ pc[r] \in Ended \cup {req[r].op, "end"}
  \/ req[r].op = "create" /\ pc[r] = "register"
  \/ req[r].op = "set" /\ pc[r] = "rename"
  \/ req[r].op = "remove" /\ pc[r] = "uncache"
  \/ req[r].op = "publish" /\ pc[r] \in {"list", "release"}
  \/ req[r].op = "sign" /\ pc[r] = "release"
  \/ req[r].op = "update" /\ pc[r] \in {"next", "fetch", "index", "indexing"}
  \/ req[r].op = "rebuild" /\ pc[r] = "indexing"

\* The kinds of files that it may have to write then.
May(at, op) ==
  CASE at = "fetch"    -> {"cache"}
    [] at = "list"     -> {"archive"} \cup MetaKinds
    [] at = "register" -> {"release"} \cup MetaKinds
    [] at = "rename"   -> {"conf.tmp", "conf"}
    [] at = "end" /\ op \in {"update", "rebuild"} -> {"soname"}
    [] at = "end" /\ op \in {"add", "create"}     -> {"cfg"}
    [] at = "end" /\ op = "genkey"                -> {"key", "cfg"}
    [] at = "end" /\ op \in {"publish", "sign"}   -> SignedKinds
    [] OTHER -> {}

\* What it works on there.
Working(r) ==
  /\ pc[r] = "fetch" => repo[r][1] \in Repos /\ left[r] \in Seq(Places) /\ got[r] \subseteq Pkgs
  /\ pc[r] \in {"list", "release"} => repo[r][1] \in Repos /\ Cfg(r).url \in Places
  /\ pc[r] = "list" => Items(left[r]) \subseteq Metas(Cfg(r).source)
  /\ pc[r] = "indexing" => got[r] \subseteq Repos \X Pkgs

InOrder(r) ==
  Staged(r) /\ (\A w \in Items(queue[r]) : w[1][1] \in May(pc[r], req[r].op)) /\ Working(r)
Order == \A r \in Requests : InOrder(r)

\* Before two administrators cross there is one at a time, whose files are torn while it writes them
\* unless they are removed.
OneAdmin == ~crossed => \A r, s \in Requests :
  AtWork(r) /\ AtWork(s) /\ req[r].op \in Admin /\ req[s].op \in Admin => r = s
TornBy(r) ==
  half[r] => /\ queue[r] # <<>>
             /\ ~crossed /\ req[r].op \in Admin /\ To(r)[1] # "cfg" => file[To(r)] = Torn
HalfTorn == \A r \in Requests : TornBy(r)

TypeInv == Shape /\ Order /\ OneAdmin /\ HalfTorn

-----------------------------------------------------------------------------
(* Paths, what they hold, and the lists of the three layouts. *)

\* Every kind of path that an operation writes.
LEMMA PathKinds ==
  /\ \A n \in Repos : <<"cfg", n>> \in Paths /\ <<"key", n>> \in Paths
  /\ \A s \in Sources, n \in Repos : <<"cache", <<s, n>>>> \in Paths
  /\ \A m \in MetaKinds, p \in Places : <<m, p>> \in Paths
  /\ \A k \in SignedKinds, s \in Sources, p \in Places : <<k, <<s, p>>>> \in Paths
  /\ \A p \in Places, k \in Pkgs : <<"archive", <<p, k>>>> \in Paths
  /\ <<"soname", None>> \in Paths /\ <<"conf", None>> \in Paths /\ <<"conf.tmp", None>> \in Paths
BY DEF Paths

\* What each of them holds.
LEMMA HoldsKinds ==
  /\ Holds("cfg") = Configs /\ Holds("key") = {"pem"} /\ Holds("archive") = {"sam"}
  /\ Holds("cache") = Listings /\ \A m \in MetaKinds : Holds(m) = Listings
  /\ \A k \in SignedKinds : Holds(k) = Releases
  /\ Holds("soname") = SUBSET (Repos \X Pkgs)
  /\ Holds("conf") = SUBSET Settings /\ Holds("conf.tmp") = SUBSET Settings
<1>1. Holds("cfg") = Configs /\ Holds("key") = {"pem"} /\ Holds("archive") = {"sam"}
  BY DEF Holds, MetaKinds, SignedKinds
<1>2. Holds("cache") = Listings /\ \A m \in MetaKinds : Holds(m) = Listings
  BY DEF Holds, MetaKinds, SignedKinds
<1>3. \A k \in SignedKinds : Holds(k) = Releases
  BY DEF Holds, MetaKinds, SignedKinds
<1>4. /\ Holds("soname") = SUBSET (Repos \X Pkgs)
      /\ Holds("conf") = SUBSET Settings /\ Holds("conf.tmp") = SUBSET Settings
  BY DEF Holds, MetaKinds, SignedKinds
<1> QED BY <1>1, <1>2, <1>3, <1>4

\* Nothing whole is Absent or Torn.
LEMMA Marks ==
  /\ Absent # Torn
  /\ \A x \in Paths : Absent \notin Holds(x[1]) /\ Torn \notin Holds(x[1])
<1> SUFFICES ASSUME NEW x \in Paths PROVE Absent \notin Holds(x[1]) /\ Torn \notin Holds(x[1])
  BY MarksAssumption
<1>1. x[1] \in {"cfg", "key", "cache", "archive", "soname", "conf", "conf.tmp"} \cup MetaKinds \cup SignedKinds
  BY DEF Paths
<1>2. CASE x[1] \in {"cfg", "cache"} \cup MetaKinds \cup SignedKinds
  BY <1>2, HoldsKinds, MarksAssumption
<1>3. CASE x[1] \in {"key", "archive", "soname", "conf", "conf.tmp"}
  BY <1>3, HoldsKinds, MarksAssumption
<1> QED BY <1>1, <1>2, <1>3

\* A write may be queued if the path is one and the content is one for it.
LEMMA WriteFits ==
  /\ \A x \in Paths : Fits(x) \subseteq Contents
  /\ \A x \in Paths : \A w \in Proper(x) : <<x, w>> \in Writes
<1>1. ASSUME NEW x \in Paths PROVE Fits(x) \subseteq Contents
  <2>1. Proper(x) \in {Proper(y) : y \in Paths}
    OBVIOUS
  <2>2. Proper(x) \subseteq UNION {Proper(y) : y \in Paths}
    BY <2>1
  <2>3. Fits(x) \subseteq (UNION {Proper(y) : y \in Paths}) \cup {Absent, Torn}
    BY <2>2 DEF Fits, Proper
  <2> QED BY <2>3 DEF Contents
<1> QED BY <1>1 DEF Writes, Fits

\* The metadata files of the layouts.
LEMMA Layouts ==
  /\ \A s \in Sources : Items(ReadOf[s]) \subseteq Metas(s) /\ ReadOf[s] \in Seq(MetaKinds)
  /\ Items(ReadOf["native"]) = {} /\ Items(ReadOf["deb"]) = {"packages"}
  /\ Items(ReadOf["rpm"]) = {"primary", "filelists"}
  /\ MetaOf["native"] = <<"index">> /\ MetaOf["deb"] = <<"packages", "packages.gz">>
  /\ MetaOf["rpm"] = <<"primary", "filelists">>
  /\ PublicOf["native"] = "index" /\ PublicOf["deb"] = "packages.gz" /\ PublicOf["rpm"] = "primary"
  /\ Metas("native") = {"index"} /\ Metas("deb") = {"packages", "packages.gz"}
  /\ Metas("rpm") = {"primary", "filelists"}
  /\ \A s \in Sources : PublicOf[s] \in Metas(s) /\ Metas(s) \subseteq MetaKinds /\ MetaOf[s] \in Seq(MetaKinds)
  /\ \A s \in Sources : TriesOf[s] \in {2, 3}
<1>1. /\ MetaOf["native"] = <<"index">> /\ MetaOf["deb"] = <<"packages", "packages.gz">>
      /\ MetaOf["rpm"] = <<"primary", "filelists">>
      /\ PublicOf["native"] = "index" /\ PublicOf["deb"] = "packages.gz" /\ PublicOf["rpm"] = "primary"
  BY DEF MetaOf, PublicOf
<1>2. /\ Metas("native") = {"index"} /\ Metas("deb") = {"packages", "packages.gz"}
      /\ Metas("rpm") = {"primary", "filelists"}
  BY <1>1 DEF Metas
<1>3. ASSUME NEW s \in Sources
      PROVE  PublicOf[s] \in Metas(s) /\ Metas(s) \subseteq MetaKinds /\ MetaOf[s] \in Seq(MetaKinds)
  <2>1. /\ <<"index">> \in Seq(MetaKinds) /\ <<"packages", "packages.gz">> \in Seq(MetaKinds)
        /\ <<"primary", "filelists">> \in Seq(MetaKinds)
    BY DEF MetaKinds
  <2>2. MetaOf[s] \in Seq(MetaKinds)
    BY <1>1, <2>1 DEF Sources
  <2>3. PublicOf[s] \in Metas(s) /\ Metas(s) \subseteq MetaKinds
    <3>1. CASE s = "native"
      BY <1>1, <1>2, <3>1 DEF MetaKinds
    <3>2. CASE s = "deb"
      BY <1>1, <1>2, <3>2 DEF MetaKinds
    <3>3. CASE s = "rpm"
      BY <1>1, <1>2, <3>3 DEF MetaKinds
    <3> QED BY <3>1, <3>2, <3>3 DEF Sources
  <2> QED BY <2>2, <2>3
<1>4. \A s \in Sources : TriesOf[s] \in {2, 3}
  BY DEF TriesOf, Sources
<1>5. /\ Items(ReadOf["native"]) = {} /\ Items(ReadOf["deb"]) = {"packages"}
      /\ Items(ReadOf["rpm"]) = {"primary", "filelists"}
  <2>1. /\ ReadOf["native"] = <<>> /\ ReadOf["deb"] = <<"packages">>
        /\ ReadOf["rpm"] = <<"primary", "filelists">>
    BY DEF ReadOf
  <2> QED BY <2>1 DEF Items
<1>6. ASSUME NEW s \in Sources PROVE ReadOf[s] \in Seq(MetaKinds)
  <2>1. <<>> \in Seq(MetaKinds) /\ <<"packages">> \in Seq(MetaKinds) /\ <<"primary", "filelists">> \in Seq(MetaKinds)
    BY DEF MetaKinds
  <2>2. /\ ReadOf["native"] = <<>> /\ ReadOf["deb"] = <<"packages">>
        /\ ReadOf["rpm"] = <<"primary", "filelists">>
    BY DEF ReadOf
  <2> QED BY <2>1, <2>2 DEF Sources
<1>7. ASSUME NEW s \in Sources PROVE Items(ReadOf[s]) \subseteq Metas(s)
  BY <1>2, <1>5 DEF Sources
<1> QED BY <1>1, <1>2, <1>3, <1>4, <1>5, <1>6, <1>7

-----------------------------------------------------------------------------
(* Sequences by what is in them. *)

LEMMA SeqItems ==
  ASSUME NEW S, NEW q \in Seq(S)
  PROVE  /\ Items(q) \subseteq S
         /\ q # <<>> => /\ Head(q) \in Items(q) /\ Head(q) \in S
                        /\ Tail(q) \in Seq(S) /\ Items(Tail(q)) \subseteq Items(q)
                        /\ Items(q) \subseteq Items(Tail(q)) \cup {Head(q)}
<1>1. Items(q) \subseteq S
  BY DEF Items
<1>2. ASSUME q # <<>>
      PROVE  /\ Head(q) \in Items(q) /\ Head(q) \in S
             /\ Tail(q) \in Seq(S) /\ Items(Tail(q)) \subseteq Items(q)
             /\ Items(q) \subseteq Items(Tail(q)) \cup {Head(q)}
  <2>1. DOMAIN q = 1 .. Len(q) /\ Len(q) \in Nat /\ Len(q) >= 1 /\ Head(q) = q[1]
    BY <1>2
  <2>2. Tail(q) \in Seq(S) /\ Len(Tail(q)) = Len(q) - 1 /\ DOMAIN Tail(q) = 1 .. Len(q) - 1
    BY <1>2
  <2>3. \A i \in 1 .. Len(q) - 1 : Tail(q)[i] = q[i + 1]
    BY <1>2
  <2>4. \A i \in DOMAIN q : i = 1 \/ (i - 1 \in DOMAIN Tail(q) /\ Tail(q)[i - 1] = q[i])
    BY <2>1, <2>2, <2>3
  <2>5. \A i \in DOMAIN Tail(q) : i + 1 \in DOMAIN q /\ Tail(q)[i] = q[i + 1]
    BY <2>1, <2>2, <2>3
  <2>6. Head(q) \in Items(q)
    BY <2>1 DEF Items
  <2>7. Items(Tail(q)) \subseteq Items(q)
    BY <2>5 DEF Items
  <2>8. Items(q) \subseteq Items(Tail(q)) \cup {Head(q)}
    BY <2>1, <2>4 DEF Items
  <2> QED BY <2>2, <2>6, <2>7, <2>8, <1>1
<1> QED BY <1>1, <1>2

LEMMA ShortItems ==
  /\ Items(<<>>) = {}
  /\ \A a : Items(<<a>>) = {a}
  /\ \A a, b : Items(<<a, b>>) = {a, b}
<1>1. Items(<<>>) = {}
  BY DEF Items
<1>2. ASSUME NEW a PROVE Items(<<a>>) = {a}
  BY DEF Items
<1>3. ASSUME NEW a, NEW b PROVE Items(<<a, b>>) = {a, b}
  BY DEF Items
<1> QED BY <1>1, <1>2, <1>3

LEMMA JoinedItems ==
  ASSUME NEW S, NEW a \in Seq(S), NEW b \in Seq(S)
  PROVE  a \o b \in Seq(S) /\ Items(a \o b) \subseteq Items(a) \cup Items(b)
<1>1. a \o b \in Seq(S) /\ DOMAIN (a \o b) = 1 .. Len(a) + Len(b) /\ Len(a) \in Nat /\ Len(b) \in Nat
  OBVIOUS
<1>2. \A i \in 1 .. Len(a) + Len(b) : \/ i \in DOMAIN a /\ (a \o b)[i] = a[i]
                                      \/ i - Len(a) \in DOMAIN b /\ (a \o b)[i] = b[i - Len(a)]
  OBVIOUS
<1> QED BY <1>1, <1>2 DEF Items
-----------------------------------------------------------------------------
(* What the properties need besides. *)

\* A package is queued for a list, or will be, only when its archive is there, or is what goes first.
Copying(r) == /\ pc[r] = "list" /\ queue[r] # <<>> /\ ~half[r]
              /\ To(r) = <<"archive", <<Cfg(r).url, req[r].pkg>>>>
BackedBy(r) ==
  /\ \A w \in Items(queue[r]) : w[1][1] \in MetaKinds =>
       \A k \in w[2].pkgs :
         \/ file[<<"archive", <<w[1][2], k>>>>] # Absent
         \/ Copying(r) /\ w[1][2] = Cfg(r).url /\ k = req[r].pkg
  /\ pc[r] = "list" => file[<<"archive", <<Cfg(r).url, req[r].pkg>>>>] # Absent \/ Copying(r)
Backed == Archived(file) /\ \A r \in Requests : BackedBy(r)

\* spm.conf is whole, and so is what will be renamed to it, with one setting more.
Renaming(r) == pc[r] = "rename" =>
  LET new == Conf \cup {req[r].setting}
  IN  IF queue[r] = <<>> THEN file[<<"conf.tmp", None>>] = new
      ELSE queue[r] = <<<<<<"conf.tmp", None>>, new>>>>
ConfWhole == Conf # Torn /\ \A r \in Requests : Renaming(r)

\* What an update reads of is known: the places of a repository are those that its name has had.
\* A repository that was created here is not fetched.
Known(n, c) == \/ c.local /\ c.mirrors = <<>>
               \/ {c.url} \cup Items(c.mirrors) \subseteq PlacesOf(n)
ListsOf(s, n, offers) == {x[3] : x \in {y \in offers : y[1] = s /\ y[2] \in PlacesOf(n)}}
SourcedBy(r) ==
  /\ \A w \in Items(queue[r]) :
       /\ w[1][1] = "cfg" => Known(w[1][2], w[2])
       /\ \A s \in Sources, n \in Repos : w[1] = <<"cache", <<s, n>>>> => WasServed(s, n, w[2], offered)
  /\ \A x \in todo[r] : Known(x[1], x[2])
  /\ pc[r] = "fetch" =>
       /\ (Cfg(r).local /\ Cfg(r).source # "deb") \/ Items(left[r]) \subseteq PlacesOf(repo[r][1])
       /\ IF Cfg(r).source = "rpm"
          THEN got[r] = UNION {l \in ListsOf("rpm", repo[r][1], offered) : l \subseteq got[r]}
          ELSE got[r] = {}
Sourced ==
  /\ Offers(file) \subseteq offered /\ CachesServed(file, offered)
  /\ \A n \in Repos : file[<<"cfg", n>>] \in Configs => Known(n, file[<<"cfg", n>>])
  /\ \A r \in Requests : SourcedBy(r)

\* A list has package k, unless it is torn, absent or takes none.
Keeps(w, k) == w \in Listings /\ w.open => k \in w.pkgs

\* The lists that a publication has yet to decide on; Packages.gz goes with Packages.
Pending(r) == Items(left[r]) \cup {m \in {"packages.gz"} : "packages" \in Items(left[r])}

\* What was published is in every list of its layout, in those to be written too; and what is being
\* published in those that are written.
Listed ==
  /\ faults = 0 => \A m \in MetaKinds, p \in Places : file[<<m, p>>] = Torn =>
       \E r \in Requests : half[r] /\ To(r) = <<m, p>>
  /\ \A x \in published : (x[1] = "deb" => faults = 0) => \A m \in Metas(x[1]) :
       /\ Keeps(file[<<m, x[2]>>], x[3])
       /\ x[1] = "deb" => file[<<m, x[2]>>] # Absent
       /\ \A r \in Requests : \A w \in Items(queue[r]) : w[1] = <<m, x[2]>> => Keeps(w[2], x[3])
  /\ \A r \in Requests : pc[r] = "list" =>
       \A m \in Metas(Cfg(r).source) : LET x == <<m, Cfg(r).url>> IN
         /\ \A w \in Items(queue[r]) : w[1] = x => Keeps(w[2], req[r].pkg)
         /\ \/ m \in Pending(r)
            \/ \E w \in Items(queue[r]) : w[1] = x
            \/ Keeps(file[x], req[r].pkg) /\ file[x] # Absent

\* The Release and its signature, to be written or written, are of the lists as they are.
\* One may name an earlier signature besides.
SignedWith(r, old) ==
  LET s == Cfg(r).source  p == Cfg(r).url  now == ReleaseOf(s, p, old)
      rel == <<"release", <<s, p>>>>  sig == <<"sig", <<s, p>>>>
  IN  /\ s \in Sources /\ p \in Places /\ (s # "deb" => old = {})
      /\ \/ queue[r] = <<<<rel, now>>, <<sig, now>>>>
         \/ queue[r] = <<<<sig, now>>>> /\ file[rel] = now
         \/ queue[r] = <<>> /\ file[rel] = now /\ file[sig] = now
SigningBy(r) == pc[r] = "end" /\ req[r].op \in {"publish", "sign"} =>
  \E old \in SUBSET {"sig"} : SignedWith(r, old)
Signing == \A r \in Requests : SigningBy(r)
-----------------------------------------------------------------------------
(* What a step may change. *)

\* The fields of what is asked for, and of a configuration.
LEMMA OperationFields ==
  ASSUME NEW q \in Operations \cup {[op |-> "update"]}
  PROVE  /\ q.op \in Admin \cup {"remove", "update", "rebuild"}
         /\ q.op \in {"add", "create", "publish", "remove", "genkey", "sign"} => q.name \in Repos
         /\ q.op = "add" => q.cfg \in Configs
         /\ q.op = "create" => q.source \in Sources /\ q.place \in Places
         /\ q.op = "publish" => q.pkg \in Pkgs
         /\ q.op = "set" => q.setting \in Settings
BY OperationsAssumption DEF Admin

LEMMA ConfigFields ==
  ASSUME NEW c \in Configs
  PROVE  /\ c.source \in Sources /\ c.url \in Places \cup {None} /\ c.local \in BOOLEAN
         /\ c.mirrors \in Seq(Places) /\ c.dists \in BOOLEAN /\ c.key \in BOOLEAN
         /\ Urls(c) \in Seq(Places)
<1>1. /\ c.source \in Sources /\ c.url \in Places \cup {None} /\ c.local \in BOOLEAN
      /\ c.mirrors \in {<<>>} \cup {<<p>> : p \in Places} \cup Places \X Places
      /\ c.dists \in BOOLEAN /\ c.key \in BOOLEAN
  BY DEF Configs
<1>2. c.mirrors \in Seq(Places)
  <2>1. CASE c.mirrors \in {<<p>> : p \in Places}
    <3>1. PICK p \in Places : c.mirrors = <<p>>
      BY <2>1
    <3> QED BY <3>1
  <2>2. CASE c.mirrors \in Places \X Places
    <3>1. PICK p, q \in Places : c.mirrors = <<p, q>>
      BY <2>2
    <3> QED BY <3>1
  <2>3. CASE c.mirrors = <<>>
    BY <2>3
  <2> QED BY <1>1, <2>1, <2>2, <2>3
<1>3. Urls(c) \in Seq(Places)
  <2>1. c.url # None => <<c.url>> \in Seq(Places)
    BY <1>1
  <2> QED BY <1>2, <2>1 DEF Urls
<1> QED BY <1>1, <1>2, <1>3

LEMMA MadeConfigs ==
  /\ NoCfg \in Configs
  /\ \A s \in Sources, p \in Places :
       [NoCfg EXCEPT !.source = s, !.url = p, !.local = TRUE] \in Configs
  /\ \A c \in Configs : [c EXCEPT !.key = TRUE] \in Configs
BY DEF NoCfg, Configs, Sources

\* A request changes nothing of another one, and of the files those that it has queued, and besides
\* the configuration and the cache (remove, update) and spm.conf (set).
LEMMA Others ==
  ASSUME Shape, NEW r \in Requests, Step(r)
  PROVE  /\ UNCHANGED <<req, started, crossed>>
         /\ \A s \in Requests \ {r} :
              /\ pc'[s] = pc[s] /\ repo'[s] = repo[s]
              /\ todo'[s] = todo[s] /\ left'[s] = left[s] /\ got'[s] = got[s]
              /\ ~Rename(r) => queue'[s] = queue[s] /\ half'[s] = half[s]
<1> USE DEF Shape, locals, history, bounds, Goto, Enqueue, Fault, Fail, Skip
<1>1. CASE Truncate(r) \/ Fill(r) \/ WriteFails(r) \/ End(r)
  BY <1>1 DEF Truncate, Fill, WriteFails, End
<1>2. CASE Add(r) \/ Create(r) \/ Register(r) \/ Remove(r) \/ Uncache(r) \/ GenKey(r) \/ SetConf(r) \/ Rename(r) \/ LoadFails(r)
  BY <1>2 DEF Add, Create, Register, Remove, Uncache, GenKey, SetConf, Rename, LoadFails
<1>3. CASE Publish(r) \/ List(r) \/ Published(r) \/ Sign(r) \/ WriteRelease(r)
  BY <1>3 DEF Publish, List, WriteList, Published, Sign, WriteRelease
<1>4. CASE Update(r)
  BY <1>4 DEF Update
<1>6. CASE NextRepo(r)
  <2>1. CASE todo[r] = {}
    BY <1>6, <2>1 DEF NextRepo
  <2>2. CASE todo[r] # {}
    <3>1. PICK x \in todo[r] : /\ todo' = [todo EXCEPT ![r] = @ \ {x}] /\ repo' = [repo EXCEPT ![r] = x]
                               /\ left' = [left EXCEPT ![r] = Urls(x[2])]
                               /\ got' = [got EXCEPT ![r] = {}]
      BY <1>6, <2>2 DEF NextRepo
    <3>2. /\ \E l : Goto(r, l)
          /\ UNCHANGED <<req, queue, half, started, crossed>>
      BY <1>6, <2>2 DEF NextRepo
    <3> QED BY <3>1, <3>2
  <2> QED BY <2>1, <2>2
<1>7. CASE Fetch(r)
  BY <1>7 DEF Fetch
<1>8. CASE FetchFails(r)
  BY <1>8 DEF FetchFails
<1>9. CASE Fetched(r)
  BY <1>9 DEF Fetched
<1>5. CASE Index(r) \/ IndexRepo(r) \/ SaveIndex(r)
  BY <1>5 DEF Index, IndexRepo, SaveIndex
<1> QED BY <1>1, <1>2, <1>3, <1>4, <1>5, <1>6, <1>7, <1>8, <1>9 DEF Step, Administer, Refresh
LEMMA Touched ==
  ASSUME Shape, NEW r \in Requests, Step(r), NEW x \in Paths
  PROVE  \/ file'[x] = file[x]
         \/ queue[r] # <<>> /\ x = To(r)
         \/ x[1] \in {"cfg", "cache"} /\ pc[r] \in {"remove", "uncache", "next"} /\ queue[r] = <<>>
         \/ x[1] \in {"conf", "conf.tmp"} /\ Rename(r)
<1> USE DEF Shape, locals, history, bounds, Goto, Enqueue, Fault, Fail, Skip, At
<1>1. CASE Truncate(r)
  BY <1>1 DEF Truncate
<1>2. CASE Fill(r)
  BY <1>2 DEF Fill
<1>3. CASE Remove(r)
  BY <1>3, PathKinds DEF Remove
<1>4. CASE Uncache(r)
  BY <1>4 DEF Uncache
<1>5. CASE Rename(r)
  BY <1>5 DEF Rename
<1>6. CASE NextRepo(r)
  <2>1. file' = file \/ \E y \in todo[r] :
          file' = [file EXCEPT ![<<"cache", <<y[2].source, y[1]>>>>] = [Empty EXCEPT !.open = FALSE]]
    BY <1>6 DEF NextRepo
  <2>2. pc[r] = "next" /\ queue[r] = <<>>
    BY <1>6 DEF NextRepo
  <2>3. ASSUME NEW a, file' = [file EXCEPT ![<<"cache", a>>] = [Empty EXCEPT !.open = FALSE]]
        PROVE  file'[x] = file[x] \/ x[1] = "cache"
    BY <2>3
  <2> QED BY <2>1, <2>2, <2>3
<1>7. CASE WriteFails(r) \/ End(r) \/ Add(r) \/ Create(r) \/ Register(r) \/ GenKey(r) \/ SetConf(r)
  BY <1>7 DEF WriteFails, End, Add, Create, Register, GenKey, SetConf
<1>8. CASE Publish(r) \/ List(r) \/ Published(r) \/ Sign(r) \/ WriteRelease(r) \/ LoadFails(r)
  BY <1>8 DEF LoadFails, Publish, List, WriteList, Published, Sign, WriteRelease
<1>9. CASE Update(r) \/ Fetch(r) \/ FetchFails(r) \/ Fetched(r)
  BY <1>9 DEF Update, Fetch, FetchFails, Fetched
<1>10. CASE Index(r) \/ IndexRepo(r) \/ SaveIndex(r)
  BY <1>10 DEF Index, IndexRepo, SaveIndex
<1> QED BY <1>1, <1>2, <1>3, <1>4, <1>5, <1>6, <1>7, <1>8, <1>9, <1>10 DEF Step, Administer, Refresh

\* Only a request that is at work takes a step, and only one that is at work has something to write.
LEMMA Working1 ==
  ASSUME Shape, Order, NEW r \in Requests
  PROVE  /\ Step(r) => AtWork(r)
         /\ queue[r] # <<>> => AtWork(r) /\ Head(queue[r]) \in Items(queue[r])
                               /\ To(r) \in Paths /\ To(r)[1] \in May(pc[r], req[r].op)
                               /\ Is(r) \in Proper(To(r))
<1>1. ASSUME queue[r] # <<>>
      PROVE  /\ AtWork(r) /\ Head(queue[r]) \in Items(queue[r])
             /\ To(r) \in Paths /\ To(r)[1] \in May(pc[r], req[r].op) /\ Is(r) \in Proper(To(r))
  <2>1. Head(queue[r]) \in Items(queue[r]) /\ Head(queue[r]) \in Writes
    BY <1>1, SeqItems DEF Shape
  <2>2. To(r)[1] \in May(pc[r], req[r].op)
    BY <2>1 DEF Order, InOrder, To
  <2>3. AtWork(r)
    BY <2>2 DEF May, AtWork, Ended
  <2>4. To(r) \in Paths /\ Is(r) \in Proper(To(r))
    BY <2>1 DEF Writes, To, Is
  <2> QED BY <2>1, <2>2, <2>3, <2>4
<1>2. ASSUME Step(r), queue[r] = <<>> PROVE AtWork(r)
  <2>1. pc[r] \notin Ended
    BY <1>2 DEF Step, Administer, Refresh, Truncate, Fill, WriteFails, End, Add, Create, Register,
       Remove, Uncache, GenKey, SetConf, Rename, LoadFails, Publish, List, Published, Sign, WriteRelease,
       Update, NextRepo, Fetch, FetchFails, Fetched, Index, IndexRepo, SaveIndex, At, Ended
  <2> QED BY <2>1 DEF AtWork
<1> QED BY <1>1, <1>2

\* While an administrator is at work, nobody else touches the files that it writes, except for
\* configurations.
LEMMA Undisturbed ==
  ASSUME TypeInv, ~crossed, NEW r \in Requests, Step(r), NEW s \in Requests \ {r},
         AtWork(s), req[s].op \in Admin, NEW x \in Paths, x[1] \notin {"cfg", "cache", "soname"}
  PROVE  file'[x] = file[x]
<1>1. AtWork(r)
  BY Working1 DEF TypeInv
<1>2. req[r].op \notin Admin
  BY <1>1 DEF TypeInv, OneAdmin
<1>3. req[r].op \in {"remove", "update", "rebuild"}
  BY <1>2, OperationFields DEF TypeInv, Shape
<1>4. Staged(r)
  BY DEF TypeInv, Order, InOrder
<1>5. queue[r] # <<>> => To(r)[1] \in {"cache", "soname"}
  <2>1. queue[r] # <<>> => To(r)[1] \in May(pc[r], req[r].op)
    BY Working1 DEF TypeInv
  <2>2. May(pc[r], req[r].op) \subseteq {"cache", "soname"}
    BY <1>3, <1>4 DEF Staged, May, Ended
  <2> QED BY <2>1, <2>2
<1>6. ~Rename(r)
  BY <1>3, <1>4 DEF Staged, Ended, Rename, At
<1> QED BY <1>5, <1>6, Touched DEF TypeInv
-----------------------------------------------------------------------------
(* What is read and what is queued has the shape of its file. *)

LEMMA OneWrite ==
  ASSUME NEW x \in Paths, NEW w \in Proper(x)
  PROVE  <<<<x, w>>>> \in Seq(Writes) /\ Items(<<<<x, w>>>>) = {<<x, w>>}
BY WriteFits, ShortItems

LEMMA TwoWrites ==
  ASSUME NEW x \in Paths, NEW w \in Proper(x), NEW y \in Paths, NEW v \in Proper(y)
  PROVE  /\ <<<<x, w>>, <<y, v>>>> \in Seq(Writes)
         /\ Items(<<<<x, w>>, <<y, v>>>>) = {<<x, w>>, <<y, v>>}
BY WriteFits, ShortItems

LEMMA OfferIs ==
  ASSUME NEW f
  PROVE  \A y : y \in Offers(f) <=>
           \E s \in Sources, p \in Places :
             f[<<PublicOf[s], p>>] \in Listings /\ y = <<s, p, f[<<PublicOf[s], p>>].pkgs>>
<1> DEFINE at(s) == {q \in Places : f[<<PublicOf[s], q>>] \in Listings}
           from(s) == {<<s, p, f[<<PublicOf[s], p>>].pkgs>> : p \in at(s)}
<1>1. Offers(f) = UNION {from(s) : s \in Sources}
  BY DEF Offers
<1>2. ASSUME NEW y, NEW s \in Sources
      PROVE  y \in from(s) <=> \E p \in Places :
               f[<<PublicOf[s], p>>] \in Listings /\ y = <<s, p, f[<<PublicOf[s], p>>].pkgs>>
  OBVIOUS
<1> HIDE DEF from
<1>3. \A y : y \in Offers(f) <=> \E s \in Sources : y \in from(s)
  BY <1>1
<1> QED BY <1>2, <1>3, SMTT(30)

LEMMA OffersShape ==
  ASSUME NEW f PROVE Offers(f) \subseteq Sources \X Places \X (SUBSET Pkgs)
<1> SUFFICES ASSUME NEW y \in Offers(f) PROVE y \in Sources \X Places \X (SUBSET Pkgs)
  OBVIOUS
<1>1. PICK s \in Sources, p \in Places :
        f[<<PublicOf[s], p>>] \in Listings /\ y = <<s, p, f[<<PublicOf[s], p>>].pkgs>>
  BY OfferIs
<1>2. f[<<PublicOf[s], p>>].pkgs \in SUBSET Pkgs
  BY <1>1 DEF Listings
<1> QED BY <1>1, <1>2

\* What a file of a kind holds when it is neither absent nor torn.
LEMMA Whole ==
  ASSUME Shape, NEW x \in Paths
  PROVE  /\ file[x] \in Fits(x)
         /\ file[x] # Absent /\ file[x] # Torn => file[x] \in Holds(x[1])
         /\ x[1] = "cfg" /\ file[x] \in Configs => file[x] # Absent /\ file[x] # Torn
         /\ file[x] \in Listings => file[x] # Absent /\ file[x] # Torn
BY MarksAssumption DEF Shape, Fits, Proper

LEMMA LoadedConfigs ==
  ASSUME Shape
  PROVE  /\ Loaded \subseteq Repos /\ \A n \in Loaded : file[<<"cfg", n>>] \in Configs
         /\ Configured \in SUBSET (Repos \X Configs)
         /\ \A x \in Configured : x[2] = file[<<"cfg", x[1]>>] /\ x[1] \in Loaded
<1>1. Loaded \subseteq Repos /\ \A n \in Loaded : file[<<"cfg", n>>] \in Configs
  BY DEF Loaded
<1>2. \A x \in Configured : \E n \in Loaded : x = <<n, file[<<"cfg", n>>]>>
  BY DEF Configured
<1>3. ASSUME NEW x \in Configured
      PROVE  x[2] = file[<<"cfg", x[1]>>] /\ x[1] \in Loaded /\ x \in Repos \X Configs
  <2>1. PICK n \in Loaded : x = <<n, file[<<"cfg", n>>]>>
    BY <1>2
  <2>2. n \in Repos /\ file[<<"cfg", n>>] \in Configs
    BY <1>1
  <2> QED BY <2>1, <2>2
<1> QED BY <1>1, <1>3

LEMMA Reads ==
  ASSUME Shape, NEW p \in Places, NEW m \in MetaKinds
  PROVE  Read(m, p) \subseteq Listings
<1>1. <<m, p>> \in Paths /\ Holds(m) = Listings
  BY PathKinds, HoldsKinds
<1>2. file[<<m, p>>] \in Listings \cup {Absent, Torn}
  BY <1>1 DEF Shape, Fits, Proper
<1>3. Empty \in Listings /\ [Empty EXCEPT !.open = FALSE] \in Listings
      /\ \A ks \in SUBSET Pkgs : [Empty EXCEPT !.pkgs = ks] \in Listings
  BY DEF Empty, Listings
<1>4. CASE m = "packages"
  <2>1. ReadPackages(p) \subseteq Listings
    <3>1. <<"packages", p>> \in Paths /\ file[<<"packages", p>>] \in Listings \cup {Absent, Torn}
      BY PathKinds, HoldsKinds DEF Shape, Fits, Proper, MetaKinds
    <3> QED BY <3>1, <1>3 DEF ReadPackages
  <2> QED BY <1>4, <2>1 DEF Read
<1>5. CASE m # "packages"
  <2>1. ReadRpm(m, p) \subseteq Listings
    BY <1>2, <1>3 DEF ReadRpm
  <2> QED BY <2>1, <1>5 DEF Read
<1> QED BY <1>4, <1>5

LEMMA Added ==
  ASSUME NEW l \in Listings, NEW k \in Pkgs
  PROVE  /\ Extended(l, k) \in Listings /\ [l EXCEPT !.open = TRUE] \in Listings
         /\ Extended(l, k).pkgs \subseteq l.pkgs \cup {k} /\ Extended(l, k).open = l.open
         /\ l.pkgs \subseteq Extended(l, k).pkgs /\ (l.open => k \in Extended(l, k).pkgs)
BY DEF Listings, Extended

\* What is signed: the lists there are, and perhaps an entry for an earlier signature.
LEMMA EarlierIs ==
  ASSUME NEW s, NEW p
  PROVE  Earlier(s, p) \in SUBSET {"sig"} /\ (s # "deb" => Earlier(s, p) = {})
BY DEF Earlier

LEMMA ReleaseShape ==
  ASSUME Shape, NEW s \in Sources, NEW p \in Places, NEW old \in SUBSET {"sig"}
  PROVE  ReleaseOf(s, p, old) \in Releases
<1>1. Present(s, p) \in SUBSET MetaKinds
  BY Layouts DEF Present
<1>2. ASSUME NEW m \in Present(s, p) PROVE file[<<m, p>>] \in Listings \cup {Torn}
  <2>1. m \in MetaKinds /\ file[<<m, p>>] # Absent
    BY <1>1 DEF Present
  <2>2. <<m, p>> \in Paths /\ Holds(m) = Listings
    BY <2>1, PathKinds, HoldsKinds
  <2> QED BY <2>1, <2>2 DEF Shape, Fits, Proper
<1> DEFINE ms == Present(s, p) \cup old
<1>3. ReleaseOf(s, p, old) \in [ms -> Listings \cup {Torn}]
  BY <1>2 DEF ReleaseOf
<1>4. ms \in SUBSET (MetaKinds \cup {"sig"})
  BY <1>1
<1> HIDE DEF ms
<1> QED BY <1>3, <1>4 DEF Releases

LEMMA MadeShape ==
  ASSUME NEW s \in Sources, NEW p \in Places
  PROVE  /\ Made(s, p) \in Seq(Writes)
         /\ \A w \in Items(Made(s, p)) : w[1] \in (Metas(s) \X {p}) \cup {<<"release", <<"rpm", p>>>>}
         /\ \A w \in Items(Made(s, p)) :
              w[1][1] \in MetaKinds => w[2] \in Listings /\ w[2].pkgs = {} /\ (s # "rpm" => w[2].open)
                                       /\ (s = "rpm" => ~w[2].open)
                                       /\ (s # "native" => file[w[1]] = Absent)
<1>1. Empty \in Listings /\ [pkgs |-> {}, open |-> FALSE] \in Listings
      /\ Empty.pkgs = {} /\ Empty.open
  BY DEF Empty, Listings
<1>2. [m \in {} |-> Torn] \in Releases
  BY ZenonT(40) DEF Releases
<1>3. ASSUME NEW x \in Paths, NEW w \in Proper(x)
      PROVE  /\ Unless(x, w) \in Seq(Writes) /\ Items(Unless(x, w)) \subseteq {<<x, w>>}
             /\ file[x] # Absent => Items(Unless(x, w)) = {}
  BY OneWrite, ShortItems DEF Unless
<1>4. /\ \A m \in MetaKinds : /\ <<m, p>> \in Paths /\ Empty \in Proper(<<m, p>>)
                              /\ [pkgs |-> {}, open |-> FALSE] \in Proper(<<m, p>>)
      /\ <<"release", <<"rpm", p>>>> \in Paths
      /\ [m \in {} |-> Torn] \in Proper(<<"release", <<"rpm", p>>>>)
  BY <1>1, <1>2, PathKinds, HoldsKinds DEF Fits, Proper, SignedKinds, Sources
<1>5. /\ "release" \notin MetaKinds /\ "index" \in MetaKinds
      /\ "packages" \in MetaKinds /\ "packages.gz" \in MetaKinds
      /\ "primary" \in MetaKinds /\ "filelists" \in MetaKinds
  BY DEF MetaKinds
<1> DEFINE To1(w) == w[1] \in (Metas(s) \X {p}) \cup {<<"release", <<"rpm", p>>>>}
           List1(w) == w[1][1] \in MetaKinds =>
                         /\ w[2] \in Listings /\ w[2].pkgs = {} /\ (s # "rpm" => w[2].open)
                         /\ (s = "rpm" => ~w[2].open) /\ (s # "native" => file[w[1]] = Absent)
<1>6. CASE s = "native"
  <2>1. Made(s, p) = <<<<<<"index", p>>, Empty>>>>
    BY <1>6 DEF Made
  <2>2. <<"index", p>> \in Paths /\ Empty \in Proper(<<"index", p>>)
    BY <1>4, <1>5
  <2>3. Made(s, p) \in Seq(Writes) /\ Items(Made(s, p)) = {<<<<"index", p>>, Empty>>}
    BY <2>1, <2>2, OneWrite
  <2>4. To1(<<<<"index", p>>, Empty>>) /\ List1(<<<<"index", p>>, Empty>>)
    BY <1>1, <1>6, Layouts
  <2> QED BY <2>3, <2>4
<1>7. CASE s = "deb"
  <2> DEFINE a == Unless(<<"packages", p>>, Empty)
             b == Unless(<<"packages.gz", p>>, Empty)
  <2>1. Made(s, p) = a \o b
    BY <1>7 DEF Made
  <2>2. /\ a \in Seq(Writes) /\ b \in Seq(Writes)
        /\ Items(a) \subseteq {<<<<"packages", p>>, Empty>>}
        /\ Items(b) \subseteq {<<<<"packages.gz", p>>, Empty>>}
        /\ file[<<"packages", p>>] # Absent => Items(a) = {}
        /\ file[<<"packages.gz", p>>] # Absent => Items(b) = {}
    BY <1>3, <1>4, <1>5
  <2> HIDE DEF a, b
  <2>3. Made(s, p) \in Seq(Writes) /\ Items(Made(s, p)) \subseteq Items(a) \cup Items(b)
    BY <2>1, <2>2, JoinedItems
  <2>4. /\ \A w \in Items(a) : w = <<<<"packages", p>>, Empty>> /\ file[<<"packages", p>>] = Absent
        /\ \A w \in Items(b) : w = <<<<"packages.gz", p>>, Empty>> /\ file[<<"packages.gz", p>>] = Absent
    BY <2>2
  <2>6. <<"packages", p>> \in Metas(s) \X {p} /\ <<"packages.gz", p>> \in Metas(s) \X {p}
    BY <1>7, Layouts
  <2>7. \A w \in Items(a) : To1(w) /\ List1(w)
    BY <2>4, <2>6, <1>1, <1>7
  <2>8. \A w \in Items(b) : To1(w) /\ List1(w)
    BY <2>4, <2>6, <1>1, <1>7
  <2>5. \A w \in Items(a) \cup Items(b) : To1(w) /\ List1(w)
    BY <2>7, <2>8
  <2> QED BY <2>3, <2>5
<1>8. CASE s = "rpm"
  <2> DEFINE none == [pkgs |-> {}, open |-> FALSE]
             nothing == [m \in {} |-> Torn]
             a == Unless(<<"release", <<"rpm", p>>>>, nothing)
             b == Unless(<<"primary", p>>, none)
             c == Unless(<<"filelists", p>>, none)
  <2>1. Made(s, p) = (a \o b) \o c
    BY <1>8 DEF Made
  <2>2. /\ a \in Seq(Writes) /\ b \in Seq(Writes) /\ c \in Seq(Writes)
        /\ Items(a) \subseteq {<<<<"release", <<"rpm", p>>>>, nothing>>}
        /\ Items(b) \subseteq {<<<<"primary", p>>, none>>} /\ Items(c) \subseteq {<<<<"filelists", p>>, none>>}
        /\ file[<<"primary", p>>] # Absent => Items(b) = {}
        /\ file[<<"filelists", p>>] # Absent => Items(c) = {}
    BY <1>3, <1>4, <1>5
  <2>3. none \in Listings /\ none.pkgs = {} /\ ~none.open
    BY <1>1
  <2> HIDE DEF a, b, c, none, nothing
  <2> DEFINE ab == a \o b
  <2>4. ab \in Seq(Writes) /\ Items(ab) \subseteq Items(a) \cup Items(b)
    BY <2>2, JoinedItems
  <2>7. Made(s, p) = ab \o c
    BY <2>1
  <2> HIDE DEF ab
  <2>8. Made(s, p) \in Seq(Writes) /\ Items(Made(s, p)) \subseteq Items(ab) \cup Items(c)
    BY <2>2, <2>4, <2>7, JoinedItems
  <2>5. Made(s, p) \in Seq(Writes) /\ Items(Made(s, p)) \subseteq Items(a) \cup Items(b) \cup Items(c)
    BY <2>4, <2>8
  <2>6. /\ \A w \in Items(a) : w = <<<<"release", <<"rpm", p>>>>, nothing>>
        /\ \A w \in Items(b) : w = <<<<"primary", p>>, none>> /\ file[<<"primary", p>>] = Absent
        /\ \A w \in Items(c) : w = <<<<"filelists", p>>, none>> /\ file[<<"filelists", p>>] = Absent
    BY <2>2
  <2>9. \A w \in Items(a) : To1(w) /\ List1(w)
    BY <2>6, <1>5
  <2>10. <<"primary", p>> \in Metas(s) \X {p} /\ <<"filelists", p>> \in Metas(s) \X {p}
    BY <1>8, Layouts
  <2>11. \A w \in Items(b) : To1(w) /\ List1(w)
    BY <2>6, <2>3, <2>10, <1>8
  <2>12. \A w \in Items(c) : To1(w) /\ List1(w)
    BY <2>6, <2>3, <2>10, <1>8
  <2> QED BY <2>5, <2>9, <2>11, <2>12
<1> QED BY <1>6, <1>7, <1>8 DEF Sources
-----------------------------------------------------------------------------
(* A step keeps the types and what the request itself works on, one action after the other. *)

\* What is known of a request that has nothing to write.
LEMMA Idle ==
  ASSUME TypeInv, NEW r \in Requests, queue[r] = <<>>
  PROVE  /\ half[r] = FALSE /\ Items(queue[r]) = {}
         /\ pc[r] \in {"add", "create", "publish", "genkey", "sign", "set", "remove", "update", "rebuild"}
              => req[r].op = pc[r]
         /\ pc[r] = "register" => req[r].op = "create"
         /\ pc[r] = "rename" => req[r].op = "set"
         /\ pc[r] = "uncache" => req[r].op = "remove"
         /\ pc[r] = "list" => req[r].op = "publish"
         /\ pc[r] = "release" => req[r].op \in {"publish", "sign"}
         /\ pc[r] \in {"next", "fetch", "index"} => req[r].op = "update"
         /\ pc[r] = "indexing" => req[r].op \in {"update", "rebuild"}
<1>1. half[r] = FALSE /\ Items(queue[r]) = {}
  BY ShortItems DEF TypeInv, Shape, HalfTorn, TornBy
<1>2. Staged(r)
  BY DEF TypeInv, Order, InOrder
<1>3. req[r].op \in Admin \cup {"remove", "update", "rebuild"}
  BY OperationFields DEF TypeInv, Shape
<1> QED BY <1>1, <1>2, <1>3 DEF Staged, Ended, Admin

\* An operation that ends, or fails, with nothing to write.
LEMMA QuitTypes ==
  ASSUME TypeInv, NEW r \in Requests, queue[r] = <<>>, NEW l \in {"done", "failed"}, Goto(r, l),
         UNCHANGED <<file, req, locals, history, bounds>>
  PROVE  Shape' /\ InOrder(r)' /\ TornBy(r)'
<1>1. pc' = [pc EXCEPT ![r] = l] /\ UNCHANGED <<file, req, locals, history, bounds>>
  BY DEF Goto
<1>2. Shape'
  BY <1>1 DEF TypeInv, Shape, Stages, Ended, locals, history, bounds, Fits, Proper
<1>3. pc'[r] = l /\ Items(queue'[r]) = {} /\ half'[r] = FALSE
  BY <1>1, Idle DEF TypeInv, Shape, locals
<1> QED BY <1>2, <1>3 DEF InOrder, Staged, Ended, Working, TornBy

LEMMA AddTypes ==
  ASSUME TypeInv, NEW r \in Requests, Add(r) PROVE Shape' /\ InOrder(r)' /\ TornBy(r)'
<1> DEFINE x == <<"cfg", Name(r)>>  ws == <<<<x, req[r].cfg>>>>
<1>1. At(r, "add") /\ req[r].op = "add" /\ half[r] = FALSE
  BY Idle DEF Add, At
<1>2. Name(r) \in Repos /\ req[r].cfg \in Configs
  BY <1>1, OperationFields DEF TypeInv, Shape, Name
<1>3. x \in Paths /\ req[r].cfg \in Proper(x)
  BY <1>2, PathKinds, HoldsKinds DEF Fits, Proper
<1>4. ws \in Seq(Writes) /\ Items(ws) = {<<x, req[r].cfg>>}
  BY <1>3, OneWrite
<1>5. /\ pc' = [pc EXCEPT ![r] = "end"] /\ queue' = [queue EXCEPT ![r] = ws]
      /\ UNCHANGED <<half, file, req, repo, todo, left, tries, got, history, bounds>>
  BY DEF Add, Goto, Enqueue
<1> HIDE DEF ws
<1>6. Shape'
  BY <1>4, <1>5 DEF TypeInv, Shape, Stages, history, bounds, Fits, Proper
<1>7. pc'[r] = "end" /\ queue'[r] = ws /\ req'[r].op = "add" /\ half'[r] = FALSE
  BY <1>1, <1>5 DEF TypeInv, Shape
<1>8. InOrder(r)'
  BY <1>4, <1>7 DEF InOrder, Staged, May, Working
<1> QED BY <1>6, <1>7, <1>8 DEF TornBy

LEMMA CreateTypes ==
  ASSUME TypeInv, NEW r \in Requests, Create(r) PROVE Shape' /\ InOrder(r)' /\ TornBy(r)'
<1> DEFINE s == req[r].source  p == req[r].place  ws == Made(s, p)
<1>1. At(r, "create") /\ req[r].op = "create" /\ half[r] = FALSE
  BY Idle DEF Create, At
<1>2. s \in Sources /\ p \in Places
  BY <1>1, OperationFields DEF TypeInv, Shape
<1>3. ws \in Seq(Writes) /\ \A w \in Items(ws) : w[1] \in (Metas(s) \X {p}) \cup {<<"release", <<"rpm", p>>>>}
  BY <1>2, MadeShape
<1>4. \A w \in Items(ws) : w[1][1] \in {"release"} \cup MetaKinds
  BY <1>2, <1>3, Layouts
<1>5. /\ pc' = [pc EXCEPT ![r] = "register"] /\ queue' = [queue EXCEPT ![r] = ws]
      /\ published' \subseteq published
      /\ UNCHANGED <<half, file, req, repo, todo, left, tries, got, offered, crossed, bounds>>
  BY DEF Create, Goto, Enqueue
<1> HIDE DEF ws
<1>6. Shape'
  BY <1>3, <1>5 DEF TypeInv, Shape, Stages, history, bounds, Fits, Proper
<1>7. pc'[r] = "register" /\ queue'[r] = ws /\ req'[r].op = "create" /\ half'[r] = FALSE
  BY <1>1, <1>5 DEF TypeInv, Shape
<1>8. InOrder(r)'
  BY <1>4, <1>7 DEF InOrder, Staged, May, Working
<1> QED BY <1>6, <1>7, <1>8 DEF TornBy

LEMMA RegisterTypes ==
  ASSUME TypeInv, NEW r \in Requests, Register(r) PROVE Shape' /\ InOrder(r)' /\ TornBy(r)'
<1> DEFINE x == <<"cfg", Name(r)>>
           c == [NoCfg EXCEPT !.source = req[r].source, !.url = req[r].place, !.local = TRUE]
           ws == IF Name(r) \in Loaded THEN <<>> ELSE <<<<x, c>>>>
<1>1. At(r, "register") /\ req[r].op = "create" /\ half[r] = FALSE
  BY Idle DEF Register, At
<1>2. Name(r) \in Repos /\ c \in Configs
  BY <1>1, OperationFields, MadeConfigs DEF TypeInv, Shape, Name
<1>3. x \in Paths /\ c \in Proper(x)
  BY <1>2, PathKinds, HoldsKinds DEF Fits, Proper
<1>4. ws \in Seq(Writes) /\ \A w \in Items(ws) : w[1][1] = "cfg"
  <2>1. <<<<x, c>>>> \in Seq(Writes) /\ Items(<<<<x, c>>>>) = {<<x, c>>}
    BY <1>3, OneWrite
  <2> QED BY <2>1, ShortItems
<1>5. /\ pc' = [pc EXCEPT ![r] = "end"] /\ queue' = [queue EXCEPT ![r] = ws]
      /\ UNCHANGED <<half, file, req, repo, todo, left, tries, got, history, bounds>>
  BY DEF Register, Goto, Enqueue
<1> HIDE DEF ws
<1>6. Shape'
  BY <1>4, <1>5 DEF TypeInv, Shape, Stages, history, bounds, Fits, Proper
<1>7. pc'[r] = "end" /\ queue'[r] = ws /\ req'[r].op = "create" /\ half'[r] = FALSE
  BY <1>1, <1>5 DEF TypeInv, Shape
<1>8. InOrder(r)'
  BY <1>4, <1>7 DEF InOrder, Staged, May, Working
<1> QED BY <1>6, <1>7, <1>8 DEF TornBy

LEMMA RemoveTypes ==
  ASSUME TypeInv, NEW r \in Requests, Remove(r) PROVE Shape' /\ InOrder(r)' /\ TornBy(r)'
<1>1. At(r, "remove") /\ req[r].op = "remove" /\ half[r] = FALSE /\ Items(queue[r]) = {}
  BY Idle DEF Remove, At
<1>2. /\ file' = [file EXCEPT ![<<"cfg", Name(r)>>] = Absent] /\ pc' = [pc EXCEPT ![r] = "uncache"]
      /\ UNCHANGED <<req, locals, history, bounds>>
  BY DEF Remove, Goto
<1>3. Shape'
  BY <1>2 DEF TypeInv, Shape, Stages, locals, history, bounds, Fits, Proper, Contents
<1>4. pc'[r] = "uncache" /\ Items(queue'[r]) = {} /\ req'[r].op = "remove" /\ half'[r] = FALSE
  BY <1>1, <1>2 DEF TypeInv, Shape, locals
<1>5. InOrder(r)'
  BY <1>4 DEF InOrder, Staged, May, Working
<1> QED BY <1>3, <1>4, <1>5 DEF TornBy

LEMMA UncacheTypes ==
  ASSUME TypeInv, NEW r \in Requests, Uncache(r) PROVE Shape' /\ InOrder(r)' /\ TornBy(r)'
<1>1. At(r, "uncache") /\ req[r].op = "remove" /\ half[r] = FALSE /\ Items(queue[r]) = {}
  BY Idle DEF Uncache, At
<1>2. PICK away \in SUBSET Paths : file' = [x \in Paths |-> IF x \in away THEN Absent ELSE file[x]]
  <2>1. PICK kept \in SUBSET Sources :
          file' = [x \in Paths |-> IF x \in {<<"cache", <<s, Name(r)>>>> : s \in Sources \ kept}
                                  THEN Absent ELSE file[x]]
    BY DEF Uncache
  <2> DEFINE away == {<<"cache", <<s, Name(r)>>>> : s \in Sources \ kept}
  <2>2. file' = [x \in Paths |-> IF x \in away \cap Paths THEN Absent ELSE file[x]]
    BY <2>1
  <2> QED BY <2>2
<1>3. /\ pc' = [pc EXCEPT ![r] = "end"] /\ UNCHANGED <<req, locals, history>>
      /\ started' = started /\ faults' \in 0 .. MaxFaults
  BY LimitsAssumption DEF Uncache, Goto, Fault, bounds, TypeInv, Shape
<1>4. file' \in [Paths -> Contents] /\ \A x \in Paths : file'[x] \in Fits(x)
  BY <1>2 DEF TypeInv, Shape, Fits, Proper, Contents
<1>5. Shape'
  BY <1>3, <1>4 DEF TypeInv, Shape, Stages, locals, history, Fits, Proper
<1>6. pc'[r] = "end" /\ Items(queue'[r]) = {} /\ req'[r].op = "remove" /\ half'[r] = FALSE
  BY <1>1, <1>3 DEF TypeInv, Shape, locals
<1>7. InOrder(r)'
  BY <1>6 DEF InOrder, Staged, May, Working
<1> QED BY <1>5, <1>6, <1>7 DEF TornBy

LEMMA GenKeyTypes ==
  ASSUME TypeInv, NEW r \in Requests, GenKey(r) PROVE Shape' /\ InOrder(r)' /\ TornBy(r)'
<1> DEFINE k == <<"key", Name(r)>>  x == <<"cfg", Name(r)>>  c == [file[x] EXCEPT !.key = TRUE]
           ws == <<<<k, "pem">>, <<x, c>>>>
<1>1. At(r, "genkey") /\ req[r].op = "genkey" /\ half[r] = FALSE /\ Items(queue[r]) = {}
  BY Idle DEF GenKey, At
<1>2. CASE Name(r) \notin Loaded
  <2> QED BY <1>1, <1>2, QuitTypes DEF GenKey, Fail, At
<1>3. CASE Name(r) \in Loaded
  <2>1. Name(r) \in Repos /\ file[x] \in Configs /\ c \in Configs
    BY <1>3, LoadedConfigs, MadeConfigs DEF TypeInv
  <2>2. k \in Paths /\ x \in Paths /\ "pem" \in Proper(k) /\ c \in Proper(x)
    BY <2>1, PathKinds, HoldsKinds DEF Fits, Proper
  <2> HIDE DEF c, k, x
  <2>3. ws \in Seq(Writes) /\ Items(ws) = {<<k, "pem">>, <<x, c>>}
    BY <2>2, TwoWrites
  <2> USE DEF k, x
  <2>4. /\ pc' = [pc EXCEPT ![r] = "end"] /\ queue' = [queue EXCEPT ![r] = ws]
        /\ UNCHANGED <<half, file, req, repo, todo, left, tries, got, history, bounds>>
    BY <1>3 DEF GenKey, Goto, Enqueue, c
  <2> HIDE DEF ws
  <2>5. Shape'
    BY <2>3, <2>4 DEF TypeInv, Shape, Stages, history, bounds, Fits, Proper
  <2>6. pc'[r] = "end" /\ queue'[r] = ws /\ req'[r].op = "genkey" /\ half'[r] = FALSE
    BY <1>1, <2>4 DEF TypeInv, Shape
  <2>7. InOrder(r)'
    BY <2>3, <2>6 DEF InOrder, Staged, May, Working
  <2> QED BY <2>5, <2>6, <2>7 DEF TornBy
<1> QED BY <1>2, <1>3
LEMMA ConfShape ==
  ASSUME Shape, Conf # Torn
  PROVE  Conf \in SUBSET Settings /\ file[<<"conf", None>>] \in {Absent, Conf}
BY PathKinds, HoldsKinds DEF Shape, Fits, Proper, Conf

LEMMA SetConfTypes ==
  ASSUME TypeInv, NEW r \in Requests, SetConf(r) PROVE Shape' /\ InOrder(r)' /\ TornBy(r)'
<1> DEFINE x == <<"conf.tmp", None>>
<1>1. At(r, "set") /\ req[r].op = "set" /\ half[r] = FALSE
  BY Idle DEF SetConf, At
<1>2. CASE Fail(r)
  BY <1>1, <1>2, QuitTypes DEF Fail, At
<1>3. CASE ~Fail(r)
  <2>1. PICK read \in SUBSET Settings :
          /\ Goto(r, "rename") /\ Enqueue(r, <<<<x, read \cup {req[r].setting}>>>>)
          /\ UNCHANGED <<file, req, repo, todo, left, tries, got, history, bounds>>
    <3>1. PICK read \in IF Conf = Torn THEN {Torn} \cup SUBSET Settings ELSE {Conf} :
            IF read = Torn THEN Fail(r) ELSE
              /\ Goto(r, "rename") /\ Enqueue(r, <<<<x, read \cup {req[r].setting}>>>>)
              /\ UNCHANGED <<file, req, repo, todo, left, tries, got, history, bounds>>
      BY DEF SetConf
    <3>2. read # Torn
      BY <1>3, <3>1
    <3>3. read \in SUBSET Settings
      BY <3>1, <3>2, ConfShape DEF TypeInv
    <3> QED BY <3>1, <3>2, <3>3
  <2> DEFINE new == read \cup {req[r].setting}  ws == <<<<x, new>>>>
  <2>2. new \in SUBSET Settings
    BY <1>1, OperationFields DEF TypeInv, Shape
  <2>3. x \in Paths /\ new \in Proper(x)
    BY <2>2, PathKinds, HoldsKinds DEF Fits, Proper
  <2> HIDE DEF new
  <2>4. ws \in Seq(Writes) /\ Items(ws) = {<<x, new>>}
    BY <2>3, OneWrite
  <2>5. /\ pc' = [pc EXCEPT ![r] = "rename"] /\ queue' = [queue EXCEPT ![r] = ws]
        /\ UNCHANGED <<half, file, req, repo, todo, left, tries, got, history, bounds>>
    BY <2>1 DEF Goto, Enqueue, new
  <2> HIDE DEF ws
  <2>6. Shape'
    BY <2>4, <2>5 DEF TypeInv, Shape, Stages, history, bounds, Fits, Proper
  <2>7. pc'[r] = "rename" /\ queue'[r] = ws /\ req'[r].op = "set" /\ half'[r] = FALSE
    BY <1>1, <2>5 DEF TypeInv, Shape
  <2>8. InOrder(r)'
    BY <2>4, <2>7 DEF InOrder, Staged, May, Working
  <2> QED BY <2>6, <2>7, <2>8 DEF TornBy
<1> QED BY <1>2, <1>3

\* A rename takes the file from another administrator, and that is all it changes for others.
LEMMA OtherQueue ==
  ASSUME TypeInv, NEW r \in Requests, Step(r), NEW s \in Requests \ {r}
  PROVE  /\ ~crossed \/ pc[s] # "rename" => queue'[s] = queue[s] /\ half'[s] = half[s]
         /\ queue'[s] \in Seq(Writes) /\ half'[s] \in BOOLEAN
         /\ \A w \in Items(queue'[s]) : \/ w \in Items(queue[s])
                                        \/ pc[s] = "rename" /\ w[1] = <<"conf", None>>
         /\ half'[s] => queue'[s] # <<>>
<1> USE DEF Shape
<1>1. CASE queue'[s] = queue[s] /\ half'[s] = half[s]
  BY <1>1 DEF TypeInv, HalfTorn, TornBy
<1>2. CASE ~(queue'[s] = queue[s] /\ half'[s] = half[s])
  <2>1. Rename(r) /\ ~Fail(r)
    BY <1>2, Others DEF TypeInv, Fail, locals
  <2>2. /\ queue'[s] = IF Moved(s) THEN <<<<<<"conf", None>>, Is(s)>>>>
                       ELSE IF Dropped(s) THEN <<>> ELSE queue[s]
        /\ half'[s] = (half[s] /\ ~Dropped(s))
    BY <2>1 DEF Rename
  <2>3. half[s] /\ To(s)[1] \in {"conf", "conf.tmp"}
    BY <1>2, <2>2 DEF Moved, Dropped, TypeInv
  <2>4. queue[s] # <<>>
    BY <2>3 DEF TypeInv, HalfTorn, TornBy
  <2>5. AtWork(s) /\ To(s) \in Paths /\ To(s)[1] \in May(pc[s], req[s].op) /\ Is(s) \in Proper(To(s))
    BY <2>4, Working1 DEF TypeInv
  <2>6. pc[s] = "rename"
    BY <2>3, <2>5 DEF May, MetaKinds, SignedKinds
  <2>7. req[s].op = "set"
    BY <2>6, OperationFields DEF TypeInv, Order, InOrder, Staged, Ended, Admin
  <2>8. AtWork(r) /\ req[r].op = "set"
    <3>1. At(r, "rename") /\ queue[r] = <<>>
      BY <2>1 DEF Rename, At
    <3> QED BY <3>1, Idle DEF At, AtWork, Ended
  <2>9. crossed
    BY <2>5, <2>7, <2>8 DEF TypeInv, OneAdmin, Admin
  <2>10. <<"conf", None>> \in Paths /\ Is(s) \in Proper(<<"conf", None>>)
    BY <2>3, <2>5, PathKinds, HoldsKinds DEF Proper
  <2>11. /\ <<<<<<"conf", None>>, Is(s)>>>> \in Seq(Writes)
         /\ Items(<<<<<<"conf", None>>, Is(s)>>>>) = {<<<<"conf", None>>, Is(s)>>}
    BY <2>10, OneWrite
  <2>12. CASE Moved(s)
    <3> DEFINE ws == <<<<<<"conf", None>>, Is(s)>>>>
    <3>1. queue'[s] = ws /\ half'[s] \in BOOLEAN
      BY <2>2, <2>12 DEF TypeInv
    <3>2. ws \in Seq(Writes) /\ ws # <<>> /\ \A w \in Items(ws) : w[1] = <<"conf", None>>
      BY <2>11
    <3> HIDE DEF ws
    <3> QED BY <2>6, <2>9, <3>1, <3>2
  <2>13. CASE ~Moved(s)
    <3>1. Dropped(s)
      BY <1>2, <2>2, <2>13 DEF TypeInv
    <3>2. queue'[s] = <<>> /\ half'[s] = FALSE
      BY <2>2, <2>13, <3>1
    <3>3. <<>> \in Seq(Writes) /\ Items(<<>>) = {}
      BY ShortItems
    <3> QED BY <2>6, <2>9, <3>2, <3>3
  <2> QED BY <2>12, <2>13
<1> QED BY <1>1, <1>2

LEMMA RenameTypes ==
  ASSUME TypeInv, NEW r \in Requests, Rename(r) PROVE Shape' /\ InOrder(r)' /\ TornBy(r)'
<1>1. At(r, "rename") /\ req[r].op = "set" /\ half[r] = FALSE /\ Items(queue[r]) = {}
  BY Idle DEF Rename, At
<1>2. CASE Fail(r)
  BY <1>1, <1>2, QuitTypes DEF Fail, At
<1>3. CASE ~Fail(r)
  <2>1. /\ file' = [file EXCEPT ![<<"conf", None>>] = file[<<"conf.tmp", None>>],
                                ![<<"conf.tmp", None>>] = Absent]
        /\ pc' = [pc EXCEPT ![r] = "end"] /\ UNCHANGED <<req, repo, todo, left, tries, got, history, bounds>>
    BY <1>3 DEF Rename, Goto
  <2>2. Fits(<<"conf", None>>) = Fits(<<"conf.tmp", None>>) /\ file[<<"conf.tmp", None>>] \in Fits(<<"conf", None>>)
    BY PathKinds, HoldsKinds DEF TypeInv, Shape, Fits, Proper
  <2>3. file' \in [Paths -> Contents] /\ \A x \in Paths : file'[x] \in Fits(x)
    BY <2>1, <2>2, PathKinds DEF TypeInv, Shape, Fits, Proper, Contents
  <2>4. /\ queue' = [s \in Requests |-> queue'[s]] /\ half' = [s \in Requests |-> half'[s]]
        /\ queue'[r] = queue[r] /\ half'[r] = FALSE
    BY <1>1, <1>3 DEF Rename, Moved, Dropped
  <2>5. ASSUME NEW s \in Requests PROVE queue'[s] \in Seq(Writes) /\ half'[s] \in BOOLEAN
    <3>1. CASE s = r
      BY <2>4, <3>1 DEF TypeInv, Shape
    <3>2. CASE s # r
      BY <3>2, OtherQueue DEF Step, Administer
    <3> QED BY <3>1, <3>2
  <2>6. queue' \in [Requests -> Seq(Writes)] /\ half' \in [Requests -> BOOLEAN]
    BY <2>4, <2>5
  <2>7. Shape'
    BY <2>1, <2>3, <2>6 DEF TypeInv, Shape, Stages, history, bounds, Fits, Proper
  <2>8. pc'[r] = "end" /\ Items(queue'[r]) = {} /\ req'[r].op = "set"
    BY <1>1, <2>1, <2>4 DEF TypeInv, Shape
  <2>9. InOrder(r)'
    BY <2>8 DEF InOrder, Staged, May, Working
  <2> QED BY <2>4, <2>7, <2>9 DEF TornBy
<1> QED BY <1>2, <1>3

\* What a publication has queued when it goes on.
PackageOf(r, c) == <<<<"archive", <<c.url, req[r].pkg>>>>, "sam">>
IndexOf(r, c)   == <<<<"index", c.url>>, Extended(file[<<"index", c.url>>], req[r].pkg)>>
LEMMA PublishIs ==
  ASSUME TypeInv, NEW r \in Requests, Publish(r), ~Fail(r)
  PROVE  LET c == file[<<"cfg", Name(r)>>]
         IN  /\ At(r, "publish") /\ req[r].op = "publish" /\ half[r] = FALSE
             /\ Name(r) \in Repos /\ Name(r) \in Loaded /\ c \in Configs
             /\ c.url \in Places /\ c.source \in Sources /\ req[r].pkg \in Pkgs
             /\ PackageOf(r, c) \in Writes
             /\ \/ /\ c.source = "native" /\ file[<<"index", c.url>>] \in Listings
                   /\ IndexOf(r, c) \in Writes
                   /\ queue' = [queue EXCEPT ![r] = <<PackageOf(r, c), IndexOf(r, c)>>]
                \/ /\ c.source # "native" /\ queue' = [queue EXCEPT ![r] = <<PackageOf(r, c)>>]
             /\ pc' = [pc EXCEPT ![r] = "list"]
             /\ repo' = [repo EXCEPT ![r] = <<Name(r), c>>] /\ left' = [left EXCEPT ![r] = ReadOf[c.source]]
             /\ UNCHANGED <<half, file, req, todo, tries, got, history, bounds>>
<1> DEFINE c == file[<<"cfg", Name(r)>>]
           refused == \/ Name(r) \notin Loaded \/ c.url = None \/ ~c.local
                      \/ c.source = "native" /\ file[<<"index", c.url>>] \notin Listings
<1>1. At(r, "publish") /\ req[r].op = "publish" /\ half[r] = FALSE
  BY Idle DEF Publish, At
<1>2. ~refused
  BY DEF Publish
<1>3. Name(r) \in Repos /\ c \in Configs /\ c.url \in Places /\ c.source \in Sources
  BY <1>2, LoadedConfigs, ConfigFields DEF TypeInv
<1>4. req[r].pkg \in Pkgs
  BY <1>1, OperationFields DEF TypeInv, Shape
<1>5. PackageOf(r, c) \in Writes
  <2>1. <<"archive", <<c.url, req[r].pkg>>>> \in Paths /\ "sam" \in Proper(<<"archive", <<c.url, req[r].pkg>>>>)
    BY <1>3, <1>4, PathKinds, HoldsKinds DEF Proper
  <2> QED BY <2>1, WriteFits DEF PackageOf
<1>6. file[<<"index", c.url>>] \in Listings => IndexOf(r, c) \in Writes
  <2>1. <<"index", c.url>> \in Paths /\ Proper(<<"index", c.url>>) = Listings
    BY <1>3, PathKinds, HoldsKinds DEF Proper, MetaKinds
  <2> QED BY <1>4, <2>1, Added, WriteFits DEF IndexOf
<1>7. /\ pc' = [pc EXCEPT ![r] = "list"]
      /\ queue' = [queue EXCEPT ![r] = IF c.source = "native" THEN <<PackageOf(r, c), IndexOf(r, c)>>
                                                              ELSE <<PackageOf(r, c)>>]
      /\ repo' = [repo EXCEPT ![r] = <<Name(r), c>>] /\ left' = [left EXCEPT ![r] = ReadOf[c.source]]
      /\ UNCHANGED <<half, file, req, todo, tries, got, history, bounds>>
  BY <1>2 DEF Publish, Goto, Enqueue, PackageOf, IndexOf
<1> QED BY <1>1, <1>2, <1>3, <1>4, <1>5, <1>6, <1>7

LEMMA PublishTypes ==
  ASSUME TypeInv, NEW r \in Requests, Publish(r) PROVE Shape' /\ InOrder(r)' /\ TornBy(r)'
<1> DEFINE c == file[<<"cfg", Name(r)>>]
<1>1. At(r, "publish")
  BY DEF Publish
<1>2. CASE Fail(r)
  BY <1>1, <1>2, QuitTypes DEF Fail, At
<1>3. CASE ~Fail(r)
  <2>1. /\ At(r, "publish") /\ req[r].op = "publish" /\ half[r] = FALSE
        /\ Name(r) \in Repos /\ c \in Configs
        /\ c.url \in Places /\ c.source \in Sources
        /\ pc' = [pc EXCEPT ![r] = "list"]
        /\ repo' = [repo EXCEPT ![r] = <<Name(r), c>>] /\ left' = [left EXCEPT ![r] = ReadOf[c.source]]
        /\ UNCHANGED <<half, file, req, todo, tries, got, history, bounds>>
    BY <1>3, PublishIs
  <2>2. \E ws \in Seq(Writes) : queue' = [queue EXCEPT ![r] = ws]
                                /\ \A w \in Items(ws) : w[1][1] \in {"archive"} \cup MetaKinds
    <3> DEFINE a == PackageOf(r, c)  b == IndexOf(r, c)
    <3>1. a[1][1] = "archive" /\ b[1][1] = "index" /\ "index" \in MetaKinds
      BY DEF PackageOf, IndexOf, MetaKinds
    <3>2. /\ a \in Writes
          /\ \/ b \in Writes /\ queue' = [queue EXCEPT ![r] = <<a, b>>]
             \/ queue' = [queue EXCEPT ![r] = <<a>>]
      BY <1>3, PublishIs
    <3> HIDE DEF a, b
    <3>3. CASE b \in Writes /\ queue' = [queue EXCEPT ![r] = <<a, b>>]
      <4>1. <<a, b>> \in Seq(Writes) /\ Items(<<a, b>>) = {a, b}
        BY <3>2, <3>3, ShortItems
      <4> QED BY <3>1, <3>3, <4>1
    <3>4. CASE queue' = [queue EXCEPT ![r] = <<a>>]
      <4>1. <<a>> \in Seq(Writes) /\ Items(<<a>>) = {a}
        BY <3>2, ShortItems
      <4> QED BY <3>1, <3>4, <4>1
    <3> QED BY <3>2, <3>3, <3>4
  <2>3. PICK ws \in Seq(Writes) : queue' = [queue EXCEPT ![r] = ws]
                                  /\ \A w \in Items(ws) : w[1][1] \in {"archive"} \cup MetaKinds
    BY <2>2
  <2>4. ReadOf[c.source] \in Seq(MetaKinds) /\ Items(ReadOf[c.source]) \subseteq Metas(c.source)
    BY <2>1, Layouts
  <2>5. ReadOf[c.source] \in Seq(Places \cup MetaKinds) /\ Items(ReadOf[c.source]) \subseteq Metas(c.source)
    <3>1. ASSUME NEW q \in Seq(MetaKinds) PROVE q \in Seq(Places \cup MetaKinds)
      OBVIOUS
    <3> QED BY <2>4, <3>1
  <2> HIDE DEF c
  <2>6. Shape'
    BY <2>1, <2>3, <2>5 DEF TypeInv, Shape, Stages, history, bounds, Fits, Proper
  <2>7. /\ pc'[r] = "list" /\ queue'[r] = ws /\ req'[r].op = "publish" /\ half'[r] = FALSE
        /\ repo'[r] = <<Name(r), c>> /\ left'[r] = ReadOf[c.source]
    BY <2>1, <2>3 DEF TypeInv, Shape
  <2>8. Working(r)'
    BY <2>1, <2>5, <2>7 DEF Working, Cfg
  <2>9. InOrder(r)'
    BY <2>3, <2>7, <2>8 DEF InOrder, Staged, May
  <2> QED BY <2>6, <2>7, <2>9 DEF TornBy
<1> QED BY <1>2, <1>3

\* What a list is read for: it is written with the package, and Packages.gz with Packages.
LEMMA ListWrites ==
  ASSUME TypeInv, NEW r \in Requests, List(r), ~Fail(r)
  PROVE  LET m == Head(left[r])  p == Cfg(r).url  k == req[r].pkg
         IN  /\ At(r, "list") /\ req[r].op = "publish" /\ half[r] = FALSE /\ Items(queue[r]) = {}
             /\ left[r] # <<>> /\ left[r] \in Seq(Places \cup MetaKinds)
             /\ Items(left[r]) \subseteq Metas(Cfg(r).source)
             /\ m \in Items(left[r]) /\ m \in MetaKinds /\ p \in Places /\ k \in Pkgs
             /\ repo[r][1] \in Repos /\ Cfg(r).source \in Sources
             /\ \E l \in Read(m, p) : LET n == Extended(l, k) IN
                  /\ l \in Listings /\ n \in Listings
                  /\ \/ m = "packages"
                        /\ queue' = [queue EXCEPT ![r] = <<<<<<m, p>>, n>>, <<<<"packages.gz", p>>, n>>>>]
                     \/ m # "packages" /\ queue' = [queue EXCEPT ![r] = <<<<<<m, p>>, n>>>>]
             /\ left' = [left EXCEPT ![r] = Tail(@)]
             /\ UNCHANGED <<half, file, pc, req, repo, todo, tries, got, history, bounds>>
<1> DEFINE m == Head(left[r])  p == Cfg(r).url  k == req[r].pkg
<1>1. /\ At(r, "list") /\ req[r].op = "publish" /\ half[r] = FALSE /\ Items(queue[r]) = {}
      /\ Working(r) /\ left[r] # <<>>
  BY Idle DEF List, At, TypeInv, Order, InOrder
<1>2. /\ left[r] \in Seq(Places \cup MetaKinds) /\ Items(left[r]) \subseteq Metas(Cfg(r).source)
      /\ p \in Places /\ repo[r][1] \in Repos /\ Cfg(r).source \in Sources /\ k \in Pkgs
  BY <1>1, ConfigFields, OperationFields DEF TypeInv, Shape, Working, At, Cfg
<1>3. m \in Items(left[r])
  BY <1>1, <1>2, SeqItems
<1>4. m \in MetaKinds
  BY <1>2, <1>3, Layouts
<1>5. PICK l \in Read(m, p) : WriteList(r, m, Extended(l, k))
  BY DEF List
<1>6. l \in Listings /\ Extended(l, k) \in Listings
  BY <1>2, <1>4, Reads, Added DEF TypeInv
<1>7. /\ \/ m = "packages"
            /\ queue' = [queue EXCEPT ![r] = <<<<<<m, p>>, Extended(l, k)>>,
                                              <<<<"packages.gz", p>>, Extended(l, k)>>>>]
         \/ m # "packages" /\ queue' = [queue EXCEPT ![r] = <<<<<<m, p>>, Extended(l, k)>>>>]
      /\ left' = [left EXCEPT ![r] = Tail(@)]
      /\ UNCHANGED <<half, file, pc, req, repo, todo, tries, got, history, bounds>>
  BY <1>5 DEF WriteList, Enqueue
<1> QED BY <1>1, <1>2, <1>3, <1>4, <1>6, <1>7

LEMMA ListTypes ==
  ASSUME TypeInv, NEW r \in Requests, List(r) PROVE Shape' /\ InOrder(r)' /\ TornBy(r)'
<1>1. At(r, "list")
  BY DEF List
<1>2. CASE Fail(r)
  BY <1>1, <1>2, QuitTypes DEF Fail, At
<1>3. CASE ~Fail(r)
  <2> DEFINE m == Head(left[r])  p == Cfg(r).url
  <2>1. /\ At(r, "list") /\ req[r].op = "publish" /\ half[r] = FALSE
        /\ left[r] # <<>> /\ left[r] \in Seq(Places \cup MetaKinds)
        /\ Items(left[r]) \subseteq Metas(Cfg(r).source)
        /\ m \in MetaKinds /\ p \in Places
        /\ repo[r][1] \in Repos /\ Cfg(r).source \in Sources
        /\ left' = [left EXCEPT ![r] = Tail(@)]
        /\ UNCHANGED <<half, file, pc, req, repo, todo, tries, got, history, bounds>>
    BY <1>3, ListWrites
  <2>2. PICK n \in Listings :
          \/ queue' = [queue EXCEPT ![r] = <<<<<<m, p>>, n>>, <<<<"packages.gz", p>>, n>>>>]
          \/ queue' = [queue EXCEPT ![r] = <<<<<<m, p>>, n>>>>]
    BY <1>3, ListWrites
  <2> HIDE DEF m, p
  <2>3. \E ws \in Seq(Writes) : queue' = [queue EXCEPT ![r] = ws]
                                /\ \A w \in Items(ws) : w[1][1] \in MetaKinds
    <3> DEFINE x == <<m, p>>  y == <<"packages.gz", p>>
    <3>1. /\ x \in Paths /\ y \in Paths /\ n \in Proper(x) /\ n \in Proper(y)
          /\ x[1] \in MetaKinds /\ y[1] \in MetaKinds
      BY <2>1, PathKinds, HoldsKinds DEF Proper, MetaKinds
    <3>2. queue' = [queue EXCEPT ![r] = <<<<x, n>>, <<y, n>>>>] \/ queue' = [queue EXCEPT ![r] = <<<<x, n>>>>]
      BY <2>2
    <3> HIDE DEF x, y
    <3>3. /\ <<<<x, n>>>> \in Seq(Writes) /\ Items(<<<<x, n>>>>) = {<<x, n>>}
          /\ <<<<x, n>>, <<y, n>>>> \in Seq(Writes) /\ Items(<<<<x, n>>, <<y, n>>>>) = {<<x, n>>, <<y, n>>}
      BY <3>1, OneWrite, TwoWrites
    <3>4. /\ \A w \in Items(<<<<x, n>>>>) : w[1][1] \in MetaKinds
          /\ \A w \in Items(<<<<x, n>>, <<y, n>>>>) : w[1][1] \in MetaKinds
      BY <3>1, <3>3
    <3> QED BY <3>2, <3>3, <3>4
  <2>4. PICK ws \in Seq(Writes) : queue' = [queue EXCEPT ![r] = ws]
                                  /\ \A w \in Items(ws) : w[1][1] \in MetaKinds
    BY <2>3
  <2>5. Tail(left[r]) \in Seq(Places \cup MetaKinds) /\ Items(Tail(left[r])) \subseteq Items(left[r])
    BY <2>1, SeqItems
  <2>6. Shape'
    BY <2>1, <2>4, <2>5 DEF TypeInv, Shape, history, bounds, Fits, Proper
  <2>7. /\ pc'[r] = "list" /\ queue'[r] = ws /\ req'[r].op = "publish" /\ half'[r] = FALSE
        /\ repo'[r] = repo[r] /\ left'[r] = Tail(left[r])
    BY <2>1, <2>4 DEF TypeInv, Shape, At
  <2>8. Working(r)'
    BY <2>1, <2>5, <2>7 DEF Working, Cfg, p
  <2>9. InOrder(r)'
    BY <2>4, <2>7, <2>8 DEF InOrder, Staged, May
  <2> QED BY <2>6, <2>7, <2>9 DEF TornBy
<1> QED BY <1>2, <1>3

LEMMA PublishedTypes ==
  ASSUME TypeInv, NEW r \in Requests, Published(r) PROVE Shape' /\ InOrder(r)' /\ TornBy(r)'
<1>1. /\ At(r, "list") /\ req[r].op = "publish" /\ half[r] = FALSE /\ Items(queue[r]) = {} /\ Working(r)
      /\ left[r] = <<>>
  BY Idle DEF Published, At, TypeInv, Order, InOrder
<1>2. PICK l \in {"release", "done"} : pc' = [pc EXCEPT ![r] = l]
  BY DEF Published, Goto
<1>3. /\ published' = published \cup {<<Cfg(r).source, Cfg(r).url, req[r].pkg>>}
      /\ UNCHANGED <<file, req, locals, offered, crossed, bounds>>
  BY DEF Published
<1>4. Cfg(r).url \in Places /\ repo[r][1] \in Repos /\ Cfg(r).source \in Sources /\ req[r].pkg \in Pkgs
  BY <1>1, ConfigFields, OperationFields DEF TypeInv, Shape, Working, At, Cfg
<1>5. Shape'
  BY <1>2, <1>3, <1>4 DEF TypeInv, Shape, Stages, Ended, locals, bounds, Fits, Proper
<1>6. /\ pc'[r] = l /\ Items(queue'[r]) = {} /\ req'[r].op = "publish" /\ half'[r] = FALSE
      /\ repo'[r] = repo[r]
  BY <1>1, <1>2, <1>3 DEF TypeInv, Shape, locals
<1>7. InOrder(r)'
  BY <1>4, <1>6 DEF InOrder, Staged, Ended, May, Working, Cfg
<1> QED BY <1>5, <1>6, <1>7 DEF TornBy

LEMMA SignTypes ==
  ASSUME TypeInv, NEW r \in Requests, Sign(r) PROVE Shape' /\ InOrder(r)' /\ TornBy(r)'
<1> DEFINE c == file[<<"cfg", Name(r)>>]
           refused == Name(r) \notin Loaded \/ ~c.key \/ c.url = None \/ ~c.local
<1>1. At(r, "sign") /\ req[r].op = "sign" /\ half[r] = FALSE /\ Items(queue[r]) = {}
  BY Idle DEF Sign, At
<1>2. CASE refused
  <2>1. Fail(r)
    BY <1>2 DEF Sign
  <2> QED BY <1>1, <2>1, QuitTypes DEF Fail, At
<1>3. CASE ~refused
  <2>1. Name(r) \in Repos /\ c \in Configs /\ c.url \in Places
    BY <1>3, LoadedConfigs, ConfigFields DEF TypeInv
  <2>2. /\ pc' = [pc EXCEPT ![r] = "release"] /\ repo' = [repo EXCEPT ![r] = <<Name(r), c>>]
        /\ UNCHANGED <<file, req, queue, half, todo, left, tries, got, history, bounds>>
    BY <1>3 DEF Sign, Goto
  <2> HIDE DEF c
  <2>3. Shape'
    BY <2>1, <2>2 DEF TypeInv, Shape, Stages, history, bounds, Fits, Proper
  <2>4. /\ pc'[r] = "release" /\ Items(queue'[r]) = {} /\ req'[r].op = "sign" /\ half'[r] = FALSE
        /\ repo'[r] = <<Name(r), c>>
    BY <1>1, <2>2 DEF TypeInv, Shape
  <2>5. InOrder(r)'
    BY <2>1, <2>4 DEF InOrder, Staged, May, Working, Cfg
  <2> QED BY <2>3, <2>4, <2>5 DEF TornBy
<1> QED BY <1>2, <1>3

LEMMA ReleaseTypes ==
  ASSUME TypeInv, NEW r \in Requests, WriteRelease(r) PROVE Shape' /\ InOrder(r)' /\ TornBy(r)'
<1> DEFINE s == Cfg(r).source  p == Cfg(r).url  w == ReleaseOf(s, p, Earlier(s, p))
           x == <<"release", <<s, p>>>>  y == <<"sig", <<s, p>>>>
           ws == <<<<x, w>>, <<y, w>>>>
           refused == file[<<"key", Name(r)>>] # "pem" \/ Present(s, p) = {}
<1>1. At(r, "release") /\ req[r].op \in {"publish", "sign"} /\ half[r] = FALSE /\ Working(r)
  BY Idle DEF WriteRelease, At, TypeInv, Order, InOrder
<1>2. CASE refused
  <2>1. /\ Goto(r, IF req[r].op = "publish" THEN "done" ELSE "failed")
        /\ UNCHANGED <<file, req, locals, history, bounds>>
    BY <1>2 DEF WriteRelease
  <2> QED BY <1>1, <2>1, QuitTypes DEF At
<1>3. CASE ~refused
  <2>1. s \in Sources /\ p \in Places
    BY <1>1, ConfigFields DEF TypeInv, Shape, Working, At, Cfg
  <2>2. x \in Paths /\ y \in Paths /\ w \in Proper(x) /\ w \in Proper(y)
    <3>1. w \in Releases
      BY <2>1, EarlierIs, ReleaseShape DEF TypeInv
    <3> HIDE DEF w
    <3> QED BY <2>1, <3>1, PathKinds, HoldsKinds DEF Proper, SignedKinds
  <2> HIDE DEF w, x, y
  <2>3. ws \in Seq(Writes) /\ Items(ws) = {<<x, w>>, <<y, w>>}
    BY <2>2, TwoWrites
  <2>4. /\ pc' = [pc EXCEPT ![r] = "end"] /\ queue' = [queue EXCEPT ![r] = ws]
        /\ UNCHANGED <<half, file, req, repo, todo, left, tries, got, history, bounds>>
    BY <1>3 DEF WriteRelease, Goto, Enqueue, w, x, y
  <2> HIDE DEF ws
  <2>5. Shape'
    BY <2>3, <2>4 DEF TypeInv, Shape, Stages, history, bounds, Fits, Proper
  <2>6. pc'[r] = "end" /\ queue'[r] = ws /\ req'[r].op \in {"publish", "sign"} /\ half'[r] = FALSE
    BY <1>1, <2>4 DEF TypeInv, Shape
  <2>7. x[1] \in SignedKinds /\ y[1] \in SignedKinds
    BY DEF x, y, SignedKinds
  <2>8. InOrder(r)'
    BY <2>3, <2>6, <2>7 DEF InOrder, Staged, May, Working
  <2> QED BY <2>5, <2>6, <2>8 DEF TornBy
<1> QED BY <1>2, <1>3

\* What depends on the request alone is kept when its place does not change.
LEMMA SamePlace ==
  ASSUME TypeInv, NEW r \in Requests, UNCHANGED <<pc, req, repo, left, got>>,
         Items(queue'[r]) \subseteq Items(queue[r])
  PROVE  InOrder(r)'
BY DEF TypeInv, Order, InOrder, Staged, Working, Cfg

LEMMA TruncateTypes ==
  ASSUME TypeInv, NEW r \in Requests, Truncate(r) PROVE Shape' /\ InOrder(r)' /\ TornBy(r)'
<1>1. /\ queue[r] # <<>> /\ file' = [file EXCEPT ![To(r)] = Torn] /\ half' = [half EXCEPT ![r] = TRUE]
      /\ UNCHANGED <<pc, req, queue, repo, todo, left, tries, got, history, bounds>>
  BY DEF Truncate
<1>2. To(r) \in Paths
  BY <1>1, Working1 DEF TypeInv
<1>3. Shape'
  BY <1>1, <1>2 DEF TypeInv, Shape, history, bounds, Fits, Proper, Contents
<1>4. InOrder(r)'
  BY <1>1, SamePlace
<1>5. TornBy(r)'
  BY <1>1, <1>2 DEF TypeInv, Shape, TornBy, To
<1> QED BY <1>3, <1>4, <1>5

LEMMA FillTypes ==
  ASSUME TypeInv, NEW r \in Requests, Fill(r) PROVE Shape' /\ InOrder(r)' /\ TornBy(r)'
<1>1. /\ queue[r] # <<>> /\ half' = [half EXCEPT ![r] = FALSE] /\ queue' = [queue EXCEPT ![r] = Tail(@)]
      /\ offered' = offered \cup Offers(file')
      /\ UNCHANGED <<pc, req, repo, todo, left, tries, got, published, crossed, bounds>>
  BY DEF Fill
<1>2. PICK end \in {Absent, Torn, Is(r)} : file' = [file EXCEPT ![To(r)] = end]
  BY DEF Fill
<1>3. To(r) \in Paths /\ Is(r) \in Proper(To(r))
  BY <1>1, Working1 DEF TypeInv
<1>4. end \in Fits(To(r)) /\ end \in Contents
  BY <1>3, WriteFits DEF Fits, Proper
<1>5. file' \in [Paths -> Contents] /\ \A x \in Paths : file'[x] \in Fits(x)
  BY <1>2, <1>3, <1>4 DEF TypeInv, Shape
<1>6. Tail(queue[r]) \in Seq(Writes) /\ Items(Tail(queue[r])) \subseteq Items(queue[r])
  BY <1>1, SeqItems DEF TypeInv, Shape
<1>7. Offers(file') \subseteq Sources \X Places \X (SUBSET Pkgs)
  BY OffersShape
<1>8. Shape'
  BY <1>1, <1>5, <1>6, <1>7 DEF TypeInv, Shape, bounds, Fits, Proper
<1>9. queue'[r] = Tail(queue[r]) /\ half'[r] = FALSE
  BY <1>1 DEF TypeInv, Shape
<1>10. InOrder(r)'
  BY <1>1, <1>6, <1>9, SamePlace
<1> QED BY <1>8, <1>9, <1>10 DEF TornBy

LEMMA WriteFailsTypes ==
  ASSUME TypeInv, NEW r \in Requests, WriteFails(r) PROVE Shape' /\ InOrder(r)' /\ TornBy(r)'
<1>1. /\ queue[r] # <<>> /\ pc' = [pc EXCEPT ![r] = AfterFailure(r)]
      /\ queue' = [queue EXCEPT ![r] = <<>>] /\ half' = [half EXCEPT ![r] = FALSE]
      /\ UNCHANGED <<file, req, repo, todo, left, tries, got, history>>
      /\ started' = started /\ faults' \in 0 .. MaxFaults
  BY LimitsAssumption DEF WriteFails, Goto, Fault, bounds, TypeInv, Shape
<1>2. <<>> \in Seq(Writes) /\ Items(<<>>) = {}
  BY ShortItems
<1>3. \/ AfterFailure(r) \in {"done", "failed"}
      \/ pc[r] = "fetch" /\ AfterFailure(r) \in {"fetch", "next"}
  BY DEF AfterFailure
<1>4. Shape'
  BY <1>1, <1>2, <1>3 DEF TypeInv, Shape, Stages, Ended, history, Fits, Proper
<1>5. /\ pc'[r] = AfterFailure(r) /\ Items(queue'[r]) = {} /\ half'[r] = FALSE /\ req'[r] = req[r]
      /\ repo'[r] = repo[r] /\ left'[r] = left[r] /\ got'[r] = got[r]
  BY <1>1, <1>2 DEF TypeInv, Shape
<1>6. pc[r] = "fetch" => req[r].op = "update" /\ Working(r)
  <2>1. Staged(r) /\ Working(r) /\ req[r].op \in Admin \cup {"remove", "update", "rebuild"}
    BY OperationFields DEF TypeInv, Order, InOrder, Shape
  <2> QED BY <2>1 DEF Staged, Ended, Admin
<1>7. InOrder(r)'
  BY <1>3, <1>5, <1>6 DEF InOrder, Staged, Ended, Working, Cfg
<1> QED BY <1>4, <1>5, <1>7 DEF TornBy

LEMMA LoadFailsTypes ==
  ASSUME TypeInv, NEW r \in Requests, LoadFails(r) PROVE Shape' /\ InOrder(r)' /\ TornBy(r)'
<1>1. queue[r] = <<>>
  BY DEF LoadFails, At
<1>2. \E l \in {"done", "failed"} : Goto(r, l)
  BY DEF LoadFails
<1>3. UNCHANGED <<file, req, locals, history, bounds>>
  BY DEF LoadFails
<1> QED BY <1>1, <1>2, <1>3, QuitTypes

LEMMA EndTypes ==
  ASSUME TypeInv, NEW r \in Requests, End(r) PROVE Shape' /\ InOrder(r)' /\ TornBy(r)'
BY QuitTypes DEF End, At
LEMMA UpdateTypes ==
  ASSUME TypeInv, NEW r \in Requests, Update(r) PROVE Shape' /\ InOrder(r)' /\ TornBy(r)'
<1>1. At(r, "update") /\ req[r].op = "update" /\ half[r] = FALSE /\ Items(queue[r]) = {}
  BY Idle DEF Update, At
<1>2. /\ pc' = [pc EXCEPT ![r] = "next"] /\ todo' = [todo EXCEPT ![r] = Configured]
      /\ UNCHANGED <<file, req, queue, half, repo, left, tries, got, history, bounds>>
  BY DEF Update, Goto
<1>3. Configured \in SUBSET (Repos \X Configs)
  BY LoadedConfigs DEF TypeInv
<1>4. Shape'
  BY <1>2, <1>3 DEF TypeInv, Shape, Stages, history, bounds, Fits, Proper
<1>5. pc'[r] = "next" /\ Items(queue'[r]) = {} /\ req'[r].op = "update" /\ half'[r] = FALSE
  BY <1>1, <1>2 DEF TypeInv, Shape
<1>6. InOrder(r)'
  BY <1>5 DEF InOrder, Staged, May, Working
<1> QED BY <1>4, <1>5, <1>6 DEF TornBy

\* The next repository, named.
LEMMA NextIs ==
  ASSUME TypeInv, NEW r \in Requests, NextRepo(r), todo[r] # {}
  PROVE  \E x \in todo[r] :
           /\ x[1] \in Repos /\ x[2] \in Configs /\ <<"cache", <<x[2].source, x[1]>>>> \in Paths
           /\ todo' = [todo EXCEPT ![r] = @ \ {x}] /\ repo' = [repo EXCEPT ![r] = x]
           /\ left' = [left EXCEPT ![r] = Urls(x[2])]
           /\ tries' = [tries EXCEPT ![r] = 0] /\ got' = [got EXCEPT ![r] = {}]
           /\ \/ file' = file
              \/ file' = [file EXCEPT ![<<"cache", <<x[2].source, x[1]>>>>] = [Empty EXCEPT !.open = FALSE]]
           /\ \/ pc' = [pc EXCEPT ![r] = "fetch"] /\ (x[2].source = "native" => x[2].url # None)
              \/ pc' = [pc EXCEPT ![r] = "next"]
           /\ UNCHANGED <<req, queue, half, history, bounds>>
<1>1. PICK x \in todo[r] :
        LET dir == <<"cache", <<x[2].source, x[1]>>>>
            ok  == x[2].source = "native" => x[2].url # None
        IN  /\ todo' = [todo EXCEPT ![r] = @ \ {x}] /\ repo' = [repo EXCEPT ![r] = x]
            /\ left' = [left EXCEPT ![r] = Urls(x[2])]
            /\ tries' = [tries EXCEPT ![r] = 0] /\ got' = [got EXCEPT ![r] = {}]
            /\ file' = IF ok /\ file[dir] = Absent
                       THEN [file EXCEPT ![dir] = [Empty EXCEPT !.open = FALSE]] ELSE file
            /\ Goto(r, IF ok THEN "fetch" ELSE "next")
            /\ UNCHANGED <<req, queue, half, history, bounds>>
  BY DEF NextRepo
<1>2. x[1] \in Repos /\ x[2] \in Configs
  BY DEF TypeInv, Shape
<1>3. <<"cache", <<x[2].source, x[1]>>>> \in Paths
  BY <1>2, ConfigFields, PathKinds
<1> QED BY <1>1, <1>2, <1>3 DEF Goto

LEMMA NextTypes ==
  ASSUME TypeInv, NEW r \in Requests, NextRepo(r) PROVE Shape' /\ InOrder(r)' /\ TornBy(r)'
<1>1. At(r, "next") /\ req[r].op = "update" /\ half[r] = FALSE /\ Items(queue[r]) = {}
  BY Idle DEF NextRepo, At
<1>2. CASE todo[r] = {}
  <2>1. pc' = [pc EXCEPT ![r] = "index"] /\ UNCHANGED <<file, req, locals, history, bounds>>
    BY <1>2 DEF NextRepo, Goto
  <2>2. Shape'
    BY <2>1 DEF TypeInv, Shape, Stages, locals, history, bounds, Fits, Proper
  <2>3. pc'[r] = "index" /\ Items(queue'[r]) = {} /\ req'[r].op = "update" /\ half'[r] = FALSE
    BY <1>1, <2>1 DEF TypeInv, Shape, locals
  <2> QED BY <2>2, <2>3 DEF InOrder, Staged, Working, TornBy
<1>3. CASE todo[r] # {}
  <2>1. PICK x \in todo[r] :
          /\ x[1] \in Repos /\ x[2] \in Configs /\ <<"cache", <<x[2].source, x[1]>>>> \in Paths
          /\ todo' = [todo EXCEPT ![r] = @ \ {x}] /\ repo' = [repo EXCEPT ![r] = x]
          /\ left' = [left EXCEPT ![r] = Urls(x[2])]
          /\ tries' = [tries EXCEPT ![r] = 0] /\ got' = [got EXCEPT ![r] = {}]
          /\ \/ file' = file
             \/ file' = [file EXCEPT ![<<"cache", <<x[2].source, x[1]>>>>] = [Empty EXCEPT !.open = FALSE]]
          /\ \/ pc' = [pc EXCEPT ![r] = "fetch"] /\ (x[2].source = "native" => x[2].url # None)
             \/ pc' = [pc EXCEPT ![r] = "next"]
          /\ UNCHANGED <<req, queue, half, history, bounds>>
    BY <1>3, NextIs
  <2> DEFINE dir == <<"cache", <<x[2].source, x[1]>>>>  none == [Empty EXCEPT !.open = FALSE]
  <2>2. none \in Fits(dir) /\ none \in Contents
    <3>1. none \in Listings
      BY DEF Empty, Listings
    <3> QED BY <2>1, <3>1, HoldsKinds, WriteFits DEF Fits, Proper
  <2>3. Urls(x[2]) \in Seq(Places) /\ Urls(x[2]) \in Seq(Places \cup MetaKinds)
    BY <2>1, ConfigFields
  <2> HIDE DEF dir, none
  <2>4. file' \in [Paths -> Contents] /\ \A y \in Paths : file'[y] \in Fits(y)
    <3>1. file' = file \/ file' = [file EXCEPT ![dir] = none]
      BY <2>1 DEF dir, none
    <3> QED BY <3>1, <2>2 DEF TypeInv, Shape
  <2>5. x \in (Repos \cup {None}) \X Configs
    BY DEF TypeInv, Shape
  <2>9. /\ pc' \in [Requests -> Stages] /\ repo' \in [Requests -> (Repos \cup {None}) \X Configs]
        /\ todo' \in [Requests -> SUBSET (Repos \X Configs)]
        /\ left' \in [Requests -> Seq(Places \cup MetaKinds)]
        /\ tries' \in [Requests -> 0 .. 2] /\ got' \in [Requests -> SUBSET (Pkgs \cup (Repos \X Pkgs))]
    <3>1. pc' \in [Requests -> Stages]
      BY <2>1 DEF TypeInv, Shape, Stages
    <3>2. repo' \in [Requests -> (Repos \cup {None}) \X Configs]
      BY <2>1, <2>5 DEF TypeInv, Shape
    <3>3. todo' \in [Requests -> SUBSET (Repos \X Configs)]
      BY <2>1 DEF TypeInv, Shape
    <3>4. left' \in [Requests -> Seq(Places \cup MetaKinds)]
      BY <2>1, <2>3 DEF TypeInv, Shape
    <3>5. /\ tries' \in [Requests -> 0 .. 2]
          /\ got' \in [Requests -> SUBSET (Pkgs \cup (Repos \X Pkgs))]
      BY <2>1 DEF TypeInv, Shape
    <3> QED BY <3>1, <3>2, <3>3, <3>4, <3>5
  <2>6. Shape'
    BY <2>1, <2>4, <2>9 DEF TypeInv, Shape, history, bounds
  <2>7. /\ pc'[r] \in {"fetch", "next"} /\ Items(queue'[r]) = {} /\ req'[r].op = "update" /\ half'[r] = FALSE
        /\ repo'[r] = x /\ left'[r] = Urls(x[2]) /\ got'[r] = {}
    BY <1>1, <2>1, <2>5 DEF TypeInv, Shape
  <2>8. InOrder(r)'
    BY <2>1, <2>3, <2>7 DEF InOrder, Staged, Working
  <2> QED BY <2>6, <2>7, <2>8 DEF TornBy
<1> QED BY <1>2, <1>3

\* What a fetch works on.
LEMMA Fetching ==
  ASSUME TypeInv, NEW r \in Requests, At(r, "fetch")
  PROVE  /\ req[r].op = "update" /\ half[r] = FALSE /\ Items(queue[r]) = {} /\ pc[r] = "fetch"
         /\ repo[r][1] \in Repos /\ Cfg(r) \in Configs /\ Cfg(r).source \in Sources
         /\ left[r] \in Seq(Places) /\ got[r] \subseteq Pkgs
         /\ Cache(r) \in Paths /\ Cache(r)[1] = "cache" /\ Listings \subseteq Proper(Cache(r))
         /\ left[r] # <<>> => /\ Head(left[r]) \in Places /\ Head(left[r]) \in Items(left[r])
                              /\ Tail(left[r]) \in Seq(Places) /\ Items(Tail(left[r])) \subseteq Items(left[r])
                              /\ Remote(r) \in Paths /\ file[Remote(r)] \in Listings \cup {Absent, Torn}
<1>1. req[r].op = "update" /\ half[r] = FALSE /\ Items(queue[r]) = {} /\ pc[r] = "fetch"
  BY Idle DEF At
<1>2. /\ repo[r][1] \in Repos /\ Cfg(r) \in Configs /\ Cfg(r).source \in Sources
      /\ left[r] \in Seq(Places) /\ got[r] \subseteq Pkgs
  BY <1>1, ConfigFields DEF TypeInv, Shape, Order, InOrder, Working, Cfg
<1>3. Cache(r) \in Paths /\ Cache(r)[1] = "cache" /\ Listings \subseteq Proper(Cache(r))
  BY <1>2, PathKinds, HoldsKinds DEF Cache, Fits, Proper
<1>4. ASSUME left[r] # <<>>
      PROVE  /\ Head(left[r]) \in Places /\ Head(left[r]) \in Items(left[r])
             /\ Tail(left[r]) \in Seq(Places) /\ Items(Tail(left[r])) \subseteq Items(left[r])
             /\ Remote(r) \in Paths /\ file[Remote(r)] \in Listings \cup {Absent, Torn}
  <2>1. /\ Head(left[r]) \in Places /\ Head(left[r]) \in Items(left[r])
        /\ Tail(left[r]) \in Seq(Places) /\ Items(Tail(left[r])) \subseteq Items(left[r])
    BY <1>2, <1>4, SeqItems
  <2>2. PublicOf[Cfg(r).source] \in MetaKinds
    BY <1>2, Layouts
  <2>3. Remote(r) \in Paths /\ Holds(Remote(r)[1]) = Listings
    BY <2>1, <2>2, PathKinds, HoldsKinds DEF Remote
  <2> QED BY <2>1, <2>3 DEF TypeInv, Shape, Fits, Proper
<1> QED BY <1>1, <1>2, <1>3, <1>4

\* What a fetch does: nothing is queued, or a list as it is, and only for rpm something is kept.
LEMMA FetchIs ==
  ASSUME TypeInv, NEW r \in Requests, Fetch(r)
  PROVE  \E l \in {file[Remote(r)], Torn} :
           /\ \/ /\ l \in Listings /\ Cfg(r).source # "rpm"
                 /\ queue' = [queue EXCEPT ![r] = <<<<Cache(r), [l EXCEPT !.open = TRUE]>>>>]
              \/ queue' = queue
           /\ \/ /\ l \in Listings /\ Cfg(r).source = "rpm" /\ got' = [got EXCEPT ![r] = @ \cup l.pkgs]
              \/ got' = got
           /\ left' = [left EXCEPT ![r] = Tail(@)] /\ tries' = [tries EXCEPT ![r] = 0]
           /\ UNCHANGED <<file, pc, req, half, repo, todo, history, bounds>>
<1>1. PICK l \in Download(r) :
        /\ IF l \in Listings /\ Cfg(r).source # "rpm"
           THEN Enqueue(r, <<<<Cache(r), [l EXCEPT !.open = TRUE]>>>>)
           ELSE UNCHANGED <<queue, half>>
        /\ got' = IF l \in Listings /\ Cfg(r).source = "rpm"
                  THEN [got EXCEPT ![r] = @ \cup l.pkgs] ELSE got
  BY DEF Fetch
<1>2. l \in {file[Remote(r)], Torn}
  BY DEF Download
<1>3. /\ left' = [left EXCEPT ![r] = Tail(@)] /\ tries' = [tries EXCEPT ![r] = 0]
      /\ UNCHANGED <<file, pc, req, repo, todo, history, bounds>>
  BY DEF Fetch, Skip
<1> QED BY <1>1, <1>2, <1>3 DEF Enqueue

LEMMA FetchTypes ==
  ASSUME TypeInv, NEW r \in Requests, Fetch(r) PROVE Shape' /\ InOrder(r)' /\ TornBy(r)'
<1>1. At(r, "fetch") /\ left[r] # <<>>
  BY DEF Fetch
<1>2. PICK l \in {file[Remote(r)], Torn} :
        /\ \/ /\ l \in Listings /\ Cfg(r).source # "rpm"
              /\ queue' = [queue EXCEPT ![r] = <<<<Cache(r), [l EXCEPT !.open = TRUE]>>>>]
           \/ queue' = queue
        /\ \/ /\ l \in Listings /\ Cfg(r).source = "rpm" /\ got' = [got EXCEPT ![r] = @ \cup l.pkgs]
           \/ got' = got
        /\ left' = [left EXCEPT ![r] = Tail(@)] /\ tries' = [tries EXCEPT ![r] = 0]
        /\ UNCHANGED <<file, pc, req, half, repo, todo, history, bounds>>
  BY FetchIs
<1>3. Tail(left[r]) \in Seq(Places) /\ Tail(left[r]) \in Seq(Places \cup MetaKinds)
  BY <1>1, Fetching, SeqItems DEF TypeInv, Shape
<1>4. queue' \in [Requests -> Seq(Writes)] /\ \A w \in Items(queue'[r]) : w[1][1] = "cache"
  <2>1. CASE queue' = queue
    BY <1>1, <2>1, Fetching DEF TypeInv, Shape
  <2>2. ASSUME l \in Listings, queue' = [queue EXCEPT ![r] = <<<<Cache(r), [l EXCEPT !.open = TRUE]>>>>]
        PROVE  queue' \in [Requests -> Seq(Writes)] /\ \A w \in Items(queue'[r]) : w[1][1] = "cache"
    <3> DEFINE v == [l EXCEPT !.open = TRUE]  ws == <<<<Cache(r), v>>>>
    <3>1. v \in Listings
      BY <2>2 DEF Listings
    <3>2. Cache(r) \in Paths /\ v \in Proper(Cache(r)) /\ Cache(r)[1] = "cache"
      BY <1>1, <3>1, Fetching
    <3> HIDE DEF v
    <3>3. ws \in Seq(Writes) /\ Items(ws) = {<<Cache(r), v>>}
      BY <3>2, OneWrite
    <3>4. queue' = [queue EXCEPT ![r] = ws]
      BY <2>2 DEF v
    <3> HIDE DEF ws
    <3> QED BY <3>2, <3>3, <3>4 DEF TypeInv, Shape
  <2> QED BY <1>2, <2>1, <2>2
<1>5. got' \in [Requests -> SUBSET (Pkgs \cup (Repos \X Pkgs))] /\ got'[r] \subseteq Pkgs
  <2>1. got[r] \subseteq Pkgs /\ got \in [Requests -> SUBSET (Pkgs \cup (Repos \X Pkgs))]
    BY <1>1, Fetching DEF TypeInv, Shape
  <2>2. l \in Listings => l.pkgs \subseteq Pkgs
    BY DEF Listings
  <2>3. ASSUME NEW e \in SUBSET Pkgs, got' = [got EXCEPT ![r] = @ \cup e]
        PROVE  got' \in [Requests -> SUBSET (Pkgs \cup (Repos \X Pkgs))] /\ got'[r] \subseteq Pkgs
    BY <2>1, <2>3
  <2> QED BY <1>2, <2>1, <2>2, <2>3
<1>9. left' \in [Requests -> Seq(Places \cup MetaKinds)] /\ tries' \in [Requests -> 0 .. 2]
  BY <1>2, <1>3 DEF TypeInv, Shape
<1>6. Shape'
  BY <1>2, <1>9, <1>4, <1>5 DEF TypeInv, Shape, history, bounds
<1>7. /\ pc'[r] = "fetch" /\ req'[r].op = "update" /\ half'[r] = FALSE
      /\ repo'[r] = repo[r] /\ left'[r] = Tail(left[r]) /\ repo[r][1] \in Repos
  BY <1>1, <1>2, Fetching DEF TypeInv, Shape
<1>8. InOrder(r)'
  BY <1>3, <1>4, <1>5, <1>7 DEF InOrder, Staged, May, Working
<1> QED BY <1>6, <1>7, <1>8 DEF TornBy

LEMMA FetchFailsTypes ==
  ASSUME TypeInv, NEW r \in Requests, FetchFails(r) PROVE Shape' /\ InOrder(r)' /\ TornBy(r)'
<1>1. At(r, "fetch") /\ left[r] # <<>>
  BY DEF FetchFails
<1>2. /\ UNCHANGED <<file, pc, req, queue, half, repo, todo, got, history>>
      /\ started' = started /\ faults' \in 0 .. MaxFaults
  BY LimitsAssumption DEF FetchFails, Fault, bounds, TypeInv, Shape
<1>3. /\ tries' \in [Requests -> 0 .. 2]
      /\ left' = left \/ left' = [left EXCEPT ![r] = Tail(@)]
  <2>1. TriesOf[Cfg(r).source] \in {2, 3}
    BY <1>1, Fetching, Layouts
  <2>2. tries[r] \in 0 .. 2 /\ tries \in [Requests -> 0 .. 2]
    BY DEF TypeInv, Shape
  <2>3. CASE tries[r] + 1 < TriesOf[Cfg(r).source]
    <3>1. tries' = [tries EXCEPT ![r] = @ + 1] /\ left' = left
      BY <2>3 DEF FetchFails
    <3>2. tries[r] + 1 \in 0 .. 2
      BY <2>1, <2>2, <2>3
    <3> QED BY <2>2, <3>1, <3>2
  <2>4. CASE ~(tries[r] + 1 < TriesOf[Cfg(r).source])
    BY <2>2, <2>4 DEF FetchFails, Skip
  <2> QED BY <2>3, <2>4
<1>4. Tail(left[r]) \in Seq(Places) /\ Tail(left[r]) \in Seq(Places \cup MetaKinds)
  BY <1>1, Fetching, SeqItems DEF TypeInv, Shape
<1>5. Shape'
  BY <1>2, <1>3, <1>4 DEF TypeInv, Shape, history
<1>6. /\ pc'[r] = "fetch" /\ req'[r].op = "update" /\ half'[r] = FALSE /\ Items(queue'[r]) = {}
      /\ repo'[r] = repo[r] /\ left'[r] \in Seq(Places) /\ got'[r] \subseteq Pkgs /\ repo[r][1] \in Repos
  BY <1>1, <1>2, <1>3, <1>4, Fetching DEF TypeInv, Shape
<1>7. InOrder(r)'
  BY <1>6 DEF InOrder, Staged, Working
<1> QED BY <1>5, <1>6, <1>7 DEF TornBy

LEMMA FetchedTypes ==
  ASSUME TypeInv, NEW r \in Requests, Fetched(r) PROVE Shape' /\ InOrder(r)' /\ TornBy(r)'
<1> DEFINE l == [pkgs |-> got[r], open |-> TRUE]  ws == <<<<Cache(r), l>>>>
<1>1. At(r, "fetch")
  BY DEF Fetched
<1>2. UNCHANGED <<file, req, repo, todo, left, tries, history, bounds>>
  BY DEF Fetched
<1>3. CASE got[r] # {}
  <2>1. l \in Listings
    BY <1>1, Fetching DEF Listings
  <2>2. Cache(r) \in Paths /\ l \in Proper(Cache(r)) /\ Cache(r)[1] = "cache"
    BY <1>1, <2>1, Fetching
  <2> HIDE DEF l
  <2>3. ws \in Seq(Writes) /\ Items(ws) = {<<Cache(r), l>>}
    BY <2>2, OneWrite
  <2>4. queue' = [queue EXCEPT ![r] = ws] /\ got' = [got EXCEPT ![r] = {}] /\ UNCHANGED <<pc, half>>
    BY <1>3 DEF Fetched, Enqueue, l
  <2> HIDE DEF ws
  <2>5. Shape'
    BY <1>2, <2>3, <2>4 DEF TypeInv, Shape, history, bounds
  <2>6. /\ pc'[r] = "fetch" /\ req'[r].op = "update" /\ half'[r] = FALSE /\ queue'[r] = ws
        /\ repo'[r] = repo[r] /\ left'[r] \in Seq(Places) /\ got'[r] = {} /\ repo[r][1] \in Repos
    BY <1>1, <1>2, <2>4, Fetching DEF TypeInv, Shape
  <2>7. InOrder(r)'
    BY <2>2, <2>3, <2>6 DEF InOrder, Staged, May, Working
  <2> QED BY <2>5, <2>6, <2>7 DEF TornBy
<1>4. CASE got[r] = {}
  <2>1. pc' = [pc EXCEPT ![r] = "next"] /\ UNCHANGED <<queue, half, got>>
    BY <1>4 DEF Fetched, Goto
  <2>2. Shape'
    BY <1>2, <2>1 DEF TypeInv, Shape, Stages, history, bounds
  <2>3. pc'[r] = "next" /\ req'[r].op = "update" /\ half'[r] = FALSE /\ Items(queue'[r]) = {}
    BY <1>1, <1>2, <2>1, Fetching DEF TypeInv, Shape
  <2> QED BY <2>2, <2>3 DEF InOrder, Staged, Working, TornBy
<1> QED BY <1>3, <1>4

LEMMA IndexTypes ==
  ASSUME TypeInv, NEW r \in Requests, Index(r) PROVE Shape' /\ InOrder(r)' /\ TornBy(r)'
<1>1. req[r].op \in {"update", "rebuild"} /\ half[r] = FALSE /\ Items(queue[r]) = {}
  BY Idle DEF Index, At
<1>2. /\ pc' = [pc EXCEPT ![r] = "indexing"] /\ todo' = [todo EXCEPT ![r] = Configured]
      /\ got' = [got EXCEPT ![r] = {}]
      /\ UNCHANGED <<file, req, queue, half, repo, left, tries, history, bounds>>
  BY DEF Index, Goto
<1>3. Configured \in SUBSET (Repos \X Configs)
  BY LoadedConfigs DEF TypeInv
<1>4. Shape'
  BY <1>2, <1>3 DEF TypeInv, Shape, Stages, history, bounds, Fits, Proper
<1>5. /\ pc'[r] = "indexing" /\ Items(queue'[r]) = {} /\ req'[r].op \in {"update", "rebuild"}
      /\ half'[r] = FALSE /\ got'[r] = {}
  BY <1>1, <1>2 DEF TypeInv, Shape
<1>6. InOrder(r)'
  BY <1>5 DEF InOrder, Staged, May, Working
<1> QED BY <1>4, <1>5, <1>6 DEF TornBy

LEMMA Entries ==
  ASSUME NEW s, NEW n \in Repos PROVE CachedPkgs(s, n) \subseteq Repos \X Pkgs
<1> DEFINE c == file[<<"cache", <<s, n>>>>]
<1>1. CachedPkgs(s, n) = IF c \in Listings THEN {n} \X c.pkgs ELSE {}
  BY DEF CachedPkgs
<1>2. c \in Listings => c.pkgs \subseteq Pkgs
  BY DEF Listings
<1> QED BY <1>1, <1>2

LEMMA IndexRepoTypes ==
  ASSUME TypeInv, NEW r \in Requests, IndexRepo(r) PROVE Shape' /\ InOrder(r)' /\ TornBy(r)'
<1>1. /\ At(r, "indexing") /\ req[r].op \in {"update", "rebuild"} /\ half[r] = FALSE
      /\ Items(queue[r]) = {} /\ Working(r)
  BY Idle DEF IndexRepo, At, TypeInv, Order, InOrder
<1>2. /\ \E x \in todo[r] : todo' = [todo EXCEPT ![r] = @ \ {x}]
      /\ UNCHANGED <<file, pc, req, queue, half, repo, left, tries, history, bounds>>
  BY DEF IndexRepo
<1>3. \E e \in SUBSET (Repos \X Pkgs) : got' = [got EXCEPT ![r] = @ \cup e]
  <2>1. PICK x \in todo[r] :
          got' = [got EXCEPT ![r] = @ \cup CASE x[2].source = "native" -> SamEntries(x[1])
                                             [] x[2].source = "rpm"    -> RpmEntries(x[1])
                                             [] x[2].source = "deb"    -> DebEntries(x[1])]
    BY DEF IndexRepo
  <2>2. x[1] \in Repos /\ x[2].source \in Sources
    BY ConfigFields DEF TypeInv, Shape
  <2>3. SamEntries(x[1]) \subseteq Repos \X Pkgs /\ RpmEntries(x[1]) \subseteq Repos \X Pkgs
        /\ DebEntries(x[1]) = {}
    BY <2>2, Entries DEF SamEntries, RpmEntries, DebEntries
  <2> QED BY <2>1, <2>2, <2>3 DEF Sources
<1>4. got' \in [Requests -> SUBSET (Pkgs \cup (Repos \X Pkgs))] /\ got'[r] \subseteq Repos \X Pkgs
  BY <1>1, <1>3 DEF TypeInv, Shape, Working, At
<1>8. todo' \in [Requests -> SUBSET (Repos \X Configs)]
  BY <1>2 DEF TypeInv, Shape
<1>5. Shape'
  BY <1>2, <1>4, <1>8 DEF TypeInv, Shape, history, bounds
<1>6. pc'[r] = "indexing" /\ Items(queue'[r]) = {} /\ req'[r].op \in {"update", "rebuild"} /\ half'[r] = FALSE
  BY <1>1, <1>2 DEF TypeInv, Shape, At
<1>7. InOrder(r)'
  BY <1>4, <1>6 DEF InOrder, Staged, May, Working
<1> QED BY <1>5, <1>6, <1>7 DEF TornBy

LEMMA SaveIndexTypes ==
  ASSUME TypeInv, NEW r \in Requests, SaveIndex(r) PROVE Shape' /\ InOrder(r)' /\ TornBy(r)'
<1> DEFINE x == <<"soname", None>>  ws == <<<<x, got[r]>>>>
<1>1. At(r, "indexing") /\ req[r].op \in {"update", "rebuild"} /\ half[r] = FALSE /\ Working(r)
  BY Idle DEF SaveIndex, At, TypeInv, Order, InOrder
<1>2. x \in Paths /\ got[r] \in Proper(x)
  BY <1>1, PathKinds, HoldsKinds DEF Working, At, Fits, Proper
<1>3. ws \in Seq(Writes) /\ Items(ws) = {<<x, got[r]>>}
  BY <1>2, OneWrite
<1>4. /\ pc' = [pc EXCEPT ![r] = "end"] /\ queue' = [queue EXCEPT ![r] = ws]
      /\ got' = [got EXCEPT ![r] = {}]
      /\ UNCHANGED <<half, file, req, repo, todo, left, tries, history, bounds>>
  BY DEF SaveIndex, Goto, Enqueue
<1> HIDE DEF ws
<1>5. Shape'
  BY <1>3, <1>4 DEF TypeInv, Shape, Stages, history, bounds
<1>6. pc'[r] = "end" /\ queue'[r] = ws /\ req'[r].op \in {"update", "rebuild"} /\ half'[r] = FALSE
  BY <1>1, <1>4 DEF TypeInv, Shape
<1>7. InOrder(r)'
  BY <1>3, <1>6 DEF InOrder, Staged, May, Working
<1> QED BY <1>5, <1>6, <1>7 DEF TornBy
-----------------------------------------------------------------------------
(* TypeInv is inductive. *)

LEMMA OwnTypes ==
  ASSUME TypeInv, NEW r \in Requests, Step(r) PROVE Shape' /\ InOrder(r)' /\ TornBy(r)'
BY TruncateTypes, FillTypes, WriteFailsTypes, EndTypes, LoadFailsTypes, AddTypes, CreateTypes, RegisterTypes,
   RemoveTypes, UncacheTypes, GenKeyTypes, SetConfTypes, RenameTypes, PublishTypes, ListTypes,
   PublishedTypes, SignTypes, ReleaseTypes, UpdateTypes, NextTypes, FetchTypes, FetchFailsTypes,
   FetchedTypes, IndexTypes, IndexRepoTypes, SaveIndexTypes DEF Step, Administer, Refresh

\* An administrator writes none of the files of updates, and nobody else those of administrators.
LEMMA AdminWrites ==
  ASSUME TypeInv, NEW s \in Requests, queue[s] # <<>>
  PROVE  /\ req[s].op \in Admin => To(s)[1] \notin {"cache", "soname"}
         /\ req[s].op \notin Admin => To(s)[1] \in {"cache", "soname"}
<1>1. To(s)[1] \in May(pc[s], req[s].op)
  BY Working1 DEF TypeInv
<1>2. Staged(s) /\ req[s].op \in Admin \cup {"remove", "update", "rebuild"}
  BY OperationFields DEF TypeInv, Order, InOrder, Shape
<1>3. ASSUME req[s].op \in Admin PROVE May(pc[s], req[s].op) \cap {"cache", "soname"} = {}
  BY <1>2, <1>3 DEF Staged, Ended, May, Admin, SignedKinds, MetaKinds
<1>4. ASSUME req[s].op \notin Admin PROVE May(pc[s], req[s].op) \subseteq {"cache", "soname"}
  BY <1>2, <1>4 DEF Staged, Ended, May, Admin
<1> QED BY <1>1, <1>3, <1>4

LEMMA StepTypes ==
  ASSUME TypeInv, NEW r \in Requests, Step(r) PROVE TypeInv'
<1>1. Shape' /\ InOrder(r)' /\ TornBy(r)'
  BY OwnTypes
<1>2. /\ UNCHANGED <<req, crossed>>
      /\ \A s \in Requests \ {r} :
           /\ pc'[s] = pc[s] /\ repo'[s] = repo[s]
           /\ todo'[s] = todo[s] /\ left'[s] = left[s] /\ got'[s] = got[s]
  BY Others DEF TypeInv
<1>3. ASSUME NEW s \in Requests \ {r} PROVE InOrder(s)'
  <2>1. InOrder(s)
    BY DEF TypeInv, Order
  <2>4. \A w \in Items(queue'[s]) : w \in Items(queue[s]) \/ (pc[s] = "rename" /\ w[1] = <<"conf", None>>)
    BY OtherQueue
  <2> HIDE DEF Items
  <2>2. ASSUME NEW w \in Items(queue'[s]) PROVE w[1][1] \in May(pc[s], req[s].op)
    <3>1. w \in Items(queue[s]) \/ (pc[s] = "rename" /\ w[1] = <<"conf", None>>)
      BY <2>4
    <3> QED BY <2>1, <3>1 DEF InOrder, May
  <2>3. Staged(s)' /\ Working(s)'
    BY <1>2, <2>1 DEF InOrder, Staged, Working, Cfg
  <2> QED BY <1>2, <2>2, <2>3 DEF InOrder
<1>4. ASSUME NEW s \in Requests \ {r} PROVE TornBy(s)'
  <2>1. TornBy(s)
    BY DEF TypeInv, HalfTorn
  <2>2. half'[s] => queue'[s] # <<>>
    BY OtherQueue
  <2>3. ASSUME ~crossed, half'[s], req[s].op \in Admin, To(s)'[1] # "cfg" PROVE file'[To(s)'] = Torn
    <3>1. queue'[s] = queue[s] /\ half[s]
      BY <2>3, OtherQueue
    <3>2. queue[s] # <<>> /\ To(s)' = To(s) /\ file[To(s)] = Torn
      BY <2>1, <2>3, <3>1 DEF TornBy, To
    <3>3. AtWork(s) /\ To(s) \in Paths
      BY <3>2, Working1 DEF TypeInv
    <3>4. To(s)[1] \notin {"cfg", "cache", "soname"}
      BY <2>3, <3>2, AdminWrites
    <3>5. file'[To(s)] = file[To(s)]
      BY <2>3, <3>3, <3>4, Undisturbed
    <3> QED BY <3>2, <3>5
  <2> QED BY <1>2, <2>2, <2>3 DEF TornBy
<1>5. OneAdmin'
  <2>1. \A s \in Requests : AtWork(s)' => AtWork(s)
    <3>1. AtWork(r)
      BY Working1 DEF TypeInv
    <3> QED BY <1>2, <3>1 DEF AtWork
  <2> QED BY <1>2, <2>1 DEF TypeInv, OneAdmin
<1> QED BY <1>1, <1>3, <1>4, <1>5 DEF TypeInv, Order, HalfTorn

LEMMA BeginTypes ==
  ASSUME TypeInv, NEW r \in Requests, NEW q \in Operations, Begin(r, q) PROVE TypeInv'
<1>1. /\ ~AtWork(r) /\ started < MaxStarts /\ started' = started + 1
      /\ crossed' = (crossed \/ (q.op \in Admin /\ \E s \in Requests : AtWork(s) /\ req[s].op \in Admin))
      /\ req' = [req EXCEPT ![r] = q] /\ pc' = [pc EXCEPT ![r] = q.op]
      /\ queue' = [queue EXCEPT ![r] = <<>>] /\ half' = [half EXCEPT ![r] = FALSE]
      /\ UNCHANGED <<file, repo, todo, left, tries, got, offered, published, faults>>
  BY DEF Begin, Goto
<1>2. q.op \in Admin \cup {"remove", "update", "rebuild"}
  BY OperationFields
<1>3. <<>> \in Seq(Writes) /\ Items(<<>>) = {}
  BY ShortItems
<1>4. started' \in 0 .. MaxStarts
  BY <1>1, LimitsAssumption DEF TypeInv, Shape
<1>5. Shape'
  <2>1. /\ pc' \in [Requests -> Stages] /\ req' \in [Requests -> Operations \cup {[op |-> "update"]}]
        /\ queue' \in [Requests -> Seq(Writes)] /\ half' \in [Requests -> BOOLEAN]
    BY <1>1, <1>2, <1>3 DEF TypeInv, Shape, Stages
  <2>2. crossed' \in BOOLEAN
    BY <1>1 DEF TypeInv, Shape
  <2> QED BY <1>1, <1>4, <2>1, <2>2 DEF TypeInv, Shape
<1>6. /\ pc'[r] = q.op /\ req'[r] = q /\ queue'[r] = <<>> /\ half'[r] = FALSE
      /\ \A s \in Requests \ {r} : /\ pc'[s] = pc[s] /\ queue'[s] = queue[s] /\ half'[s] = half[s]
                                   /\ req'[s] = req[s]
  BY <1>1 DEF TypeInv, Shape
<1>7. Order'
  <2>1. InOrder(r)'
    BY <1>2, <1>3, <1>6 DEF InOrder, Staged, Working, Admin
  <2>2. ASSUME NEW s \in Requests \ {r} PROVE InOrder(s)'
    <3>1. InOrder(s)
      BY DEF TypeInv, Order
    <3> QED BY <1>1, <1>6, <3>1 DEF InOrder, Staged, Working, Cfg
  <2> QED BY <2>1, <2>2 DEF Order
<1>8. HalfTorn'
  <2>1. TornBy(r)'
    BY <1>6 DEF TornBy
  <2>2. ASSUME NEW s \in Requests \ {r} PROVE TornBy(s)'
    <3>1. TornBy(s)
      BY DEF TypeInv, HalfTorn
    <3> QED BY <1>1, <1>6, <3>1 DEF TornBy, To
  <2> QED BY <2>1, <2>2 DEF HalfTorn
<1>9. OneAdmin'
  <2>1. ASSUME ~crossed', NEW s \in Requests, NEW t \in Requests, AtWork(s)', AtWork(t)',
               req'[s].op \in Admin, req'[t].op \in Admin
        PROVE  s = t
    <3> ~crossed /\ (q.op \in Admin => ~\E u \in Requests : AtWork(u) /\ req[u].op \in Admin)
      BY <1>1, <2>1
    <3>1. CASE s # r /\ t # r
      BY <1>6, <2>1, <3>1 DEF AtWork, TypeInv, OneAdmin
    <3>2. CASE s = r /\ t # r
      BY <1>1, <1>6, <2>1, <3>2 DEF AtWork
    <3>3. CASE s # r /\ t = r
      BY <1>1, <1>6, <2>1, <3>3 DEF AtWork
    <3> QED BY <3>1, <3>2, <3>3
  <2> QED BY <2>1 DEF OneAdmin
<1> QED BY <1>5, <1>7, <1>8, <1>9 DEF TypeInv

\* After the end of the process nobody is at work, and nothing is left to write.
LEMMA CrashEffect ==
  ASSUME Crash, Shape
  PROVE  /\ UNCHANGED <<file, req, repo, todo, left, tries, got, history, started>>
         /\ faults' = faults + 1 /\ faults < MaxFaults
         /\ \A r \in Requests : /\ pc'[r] \in Ended /\ ~AtWork(r)'
                                /\ queue'[r] = <<>> /\ half'[r] = FALSE
         /\ pc' \in [Requests -> Stages] /\ queue' \in [Requests -> Seq(Writes)]
         /\ half' \in [Requests -> BOOLEAN]
<1>1. /\ pc' = [r \in Requests |-> IF AtWork(r) THEN "failed" ELSE pc[r]]
      /\ queue' = [r \in Requests |-> <<>>] /\ half' = [r \in Requests |-> FALSE]
      /\ UNCHANGED <<file, req, repo, todo, left, tries, got, history, started>>
      /\ faults' = faults + 1 /\ faults < MaxFaults
  BY DEF Crash, Fault
<1>2. \A r \in Requests : pc'[r] \in Ended
  BY <1>1 DEF AtWork, Ended
<1>3. <<>> \in Seq(Writes)
  OBVIOUS
<1>4. pc' \in [Requests -> Stages]
  BY <1>1 DEF Shape, Stages, Ended
<1>5. queue' \in [Requests -> Seq(Writes)] /\ half' \in [Requests -> BOOLEAN]
  BY <1>1, <1>3
<1>6. \A r \in Requests : queue'[r] = <<>> /\ half'[r] = FALSE
  BY <1>1
<1> QED BY <1>1, <1>2, <1>4, <1>5, <1>6 DEF AtWork

LEMMA CrashTypes == ASSUME TypeInv, Crash PROVE TypeInv'
<1>1. /\ UNCHANGED <<file, req, repo, todo, left, tries, got, history, started>>
      /\ faults' = faults + 1 /\ faults < MaxFaults
      /\ \A r \in Requests : /\ pc'[r] \in Ended /\ ~AtWork(r)'
                             /\ queue'[r] = <<>> /\ half'[r] = FALSE
      /\ pc' \in [Requests -> Stages] /\ queue' \in [Requests -> Seq(Writes)]
      /\ half' \in [Requests -> BOOLEAN]
  BY CrashEffect DEF TypeInv
<1>2. faults' \in 0 .. MaxFaults
  BY <1>1, LimitsAssumption DEF TypeInv, Shape
<1>3. Shape'
  BY <1>1, <1>2 DEF TypeInv, Shape, history
<1>4. Order'
  BY <1>1, ShortItems DEF Order, InOrder, Staged, Working, Ended
<1> QED BY <1>1, <1>3, <1>4 DEF TypeInv, OneAdmin, HalfTorn, TornBy

LEMMA InitTypes == Init => TypeInv
<1> SUFFICES ASSUME Init PROVE TypeInv
  OBVIOUS
<1>1. file \in [Paths -> Contents] /\ \A x \in Paths : file[x] \in Fits(x)
  <2>1. file = [x \in Paths |-> file[x]] /\ \A x \in Paths : file[x] \in Holds(x[1]) \cup {Absent}
    BY FilesAssumption DEF Init
  <2>2. \A x \in Paths : file[x] \in Fits(x) /\ file[x] \in Contents
    BY <2>1, WriteFits DEF Fits, Proper
  <2> QED BY <2>1, <2>2
<1>2. <<>> \in Seq(Writes) /\ <<>> \in Seq(Places \cup MetaKinds) /\ Items(<<>>) = {}
  BY ShortItems
<1>3. offered \subseteq Sources \X Places \X (SUBSET Pkgs)
  BY OffersShape DEF Init
<1>4. <<None, NoCfg>> \in (Repos \cup {None}) \X Configs
  BY MadeConfigs
<1>5. Shape
  <2>1. crossed \in BOOLEAN
    BY DEF Init
  <2> QED BY <1>1, <1>2, <1>3, <1>4, <2>1, LimitsAssumption DEF Init, Shape, Stages, Ended
<1>6. \A r \in Requests : pc[r] = "idle" /\ queue[r] = <<>> /\ half[r] = FALSE
  BY DEF Init
<1> QED BY <1>2, <1>5, <1>6 DEF TypeInv, Order, InOrder, Staged, Working, Ended, OneAdmin, AtWork,
                                HalfTorn, TornBy

LEMMA NextTypeInv == TypeInv /\ [Next]_vars => TypeInv'
<1> SUFFICES ASSUME TypeInv, [Next]_vars PROVE TypeInv'
  OBVIOUS
<1>1. CASE Next
  BY <1>1, StepTypes, BeginTypes, CrashTypes DEF Next
<1>2. CASE UNCHANGED vars
  BY <1>2 DEF vars, locals, history, bounds, TypeInv, Shape, Order, InOrder, Staged, Working, Cfg,
              OneAdmin, AtWork, HalfTorn, TornBy, To
<1> QED BY <1>1, <1>2

LEMMA ShapeIsTypeOK == ASSUME Shape PROVE TypeOK
<1>1. \A r \in Requests : \A i \in DOMAIN queue[r] :
        queue[r][i][1] \in Paths /\ queue[r][i][2] \in Holds(queue[r][i][1][1]) \cup {Absent, Torn}
  <2> SUFFICES ASSUME NEW r \in Requests, NEW i \in DOMAIN queue[r]
               PROVE  queue[r][i] \in Writes
    BY DEF Writes, Fits, Proper
  <2> QED BY DEF Shape
<1> QED BY <1>1 DEF Shape, TypeOK, Fits, Proper, Stages

\* Whatever is asked for and whatever fails, each file holds what belongs into it, is torn or absent,
\* and each request is where its operation can be.
THEOREM Types == Spec => []TypeOK
<1>1. TypeInv => TypeOK
  BY ShapeIsTypeOK DEF TypeInv
<1> QED BY InitTypes, NextTypeInv, <1>1, PTL DEF Spec
-----------------------------------------------------------------------------
(* How the files of a place change. *)

\* A request that has something to write does nothing else.
LEMMA Busy ==
  ASSUME NEW r \in Requests, Step(r), queue[r] # <<>> PROVE Truncate(r) \/ Fill(r) \/ WriteFails(r)
BY DEF Step, Administer, Refresh, End, Add, Create, Register, Remove, Uncache, GenKey, SetConf,
   Rename, LoadFails, Publish, List, Published, Sign, WriteRelease, Update, NextRepo, Fetch, FetchFails, Fetched,
   Index, IndexRepo, SaveIndex, At

\* The files that only writes of administrators change, and how: to what is written exactly as long as
\* they have not crossed.
OfAdmins == MetaKinds \cup SignedKinds \cup {"archive", "key"}

LEMMA AdminFile ==
  ASSUME TypeInv, NEW r \in Requests, Step(r), NEW x \in Paths, x[1] \in OfAdmins
  PROVE  \/ file'[x] = file[x]
         \/ Truncate(r) /\ x = To(r) /\ file'[x] = Torn /\ req[r].op \in Admin
         \/ /\ Fill(r) /\ x = To(r) /\ file'[x] \in {Torn, Is(r)} /\ req[r].op \in Admin
            /\ ~crossed => file[x] = Torn /\ file'[x] = Is(r)
            /\ queue[r] # <<>> /\ Head(queue[r]) \in Items(queue[r])
<1> SUFFICES ASSUME file'[x] # file[x]
             PROVE  \/ Truncate(r) /\ x = To(r) /\ file'[x] = Torn /\ req[r].op \in Admin
                    \/ /\ Fill(r) /\ x = To(r) /\ file'[x] \in {Torn, Is(r)} /\ req[r].op \in Admin
                       /\ ~crossed => file[x] = Torn /\ file'[x] = Is(r)
                       /\ queue[r] # <<>> /\ Head(queue[r]) \in Items(queue[r])
  OBVIOUS
<1>1. x[1] \notin {"cfg", "cache", "conf", "conf.tmp", "soname"}
  BY DEF OfAdmins, MetaKinds, SignedKinds
<1>2. queue[r] # <<>> /\ x = To(r) /\ Head(queue[r]) \in Items(queue[r])
  BY <1>1, Touched, Working1 DEF TypeInv
<1>3. req[r].op \in Admin
  BY <1>1, <1>2, AdminWrites
<1>4. CASE Truncate(r)
  BY <1>2, <1>3, <1>4 DEF Truncate, TypeInv, Shape
<1>5. CASE Fill(r)
  <2>1. PICK end \in IF file[To(r)] = Absent THEN {Absent}
                     ELSE IF file[To(r)] \in {Torn, Is(r)} THEN {Is(r)} ELSE {Is(r), Torn} :
          file' = [file EXCEPT ![To(r)] = end]
    BY <1>5 DEF Fill
  <2>2. file'[x] = end
    BY <1>2, <2>1 DEF TypeInv, Shape
  <2>3. file'[x] \in {Torn, Is(r)}
    BY <1>2, <2>1, <2>2
  <2>4. ASSUME ~crossed PROVE file[x] = Torn /\ file'[x] = Is(r)
    <3>1. file[x] = Torn /\ Absent # Torn
      BY <1>1, <1>2, <1>3, <1>5, <2>4, Marks DEF Fill, TypeInv, HalfTorn, TornBy
    <3> QED BY <1>2, <2>1, <2>2, <3>1
  <2> QED BY <1>2, <1>3, <1>5, <2>3, <2>4
<1>6. CASE WriteFails(r)
  BY <1>6 DEF WriteFails
<1> QED BY <1>2, <1>4, <1>5, <1>6, Busy

\* Only create and publish queue lists.
LEMMA ListsQueued ==
  ASSUME TypeInv, NEW r \in Requests, Step(r), ~Create(r), ~Publish(r), ~List(r),
         NEW w \in Items(queue'[r]), w[1][1] \in MetaKinds
  PROVE  w \in Items(queue[r])
<1>1. CASE queue[r] # <<>>
  <2>1. Items(Tail(queue[r])) \subseteq Items(queue[r])
    BY <1>1, SeqItems DEF TypeInv, Shape
  <2>2. queue'[r] \in {queue[r], Tail(queue[r]), <<>>}
    BY <1>1, Busy DEF TypeInv, Shape, Truncate, Fill, WriteFails
  <2> QED BY <2>1, <2>2, ShortItems
<1>2. CASE queue[r] = <<>> /\ queue'[r] # queue[r]
  <2>1. Add(r) \/ Register(r) \/ GenKey(r) \/ SetConf(r) \/ WriteRelease(r)
        \/ Fetch(r) \/ Fetched(r) \/ SaveIndex(r)
    <3>1. ~Create(r) /\ ~Publish(r) /\ ~List(r) /\ queue' # queue /\ queue'[r] # queue[r]
      BY <1>2
    <3>2. ~Truncate(r) /\ ~Fill(r) /\ ~WriteFails(r)
      BY <1>2 DEF Truncate, Fill, WriteFails
    <3>3. ~End(r) /\ ~Remove(r) /\ ~Uncache(r) /\ ~Rename(r) /\ ~LoadFails(r)
      <4>1. ~End(r) /\ ~Remove(r) /\ ~Uncache(r) /\ ~LoadFails(r)
        BY <3>1 DEF End, Remove, Uncache, LoadFails, locals
      <4>2. half[r] = FALSE
        BY <1>2, Idle
      <4>3. Rename(r) => queue'[r] = queue[r]
        BY <4>2 DEF Rename, Fail, locals, Moved, Dropped
      <4> QED BY <3>1, <4>1, <4>3
    <3>4. ~Published(r) /\ ~Sign(r) /\ ~Update(r) /\ ~FetchFails(r) /\ ~Index(r) /\ ~IndexRepo(r)
      <4>1. ~Published(r) /\ ~Update(r) /\ ~FetchFails(r) /\ ~Index(r) /\ ~IndexRepo(r)
        BY <3>1 DEF Published, Update, FetchFails, Index, IndexRepo, locals
      <4>2. ~Sign(r)
        BY <3>1 DEF Sign, Fail, locals
      <4> QED BY <4>1, <4>2
    <3>5. ~NextRepo(r)
      BY <3>1 DEF NextRepo, locals
    <3> QED BY <3>1, <3>2, <3>3, <3>4, <3>5 DEF Step, Administer, Refresh
  <2>2. w[1][1] \in May(pc'[r], req'[r].op)
    BY OwnTypes DEF InOrder
  <2>4. CASE Add(r) \/ Register(r) \/ GenKey(r) \/ WriteRelease(r) \/ SaveIndex(r)
    <3>1. pc'[r] \in {"end", "failed", "done"}
      BY <2>4 DEF TypeInv, Shape, Add, Register, GenKey, WriteRelease, SaveIndex, Goto, Fail
    <3>2. May(pc'[r], req'[r].op) \cap MetaKinds = {}
      BY <3>1 DEF May, MetaKinds, SignedKinds
    <3> QED BY <2>2, <3>2
  <2>5. CASE SetConf(r)
    <3>1. pc'[r] \in {"rename", "failed"}
      BY <2>5 DEF TypeInv, Shape, SetConf, Goto, Fail
    <3> QED BY <2>2, <3>1 DEF May, MetaKinds
  <2>6. CASE Fetch(r) \/ Fetched(r)
    <3>1. pc'[r] \in {"fetch", "next"}
      BY <2>6 DEF TypeInv, Shape, Fetch, Fetched, Goto, At
    <3> QED BY <2>2, <3>1 DEF May, MetaKinds
  <2> QED BY <2>1, <2>4, <2>5, <2>6
<1> QED BY <1>1, <1>2

\* How a request gets to publish, and goes on with it.
LEMMA Listing ==
  ASSUME TypeInv, NEW r \in Requests, Step(r), pc'[r] = "list"
  PROVE  \/ Publish(r)
         \/ /\ pc[r] = "list" /\ repo'[r] = repo[r] /\ req[r].op = "publish" /\ AtWork(r)
            /\ Truncate(r) \/ Fill(r) \/ List(r)
<1>1. ASSUME ~Publish(r) PROVE pc[r] = "list" /\ repo'[r] = repo[r] /\ (Truncate(r) \/ Fill(r) \/ List(r))
  <2>1. CASE queue[r] # <<>>
    <3>1. ~WriteFails(r)
      BY DEF WriteFails, AfterFailure, Goto, TypeInv, Shape
    <3> QED BY <2>1, <3>1, Busy DEF Truncate, Fill
  <2>2. CASE queue[r] = <<>>
    <3>1. ~Truncate(r) /\ ~Fill(r) /\ ~WriteFails(r)
      BY <2>2 DEF Truncate, Fill, WriteFails
    <3>2. ~End(r) /\ ~Add(r) /\ ~Create(r) /\ ~Register(r) /\ ~Remove(r) /\ ~Uncache(r)
      BY DEF End, Add, Create, Register, Remove, Uncache, Goto, TypeInv, Shape
    <3>3. ~GenKey(r) /\ ~SetConf(r) /\ ~Rename(r) /\ ~Published(r) /\ ~Sign(r) /\ ~WriteRelease(r)
      <4>1. ~GenKey(r) /\ ~SetConf(r) /\ ~Rename(r)
        BY DEF GenKey, SetConf, Rename, Goto, Fail, TypeInv, Shape
      <4>2. ~Published(r) /\ ~Sign(r) /\ ~WriteRelease(r)
        BY DEF Published, Sign, WriteRelease, Goto, Fail, TypeInv, Shape
      <4> QED BY <4>1, <4>2
    <3>8. ~LoadFails(r)
      BY DEF LoadFails, Goto, TypeInv, Shape
    <3>4. ~Update(r) /\ ~Index(r) /\ ~IndexRepo(r) /\ ~SaveIndex(r)
      BY DEF Update, Index, IndexRepo, SaveIndex, Goto, At, TypeInv, Shape
    <3>5. ~Fetch(r) /\ ~FetchFails(r) /\ ~Fetched(r)
      BY DEF Fetch, FetchFails, Fetched, Goto, At, TypeInv, Shape
    <3>7. List(r) => pc[r] = "list" /\ repo'[r] = repo[r]
      BY DEF List, WriteList, Goto, Fail, At, locals, TypeInv, Shape
    <3>6. ~NextRepo(r)
      BY DEF NextRepo, Goto, TypeInv, Shape
    <3> QED BY <1>1, <3>1, <3>2, <3>3, <3>4, <3>5, <3>6, <3>7, <3>8 DEF Step, Administer, Refresh
  <2> QED BY <2>1, <2>2
<1>2. pc[r] = "list" => req[r].op = "publish" /\ AtWork(r)
  <2>1. Staged(r) /\ req[r].op \in Admin \cup {"remove", "update", "rebuild"}
    BY OperationFields DEF TypeInv, Order, InOrder, Shape
  <2> QED BY <2>1 DEF Staged, Ended, Admin, AtWork
<1> QED BY <1>1, <1>2
-----------------------------------------------------------------------------
(* ListedHasArchive: the archive goes first, and no operation takes one away. *)

LEMMA MetaPath ==
  ASSUME NEW x \in Paths, x[1] \in MetaKinds
  PROVE  x[2] \in Places /\ x = <<x[1], x[2]>>
BY DEF Paths, MetaKinds, SignedKinds

LEMMA ItemShape ==
  ASSUME Shape, NEW r \in Requests, NEW w \in Items(queue[r])
  PROVE  /\ w = <<w[1], w[2]>> /\ w[1] \in Paths /\ w[2] \in Proper(w[1])
         /\ w[1][1] \in MetaKinds => /\ w[1][2] \in Places /\ w[1] = <<w[1][1], w[1][2]>>
                                     /\ w[2] \in Listings /\ w[2].pkgs \subseteq Pkgs
<1>1. w \in Writes
  BY SeqItems DEF Shape
<1>2. w = <<w[1], w[2]>> /\ w[1] \in Paths /\ w[2] \in Proper(w[1])
  BY <1>1 DEF Writes
<1>3. ASSUME w[1][1] \in MetaKinds
      PROVE  /\ w[1][2] \in Places /\ w[1] = <<w[1][1], w[1][2]>>
             /\ w[2] \in Listings /\ w[2].pkgs \subseteq Pkgs
  <2>1. w[1][2] \in Places /\ w[1] = <<w[1][1], w[1][2]>>
    BY <1>2, <1>3, MetaPath
  <2>2. w[2] \in Listings
    BY <1>2, <1>3, HoldsKinds DEF Proper
  <2> QED BY <2>1, <2>2 DEF Listings
<1> QED BY <1>2, <1>3

LEMMA ArchivesStay ==
  ASSUME TypeInv, NEW r \in Requests, Step(r), NEW p \in Places, NEW k \in Pkgs,
         file[<<"archive", <<p, k>>>>] # Absent
  PROVE  file'[<<"archive", <<p, k>>>>] # Absent
<1> DEFINE x == <<"archive", <<p, k>>>>
<1>1. x \in Paths /\ x[1] \in OfAdmins
  BY PathKinds DEF OfAdmins
<1>2. queue[r] # <<>> => Is(r) \in Proper(To(r))
  BY Working1 DEF TypeInv
<1> HIDE DEF x
<1>3. Absent # Torn /\ Absent \notin Proper(x)
  BY <1>1, Marks DEF Proper
<1>4. file'[x] # Absent
  BY <1>1, <1>2, <1>3, AdminFile DEF x
<1> QED BY <1>4 DEF x

\* What is read of a metadata file has its archives if all lists have.
LEMMA ReadsArchived ==
  ASSUME TypeInv, Archived(file), NEW p \in Places, NEW m \in MetaKinds, NEW l \in Read(m, p),
         NEW k \in l.pkgs
  PROVE  k \in Pkgs /\ file[<<"archive", <<p, k>>>>] # Absent
<1>1. l \in Listings
  BY Reads DEF TypeInv
<1>2. k \in Pkgs
  BY <1>1 DEF Listings
<1>3. CASE \E n \in MetaKinds : l = file[<<n, p>>]
  BY <1>1, <1>2, <1>3 DEF Archived
<1>4. CASE l.pkgs \subseteq {j \in Pkgs : file[<<"archive", <<p, j>>>>] # Absent}
  BY <1>4
<1>5. "packages" \in MetaKinds /\ Empty.pkgs = {} /\ [Empty EXCEPT !.open = FALSE].pkgs = {}
  BY DEF MetaKinds, Empty
<1>6. CASE m = "packages"
  <2>1. l \in ReadPackages(p)
    BY <1>6 DEF Read
  <2>2. CASE file[<<"packages", p>>] = Torn
    <3>1. l \in {[Empty EXCEPT !.pkgs = ks] :
                   ks \in SUBSET {j \in Pkgs : file[<<"archive", <<p, j>>>>] # Absent}}
      BY <2>1, <2>2, MarksAssumption DEF ReadPackages
    <3>2. \A ks : [Empty EXCEPT !.pkgs = ks].pkgs = ks
      BY DEF Empty
    <3> QED BY <3>1, <3>2, <1>4
  <2>3. CASE file[<<"packages", p>>] # Torn
    BY <2>1, <2>3, <1>3, <1>4, <1>5 DEF ReadPackages
  <2> QED BY <2>2, <2>3
<1>7. CASE m # "packages"
  <2>1. l \in ReadRpm(m, p)
    BY <1>7 DEF Read
  <2> QED BY <2>1, <1>3, <1>4, <1>5 DEF ReadRpm
<1> QED BY <1>6, <1>7

LEMMA BackedStep == ASSUME TypeInv, Backed, NEW r \in Requests, Step(r) PROVE Backed'
<1>1. Archived(file')
  <2> SUFFICES ASSUME NEW p \in Places, NEW m \in MetaKinds, NEW k \in Pkgs,
                      file'[<<m, p>>] \in Listings, k \in file'[<<m, p>>].pkgs
               PROVE  file[<<"archive", <<p, k>>>>] # Absent
    BY ArchivesStay DEF Archived
  <2> DEFINE x == <<m, p>>
  <2>1. x \in Paths /\ x[1] \in OfAdmins /\ x[1] = m /\ x[2] = p
    BY PathKinds DEF OfAdmins
  <2> HIDE DEF x
  <2>2. CASE file'[x] = file[x]
    BY <2>2 DEF Backed, Archived, x
  <2>3. CASE file'[x] = Torn
    BY <2>3, MarksAssumption DEF x
  <2>4. CASE file'[x] = Is(r) /\ x = To(r) /\ Head(queue[r]) \in Items(queue[r])
    <3>1. k \in Is(r).pkgs
      BY <2>4 DEF x
    <3> DEFINE w == Head(queue[r])
    <3>2. w \in Items(queue[r]) /\ w[1][1] = m /\ w[1][2] = p /\ k \in w[2].pkgs
      BY <2>1, <2>4, <3>1 DEF To, Is
    <3>3. ~Copying(r)
      BY <2>1, <2>4 DEF Copying, MetaKinds
    <3> HIDE DEF w
    <3> QED BY <3>2, <3>3 DEF Backed, BackedBy
  <2> QED BY <2>1, <2>2, <2>3, <2>4, AdminFile
<1>2. ASSUME NEW s \in Requests, NEW w \in Items(queue[s]), w[1][1] \in MetaKinds, NEW k \in w[2].pkgs
      PROVE  \/ file'[<<"archive", <<w[1][2], k>>>>] # Absent
             \/ Copying(s) /\ w[1][2] = Cfg(s).url /\ k = req[s].pkg
  <2>1. w[1][2] \in Places /\ k \in Pkgs
    BY <1>2, ItemShape DEF TypeInv
  <2>2. \/ file[<<"archive", <<w[1][2], k>>>>] # Absent
        \/ Copying(s) /\ w[1][2] = Cfg(s).url /\ k = req[s].pkg
    BY <1>2 DEF Backed, BackedBy
  <2> QED BY <2>1, <2>2, ArchivesStay
<1>3. ASSUME NEW s \in Requests, pc[s] = "list" PROVE Cfg(s).url \in Places /\ req[s].pkg \in Pkgs
  <2>1. Staged(s) /\ Working(s) /\ req[s].op \in Admin \cup {"remove", "update", "rebuild"}
    BY OperationFields DEF TypeInv, Order, InOrder, Shape
  <2>2. req[s].op = "publish"
    BY <1>3, <2>1 DEF Staged, Ended, Admin
  <2> QED BY <1>3, <2>1, <2>2, OperationFields DEF Working, TypeInv, Shape
<1>4. UNCHANGED req /\ \A s \in Requests \ {r} : pc'[s] = pc[s] /\ repo'[s] = repo[s]
  BY Others DEF TypeInv
<1>5. ASSUME NEW s \in Requests \ {r} PROVE BackedBy(s)'
  <2>1. BackedBy(s) /\ (pc[s] = "list" => Cfg(s).url \in Places /\ req[s].pkg \in Pkgs)
    BY <1>3 DEF Backed
  <2>2. pc[s] = "list" /\ file[<<"archive", <<Cfg(s).url, req[s].pkg>>>>] # Absent
          => file'[<<"archive", <<Cfg(s).url, req[s].pkg>>>>] # Absent
    BY <2>1, ArchivesStay
  <2>3. pc[s] = "list" => queue'[s] = queue[s] /\ half'[s] = half[s]
    BY OtherQueue
  <2>4. Cfg(s)' = Cfg(s) /\ (Copying(s) => Copying(s)')
    BY <1>4, <2>3 DEF Cfg, Copying, To
  <2>5. \A w \in Items(queue'[s]) : w[1][1] \in MetaKinds => w \in Items(queue[s])
    <3>1. \A w \in Items(queue'[s]) : w \in Items(queue[s]) \/ (pc[s] = "rename" /\ w[1] = <<"conf", None>>)
      BY OtherQueue
    <3> QED BY <3>1 DEF MetaKinds
  <2>6. ASSUME NEW w \in Items(queue'[s]), w[1][1] \in MetaKinds, NEW k \in w[2].pkgs
        PROVE  \/ file'[<<"archive", <<w[1][2], k>>>>] # Absent
               \/ Copying(s)' /\ w[1][2] = Cfg(s)'.url /\ k = req'[s].pkg
    BY <1>2, <1>4, <2>4, <2>5, <2>6
  <2>7. pc'[s] = "list" => file'[<<"archive", <<Cfg(s)'.url, req'[s].pkg>>>>] # Absent \/ Copying(s)'
    BY <1>4, <2>1, <2>2, <2>4 DEF BackedBy
  <2> QED BY <2>6, <2>7 DEF BackedBy
<1>9. ASSUME Publish(r), ~Fail(r) PROVE BackedBy(r)'
  <2> DEFINE c == file[<<"cfg", Name(r)>>]  a == PackageOf(r, c)  b == IndexOf(r, c)
  <2>1. /\ half[r] = FALSE /\ c.url \in Places /\ req[r].pkg \in Pkgs
        /\ \/ /\ file[<<"index", c.url>>] \in Listings
              /\ queue' = [queue EXCEPT ![r] = <<a, b>>]
           \/ queue' = [queue EXCEPT ![r] = <<a>>]
        /\ pc' = [pc EXCEPT ![r] = "list"] /\ repo' = [repo EXCEPT ![r] = <<Name(r), c>>]
        /\ UNCHANGED <<half, file, req>>
    BY <1>9, PublishIs
  <2>2. a[1] = <<"archive", <<c.url, req[r].pkg>>>> /\ a[1][1] \notin MetaKinds
    BY DEF PackageOf, MetaKinds
  <2>3. file[<<"index", c.url>>] \in Listings =>
          /\ b[1][2] = c.url
          /\ \A k \in b[2].pkgs : file[<<"archive", <<c.url, k>>>>] # Absent \/ k = req[r].pkg
    <3> SUFFICES ASSUME file[<<"index", c.url>>] \in Listings
                 PROVE  /\ b[1][2] = c.url
                        /\ \A k \in b[2].pkgs : file[<<"archive", <<c.url, k>>>>] # Absent \/ k = req[r].pkg
      OBVIOUS
    <3> DEFINE i == file[<<"index", c.url>>]
    <3>1. b[1][2] = c.url /\ b[2] = Extended(i, req[r].pkg)
      BY DEF IndexOf
    <3>2. b[2].pkgs \subseteq i.pkgs \cup {req[r].pkg} /\ i.pkgs \subseteq Pkgs
      BY <2>1, <3>1, Added DEF Listings
    <3>3. \A k \in i.pkgs : file[<<"archive", <<c.url, k>>>>] # Absent
      BY <2>1, <3>2 DEF Backed, Archived, MetaKinds
    <3> QED BY <3>1, <3>2, <3>3
  <2> HIDE DEF a, b
  <2>4. /\ pc'[r] = "list" /\ repo'[r] = <<Name(r), c>> /\ half'[r] = FALSE
        /\ \/ file[<<"index", c.url>>] \in Listings /\ queue'[r] = <<a, b>>
           \/ queue'[r] = <<a>>
    BY <2>1 DEF TypeInv, Shape
  <2> HIDE DEF c
  <2>5. Cfg(r)' = c
    BY <2>4 DEF Cfg
  <2>6. Copying(r)'
    BY <2>1, <2>2, <2>4, <2>5 DEF Copying, To
  <2>7. \A w \in Items(queue'[r]) : w = a \/ (w = b /\ file[<<"index", c.url>>] \in Listings)
    <3>1. Items(<<a>>) = {a} /\ Items(<<a, b>>) = {a, b}
      BY ShortItems
    <3> QED BY <2>4, <3>1
  <2>8. ASSUME NEW w \in Items(queue'[r]), w[1][1] \in MetaKinds, NEW k \in w[2].pkgs
        PROVE  file'[<<"archive", <<w[1][2], k>>>>] # Absent \/ (w[1][2] = Cfg(r)'.url /\ k = req'[r].pkg)
    <3>1. w = b /\ file[<<"index", c.url>>] \in Listings
      BY <2>2, <2>7, <2>8
    <3> QED BY <2>1, <2>3, <2>5, <2>8, <3>1
  <2> QED BY <2>6, <2>8 DEF BackedBy
<1>6. ASSUME ~(Publish(r) /\ ~Fail(r)), NEW w \in Items(queue'[r]), w[1][1] \in MetaKinds, NEW k \in w[2].pkgs
      PROVE  file'[<<"archive", <<w[1][2], k>>>>] # Absent
  <2>1. CASE ~Create(r) /\ ~List(r)
    <3>1. w \in Items(queue[r])
      <4>1. CASE ~Publish(r)
        BY <1>6, <2>1, <4>1, ListsQueued
      <4>2. CASE Fail(r)
        BY <1>6, <4>2 DEF Fail, locals
      <4> QED BY <1>6, <4>1, <4>2
    <3>2. CASE Copying(r)
      <4>1. Truncate(r)
        <5>1. queue[r] # <<>> /\ ~half[r]
          BY <3>2 DEF Copying
        <5>2. ~Fill(r)
          BY <5>1 DEF Fill
        <5>3. ~WriteFails(r)
          BY <1>6, ShortItems DEF WriteFails, TypeInv, Shape
        <5> QED BY <5>1, <5>2, <5>3, Busy
      <4> DEFINE x == <<"archive", <<Cfg(r).url, req[r].pkg>>>>
      <4>2. x \in Paths
        BY <1>3, <3>2, PathKinds DEF Copying
      <4>3. file'[x] = Torn /\ Torn # Absent
        BY <3>2, <4>1, <4>2, MarksAssumption DEF Truncate, Copying, TypeInv, Shape
      <4> QED BY <1>2, <1>6, <3>1, <4>3
    <3>3. CASE ~Copying(r)
      BY <1>2, <1>6, <3>1, <3>3
    <3> QED BY <3>2, <3>3
  <2>2. CASE Create(r)
    <3>1. At(r, "create") /\ req[r].op = "create"
      BY <2>2, Idle DEF Create, At
    <3>2. req[r].source \in Sources /\ req[r].place \in Places
      BY <3>1, OperationFields DEF TypeInv, Shape
    <3>3. queue'[r] = Made(req[r].source, req[r].place)
      BY <2>2 DEF Create, Enqueue, TypeInv, Shape
    <3>4. w[2].pkgs = {}
      BY <1>6, <3>2, <3>3, MadeShape
    <3> QED BY <1>6, <3>4
  <2>3. CASE List(r) /\ Fail(r)
    <3>1. queue'[r] = queue[r] /\ queue[r] = <<>>
      BY <2>3 DEF List, At, Fail, locals
    <3> QED BY <1>6, <3>1, ShortItems
  <2>4. CASE List(r) /\ ~Fail(r)
    <3> DEFINE m == Head(left[r])  p == Cfg(r).url
    <3>1. /\ At(r, "list") /\ m \in MetaKinds /\ p \in Places /\ req[r].pkg \in Pkgs
          /\ \E l \in Read(m, p) : LET n == Extended(l, req[r].pkg) IN
               /\ l \in Listings
               /\ \/ queue' = [queue EXCEPT ![r] = <<<<<<m, p>>, n>>, <<<<"packages.gz", p>>, n>>>>]
                  \/ queue' = [queue EXCEPT ![r] = <<<<<<m, p>>, n>>>>]
      BY <2>4, ListWrites
    <3>2. PICK l \in Read(m, p) : LET n == Extended(l, req[r].pkg) IN
               /\ l \in Listings
               /\ \/ queue' = [queue EXCEPT ![r] = <<<<<<m, p>>, n>>, <<<<"packages.gz", p>>, n>>>>]
                  \/ queue' = [queue EXCEPT ![r] = <<<<<<m, p>>, n>>>>]
      BY <3>1
    <3> DEFINE n == Extended(l, req[r].pkg)
    <3>3. w[1][2] = p /\ w[2] = n
      <4> DEFINE u == <<<<m, p>>, n>>  v == <<<<"packages.gz", p>>, n>>
      <4>1. queue'[r] = <<u, v>> \/ queue'[r] = <<u>>
        BY <3>2 DEF TypeInv, Shape
      <4>2. u[1][2] = p /\ u[2] = n /\ v[1][2] = p /\ v[2] = n
        OBVIOUS
      <4> HIDE DEF u, v, p, n
      <4>4. Items(<<u>>) = {u} /\ Items(<<u, v>>) = {u, v}
        BY ShortItems
      <4>3. w = u \/ w = v
        BY <1>6, <4>1, <4>4
      <4> QED BY <4>2, <4>3
    <3>4. k \in l.pkgs \/ k = req[r].pkg
      BY <1>6, <3>1, <3>2, <3>3, Added
    <3>5. file[<<"archive", <<p, k>>>>] # Absent /\ k \in Pkgs
      <4>1. CASE k \in l.pkgs
        BY <3>1, <3>2, <4>1, ReadsArchived DEF Backed
      <4>2. CASE k = req[r].pkg
        BY <3>1, <4>2 DEF Backed, BackedBy, At, Copying
      <4> QED BY <3>4, <4>1, <4>2
    <3> QED BY <3>1, <3>3, <3>5, ArchivesStay
  <2> QED BY <2>1, <2>2, <2>3, <2>4
<1>7. ASSUME ~(Publish(r) /\ ~Fail(r)), pc'[r] = "list"
      PROVE  file'[<<"archive", <<Cfg(r)'.url, req'[r].pkg>>>>] # Absent \/ Copying(r)'
  <2>1. ~Publish(r)
    BY <1>7 DEF Fail, Goto, TypeInv, Shape
  <2>2. /\ pc[r] = "list" /\ repo'[r] = repo[r] /\ req[r].op = "publish"
        /\ Truncate(r) \/ Fill(r) \/ List(r)
    BY <1>7, <2>1, Listing
  <2> DEFINE x == <<"archive", <<Cfg(r).url, req[r].pkg>>>>
  <2>3. x \in Paths /\ Cfg(r).url \in Places /\ req[r].pkg \in Pkgs
    BY <1>3, <2>2, PathKinds
  <2>4. file'[x] # Absent
    <3>1. CASE file[x] # Absent
      BY <2>3, <3>1, ArchivesStay
    <3>2. CASE Copying(r)
      <4>1. Truncate(r) /\ To(r) = x
        BY <2>2, <3>2 DEF Copying, Fill, List, At
      <4> QED BY <2>3, <4>1, MarksAssumption DEF Truncate, TypeInv, Shape
    <3> QED BY <2>2, <3>1, <3>2 DEF Backed, BackedBy
  <2> QED BY <1>4, <2>2, <2>4 DEF Cfg
<1>8. BackedBy(r)'
  <2>1. CASE Publish(r) /\ ~Fail(r)
    BY <1>9, <2>1
  <2>2. CASE ~(Publish(r) /\ ~Fail(r))
    BY <1>6, <1>7, <2>2 DEF BackedBy
  <2> QED BY <2>1, <2>2
<1> QED BY <1>1, <1>5, <1>8 DEF Backed

-----------------------------------------------------------------------------
(* Steps of nobody: a request arrives, the process ends, or nothing happens. *)

Resting == Ended \cup Admin \cup {"remove", "update", "rebuild"}
Same(r) == /\ pc'[r] = pc[r] /\ req'[r] = req[r] /\ queue'[r] = queue[r] /\ half'[r] = half[r]
Quiet ==
  /\ UNCHANGED <<file, repo, todo, left, got, offered, published>> /\ (crossed => crossed')
  /\ \A r \in Requests : Same(r) \/ (pc'[r] \in Resting /\ queue'[r] = <<>> /\ half'[r] = FALSE)
  /\ faults' = 0 => faults = 0 /\ \A r \in Requests : queue'[r] = queue[r] /\ half'[r] = half[r]

LEMMA QuietSteps ==
  ASSUME TypeInv, [Next]_vars PROVE Quiet \/ \E r \in Requests : Step(r)
<1>1. ASSUME NEW r \in Requests, NEW q \in Operations, Begin(r, q) PROVE Quiet
  <2>1. /\ ~AtWork(r) /\ pc' = [pc EXCEPT ![r] = q.op] /\ req' = [req EXCEPT ![r] = q]
        /\ queue' = [queue EXCEPT ![r] = <<>>] /\ half' = [half EXCEPT ![r] = FALSE]
        /\ UNCHANGED <<file, repo, todo, left, got, offered, published, faults>> /\ (crossed => crossed')
    BY <1>1 DEF Begin, Goto
  <2>2. queue[r] = <<>> /\ half[r] = FALSE
    <3>1. queue[r] = <<>>
      BY <2>1, Working1 DEF TypeInv
    <3> QED BY <3>1, Idle
  <2>3. q.op \in Resting
    BY OperationFields DEF Resting
  <2>4. \A s \in Requests : queue'[s] = queue[s] /\ half'[s] = half[s]
    BY <2>1, <2>2 DEF TypeInv, Shape
  <2>5. \A s \in Requests \ {r} : pc'[s] = pc[s] /\ req'[s] = req[s]
    BY <2>1 DEF TypeInv, Shape
  <2>6. pc'[r] = q.op
    BY <2>1 DEF TypeInv, Shape
  <2> QED BY <2>1, <2>2, <2>3, <2>4, <2>5, <2>6 DEF Quiet, Same
<1>2. ASSUME Crash PROVE Quiet
  <2>1. /\ UNCHANGED <<file, req, repo, todo, left, tries, got, history, started>>
        /\ faults' = faults + 1
        /\ \A r \in Requests : pc'[r] \in Ended /\ queue'[r] = <<>> /\ half'[r] = FALSE
    BY <1>2, CrashEffect DEF TypeInv
  <2>2. faults' # 0
    BY <2>1, LimitsAssumption DEF TypeInv, Shape
  <2> QED BY <2>1, <2>2 DEF Quiet, Resting, history
<1>3. ASSUME UNCHANGED vars PROVE Quiet
  BY <1>3 DEF vars, locals, history, bounds, Quiet, Same
<1> QED BY <1>1, <1>2, <1>3 DEF Next

\* Administrators that have crossed stay so.
LEMMA CrossedStays == ASSUME TypeInv, [Next]_vars PROVE crossed => crossed'
<1>1. ASSUME NEW r \in Requests, Step(r) PROVE crossed' = crossed
  BY <1>1, Others DEF TypeInv
<1> QED BY <1>1, QuietSteps DEF Quiet

LEMMA BackedQuiet == ASSUME Backed, Quiet PROVE Backed'
<1>1. Archived(file')
  BY DEF Backed, Quiet
<1>2. ASSUME NEW r \in Requests PROVE BackedBy(r)'
  <2>1. BackedBy(r) /\ UNCHANGED <<file, repo>>
    BY DEF Backed, Quiet
  <2>2. CASE Same(r)
    <3>1. pc'[r] = pc[r] /\ req'[r] = req[r] /\ queue'[r] = queue[r] /\ half'[r] = half[r] /\ Cfg(r)' = Cfg(r)
      BY <2>1, <2>2 DEF Same, Cfg
    <3>2. Copying(r)' <=> Copying(r)
      BY <3>1 DEF Copying, To
    <3> QED BY <2>1, <3>1, <3>2 DEF BackedBy
  <2>3. CASE pc'[r] \in Resting /\ queue'[r] = <<>>
    <3>1. Items(queue'[r]) = {} /\ pc'[r] # "list"
      BY <2>3, ShortItems DEF Resting, Ended, Admin
    <3> QED BY <3>1 DEF BackedBy
  <2> QED BY <2>2, <2>3 DEF Quiet
<1> QED BY <1>1, <1>2 DEF Backed

LEMMA BackedInit == ASSUME Init PROVE Backed
<1>1. Archived(file)
  BY FilesAssumption DEF Init
<1>2. \A r \in Requests : queue[r] = <<>> /\ pc[r] = "idle"
  BY DEF Init
<1> QED BY <1>1, <1>2, ShortItems DEF Backed, BackedBy

\* At each place the archive of a package is there before any list names it, and stays, whichever
\* write fails and whenever the process ends.
THEOREM Archives == Spec => []ListedHasArchive
<1>1. TypeInv /\ Backed /\ [Next]_vars => Backed'
  BY QuietSteps, BackedStep, BackedQuiet
<1>2. Init => TypeInv /\ Backed
  BY InitTypes, BackedInit
<1>3. Backed => ListedHasArchive
  BY DEF Backed, ListedHasArchive
<1> QED BY <1>1, <1>2, <1>3, NextTypeInv, PTL DEF Spec
-----------------------------------------------------------------------------
(* ConfKeepsSettings: as long as administrators do not cross, spm.conf changes only when a whole file *)
(* is renamed to it. *)

LEMMA ToRename ==
  ASSUME TypeInv, NEW r \in Requests, Step(r), pc'[r] = "rename"
  PROVE  SetConf(r) \/ (pc[r] = "rename" /\ queue[r] # <<>> /\ (Truncate(r) \/ Fill(r)))
<1>1. CASE queue[r] # <<>>
  <2>1. ~WriteFails(r)
    BY DEF WriteFails, AfterFailure, Goto, TypeInv, Shape
  <2> QED BY <1>1, <2>1, Busy DEF Truncate, Fill
<1>2. CASE queue[r] = <<>>
  <2>1. ~Truncate(r) /\ ~Fill(r) /\ ~WriteFails(r)
    BY <1>2 DEF Truncate, Fill, WriteFails
  <2>2. ~End(r) /\ ~Add(r) /\ ~Create(r) /\ ~Register(r) /\ ~Remove(r) /\ ~Uncache(r) /\ ~LoadFails(r)
    BY DEF End, Add, Create, Register, Remove, Uncache, LoadFails, Goto, TypeInv, Shape
  <2>8. ~Rename(r)
    BY DEF Rename, Goto, Fail, TypeInv, Shape
  <2>3. ~GenKey(r) /\ ~Publish(r) /\ ~List(r)
    BY DEF GenKey, Publish, List, WriteList, Goto, Fail, At, TypeInv, Shape
  <2>4. ~Published(r) /\ ~Sign(r) /\ ~WriteRelease(r)
    BY DEF Published, Sign, WriteRelease, Goto, Fail, TypeInv, Shape
  <2>5. ~Update(r) /\ ~Index(r) /\ ~IndexRepo(r) /\ ~SaveIndex(r)
    BY DEF Update, Index, IndexRepo, SaveIndex, Goto, At, TypeInv, Shape
  <2>6. ~Fetch(r) /\ ~FetchFails(r) /\ ~Fetched(r)
    BY DEF Fetch, FetchFails, Fetched, Goto, At, TypeInv, Shape
  <2>7. ~NextRepo(r)
    BY DEF NextRepo, Goto, TypeInv, Shape
  <2> QED BY <2>1, <2>2, <2>3, <2>4, <2>5, <2>6, <2>7, <2>8 DEF Step, Administer, Refresh
<1> QED BY <1>1, <1>2

\* Nobody but Rename touches spm.conf.
LEMMA ConfTouched ==
  ASSUME TypeInv, ConfWhole, NEW r \in Requests, Step(r), ~Rename(r)
  PROVE  file'[<<"conf", None>>] = file[<<"conf", None>>]
<1> DEFINE x == <<"conf", None>>
<1>1. x \in Paths /\ x[1] = "conf"
  BY PathKinds
<1>2. ~(queue[r] # <<>> /\ x = To(r))
  <2>1. CASE pc[r] = "rename"
    <3>1. queue[r] # <<>> => To(r) = <<"conf.tmp", None>>
      BY <2>1 DEF ConfWhole, Renaming, To
    <3> QED BY <3>1
  <2>2. CASE pc[r] # "rename"
    <3>1. "conf" \notin May(pc[r], req[r].op)
      BY <2>2 DEF May, MetaKinds, SignedKinds
    <3> QED BY <1>1, <3>1, Working1 DEF TypeInv
  <2> QED BY <2>1, <2>2
<1> HIDE DEF x
<1>3. file'[x] = file[x]
  BY <1>1, <1>2, Touched DEF TypeInv
<1> QED BY <1>3 DEF x

LEMMA RenameSets ==
  ASSUME TypeInv, ConfWhole, NEW r \in Requests, Rename(r)
  PROVE  /\ Conf' = Conf \cup {req[r].setting} /\ Conf' \in SUBSET Settings /\ Conf' # Torn
         /\ pc'[r] = "end"
<1>1. At(r, "rename") /\ req[r].op = "set"
  BY Idle DEF Rename, At
<1>2. Conf \cup {req[r].setting} \in SUBSET Settings
  BY <1>1, ConfShape, OperationFields DEF TypeInv, Shape, ConfWhole
<1>3. file[<<"conf.tmp", None>>] = Conf \cup {req[r].setting}
  BY <1>1 DEF ConfWhole, Renaming, At
<1>4. /\ file' = [file EXCEPT ![<<"conf", None>>] = file[<<"conf.tmp", None>>],
                              ![<<"conf.tmp", None>>] = Absent]
      /\ pc' = [pc EXCEPT ![r] = "end"]
  BY <1>2, <1>3, MarksAssumption DEF Rename, Goto
<1>5. file'[<<"conf", None>>] = Conf \cup {req[r].setting} /\ pc'[r] = "end"
  BY <1>3, <1>4, PathKinds DEF TypeInv, Shape
<1> QED BY <1>2, <1>5, MarksAssumption DEF Conf

LEMMA ConfStep ==
  ASSUME TypeInv, ConfWhole, ~crossed, NEW r \in Requests, Step(r) PROVE ConfWhole'
<1> DEFINE x == <<"conf", None>>  t == <<"conf.tmp", None>>
<1>1. /\ UNCHANGED req
      /\ \A s \in Requests \ {r} : pc'[s] = pc[s] /\ queue'[s] = queue[s]
  BY Others, OtherQueue DEF TypeInv
<1>2. Conf' # Torn
  <2>1. CASE Rename(r)
    BY <2>1, RenameSets
  <2>2. CASE ~Rename(r)
    BY <2>2, ConfTouched DEF Conf, ConfWhole
  <2> QED BY <2>1, <2>2
<1>3. ASSUME NEW s \in Requests \ {r} PROVE Renaming(s)'
  <2> SUFFICES ASSUME pc[s] = "rename" PROVE Renaming(s)'
    BY <1>1 DEF Renaming
  <2>1. AtWork(s) /\ req[s].op = "set"
    <3>1. Staged(s) /\ req[s].op \in Admin \cup {"remove", "update", "rebuild"}
      BY OperationFields DEF TypeInv, Order, InOrder, Shape
    <3> QED BY <3>1 DEF Staged, Ended, Admin, AtWork
  <2>2. x \in Paths /\ t \in Paths /\ x[1] = "conf" /\ t[1] = "conf.tmp"
    BY PathKinds
  <2> HIDE DEF x, t
  <2>3. file'[x] = file[x] /\ file'[t] = file[t]
    BY <2>1, <2>2, Undisturbed DEF Admin
  <2>4. Renaming(s)
    BY DEF ConfWhole
  <2> QED BY <1>1, <2>3, <2>4 DEF Renaming, Conf, x, t
<1>4. Renaming(r)'
  <2> SUFFICES ASSUME pc'[r] = "rename" PROVE Renaming(r)'
    BY DEF Renaming
  <2>1. ~Rename(r)
    BY RenameSets
  <2>2. Conf' = Conf
    BY <2>1, ConfTouched DEF Conf
  <2> DEFINE new == Conf \cup {req[r].setting}
  <2>3. CASE SetConf(r)
    <3>1. ~Fail(r) /\ Conf # Torn
      BY DEF Fail, Goto, TypeInv, Shape, ConfWhole
    <3>2. queue' = [queue EXCEPT ![r] = <<<<<<"conf.tmp", None>>, new>>>>]
      BY <2>3, <3>1 DEF SetConf, Enqueue
    <3>3. queue'[r] = <<<<<<"conf.tmp", None>>, new>>>> /\ queue'[r] # <<>>
      BY <3>2 DEF TypeInv, Shape
    <3> QED BY <1>1, <2>2, <3>3 DEF Renaming
  <2>4. CASE pc[r] = "rename" /\ queue[r] # <<>> /\ (Truncate(r) \/ Fill(r))
    <3>1. queue[r] = <<<<t, new>>>>
      BY <2>4 DEF ConfWhole, Renaming
    <3>2. CASE Truncate(r)
      BY <1>1, <2>2, <2>4, <3>1, <3>2 DEF Renaming, Truncate
    <3>3. CASE Fill(r)
      <4>1. To(r) = t /\ Is(r) = new /\ Tail(queue[r]) = <<>> /\ t \in Paths /\ t[1] = "conf.tmp"
        BY <3>1, PathKinds DEF To, Is
      <4>2. req[r].op = "set"
        <5>1. Staged(r) /\ req[r].op \in Admin \cup {"remove", "update", "rebuild"}
          BY OperationFields DEF TypeInv, Order, InOrder, Shape
        <5> QED BY <2>4, <5>1 DEF Staged, Ended, Admin
      <4>3. file[t] = Torn /\ Torn # Absent
        BY <3>3, <4>1, <4>2, MarksAssumption DEF Fill, TypeInv, HalfTorn, TornBy, Admin
      <4> HIDE DEF t
      <4>4. file' = [file EXCEPT ![t] = new] /\ queue' = [queue EXCEPT ![r] = Tail(@)]
        BY <3>3, <4>1, <4>3 DEF Fill
      <4>5. file'[t] = new /\ queue'[r] = <<>>
        BY <4>1, <4>4 DEF TypeInv, Shape
      <4> QED BY <1>1, <2>2, <4>5 DEF Renaming, t
    <3> QED BY <2>4, <3>2, <3>3
  <2> QED BY <2>3, <2>4, ToRename
<1> QED BY <1>1, <1>2, <1>3, <1>4 DEF ConfWhole

LEMMA ConfQuiet == ASSUME ConfWhole, Quiet PROVE ConfWhole'
<1>1. ASSUME NEW r \in Requests PROVE Renaming(r)'
  <2>1. CASE Same(r)
    BY <2>1 DEF ConfWhole, Renaming, Same, Conf, Quiet
  <2>2. CASE pc'[r] \in Resting
    BY <2>2 DEF Renaming, Resting, Ended, Admin
  <2> QED BY <2>1, <2>2 DEF Quiet
<1> QED BY <1>1 DEF ConfWhole, Conf, Quiet

LEMMA ConfInit == ASSUME Init PROVE ConfWhole
<1>1. file[<<"conf", None>>] # Torn
  <2>1. file[<<"conf", None>>] \in Holds("conf") \cup {Absent}
    BY PathKinds, FilesAssumption DEF Init
  <2> QED BY <2>1, HoldsKinds, MarksAssumption
<1>2. \A r \in Requests : pc[r] = "idle"
  BY DEF Init
<1>3. Conf # Torn
  BY <1>1, MarksAssumption DEF Conf
<1> QED BY <1>2, <1>3 DEF ConfWhole, Renaming

\* As long as administrators work one after another, whatever is set, and whatever fails or ends in
\* between, spm.conf is never found torn and no setting is lost.
THEOREM SettingsKept == Spec => ConfKeepsSettings
<1>1. TypeInv /\ (crossed \/ ConfWhole) /\ [Next]_vars => (crossed \/ ConfWhole)'
  <2> SUFFICES ASSUME TypeInv, crossed \/ ConfWhole, [Next]_vars PROVE (crossed \/ ConfWhole)'
    OBVIOUS
  <2>1. CASE crossed
    BY <2>1, CrossedStays
  <2>2. CASE ~crossed
    BY <2>2, QuietSteps, ConfStep, ConfQuiet
  <2> QED BY <2>1, <2>2
<1>2. Init => TypeInv /\ (crossed \/ ConfWhole)
  BY InitTypes, ConfInit
<1>3. TypeInv /\ (crossed \/ ConfWhole) /\ [Next]_vars =>
        [~crossed' /\ Conf # Conf' => Conf' # Torn /\ Conf \subseteq Conf']_vars
  <2> SUFFICES ASSUME TypeInv, crossed \/ ConfWhole, [Next]_vars, ~crossed', Conf # Conf'
               PROVE  Conf' # Torn /\ Conf \subseteq Conf'
    OBVIOUS
  <2>1. ~Quiet
    BY DEF Quiet, Conf
  <2>2. PICK r \in Requests : Step(r)
    BY <2>1, QuietSteps
  <2>3. ~crossed /\ ConfWhole
    BY CrossedStays
  <2>4. Rename(r)
    BY <2>2, <2>3, ConfTouched DEF Conf
  <2> QED BY <2>3, <2>4, RenameSets
<1> QED BY <1>1, <1>2, <1>3, NextTypeInv, PTL DEF Spec, ConfKeepsSettings

-----------------------------------------------------------------------------
(* CacheWasServed: lists reach the cache whole, and from the places of their repository. *)

LEMMA ServedIs ==
  ASSUME NEW s, NEW n, NEW c, NEW offers
  PROVE  WasServed(s, n, c, offers) <=>
           (c \in Listings /\ c.open =>
              IF s = "rpm" THEN c.pkgs = UNION {l \in ListsOf(s, n, offers) : l \subseteq c.pkgs}
              ELSE c.pkgs \in ListsOf(s, n, offers))
BY DEF WasServed, ListsOf

\* What was once offered has been offered for ever.
LEMMA UnionGrows ==
  ASSUME NEW A, NEW B, A \subseteq B, NEW S, S = UNION {l \in A : l \subseteq S}
  PROVE  S = UNION {l \in B : l \subseteq S}
OBVIOUS

LEMMA ListsGrow ==
  ASSUME NEW s, NEW n, NEW a, NEW b, a \subseteq b
  PROVE  ListsOf(s, n, a) \subseteq ListsOf(s, n, b)
BY DEF ListsOf

LEMMA ServedGrows ==
  ASSUME NEW s, NEW n, NEW c, NEW a, NEW b, a \subseteq b, WasServed(s, n, c, a)
  PROVE  WasServed(s, n, c, b)
<1>1. ListsOf(s, n, a) \subseteq ListsOf(s, n, b)
  BY ListsGrow
<1> SUFFICES ASSUME c \in Listings, c.open
             PROVE  IF s = "rpm" THEN c.pkgs = UNION {l \in ListsOf(s, n, b) : l \subseteq c.pkgs}
                    ELSE c.pkgs \in ListsOf(s, n, b)
  BY ServedIs
<1>2. IF s = "rpm" THEN c.pkgs = UNION {l \in ListsOf(s, n, a) : l \subseteq c.pkgs}
      ELSE c.pkgs \in ListsOf(s, n, a)
  BY ServedIs
<1>3. CASE s = "rpm"
  BY <1>1, <1>2, <1>3, UnionGrows
<1>4. CASE s # "rpm"
  BY <1>1, <1>2, <1>4
<1> QED BY <1>3, <1>4

LEMMA OfferedGrows ==
  ASSUME TypeInv, NEW r \in Requests, Step(r)
  PROVE  offered' = offered \/ (Fill(r) /\ offered' = offered \cup Offers(file'))
<1>1. CASE Truncate(r) \/ Fill(r) \/ WriteFails(r) \/ End(r)
  BY <1>1 DEF Truncate, Fill, WriteFails, End, history
<1>2. CASE Add(r) \/ Create(r) \/ Register(r) \/ Remove(r) \/ Uncache(r) \/ GenKey(r) \/ SetConf(r) \/ Rename(r)
  BY <1>2 DEF Add, Create, Register, Remove, Uncache, GenKey, SetConf, Rename, Fail, history
<1>3. CASE Publish(r) \/ List(r) \/ Published(r) \/ Sign(r) \/ WriteRelease(r) \/ LoadFails(r)
  BY <1>3 DEF Publish, List, WriteList, Published, Sign, WriteRelease, LoadFails, Fail, history
<1>4. CASE Update(r) \/ Fetch(r) \/ FetchFails(r) \/ Fetched(r) \/ Index(r) \/ IndexRepo(r) \/ SaveIndex(r)
  BY <1>4 DEF Update, Fetch, FetchFails, Fetched, Index, IndexRepo, SaveIndex, history
<1>5. CASE NextRepo(r)
  BY <1>5 DEF NextRepo, history
<1> QED BY <1>1, <1>2, <1>3, <1>4, <1>5 DEF Step, Administer, Refresh

LEMMA OffersKnown ==
  ASSUME TypeInv, Offers(file) \subseteq offered, NEW r \in Requests, Step(r)
  PROVE  Offers(file') \subseteq offered'
<1>1. CASE Fill(r)
  <2>1. offered' = offered \cup Offers(file')
    BY <1>1 DEF Fill
  <2> QED BY <2>1
<1>2. CASE ~Fill(r)
  <2>1. offered' = offered
    BY <1>2, OfferedGrows
  <2>2. ASSUME NEW f, f = file', NEW y \in Offers(f) PROVE y \in Offers(file)
    <3>1. PICK s \in Sources, p \in Places : /\ f[<<PublicOf[s], p>>] \in Listings
                                            /\ y = <<s, p, f[<<PublicOf[s], p>>].pkgs>>
      BY OfferIs, SMTT(30)
    <3> DEFINE x == <<PublicOf[s], p>>
    <3>2. x \in Paths /\ x[1] \in OfAdmins
      BY Layouts, PathKinds DEF OfAdmins
    <3> HIDE DEF x
    <3>3. f[x] = file[x]
      BY <1>2, <2>2, <3>1, <3>2, AdminFile, MarksAssumption DEF x
    <3> QED BY <3>1, <3>3, OfferIs DEF x
  <2> QED BY <2>1, <2>2
<1> QED BY <1>1, <1>2

\* How configurations and cached lists change.
LEMMA CacheFile ==
  ASSUME TypeInv, NEW r \in Requests, Step(r), NEW x \in Paths, x[1] \in {"cfg", "cache"}
  PROVE  \/ file'[x] = file[x] \/ file'[x] \in {Absent, Torn}
         \/ x[1] = "cache" /\ file'[x] = [Empty EXCEPT !.open = FALSE]
         \/ queue[r] # <<>> /\ x = To(r) /\ file'[x] = Is(r) /\ Head(queue[r]) \in Items(queue[r])
<1>1. CASE queue[r] # <<>>
  <2>1. Head(queue[r]) \in Items(queue[r])
    BY <1>1, Working1 DEF TypeInv
  <2>2. file' = file \/ \E end \in {Absent, Torn, Is(r)} : file' = [file EXCEPT ![To(r)] = end]
    BY <1>1, Busy DEF Truncate, Fill, WriteFails
  <2> QED BY <1>1, <2>1, <2>2 DEF TypeInv, Shape
<1>2. CASE queue[r] = <<>>
  <2>1. CASE Remove(r)
    BY <2>1 DEF Remove, TypeInv, Shape
  <2>2. CASE Uncache(r)
    BY <2>2 DEF Uncache
  <2>3. CASE NextRepo(r)
    <3>1. file' = file \/ \E y : file' = [file EXCEPT ![<<"cache", y>>] = [Empty EXCEPT !.open = FALSE]]
      BY <2>3 DEF NextRepo
    <3>2. ASSUME NEW y, file' = [file EXCEPT ![<<"cache", y>>] = [Empty EXCEPT !.open = FALSE]]
          PROVE  file'[x] = file[x] \/ (x[1] = "cache" /\ file'[x] = [Empty EXCEPT !.open = FALSE])
      BY <3>2 DEF TypeInv, Shape
    <3> QED BY <3>1, <3>2
  <2>4. CASE ~Remove(r) /\ ~Uncache(r) /\ ~NextRepo(r)
    <3>1. pc[r] \in {"remove", "uncache", "next"} => FALSE
      <4>1. ~Truncate(r) /\ ~Fill(r) /\ ~WriteFails(r)
        BY <1>2 DEF Truncate, Fill, WriteFails
      <4> QED BY <2>4, <4>1 DEF Step, Administer, Refresh, End, Add, Create, Register, GenKey, SetConf,
                 Rename, LoadFails, Publish, List, Published, Sign, WriteRelease, Update, Fetch, FetchFails,
                 Fetched, Index, IndexRepo, SaveIndex, At
    <3> QED BY <1>2, <3>1, Touched DEF TypeInv
  <2> QED BY <2>1, <2>2, <2>3, <2>4
<1> QED BY <1>1, <1>2

\* Who queues configurations and cached lists.
LEMMA CacheQueued ==
  ASSUME TypeInv, NEW r \in Requests, Step(r),
         NEW w \in Items(queue'[r]), w[1][1] \in {"cfg", "cache"}
  PROVE  \/ w \in Items(queue[r])
         \/ queue[r] = <<>> /\ (Add(r) \/ Register(r) \/ GenKey(r) \/ Fetch(r) \/ Fetched(r))
<1>1. CASE queue[r] # <<>>
  <2>1. Items(Tail(queue[r])) \subseteq Items(queue[r])
    BY <1>1, SeqItems DEF TypeInv, Shape
  <2>2. queue'[r] \in {queue[r], Tail(queue[r]), <<>>}
    BY <1>1, Busy DEF TypeInv, Shape, Truncate, Fill, WriteFails
  <2> QED BY <2>1, <2>2, ShortItems
<1>2. CASE queue[r] = <<>> /\ ~(Add(r) \/ Register(r) \/ GenKey(r) \/ Fetch(r) \/ Fetched(r))
  <2>1. CASE queue'[r] = queue[r]
    BY <2>1
  <2>2. CASE queue'[r] # queue[r]
    <3>1. Create(r) \/ SetConf(r) \/ Publish(r) \/ List(r) \/ WriteRelease(r) \/ SaveIndex(r)
      <4>1. ~Truncate(r) /\ ~Fill(r) /\ ~WriteFails(r)
        BY <1>2 DEF Truncate, Fill, WriteFails
      <4>2. ~End(r) /\ ~Remove(r) /\ ~Uncache(r) /\ ~LoadFails(r)
        BY <2>2 DEF End, Remove, Uncache, LoadFails, locals
      <4>6. ~Rename(r)
        <5>1. half[r] = FALSE
          BY <1>2, Idle
        <5>2. Rename(r) => queue'[r] = queue[r]
          BY <5>1 DEF Rename, Fail, locals, Moved, Dropped
        <5> QED BY <2>2, <5>2
      <4>3. ~Published(r) /\ ~Update(r) /\ ~FetchFails(r) /\ ~Index(r) /\ ~IndexRepo(r)
        BY <2>2 DEF Published, Update, FetchFails, Index, IndexRepo, locals
      <4>4. ~Sign(r)
        BY <2>2 DEF Sign, Fail, locals
      <4>5. ~NextRepo(r)
        BY <2>2 DEF NextRepo, locals
      <4> QED BY <1>2, <4>1, <4>2, <4>3, <4>4, <4>5, <4>6 DEF Step, Administer, Refresh
    <3>2. w[1][1] \in May(pc'[r], req'[r].op)
      BY OwnTypes DEF InOrder
    <3>3. CASE Create(r) \/ SetConf(r) \/ Publish(r) \/ List(r)
      <4>1. pc'[r] \in {"register", "rename", "failed", "list"}
        BY <3>3 DEF TypeInv, Shape, Create, SetConf, Publish, List, WriteList, Goto, Fail, At
      <4> QED BY <3>2, <4>1 DEF May, MetaKinds
    <3>4. CASE WriteRelease(r) \/ SaveIndex(r)
      <4>1. req'[r].op \in {"publish", "sign", "update", "rebuild"}
        BY <3>4, Idle DEF WriteRelease, SaveIndex, At, locals
      <4>2. pc'[r] \in {"end", "failed", "done"}
        BY <3>4 DEF TypeInv, Shape, WriteRelease, SaveIndex, Goto
      <4> QED BY <3>2, <4>1, <4>2 DEF May, SignedKinds
    <3> QED BY <3>1, <3>3, <3>4
  <2> QED BY <2>1, <2>2
<1> QED BY <1>1, <1>2
LEMMA TodoStep ==
  ASSUME TypeInv, NEW r \in Requests, Step(r)
  PROVE  todo'[r] \subseteq todo[r] \/ todo'[r] = Configured
<1>1. CASE Truncate(r) \/ Fill(r) \/ WriteFails(r) \/ End(r)
  BY <1>1 DEF Truncate, Fill, WriteFails, End, locals
<1>2. CASE Add(r) \/ Create(r) \/ Register(r) \/ Remove(r) \/ Uncache(r) \/ GenKey(r) \/ SetConf(r) \/ Rename(r)
  BY <1>2 DEF Add, Create, Register, Remove, Uncache, GenKey, SetConf, Rename, Fail, locals
<1>3. CASE Publish(r) \/ List(r) \/ Published(r) \/ Sign(r) \/ WriteRelease(r) \/ LoadFails(r)
  BY <1>3 DEF Publish, List, WriteList, Published, Sign, WriteRelease, LoadFails, Fail, locals
<1>4. CASE Fetch(r) \/ FetchFails(r) \/ Fetched(r) \/ SaveIndex(r)
  BY <1>4 DEF Fetch, FetchFails, Fetched, SaveIndex, locals
<1>5. CASE Update(r) \/ Index(r)
  BY <1>5 DEF Update, Index, TypeInv, Shape
<1>6. CASE NextRepo(r)
  <2>1. todo' = todo \/ \E x \in todo[r] : todo' = [todo EXCEPT ![r] = @ \ {x}]
    BY <1>6 DEF NextRepo, locals
  <2> QED BY <2>1 DEF TypeInv, Shape
<1>7. CASE IndexRepo(r)
  <2>1. \E x \in todo[r] : todo' = [todo EXCEPT ![r] = @ \ {x}]
    BY <1>7 DEF IndexRepo
  <2> QED BY <2>1 DEF TypeInv, Shape
<1> QED BY <1>1, <1>2, <1>3, <1>4, <1>5, <1>6, <1>7 DEF Step, Administer, Refresh

\* How a request gets to fetch, and goes on with it.
LEMMA ToFetch ==
  ASSUME TypeInv, NEW r \in Requests, Step(r), pc'[r] = "fetch"
  PROVE  \/ NextRepo(r) /\ todo[r] # {}
         \/ /\ pc[r] = "fetch" /\ repo'[r] = repo[r] /\ Items(left'[r]) \subseteq Items(left[r])
            /\ Fetch(r) \/ got'[r] = got[r] \/ got'[r] = {}
<1>1. CASE queue[r] # <<>>
  <2>1. pc[r] = "fetch"
    BY <1>1, Busy, ZenonT(40) DEF Truncate, Fill, WriteFails, AfterFailure, Goto, TypeInv, Shape
  <2>2. UNCHANGED <<repo, left, got>>
    BY <1>1, Busy DEF Truncate, Fill, WriteFails
  <2> QED BY <2>1, <2>2
<1>2. CASE queue[r] = <<>>
  <2>1. ~Truncate(r) /\ ~Fill(r) /\ ~WriteFails(r)
    BY <1>2 DEF Truncate, Fill, WriteFails
  <2>2. ~End(r) /\ ~Add(r) /\ ~Create(r) /\ ~Register(r) /\ ~Remove(r) /\ ~Uncache(r) /\ ~LoadFails(r)
    BY DEF End, Add, Create, Register, Remove, Uncache, LoadFails, Goto, TypeInv, Shape
  <2>8. ~Rename(r)
    BY DEF Rename, Goto, Fail, TypeInv, Shape
  <2>3. ~GenKey(r) /\ ~SetConf(r) /\ ~Publish(r) /\ ~List(r)
    <3>1. ~GenKey(r) /\ ~SetConf(r)
      BY DEF GenKey, SetConf, Goto, Fail, TypeInv, Shape
    <3>2. ~Publish(r) /\ ~List(r)
      BY DEF Publish, List, WriteList, Goto, Fail, At, TypeInv, Shape
    <3> QED BY <3>1, <3>2
  <2>4. ~Published(r) /\ ~Sign(r) /\ ~WriteRelease(r)
    BY DEF Published, Sign, WriteRelease, Goto, Fail, TypeInv, Shape
  <2>5. ~Update(r) /\ ~Index(r) /\ ~IndexRepo(r) /\ ~SaveIndex(r)
    BY DEF Update, Index, IndexRepo, SaveIndex, Goto, At, TypeInv, Shape
  <2>6. NextRepo(r) => todo[r] # {}
    BY DEF NextRepo, Goto, TypeInv, Shape
  <2>7. ASSUME Fetch(r) \/ FetchFails(r) \/ Fetched(r)
        PROVE  /\ pc[r] = "fetch" /\ repo'[r] = repo[r] /\ Items(left'[r]) \subseteq Items(left[r])
               /\ Fetch(r) \/ got'[r] = got[r] \/ got'[r] = {}
    <3>1. At(r, "fetch") /\ repo' = repo
      BY <2>7 DEF Fetch, FetchFails, Fetched
    <3>2. Fetch(r) \/ got'[r] = got[r] \/ got'[r] = {}
      BY <2>7 DEF FetchFails, Fetched, TypeInv, Shape
    <3>3. left'[r] = left[r] \/ (left[r] # <<>> /\ left'[r] = Tail(left[r]))
      BY <2>7 DEF Fetch, FetchFails, Fetched, Skip, TypeInv, Shape
    <3>4. Items(left'[r]) \subseteq Items(left[r])
      BY <3>1, <3>3, Fetching
    <3> QED BY <3>1, <3>2, <3>4 DEF At
  <2> QED BY <2>1, <2>2, <2>3, <2>4, <2>5, <2>6, <2>7, <2>8 DEF Step, Administer, Refresh
<1> QED BY <1>1, <1>2

\* A list that is fetched has been offered by a place of the repository.
LEMMA FetchedOffer ==
  ASSUME TypeInv, Sourced, NEW r \in Requests, Fetch(r), file[Remote(r)] \in Listings
  PROVE  file[Remote(r)].pkgs \in ListsOf(Cfg(r).source, repo[r][1], offered)
<1> DEFINE s == Cfg(r).source  p == Head(left[r])  w == file[Remote(r)]
<1>1. At(r, "fetch") /\ left[r] # <<>> /\ Reachable(r)
  BY DEF Fetch
<1>2. s \in Sources /\ p \in Places /\ p \in Items(left[r]) /\ pc[r] = "fetch"
  BY <1>1, Fetching
<1>3. p \in PlacesOf(repo[r][1])
  <2>1. (Cfg(r).local /\ s # "deb") \/ Items(left[r]) \subseteq PlacesOf(repo[r][1])
    BY <1>2 DEF Sourced, SourcedBy
  <2>2. ~(Cfg(r).local /\ s # "deb")
    BY <1>1 DEF Reachable
  <2> QED BY <1>2, <2>1, <2>2
<1>4. <<s, p, w.pkgs>> \in Offers(file)
  BY <1>2, OfferIs DEF Remote
<1>5. <<s, p, w.pkgs>> \in offered
  BY <1>4 DEF Sourced
<1> HIDE DEF s, p, w
<1>6. w.pkgs \in ListsOf(s, repo[r][1], offered)
  <2> DEFINE y == <<s, p, w.pkgs>>
  <2>1. y \in offered /\ y[1] = s /\ y[2] \in PlacesOf(repo[r][1]) /\ y[3] = w.pkgs
    BY <1>3, <1>5
  <2> HIDE DEF y
  <2> QED BY <2>1 DEF ListsOf
<1> QED BY <1>6 DEF s, w

\* The places of a configuration that is asked for.
LEMMA AddedKnown ==
  ASSUME NEW q \in Operations, q.op = "add"
  PROVE  Known(q.name, q.cfg)
<1> DEFINE cs == {o.cfg : o \in {o \in Operations : o.op = "add" /\ o.name = q.name}}
                 \cup ({f[<<"cfg", q.name>>] : f \in FirstFiles} \cap Configs)
<1>1. q.cfg \in cs
  OBVIOUS
<1>2. PlacesOf(q.name) = {c.url : c \in cs} \cup UNION {{c.mirrors[i] : i \in DOMAIN c.mirrors} : c \in cs}
  BY DEF PlacesOf
<1> HIDE DEF cs
<1>3. q.cfg.url \in PlacesOf(q.name)
  BY <1>1, <1>2
<1>4. \A i \in DOMAIN q.cfg.mirrors : q.cfg.mirrors[i] \in PlacesOf(q.name)
  BY <1>1, <1>2
<1> QED BY <1>3, <1>4 DEF Known, Items

\* And of one that was there.
LEMMA FirstKnown ==
  ASSUME NEW f \in FirstFiles, NEW n \in Repos, f[<<"cfg", n>>] \in Configs
  PROVE  Known(n, f[<<"cfg", n>>])
<1> DEFINE cs == {o.cfg : o \in {o \in Operations : o.op = "add" /\ o.name = n}}
                 \cup ({g[<<"cfg", n>>] : g \in FirstFiles} \cap Configs)
           c1 == f[<<"cfg", n>>]
<1>1. c1 \in cs
  OBVIOUS
<1>2. PlacesOf(n) = {c.url : c \in cs} \cup UNION {{c.mirrors[i] : i \in DOMAIN c.mirrors} : c \in cs}
  BY DEF PlacesOf
<1> HIDE DEF cs, c1
<1>3. c1.url \in PlacesOf(n)
  BY <1>1, <1>2
<1>4. \A i \in DOMAIN c1.mirrors : c1.mirrors[i] \in PlacesOf(n)
  BY <1>1, <1>2
<1>5. Known(n, c1)
  BY <1>3, <1>4 DEF Known, Items
<1> QED BY <1>5 DEF c1

\* Where the update of a known repository looks.
LEMMA KnownUrls ==
  ASSUME NEW n, NEW c \in Configs, Known(n, c)
  PROVE  (c.local /\ c.source # "deb") \/ Items(Urls(c)) \subseteq PlacesOf(n)
<1>1. Items(<<>>) = {} /\ Items(<<c.url>>) = {c.url}
  BY ShortItems
<1>2. Urls(c) \in {c.mirrors, <<>>, <<c.url>>} /\ (c.source = "deb" => Urls(c) \in {c.mirrors, <<>>})
  <2>1. CASE c.source = "deb"
    BY <2>1 DEF Urls
  <2>2. CASE c.source = "rpm"
    BY <2>2 DEF Urls
  <2>3. CASE c.source \notin {"deb", "rpm"}
    BY <2>3 DEF Urls
  <2> QED BY <2>1, <2>2, <2>3
<1> QED BY <1>1, <1>2 DEF Known
LEMMA FetchServed ==
  ASSUME TypeInv, Sourced, NEW r \in Requests, Fetch(r), NEW w \in Items(queue'[r])
  PROVE  /\ w[1] = Cache(r) /\ Cfg(r).source # "rpm"
         /\ WasServed(Cfg(r).source, repo[r][1], w[2], offered)
<1>1. At(r, "fetch") /\ left[r] # <<>> /\ Items(queue[r]) = {}
  BY Fetching DEF Fetch
<1>2. PICK l \in {file[Remote(r)], Torn} :
        \/ /\ l \in Listings /\ Cfg(r).source # "rpm"
           /\ queue' = [queue EXCEPT ![r] = <<<<Cache(r), [l EXCEPT !.open = TRUE]>>>>]
        \/ queue' = queue
  BY FetchIs
<1>3. /\ l \in Listings /\ Cfg(r).source # "rpm"
      /\ queue' = [queue EXCEPT ![r] = <<<<Cache(r), [l EXCEPT !.open = TRUE]>>>>]
  BY <1>1, <1>2
<1> DEFINE v == [l EXCEPT !.open = TRUE]  item == <<Cache(r), v>>
<1>4. v.pkgs = l.pkgs
  BY <1>3 DEF Listings
<1>5. l = file[Remote(r)]
  BY <1>3, MarksAssumption
<1>6. l.pkgs \in ListsOf(Cfg(r).source, repo[r][1], offered)
  BY <1>3, <1>5, FetchedOffer
<1> HIDE DEF v
<1>7. queue'[r] = <<item>>
  BY <1>3 DEF TypeInv, Shape, v
<1> HIDE DEF item
<1>8. w = item
  BY <1>7, ShortItems
<1>9. w[1] = Cache(r) /\ w[2] = v
  BY <1>8 DEF item
<1> QED BY <1>3, <1>4, <1>6, <1>9, ServedIs

LEMMA FetchedServed ==
  ASSUME TypeInv, Sourced, NEW r \in Requests, Fetched(r), NEW w \in Items(queue'[r])
  PROVE  /\ w[1] = Cache(r)
         /\ WasServed(Cfg(r).source, repo[r][1], w[2], offered)
<1> DEFINE v == [pkgs |-> got[r], open |-> TRUE]  item == <<Cache(r), v>>
<1>1. At(r, "fetch") /\ pc[r] = "fetch" /\ Items(queue[r]) = {}
  BY Fetching DEF Fetched
<1>2. got[r] # {} /\ queue' = [queue EXCEPT ![r] = <<item>>]
  <2>1. queue'[r] # queue[r]
    BY <1>1
  <2> QED BY <2>1 DEF Fetched, Enqueue
<1>3. /\ Cfg(r).source = "rpm"
      /\ got[r] = UNION {l \in ListsOf("rpm", repo[r][1], offered) : l \subseteq got[r]}
  BY <1>1, <1>2 DEF Sourced, SourcedBy
<1>4. v.pkgs = got[r]
  OBVIOUS
<1> HIDE DEF v, item
<1>5. queue'[r] = <<item>>
  BY <1>2 DEF TypeInv, Shape
<1>6. w = item
  BY <1>5, ShortItems
<1>7. w[1] = Cache(r) /\ w[2] = v
  BY <1>6 DEF item
<1> QED BY <1>3, <1>4, <1>7, ServedIs

\* The configurations that are queued keep to the known places.
LEMMA KnownQueued ==
  ASSUME TypeInv, Sourced, NEW r \in Requests, Add(r) \/ Register(r) \/ GenKey(r),
         NEW w \in Items(queue'[r]), w[1][1] = "cfg"
  PROVE  Known(w[1][2], w[2])
<1>1. Items(queue[r]) = {} /\ queue[r] = <<>>
  BY ShortItems DEF Add, Register, GenKey, At
<1>2. CASE Add(r)
  <2> DEFINE item == <<<<"cfg", Name(r)>>, req[r].cfg>>
  <2>1. req[r].op = "add"
    BY <1>2, Idle DEF Add, At
  <2>2. req[r] \in Operations
    BY <2>1 DEF TypeInv, Shape
  <2>3. Known(Name(r), req[r].cfg)
    BY <2>1, <2>2, AddedKnown DEF Name
  <2>4. queue'[r] = <<item>>
    BY <1>2 DEF Add, Enqueue, TypeInv, Shape
  <2>5. item[1][2] = Name(r) /\ item[2] = req[r].cfg
    OBVIOUS
  <2> HIDE DEF item
  <2> QED BY <2>3, <2>4, <2>5, ShortItems
<1>3. CASE Register(r)
  <2> DEFINE c == [NoCfg EXCEPT !.source = req[r].source, !.url = req[r].place, !.local = TRUE]
             item == <<<<"cfg", Name(r)>>, c>>
  <2>1. c.local /\ c.mirrors = <<>>
    BY DEF NoCfg
  <2> HIDE DEF c
  <2>2. queue'[r] = <<item>>
    <3>1. queue' = [queue EXCEPT ![r] = IF Name(r) \in Loaded THEN <<>> ELSE <<item>>]
      BY <1>3 DEF Register, Enqueue, c
    <3>2. queue'[r] # <<>>
      BY <1>1
    <3> HIDE DEF item
    <3> QED BY <3>1, <3>2 DEF TypeInv, Shape
  <2>3. item[2] = c
    OBVIOUS
  <2> HIDE DEF item
  <2> QED BY <2>1, <2>2, <2>3, ShortItems DEF Known
<1>4. CASE GenKey(r)
  <2> DEFINE x == <<"cfg", Name(r)>>  c == [file[x] EXCEPT !.key = TRUE]
             a == <<<<"key", Name(r)>>, "pem">>  b == <<x, c>>
  <2>1. Name(r) \in Loaded /\ queue' = [queue EXCEPT ![r] = <<a, b>>]
    <3>1. queue'[r] # queue[r]
      BY <1>1
    <3> QED BY <1>4, <3>1 DEF GenKey, Fail, Enqueue, locals
  <2>2. Name(r) \in Repos /\ file[x] \in Configs
    BY <2>1, LoadedConfigs DEF TypeInv
  <2>3. Known(Name(r), file[x])
    BY <2>2 DEF Sourced
  <2>4. c.local = file[x].local /\ c.mirrors = file[x].mirrors /\ c.url = file[x].url
    BY <2>2 DEF Configs
  <2>5. Known(Name(r), c)
    BY <2>3, <2>4 DEF Known
  <2>6. a[1][1] # "cfg" /\ b[1][2] = Name(r) /\ b[2] = c
    OBVIOUS
  <2> HIDE DEF a, b, c
  <2>7. queue'[r] = <<a, b>>
    BY <2>1 DEF TypeInv, Shape
  <2>8. w = a \/ w = b
    BY <2>7, ShortItems
  <2> QED BY <2>5, <2>6, <2>8
<1> QED BY <1>2, <1>3, <1>4

LEMMA SourcedFiles ==
  ASSUME TypeInv, Sourced, NEW r \in Requests, Step(r)
  PROVE  /\ offered \subseteq offered' /\ Offers(file') \subseteq offered' /\ CachesServed(file', offered')
         /\ \A n \in Repos : file'[<<"cfg", n>>] \in Configs => Known(n, file'[<<"cfg", n>>])
<1>1. offered \subseteq offered'
  BY OfferedGrows
<1>2. Offers(file') \subseteq offered'
  BY OffersKnown DEF Sourced
<1>3. ASSUME NEW s \in Sources, NEW n \in Repos
      PROVE  WasServed(s, n, file'[<<"cache", <<s, n>>>>], offered')
  <2> DEFINE x == <<"cache", <<s, n>>>>
  <2>1. x \in Paths /\ x[1] = "cache"
    BY PathKinds
  <2>2. WasServed(s, n, file[x], offered)
    BY DEF Sourced, CachesServed
  <2>3. \A w \in Items(queue[r]) : w[1] = x => WasServed(s, n, w[2], offered)
    BY DEF Sourced, SourcedBy
  <2>4. ~[Empty EXCEPT !.open = FALSE].open
    BY DEF Empty
  <2> HIDE DEF x
  <2>5. CASE file'[x] = file[x]
    BY <1>1, <2>2, <2>5, ServedGrows DEF x
  <2>6. CASE file'[x] \in {Absent, Torn} \/ file'[x] = [Empty EXCEPT !.open = FALSE]
    BY <2>4, <2>6, MarksAssumption, ServedIs DEF x
  <2>7. CASE x = To(r) /\ file'[x] = Is(r) /\ Head(queue[r]) \in Items(queue[r])
    <3>1. WasServed(s, n, Is(r), offered)
      BY <2>3, <2>7 DEF To, Is
    <3> QED BY <1>1, <2>7, <3>1, ServedGrows DEF x
  <2> QED BY <2>1, <2>5, <2>6, <2>7, CacheFile
<1>4. CachesServed(file', offered')
  BY <1>3 DEF CachesServed
<1>5. ASSUME NEW n \in Repos, file'[<<"cfg", n>>] \in Configs PROVE Known(n, file'[<<"cfg", n>>])
  <2> DEFINE x == <<"cfg", n>>
  <2>1. x \in Paths /\ x[1] = "cfg" /\ x[2] = n
    BY PathKinds
  <2>2. file[x] \in Configs => Known(n, file[x])
    BY DEF Sourced
  <2>3. \A w \in Items(queue[r]) : w[1] = x => Known(n, w[2])
    BY <2>1 DEF Sourced, SourcedBy
  <2> HIDE DEF x
  <2>4. file'[x] \in Configs
    BY <1>5 DEF x
  <2>5. file'[x] = file[x] \/ (x = To(r) /\ file'[x] = Is(r) /\ Head(queue[r]) \in Items(queue[r]))
    BY <2>1, <2>4, CacheFile, MarksAssumption
  <2>6. Known(n, file'[x])
    BY <2>2, <2>3, <2>4, <2>5 DEF To, Is
  <2> QED BY <2>6 DEF x
<1> QED BY <1>1, <1>2, <1>4, <1>5
\* A request that does not move keeps to known places while more is offered.
LEMMA SourcedStays ==
  ASSUME NEW r \in Requests, SourcedBy(r), offered \subseteq offered', pc'[r] = pc[r],
         UNCHANGED <<repo[r], todo[r], left[r], got[r]>>,
         \A w \in Items(queue'[r]) : w \in Items(queue[r]) \/ w[1] = <<"conf", None>>
  PROVE  SourcedBy(r)'
<1>1. \A w \in Items(queue'[r]) :
        /\ w[1][1] = "cfg" => Known(w[1][2], w[2])
        /\ \A s \in Sources, n \in Repos :
             w[1] = <<"cache", <<s, n>>>> => WasServed(s, n, w[2], offered')
  BY ServedGrows DEF SourcedBy
<1>2. \A x \in todo'[r] : Known(x[1], x[2])
  BY DEF SourcedBy
<1>3. ASSUME pc[r] = "fetch", Cfg(r).source = "rpm"
      PROVE  got[r] = UNION {l \in ListsOf("rpm", repo[r][1], offered') : l \subseteq got[r]}
  <2>1. got[r] = UNION {l \in ListsOf("rpm", repo[r][1], offered) : l \subseteq got[r]}
    BY <1>3 DEF SourcedBy
  <2>2. ListsOf("rpm", repo[r][1], offered) \subseteq ListsOf("rpm", repo[r][1], offered')
    BY ListsGrow
  <2> DEFINE A == ListsOf("rpm", repo[r][1], offered)  B == ListsOf("rpm", repo[r][1], offered')  S == got[r]
  <2>3. A \subseteq B /\ S = UNION {l \in A : l \subseteq S}
    BY <2>1, <2>2
  <2> HIDE DEF A, B, S
  <2>4. S = UNION {l \in B : l \subseteq S}
    BY <2>3, UnionGrows
  <2> QED BY <2>4 DEF B, S
<1> QED BY <1>1, <1>2, <1>3 DEF SourcedBy, Cfg

LEMMA SourcedQueue ==
  ASSUME TypeInv, Sourced, NEW r \in Requests, Step(r), NEW w \in Items(queue'[r])
  PROVE  /\ w[1][1] = "cfg" => Known(w[1][2], w[2])
         /\ \A s \in Sources, n \in Repos :
              w[1] = <<"cache", <<s, n>>>> => WasServed(s, n, w[2], offered')
<1>1. CASE w \in Items(queue[r])
  BY <1>1, OfferedGrows, ServedGrows DEF Sourced, SourcedBy
<1>2. CASE w \notin Items(queue[r])
  <2>1. w[1][1] = "cfg" => Add(r) \/ Register(r) \/ GenKey(r)
    <3> SUFFICES ASSUME w[1][1] = "cfg" PROVE Add(r) \/ Register(r) \/ GenKey(r)
      OBVIOUS
    <3>1. Add(r) \/ Register(r) \/ GenKey(r) \/ Fetch(r) \/ Fetched(r)
      BY <1>2, CacheQueued
    <3>2. ~Fetch(r) /\ ~Fetched(r)
      BY FetchServed, FetchedServed DEF Cache
    <3> QED BY <3>1, <3>2
  <2>2. ASSUME NEW s \in Sources, NEW n \in Repos, w[1] = <<"cache", <<s, n>>>>
        PROVE  WasServed(s, n, w[2], offered')
    <3>1. Add(r) \/ Register(r) \/ GenKey(r) \/ Fetch(r) \/ Fetched(r)
      BY <1>2, <2>2, CacheQueued
    <3>2. ~(Add(r) \/ Register(r) \/ GenKey(r))
      <4>1. ASSUME Add(r) \/ Register(r) \/ GenKey(r) PROVE w[1][1] # "cache"
        <5>1. pc'[r] \in {"end", "failed"}
          BY <4>1 DEF Add, Register, GenKey, Goto, Fail, TypeInv, Shape
        <5>2. w[1][1] \in May(pc'[r], req'[r].op)
          BY OwnTypes DEF InOrder
        <5> QED BY <5>1, <5>2 DEF May, SignedKinds
      <4> QED BY <2>2, <4>1
    <3>3. w[1] = Cache(r) /\ WasServed(Cfg(r).source, repo[r][1], w[2], offered)
      BY <3>1, <3>2, FetchServed, FetchedServed
    <3>4. s = Cfg(r).source /\ n = repo[r][1]
      BY <2>2, <3>3 DEF Cache
    <3> QED BY <3>3, <3>4, OfferedGrows, ServedGrows
  <2> QED BY <2>1, <2>2, KnownQueued
<1> QED BY <1>1, <1>2

LEMMA SourcedFetch ==
  ASSUME TypeInv, Sourced, NEW r \in Requests, Step(r), pc'[r] = "fetch"
  PROVE  /\ (Cfg(r)'.local /\ Cfg(r)'.source # "deb") \/ Items(left'[r]) \subseteq PlacesOf(repo'[r][1])
         /\ IF Cfg(r)'.source = "rpm"
            THEN got'[r] = UNION {l \in ListsOf("rpm", repo'[r][1], offered') : l \subseteq got'[r]}
            ELSE got'[r] = {}
<1>1. \A A : {} = UNION {l \in A : l \subseteq {}}
  OBVIOUS
<1>2. CASE NextRepo(r) /\ todo[r] # {}
  <2>1. PICK x \in todo[r] :
          /\ x[1] \in Repos /\ x[2] \in Configs
          /\ repo' = [repo EXCEPT ![r] = x] /\ left' = [left EXCEPT ![r] = Urls(x[2])]
          /\ got' = [got EXCEPT ![r] = {}]
    BY <1>2, NextIs
  <2>2. repo'[r] = x /\ left'[r] = Urls(x[2]) /\ got'[r] = {}
    BY <2>1 DEF TypeInv, Shape
  <2>3. (x[2].local /\ x[2].source # "deb") \/ Items(Urls(x[2])) \subseteq PlacesOf(x[1])
    BY <2>1, KnownUrls DEF Sourced, SourcedBy
  <2> QED BY <1>1, <2>2, <2>3 DEF Cfg
<1>3. CASE /\ pc[r] = "fetch" /\ repo'[r] = repo[r] /\ Items(left'[r]) \subseteq Items(left[r])
           /\ Fetch(r) \/ got'[r] = got[r] \/ got'[r] = {}
  <2>1. /\ (Cfg(r).local /\ Cfg(r).source # "deb") \/ Items(left[r]) \subseteq PlacesOf(repo[r][1])
        /\ IF Cfg(r).source = "rpm"
           THEN got[r] = UNION {l \in ListsOf("rpm", repo[r][1], offered) : l \subseteq got[r]}
           ELSE got[r] = {}
    BY <1>3 DEF Sourced, SourcedBy
  <2>2. ListsOf("rpm", repo[r][1], offered) \subseteq ListsOf("rpm", repo[r][1], offered')
    BY OfferedGrows, ListsGrow
  <2>3. Cfg(r)' = Cfg(r)
    BY <1>3 DEF Cfg
  <2>4. CASE Cfg(r).source # "rpm"
    <3>1. got'[r] = {}
      <4>1. Fetch(r) => got'[r] = got[r]
        BY <2>4 DEF Fetch
      <4> QED BY <1>3, <2>1, <2>4, <4>1
    <3> QED BY <1>3, <2>1, <2>3, <2>4, <3>1
  <2>5. CASE Cfg(r).source = "rpm"
    <3>1. got'[r] = UNION {l \in ListsOf("rpm", repo[r][1], offered') : l \subseteq got'[r]}
      <4>1. CASE got'[r] = {}
        BY <1>1, <4>1
      <4>2. CASE got'[r] = got[r]
        BY <2>1, <2>2, <2>5, <4>2, UnionGrows
      <4>3. CASE Fetch(r) /\ got'[r] # got[r]
        <5>1. PICK l \in {file[Remote(r)], Torn} :
                l \in Listings /\ got' = [got EXCEPT ![r] = @ \cup l.pkgs]
          BY <4>3, FetchIs
        <5>2. l = file[Remote(r)]
          BY <5>1, MarksAssumption
        <5> DEFINE A == ListsOf("rpm", repo[r][1], offered)  B == ListsOf("rpm", repo[r][1], offered')
                   S == got[r]  L == l.pkgs
        <5>3. L \in A
          BY <2>5, <4>3, <5>1, <5>2, FetchedOffer
        <5>4. S = UNION {k \in A : k \subseteq S}
          BY <2>1, <2>5
        <5>5. got'[r] = S \cup L
          BY <5>1 DEF TypeInv, Shape
        <5>6. A \subseteq B
          BY <2>2
        <5> HIDE DEF A, B, S, L
        <5>7. S \cup L = UNION {k \in A : k \subseteq S \cup L}
          <6>1. S \cup L \subseteq UNION {k \in A : k \subseteq S \cup L}
            BY <5>3, <5>4
          <6> QED BY <6>1
        <5>8. S \cup L = UNION {k \in B : k \subseteq S \cup L}
          BY <5>6, <5>7, UnionGrows
        <5> QED BY <5>5, <5>8 DEF B
      <4> QED BY <1>3, <4>1, <4>2, <4>3
    <3> QED BY <1>3, <2>1, <2>3, <2>5, <3>1
  <2> QED BY <2>4, <2>5
<1> QED BY <1>2, <1>3, ToFetch

LEMMA SourcedStep == ASSUME TypeInv, Sourced, NEW r \in Requests, Step(r) PROVE Sourced'
<1>1. /\ offered \subseteq offered' /\ Offers(file') \subseteq offered' /\ CachesServed(file', offered')
      /\ \A n \in Repos : file'[<<"cfg", n>>] \in Configs => Known(n, file'[<<"cfg", n>>])
  BY SourcedFiles
<1>2. \A s \in Requests \ {r} :
        /\ pc'[s] = pc[s] /\ repo'[s] = repo[s]
        /\ todo'[s] = todo[s] /\ left'[s] = left[s] /\ got'[s] = got[s]
        /\ \A w \in Items(queue'[s]) : w \in Items(queue[s]) \/ w[1] = <<"conf", None>>
  BY Others, OtherQueue DEF TypeInv
<1>3. ASSUME NEW s \in Requests \ {r} PROVE SourcedBy(s)'
  BY <1>1, <1>2, SourcedStays DEF Sourced
<1>4. \A x \in todo'[r] : Known(x[1], x[2])
  <2>1. \A x \in Configured : Known(x[1], x[2])
    BY LoadedConfigs DEF Sourced, TypeInv
  <2> QED BY <2>1, TodoStep DEF Sourced, SourcedBy
<1>5. SourcedBy(r)'
  BY <1>4, SourcedQueue, SourcedFetch DEF SourcedBy
<1> QED BY <1>1, <1>3, <1>5 DEF Sourced

LEMMA SourcedQuiet == ASSUME Sourced, Quiet PROVE Sourced'
<1>1. ASSUME NEW r \in Requests PROVE SourcedBy(r)'
  <2>1. SourcedBy(r) /\ UNCHANGED <<file, repo, todo, left, got, offered>>
    BY DEF Sourced, Quiet
  <2>2. CASE Same(r)
    BY <2>1, <2>2, SourcedStays DEF Same
  <2>3. CASE pc'[r] \in Resting /\ queue'[r] = <<>>
    <3>1. Items(queue'[r]) = {} /\ pc'[r] # "fetch"
      BY <2>3, ShortItems DEF Resting, Ended, Admin
    <3> QED BY <2>1, <3>1 DEF SourcedBy
  <2> QED BY <2>2, <2>3 DEF Quiet
<1> QED BY <1>1 DEF Sourced, Quiet

LEMMA SourcedInit == ASSUME Init PROVE Sourced
<1>1. \A n \in Repos : file[<<"cfg", n>>] \in Configs => Known(n, file[<<"cfg", n>>])
  BY FirstKnown DEF Init
<1>2. CachesServed(file, offered)
  BY FilesAssumption DEF Init
<1>3. \A r \in Requests : Items(queue[r]) = {} /\ todo[r] = {} /\ pc[r] = "idle"
  BY ShortItems DEF Init
<1>4. Offers(file) \subseteq offered
  BY DEF Init
<1> QED BY <1>1, <1>2, <1>3, <1>4 DEF Sourced, SourcedBy

\* What is cached of a repository is what a place of that name has offered, whole, or, for rpm, the
\* union of such lists: also while places are published to, repositories change, and updates overlap.
THEOREM Served == Spec => []CacheWasServed
<1>1. TypeInv /\ Sourced /\ [Next]_vars => Sourced'
  BY QuietSteps, SourcedStep, SourcedQuiet
<1>2. Init => TypeInv /\ Sourced
  BY InitTypes, SourcedInit
<1>3. Sourced => CacheWasServed
  BY DEF Sourced, CacheWasServed
<1> QED BY <1>1, <1>2, <1>3, NextTypeInv, PTL DEF Spec
-----------------------------------------------------------------------------
(* ReleaseCurrent: as long as administrators do not cross, nobody else changes the lists while they *)
(* are signed. *)

LEMMA ReleaseSame ==
  ASSUME NEW s, NEW p, NEW old, \A m \in Metas(s) : file'[<<m, p>>] = file[<<m, p>>]
  PROVE  ReleaseOf(s, p, old)' = ReleaseOf(s, p, old)
<1>1. Present(s, p)' = Present(s, p)
  BY DEF Present
<1>2. \A m \in Present(s, p) : file'[<<m, p>>] = file[<<m, p>>]
  BY DEF Present
<1> QED BY <1>1, <1>2 DEF ReleaseOf

\* How a request gets to the last writes of a signature, and goes on with them.
LEMMA ToSigned ==
  ASSUME TypeInv, NEW r \in Requests, Step(r), pc'[r] = "end", req[r].op \in {"publish", "sign"}
  PROVE  \/ WriteRelease(r) /\ queue'[r] # queue[r]
         \/ pc[r] = "end" /\ repo'[r] = repo[r] /\ queue[r] # <<>> /\ (Truncate(r) \/ Fill(r))
<1>1. CASE queue[r] # <<>>
  <2>1. ~WriteFails(r)
    BY DEF WriteFails, AfterFailure, Goto, TypeInv, Shape
  <2> QED BY <1>1, <2>1, Busy DEF Truncate, Fill
<1>2. CASE queue[r] = <<>>
  <2>1. pc[r] \in {"publish", "list", "sign", "release", "end"} \cup Ended
    BY DEF TypeInv, Order, InOrder, Staged
  <2>2. ~Truncate(r) /\ ~Fill(r) /\ ~WriteFails(r)
    BY <1>2 DEF Truncate, Fill, WriteFails
  <2>3. Publish(r) \/ List(r) \/ Published(r) \/ Sign(r) \/ WriteRelease(r) \/ End(r) \/ LoadFails(r)
    BY <2>1, <2>2 DEF Step, Administer, Refresh, Add, Create, Register, Remove, Uncache, GenKey,
       SetConf, Rename, Update, NextRepo, Fetch, FetchFails, Fetched, Index, IndexRepo, SaveIndex, At,
       Ended
  <2>4. ~Publish(r) /\ ~List(r) /\ ~LoadFails(r)
    BY DEF Publish, List, LoadFails, WriteList, Goto, Fail, At, TypeInv, Shape
  <2>5. ~Published(r) /\ ~Sign(r) /\ ~End(r)
    BY DEF Published, Sign, End, Goto, Fail, TypeInv, Shape
  <2>6. WriteRelease(r)
    BY <2>3, <2>4, <2>5
  <2>7. queue'[r] # queue[r]
    <3>1. \/ Goto(r, IF req[r].op = "publish" THEN "done" ELSE "failed")
          \/ \E a, b : queue' = [queue EXCEPT ![r] = <<a, b>>]
      BY <2>6 DEF WriteRelease, Enqueue
    <3>2. ~Goto(r, IF req[r].op = "publish" THEN "done" ELSE "failed")
      BY DEF Goto, TypeInv, Shape
    <3>3. PICK a, b : queue' = [queue EXCEPT ![r] = <<a, b>>]
      BY <3>1, <3>2
    <3>4. queue'[r] = <<a, b>>
      BY <3>3 DEF TypeInv, Shape
    <3> QED BY <1>2, <3>4
  <2> QED BY <2>6, <2>7
<1> QED BY <1>1, <1>2

LEMMA SigningStays ==
  ASSUME TypeInv, ~crossed, Signing, NEW r \in Requests, Step(r), NEW s \in Requests \ {r}
  PROVE  SigningBy(s)'
<1>1. pc'[s] = pc[s] /\ req' = req /\ queue'[s] = queue[s] /\ repo'[s] = repo[s]
  BY Others, OtherQueue DEF TypeInv
<1> SUFFICES ASSUME pc[s] = "end", req[s].op \in {"publish", "sign"} PROVE SigningBy(s)'
  BY <1>1 DEF SigningBy
<1>2. PICK old \in SUBSET {"sig"} : SignedWith(s, old)
  BY DEF Signing, SigningBy
<1> DEFINE src == Cfg(s).source  p == Cfg(s).url
           rel == <<"release", <<src, p>>>>  sig == <<"sig", <<src, p>>>>
<1>3. AtWork(s) /\ req[s].op \in Admin /\ src \in Sources /\ p \in Places
  BY <1>2 DEF AtWork, Ended, Admin, SignedWith
<1>4. \A m \in Metas(src) : file'[<<m, p>>] = file[<<m, p>>]
  <2> SUFFICES ASSUME NEW m \in Metas(src) PROVE file'[<<m, p>>] = file[<<m, p>>]
    OBVIOUS
  <2> DEFINE x == <<m, p>>
  <2>1. m \in MetaKinds
    BY <1>3, Layouts
  <2>2. x \in Paths /\ x[1] \notin {"cfg", "cache", "soname"}
    BY <1>3, <2>1, PathKinds DEF MetaKinds
  <2> HIDE DEF x
  <2>3. file'[x] = file[x]
    BY <1>3, <2>2, Undisturbed
  <2> QED BY <2>3 DEF x
<1>5. file'[rel] = file[rel] /\ file'[sig] = file[sig]
  <2>1. /\ rel \in Paths /\ rel[1] \notin {"cfg", "cache", "soname"}
        /\ sig \in Paths /\ sig[1] \notin {"cfg", "cache", "soname"}
    BY <1>3, PathKinds DEF SignedKinds
  <2> HIDE DEF rel, sig
  <2> QED BY <1>3, <2>1, Undisturbed
<1>6. Cfg(s)' = Cfg(s)
  BY <1>1 DEF Cfg
<1>7. ReleaseOf(src, p, old)' = ReleaseOf(src, p, old)
  BY <1>1, <1>4, ReleaseSame DEF Cfg
<1>8. SignedWith(s, old)'
  BY <1>1, <1>2, <1>5, <1>6, <1>7 DEF SignedWith
<1> QED BY <1>8 DEF SigningBy

LEMMA SigningStep == ASSUME TypeInv, ~crossed, Signing, NEW r \in Requests, Step(r) PROVE Signing'
<1> SUFFICES SigningBy(r)'
  BY SigningStays DEF Signing
<1>1. req' = req
  BY Others DEF TypeInv
<1> SUFFICES ASSUME pc'[r] = "end", req[r].op \in {"publish", "sign"} PROVE SigningBy(r)'
  BY <1>1 DEF SigningBy
<1> SUFFICES \E old \in SUBSET {"sig"} : SignedWith(r, old)'
  BY <1>1 DEF SigningBy
<1>2. CASE WriteRelease(r) /\ queue'[r] # queue[r]
  <2> DEFINE s == Cfg(r).source  p == Cfg(r).url  old == Earlier(s, p)  now == ReleaseOf(s, p, old)
             rel == <<"release", <<s, p>>>>  sig == <<"sig", <<s, p>>>>
  <2>1. queue' = [queue EXCEPT ![r] = <<<<rel, now>>, <<sig, now>>>>] /\ file' = file /\ repo' = repo
    <3>1. queue' # queue
      BY <1>2
    <3> QED BY <1>2, <3>1 DEF WriteRelease, Enqueue, locals
  <2>2. s \in Sources /\ p \in Places
    <3>1. pc[r] = "release" /\ Working(r)
      BY <1>2 DEF WriteRelease, At, TypeInv, Order, InOrder
    <3> QED BY <3>1, ConfigFields DEF TypeInv, Shape, Working, Cfg
  <2>3. Cfg(r)' = Cfg(r)
    BY <2>1 DEF Cfg
  <2>4. queue'[r] = <<<<rel, now>>, <<sig, now>>>>
    BY <2>1 DEF TypeInv, Shape
  <2>5. PICK o \in SUBSET {"sig"} : o = old /\ (s # "deb" => o = {})
    BY EarlierIs
  <2>6. ReleaseOf(s, p, o)' = ReleaseOf(s, p, o) /\ now = ReleaseOf(s, p, o)
    BY <2>1, <2>5, ReleaseSame DEF Cfg
  <2>7. SignedWith(r, o)'
    BY <2>2, <2>3, <2>4, <2>5, <2>6 DEF SignedWith, Cfg
  <2> QED BY <2>7
<1>3. CASE pc[r] = "end" /\ repo'[r] = repo[r] /\ queue[r] # <<>> /\ (Truncate(r) \/ Fill(r))
  <2> DEFINE s == Cfg(r).source  p == Cfg(r).url
             rel == <<"release", <<s, p>>>>  sig == <<"sig", <<s, p>>>>
  <2>0. PICK old \in SUBSET {"sig"} : SignedWith(r, old)
    BY <1>3 DEF Signing, SigningBy
  <2> DEFINE now == ReleaseOf(s, p, old)
  <2> SUFFICES SignedWith(r, old)'
    OBVIOUS
  <2>1. /\ s \in Sources /\ p \in Places /\ (s # "deb" => old = {})
        /\ \/ queue[r] = <<<<rel, now>>, <<sig, now>>>>
           \/ queue[r] = <<<<sig, now>>>> /\ file[rel] = now
    BY <1>3, <2>0 DEF SignedWith
  <2>2. /\ rel \in Paths /\ rel[1] = "release" /\ sig \in Paths /\ sig[1] = "sig" /\ rel # sig
    BY <2>1, PathKinds DEF SignedKinds
  <2>3. To(r) \in {rel, sig} /\ Is(r) = now
    BY <2>1 DEF To, Is
  <2>4. \A m \in Metas(s) : <<m, p>> \in Paths /\ <<m, p>> # To(r)
    <3>1. \A m \in Metas(s) : m \in MetaKinds /\ m \notin {"release", "sig"}
      BY <2>1, Layouts DEF MetaKinds
    <3> QED BY <2>1, <2>2, <2>3, <3>1, PathKinds
  <2>5. file' \in [Paths -> Contents] /\ \A x \in Paths \ {To(r)} : file'[x] = file[x]
    <3>1. file' \in [Paths -> Contents]
      BY OwnTypes DEF Shape
    <3>2. file' = file \/ \E end : file' = [file EXCEPT ![To(r)] = end]
      BY <1>3 DEF Truncate, Fill
    <3> QED BY <3>1, <3>2 DEF TypeInv, Shape
  <2>6. now' = now
    BY <2>4, <2>5, <1>3, ReleaseSame DEF Cfg
  <2>7. Cfg(r)' = Cfg(r)
    BY <1>3 DEF Cfg
  <2>8. CASE Truncate(r)
    <3>1. queue' = queue
      BY <2>8 DEF Truncate
    <3>2. CASE queue[r] = <<<<rel, now>>, <<sig, now>>>>
      BY <1>1, <2>1, <2>6, <2>7, <3>1, <3>2 DEF SignedWith
    <3>3. CASE queue[r] = <<<<sig, now>>>> /\ file[rel] = now
      <4>1. To(r) = sig
        BY <3>3 DEF To
      <4>2. file'[rel] = now
        BY <2>2, <2>5, <3>3, <4>1
      <4> QED BY <1>1, <2>1, <2>6, <2>7, <3>1, <3>3, <4>2 DEF SignedWith
    <3> QED BY <2>1, <3>2, <3>3
  <2>9. CASE Fill(r)
    <3>1. file[To(r)] = Torn /\ Torn # Absent
      <4>1. half[r] /\ req[r].op \in Admin /\ To(r)[1] # "cfg"
        BY <2>2, <2>3, <2>9 DEF Fill, Admin
      <4> QED BY <4>1, MarksAssumption DEF TypeInv, HalfTorn, TornBy
    <3>2. file'[To(r)] = now
      <4>1. file' = [file EXCEPT ![To(r)] = Is(r)]
        BY <2>9, <3>1 DEF Fill
      <4> QED BY <2>2, <2>3, <4>1 DEF TypeInv, Shape
    <3>3. queue'[r] = Tail(queue[r])
      BY <2>9 DEF Fill, TypeInv, Shape
    <3>4. CASE queue[r] = <<<<rel, now>>, <<sig, now>>>>
      <4>1. To(r) = rel /\ queue'[r] = <<<<sig, now>>>>
        BY <3>3, <3>4 DEF To
      <4> QED BY <1>1, <2>1, <2>6, <2>7, <3>2, <4>1 DEF SignedWith
    <3>5. CASE queue[r] = <<<<sig, now>>>> /\ file[rel] = now
      <4>1. To(r) = sig /\ queue'[r] = <<>>
        BY <3>3, <3>5 DEF To
      <4>2. file'[rel] = now
        BY <2>2, <2>5, <3>5, <4>1
      <4> QED BY <1>1, <2>1, <2>6, <2>7, <3>2, <4>1, <4>2 DEF SignedWith
    <3> QED BY <2>1, <3>4, <3>5
  <2> QED BY <1>3, <2>8, <2>9
<1> QED BY <1>2, <1>3, ToSigned

LEMMA SigningQuiet == ASSUME Signing, Quiet PROVE Signing'
<1> SUFFICES ASSUME NEW r \in Requests PROVE SigningBy(r)'
  BY DEF Signing
<1>1. SigningBy(r) /\ UNCHANGED <<file, repo>>
  BY DEF Signing, Quiet
<1>2. CASE Same(r)
  <2>1. Cfg(r)' = Cfg(r)
    BY <1>1 DEF Cfg
  <2>2. ASSUME NEW old \in SUBSET {"sig"}, SignedWith(r, old) PROVE SignedWith(r, old)'
    <3>1. ReleaseOf(Cfg(r).source, Cfg(r).url, old)' = ReleaseOf(Cfg(r).source, Cfg(r).url, old)
      BY <1>1, ReleaseSame DEF Cfg
    <3> QED BY <1>1, <1>2, <2>1, <2>2, <3>1 DEF SignedWith, Same
  <2> QED BY <1>1, <1>2, <2>2 DEF SigningBy, Same
<1>3. CASE pc'[r] \in Resting
  BY <1>3 DEF SigningBy, Resting, Ended, Admin
<1> QED BY <1>2, <1>3 DEF Quiet

\* As long as administrators do not cross, when a repository has been signed its Release is of the
\* lists as they are, and so is the signature, whatever else goes on.
THEOREM Released == Spec => []ReleaseCurrent
<1>1. TypeInv /\ (crossed \/ Signing) /\ [Next]_vars => (crossed \/ Signing)'
  <2> SUFFICES ASSUME TypeInv, crossed \/ Signing, [Next]_vars PROVE (crossed \/ Signing)'
    OBVIOUS
  <2>1. CASE crossed
    BY <2>1, CrossedStays
  <2>2. CASE ~crossed
    BY <2>2, QuietSteps, SigningStep, SigningQuiet
  <2> QED BY <2>1, <2>2
<1>2. Init => TypeInv /\ (crossed \/ Signing)
  <2>1. Init => \A r \in Requests : pc[r] = "idle"
    BY DEF Init
  <2> QED BY <2>1, InitTypes DEF Signing, SigningBy
<1>3. (crossed \/ Signing) => ReleaseCurrent
  <2> SUFFICES ASSUME Signing, NEW r \in Requests, pc[r] = "end", queue[r] = <<>>,
                      req[r].op \in {"sign", "publish"}
               PROVE  LET s == Cfg(r).source  p == Cfg(r).url
                      IN  \E old \in SUBSET {"sig"} :
                            /\ s # "deb" => old = {}
                            /\ file[<<"release", <<s, p>>>>] = ReleaseOf(s, p, old)
                            /\ file[<<"sig", <<s, p>>>>] = ReleaseOf(s, p, old)
    BY DEF ReleaseCurrent, At
  <2>1. \A a, b : queue[r] # <<a, b>> /\ queue[r] # <<a>>
    OBVIOUS
  <2>2. PICK old \in SUBSET {"sig"} : SignedWith(r, old)
    BY DEF Signing, SigningBy
  <2> QED BY <2>1, <2>2 DEF SignedWith
<1> QED BY <1>1, <1>2, <1>3, NextTypeInv, PTL DEF Spec

-----------------------------------------------------------------------------
(* PublishedStaysListed: as long as administrators do not cross, a list is read whole before it is *)
(* written again. *)

\* A metadata file belongs to one layout.
LEMMA OneLayout ==
  ASSUME NEW s \in Sources, NEW t \in Sources, NEW m \in Metas(s), m \in Metas(t) PROVE s = t
BY Layouts DEF Sources

\* What publishes is the administrator, and nobody else has lists to write.
LEMMA Publisher ==
  ASSUME TypeInv, ~crossed, NEW r \in Requests, pc[r] = "list"
  PROVE  /\ req[r].op = "publish" /\ AtWork(r) /\ req[r].pkg \in Pkgs
         /\ Cfg(r).source \in Sources /\ Cfg(r).url \in Places
         /\ left[r] \in Seq(Places \cup MetaKinds) /\ Items(left[r]) \subseteq Metas(Cfg(r).source)
         /\ \A s \in Requests \ {r} : \A w \in Items(queue[s]) : w[1][1] \notin MetaKinds
<1>1. /\ Staged(r) /\ req[r].op \in Admin \cup {"remove", "update", "rebuild"}
      /\ Working(r) /\ Cfg(r) \in Configs /\ left[r] \in Seq(Places \cup MetaKinds)
  BY OperationFields DEF TypeInv, Order, InOrder, Shape, Cfg
<1>2. req[r].op = "publish" /\ AtWork(r)
  BY <1>1 DEF Staged, Ended, Admin, AtWork
<1>3. req[r].pkg \in Pkgs
  BY <1>2, OperationFields DEF TypeInv, Shape
<1>4. ASSUME NEW s \in Requests \ {r}, NEW w \in Items(queue[s]) PROVE w[1][1] \notin MetaKinds
  <2>1. queue[s] # <<>>
    BY <1>4, ShortItems
  <2>2. AtWork(s)
    BY <2>1, Working1 DEF TypeInv
  <2>3. req[s].op \in {"remove", "update", "rebuild"}
    <3>1. req[s].op \notin Admin
      BY <1>2, <2>2 DEF TypeInv, OneAdmin, Admin
    <3> QED BY <3>1, OperationFields DEF TypeInv, Shape
  <2>4. Staged(s) /\ w[1][1] \in May(pc[s], req[s].op)
    BY DEF TypeInv, Order, InOrder
  <2> QED BY <2>3, <2>4 DEF Staged, Ended, May, MetaKinds
<1> QED BY <1>1, <1>2, <1>3, <1>4, ConfigFields DEF Working

\* The faults that were counted stay counted, and a list that is half written stays so without them.
LEMMA FaultsGrow ==
  ASSUME TypeInv, NEW r \in Requests, Step(r), faults' = 0
  PROVE  /\ faults = 0
         /\ WriteFails(r) => To(r)[1] = "cache"
<1>1. faults \in Nat
  BY LimitsAssumption DEF TypeInv, Shape
<1>2. ASSUME Fault("write") \/ Fault("delete") \/ Fault("network") PROVE FALSE
  BY <1>1, <1>2 DEF Fault
<1>3. WriteFails(r) => To(r)[1] = "cache" /\ faults = 0
  BY <1>2 DEF WriteFails, bounds
<1>4. CASE Uncache(r) \/ FetchFails(r)
  BY <1>2, <1>3, <1>4 DEF Uncache, FetchFails, bounds
<1>5. CASE Truncate(r) \/ Fill(r) \/ End(r) \/ Add(r) \/ Create(r) \/ Register(r) \/ Remove(r)
           \/ GenKey(r) \/ SetConf(r) \/ Rename(r) \/ LoadFails(r)
  BY <1>3, <1>5 DEF Truncate, Fill, End, Add, Create, Register, Remove, GenKey, SetConf, Rename,
     LoadFails, Fail, bounds
<1>6. CASE Publish(r) \/ List(r) \/ Published(r) \/ Sign(r) \/ WriteRelease(r)
  BY <1>3, <1>6 DEF Publish, List, WriteList, Published, Sign, WriteRelease, Fail, bounds
<1>7. CASE Update(r) \/ Fetch(r) \/ Fetched(r) \/ Index(r) \/ IndexRepo(r) \/ SaveIndex(r)
  BY <1>3, <1>7 DEF Update, Fetch, Fetched, Index, IndexRepo, SaveIndex, bounds
<1>8. CASE NextRepo(r)
  BY <1>3, <1>8 DEF NextRepo, bounds
<1> QED BY <1>3, <1>4, <1>5, <1>6, <1>7, <1>8 DEF Step, Administer, Refresh

LEMMA HistoryGrows ==
  ASSUME TypeInv, NEW r \in Requests, Step(r), ~Published(r)
  PROVE  /\ published' \subseteq published
         /\ Create(r) /\ req[r].source = "native" =>
              \A x \in published' : <<x[1], x[2]>> # <<"native", req[r].place>>
<1>1. CASE Truncate(r) \/ Fill(r) \/ WriteFails(r) \/ End(r)
  BY <1>1 DEF Truncate, Fill, WriteFails, End, Create, At, history
<1>2. CASE Add(r) \/ Register(r) \/ Remove(r) \/ Uncache(r) \/ GenKey(r) \/ SetConf(r) \/ Rename(r)
           \/ LoadFails(r)
  BY <1>2 DEF Add, Register, Remove, Uncache, GenKey, SetConf, Rename, LoadFails, Fail, history, Create, At
<1>3. CASE Create(r)
  BY <1>3 DEF Create
<1>4. CASE Publish(r) \/ List(r) \/ Sign(r) \/ WriteRelease(r)
  BY <1>4 DEF Publish, List, WriteList, Sign, WriteRelease, Fail, history, Create, At
<1>5. CASE Update(r) \/ Fetch(r) \/ FetchFails(r) \/ Fetched(r) \/ Index(r) \/ IndexRepo(r) \/ SaveIndex(r)
  BY <1>5 DEF Update, Fetch, FetchFails, Fetched, Index, IndexRepo, SaveIndex, history, Create, At
<1>6. CASE NextRepo(r)
  BY <1>6 DEF NextRepo, history, Create, At
<1> QED BY <1>1, <1>2, <1>3, <1>4, <1>5, <1>6 DEF Step, Administer, Refresh

\* No file is left half written while nothing has failed.
TornLists == faults = 0 => \A m \in MetaKinds, p \in Places : file[<<m, p>>] = Torn =>
  \E r \in Requests : half[r] /\ To(r) = <<m, p>>

LEMMA TornListsStep ==
  ASSUME TypeInv, ~crossed, TornLists, NEW r \in Requests, Step(r) PROVE TornLists'
<1> SUFFICES ASSUME faults' = 0, NEW m \in MetaKinds, NEW p \in Places, file'[<<m, p>>] = Torn
             PROVE  \E s \in Requests : half'[s] /\ Head(queue'[s])[1] = <<m, p>>
  BY DEF TornLists, To
<1> DEFINE x == <<m, p>>
<1>1. x \in Paths /\ x[1] \in OfAdmins /\ x[1] # "cache" /\ Proper(x) = Listings
  BY PathKinds, HoldsKinds DEF OfAdmins, MetaKinds, Proper
<1>2. faults = 0 /\ (WriteFails(r) => To(r) # x)
  BY <1>1, FaultsGrow
<1>3. queue[r] # <<>> /\ To(r) = x => Is(r) # Torn
  BY <1>1, Working1, MarksAssumption DEF TypeInv
<1> HIDE DEF x
<1>4. CASE Truncate(r) /\ x = To(r)
  <2>1. half'[r] = TRUE /\ queue' = queue
    BY <1>4 DEF Truncate, TypeInv, Shape
  <2> QED BY <1>4, <2>1 DEF x, To
<1>5. CASE file'[x] = file[x] /\ ~(Truncate(r) /\ x = To(r))
  <2>1. PICK s \in Requests : half[s] /\ To(s) = x
    BY <1>2, <1>5 DEF TornLists, x
  <2>2. CASE s # r
    BY <2>1, <2>2, OtherQueue DEF x, To
  <2>3. CASE s = r
    <3>1. queue[r] # <<>>
      BY <2>1, <2>3 DEF TypeInv, HalfTorn, TornBy
    <3>2. ~Truncate(r) /\ ~WriteFails(r)
      BY <1>2, <2>1, <2>3 DEF Truncate
    <3>3. Fill(r)
      BY <3>1, <3>2, Busy
    <3>4. file' = [file EXCEPT ![x] = Is(r)]
      <4>1. file[x] = Torn /\ Torn # Absent
        BY <1>5, MarksAssumption DEF x
      <4> QED BY <2>1, <2>3, <3>3, <4>1 DEF Fill
    <3>5. file'[x] = Is(r)
      BY <1>1, <3>4 DEF TypeInv, Shape
    <3> QED BY <1>3, <2>1, <2>3, <3>1, <3>5 DEF x
  <2> QED BY <2>2, <2>3
<1>6. CASE file'[x] = Is(r) /\ x = To(r) /\ queue[r] # <<>>
  BY <1>3, <1>6 DEF x
<1> QED BY <1>1, <1>4, <1>5, <1>6, AdminFile

\* What create_repo writes takes nothing away: it is the list of another place, missing, or closed.
LEMMA CreatedKeeps ==
  ASSUME TypeInv, Listed, NEW r \in Requests, Create(r), NEW w \in Items(queue'[r]),
         NEW x \in published', x[1] = "deb" => faults = 0, NEW m \in Metas(x[1]), w[1] = <<m, x[2]>>
  PROVE  Keeps(w[2], x[3])
<1> DEFINE s == req[r].source  p == req[r].place
<1>1. s \in Sources /\ p \in Places
  <2>1. req[r].op = "create"
    BY Idle DEF Create, At
  <2> QED BY <2>1, OperationFields DEF TypeInv, Shape
<1>2. queue'[r] = Made(s, p)
  BY DEF Create, Enqueue, TypeInv, Shape
<1>3. /\ x \in published /\ (s = "native" => <<x[1], x[2]>> # <<"native", p>>)
      /\ x[1] \in Sources /\ x[2] \in Places
  BY DEF Create, TypeInv, Shape
<1>4. m \in MetaKinds /\ m # "release" /\ w[1][1] \in MetaKinds
  BY <1>3, Layouts DEF MetaKinds
<1>5. w[1] \in (Metas(s) \X {p}) \cup {<<"release", <<"rpm", p>>>>}
  BY <1>1, <1>2, MadeShape
<1>6. m \in Metas(s) /\ x[2] = p
  BY <1>4, <1>5
<1>7. s = x[1]
  BY <1>1, <1>3, <1>6, OneLayout
<1>8. /\ s = "rpm" => ~w[2].open
      /\ s # "native" => file[w[1]] = Absent
  BY <1>1, <1>2, <1>4, MadeShape
<1>9. s # "deb"
  BY <1>3, <1>7, <1>8 DEF Listed
<1>10. s # "native"
  BY <1>3, <1>6, <1>7
<1> QED BY <1>1, <1>8, <1>9, <1>10 DEF Keeps, Sources

\* What is read of a list has all that was published in it.
LEMMA ReadsPublished ==
  ASSUME TypeInv, ~crossed, Listed, NEW r \in Requests, At(r, "list"), NEW x \in published,
         x[1] = "deb" => faults = 0, NEW m \in Metas(x[1]), NEW l \in Read(m, x[2])
  PROVE  Keeps(l, x[3])
<1>1. x[1] \in Sources /\ x[2] \in Places
  BY DEF TypeInv, Shape
<1>2. \A n \in Metas(x[1]) : Keeps(file[<<n, x[2]>>], x[3])
  BY DEF Listed
<1>3. CASE m = "packages"
  <2>0. x[1] = "deb"
    BY <1>1, <1>3, Layouts DEF Sources
  <2>1. "packages" \in Metas(x[1]) /\ "packages" \in MetaKinds /\ l \in ReadPackages(x[2])
    BY <1>3, Layouts DEF Read, MetaKinds
  <2>2. file[<<"packages", x[2]>>] # Absent /\ faults = 0
    BY <2>0, <2>1 DEF Listed
  <2>3. file[<<"packages", x[2]>>] # Torn
    <3> SUFFICES ASSUME file[<<"packages", x[2]>>] = Torn PROVE FALSE
      OBVIOUS
    <3>1. PICK s \in Requests : half[s] /\ To(s) = <<"packages", x[2]>>
      BY <1>1, <2>1, <2>2 DEF Listed
    <3>2. queue[s] # <<>>
      BY <3>1 DEF TypeInv, HalfTorn, TornBy
    <3>3. s # r /\ pc[r] = "list"
      BY <3>2 DEF At
    <3>4. Head(queue[s]) \in Items(queue[s])
      BY <3>2, Working1 DEF TypeInv
    <3> QED BY <2>1, <3>1, <3>3, <3>4, Publisher DEF To
  <2>4. l = file[<<"packages", x[2]>>]
    BY <2>1, <2>2, <2>3 DEF ReadPackages
  <2> QED BY <1>2, <2>1, <2>4
<1>4. CASE m # "packages"
  <2>1. l \in ReadRpm(m, x[2])
    BY <1>4 DEF Read
  <2>2. [Empty EXCEPT !.open = FALSE].open = FALSE
    BY DEF Empty
  <2> QED BY <1>2, <2>1, <2>2 DEF ReadRpm, Keeps
<1> QED BY <1>3, <1>4

LEMMA ExtendedKeeps ==
  ASSUME NEW l \in Listings, NEW k
  PROVE  Keeps(Extended(l, k), k) /\ \A j : Keeps(l, j) => Keeps(Extended(l, k), j)
BY DEF Listings, Keeps, Extended

\* How a list is written: what was read of it, with the new package if it takes one.
LEMMA ListIs ==
  ASSUME TypeInv, NEW r \in Requests, List(r), ~Fail(r)
  PROVE  LET m == Head(left[r])  p == Cfg(r).url
             xs == {<<m, p>>} \cup {x \in {<<"packages.gz", p>>} : m = "packages"}
         IN  /\ \E l \in Read(m, p) : \E n \in Listings :
                  /\ Keeps(n, req[r].pkg) /\ \A k : Keeps(l, k) => Keeps(n, k)
                  /\ Items(queue'[r]) = {<<x, n>> : x \in xs}
             /\ Items(left[r]) \subseteq Items(left'[r]) \cup {m}
             /\ UNCHANGED <<file, repo, published>>
<1> DEFINE m == Head(left[r])  p == Cfg(r).url  k == req[r].pkg
           xs == {<<m, p>>} \cup {x \in {<<"packages.gz", p>>} : m = "packages"}
<1>1. PICK l \in Read(m, p) :
        /\ l \in Listings /\ Extended(l, k) \in Listings
        /\ \/ m = "packages" /\ queue' = [queue EXCEPT ![r] =
                  <<<<<<m, p>>, Extended(l, k)>>, <<<<"packages.gz", p>>, Extended(l, k)>>>>]
           \/ m # "packages" /\ queue' = [queue EXCEPT ![r] = <<<<<<m, p>>, Extended(l, k)>>>>]
  BY ListWrites
<1>2. /\ left[r] # <<>> /\ left[r] \in Seq(Places \cup MetaKinds)
      /\ left' = [left EXCEPT ![r] = Tail(@)] /\ UNCHANGED <<file, repo, published>>
  BY ListWrites DEF history
<1>3. Items(left[r]) \subseteq Items(left'[r]) \cup {m}
  <2>1. left'[r] = Tail(left[r])
    BY <1>2 DEF TypeInv, Shape
  <2> QED BY <1>2, <2>1, SeqItems
<1>4. PICK n \in Listings : n = Extended(l, k)
  BY <1>1
<1>5. Keeps(n, k) /\ \A j : Keeps(l, j) => Keeps(n, j)
  BY <1>1, <1>4, ExtendedKeeps
<1>6. Items(queue'[r]) = {<<x, n>> : x \in xs}
  <2> DEFINE a == <<<<m, p>>, n>>  b == <<<<"packages.gz", p>>, n>>
  <2>1. CASE m = "packages"
    <3>1. queue'[r] = <<a, b>>
      BY <1>1, <1>4, <2>1 DEF TypeInv, Shape
    <3>2. Items(<<a, b>>) = {a, b}
      BY ShortItems
    <3>3. {<<x, n>> : x \in xs} = {a, b}
      BY <2>1
    <3> QED BY <3>1, <3>2, <3>3
  <2>2. CASE m # "packages"
    <3>1. queue'[r] = <<a>>
      BY <1>1, <1>4, <2>2 DEF TypeInv, Shape
    <3>2. Items(<<a>>) = {a}
      BY ShortItems
    <3>3. {<<x, n>> : x \in xs} = {a}
      BY <2>2
    <3> QED BY <3>1, <3>2, <3>3
  <2> QED BY <2>1, <2>2
<1> HIDE DEF m, p, k, xs
<1>7. \E ll \in Read(m, p) : \E nn \in Listings :
        /\ Keeps(nn, k) /\ \A j : Keeps(ll, j) => Keeps(nn, j)
        /\ Items(queue'[r]) = {<<x, nn>> : x \in xs}
  BY <1>1, <1>4, <1>5, <1>6
<1> QED BY <1>2, <1>3, <1>7 DEF m, p, k, xs


\* The three parts of Listed.
ListsQueuedKeep(x, m) == \A s \in Requests : \A w \in Items(queue[s]) : w[1] = <<m, x[2]>> => Keeps(w[2], x[3])
HasPublished(x) == \A m \in Metas(x[1]) :
  /\ Keeps(file[<<m, x[2]>>], x[3])
  /\ x[1] = "deb" => file[<<m, x[2]>>] # Absent
  /\ ListsQueuedKeep(x, m)
ListingBy(r) == pc[r] = "list" =>
  \A m \in Metas(Cfg(r).source) : LET x == <<m, Cfg(r).url>> IN
    /\ \A w \in Items(queue[r]) : w[1] = x => Keeps(w[2], req[r].pkg)
    /\ \/ m \in Pending(r)
       \/ \E w \in Items(queue[r]) : w[1] = x
       \/ Keeps(file[x], req[r].pkg) /\ file[x] # Absent

LEMMA ListedIs ==
  Listed <=> /\ TornLists
             /\ \A x \in published : (x[1] = "deb" => faults = 0) => HasPublished(x)
             /\ \A r \in Requests : ListingBy(r)
BY DEF Listed, TornLists, HasPublished, ListsQueuedKeep, ListingBy

LEMMA StillPublished ==
  ASSUME TypeInv, ~crossed, Listed, NEW r \in Requests, Step(r), NEW x \in published, x \in published',
         x[1] = "deb" => faults = 0
  PROVE  HasPublished(x)'
<1>1. x[1] \in Sources /\ x[2] \in Places
  BY DEF TypeInv, Shape
<1>2. \A s \in Requests \ {r} : queue'[s] = queue[s]
  BY OtherQueue
<1> SUFFICES ASSUME NEW m \in Metas(x[1])
             PROVE  /\ Keeps(file'[<<m, x[2]>>], x[3])
                    /\ x[1] = "deb" => file'[<<m, x[2]>>] # Absent
                    /\ \A s \in Requests : \A w \in Items(queue'[s]) :
                         w[1] = <<m, x[2]>> => Keeps(w[2], x[3])
  BY DEF HasPublished, ListsQueuedKeep
<1> DEFINE p == <<m, x[2]>>
<1>3. m \in MetaKinds /\ p \in Paths /\ p[1] \in OfAdmins /\ p[1] = m
  BY <1>1, Layouts, PathKinds DEF OfAdmins
<1>4. /\ Keeps(file[p], x[3]) /\ (x[1] = "deb" => file[p] # Absent)
      /\ \A s \in Requests : \A w \in Items(queue[s]) : w[1] = p => Keeps(w[2], x[3])
  BY DEF Listed
<1>5. queue[r] # <<>> /\ To(r) = p => Is(r) \in Listings
  BY <1>3, Working1, HoldsKinds DEF TypeInv, Proper
<1>6. Torn # Absent /\ Absent \notin Listings /\ Torn \notin Listings
  BY MarksAssumption
<1>7. Keeps(file'[p], x[3]) /\ (x[1] = "deb" => file'[p] # Absent)
  <2> HIDE DEF p
  <2>1. CASE file'[p] = file[p]
    BY <1>4, <2>1
  <2>2. CASE file'[p] = Torn
    BY <1>6, <2>2 DEF Keeps
  <2>3. CASE file'[p] = Is(r) /\ p = To(r) /\ queue[r] # <<>> /\ Head(queue[r]) \in Items(queue[r])
    BY <1>4, <1>5, <1>6, <2>3 DEF To, Is
  <2> QED BY <1>3, <2>1, <2>2, <2>3, AdminFile
<1>8. ASSUME NEW w \in Items(queue'[r]), w[1] = p PROVE Keeps(w[2], x[3])
  <2>1. CASE ~Create(r) /\ ~Publish(r) /\ ~List(r)
    <3>1. w \in Items(queue[r])
      BY <1>3, <1>8, <2>1, ListsQueued
    <3> QED BY <1>4, <1>8, <3>1
  <2>2. CASE Create(r)
    BY <1>8, <2>2, CreatedKeeps
  <2>3. CASE Publish(r) \/ List(r)
    <3>1. Items(queue[r]) = {} /\ (List(r) => At(r, "list"))
      BY <2>3, ShortItems DEF Publish, List, At
    <3>2. ~Fail(r)
      BY <1>8, <3>1 DEF Fail, locals
    <3>3. CASE List(r)
      <4> DEFINE h == Head(left[r])  u == Cfg(r).url
                 xs == {<<h, u>>} \cup {y \in {<<"packages.gz", u>>} : h = "packages"}
      <4>1. PICK l \in Read(h, u) : \E n \in Listings :
              /\ \A k : Keeps(l, k) => Keeps(n, k)
              /\ Items(queue'[r]) = {<<y, n>> : y \in xs}
        BY <3>2, <3>3, ListIs
      <4>2. PICK n \in Listings : /\ \A k : Keeps(l, k) => Keeps(n, k)
                                  /\ Items(queue'[r]) = {<<y, n>> : y \in xs}
        BY <4>1
      <4>3. w[2] = n /\ p \in xs
        BY <1>8, <4>2
      <4>4. x[2] = u /\ (m = h \/ (h = "packages" /\ m = "packages.gz"))
        BY <4>3
      <4>5. h \in Metas(x[1])
        <5>1. m = "packages.gz" => "packages" \in Metas(x[1])
          BY <1>1, Layouts DEF Sources
        <5> QED BY <4>4, <5>1
      <4>6. Keeps(l, x[3])
        BY <3>1, <3>3, <4>4, <4>5, ReadsPublished
      <4> QED BY <4>2, <4>3, <4>6
    <3>4. CASE Publish(r)
      <4> DEFINE c == file[<<"cfg", Name(r)>>]  a == PackageOf(r, c)  i == IndexOf(r, c)
      <4>1. /\ \/ /\ file[<<"index", c.url>>] \in Listings
                  /\ queue' = [queue EXCEPT ![r] = <<a, i>>]
               \/ queue' = [queue EXCEPT ![r] = <<a>>]
        BY <3>2, <3>4, PublishIs
      <4>2. a[1][1] = "archive" /\ i[1] = <<"index", c.url>> /\ i[2] = Extended(file[<<"index", c.url>>], req[r].pkg)
        BY DEF PackageOf, IndexOf
      <4>3. w # a
        BY <1>3, <1>8, <4>2 DEF MetaKinds
      <4> HIDE DEF a, i, c
      <4>4. file[<<"index", c.url>>] \in Listings /\ w = i
        <5>1. CASE queue' = [queue EXCEPT ![r] = <<a>>]
          <6>1. queue'[r] = <<a>> /\ Items(<<a>>) = {a}
            BY <5>1, ShortItems DEF TypeInv, Shape
          <6> QED BY <4>3, <6>1
        <5>2. CASE file[<<"index", c.url>>] \in Listings /\ queue' = [queue EXCEPT ![r] = <<a, i>>]
          <6>1. queue'[r] = <<a, i>> /\ Items(<<a, i>>) = {a, i}
            BY <5>2, ShortItems DEF TypeInv, Shape
          <6> QED BY <4>3, <5>2, <6>1
        <5> QED BY <4>1, <5>1, <5>2
      <4>5. p = <<"index", c.url>>
        BY <1>8, <4>2, <4>4
      <4> QED BY <1>4, <4>2, <4>4, <4>5, ExtendedKeeps
    <3> QED BY <2>3, <3>3, <3>4
  <2> QED BY <2>1, <2>2, <2>3
<1> QED BY <1>2, <1>4, <1>7, <1>8

LEMMA NewlyPublished ==
  ASSUME TypeInv, ~crossed, Listed, NEW r \in Requests, Published(r), NEW x \in published', x \notin published
  PROVE  HasPublished(x)'
<1>1. /\ At(r, "list") /\ left[r] = <<>> /\ x = <<Cfg(r).source, Cfg(r).url, req[r].pkg>>
      /\ UNCHANGED <<file, queue>>
  BY DEF Published, locals
<1>2. ASSUME NEW m \in Metas(x[1])
      PROVE  /\ Keeps(file[<<m, x[2]>>], x[3]) /\ file[<<m, x[2]>>] # Absent
             /\ \A s \in Requests : \A w \in Items(queue[s]) : w[1] # <<m, x[2]>>
  <2>1. m \in Metas(Cfg(r).source) /\ Cfg(r).source \in Sources /\ m \in MetaKinds
    BY <1>1, <1>2, Publisher, Layouts DEF At
  <2>2. Pending(r) = {} /\ Items(queue[r]) = {} /\ pc[r] = "list" /\ queue[r] = <<>>
    BY <1>1, ShortItems DEF At, Pending
  <2>3. Keeps(file[<<m, Cfg(r).url>>], req[r].pkg) /\ file[<<m, Cfg(r).url>>] # Absent
    BY <2>1, <2>2, ListedIs DEF ListingBy
  <2>4. \A s \in Requests : \A w \in Items(queue[s]) : w[1][1] # m
    BY <2>1, <2>2, Publisher
  <2> QED BY <1>1, <2>3, <2>4
<1> QED BY <1>1, <1>2 DEF HasPublished, ListsQueuedKeep

LEMMA ListingOthers ==
  ASSUME TypeInv, ~crossed, Listed, NEW r \in Requests, Step(r), NEW s \in Requests \ {r}
  PROVE  ListingBy(s)'
<1>1. /\ pc'[s] = pc[s] /\ req' = req /\ queue'[s] = queue[s] /\ repo'[s] = repo[s]
      /\ left'[s] = left[s]
  BY Others, OtherQueue DEF TypeInv
<1> SUFFICES ASSUME pc[s] = "list" PROVE ListingBy(s)'
  BY <1>1 DEF ListingBy
<1>2. ListingBy(s) /\ Cfg(s)' = Cfg(s)
  BY <1>1, ListedIs DEF Cfg
<1>3. /\ AtWork(s) /\ req[s].op \in Admin /\ Cfg(s).url \in Places
      /\ \A m \in Metas(Cfg(s).source) : m \in MetaKinds
  BY Publisher, Layouts DEF Admin
<1>4. ASSUME NEW m \in Metas(Cfg(s).source) PROVE file'[<<m, Cfg(s).url>>] = file[<<m, Cfg(s).url>>]
  <2> DEFINE x == <<m, Cfg(s).url>>
  <2>1. x \in Paths /\ x[1] \notin {"cfg", "cache", "soname"}
    BY <1>3, PathKinds DEF MetaKinds
  <2> HIDE DEF x
  <2>2. file'[x] = file[x]
    BY <1>3, <2>1, Undisturbed
  <2> QED BY <2>2 DEF x
<1> QED BY <1>1, <1>2, <1>4 DEF ListingBy, Pending

LEMMA ListingOwn ==
  ASSUME TypeInv, ~crossed, Listed, NEW r \in Requests, Step(r) PROVE ListingBy(r)'
<1> SUFFICES ASSUME pc'[r] = "list", NEW m \in Metas(Cfg(r)'.source)
             PROVE  LET x == <<m, Cfg(r)'.url>> IN
                      /\ \A w \in Items(queue'[r]) : w[1] = x => Keeps(w[2], req'[r].pkg)
                      /\ \/ m \in Pending(r)'
                         \/ \E w \in Items(queue'[r]) : w[1] = x
                         \/ Keeps(file'[x], req'[r].pkg) /\ file'[x] # Absent
  BY DEF ListingBy
<1>1. req' = req
  BY Others DEF TypeInv
<1>2. CASE Publish(r)
  <2> DEFINE c == file[<<"cfg", Name(r)>>]  a == PackageOf(r, c)  i == IndexOf(r, c)
  <2>1. ~Fail(r) /\ At(r, "publish")
    BY <1>2 DEF Fail, Goto, TypeInv, Shape, Publish, At
  <2>2. /\ \/ /\ c.source = "native" /\ file[<<"index", c.url>>] \in Listings
              /\ queue' = [queue EXCEPT ![r] = <<a, i>>]
           \/ c.source # "native" /\ queue' = [queue EXCEPT ![r] = <<a>>]
        /\ repo' = [repo EXCEPT ![r] = <<Name(r), c>>] /\ left' = [left EXCEPT ![r] = ReadOf[c.source]]
        /\ c.source \in Sources
    BY <1>2, <2>1, PublishIs
  <2>3. Cfg(r)' = c /\ left'[r] = ReadOf[c.source]
    BY <2>2 DEF Cfg, TypeInv, Shape
  <2>4. /\ a[1][1] = "archive" /\ i[1] = <<"index", c.url>>
        /\ i[2] = Extended(file[<<"index", c.url>>], req[r].pkg)
    BY DEF PackageOf, IndexOf
  <2>5. m \in MetaKinds /\ m # "archive"
    BY <2>2, <2>3, Layouts DEF MetaKinds
  <2> HIDE DEF a, i
  <2>6. CASE c.source = "native"
    <3>1. Items(queue'[r]) = {a, i}
      <4>1. queue'[r] = <<a, i>>
        BY <2>2, <2>6 DEF TypeInv, Shape
      <4> QED BY <4>1, ShortItems
    <3>2. m = "index"
      BY <2>3, <2>6, Layouts
    <3>3. Keeps(i[2], req[r].pkg)
      BY <2>2, <2>4, <2>6, ExtendedKeeps
    <3> QED BY <1>1, <2>3, <2>4, <2>5, <3>1, <3>2, <3>3
  <2>7. CASE c.source # "native"
    <3>1. Items(queue'[r]) = {a}
      <4>1. queue'[r] = <<a>>
        BY <2>2, <2>7 DEF TypeInv, Shape
      <4> QED BY <4>1, ShortItems
    <3>2. m \in Pending(r)'
      <4>1. c.source \in {"deb", "rpm"} /\ m \in Metas(c.source)
        BY <2>2, <2>3, <2>7 DEF Sources
      <4>2. m \in Items(ReadOf[c.source]) \/ (m = "packages.gz" /\ "packages" \in Items(ReadOf[c.source]))
        BY <4>1, Layouts
      <4> QED BY <2>3, <4>2 DEF Pending
    <3> QED BY <2>4, <2>5, <3>1, <3>2
  <2> QED BY <2>6, <2>7
<1>3. CASE pc[r] = "list" /\ repo'[r] = repo[r] /\ (Truncate(r) \/ Fill(r) \/ List(r))
  <2> DEFINE x == <<m, Cfg(r).url>>
  <2>1. Cfg(r)' = Cfg(r) /\ m \in Metas(Cfg(r).source)
    BY <1>3 DEF Cfg
  <2>2. /\ \A w \in Items(queue[r]) : w[1] = x => Keeps(w[2], req[r].pkg)
        /\ \/ m \in Pending(r)
           \/ \E w \in Items(queue[r]) : w[1] = x
           \/ Keeps(file[x], req[r].pkg) /\ file[x] # Absent
    BY <1>3, <2>1, ListedIs DEF ListingBy
  <2>3. /\ req[r].op = "publish" /\ AtWork(r) /\ m \in MetaKinds /\ x \in Paths /\ x[1] \in OfAdmins
        /\ x[1] = m
    BY <1>3, <2>1, Publisher, Layouts, PathKinds DEF OfAdmins
  <2>4. Torn # Absent /\ Absent \notin Listings /\ Torn \notin Listings
    BY MarksAssumption
  <2> HIDE DEF x
  <2>5. CASE Truncate(r)
    <3>1. UNCHANGED <<queue, left>>
      BY <2>5 DEF Truncate
    <3>2. file'[x] = file[x] \/ file'[x] = Torn
      BY <2>3, <2>5, AdminFile DEF Truncate, Fill
    <3> QED BY <1>1, <2>1, <2>2, <2>4, <3>1, <3>2 DEF x, Keeps, Pending
  <2>6. CASE Fill(r)
    <3>1. queue[r] # <<>> /\ UNCHANGED left /\ queue'[r] = Tail(queue[r]) /\ half[r]
      BY <2>6 DEF Fill, TypeInv, Shape
    <3>2. /\ Items(queue'[r]) \subseteq Items(queue[r])
          /\ Head(queue[r]) \in Items(queue[r])
          /\ Items(queue[r]) \subseteq Items(queue'[r]) \cup {Head(queue[r])}
      BY <3>1, SeqItems DEF TypeInv, Shape
    <3>3. To(r) = x => file[x] = Torn /\ Is(r) \in Listings /\ Keeps(Is(r), req[r].pkg)
      <4> SUFFICES ASSUME To(r) = x PROVE file[x] = Torn /\ Is(r) \in Listings /\ Keeps(Is(r), req[r].pkg)
        OBVIOUS
      <4>1. file[x] = Torn
        BY <2>3, <3>1 DEF Admin, MetaKinds, TypeInv, HalfTorn, TornBy
      <4>2. Is(r) \in Listings
        BY <2>3, <3>1, Working1, HoldsKinds DEF TypeInv, Proper
      <4>3. Keeps(Is(r), req[r].pkg)
        BY <2>2, <3>2 DEF To, Is
      <4> QED BY <4>1, <4>2, <4>3
    <3>4. file'[x] = file[x] \/ (file'[x] = Is(r) /\ x = To(r))
      BY <2>3, <2>6, AdminFile DEF Truncate, Fill
    <3>5. \/ m \in Pending(r)
          \/ \E w \in Items(queue'[r]) : w[1] = x
          \/ Keeps(file'[x], req[r].pkg) /\ file'[x] # Absent
      <4>1. CASE \E w \in Items(queue[r]) : w[1] = x
        <5>1. CASE To(r) = x
          BY <2>4, <3>3, <3>4, <5>1 DEF Keeps
        <5>2. CASE To(r) # x
          BY <3>2, <4>1, <5>2 DEF To
        <5> QED BY <5>1, <5>2
      <4>2. CASE Keeps(file[x], req[r].pkg) /\ file[x] # Absent
        BY <2>4, <3>3, <3>4, <4>2
      <4> QED BY <2>2, <4>1, <4>2
    <3>6. Pending(r)' = Pending(r)
      BY <3>1 DEF Pending
    <3> QED BY <1>1, <2>1, <2>2, <3>2, <3>5, <3>6 DEF x
  <2>7. CASE List(r)
    <3> DEFINE h == Head(left[r])  u == Cfg(r).url
               xs == {<<h, u>>} \cup {y \in {<<"packages.gz", u>>} : h = "packages"}
    <3>1. ~Fail(r) /\ queue[r] = <<>>
      BY <2>7 DEF Fail, Goto, TypeInv, Shape, List, At
    <3>2. /\ \E n \in Listings : Keeps(n, req[r].pkg) /\ Items(queue'[r]) = {<<y, n>> : y \in xs}
          /\ UNCHANGED file /\ Items(left[r]) \subseteq Items(left'[r]) \cup {h}
      BY <2>7, <3>1, ListIs
    <3>3. PICK n \in Listings : Keeps(n, req[r].pkg) /\ Items(queue'[r]) = {<<y, n>> : y \in xs}
      BY <3>2
    <3>4. \A w \in Items(queue'[r]) : Keeps(w[2], req[r].pkg)
      BY <3>3
    <3>5. ASSUME NEW y \in xs PROVE \E w \in Items(queue'[r]) : w[1] = y
      <4>1. <<y, n>> \in Items(queue'[r]) /\ <<y, n>>[1] = y
        BY <3>3
      <4> QED BY <4>1
    <3>6. Items(queue[r]) = {}
      BY <3>1, ShortItems
    <3>7. m \in Pending(r) => m \in Pending(r)' \/ x \in xs
      BY <3>2 DEF Pending, x
    <3> HIDE DEF xs
    <3>8. \/ m \in Pending(r)'
          \/ \E w \in Items(queue'[r]) : w[1] = x
          \/ Keeps(file'[x], req[r].pkg) /\ file'[x] # Absent
      BY <2>2, <3>2, <3>5, <3>6, <3>7
    <3> QED BY <1>1, <2>1, <3>4, <3>8 DEF x
  <2> QED BY <1>3, <2>5, <2>6, <2>7
<1> QED BY <1>2, <1>3, Listing

LEMMA ListedStep == ASSUME TypeInv, ~crossed, Listed, NEW r \in Requests, Step(r) PROVE Listed'
<1>1. TornLists'
  BY TornListsStep, ListedIs
<1>2. \A s \in Requests : ListingBy(s)'
  BY ListingOwn, ListingOthers
<1>3. ASSUME NEW x \in published', x[1] = "deb" => faults' = 0 PROVE HasPublished(x)'
  <2>1. CASE x \in published
    BY <1>3, <2>1, FaultsGrow, StillPublished
  <2>2. CASE x \notin published
    BY <2>2, HistoryGrows, NewlyPublished
  <2> QED BY <2>1, <2>2
<1> QED BY <1>1, <1>2, <1>3 DEF Listed, TornLists, HasPublished, ListsQueuedKeep, ListingBy

LEMMA ListedQuiet == ASSUME Listed, Quiet PROVE Listed'
<1>1. UNCHANGED <<file, repo, left, published>>
  BY DEF Quiet
<1>2. ASSUME faults' = 0 PROVE faults = 0 /\ \A r \in Requests : queue'[r] = queue[r] /\ half'[r] = half[r]
  BY <1>2 DEF Quiet
<1>3. \A r \in Requests : Items(queue'[r]) \subseteq Items(queue[r])
  BY ShortItems DEF Quiet, Same
<1>4. \A m \in MetaKinds, p \in Places : faults' = 0 /\ file'[<<m, p>>] = Torn =>
        \E r \in Requests : half'[r] /\ Head(queue'[r])[1] = <<m, p>>
  <2> SUFFICES ASSUME NEW m \in MetaKinds, NEW p \in Places, faults' = 0, file'[<<m, p>>] = Torn
               PROVE  \E r \in Requests : half'[r] /\ Head(queue'[r])[1] = <<m, p>>
    OBVIOUS
  <2>1. PICK r \in Requests : half[r] /\ To(r) = <<m, p>>
    BY <1>1, <1>2 DEF Listed
  <2> QED BY <1>2, <2>1 DEF To
<1>5. ASSUME NEW x \in published', x[1] = "deb" => faults' = 0, NEW m \in Metas(x[1])
      PROVE  /\ Keeps(file'[<<m, x[2]>>], x[3])
             /\ x[1] = "deb" => file'[<<m, x[2]>>] # Absent
             /\ \A r \in Requests : \A w \in Items(queue'[r]) : w[1] = <<m, x[2]>> => Keeps(w[2], x[3])
  BY <1>1, <1>2, <1>3, <1>5 DEF Listed
<1>6. ASSUME NEW r \in Requests, pc'[r] = "list" PROVE ListingBy(r)'
  <2>1. Same(r)
    BY <1>6 DEF Quiet, Resting, Ended, Admin
  <2> QED BY <1>1, <2>1, ListedIs DEF ListingBy, Same, Cfg, Pending
<1>7. \A r \in Requests : ListingBy(r)'
  BY <1>6 DEF ListingBy
<1> QED BY <1>4, <1>5, <1>7 DEF Listed, ListingBy, Pending, To

LEMMA ListedInit == ASSUME Init PROVE Listed
<1>1. published = {} /\ \A r \in Requests : pc[r] = "idle"
  BY DEF Init
<1>2. ASSUME NEW m \in MetaKinds, NEW p \in Places PROVE file[<<m, p>>] # Torn
  <2> DEFINE x == <<m, p>>
  <2>1. x \in Paths
    BY PathKinds
  <2> HIDE DEF x
  <2>2. file[x] \in Holds(x[1]) \cup {Absent}
    BY <2>1, FilesAssumption DEF Init
  <2>3. file[x] # Torn
    BY <2>1, <2>2, Marks
  <2> QED BY <2>3 DEF x
<1> QED BY <1>1, <1>2 DEF Listed

\* As long as administrators do not cross, a package whose publication has succeeded stays in the list
\* that clients read, whatever is published, created or signed after it, and with whatever failures,
\* unless the index is created again, takes no packages, or is the text of a deb repository that a
\* failure has cut off.
THEOREM Kept == Spec => []PublishedStaysListed
<1>1. TypeInv /\ (crossed \/ Listed) /\ [Next]_vars => (crossed \/ Listed)'
  <2> SUFFICES ASSUME TypeInv, crossed \/ Listed, [Next]_vars PROVE (crossed \/ Listed)'
    OBVIOUS
  <2>1. CASE crossed
    BY <2>1, CrossedStays
  <2>2. CASE ~crossed
    BY <2>2, QuietSteps, ListedStep, ListedQuiet
  <2> QED BY <2>1, <2>2
<1>2. Init => TypeInv /\ (crossed \/ Listed)
  BY InitTypes, ListedInit
<1>3. TypeInv /\ (crossed \/ Listed) => PublishedStaysListed
  <2> SUFFICES ASSUME TypeInv, Listed, NEW x \in published,
                      file[<<PublicOf[x[1]], x[2]>>] \in Listings, file[<<PublicOf[x[1]], x[2]>>].open,
                      x[1] = "deb" => faults = 0
               PROVE  x[3] \in file[<<PublicOf[x[1]], x[2]>>].pkgs
    BY DEF PublishedStaysListed
  <2>1. x[1] \in Sources
    BY DEF TypeInv, Shape
  <2>2. PublicOf[x[1]] \in Metas(x[1])
    BY <2>1, Layouts
  <2> QED BY <2>2 DEF Listed, Keeps
<1> QED BY <1>1, <1>2, <1>3, NextTypeInv, PTL DEF Spec
=============================================================================
