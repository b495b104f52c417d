----------------------------- MODULE SpmRequests -----------------------------
(***************************************************************************)
(* The command line (src/src/cli/) and the daemon's handlers               *)
(* (src/src/daemon/mod.rs): which request a command becomes, which of its  *)
(* arguments the handler asks for, and what the two handlers that have no  *)
(* module of their own do: those of the spm group and of self-update.      *)
(*                                                                         *)
(* A command is a name and the set of its arguments that were given.  A    *)
(* request is the action, with the action of the group, snapshot or        *)
(* repository that it carries, and pairs <<field, argument>>: the value of *)
(* the argument is in that field.  An option that was not given is null or *)
(* false in its field, which a handler takes for its absence.              *)
(***************************************************************************)
EXTENDS Naturals, FiniteSets, Sequences

CONSTANTS Clients,
          CommandsOf,  \* the commands each client may type
          Users, Known,\* users, and those of them that are in /etc/passwd
          Versions,    \* releases of spm and spmd
          Installed,   \* the one in /usr/local/bin, which spmd.service runs
          Absent, Torn, Bad

\* What commands of these names need and take.
Takes(names, args, options) == [name : names, args : {args}, options : {options}]
Nothing    == {}
Strategies == {"prefer_newest", "stable_debian", "newest_redhat"}
InstallOptions ==
  {"sandbox", "convert_only", "replace", "yes", "smart"} \cup Strategies

\* enum SpmCommand.  "install file" is install of what looks like a path or is one.
PackageCommands ==
  Takes({"install", "install file"}, {"package"}, InstallOptions)
  \cup Takes({"remove"}, {"package"}, {"yes"})    \cup Takes({"purge"}, {"package"}, Nothing)
  \cup Takes({"autoremove", "dist-upgrade"}, Nothing, {"yes"})
  \cup Takes({"update"}, Nothing, Nothing)        \cup Takes({"upgrade"}, Nothing, {"package"} \cup Strategies)

QueryCommands ==
  Takes({"search"}, {"query"}, Nothing)           \cup Takes({"search-file"}, {"path"}, Nothing)
  \cup Takes({"global-search"}, {"query"}, {"yes"})
  \cup Takes({"info", "files", "depends", "rdepends"}, {"package"}, Nothing)
  \cup Takes({"history"}, Nothing, {"undo"})      \cup Takes({"analyze"}, Nothing, {"mode", "trace"})
  \cup Takes({"ps"}, Nothing, Nothing)

SystemCommands ==
  Takes({"detect"}, Nothing, {"install"})         \cup Takes({"build"}, {"path"}, {"output", "sign"})
  \cup Takes({"cleanup"}, Nothing, {"force"})     \cup Takes({"sync"}, Nothing, {"files", "prune"})
  \cup Takes({"fsck"}, Nothing, {"fix", "files"})
  \cup Takes({"init"}, Nothing, {"root", "from_system", "fix_backend", "install_daemon"})
  \cup Takes({"self-update"}, Nothing, {"check", "version"})

SubCommands ==
  Takes({"snapshot create", "sandbox list", "repo list", "index rebuild", "config show"}, Nothing, Nothing)
  \cup Takes({"snapshot rollback"}, {"id"}, Nothing)
  \cup Takes({"sandbox run"}, {"package"}, {"command"})
  \cup Takes({"repo add"}, {"name"}, {"source", "url", "mirror", "priority"})
  \cup Takes({"repo create"}, {"name"}, {"source", "path", "codename", "component", "mirror"})
  \cup Takes({"repo publish"}, {"name", "package"}, Nothing)
  \cup Takes({"repo remove", "repo gen-key", "repo sign"}, {"name"}, Nothing)
  \cup Takes({"config set"}, {"key", "value"}, Nothing)
  \cup Takes({"group create", "group list"}, Nothing, Nothing)
  \cup Takes({"group add", "group remove"}, {"user"}, Nothing)

Commands == PackageCommands \cup QueryCommands \cup SystemCommands \cup SubCommands
\* This one is never sent: the client searches, downloads and installs by itself (global_search).
ByItself == {"global-search"}
\* What is typed is a command with what it needs.
Fits(x, k) == x.name = k.name /\ k.args \subseteq x.given /\ x.given \subseteq k.args \cup k.options

-----------------------------------------------------------------------------
(* execute and client.rs: the request that a command becomes. *)

Field    == "req.package"
Same(as) == {<<a, a>> : a \in as}

\* send_command: the field package is a copy of the parameter of that name.
Say(action, pairs, given) ==
  LET ps == {x \in pairs : x[2] \in given}
  IN  [action |-> action, params |-> ps \cup {<<Field, x[2]>> : x \in {y \in ps : y[1] = "package"}}]
\* The parameters as text in the field package.
SayInPackage(action, pairs, given) ==
  [action |-> action, params |-> {<<Field, "detail">>} \cup {x \in pairs : x[2] \in given}]
\* send_request_action: no parameters.
Ask(action, arg) == [action |-> action, params |-> {<<Field, arg>>}]

InstallRequest(given, isFile) ==
  CASE "convert_only" \in given -> Say("convert", {<<"path", "convert_only">>}, given)
    [] "convert_only" \notin given /\ "sandbox" \in given ->
         Say("install-sandbox",
             Same({"package", "replace", "yes", "smart"} \cup Strategies) \cup {<<"level", "sandbox">>}, given)
    [] {"convert_only", "sandbox"} \cap given = {} /\ isFile ->
         Say("install-local", Same({"replace", "yes"}) \cup {<<"path", "package">>}, given)
    [] OTHER -> Say("install", Same({"package", "replace", "yes"} \cup Strategies), given)

SystemRequest(n, given) ==
  CASE n \in {"snapshot create", "snapshot rollback"} -> SayInPackage(n, Same({"id"}), given)
    [] n \in {"group create", "group list", "group add", "group remove"} -> Say(n, Same({"user"}), given)
    [] n = "sync"        -> Say("sync", Same({"files", "prune"}), given)
    [] n = "fsck"        -> Say("fsck", Same({"fix", "files"}), given)
    [] n = "init"        -> Say("init", Same({"root", "from_system", "fix_backend", "install_daemon"}), given)
    [] n = "self-update" -> Say("self-update", Same({"check", "version"}), given)

PackageRequest(n, given) ==
  CASE n \in {"remove", "purge"}            -> Say(n, Same({"package", "yes"}), given)
    [] n \in {"autoremove", "dist-upgrade"} -> Say(n, Same({"yes"}), given)
    [] n = "update"        -> Say("update", Nothing, given)
    [] n = "index rebuild" -> Say("index-rebuild", Nothing, given)
    [] n = "upgrade"       -> Say("upgrade", Same({"package"} \cup Strategies), given)
    [] n = "search"        -> Ask("search", "query")
    [] n = "search-file"   -> Ask("search-file", "path")
    [] n \in {"info", "files", "depends", "rdepends"} -> Ask(n, "package")
    [] n = "history"       -> Say("history", {<<"id", "undo">>}, given)
    [] OTHER -> SystemRequest(n, given)

ToolRequest(n, given) ==
  CASE n = "analyze"      -> Say("analyze", Same({"mode", "trace"}), given)
    [] n = "ps"           -> Say("ps", Nothing, given)
    [] n = "sandbox list" -> Say("sandbox-list", Nothing, given)
    [] n = "sandbox run"  -> Say("sandbox-run", Same({"package"}) \cup {<<"commands", "command">>}, given)
    [] n = "detect"       -> Say("detect", Same({"install"}), given)
    [] n = "build"        -> Say("build", Same({"path", "output", "sign"}), given)
    [] n = "cleanup"      -> Say("cleanup", Same({"force"}), given)
    [] n = "config show"  -> Say("config-show", Nothing, given)
    [] n = "config set"   -> Say("config-set", Same({"key", "value"}), given)
    [] OTHER -> PackageRequest(n, given)

\* The source of a repository has a default, which is sent.
RepoRequest(n, given) ==
  CASE n = "repo add"    -> SayInPackage("repo add",
                              Same({"name", "source", "url"}) \cup {<<"mirrors", "mirror">>}, given)
    [] n = "repo remove" -> SayInPackage("repo remove", Same({"name"}), given)
    [] n = "repo list"   -> Say("repo-list", Nothing, given)
    [] n = "repo create" ->
         Say("repo-create", Same({"name", "source", "path", "codename", "component", "mirror"}), given \cup {"source"})
    [] n = "repo publish" -> Say("repo-publish", Same({"name", "package"}), given)
    [] OTHER -> ToolRequest(n, given)

\* Mutation: a key is asked for by the parameter that the other requests name a repository with.
KeyRequestByName(n, given) ==
  CASE n = "repo gen-key" -> Say("repo-gen-key", Same({"name"}), given)
    [] n = "repo sign"    -> Say("repo-sign", Same({"name"}), given)
    [] OTHER -> RepoRequest(n, given)

KeyRequest(n, given) ==
  CASE n = "repo gen-key" -> Say("repo-gen-key", {<<"package", "name">>}, given)
    [] n = "repo sign"    -> Say("repo-sign", {<<"package", "name">>}, given)
    [] OTHER -> RepoRequest(n, given)

RequestOf(n, given) ==
  IF n \in {"install", "install file"} THEN InstallRequest(given, n = "install file") ELSE KeyRequest(n, given)

-----------------------------------------------------------------------------
(* The handlers: the fields without which they fail, and the others that they read. *)

H(needs, reads) == [needs |-> needs, reads |-> needs \cup reads]
\* "Unknown action": it fails whatever the fields.
Unhandled == H({"handler"}, Nothing)

\* A trace leaves the mode unread.
ToolHandler(q) ==
  CASE q.action = "sandbox-list" -> H(Nothing, Nothing)
    [] q.action = "sandbox-run"  -> H({"package"}, {"commands"})
    [] q.action = "detect"       -> H(Nothing, {"install"})
    [] q.action = "ps"           -> H(Nothing, {"deleted-libs"})
    [] q.action = "analyze"      ->
         H(Nothing, IF <<"trace", "trace">> \in q.params THEN {"trace"} ELSE {"mode", "trace"})
    [] q.action = "self-update"  -> H(Nothing, {"check", "version"})
    [] OTHER -> Unhandled
PublishHandler(q) ==
  CASE q.action = "repo-list"    -> H(Nothing, Nothing)
    [] q.action = "repo-create"  -> H({"name", "source"}, {"path", "codename", "component", "mirror"})
    [] q.action = "repo-publish" -> H({"name", "package"}, Nothing)
    [] q.action \in {"repo-gen-key", "repo-sign"} -> H({Field}, Nothing)
    [] OTHER -> ToolHandler(q)
AdminHandler(q) ==
  CASE q.action = "config-set"    -> H({"key", "value"}, Nothing)
    [] q.action = "index-rebuild" -> H(Nothing, Nothing)
    [] q.action = "history"       -> H(Nothing, {"id"})
    [] q.action = "init" -> H(Nothing, {"root", "from_system", "fix_backend", "install_daemon"})
    [] q.action \in {"group create", "group list"} -> H(Nothing, Nothing)
    [] q.action \in {"group add", "group remove"}  -> H({"user"}, Nothing)
    [] q.action = "fsck" -> H(Nothing, {"fix", "files"})
    [] q.action = "sync" -> H(Nothing, {"files", "prune"})
    [] OTHER -> PublishHandler(q)
QueryHandler(q) ==
  CASE q.action = "search"      -> H(Nothing, {Field})
    [] q.action \in {"search-file", "info", "files", "depends", "rdepends"} -> H({Field}, Nothing)
    [] q.action = "config-show" -> H(Nothing, Nothing)
    [] OTHER -> AdminHandler(q)
FileHandler(q) ==
  CASE q.action = "install-local" -> H({"path"}, {"replace", "yes"})
    [] q.action = "convert"       -> H({"path"}, Nothing)
    [] q.action = "install-sandbox" -> H({"package"}, {"level", "replace", "yes", "smart"} \cup Strategies)
    [] q.action = "build"         -> H({"path"}, {"output", "sign"})
    [] OTHER -> QueryHandler(q)
RepoHandler(q) ==
  CASE q.action = "repo add"    -> H({Field, "name"}, {"source", "url", "mirrors", "priority"})
    [] q.action = "repo remove" -> H({Field, "name"}, Nothing)
    [] q.action = "snapshot create"   -> H({Field}, Nothing)
    [] q.action = "snapshot rollback" -> H({Field, "id"}, Nothing)
    [] OTHER -> FileHandler(q)
UpkeepHandler(q) ==
  CASE q.action = "upgrade" -> H(Nothing, {Field} \cup Strategies)
    [] q.action = "purge"   -> H({Field}, Nothing)
    [] q.action = "update"  -> H(Nothing, Nothing)
    [] q.action \in {"dist-upgrade", "autoremove"} -> H(Nothing, {"yes"})
    [] q.action = "cleanup" -> H(Nothing, {"force"})
    [] OTHER -> RepoHandler(q)
\* One handler of install, of remove and of purge for root, and one for everybody else.
InstallHandler(q) ==
  CASE q.action = "install" -> H({Field}, {"replace"} \cup (IF q.root THEN {"yes"} \cup Strategies ELSE {}))
    [] q.action = "remove"  -> H({Field}, Nothing)
    [] OTHER -> UpkeepHandler(q)
HandlerOf(q) == InstallHandler(q)

RootOnly ==
  {"upgrade", "dist-upgrade", "autoremove", "cleanup", "repo add", "repo remove", "snapshot create",
   "snapshot rollback", "config-set", "index-rebuild", "init", "group create", "group list",
   "group add", "group remove", "fsck", "sync", "repo-create", "repo-publish", "repo-gen-key",
   "repo-sign", "self-update"}
Denied(q)   == q.action \in RootOnly /\ ~q.root
Answered(q) == HandlerOf(q).needs \subseteq {x[1] : x \in q.params}
\* The result of these is dropped: they answer that it worked whatever happened.
AlwaysOk(q) == \/ q.action \in {"fsck", "sync", "ps"}
               \/ q.action = "analyze" /\ <<"trace", "trace">> \notin q.params

ASSUME CommandsAssumption ==
  \A c \in Clients : \A x \in CommandsOf[c] :
    x.user \in Users /\ x.root \in BOOLEAN /\ \E k \in Commands : Fits(x, k)
ASSUME SetsAssumption ==
  Known \subseteq Users /\ Versions \subseteq Nat /\ Installed \in Versions
ASSUME MarksAssumption == \A g \in SUBSET Users : g # Absent /\ g # Torn

Binaries == {"spm", "spmd"}
Files    == {"group"} \cup Binaries

VARIABLES
  pc,        \* per client: "ok", "error" (answered), "sent", "hung", or where its request is
  cmd, req,  \* per client: what was typed, what was sent
  up,        \* the daemon runs
  file,      \* the group's members, and the binaries in /usr/bin; what is not there is Absent
  tmp,       \* the files that are renamed to them: one for all requests
  todo,      \* per client: steps left of a replacement of files
  place,     \* per client: where the file that it has open is by now, "aside", "there" or "nowhere"
  want,      \* per client: members to write
  release,   \* per client: version to install
  damaged,   \* per client: binaries that did not arrive whole
  crossed    \* per client: another request replaces its files while it does

progress == <<todo, place, want, release, damaged, crossed>>
disk     == <<file, tmp>>
vars     == <<pc, cmd, req, up, disk, progress>>

NoCmd == [name |-> "update", given |-> {}, user |-> CHOOSE u \in Users : TRUE, root |-> FALSE]
NoReq == [action |-> "update", params |-> {}, root |-> FALSE]

\* install.sh puts spmd into /usr/local/bin only, and a link to spm into /usr/bin.
Init ==
  /\ pc = [c \in Clients |-> "ok"] /\ cmd = [c \in Clients |-> NoCmd]
  /\ req = [c \in Clients |-> NoReq] /\ up = TRUE
  /\ \E g \in {Absent} \cup SUBSET Users :
       file = [f \in Files |-> CASE f = "group" -> g [] f = "spm" -> Installed [] f = "spmd" -> Absent]
  /\ tmp = [f \in Files |-> Absent]
  /\ todo = [c \in Clients |-> <<>>] /\ place = [c \in Clients |-> "aside"]
  /\ want = [c \in Clients |-> {}] /\ release = [c \in Clients |-> Installed]
  /\ damaged = [c \in Clients |-> {}] /\ crossed = [c \in Clients |-> FALSE]

Idle      == {"ok", "error"}
Served(c) == pc[c] \notin Idle \cup {"sent", "hung"}
Goto(c, l) == pc' = [pc EXCEPT ![c] = l]
Members(g) == IF g \in {Absent, Torn} THEN {} ELSE g

\* The answer, after which the client ends.
End(c, l) ==
  /\ Goto(c, l) /\ cmd' = [cmd EXCEPT ![c] = NoCmd] /\ req' = [req EXCEPT ![c] = NoReq]
  /\ todo' = [todo EXCEPT ![c] = <<>>] /\ place' = [place EXCEPT ![c] = "aside"]
  /\ want' = [want EXCEPT ![c] = {}] /\ release' = [release EXCEPT ![c] = Installed]
  /\ damaged' = [damaged EXCEPT ![c] = {}] /\ crossed' = [crossed EXCEPT ![c] = FALSE]

\* A command is typed, and its request is sent; without the daemon there is nothing to connect to.
Type(c, x) ==
  /\ pc[c] \in Idle /\ UNCHANGED <<up, disk, progress>>
  /\ \/ /\ x.name \in ByItself /\ \E l \in Idle : Goto(c, l)
        /\ UNCHANGED <<cmd, req>>
     \/ /\ x.name \notin ByItself /\ ~up /\ Goto(c, "error")
        /\ UNCHANGED <<cmd, req>>
     \/ /\ x.name \notin ByItself /\ up /\ Goto(c, "sent") /\ cmd' = [cmd EXCEPT ![c] = x]
        /\ req' = [req EXCEPT ![c] = LET q == RequestOf(x.name, x.given)
                                     IN  [action |-> q.action, params |-> q.params, root |-> x.root]]

\* The files that a request replaces, from what it reads for it to the last rename.
Replaces(c) ==
  CASE Served(c) /\ req[c].action # "self-update" -> {"group"}
    [] pc[c] = "write" /\ req[c].action = "self-update" -> Binaries
    [] OTHER -> {}
Beside(c, fs) == {d \in Clients \ {c} : Replaces(d) \cap fs # {}}
\* Nothing keeps two requests apart that replace the same files.
Meet(c, fs) ==
  crossed' = [d \in Clients |-> crossed[d] \/ (Beside(c, fs) # {} /\ d \in Beside(c, fs) \cup {c})]

\* The handlers of other modules answer; those of the group and of self-update begin, each in a task.
Serve(c) ==
  /\ pc[c] = "sent" /\ up /\ UNCHANGED <<up, disk>>
  /\ IF Denied(req[c]) \/ ~Answered(req[c]) THEN End(c, "error")
     ELSE CASE req[c].action \in {"group create", "group add", "group remove", "group list"} ->
                 /\ Goto(c, "group") /\ Meet(c, {"group"})
                 /\ UNCHANGED <<cmd, req, todo, place, want, release, damaged>>
            [] req[c].action = "self-update" -> Goto(c, "ask") /\ UNCHANGED <<cmd, req, progress>>
            [] OTHER -> \E l \in IF AlwaysOk(req[c]) THEN {"ok"} ELSE Idle : End(c, l)

-----------------------------------------------------------------------------
(* Files that are written aside and renamed. *)

GroupSteps  == <<<<"truncate", "group">>, <<"fill", "group">>, <<"rename", "group">>>>
UpdateSteps == <<<<"truncate", "spm">>, <<"fill", "spm">>, <<"truncate", "spmd">>, <<"fill", "spmd">>,
                 <<"rename", "spm">>, <<"rename", "spmd">>>>

Does(c, op) == pc[c] = "write" /\ todo[c] # <<>> /\ Head(todo[c])[1] = op
Its(c)      == Head(todo[c])[2]
Advance(c)  == todo' = [todo EXCEPT ![c] = Tail(@)]
               /\ UNCHANGED <<pc, cmd, req, up, want, release, damaged, crossed>>
Content(c, f) == IF f = "group" THEN want[c] ELSE IF f \in damaged[c] THEN Bad ELSE release[c]
\* Of two that are written into one file, the end of the longer one remains.
Contents(c, f) == {Content(c, f)} \cup IF crossed[c] THEN {Torn} ELSE {}

\* Mutation: the file is opened for writing, too, so as to keep its permissions.
TruncateBoth(c) ==
  /\ Does(c, "truncate") /\ Advance(c) /\ tmp' = [tmp EXCEPT ![Its(c)] = Torn] /\ UNCHANGED place
  /\ file' = [file EXCEPT ![Its(c)] = Torn]

\* fs::write opens the file that is there, or a new one, and writes to what it has opened, which
\* another request may have renamed, or renamed another file over.
Truncate(c) == Does(c, "truncate") /\ Advance(c) /\ tmp' = [tmp EXCEPT ![Its(c)] = Torn] /\ UNCHANGED <<file, place>>
Fill(c) ==
  /\ Does(c, "fill") /\ Advance(c) /\ place' = [place EXCEPT ![c] = "aside"]
  /\ \E x \in Contents(c, Its(c)) :
       /\ tmp'  = IF place[c] = "aside" THEN [tmp EXCEPT ![Its(c)] = x] ELSE tmp
       /\ file' = IF place[c] = "there" THEN [file EXCEPT ![Its(c)] = x] ELSE file

Opened(f) == {d \in Clients : Does(d, "fill") /\ Its(d) = f}
Rename(c) ==
  /\ Does(c, "rename") /\ tmp[Its(c)] # Absent /\ Advance(c)
  /\ file' = [file EXCEPT ![Its(c)] = tmp[Its(c)]] /\ tmp' = [tmp EXCEPT ![Its(c)] = Absent]
  /\ place' = [d \in Clients |-> IF d \notin Opened(Its(c)) THEN place[d]
                                 ELSE IF place[d] = "aside" THEN "there" ELSE "nowhere"]

\* What fails in a change of the group is dropped with its result.  What is left aside is forgotten
\* unless another request is at it: the next one truncates it.
Forget(c) == tmp' = [f \in Files |-> IF f \in Replaces(c) /\ Beside(c, {f}) = {} THEN Absent ELSE tmp[f]]
WriteFails(c) ==
  /\ pc[c] = "write" /\ todo[c] # <<>> /\ UNCHANGED <<up, file>> /\ Forget(c)
  /\ End(c, IF Its(c) = "group" THEN "ok" ELSE "error")

-----------------------------------------------------------------------------
(* handle_group *)

Put(c, us) == Goto(c, "write") /\ want' = [want EXCEPT ![c] = us] /\ todo' = [todo EXCEPT ![c] = GroupSteps]
              /\ UNCHANGED <<cmd, req, place, release, damaged, crossed>>

\* An addition creates the group first.  A failure to read a file, or to write gshadow, ends it.
\* What is made of a torn file is torn.
Group(c) ==
  LET group == file["group"]
      u     == cmd[c].user
      is(a) == req[c].action = a
      named == group \notin {Absent, Torn}
      puts  == \/ group = Absent /\ is("group create")
               \/ group = Absent /\ is("group add") /\ u \in Known
               \/ group = Torn /\ ~is("group list")
               \/ named /\ is("group add") /\ u \in Known \ group
               \/ named /\ is("group remove") /\ u \in group
  IN  /\ pc[c] = "group" /\ UNCHANGED <<up, disk>>
      /\ \/ puts /\ Put(c, IF group = Absent THEN {} ELSE IF group = Torn THEN Torn
                           ELSE IF is("group add") THEN group \cup {u} ELSE group \ {u})
         \/ End(c, "ok")

-----------------------------------------------------------------------------
(* handle_self_update *)

IsNewer(v) == v > Installed

\* The release that was asked for, or the latest one.
Offer(c) ==
  /\ pc[c] = "ask" /\ UNCHANGED <<up, disk>>
  /\ \/ End(c, "error")
     \/ \E v \in Versions :
          IF ~IsNewer(v) \/ "check" \in cmd[c].given THEN End(c, "ok")
          ELSE /\ Goto(c, "download") /\ release' = [release EXCEPT ![c] = v]
               /\ UNCHANGED <<cmd, req, todo, place, want, damaged, crossed>>

\* What the server answers is taken for the binary, whatever its status.
Download(c) ==
  /\ pc[c] = "download" /\ UNCHANGED <<up, disk>>
  /\ \/ End(c, "error")
     \/ /\ Goto(c, "verify") /\ damaged' \in {[damaged EXCEPT ![c] = d] : d \in SUBSET Binaries}
        /\ UNCHANGED <<cmd, req, todo, place, want, release, crossed>>

Replace(c) == /\ Goto(c, "write") /\ todo' = [todo EXCEPT ![c] = UpdateSteps] /\ Meet(c, Binaries)
              /\ UNCHANGED <<cmd, req, place, want, release, damaged>>

\* Mutation: the checksum of spm is looked at, and that of spmd is not.
VerifyOne(c) ==
  /\ pc[c] = "verify" /\ UNCHANGED <<up, disk>>
  /\ IF "spm" \in damaged[c] THEN End(c, "error") ELSE Replace(c)

Verify(c) ==
  /\ pc[c] = "verify" /\ UNCHANGED <<up, disk>>
  /\ IF damaged[c] # {} THEN End(c, "error") ELSE Replace(c)

\* A change of the group looks at the group once more and finds it done.
Written(c) ==
  /\ pc[c] = "write" /\ todo[c] = <<>> /\ UNCHANGED <<up, disk>>
  /\ IF req[c].action = "self-update" THEN End(c, "ok")
     ELSE Goto(c, "group") /\ UNCHANGED <<cmd, req, progress>>

-----------------------------------------------------------------------------
\* The daemon ends: what it did is left as it is, and its clients read the end of the connection
\* for ever.  Nobody reads what is left aside: the next daemon truncates it, or has another name for it.
Stop ==
  /\ up /\ up' = FALSE /\ UNCHANGED file /\ tmp' = [f \in Files |-> Absent]
  /\ pc' = [c \in Clients |-> IF pc[c] \in Idle THEN pc[c] ELSE "hung"]
  /\ cmd' = [c \in Clients |-> NoCmd] /\ req' = [c \in Clients |-> NoReq]
  /\ todo' = [c \in Clients |-> <<>>] /\ place' = [c \in Clients |-> "aside"]
  /\ want' = [c \in Clients |-> {}] /\ release' = [c \in Clients |-> Installed]
  /\ damaged' = [c \in Clients |-> {}] /\ crossed' = [c \in Clients |-> FALSE]

\* spmd.service runs what is in /usr/local/bin, which no update replaces.
Start == ~up /\ up' = TRUE /\ UNCHANGED <<pc, cmd, req, disk, progress>>

Interrupt(c) == pc[c] = "hung" /\ Goto(c, "error") /\ UNCHANGED <<cmd, req, up, disk, progress>>

Step(c) == \/ \E x \in CommandsOf[c] : Type(c, x)
           \/ Serve(c) \/ Group(c) \/ Offer(c) \/ Download(c) \/ Verify(c)
           \/ Truncate(c) \/ Fill(c) \/ Rename(c) \/ WriteFails(c) \/ Written(c) \/ Interrupt(c)
Next == Stop \/ Start \/ \E c \in Clients : Step(c)
Spec == Init /\ [][Next]_vars

-----------------------------------------------------------------------------
(* Properties *)

\* The arguments that get to the handler.
Heard(q) == {x[2] : x \in {y \in q.params : y[1] \in HandlerOf(q).reads}}

\* The arguments that a request loses: --convert-only takes the place of all others, install has no
\* field for --smart (nor a file's installation for the strategies), a user's installation asks for
\* neither consent nor a strategy, removals ask for no consent, repo add leaves its priority out, and
\* a trace comes without a mode.
Lost(q) ==
  CASE q.action = "convert" -> {"package"} \cup (InstallOptions \ {"convert_only"})
    [] q.action = "install" -> {"smart"} \cup (IF q.root THEN {} ELSE {"yes"} \cup Strategies)
    [] q.action = "install-local" -> {"smart"} \cup Strategies
    [] q.action = "remove"   -> {"yes"}
    [] q.action = "repo add" -> {"priority"}
    [] q.action = "analyze" /\ <<"trace", "trace">> \in q.params -> {"mode"}
    [] OTHER -> {}

\* Every request that the client sends has a handler (dispatch in handle_inner), the handler finds what
\* it cannot do without in the fields where it looks for it, and reads each argument that was given,
\* except those of Lost.  The commands of ByItself send none.
CommandsHeard ==
  \A c \in Clients : pc[c] = "sent" /\ ~Denied(req[c]) =>
    Answered(req[c]) /\ cmd[c].given \ Heard(req[c]) = cmd[c].given \cap Lost(req[c])

\* A request to do this for this user is being served.
Asked(action, u) == \E c \in Clients : Served(c) /\ cmd[c].user = u /\ req[c].action = action
\* No request that replaces f has had another one beside it that does.
Alone(f) == \A c \in Clients : f \in Replaces(c) => ~crossed[c]

\* atomic_write_file: whatever fails, whenever the daemon ends and whatever else it does meanwhile,
\* /etc/group is whole, the group stays, and the only member that comes or goes is the one a request is
\* about, as long as no two requests change the group at once: those share a file to rename, and
\* both write what they have read.
GroupKeepsMembers ==
  [][Alone("group") /\ file["group"] # Torn =>
       /\ file'["group"] # Torn /\ (file["group"] # Absent => file'["group"] # Absent)
       /\ \A u \in Members(file'["group"]) \ Members(file["group"]) : Asked("group add", u)
       /\ \A u \in Members(file["group"]) \ Members(file'["group"]) : Asked("group remove", u)]_vars

\* verify_checksum and the renames of handle_self_update: whenever a binary in /usr/bin changes it
\* becomes a whole release, newer than the daemon, whatever was there, failed or was left aside before,
\* as long as no two updates replace the binaries at once: those share the files in /tmp.
BinariesWhole ==
  [][\A b \in Binaries : Alone(b) /\ file'[b] # file[b] => file'[b] \in Versions /\ file'[b] > Installed]_vars
=============================================================================
