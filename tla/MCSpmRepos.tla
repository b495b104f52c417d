------------------------------ MODULE MCSpmRepos ------------------------------
(* One place that is published locally and read by a client's configuration, beside a mirror. *)
EXTENDS SpmRepos

CONSTANTS Local, Client, Here, Mirror, K1, K2, S1

Bare == [x \in Paths |-> Absent]
With(f, g) == [x \in Paths |-> IF x \in DOMAIN g THEN g[x] ELSE f[x]]
Put(x, w)  == [y \in {x} |-> w]
Both(f, g) == [x \in DOMAIN f \cup DOMAIN g |-> IF x \in DOMAIN f THEN f[x] ELSE g[x]]
Full(ks)   == [pkgs |-> ks, open |-> TRUE]

\* A client of a native repository that is yet to be created, or has been and is cached.
NewStart == With(Bare, Put(<<"cfg", Client>>, [NoCfg EXCEPT !.url = Here]))
NativeStart ==
  With(NewStart,
    Both(Put(<<"cfg", Local>>, [NoCfg EXCEPT !.url = Here, !.local = TRUE]),
    Both([x \in {<<"index", Here>>, <<"cache", <<"native", Client>>>>} |-> Full({K1})],
    Both(Put(<<"archive", <<Here, K1>>>>, "sam"), Put(<<"conf", None>>, {S1})))))

\* A deb repository with one package that has been signed, and a client with two mirrors of which
\* one is the place.
DebStart ==
  With(Bare,
    Both(Both(Put(<<"cfg", Local>>, [NoCfg EXCEPT !.source = "deb", !.url = Here, !.local = TRUE,
                                                  !.key = TRUE]),
              Put(<<"cfg", Client>>, [NoCfg EXCEPT !.source = "deb", !.mirrors = <<Mirror, Here>>,
                                                   !.dists = TRUE])),
    Both([x \in {"packages", "packages.gz"} \X {Here} |-> Full({K1})],
    Both([x \in SignedKinds \X {<<"deb", Here>>} |-> [m \in Metas("deb") |-> Full({K1})]],
    Both(Both(Put(<<"key", Local>>, "pem"), Put(<<"archive", <<Here, K1>>>>, "sam")),
    Both(Put(<<"packages.gz", Mirror>>, Full({K2})), Put(<<"archive", <<Mirror, K2>>>>, "sam")))))))

\* An rpm repository made by other tools, with a key, and a client that adds up two mirrors.
RpmStart ==
  With(Bare,
    Both(Both(Put(<<"cfg", Local>>, [NoCfg EXCEPT !.source = "rpm", !.url = Here, !.local = TRUE,
                                                  !.key = TRUE]),
              Put(<<"cfg", Client>>, [NoCfg EXCEPT !.source = "rpm", !.mirrors = <<Mirror, Here>>])),
    Both([x \in ({"primary", "filelists"} \X {Here}) |-> Full({K1})],
    Both([x \in ({"release"} \X {<<"rpm", Here>>, <<"rpm", Mirror>>}) |-> [m \in {} |-> Torn]],
    Both(Put(<<"key", Local>>, "pem"),
    Both([x \in {"archive"} \X {<<Here, K1>>, <<Mirror, K2>>} |-> "sam"],
         Put(<<"primary", Mirror>>, Full({K2}))))))))

MCFirstFiles == {NewStart, NativeStart, DebStart, RpmStart}
MCOperations ==
  {[op |-> "publish", name |-> Local, pkg |-> k] : k \in {K1, K2}}
  \cup {[op |-> "create", name |-> Local, source |-> s, place |-> Here] : s \in Sources}
  \cup [op : {"genkey", "sign"}, name : {Local}] \cup {[op |-> "remove", name |-> Client]}
  \cup {[op |-> "add", name |-> Client, cfg |-> [NoCfg EXCEPT !.url = Here]]}
  \cup [op : {"set"}, setting : Settings]
  \cup [op : {"update", "rebuild"}]
=============================================================================
