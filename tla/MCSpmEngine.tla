----------------------------- MODULE MCSpmEngine -----------------------------
(***************************************************************************)
(* Instances of SpmEngine for TLC.  Package a has an old build a1 and a    *)
(* newer one a2 that drops a file, both with scripts.  Package b depends   *)
(* on a and holds a conffile and another file.  Package c has the content  *)
(* of a1, obsoletes b and is not a dependency of anybody.                  *)
(* The directory /etc/b holds the conffile of b; /var/lib/a holds a        *)
(* library of a, and a file of b.                                          *)
(***************************************************************************)
EXTENDS SpmEngine, TLC

CONSTANTS a, b, c,             \* packages
          a1, a2, b1, c1,      \* builds
          ha1, ha2, hb,        \* content hashes
          bin, lib, etc, man,  \* paths
          r1, r2

MCPkgOf      == (a1 :> a) @@ (a2 :> a) @@ (b1 :> b) @@ (c1 :> c)
MCFilesOf    == (a1 :> {bin, lib}) @@ (a2 :> {bin}) @@ (b1 :> {etc, man}) @@ (c1 :> {bin, lib})
MCHashOf     == (a1 :> ha1) @@ (a2 :> ha2) @@ (b1 :> hb) @@ (c1 :> ha1)
MCObsoletes  == (a1 :> {}) @@ (a2 :> {}) @@ (b1 :> {}) @@ (c1 :> {b})
MCHasScripts == (a1 :> TRUE) @@ (a2 :> TRUE) @@ (b1 :> FALSE) @@ (c1 :> FALSE)
MCDepsOf     == (a :> {}) @@ (b :> {a}) @@ (c :> {})
MCHomesOf    == (a :> {[prefixed |-> {lib, man}, below |-> {lib, man}]})
                @@ (b :> {[prefixed |-> {etc}, below |-> {etc}]}) @@ (c :> {})
MCNewer      == {<<a1, a2>>}

RequestSymmetry == Permutations({r1, r2})
=============================================================================
