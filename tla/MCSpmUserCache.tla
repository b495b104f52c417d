--------------------------- MODULE MCSpmUserCache ---------------------------
(***************************************************************************)
(* Instances of SpmUserCache for TLC.  Package a is offered in two formats *)
(* with different contents, d has the content of the first of them, and n  *)
(* has no executables.                                                     *)
(***************************************************************************)
EXTENDS SpmUserCache, TLC

CONSTANTS a, d, n, a1, a2, d1, n1, h1, h2, hn, x, y, deb, rpm

MCPkgOf    == (a1 :> a) @@ (a2 :> a) @@ (d1 :> d) @@ (n1 :> n)
MCFormatOf == (a1 :> deb) @@ (a2 :> rpm) @@ (d1 :> deb) @@ (n1 :> deb)
MCHashOf   == (a1 :> h1) @@ (a2 :> h2) @@ (d1 :> h1) @@ (n1 :> hn)
MCExecsOf  == (h1 :> {x, y}) @@ (h2 :> {x}) @@ (hn :> {})
=============================================================================
