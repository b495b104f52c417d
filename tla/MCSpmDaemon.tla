---------------------------- MODULE MCSpmDaemon ----------------------------
(***************************************************************************)
(* Small instances of SpmDaemon.  RateBound and the limit on slots are at   *)
(* stake from three requests of one user on (two windows of one request    *)
(* each, or two slots, and one more); two requests are enough for one to   *)
(* find what the other left in the map of channels, on a thread of the     *)
(* runtime or on one of the pool.                                          *)
(***************************************************************************)
EXTENDS SpmDaemon, TLC

CONSTANTS c1, c2, c3, u1, u2

Load(a, b, c) == (c1 :> a) @@ (c2 :> b) @@ (c3 :> c)
NotOpened     == <<u1, None>>

MCLoads == {Load(<<u1, "install">>, <<u1, "invalid">>, <<u1, "invalid">>),
            Load(<<u1, "install">>, <<u1, "list">>, NotOpened),
            Load(<<u1, "install">>, <<u1, "update">>, NotOpened),
            Load(<<u1, "install">>, <<u2, "update">>, NotOpened)}
=============================================================================
