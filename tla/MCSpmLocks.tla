----------------------------- MODULE MCSpmLocks -----------------------------
(***************************************************************************)
(* Instances of SpmLocks for TLC: two threads of the daemon and one        *)
(* command-line process (or a second daemon thread) on the same lock file. *)
(***************************************************************************)
EXTENDS SpmLocks, TLC

CONSTANTS t1, t2, t3, daemon, cli

MCProcOf == (t1 :> daemon) @@ (t2 :> daemon) @@ (t3 :> cli)
MCTwoProcOf == (t1 :> daemon) @@ (t2 :> cli)

=============================================================================
