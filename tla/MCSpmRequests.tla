---------------------------- MODULE MCSpmRequests ----------------------------
(* One client that types every command, with one option or with two that meet in the code, and one   *)
(* that changes the daemon's own files.                                                               *)
EXTENDS SpmRequests, TLC

CONSTANTS C1, C2, U1

Few(options) == {o \in SUBSET options : Cardinality(o) <= 1}
                \cup (SUBSET options \cap {{"mode", "trace"}, {"sandbox", "convert_only"}, {"sandbox", "smart"}})
Typed(ns, us, rs) ==
  UNION {[name : {k.name}, given : {k.args \cup o : o \in Few(k.options)}, user : us, root : rs] :
         k \in {l \in Commands : l.name \in ns}}

Names == {k.name : k \in Commands}
\* The commands whose handler depends on who asks, and two that are for root and for everybody.
ByAsker == {"install", "remove", "purge", "upgrade", "info"}
MCCommandsOf == C1 :> Typed(Names \ {"group create", "group remove"}, {U1}, {TRUE})
                      \cup Typed(ByAsker, {U1}, {FALSE})
                @@ C2 :> Typed({"group add", "group remove"}, Users, {TRUE})
                      \cup {x \in Typed({"group create", "self-update"}, {U1}, {TRUE}) : x.given = {}}

\* Nobody reads both the group and the binaries: one of them varies at a time.  A command of another
\* handler is sent beside an idle client: its handler does nothing here that the other client could meet.
Own   == {"group add", "group list", "self-update"}
Bound == /\ file["group"] = Absent \/ (file["spm"] = Installed /\ file["spmd"] = Absent)
         /\ pc[C1] = "sent" /\ cmd[C1].name \notin Own => pc[C2] \in Idle
=============================================================================
