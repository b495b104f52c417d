----------------------------- MODULE MCSpmFetch -----------------------------
(* A repository of each kind, two versions of a package and one that is signed with an unknown key. *)
EXTENDS SpmFetch, TLC

CONSTANTS q1, q2

MCRepoList    == <<"Deb", "Rpm", "Native">>
MCParts       == <<2, 3>>
MCSignatureOf == <<"unsigned", "nokey">>
Symmetry      == Permutations({q1, q2})
=============================================================================
