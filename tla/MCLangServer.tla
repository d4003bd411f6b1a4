---------------------------- MODULE MCLangServer ----------------------------
(* Two files, two versions that parse and one that does not, one           *)
(* documentSymbol request.                                                 *)
EXTENDS LangServer, TLC

CONSTANTS f1, f2, v1, v2, v3, r1

MCFiles == {f1, f2}
MCVersions == {v1, v2}
MCBroken == {v3}
MCVersionsBroken == {v1, v2, v3}
NoneBroken == {}
MCRequests == {r1}
MCDisk == [f \in MCFiles |-> v1]
=============================================================================
