---------------------------- MODULE MCSettings ----------------------------
(* Two administrators, three folders, two source URLs and one adapter.       *)
EXTENDS Settings

CONSTANTS d1, d2, u1
MCEnvFolders == [movie |-> {d1}, tv |-> {d2}]
MCEnvUrls == {u1}
=============================================================================
