-------------------------- MODULE MCStagedReplies --------------------------
(* StagedReplies for TLC: no definition tells the processes apart.         *)
EXTENDS StagedReplies, TLC

AlikeProcs == Permutations(Procs)
=============================================================================
