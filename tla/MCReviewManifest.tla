-------------------------- MODULE MCReviewManifest --------------------------
(* Small instances of ReviewManifest for TLC.                              *)
EXTENDS ReviewManifest, TLC

(* Sound for the safety properties: nothing tells invocations apart.       *)
Symmetry == Permutations(Invs)
=============================================================================
