----------------------------- MODULE MCShepherd -----------------------------
(* Shepherd for TLC: no definition tells the patches apart, nor a patch's  *)
(* failures.                                                               *)
EXTENDS Shepherd, TLC

Alike == Permutations(Urls) \cup Permutations(Suites)
=============================================================================
