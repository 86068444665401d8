----------------------------- MODULE MCDashboard -----------------------------
(* Small instances of Dashboard.                                           *)
EXTENDS Dashboard, TLC

Symmetry == Permutations(Users) \cup Permutations(Ctxs) \cup Permutations(Handlers)
=============================================================================
