-------------------------- MODULE MCRebaseSession --------------------------
(***************************************************************************)
(* RebaseSession for TLC: which changes of the series may be stale.        *)
(***************************************************************************)
EXTENDS RebaseSession

NoStale  == {{}}
AnyStale == SUBSET (1..N - 1)
=============================================================================
