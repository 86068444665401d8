------------------------------ MODULE MCUpload ------------------------------
(***************************************************************************)
(* Upload for TLC: commits of the person and of someone else, with and     *)
(* without a committer of the account's.                                   *)
(***************************************************************************)
EXTENDS Upload

SomeKinds == {[author |-> "person", registered |-> FALSE, signed |-> "author"],
              [author |-> "person", registered |-> TRUE,  signed |-> "both"],
              [author |-> "other",  registered |-> FALSE, signed |-> "account"],
              [author |-> "other",  registered |-> TRUE,  signed |-> "none"]}
=============================================================================
