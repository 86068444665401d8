---------------------------- MODULE MCReviewBatch ----------------------------
(* Small instances of ReviewBatch for TLC.                                 *)
EXTENDS ReviewBatch

(* The first review is of a Gerrit change with a session to resume, the    *)
(* last one is of a pull request.                                          *)
FirstReview == {1}
LastReview == {N}
=============================================================================
