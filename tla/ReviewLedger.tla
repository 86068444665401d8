---------------------------- MODULE ReviewLedger ----------------------------
(***************************************************************************)
(* What the results directory promises to somebody who only looks at the   *)
(* manifest and at the provider: reviews are merged and posted in atomic   *)
(* steps, whatever processes, locks, loads and saves are behind them.      *)
(*   - A merge puts new reviews in the place of the old ones.  The posted  *)
(*     flag stays with the revision that was posted.                       *)
(*   - A post sends the current review of a key and flags it in one step.  *)
(*   - A post that nobody records (the answer was lost, the process died,  *)
(*     the user forced a repost) changes the provider only.                *)
(***************************************************************************)
EXTENDS Naturals

CONSTANTS
  Keys,    \* manifest keys
  MaxPs,   \* bound: revisions of a change
  Reviews, \* the reviews a manifest entry can record
  Nobody   \* the review of an absent entry

VARIABLES
  entry,   \* the manifest: sha, status, run, posted and last of each key
  sent     \* recorded or abandoned posts, per key and revision

vars == <<entry, sent>>

Shas == 1..MaxPs

Absent == [sha |-> 0, status |-> "failed", run |-> Nobody,
           posted |-> FALSE, last |-> 0]

Init ==
  /\ entry = [k \in Keys |-> Absent]
  /\ sent = [k \in Keys |-> [s \in Shas |-> 0]]

(* The entry of k after review r of revision s ended with status st.       *)
Replaced(k, r, s, st) ==
  [sha    |-> s,
   status |-> st,
   run    |-> r,
   posted |-> entry[k].posted /\ entry[k].sha = s,
   last   |-> IF entry[k].posted /\ entry[k].sha # s THEN entry[k].sha ELSE 0]

(* One batch r of reviews comes in.                                        *)
MergeReviews ==
  /\ \E r \in Reviews, batch \in SUBSET Keys :
       \E s \in [batch -> Shas], st \in [batch -> {"findings", "clean", "failed"}] :
         entry' = [k \in Keys |-> IF k \in batch THEN Replaced(k, r, s[k], st[k])
                                                ELSE entry[k]]
  /\ UNCHANGED sent

Send(k) == sent' = [sent EXCEPT ![k][entry[k].sha] = @ + 1]

(* A review is only ever sent from an entry that has something to say.     *)
Sendable(k) == entry[k].status \in {"findings", "clean"} /\ entry[k].sha # 0

PostAndFlag(k) ==
  /\ Sendable(k)
  /\ Send(k)
  /\ entry' = [entry EXCEPT ![k].posted = TRUE]

PostUnrecorded(k) ==
  /\ Sendable(k)
  /\ Send(k)
  /\ UNCHANGED entry

Next == MergeReviews \/ \E k \in Keys : PostAndFlag(k) \/ PostUnrecorded(k)

Spec == Init /\ [][Next]_vars

=============================================================================
