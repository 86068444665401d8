----------------------------- MODULE ReplyOutbox -----------------------------
(***************************************************************************)
(* What staging and pushing replies promises somebody who sees neither the *)
(* file nor the drafts:                                                    *)
(*   - A reply that was entered is kept until it is posted or given up.    *)
(*   - A push takes replies that are kept and posts them together, as one  *)
(*     message, or none of them, and reports which.                        *)
(*   - A reply is posted a second time only after it came in doubt: its    *)
(*     push could not tell or did not live to tell, two pushes took it, a  *)
(*     posted one was written back, or somebody else published it.         *)
(*   - When others publish or delete what a push has prepared, or it       *)
(*     publishes what others have, it may report more than it did.         *)
(***************************************************************************)
EXTENDS Integers

CONSTANTS
  Replies,
  Pushers   \* where pushes run, one at a time

VARIABLES
  entered,  \* the replies there are
  kept,     \* those that can still be pushed
  lost,     \* given up by the user, or overwritten
  batch,    \* the replies each push has taken, and has not reported on
  said,     \* the report of the last push, where it ran
  posted,   \* how often each reply was posted: 2 for more than once
  messages, \* the sets of replies that were posted together
  doubt,    \* replies whose posting is in doubt
  robbed    \* the pushes that others interfered with

vars == <<entered, kept, lost, batch, said, posted, messages, doubt, robbed>>

Init ==
  /\ entered = {} /\ kept = {} /\ lost = {}
  /\ batch = [p \in Pushers |-> {}]
  /\ said = [p \in Pushers |-> "none"]
  /\ posted = [r \in Replies |-> 0]
  /\ messages = {}
  /\ doubt = {} /\ robbed = {}

(* What is not kept any more was posted or given up.                       *)
Loses ==
  /\ kept' \subseteq kept
  /\ lost \subseteq lost' /\ lost' \subseteq entered
  /\ \A r \in kept \ kept' : r \in lost' \/ posted[r] > 0

(* Other commands forget what was reported.                                *)
Forgets == \A p \in Pushers : said'[p] \in {said[p], "none"}

(* None of these is certain to be new, and yet was posted.                 *)
Unposted(rs) == \A r \in rs \ doubt' : posted[r] = 0

Posts(rs) ==
  /\ Unposted(rs)
  /\ posted' = [r \in Replies |-> IF r \in rs /\ posted[r] < 2 THEN posted[r] + 1 ELSE posted[r]]
  /\ messages' = messages \cup ({rs} \ {{}})

Reports(p, report) ==
  /\ said' = [said EXCEPT ![p] = report]
  /\ batch[p] # {}
  /\ batch' = [batch EXCEPT ![p] = {}]

Enter ==
  /\ UNCHANGED <<posted, messages, doubt, robbed, lost, batch>>
  /\ Forgets
  /\ \E r \in Replies \ entered : entered' = entered \cup {r} /\ kept' = kept \cup {r}

(* The user, or a command that did not see them, drops replies, or writes  *)
(* back some that were posted; drafts are deleted.                         *)
Drop ==
  /\ UNCHANGED <<posted, messages, entered, batch>>
  /\ Forgets
  /\ Loses
  /\ \E rs \in SUBSET {r \in kept : posted[r] > 0} : doubt' = doubt \cup rs
  /\ robbed \subseteq robbed'

Take(p) ==
  /\ UNCHANGED <<posted, messages, entered, kept, lost>>
  /\ Forgets
  /\ batch[p] = {}
  /\ \E rs \in (SUBSET kept) \ {{}} :
       /\ batch' = [batch EXCEPT ![p] = rs]
       /\ doubt' = doubt \cup {r \in rs : \E q \in Pushers : r \in batch[q]}
  /\ robbed' = robbed \ {p}

(* A push posts all that it took, as one message.                          *)
Deliver(p) ==
  /\ UNCHANGED <<said, doubt, robbed, entered, kept, lost, batch>>
  /\ batch[p] # {}
  /\ Posts(batch[p])

(* It does, and is told that it did not.                                   *)
DeliverUnheard(p) ==
  /\ Reports(p, "nothing")
  /\ doubt' = doubt \cup batch[p]
  /\ Posts(batch[p])
  /\ UNCHANGED <<entered, kept, lost, robbed>>

(* Replies are posted that not one push alone prepared, or not by it: those*)
(* that were another's come in doubt.                                      *)
Muddle ==
  /\ UNCHANGED <<said, entered, kept, lost, batch>>
  /\ robbed \subseteq robbed'
  /\ \E rs \in SUBSET entered :
       /\ Posts(rs)
       /\ doubt \subseteq doubt' /\ doubt' \subseteq doubt \cup rs
       /\ rs \subseteq doubt' \/ \E p \in robbed' : rs \subseteq doubt' \cup batch[p]

ReportPosted(p) ==
  /\ Reports(p, "posted")
  /\ batch[p] \in messages \/ p \in robbed
  /\ Loses
  /\ UNCHANGED <<entered, posted, messages, doubt, robbed>>

ReportNothing(p) ==
  /\ Reports(p, "nothing")
  /\ UNCHANGED <<entered, kept, lost, posted, messages, doubt, robbed>>
  /\ Unposted(batch[p])

ReportUncertain(p) ==
  /\ Reports(p, "uncertain")
  /\ doubt' = doubt \cup batch[p]
  /\ UNCHANGED <<entered, kept, lost, posted, messages, robbed>>

(* A push dies: what it has posted comes in doubt.                         *)
Die(p) ==
  /\ Reports(p, said[p])
  /\ doubt' \in {doubt, doubt \cup batch[p]}
  /\ Unposted(batch[p])
  /\ UNCHANGED <<entered, kept, lost, posted, messages, robbed>>

Next ==
  \/ Drop \/ Enter \/ Muddle
  \/ \E p \in Pushers :
       \/ Take(p) \/ Deliver(p) \/ DeliverUnheard(p)
       \/ ReportPosted(p) \/ ReportNothing(p) \/ ReportUncertain(p) \/ Die(p)

Spec == Init /\ [][Next]_vars

=============================================================================
