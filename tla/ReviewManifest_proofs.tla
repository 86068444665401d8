------------------------ MODULE ReviewManifest_proofs ------------------------
(* Proofs about ReviewManifest, for any number of invocations, keys and    *)
(* revisions.                                                              *)
EXTENDS ReviewManifest, TLAPS

(* The bookkeeping of locked_summary: types, the lock and what its holder  *)
(* has loaded.                                                             *)
LockInv == TypeOK /\ HolderIsCurrent /\ PostingAnEntry

LEMMA MergedType ==
  ASSUME TypeOK, NEW i \in Invs, NEW k \in Reviewed(i), NEW old \in Entry
  PROVE  Merged(i, k, old) \in Entry
  <1> DEFINE e == Merged(i, k, old)
  <1>1. k \in Keys /\ target[i][k] \in 0..MaxPs
    BY DEF TypeOK, Reviewed
  <1>2. result[i][k] \in Statuses
    BY DEF TypeOK, Reviewed
  <1>3. (old.posted /\ old.sha = target[i][k]) \in BOOLEAN
    OBVIOUS
  <1>4. (IF old.posted /\ old.sha # target[i][k] THEN old.sha ELSE 0) \in 0..MaxPs
    BY ConstantsAssumption DEF Entry
  <1> QED
    BY <1>1, <1>2, <1>3, <1>4 DEF Merged, Entry

LEMMA MergeType ==
  ASSUME TypeOK, NEW i \in Invs
  PROVE  Merge(i) \in [Keys -> Entry]
  <1>1. copy[i] \in [Keys -> Entry]
    BY DEF TypeOK
  <1> QED
    BY <1>1, MergedType DEF Merge, Reviewed

LEMMA BumpType ==
  ASSUME NEW count \in [Keys -> [Shas -> Nat]], NEW k \in Keys, NEW s \in Shas
  PROVE  Bump(count, k, s) \in [Keys -> [Shas -> Nat]]
  BY DEF Bump

LEMMA InitLock == Init => LockInv
  BY ConstantsAssumption DEF Init, LockInv, TypeOK, HolderIsCurrent,
     PostingAnEntry, NoEntry, Entry, Statuses, States, Holding, Waiting, Ended,
     Modes, Shas

(* The entry an invocation is posting has the right type, and so has the   *)
(* manifest with its flag set.                                             *)
LEMMA LoadedType ==
  ASSUME TypeOK, PostingAnEntry, NEW i \in Invs,
         pc[i] \in {"entry", "checked", "accepted"}
  PROVE  /\ cur[i] \in Keys
         /\ copy[i][cur[i]] \in Entry
         /\ [copy[i] EXCEPT ![cur[i]].posted = TRUE] \in [Keys -> Entry]
  <1>1. cur[i] \in Keys
    BY DEF PostingAnEntry
  <1>2. copy[i] \in [Keys -> Entry]
    BY DEF TypeOK
  <1>3. ASSUME NEW e \in Entry PROVE [e EXCEPT !.posted = TRUE] \in Entry
    BY DEF Entry
  <1> QED
    BY <1>1, <1>2, <1>3

(* What is sent has a revision, so the counters at it are counters.        *)
LEMMA AcceptedType ==
  ASSUME TypeOK, PostingAnEntry, NEW i \in Invs, Accepted(i)
  PROVE  /\ pc[i] \in {"entry", "checked"}
         /\ cur[i] \in Keys
         /\ ~Skips(i, cur[i], copy[i][cur[i]])
         /\ copy[i][cur[i]].sha \in Shas
         /\ posts' \in [Keys -> [Shas -> Nat]]
         /\ Bump(extra, cur[i], copy[i][cur[i]].sha) \in [Keys -> [Shas -> Nat]]
  <1>1. pc[i] \in {"entry", "checked"}
    BY DEF Accepted, Sending
  <1>2. /\ cur[i] \in Keys
        /\ copy[i][cur[i]] \in Entry
    BY <1>1, LoadedType
  <1>3. ~Skips(i, cur[i], copy[i][cur[i]])
    BY DEF Accepted, Sending, PostingAnEntry
  <1>4. copy[i][cur[i]].sha \in Shas
    BY <1>2, <1>3, ConstantsAssumption DEF Skips, Shas, Entry
  <1> QED
    BY <1>1, <1>2, <1>3, <1>4, BumpType DEF Accepted, TypeOK

LEMMA MessageType ==
  ASSUME TypeOK, PostingAnEntry, NEW i \in Invs, Accepted(i)
  PROVE  message' \in [Keys -> Messages \cup {NoMessage}]
  <1> DEFINE e == copy[i][cur[i]]
  <1>1. cur[i] \in Keys /\ e.sha \in Shas
    BY AcceptedType
  <1>2. e.run \in Invs \cup {NoInv}
    BY <1>1 DEF TypeOK, Entry
  <1>3. Content(cur[i], e) \in Invs \cup {NoInv}
    BY <1>1, <1>2 DEF Content, TypeOK
  <1> QED
    BY <1>1, <1>2, <1>3 DEF Accepted, Messages, TypeOK

LEMMA TypeStep ==
  ASSUME TypeOK, PostingAnEntry, Next
  PROVE  TypeOK'
  <1> USE DEF shared, local
  <1>1. ASSUME NEW i \in Invs, StartRun(i) PROVE TypeOK'
    BY <1>1 DEF TypeOK, StartRun, Modes, States, Waiting
  <1>2. ASSUME NEW i \in Invs, StartPost(i) PROVE TypeOK'
    BY <1>2 DEF TypeOK, StartPost, Modes, States, Waiting
  <1>3. ASSUME NEW i \in Invs, Interrupt(i) PROVE TypeOK'
    BY <1>3 DEF TypeOK, Interrupt, Modes, States, Waiting, Ended, Statuses
  <1>4. ASSUME NEW i \in Invs, NEW k \in Keys, FinishReview(i, k) PROVE TypeOK'
    <2>1. PICK r \in Statuses : FinishedAs(i, k, r)
      BY <1>4 DEF FinishReview
    <2>2. files' \in [Keys -> [Shas -> Invs \cup {NoInv}]]
      <3>1. files \in [Keys -> [Shas -> Invs \cup {NoInv}]]
        BY DEF TypeOK
      <3>2. CASE r = "findings"
        BY <2>1, <3>1, <3>2 DEF FinishedAs
      <3>3. CASE r = "clean"
        BY <2>1, <3>1, <3>3 DEF FinishedAs
      <3>4. CASE r = "failed"
        BY <2>1, <3>1, <3>4 DEF FinishedAs
      <3> QED
        BY <3>2, <3>3, <3>4 DEF Statuses
    <2>3. result' \in [Invs -> [Keys -> Statuses \cup {"none"}]]
      BY <2>1 DEF FinishedAs, TypeOK
    <2> QED
      BY <1>4, <2>2, <2>3 DEF TypeOK, FinishReview
  <1>5. ASSUME NEW i \in Invs, Gather(i) PROVE TypeOK'
    BY <1>5 DEF TypeOK, Gather, States, Waiting
  <1>6. ASSUME NEW i \in Invs, BeginMerge(i) PROVE TypeOK'
    BY <1>6 DEF TypeOK, BeginMerge, Acquire, States, Holding
  <1>7. ASSUME NEW i \in Invs, SaveMerge(i) PROVE TypeOK'
    <2>1. manifest' \in [Keys -> Entry] /\ lock' = NoInv
      BY <1>7, MergeType DEF SaveMerge, SaveAndRelease
    <2>2. extra' \in [Keys -> [Shas -> Nat]]
      <3>1. \A k \in Keys, s \in Shas : extra[k][s] \in Nat /\ extra[k][s] + 1 \in Nat
        BY DEF TypeOK
      <3> QED
        BY <1>7, <3>1 DEF SaveMerge
    <2>3. pc' \in [Invs -> States] /\ todo' \in [Invs -> SUBSET Keys]
          /\ named' \in [Invs -> BOOLEAN]
      <3>1. Postable(i) \in SUBSET Keys
        BY DEF Postable
      <3>2. CASE mode[i] = "run-post" /\ Postable(i) # {}
        BY <1>7, <3>1, <3>2 DEF TypeOK, SaveMerge, States, Waiting
      <3>3. CASE ~(mode[i] = "run-post" /\ Postable(i) # {})
        BY <1>7, <3>3 DEF TypeOK, SaveMerge, States, Ended
      <3> QED
        BY <3>2, <3>3
    <2> QED
      BY <1>7, <2>1, <2>2, <2>3 DEF TypeOK, SaveMerge
  <1>8. ASSUME NEW i \in Invs, Snapshot(i) PROVE TypeOK'
    BY <1>8 DEF TypeOK, Snapshot, States, Waiting, Ended, Present
  <1>9. ASSUME NEW i \in Invs, NEW k \in Keys, TakeEntry(i, k) PROVE TypeOK'
    BY <1>9 DEF TypeOK, TakeEntry, Acquire, States, Holding
  <1>10. ASSUME NEW i \in Invs, Skip(i) PROVE TypeOK'
    BY <1>10 DEF TypeOK, Skip, Leave, SaveAndRelease, Onward, States, Waiting, Ended
  <1>11. ASSUME NEW i \in Invs, WouldPost(i) PROVE TypeOK'
    BY <1>11 DEF TypeOK, WouldPost, Leave, SaveAndRelease, Onward, States, Waiting, Ended
  <1>12. ASSUME NEW i \in Invs, HeadUnchanged(i) PROVE TypeOK'
    BY <1>12 DEF TypeOK, HeadUnchanged, States, Holding
  <1>13. ASSUME NEW i \in Invs, HeadMoved(i) PROVE TypeOK'
    BY <1>13 DEF TypeOK, HeadMoved, Leave, SaveAndRelease, Onward, States, Waiting, Ended
  <1>14. ASSUME NEW i \in Invs, Deliver(i) PROVE TypeOK'
    <2>1. Accepted(i) /\ message' \in [Keys -> Messages \cup {NoMessage}]
      BY <1>14, MessageType DEF Deliver
    <2> QED
      BY <1>14, <2>1, AcceptedType DEF TypeOK, Deliver, States, Holding
  <1>15. ASSUME NEW i \in Invs, LoseAnswer(i) PROVE TypeOK'
    <2>1. Accepted(i) /\ message' \in [Keys -> Messages \cup {NoMessage}]
      BY <1>15, MessageType DEF LoseAnswer
    <2> QED
      BY <1>15, <2>1, AcceptedType
      DEF TypeOK, LoseAnswer, Leave, SaveAndRelease, Onward, States, Waiting, Ended
  <1>16. ASSUME NEW i \in Invs, Refuse(i) PROVE TypeOK'
    BY <1>16 DEF TypeOK, Refuse, Leave, SaveAndRelease, Onward, States, Waiting, Ended
  <1>17. ASSUME NEW i \in Invs, Record(i) PROVE TypeOK'
    BY <1>17, LoadedType DEF TypeOK, Record, SaveAndRelease, Onward, States, Waiting, Ended
  <1>18. ASSUME NEW i \in Invs, Crash(i) PROVE TypeOK'
    <2>1. extra' \in [Keys -> [Shas -> Nat]]
      <3>1. CASE pc[i] = "accepted"
        <4>1. /\ cur[i] \in Keys /\ copy[i][cur[i]] \in Entry
              /\ ~Skips(i, cur[i], copy[i][cur[i]])
          BY <3>1, LoadedType DEF PostingAnEntry
        <4>2. copy[i][cur[i]].sha \in Shas
          BY <4>1, ConstantsAssumption DEF Skips, Entry, Shas
        <4> QED
          BY <1>18, <4>1, <4>2, BumpType DEF Crash, TypeOK
      <3>2. CASE pc[i] # "accepted"
        BY <1>18, <3>2 DEF Crash, TypeOK
      <3> QED
        BY <3>1, <3>2
    <2> QED
      BY <1>18, <2>1 DEF TypeOK, Crash, States, Ended
  <1>19. ASSUME NEW k \in Keys, NewPatchset(k) PROVE TypeOK'
    <2>1. head[k] \in 1..MaxPs /\ head[k] < MaxPs /\ MaxPs \in Nat
      BY <1>19, ConstantsAssumption DEF TypeOK, NewPatchset, Shas
    <2>2. head[k] + 1 \in Shas
      BY <2>1 DEF Shas
    <2> QED
      BY <1>19, <2>2 DEF TypeOK, NewPatchset
  <1>20. CASE AllEnded
    BY <1>20 DEF TypeOK, AllEnded, vars
  <1> QED
    BY <1>1, <1>2, <1>3, <1>4, <1>5, <1>6, <1>7, <1>8, <1>9, <1>10, <1>11,
       <1>12, <1>13, <1>14, <1>15, <1>16, <1>17, <1>18, <1>19, <1>20
    DEF Next, Work

-----------------------------------------------------------------------------
(* The lock.  An action of i either leaves the lock alone, takes it when   *)
(* it is free, or gives it up; the three lemmas cover these cases.         *)

LEMMA HolderKept ==
  ASSUME TypeOK, HolderIsCurrent, NEW i \in Invs, NEW st \in States,
         pc' = [pc EXCEPT ![i] = st], pc[i] \in Holding <=> st \in Holding,
         UNCHANGED <<lock, copy, manifest>>
  PROVE  HolderIsCurrent'
  BY DEF TypeOK, HolderIsCurrent

LEMMA HolderTakes ==
  ASSUME TypeOK, HolderIsCurrent, NEW i \in Invs, NEW st \in Holding,
         pc' = [pc EXCEPT ![i] = st], Acquire(i), UNCHANGED manifest
  PROVE  HolderIsCurrent'
  BY ConstantsAssumption DEF TypeOK, HolderIsCurrent, Acquire

LEMMA HolderLeaves ==
  ASSUME TypeOK, HolderIsCurrent, NEW i \in Invs, NEW st \in States \ Holding,
         pc[i] \in Holding, pc' = [pc EXCEPT ![i] = st], lock' = NoInv
  PROVE  HolderIsCurrent'
  <1>1. lock = i
    BY DEF HolderIsCurrent
  <1>2. \A j \in Invs : pc'[j] \notin Holding
    BY <1>1 DEF TypeOK, HolderIsCurrent
  <1> QED
    BY <1>2, ConstantsAssumption DEF HolderIsCurrent

LEMMA HolderStep ==
  ASSUME TypeOK, HolderIsCurrent, Next
  PROVE  HolderIsCurrent'
  <1> USE DEF shared, local
  <1> DEFINE Keeps(i) == \E st \in States :
               /\ pc' = [pc EXCEPT ![i] = st]
               /\ pc[i] \in Holding <=> st \in Holding
               /\ UNCHANGED <<lock, copy, manifest>>
  <1> DEFINE Leaves(i) == \E st \in States \ Holding :
               /\ pc' = [pc EXCEPT ![i] = st]
               /\ pc[i] \in Holding
               /\ lock' = NoInv
  <1>1. ASSUME NEW i \in Invs, Keeps(i) PROVE HolderIsCurrent'
    BY <1>1, HolderKept
  <1>2. ASSUME NEW i \in Invs, Leaves(i) PROVE HolderIsCurrent'
    BY <1>2, HolderLeaves
  <1> USE DEF States, Holding, Waiting, Ended
  <1>3. ASSUME NEW i \in Invs, StartRun(i) \/ StartPost(i) PROVE Keeps(i)
    BY <1>3 DEF StartRun, StartPost
  <1>4. ASSUME NEW i \in Invs, Interrupt(i) PROVE Keeps(i)
    BY <1>4 DEF Interrupt
  <1>5. ASSUME NEW i \in Invs, NEW k \in Keys, FinishReview(i, k) PROVE HolderIsCurrent'
    BY <1>5 DEF FinishReview, FinishedAs, HolderIsCurrent
  <1>6. ASSUME NEW i \in Invs, Gather(i) \/ Snapshot(i) PROVE Keeps(i)
    BY <1>6 DEF Gather, Snapshot
  <1>7. ASSUME NEW i \in Invs, HeadUnchanged(i) \/ Deliver(i) PROVE Keeps(i)
    BY <1>7 DEF HeadUnchanged, Deliver, Accepted, Sending
  <1>8. ASSUME NEW i \in Invs, BeginMerge(i) PROVE HolderIsCurrent'
    BY <1>8, HolderTakes DEF BeginMerge
  <1>9. ASSUME NEW i \in Invs, NEW k \in Keys, TakeEntry(i, k) PROVE HolderIsCurrent'
    BY <1>9, HolderTakes DEF TakeEntry
  <1>10. ASSUME NEW i \in Invs, SaveMerge(i) PROVE Leaves(i)
    BY <1>10 DEF SaveMerge, SaveAndRelease
  <1>11. ASSUME NEW i \in Invs, Skip(i) \/ WouldPost(i) \/ HeadMoved(i) PROVE Leaves(i)
    BY <1>11 DEF Skip, WouldPost, HeadMoved, Leave, SaveAndRelease, Onward
  <1>12. ASSUME NEW i \in Invs, LoseAnswer(i) \/ Refuse(i) PROVE Leaves(i)
    BY <1>12 DEF LoseAnswer, Refuse, Accepted, Sending, Leave, SaveAndRelease, Onward
  <1>13. ASSUME NEW i \in Invs, Record(i) PROVE Leaves(i)
    BY <1>13 DEF Record, SaveAndRelease, Onward
  <1>14. ASSUME NEW i \in Invs, Crash(i) PROVE HolderIsCurrent'
    <2>1. CASE lock = i
      BY <1>14, <2>1, HolderLeaves DEF Crash, HolderIsCurrent
    <2>2. CASE lock # i
      BY <1>14, <2>2 DEF Crash, HolderIsCurrent, TypeOK
    <2> QED
      BY <2>1, <2>2
  <1>15. ASSUME NEW k \in Keys, NewPatchset(k) PROVE HolderIsCurrent'
    BY <1>15 DEF NewPatchset, HolderIsCurrent
  <1>16. CASE AllEnded
    BY <1>16 DEF AllEnded, vars, HolderIsCurrent
  <1> HIDE DEF Keeps, Leaves
  <1> QED
    BY <1>1, <1>2, <1>3, <1>4, <1>5, <1>6, <1>7, <1>8, <1>9, <1>10, <1>11,
       <1>12, <1>13, <1>14, <1>15, <1>16
    DEF Next, Work

(* Past TakeEntry the key is known, and past the checks of post_results    *)
(* the entry has a revision.                                               *)
LEMMA PostingStep ==
  ASSUME TypeOK, PostingAnEntry, Next
  PROVE  PostingAnEntry'
  <1> USE DEF shared, local
  <1> DEFINE Posting == {"entry", "checked", "accepted"}
  <1>1. ASSUME NEW i \in Invs, UNCHANGED <<cur, copy>>, pc'[i] \notin Posting,
               \A j \in Invs \ {i} :
                 pc'[j] = pc[j] /\ mode'[j] = mode[j] /\ named'[j] = named[j]
        PROVE  PostingAnEntry'
    BY <1>1 DEF PostingAnEntry, Skips
  <1>2. ASSUME NEW i \in Invs, StartRun(i) \/ StartPost(i) \/ Interrupt(i) \/ Gather(i)
        PROVE  PostingAnEntry'
    BY <1>1, <1>2 DEF StartRun, StartPost, Interrupt, Gather, TypeOK
  <1>3. ASSUME NEW i \in Invs, NEW k \in Keys, FinishReview(i, k)
        PROVE  PostingAnEntry'
    BY <1>3 DEF FinishReview, PostingAnEntry, Skips
  <1>4. ASSUME NEW i \in Invs, BeginMerge(i) PROVE PostingAnEntry'
    BY <1>4 DEF BeginMerge, Acquire, PostingAnEntry, Skips, TypeOK
  <1>5. ASSUME NEW i \in Invs, SaveMerge(i) \/ Snapshot(i) \/ Record(i) \/ Crash(i)
        PROVE  PostingAnEntry'
    BY <1>1, <1>5 DEF SaveMerge, Snapshot, Record, Crash, Onward, TypeOK
  <1>6. ASSUME NEW i \in Invs, NEW k \in Keys, TakeEntry(i, k) PROVE PostingAnEntry'
    BY <1>6 DEF TakeEntry, Acquire, PostingAnEntry, Skips, TypeOK
  <1>7. ASSUME NEW i \in Invs,
               Skip(i) \/ WouldPost(i) \/ HeadMoved(i) \/ LoseAnswer(i) \/ Refuse(i)
        PROVE  PostingAnEntry'
    BY <1>1, <1>7
    DEF Skip, WouldPost, HeadMoved, LoseAnswer, Refuse, Leave, Onward, TypeOK
  <1>8. ASSUME NEW i \in Invs, HeadUnchanged(i) PROVE PostingAnEntry'
    BY <1>8 DEF HeadUnchanged, PostingAnEntry, Skips, TypeOK
  <1>9. ASSUME NEW i \in Invs, Deliver(i) PROVE PostingAnEntry'
    BY <1>9, AcceptedType DEF Deliver, PostingAnEntry, Skips, TypeOK
  <1>10. ASSUME NEW k \in Keys, NewPatchset(k) PROVE PostingAnEntry'
    BY <1>10 DEF NewPatchset, PostingAnEntry, Skips
  <1>11. CASE AllEnded
    BY <1>11 DEF AllEnded, vars, PostingAnEntry, Skips
  <1> QED
    BY <1>2, <1>3, <1>4, <1>5, <1>6, <1>7, <1>8, <1>9, <1>10, <1>11
    DEF Next, Work

LEMMA LockStep == LockInv /\ [Next]_vars => LockInv'
  <1>1. CASE Next
    BY <1>1, TypeStep, HolderStep, PostingStep DEF LockInv
  <1>2. CASE UNCHANGED vars
    BY <1>2 DEF vars, shared, local, LockInv, TypeOK, HolderIsCurrent, PostingAnEntry, Skips
  <1> QED
    BY <1>1, <1>2

(* The state of every reachable results directory has its type, and so has *)
(* that of every invocation.                                               *)
THEOREM TypeCorrect == Spec => []TypeOK
  <1>1. LockInv => TypeOK
    BY DEF LockInv
  <1> QED
    BY <1>1, InitLock, LockStep, PTL DEF Spec

(* At most one invocation is between the load and the save of              *)
(* locked_summary, and the manifest does not change under it.              *)
THEOREM LockCorrect == Spec => []HolderIsCurrent
  <1>1. LockInv => HolderIsCurrent
    BY DEF LockInv
  <1> QED
    BY <1>1, InitLock, LockStep, PTL DEF Spec

-----------------------------------------------------------------------------
(* The account of the posts.                                               *)

(* Nothing is in flight unless the holder of the lock has just posted.     *)
LEMMA NothingInFlight ==
  ASSUME HolderIsCurrent, NEW i \in Invs, pc[i] \in Holding \ {"accepted"}
  PROVE  \A k \in Keys, s \in Shas : ~InFlight(k, s)
  BY DEF HolderIsCurrent, InFlight

LEMMA NothingInFlightUnlocked ==
  ASSUME lock = NoInv
  PROVE  \A k \in Keys, s \in Shas : ~InFlight(k, s)
  BY DEF InFlight

(* A block that ends without a post saves what it loaded, which is what    *)
(* the manifest still is.                                                  *)
LEMMA LeaveKeeps ==
  ASSUME HolderIsCurrent, NEW i \in Invs, NEW next, pc[i] \in Holding,
         Leave(i, next)
  PROVE  manifest' = manifest /\ lock' = NoInv
  BY DEF HolderIsCurrent, Leave, SaveAndRelease

LEMMA AccountedStep ==
  ASSUME LockInv, Accounted, Next
  PROVE  Accounted'
  <1> USE DEF shared, local, LockInv
  <1> DEFINE Quiet == /\ UNCHANGED <<manifest, posts, extra>>
                      /\ \A k \in Keys, s \in Shas : InFlight(k, s)' <=> InFlight(k, s)
  <1>1. ASSUME Quiet PROVE Accounted'
    BY <1>1 DEF Accounted, Recorded, One
  <1>2. ASSUME NEW i \in Invs, pc[i] # "accepted", pc'[i] # "accepted",
               \A j \in Invs \ {i} : pc'[j] = pc[j],
               UNCHANGED <<manifest, lock, posts, extra, cur, copy>>
        PROVE  Quiet
    BY <1>2 DEF InFlight, TypeOK
  <1>3. ASSUME NEW i \in Invs, StartRun(i) \/ StartPost(i) \/ Interrupt(i) \/ Gather(i)
        PROVE  Quiet
    BY <1>2, <1>3 DEF StartRun, StartPost, Interrupt, Gather, TypeOK
  <1>4. ASSUME NEW i \in Invs, NEW k \in Keys, FinishReview(i, k) PROVE Quiet
    BY <1>4 DEF FinishReview, FinishedAs, InFlight
  <1>5. ASSUME NEW i \in Invs, BeginMerge(i) PROVE Quiet
    BY <1>5, ConstantsAssumption DEF BeginMerge, Acquire, InFlight, TypeOK
  <1>6. ASSUME NEW i \in Invs, NEW k \in Keys, TakeEntry(i, k) PROVE Quiet
    BY <1>6, ConstantsAssumption DEF TakeEntry, Acquire, InFlight, TypeOK
  <1>7. ASSUME NEW i \in Invs, Snapshot(i) \/ HeadUnchanged(i) PROVE Quiet
    BY <1>2, <1>7 DEF Snapshot, HeadUnchanged, TypeOK
  <1>8. ASSUME NEW i \in Invs, pc[i] \in Holding \ {"accepted"}, NEW next, Leave(i, next),
               UNCHANGED <<posts, extra>>
        PROVE  Quiet
    BY <1>8, LeaveKeeps, NothingInFlight DEF InFlight
  <1>9. ASSUME NEW i \in Invs, Skip(i) \/ WouldPost(i) \/ HeadMoved(i) \/ Refuse(i)
        PROVE  Quiet
    BY <1>8, <1>9 DEF Skip, WouldPost, HeadMoved, Refuse, Sending, Holding
  <1>10. ASSUME NEW k \in Keys, NewPatchset(k) PROVE Quiet
    BY <1>10 DEF NewPatchset, InFlight
  <1>11. CASE AllEnded
    BY <1>11, <1>1 DEF AllEnded, vars, InFlight
  <1>12. ASSUME NEW i \in Invs, SaveMerge(i) PROVE Accounted'
    <2>1. /\ lock = i /\ copy[i] = manifest /\ lock' = NoInv
          /\ manifest' = Merge(i) /\ posts' = posts
      BY <1>12 DEF SaveMerge, SaveAndRelease, HolderIsCurrent, Holding
    <2>2. SUFFICES ASSUME NEW k \in Keys, NEW s \in Shas
                   PROVE  posts[k][s] = One(Recorded(k, s)') + extra'[k][s]
      BY <2>1, NothingInFlightUnlocked DEF Accounted, One, InFlight, TypeOK
    <2>3. posts[k][s] = One(Recorded(k, s)) + extra[k][s] /\ extra[k][s] \in Nat
      BY <1>12, NothingInFlight DEF Accounted, One, TypeOK, SaveMerge, Holding
    <2>4. CASE k \notin Reviewed(i)
      BY <1>12, <2>1, <2>3, <2>4 DEF SaveMerge, Merge, Recorded
    <2>5. CASE k \in Reviewed(i) /\ Recorded(k, s) /\ target[i][k] # s
      BY <1>12, <2>1, <2>3, <2>5 DEF SaveMerge, Merge, Merged, Recorded, One
    <2>6. CASE k \in Reviewed(i) /\ ~(Recorded(k, s) /\ target[i][k] # s)
      BY <1>12, <2>1, <2>3, <2>6 DEF SaveMerge, Merge, Merged, Recorded, One
    <2> QED
      BY <2>4, <2>5, <2>6
  <1>13. ASSUME NEW i \in Invs, Accepted(i)
         PROVE  LET k == cur[i]
                    s == manifest[k].sha
                IN  /\ lock = i /\ copy[i] = manifest
                    /\ k \in Keys /\ s \in Shas
                    /\ posts' = Bump(posts, k, s)
                    /\ manifest[k].posted => mode[i] = "force"
                    /\ \A j \in Keys, t \in Shas :
                         /\ posts[j][t] = One(Recorded(j, t)) + extra[j][t]
                         /\ posts[j][t] \in Nat /\ extra[j][t] \in Nat
                         /\ posts'[j][t] = IF j = k /\ t = s THEN posts[j][t] + 1
                                                            ELSE posts[j][t]
    <2>1. /\ pc[i] \in {"entry", "checked"} /\ cur[i] \in Keys
          /\ copy[i][cur[i]].sha \in Shas
          /\ ~Skips(i, cur[i], copy[i][cur[i]])
      BY <1>13, AcceptedType
    <2>2. lock = i /\ copy[i] = manifest
      BY <2>1 DEF HolderIsCurrent, Holding
    <2>3. posts' = Bump(posts, cur[i], manifest[cur[i]].sha)
      BY <1>13, <2>2 DEF Accepted
    <2>4. \A j \in Keys, t \in Shas :
            /\ posts[j][t] = One(Recorded(j, t)) + extra[j][t]
            /\ posts[j][t] \in Nat /\ extra[j][t] \in Nat
      <3>1. \A j \in Keys, t \in Shas : ~InFlight(j, t)
        BY <2>1, NothingInFlight DEF Holding
      <3> QED
        BY <3>1 DEF Accounted, One, TypeOK
    <2>5. \A j \in Keys, t \in Shas :
            posts'[j][t] = IF j = cur[i] /\ t = manifest[cur[i]].sha
                           THEN posts[j][t] + 1 ELSE posts[j][t]
      BY <2>1, <2>2, <2>3 DEF Bump, TypeOK
    <2> QED
      BY <2>1, <2>2, <2>3, <2>4, <2>5 DEF Skips
  <1>14. ASSUME NEW i \in Invs, Deliver(i) PROVE Accounted'
    <2> DEFINE k == cur[i]
               s == manifest[k].sha
    <2>1. Accepted(i) /\ UNCHANGED <<manifest, lock, cur, copy>>
      BY <1>14 DEF Deliver
    <2>2. pc'[i] = "accepted"
      BY <1>14 DEF Deliver, TypeOK
    <2>3. CASE manifest[k].posted
      <3>1. extra' = Bump(extra, k, s)
        BY <1>14, <1>13, <2>1, <2>3 DEF Deliver
      <3>2. \A j \in Keys, t \in Shas : ~InFlight(j, t)'
        BY <1>13, <2>1, <2>3 DEF InFlight
      <3> QED
        BY <1>13, <2>1, <3>1, <3>2 DEF Accounted, Recorded, One, Bump, TypeOK
    <2>4. CASE ~manifest[k].posted
      <3>1. extra' = extra
        BY <1>14, <1>13, <2>1, <2>4 DEF Deliver
      <3>2. \A j \in Keys, t \in Shas : InFlight(j, t)' <=> j = k /\ t = s
        BY <1>13, <2>1, <2>2, <2>4, ConstantsAssumption DEF InFlight
      <3>3. ~Recorded(k, s)
        BY <2>4 DEF Recorded
      <3> QED
        BY <1>13, <2>1, <3>1, <3>2, <3>3 DEF Accounted, Recorded, One
    <2> QED
      BY <2>3, <2>4
  <1>15. ASSUME NEW i \in Invs, LoseAnswer(i) PROVE Accounted'
    <2> DEFINE k == cur[i]
               s == manifest[k].sha
    <2>1. Accepted(i) /\ Leave(i, Onward(i)) /\ pc[i] \in Holding
      BY <1>15 DEF LoseAnswer, Accepted, Sending, Holding
    <2>2. manifest' = manifest /\ lock' = NoInv
      BY <2>1, LeaveKeeps
    <2>3. extra' = Bump(extra, k, s)
      BY <1>15, <1>13, <2>1 DEF LoseAnswer
    <2>4. \A j \in Keys, t \in Shas : ~InFlight(j, t)'
      BY <2>2 DEF InFlight
    <2> QED
      BY <1>13, <2>1, <2>2, <2>3, <2>4 DEF Accounted, Recorded, One, Bump, TypeOK
  <1>16. ASSUME NEW i \in Invs, pc[i] = "accepted"
         PROVE  /\ lock = i /\ copy[i] = manifest
                /\ cur[i] \in Keys /\ manifest[cur[i]] \in Entry
                /\ manifest[cur[i]].sha \in Shas
                /\ \A j \in Keys, t \in Shas :
                     /\ InFlight(j, t) <=> /\ j = cur[i] /\ t = manifest[j].sha
                                          /\ ~manifest[j].posted
                     /\ posts[j][t] \in Nat /\ extra[j][t] \in Nat
    <2>1. lock = i /\ copy[i] = manifest
      BY <1>16 DEF HolderIsCurrent, Holding
    <2>2. cur[i] \in Keys /\ manifest[cur[i]] \in Entry
      BY <1>16 DEF PostingAnEntry, TypeOK
    <2>3. manifest[cur[i]].sha \in Shas
      BY <1>16, <2>1, <2>2, ConstantsAssumption DEF PostingAnEntry, Skips, Entry, Shas
    <2> QED
      BY <1>16, <2>1, <2>2, <2>3, ConstantsAssumption DEF InFlight, TypeOK
  <1>17. ASSUME NEW i \in Invs, Record(i) PROVE Accounted'
    <2>1. /\ pc[i] = "accepted" /\ UNCHANGED <<posts, extra>> /\ lock' = NoInv
          /\ manifest' = [manifest EXCEPT ![cur[i]].posted = TRUE]
      BY <1>16, <1>17 DEF Record, SaveAndRelease
    <2>2. \A j \in Keys, t \in Shas : ~InFlight(j, t)'
      BY <2>1 DEF InFlight
    <2>3. \A j \in Keys, t \in Shas :
            Recorded(j, t)' <=> Recorded(j, t) \/ (j = cur[i] /\ t = manifest[j].sha)
      BY <1>16, <2>1 DEF Recorded, TypeOK, Entry
    <2> QED
      BY <1>16, <2>1, <2>2, <2>3 DEF Accounted, Recorded, One
  <1>18. ASSUME NEW i \in Invs, Crash(i) PROVE Accounted'
    <2>1. CASE pc[i] = "accepted"
      <3>1. lock' = NoInv /\ UNCHANGED <<manifest, posts>>
        BY <1>16, <1>18, <2>1 DEF Crash
      <3>2. \A j \in Keys, t \in Shas : ~InFlight(j, t)'
        BY <3>1 DEF InFlight
      <3>3. \A j \in Keys, t \in Shas : extra'[j][t] = extra[j][t] + One(InFlight(j, t))
        BY <1>16, <1>18, <2>1 DEF Crash, Bump, One, TypeOK
      <3> QED
        BY <1>16, <2>1, <3>1, <3>2, <3>3 DEF Accounted, Recorded, One
    <2>2. CASE pc[i] # "accepted"
      <3>1. UNCHANGED <<manifest, posts, extra, cur, copy>>
        BY <1>18, <2>2 DEF Crash
      <3>2. \A j \in Keys, t \in Shas : InFlight(j, t)' <=> InFlight(j, t)
        BY <1>18, <2>2, <3>1, ConstantsAssumption DEF Crash, InFlight, TypeOK
      <3> QED
        BY <1>1, <3>1, <3>2
    <2> QED
      BY <2>1, <2>2
  <1> HIDE DEF Quiet
  <1> QED
    BY <1>1, <1>3, <1>4, <1>5, <1>6, <1>7, <1>9, <1>10, <1>11, <1>12, <1>14,
       <1>15, <1>17, <1>18
    DEF Next, Work

LEMMA InitAccount == Init => Accounted /\ LastPostedIsReal
  BY DEF Init, Accounted, LastPostedIsReal, Recorded, InFlight, One, NoEntry

(* Posts are never taken back, and only a merge writes a last_posted       *)
(* record, from an entry whose flag Accounted vouches for.                 *)
LEMMA LastPostedStep ==
  ASSUME LockInv, Accounted, LastPostedIsReal, Next
  PROVE  LastPostedIsReal'
  <1> USE DEF shared, local, LockInv
  <1> DEFINE PostsGrow == \A k \in Keys, s \in Shas : posts'[k][s] >= posts[k][s]
  <1>1. PostsGrow
    <2>1. ASSUME NEW i \in Invs, Accepted(i) PROVE PostsGrow
      BY <2>1, AcceptedType DEF Accepted, Bump, TypeOK
    <2>2. CASE UNCHANGED posts
      BY <2>2 DEF TypeOK
    <2> QED
      BY <2>1, <2>2
      DEF Next, Work, StartRun, StartPost, Interrupt, Crash, FinishReview, Gather,
          BeginMerge, SaveMerge, Snapshot, TakeEntry, Skip, WouldPost,
          HeadUnchanged, HeadMoved, Deliver, LoseAnswer, Refuse, Record,
          NewPatchset, AllEnded, vars
  <1>2. ASSUME \A k \in Keys : manifest'[k].last = manifest[k].last
        PROVE  LastPostedIsReal'
    <2> SUFFICES ASSUME NEW k \in Keys, manifest'[k].last # 0
                 PROVE  posts'[k][manifest'[k].last] > 0
      BY DEF LastPostedIsReal
    <2>1. manifest[k].last \in Shas /\ posts[k][manifest[k].last] > 0
      BY <1>2, ConstantsAssumption DEF LastPostedIsReal, TypeOK, Entry, Shas
    <2>2. posts'[k][manifest[k].last] \in Nat /\ posts[k][manifest[k].last] \in Nat
      BY <2>1, TypeStep DEF TypeOK
    <2> QED
      BY <1>1, <1>2, <2>1, <2>2
  <1>3. ASSUME NEW i \in Invs, SaveMerge(i) PROVE LastPostedIsReal'
    <2>1. copy[i] = manifest /\ manifest' = Merge(i) /\ posts' = posts
      BY <1>3 DEF SaveMerge, SaveAndRelease, HolderIsCurrent, Holding
    <2> SUFFICES ASSUME NEW k \in Keys, manifest'[k].last # 0
                 PROVE  posts[k][manifest'[k].last] > 0
      BY <2>1 DEF LastPostedIsReal
    <2>2. CASE manifest'[k].last = manifest[k].last
      BY <2>2 DEF LastPostedIsReal
    <2>3. CASE manifest'[k].last # manifest[k].last
      <3>1. manifest[k].posted /\ manifest'[k].last = manifest[k].sha
        BY <2>1, <2>3 DEF Merge, Merged
      <3>2. manifest[k].sha \in Shas
        BY <3>1, ConstantsAssumption DEF TypeOK, Entry, Shas
      <3>3. posts[k][manifest[k].sha] = 1 + extra[k][manifest[k].sha]
        <4>1. ~InFlight(k, manifest[k].sha) /\ Recorded(k, manifest[k].sha)
          BY <1>3, <3>1, <3>2, NothingInFlight DEF SaveMerge, Holding, Recorded
        <4>2. extra[k][manifest[k].sha] \in Nat
          BY <3>2 DEF TypeOK
        <4> QED
          BY <3>2, <4>1, <4>2 DEF Accounted, One
      <3>4. extra[k][manifest[k].sha] \in Nat
        BY <3>2 DEF TypeOK
      <3> QED
        BY <3>1, <3>3, <3>4
    <2> QED
      BY <2>2, <2>3
  <1>4. ASSUME NEW i \in Invs, Record(i) PROVE LastPostedIsReal'
    <2>1. manifest' = [manifest EXCEPT ![cur[i]].posted = TRUE]
      BY <1>4 DEF Record, SaveAndRelease, HolderIsCurrent, Holding
    <2> QED
      BY <1>2, <2>1 DEF TypeOK, Entry
  <1>5. ASSUME NEW i \in Invs,
               Skip(i) \/ WouldPost(i) \/ HeadMoved(i) \/ LoseAnswer(i) \/ Refuse(i)
        PROVE  manifest' = manifest
    BY <1>5, LeaveKeeps
    DEF Skip, WouldPost, HeadMoved, LoseAnswer, Refuse, Accepted, Sending, Holding
  <1> HIDE DEF PostsGrow
  <1>6. CASE manifest' = manifest
    BY <1>2, <1>6
  <1> QED
    BY <1>3, <1>4, <1>5, <1>6
    DEF Next, Work, StartRun, StartPost, Interrupt, Crash, FinishReview, Gather,
        BeginMerge, Snapshot, TakeEntry, HeadUnchanged, Deliver, NewPatchset,
        AllEnded, vars

LEMMA IInvInit == Init => IInv
  BY InitLock, InitAccount DEF IInv, LockInv

LEMMA IInvStep == IInv /\ [Next]_vars => IInv'
  <1>1. CASE IInv /\ Next
    BY <1>1, LockStep, AccountedStep, LastPostedStep DEF IInv, LockInv
  <1>2. CASE IInv /\ UNCHANGED vars
    <2>1. LockInv'
      BY <1>2, LockStep DEF IInv, LockInv
    <2>2. Accounted'
      <3>1. \A k \in Keys, s \in Shas :
              /\ Recorded(k, s)' <=> Recorded(k, s)
              /\ InFlight(k, s)' <=> InFlight(k, s)
              /\ posts'[k][s] = posts[k][s] /\ extra'[k][s] = extra[k][s]
        BY <1>2 DEF vars, shared, local, Recorded, InFlight
      <3> QED
        BY <1>2, <3>1 DEF IInv, Accounted, One
    <2>3. LastPostedIsReal'
      BY <1>2 DEF vars, shared, IInv, LastPostedIsReal
    <2> QED
      BY <2>1, <2>2, <2>3 DEF IInv, LockInv
  <1> QED
    BY <1>1, <1>2

LEMMA IInvCorrect == Spec => []IInv
  BY IInvInit, IInvStep, PTL DEF Spec

(* Whatever runs and posts overlap, and wherever they die, every review    *)
(* the provider accepted is the one flagged in the manifest, the one being *)
(* recorded, or an extra with a named cause: post_results and              *)
(* update_summary never post a flagged revision again of their own.        *)
THEOREM PostsAreAccounted == Spec => []Accounted
  <1>1. IInv => Accounted
    BY DEF IInv
  <1> QED
    BY <1>1, IInvCorrect, PTL

(* update_summary writes last_posted only for revisions that were posted.  *)
THEOREM LastPostedIsTrue == Spec => []LastPostedIsReal
  <1>1. IInv => LastPostedIsReal
    BY DEF IInv
  <1> QED
    BY <1>1, IInvCorrect, PTL

(* No flag without a post: an entry of update_summary or post_results that *)
(* says posted is about a revision the provider has accepted.              *)
THEOREM FlaggedWasPosted ==
  Spec => [](\A k \in Keys, s \in Shas : Recorded(k, s) => posts[k][s] > 0)
  <1>1. ASSUME IInv, NEW k \in Keys, NEW s \in Shas, Recorded(k, s)
        PROVE  posts[k][s] > 0
    <2>1. posts[k][s] = 1 + One(InFlight(k, s)) + extra[k][s] /\ extra[k][s] \in Nat
      BY <1>1 DEF IInv, Accounted, One, TypeOK
    <2> QED
      BY <2>1 DEF One
  <1>2. IInv => \A k \in Keys, s \in Shas : Recorded(k, s) => posts[k][s] > 0
    BY <1>1
  <1> QED
    BY <1>2, IInvCorrect, PTL

(* A save of locked_summary changes no entry but those its own invocation  *)
(* has reviewed or is posting.                                             *)
THEOREM NoUpdateIsLost == Spec => NoLostUpdate
  <1> DEFINE Own == \A k \in Keys : manifest'[k] # manifest[k] =>
                      \E i \in Invs : lock = i /\ Touches(i, k)
  <1>1. ASSUME LockInv, Next PROVE Own
    <2> USE <1>1 DEF shared, local, LockInv
    <2>1. ASSUME NEW i \in Invs, SaveMerge(i) PROVE Own
      BY <2>1 DEF SaveMerge, SaveAndRelease, Merge, HolderIsCurrent, Holding, Touches
    <2>2. ASSUME NEW i \in Invs, Record(i) PROVE Own
      BY <2>2 DEF Record, SaveAndRelease, HolderIsCurrent, Holding, Touches, TypeOK
    <2>3. ASSUME NEW i \in Invs,
                 Skip(i) \/ WouldPost(i) \/ HeadMoved(i) \/ LoseAnswer(i) \/ Refuse(i)
          PROVE  Own
      BY <2>3, LeaveKeeps
      DEF Skip, WouldPost, HeadMoved, LoseAnswer, Refuse, Accepted, Sending, Holding
    <2>4. CASE manifest' = manifest
      BY <2>4
    <2> HIDE DEF Own
    <2> QED
      BY <1>1, <2>1, <2>2, <2>3, <2>4
      DEF Next, Work, StartRun, StartPost, Interrupt, Crash, FinishReview, Gather,
          BeginMerge, Snapshot, TakeEntry, HeadUnchanged, Deliver, NewPatchset,
          AllEnded, vars
  <1>2. ASSUME LockInv, [Next]_vars PROVE [Own]_vars
    BY <1>1, <1>2
  <1> QED
    BY <1>2, InitLock, LockStep, PTL DEF Spec, NoLostUpdate

=============================================================================
