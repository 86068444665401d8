---------------------- MODULE ReviewManifest_refinement ----------------------
(* Proof that ReviewManifest implements ReviewLedger, and that a           *)
(* `run --post` finds its batch in the manifest.                           *)
EXTENDS ReviewManifest_proofs

LInv == IInv /\ BatchReviewed

LEMMA BatchStep ==
  ASSUME LockInv, BatchReviewed, Next
  PROVE  BatchReviewed'
  <1> USE DEF shared, local, LockInv
  <1>1. ASSUME NEW i \in Invs, StartRun(i) PROVE BatchReviewed'
    BY <1>1 DEF StartRun, BatchReviewed, Reviewed, Batch, TypeOK
  <1>2. ASSUME NEW i \in Invs, StartPost(i) PROVE BatchReviewed'
    BY <1>2 DEF StartPost, BatchReviewed, Reviewed, Batch, TypeOK
  <1>3. ASSUME NEW i \in Invs, Interrupt(i) PROVE BatchReviewed'
    <2>1. PICK killed \in SUBSET (Batch(i) \ Reviewed(i)) :
            /\ result' = [result EXCEPT ![i] =
                            [k \in Keys |-> IF k \in killed THEN "failed" ELSE @[k]]]
            /\ pc' = [pc EXCEPT ![i] = IF Reviewed(i) \cup killed = {}
                                       THEN "done" ELSE "merge"]
      BY <1>3 DEF Interrupt
    <2>2. result'[i] = [k \in Keys |-> IF k \in killed THEN "failed" ELSE result[i][k]]
      BY <2>1 DEF TypeOK
    <2>3. Reviewed(i)' \subseteq Batch(i)
      BY <2>2 DEF Reviewed, BatchReviewed
    <2>4. \A j \in Invs \ {i} : result'[j] = result[j] /\ pc'[j] = pc[j]
      BY <2>1 DEF TypeOK
    <2>5. pc'[i] # "idle"
      BY <2>1 DEF TypeOK
    <2> QED
      BY <1>3, <2>3, <2>4, <2>5 DEF Interrupt, BatchReviewed, Reviewed, Batch
  <1>4. ASSUME NEW i \in Invs, NEW k \in Keys, FinishReview(i, k) PROVE BatchReviewed'
    BY <1>4 DEF FinishReview, FinishedAs, BatchReviewed, Reviewed, Batch, TypeOK
  <1>5. ASSUME NEW i \in Invs, SaveMerge(i) \/ Snapshot(i) \/ Crash(i) PROVE BatchReviewed'
    <2>1. UNCHANGED <<target, result>> /\ pc'[i] # "idle"
      BY <1>5 DEF SaveMerge, Snapshot, Crash, TypeOK
    <2>2. \A j \in Invs \ {i} : pc'[j] = pc[j] /\ todo'[j] = todo[j]
      BY <1>5 DEF SaveMerge, Snapshot, Crash, TypeOK
    <2> QED
      BY <2>1, <2>2 DEF BatchReviewed, Reviewed, Batch
  <1>6. ASSUME NEW i \in Invs, NEW k \in Keys, TakeEntry(i, k) PROVE BatchReviewed'
    BY <1>6 DEF TakeEntry, BatchReviewed, Reviewed, Batch, TypeOK
  <1>7. ASSUME NEW i \in Invs, NEW st \in States \ {"idle"}, pc' = [pc EXCEPT ![i] = st],
               UNCHANGED <<target, result, todo>>
        PROVE  BatchReviewed'
    BY <1>7 DEF BatchReviewed, Reviewed, Batch, TypeOK
  <1>8. ASSUME NEW i \in Invs,
               \/ Gather(i) \/ BeginMerge(i) \/ HeadUnchanged(i) \/ Deliver(i) \/ Record(i)
               \/ Skip(i) \/ WouldPost(i) \/ HeadMoved(i) \/ LoseAnswer(i) \/ Refuse(i)
        PROVE  BatchReviewed'
    BY <1>7, <1>8
    DEF Gather, BeginMerge, HeadUnchanged, Deliver, Record, Skip, WouldPost, HeadMoved,
        LoseAnswer, Refuse, Leave, Onward, States, Waiting, Holding, Ended
  <1>9. CASE UNCHANGED local
    BY <1>9 DEF BatchReviewed, Reviewed, Batch
  <1> QED
    BY <1>1, <1>2, <1>3, <1>4, <1>5, <1>6, <1>8, <1>9
    DEF Next, Work, NewPatchset, AllEnded, vars

LEMMA LInvCorrect == Spec => []LInv
  <1>1. Init => LInv
    BY IInvInit DEF LInv, Init, BatchReviewed, Reviewed, Batch
  <1>2. LInv /\ [Next]_vars => LInv'
    <2>1. CASE LInv /\ Next
      BY <2>1, BatchStep, IInvStep DEF LInv, IInv, LockInv
    <2>2. CASE LInv /\ UNCHANGED vars
      BY <2>2, IInvStep DEF LInv, vars, local, BatchReviewed, Reviewed, Batch
    <2> QED
      BY <2>1, <2>2
  <1> QED
    BY <1>1, <1>2, PTL DEF Spec

-----------------------------------------------------------------------------
(* What a step does to the settled posts.                                  *)

LEMMA SettledKept ==
  ASSUME UNCHANGED posts,
         \A k \in Keys, s \in Shas : BeingPosted(k, s)' <=> BeingPosted(k, s)
  PROVE  Settled' = Settled
  BY DEF Settled, One

LEMMA NotBeingPosted ==
  ASSUME LockInv, NEW i \in Invs, pc[i] \in Holding \ {"accepted"}
  PROVE  \A k \in Keys, s \in Shas : ~BeingPosted(k, s)
  BY DEF LockInv, HolderIsCurrent, BeingPosted

LEMMA InitRefines == Init => Ledger!Init
  <1> SUFFICES ASSUME Init PROVE Ledger!Init
    OBVIOUS
  <1>1. Settled = [k \in Keys |-> [s \in Shas |-> 0]]
    BY DEF Init, Settled, BeingPosted, One
  <1> QED
    BY <1>1 DEF Init, NoEntry, Shas, Ledger!Init, Ledger!Absent, Ledger!Shas

(* A merge under the lock is one step of the ledger.                       *)
LEMMA MergeRefines ==
  ASSUME LInv, NEW i \in Invs, SaveMerge(i)
  PROVE  Ledger!MergeReviews
  <1> USE DEF LInv, IInv
  <1> DEFINE batch == Reviewed(i)
             s == [k \in batch |-> target[i][k]]
             st == [k \in batch |-> result[i][k]]
  <1>1. /\ lock = i /\ copy[i] = manifest /\ lock' = NoInv
        /\ manifest' = Merge(i) /\ posts' = posts
    BY DEF SaveMerge, SaveAndRelease, HolderIsCurrent, Holding
  <1>2. Settled' = Settled
    BY <1>1, SettledKept, NotBeingPosted
    DEF SaveMerge, BeingPosted, LockInv, Holding
  <1>3. batch \in SUBSET Keys /\ s \in [batch -> Shas]
    BY ConstantsAssumption DEF Reviewed, Batch, BatchReviewed, TypeOK, Shas
  <1>4. st \in [batch -> {"findings", "clean", "failed"}]
    BY DEF Reviewed, TypeOK, Statuses
  <1>5. manifest' = [k \in Keys |-> IF k \in batch
                                   THEN Ledger!Replaced(k, i, s[k], st[k])
                                   ELSE manifest[k]]
    BY <1>1 DEF Merge, Merged, Ledger!Replaced
  <1> HIDE DEF s, st, batch
  <1> QED
    BY <1>2, <1>3, <1>4, <1>5 DEF Ledger!MergeReviews, Ledger!Shas, Shas

(* An accepted review becomes settled: the ledger sends it.                *)
LEMMA SettleRefines ==
  ASSUME LInv, NEW k \in Keys, NEW s \in Shas, manifest[k].sha = s,
         \A j \in Keys, t \in Shas :
           posts'[j][t] - One(BeingPosted(j, t)') =
             posts[j][t] - One(BeingPosted(j, t)) + (IF j = k /\ t = s THEN 1 ELSE 0)
  PROVE  Ledger!Send(k)
  <1>1. Settled' = [j \in Keys |-> [t \in Shas |->
                      Settled[j][t] + (IF j = k /\ t = s THEN 1 ELSE 0)]]
    BY DEF Settled
  <1>2. \A j \in Keys, t \in Shas : Settled[j][t] \in Int
    BY DEF Settled, One, LInv, IInv, TypeOK
  <1>3. Settled = [j \in Keys |-> [t \in Shas |-> Settled[j][t]]]
    BY DEF Settled
  <1>4. [Settled EXCEPT ![k][s] = @ + 1] =
          [j \in Keys |-> [t \in Shas |->
             Settled[j][t] + (IF j = k /\ t = s THEN 1 ELSE 0)]]
    BY <1>2, <1>3
  <1> QED
    BY <1>1, <1>4 DEF Ledger!Send

(* The entry an invocation posts has something to say.                     *)
LEMMA PostedSendable ==
  ASSUME LInv, NEW i \in Invs, Accepted(i) \/ pc[i] = "accepted"
  PROVE  /\ lock = i /\ copy[i] = manifest
         /\ cur[i] \in Keys /\ manifest[cur[i]].sha \in Shas
         /\ Ledger!Sendable(cur[i])
  <1> USE DEF LInv, IInv
  <1>1. pc[i] \in {"entry", "checked", "accepted"} /\ ~Skips(i, cur[i], copy[i][cur[i]])
    BY DEF Accepted, Sending, PostingAnEntry
  <1>2. cur[i] \in Keys /\ copy[i][cur[i]] \in Entry
    BY <1>1, LoadedType
  <1>3. lock = i /\ copy[i] = manifest
    BY <1>1 DEF HolderIsCurrent, Holding
  <1>4. manifest[cur[i]].sha \in Shas
    BY <1>1, <1>2, <1>3, ConstantsAssumption DEF Skips, Entry, Shas
  <1>5. manifest[cur[i]].status \in {"findings", "clean"}
    BY <1>1, <1>3 DEF Skips, PostableClean
  <1> QED
    BY <1>2, <1>3, <1>4, <1>5, ConstantsAssumption DEF Ledger!Sendable, Shas

LEMMA StepRefines ==
  ASSUME LInv, Next
  PROVE  Ledger!Next \/ UNCHANGED <<manifest, Settled>>
  <1> USE DEF LInv, IInv, shared, local
  <1> DEFINE Stutter == UNCHANGED <<manifest, Settled>>
  <1>1. ASSUME NEW i \in Invs, pc[i] # "accepted", pc'[i] # "accepted",
               \A j \in Invs \ {i} : pc'[j] = pc[j],
               UNCHANGED <<manifest, lock, posts, cur, copy>>
        PROVE  Stutter
    BY <1>1, SettledKept DEF BeingPosted, TypeOK
  <1>2. ASSUME NEW i \in Invs, StartRun(i) \/ StartPost(i) \/ Interrupt(i) \/ Gather(i)
        PROVE  Stutter
    BY <1>1, <1>2 DEF StartRun, StartPost, Interrupt, Gather, TypeOK
  <1>3. ASSUME NEW i \in Invs, Snapshot(i) \/ HeadUnchanged(i) PROVE Stutter
    BY <1>1, <1>3 DEF Snapshot, HeadUnchanged, TypeOK
  <1>4. ASSUME NEW i \in Invs, NEW k \in Keys, FinishReview(i, k) PROVE Stutter
    BY <1>4, SettledKept DEF FinishReview, FinishedAs, BeingPosted
  <1>5. ASSUME NEW i \in Invs, BeginMerge(i) PROVE Stutter
    BY <1>5, SettledKept, ConstantsAssumption DEF BeginMerge, Acquire, BeingPosted, TypeOK
  <1>6. ASSUME NEW i \in Invs, NEW k \in Keys, TakeEntry(i, k) PROVE Stutter
    BY <1>6, SettledKept, ConstantsAssumption DEF TakeEntry, Acquire, BeingPosted, TypeOK
  <1>7. ASSUME NEW i \in Invs, SaveMerge(i) PROVE Ledger!Next
    BY <1>7, MergeRefines DEF Ledger!Next
  <1>8. ASSUME NEW i \in Invs, Skip(i) \/ WouldPost(i) \/ HeadMoved(i) \/ Refuse(i)
        PROVE  Stutter
    <2>1. pc[i] \in Holding \ {"accepted"} /\ posts' = posts
      BY <1>8 DEF Skip, WouldPost, HeadMoved, Refuse, Sending, Holding
    <2>2. manifest' = manifest /\ lock' = NoInv
      BY <1>8, <2>1, LeaveKeeps DEF Skip, WouldPost, HeadMoved, Refuse
    <2>3. \A k \in Keys, s \in Shas : ~BeingPosted(k, s) /\ ~BeingPosted(k, s)'
      BY <2>1, <2>2, NotBeingPosted DEF BeingPosted, LockInv
    <2> QED
      BY <2>1, <2>2, <2>3, SettledKept
  <1>9. ASSUME NEW i \in Invs, Accepted(i)
        PROVE  LET k == cur[i]
                   s == manifest[cur[i]].sha
               IN  \A j \in Keys, t \in Shas :
                     /\ ~BeingPosted(j, t)
                     /\ posts[j][t] \in Nat
                     /\ posts'[j][t] = posts[j][t] + (IF j = k /\ t = s THEN 1 ELSE 0)
    <2>1. pc[i] \in Holding \ {"accepted"}
      BY <1>9 DEF Accepted, Sending, Holding
    <2>2. \A j \in Keys, t \in Shas : ~BeingPosted(j, t)
      BY <2>1, NotBeingPosted DEF LockInv
    <2>3. cur[i] \in Keys /\ copy[i] = manifest
      BY <1>9, PostedSendable
    <2>4. posts' = Bump(posts, cur[i], manifest[cur[i]].sha)
      BY <1>9, <2>3 DEF Accepted
    <2> QED
      BY <2>2, <2>3, <2>4 DEF Bump, TypeOK
  <1>10. ASSUME NEW i \in Invs, Deliver(i) PROVE Stutter
    <2> DEFINE k == cur[i]
               s == manifest[k].sha
    <2>1. Accepted(i) /\ UNCHANGED <<manifest, lock, cur, copy>> /\ pc'[i] = "accepted"
      BY <1>10 DEF Deliver, TypeOK
    <2>2. lock = i /\ copy[i] = manifest
      BY <2>1, PostedSendable
    <2>3. \A j \in Keys, t \in Shas : BeingPosted(j, t)' <=> j = k /\ t = s
      BY <2>1, <2>2, ConstantsAssumption DEF BeingPosted
    <2>4. \A j \in Keys, t \in Shas :
            posts'[j][t] - One(BeingPosted(j, t)') = posts[j][t] - One(BeingPosted(j, t))
      BY <1>9, <2>1, <2>3 DEF One
    <2> QED
      BY <2>1, <2>4 DEF Settled
  <1>11. ASSUME NEW i \in Invs, LoseAnswer(i) PROVE Ledger!Next
    <2> DEFINE k == cur[i]
    <2>1. Accepted(i) /\ Leave(i, Onward(i)) /\ pc[i] \in Holding
      BY <1>11 DEF LoseAnswer, Accepted, Sending, Holding
    <2>2. manifest' = manifest /\ lock' = NoInv
      BY <2>1, LeaveKeeps
    <2>3. k \in Keys /\ manifest[k].sha \in Shas /\ Ledger!Sendable(k)
      BY <2>1, PostedSendable
    <2>4. \A j \in Keys, t \in Shas : ~BeingPosted(j, t)'
      BY <2>2 DEF BeingPosted
    <2>5. Ledger!Send(k)
      BY <1>9, <2>1, <2>3, <2>4, SettleRefines DEF One
    <2> QED
      BY <2>2, <2>3, <2>5 DEF Ledger!Next, Ledger!PostUnrecorded
  <1>12. ASSUME NEW i \in Invs, pc[i] = "accepted", UNCHANGED posts, lock' = NoInv
         PROVE  Ledger!Send(cur[i])
    <2>1. /\ lock = i /\ copy[i] = manifest
          /\ cur[i] \in Keys /\ manifest[cur[i]].sha \in Shas
      BY <1>12, PostedSendable
    <2>2. \A j \in Keys, t \in Shas :
            BeingPosted(j, t) <=> j = cur[i] /\ t = manifest[cur[i]].sha
      BY <1>12, <2>1, ConstantsAssumption DEF BeingPosted
    <2>3. \A j \in Keys, t \in Shas : ~BeingPosted(j, t)' /\ posts[j][t] \in Nat
      BY <1>12 DEF BeingPosted, TypeOK
    <2> QED
      BY <1>12, <2>1, <2>2, <2>3, SettleRefines DEF One
  <1>13. ASSUME NEW i \in Invs, Record(i) PROVE Ledger!Next
    <2>1. pc[i] = "accepted" /\ posts' = posts /\ lock' = NoInv
      BY <1>13 DEF Record, SaveAndRelease
    <2>2. copy[i] = manifest /\ cur[i] \in Keys /\ Ledger!Sendable(cur[i])
      BY <2>1, PostedSendable
    <2>3. manifest' = [manifest EXCEPT ![cur[i]].posted = TRUE]
      BY <1>13, <2>2 DEF Record, SaveAndRelease
    <2> QED
      BY <1>12, <2>1, <2>2, <2>3 DEF Ledger!Next, Ledger!PostAndFlag
  <1>14. ASSUME NEW i \in Invs, Crash(i) PROVE Ledger!Next \/ Stutter
    <2>1. CASE pc[i] = "accepted"
      <3>1. lock = i /\ cur[i] \in Keys /\ Ledger!Sendable(cur[i])
        BY <2>1, PostedSendable
      <3>2. lock' = NoInv /\ UNCHANGED <<manifest, posts>>
        BY <1>14, <3>1 DEF Crash
      <3> QED
        BY <1>12, <2>1, <3>1, <3>2 DEF Ledger!Next, Ledger!PostUnrecorded
    <2>2. CASE pc[i] # "accepted"
      <3>1. UNCHANGED <<manifest, posts, cur, copy>>
        BY <1>14 DEF Crash
      <3>2. \A k \in Keys, s \in Shas : BeingPosted(k, s)' <=> BeingPosted(k, s)
        BY <1>14, <2>2, <3>1, ConstantsAssumption DEF Crash, BeingPosted, TypeOK
      <3> QED
        BY <3>1, <3>2, SettledKept
    <2> QED
      BY <2>1, <2>2
  <1>15. ASSUME NEW k \in Keys, NewPatchset(k) PROVE Stutter
    BY <1>15, SettledKept DEF NewPatchset, BeingPosted
  <1>16. ASSUME AllEnded PROVE Stutter
    BY <1>16, SettledKept DEF AllEnded, vars, BeingPosted
  <1> HIDE DEF Stutter
  <1>17. Ledger!Next \/ Stutter
    BY <1>2, <1>3, <1>4, <1>5, <1>6, <1>7, <1>8, <1>10, <1>11, <1>13, <1>14, <1>15, <1>16
    DEF Next, Work
  <1> QED
    BY <1>17 DEF Stutter

(* Processes, lock, loads and saves implement the atomic ledger: to anyone *)
(* who looks at the manifest and at what has been sent, update_summary and *)
(* post_results are single steps.                                          *)
THEOREM LedgerImplemented == Spec => ImplementsLedger
  <1>1. LInv /\ [Next]_vars => [Ledger!Next]_(Ledger!vars)
    <2>1. CASE LInv /\ Next
      BY <2>1, StepRefines DEF Ledger!vars
    <2>2. CASE LInv /\ UNCHANGED vars
      <3>1. Settled' = Settled
        BY <2>2, SettledKept DEF vars, shared, local, BeingPosted
      <3> QED
        BY <2>2, <3>1 DEF vars, shared, Ledger!vars
    <2> QED
      BY <2>1, <2>2
  <1> QED
    BY <1>1, InitRefines, LInvCorrect, PTL DEF Spec, Ledger!Spec, ImplementsLedger

-----------------------------------------------------------------------------
(* No save takes a key out of the manifest.                                *)
LEMMA KeysStay ==
  ASSUME LInv, Next
  PROVE  Present(manifest) \subseteq Present(manifest')
  <1> USE DEF LInv, IInv, shared, local
  <1>1. CASE manifest' = manifest
    BY <1>1
  <1>2. ASSUME NEW i \in Invs, SaveMerge(i)
        PROVE  Present(manifest) \subseteq Present(manifest')
    BY <1>2 DEF SaveMerge, SaveAndRelease, HolderIsCurrent, Holding, Merge, Merged,
                Present, BatchReviewed, Batch
  <1>3. ASSUME NEW i \in Invs, Record(i)
        PROVE  Present(manifest) \subseteq Present(manifest')
    BY <1>3 DEF Record, SaveAndRelease, HolderIsCurrent, Holding, Present, TypeOK, Entry
  <1>4. ASSUME NEW i \in Invs,
               Skip(i) \/ WouldPost(i) \/ HeadMoved(i) \/ LoseAnswer(i) \/ Refuse(i)
        PROVE  manifest' = manifest
    BY <1>4, LeaveKeeps
    DEF Skip, WouldPost, HeadMoved, LoseAnswer, Refuse, Accepted, Sending, Holding
  <1> QED
    BY <1>1, <1>2, <1>3, <1>4
    DEF Next, Work, StartRun, StartPost, Interrupt, Crash, FinishReview, Gather,
        BeginMerge, Snapshot, TakeEntry, HeadUnchanged, Deliver, NewPatchset,
        AllEnded, vars

RInv == LInv /\ RunPostProgress

(* The results that a merge hands to the poster are in the manifest it     *)
(* saves.                                                                  *)
LEMMA MergedArePresent ==
  ASSUME LInv, NEW i \in Invs, SaveMerge(i)
  PROVE  Postable(i) \subseteq Present(manifest')
  <1> USE DEF LInv, IInv
  <1>1. Postable(i) \subseteq Reviewed(i)
    BY DEF Postable, Reviewed
  <1>2. \A k \in Reviewed(i) : manifest'[k].sha = target[i][k] /\ target[i][k] # 0
    BY DEF SaveMerge, SaveAndRelease, Merge, Merged, Reviewed, BatchReviewed, Batch
  <1> QED
    BY <1>1, <1>2 DEF Present, Postable

LEMMA ProgressStep ==
  ASSUME RInv, Next
  PROVE  RunPostProgress'
  <1> USE DEF RInv, LInv, IInv, shared, local
  <1>1. Present(manifest) \subseteq Present(manifest')
    BY KeysStay
  <1> DEFINE Fine(i) == mode[i] = "run-post" =>
               /\ pc[i] \in {"review", "merge", "merging", "done"} => todo[i] = {}
               /\ todo[i] \subseteq Present(manifest)
               /\ pc[i] = "snapshot" => named[i] /\ todo[i] # {}
  <1>2. \A i \in Invs : Fine(i)
    BY DEF RunPostProgress
  <1>3. ASSUME NEW i \in Invs, Fine(i)',
               \A j \in Invs \ {i} : /\ pc'[j] = pc[j] /\ mode'[j] = mode[j]
                                     /\ named'[j] = named[j] /\ todo'[j] = todo[j]
        PROVE  RunPostProgress'
    <2>1. \A j \in Invs \ {i} : Fine(j)'
      BY <1>1, <1>2, <1>3
    <2> QED
      BY <1>3, <2>1 DEF RunPostProgress
  <1>4. ASSUME NEW i \in Invs, StartRun(i) PROVE RunPostProgress'
    <2>1. todo[i] = {} /\ pc'[i] = "review" /\ todo' = todo
      BY <1>4 DEF StartRun, BatchReviewed, TypeOK
    <2> QED
      BY <1>3, <1>4, <2>1 DEF StartRun, TypeOK
  <1>5. ASSUME NEW i \in Invs, StartPost(i) PROVE RunPostProgress'
    <2>1. mode'[i] # "run-post"
      BY <1>5 DEF StartPost, TypeOK
    <2> QED
      BY <1>3, <1>5, <2>1 DEF StartPost, TypeOK
  <1>6. ASSUME NEW i \in Invs, Interrupt(i) PROVE RunPostProgress'
    <2>1. mode'[i] = "run"
      BY <1>6 DEF Interrupt, TypeOK
    <2> QED
      BY <1>3, <1>6, <2>1 DEF Interrupt, TypeOK
  <1>7. ASSUME NEW i \in Invs, NEW k \in Keys, FinishReview(i, k) PROVE RunPostProgress'
    BY <1>1, <1>7 DEF FinishReview, RunPostProgress
  <1>8. ASSUME NEW i \in Invs, Gather(i) \/ BeginMerge(i) PROVE RunPostProgress'
    <2>1. /\ pc[i] \in {"review", "merge"} /\ pc'[i] \in {"merge", "merging"}
          /\ UNCHANGED <<mode, named, todo>>
          /\ \A j \in Invs \ {i} : pc'[j] = pc[j]
      BY <1>8 DEF Gather, BeginMerge, TypeOK
    <2> QED
      BY <1>1, <1>2, <1>3, <2>1
  <1>9. ASSUME NEW i \in Invs, SaveMerge(i) PROVE RunPostProgress'
    <2>1. \A j \in Invs \ {i} : /\ pc'[j] = pc[j] /\ mode'[j] = mode[j]
                                /\ named'[j] = named[j] /\ todo'[j] = todo[j]
      BY <1>9 DEF SaveMerge, TypeOK
    <2>2. CASE mode[i] = "run-post" /\ Postable(i) # {}
      <3>1. pc'[i] = "snapshot" /\ todo'[i] = Postable(i) /\ named'[i]
        BY <1>9, <2>2 DEF SaveMerge, TypeOK
      <3> QED
        BY <1>3, <1>9, <2>1, <2>2, <3>1, MergedArePresent
    <2>3. CASE ~(mode[i] = "run-post" /\ Postable(i) # {})
      <3>1. pc'[i] = "done" /\ pc[i] = "merging" /\ UNCHANGED <<mode, named, todo>>
        BY <1>9, <2>3 DEF SaveMerge, TypeOK
      <3> QED
        BY <1>2, <1>3, <2>1, <3>1
    <2> QED
      BY <2>2, <2>3
  <1>10. ASSUME NEW i \in Invs, Snapshot(i) PROVE RunPostProgress'
    <2>1. /\ \A j \in Invs \ {i} : pc'[j] = pc[j] /\ todo'[j] = todo[j]
          /\ UNCHANGED <<mode, named, manifest>>
      BY <1>10 DEF Snapshot, TypeOK
    <2>2. CASE mode[i] = "run-post"
      <3>1. named[i] /\ todo[i] # {} /\ todo[i] \subseteq Present(manifest)
        BY <1>2, <1>10, <2>2 DEF Snapshot
      <3>2. todo'[i] = todo[i] /\ pc'[i] = "post"
        BY <1>10, <3>1 DEF Snapshot, TypeOK
      <3> QED
        BY <1>3, <2>1, <3>1, <3>2
    <2>3. CASE mode[i] # "run-post"
      BY <1>3, <2>1, <2>3
    <2> QED
      BY <2>2, <2>3
  <1>11. ASSUME NEW i \in Invs, NEW k \in Keys, TakeEntry(i, k) PROVE RunPostProgress'
    <2>1. /\ pc'[i] = "entry" /\ todo'[i] \subseteq todo[i]
          /\ \A j \in Invs \ {i} : pc'[j] = pc[j] /\ todo'[j] = todo[j]
          /\ UNCHANGED <<mode, named>>
      BY <1>11 DEF TakeEntry, TypeOK
    <2> QED
      BY <1>1, <1>2, <1>3, <2>1
  <1>12. ASSUME NEW i \in Invs, UNCHANGED <<mode, named, todo>>,
                \A j \in Invs \ {i} : pc'[j] = pc[j],
                \/ pc'[i] \in {"post", "checked", "accepted", "dead"}
                \/ pc'[i] = "done" /\ (todo[i] = {} \/ mode[i] # "run-post")
         PROVE  RunPostProgress'
    BY <1>1, <1>2, <1>3, <1>12
  <1>13. ASSUME NEW i \in Invs,
                \/ Skip(i) \/ HeadMoved(i) \/ LoseAnswer(i) \/ Refuse(i)
                \/ HeadUnchanged(i) \/ Deliver(i) \/ Record(i) \/ WouldPost(i) \/ Crash(i)
         PROVE  RunPostProgress'
    <2>1. UNCHANGED <<mode, named, todo>> /\ \A j \in Invs \ {i} : pc'[j] = pc[j]
      BY <1>13 DEF Skip, HeadMoved, LoseAnswer, Refuse, HeadUnchanged, Deliver, Record,
                   WouldPost, Crash, Leave, TypeOK
    <2>2. \/ pc'[i] \in {"post", "checked", "accepted", "dead"}
          \/ pc'[i] = "done" /\ (todo[i] = {} \/ mode[i] # "run-post")
      BY <1>13 DEF Skip, HeadMoved, LoseAnswer, Refuse, HeadUnchanged, Deliver, Record,
                   WouldPost, Crash, Leave, Onward, TypeOK
    <2> QED
      BY <1>12, <2>1, <2>2
  <1>14. CASE UNCHANGED local
    BY <1>1, <1>14 DEF RunPostProgress
  <1> QED
    BY <1>4, <1>5, <1>6, <1>7, <1>8, <1>9, <1>10, <1>11, <1>13, <1>14
    DEF Next, Work, NewPatchset, AllEnded, vars

(* A `run --post` that ends normally has gone through all its results: the *)
(* manifest keeps every key of cmd_run's list, so post_results never stops *)
(* on a missing one.                                                       *)
THEOREM RunPostComplete == Spec => []RunPostFindsItsBatch
  <1>1. Init => RInv
    BY IInvInit DEF RInv, LInv, Init, BatchReviewed, Reviewed, Batch, RunPostProgress
  <1>2. RInv /\ [Next]_vars => RInv'
    <2>1. CASE RInv /\ Next
      BY <2>1, BatchStep, IInvStep, ProgressStep DEF RInv, LInv, IInv, LockInv
    <2>2. CASE RInv /\ UNCHANGED vars
      BY <2>2, IInvStep
      DEF RInv, LInv, vars, shared, local, BatchReviewed, Reviewed, Batch,
          RunPostProgress, Present
    <2> QED
      BY <2>1, <2>2
  <1>3. RInv => RunPostFindsItsBatch
    BY DEF RInv, RunPostProgress, RunPostFindsItsBatch
  <1> QED
    BY <1>1, <1>2, <1>3, PTL DEF Spec

=============================================================================
