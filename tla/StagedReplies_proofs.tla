------------------------ MODULE StagedReplies_proofs -------------------------
(***************************************************************************)
(* Proofs about StagedReplies, for any commands at the same time, threads, *)
(* replies, pushes and events.                                             *)
(***************************************************************************)
EXTENDS StagedReplies, TLAPS, FiniteSetTheorems

LEMMA Lists ==
  ASSUME NEW S, NEW l \in Seq(S)
  PROVE  Len(l) \in Nat /\ DOMAIN l = 1..Len(l) /\ l \in [1..Len(l) -> S]
  OBVIOUS

LEMMA Listed ==
  ASSUME NEW S, NEW n \in Nat, NEW l \in [1..n -> S]
  PROVE  l \in Seq(S) /\ Len(l) = n /\ DOMAIN l = 1..n
  OBVIOUS

LEMMA ListWithout ==
  ASSUME NEW l \in Seq(Op), NEW i \in DOMAIN l
  PROVE  Without(l, i) \in Seq(Op)
  <1>1. l \in [1..Len(l) -> Op] /\ Len(l) \in Nat /\ DOMAIN l = 1..Len(l)
    BY Lists
  <1>2. Len(l) - 1 \in Nat
    BY <1>1
  <1>3. Without(l, i) \in [1..Len(l) - 1 -> Op]
    BY <1>1 DEF Without
  <1> QED
    BY <1>2, <1>3, Listed

LEMMA ListReplaced ==
  ASSUME staged \in Seq(Op), NEW op \in Op
  PROVE  /\ Replaced(op) \in Seq(Op)
         /\ op.id \in IdsOf(Replaced(op))
         /\ IdsOf(Replaced(op)) \subseteq IdsOf(staged) \cup {op.id}
  <1>1. staged \in [1..Len(staged) -> Op] /\ Len(staged) \in Nat /\ DOMAIN staged = 1..Len(staged)
    BY Lists
  <1>2. CASE SameIndex(op) = {}
    <2>1. Replaced(op) = Append(staged, op)
      BY <1>2 DEF Replaced
    <2>2. /\ Append(staged, op) \in Seq(Op)
          /\ DOMAIN Append(staged, op) = 1..Len(staged) + 1
          /\ Append(staged, op)[Len(staged) + 1] = op
          /\ \A i \in 1..Len(staged) : Append(staged, op)[i] = staged[i]
      BY <1>1
    <2> QED
      BY <1>1, <2>1, <2>2 DEF IdsOf
  <1>3. CASE SameIndex(op) # {}
    <2>1. Replaced(op) = [i \in DOMAIN staged |-> IF i \in SameIndex(op) THEN op ELSE staged[i]]
      BY <1>3 DEF Replaced
    <2>2. Replaced(op) \in [1..Len(staged) -> Op]
      BY <1>1, <2>1
    <2>3. SameIndex(op) \subseteq DOMAIN staged
      BY DEF SameIndex
    <2> QED
      BY <1>1, <1>3, <2>1, <2>2, <2>3, Listed DEF IdsOf
  <1> QED
    BY <1>2, <1>3

(* The replies of a list are replies.                                      *)
LEMMA IdsAreIds ==
  ASSUME NEW l \in Seq(Op)
  PROVE  IdsOf(l) \subseteq Ids
  <1>1. l \in [1..Len(l) -> Op] /\ DOMAIN l = 1..Len(l)
    BY Lists
  <1> QED
    BY <1>1 DEF IdsOf, Op

LEMMA IndexIsOne ==
  ASSUME open \subseteq Threads, NEW t \in open
  PROVE  Index(t) \in Threads
  <1>1. IsFiniteSet(Threads) /\ Cardinality(Threads) = N
    BY FS_Interval, StagedAssumption DEF Threads
  <1>2. {u \in open : u <= t} \in SUBSET Threads
    OBVIOUS
  <1>3. IsFiniteSet({u \in open : u <= t}) /\ Cardinality({u \in open : u <= t}) <= N
    BY <1>1, <1>2, FS_Subset
  <1>4. t \in {u \in open : u <= t}
    BY DEF Threads
  <1>5. Cardinality({u \in open : u <= t}) \in Nat /\ Cardinality({u \in open : u <= t}) # 0
    BY <1>3, <1>4, FS_CardinalityType, FS_EmptySet
  <1> QED
    BY <1>3, <1>5, StagedAssumption DEF Index, Threads

LEMMA PostsTypes ==
  ASSUME posted \in [Ids -> 0..2], messages \subseteq SUBSET Ids, NEW ids \in SUBSET Ids, Posts(ids)
  PROVE  posted' \in [Ids -> 0..2] /\ messages' \subseteq SUBSET Ids
  BY DEF Posts

LEMMA TypeStep ==
  ASSUME TypeOK, Hands, [Next]_vars
  PROVE  TypeOK'
  <1> USE StagedAssumption
  <1>0. /\ \A p \in Procs : ops[p] \in Seq(Op) /\ IdsOf(ops[p]) \subseteq Ids
        /\ IdsOf(staged) \subseteq Ids /\ Drafted(drafts) \subseteq Ids /\ Owners \subseteq Procs
        /\ \A d \in drafts : d.id \in Ids
        /\ <<>> \in Seq(Op)
    BY IdsAreIds DEF TypeOK, Drafted, Owners, Draft
  <1>1. ASSUME NEW p \in Procs, Stage(p) PROVE TypeOK'
    <2>1. PICK t \in open : Keeps(p, <<[id |-> replies + 1, index |-> Index(t), thread |-> t]>>)
      BY <1>1 DEF Stage
    <2>2. replies + 1 \in Ids /\ t \in Threads /\ Index(t) \in Threads
      BY <1>1, <2>1, IndexIsOne DEF Stage, TypeOK, Ids
    <2>3. <<[id |-> replies + 1, index |-> Index(t), thread |-> t]>> \in Seq(Op)
      BY <2>2 DEF Op
    <2>4. ops' \in [Procs -> Seq(Op)]
      BY <2>1, <2>3 DEF Keeps, TypeOK
    <2>5. step' \in [Procs -> Steps] /\ replies' \in 0..MaxReplies
          /\ said' \in [Procs -> {"none", "posted", "nothing", "uncertain"}]
      BY <1>1 DEF Stage, Starts, Goes, TypeOK, Steps
    <2> QED
      BY <1>1, <2>4, <2>5 DEF Stage, TypeOK, file, change, history
  <1>2. ASSUME NEW p \in Procs, StageLoad(p) PROVE TypeOK'
    <2>1. ops' \in [Procs -> Seq(Op)] /\ gone' \subseteq Ids
      <3>1. CASE torn
        BY <1>0, <1>2, <3>1 DEF StageLoad, TypeOK
      <3>2. CASE ~torn
        <4>1. ops[p][1] \in Op
          BY <1>0, <1>2, Lists DEF StageLoad, Hands
        <4>2. Replaced(ops[p][1]) \in Seq(Op)
          BY <4>1, ListReplaced DEF TypeOK
        <4>3. gone' = gone \cup {staged[i].id : i \in SameIndex(ops[p][1])}
          BY <1>2, <3>2 DEF StageLoad
        <4>4. {staged[i].id : i \in SameIndex(ops[p][1])} \subseteq IdsOf(staged)
          BY DEF SameIndex, IdsOf
        <4> QED
          BY <1>0, <1>2, <3>2, <4>2, <4>3, <4>4 DEF StageLoad, Keeps, TypeOK
      <3> QED
        BY <3>1, <3>2
    <2>2. step' \in [Procs -> Steps]
      BY <1>2 DEF StageLoad, Goes, TypeOK, Steps
    <2> QED
      BY <1>2, <2>1, <2>2 DEF StageLoad, TypeOK, Untouched, file, change, bounded
  <1>3. ASSUME NEW p \in Procs, Load(p) PROVE TypeOK'
    <2>1. ops' \in [Procs -> Seq(Op)] /\ gone' \subseteq Ids
      <3>1. CASE Keeps(p, staged) /\ UNCHANGED gone
        BY <3>1 DEF Keeps, TypeOK
      <3>2. ASSUME NEW i \in DOMAIN staged, Keeps(p, Without(staged, i)), gone' = gone \cup {staged[i].id}
            PROVE  ops' \in [Procs -> Seq(Op)] /\ gone' \subseteq Ids
        <4>1. staged[i].id \in Ids
          BY <1>0 DEF IdsOf
        <4>2. Without(staged, i) \in Seq(Op)
          BY ListWithout DEF TypeOK
        <4> QED
          BY <3>2, <4>1, <4>2 DEF Keeps, TypeOK
      <3> QED
        BY <1>3, <3>1, <3>2 DEF Load
    <2> QED
      BY <1>3, <2>1 DEF Load, Starts, Goes, TypeOK, Untouched, file, change, bounded, Steps
  <1>4. ASSUME NEW p \in Procs, Save(p) PROVE TypeOK'
    BY <1>0, <1>4 DEF Save, Goes, Keeps, TypeOK, Untouched, change, bounded, Steps
  <1>5. ASSUME NEW p \in Procs, Clear(p) PROVE TypeOK'
    BY <1>0, <1>5 DEF Clear, TypeOK, Untouched, change, bounded
  <1>6. ASSUME NEW p \in Procs, Push(p) PROVE TypeOK'
    <2>1. doubt' \subseteq Ids /\ ops' \in [Procs -> Seq(Op)] /\ pushes' \in 0..MaxPushes
      BY <1>0, <1>6 DEF Push, Keeps, TypeOK
    <2> QED
      BY <1>6, <2>1 DEF Push, Starts, Goes, TypeOK, file, change, Steps, Pushing
  <1>7. ASSUME NEW p \in Procs, PushRead(p) PROVE TypeOK'
    BY <1>7 DEF PushRead, Goes, Ends, TypeOK, Untouched, file, change, bounded, history, Steps, Pushing
  <1>8. ASSUME NEW p \in Procs, Post(p) PROVE TypeOK'
    <2>1. posted' \in [Ids -> 0..2] /\ messages' \subseteq SUBSET Ids
      BY <1>0, <1>8, PostsTypes DEF Post, TypeOK
    <2>2. doubt' \subseteq Ids
      BY <1>0, <1>8 DEF Post, TypeOK
    <2> QED
      BY <1>8, <2>1, <2>2 DEF Post, Goes, Ends, TypeOK, file, bounded, Steps, Pushing
  <1>9. ASSUME NEW p \in Procs, Check(p) PROVE TypeOK'
    BY <1>9 DEF Check, Goes, Ends, TypeOK, Untouched, file, change, bounded, history, Steps, Pushing
  <1>10. ASSUME NEW p \in Procs, CreateOne(p) PROVE TypeOK'
    <2>1. PICK i \in NextDraft(p) :
            LET d == [id |-> ops[p][i].id, by |-> p]
            IN \/ /\ drafts' = drafts \cup {d}
                  /\ made' = [made EXCEPT ![p] = @ \cup {d}]
                  /\ UNCHANGED step
               \/ /\ drafts' \in {drafts, drafts \cup {d}}
                  /\ Goes(p, "delete")
                  /\ UNCHANGED made
      BY <1>10 DEF CreateOne
    <2>2. [id |-> ops[p][i].id, by |-> p] \in Draft
      BY <1>0 DEF NextDraft, IdsOf, Draft
    <2>3. drafts' \subseteq Draft
      BY <2>1, <2>2 DEF TypeOK
    <2>4. made' \in [Procs -> SUBSET Draft]
      BY <2>1, <2>2 DEF TypeOK
    <2>5. step' \in [Procs -> Steps]
      BY <2>1 DEF TypeOK, Goes, Steps, Pushing
    <2> QED
      BY <1>10, <2>3, <2>4, <2>5 DEF CreateOne, TypeOK, file, bounded, history
  <1>11. ASSUME NEW p \in Procs, CreatedAll(p) PROVE TypeOK'
    BY <1>11 DEF CreatedAll, Goes, TypeOK, Untouched, file, change, bounded, history, Steps, Pushing
  <1>12. ASSUME NEW p \in Procs, Recheck(p) PROVE TypeOK'
    BY <1>12 DEF Recheck, Goes, TypeOK, Untouched, file, change, bounded, history, Steps, Pushing
  <1>13. ASSUME NEW p \in Procs, Publish(p) PROVE TypeOK'
    <2>1. /\ posted' \in [Ids -> 0..2] /\ messages' \subseteq SUBSET Ids
          /\ drafts' \subseteq Draft /\ webDraft' \in BOOLEAN
      BY <1>0, <1>13, PostsTypes DEF Publish, PublishAll, TypeOK
    <2>2. robbed' \subseteq Procs /\ late' \subseteq Procs /\ taken' \in BOOLEAN
      <3>1. robbed' \in {robbed, robbed \cup Owners \cup {p}} /\ late' \in {late, late \cup {p}}
            /\ taken' \in {taken, taken \/ webDraft}
        BY <1>13 DEF Publish
      <3> QED
        BY <1>0, <3>1 DEF TypeOK
    <2>4. doubt' \subseteq Ids
      <3>1. {d.id : d \in {x \in drafts : x.by # p}} \subseteq Ids
        BY <1>0
      <3> QED
        BY <1>13, <3>1 DEF Publish, TypeOK
    <2>3. step' \in [Procs -> Steps]
      BY <1>13 DEF Publish, Goes, TypeOK, Steps, Pushing
    <2> QED
      BY <1>13, <2>1, <2>2, <2>3, <2>4 DEF Publish, TypeOK, file, bounded
  <1>14. ASSUME NEW p \in Procs, PublishLate(p) PROVE TypeOK'
    <2>1. /\ posted' \in [Ids -> 0..2] /\ messages' \subseteq SUBSET Ids
          /\ drafts' \subseteq Draft /\ webDraft' \in BOOLEAN
      BY <1>0, <1>14, PostsTypes DEF PublishLate, PublishAll, TypeOK
    <2>2. doubt' \subseteq Ids /\ robbed' \subseteq Procs /\ late' \subseteq Procs /\ taken' \in BOOLEAN
      BY <1>0, <1>14 DEF PublishLate, TypeOK
    <2> QED
      BY <1>14, <2>1, <2>2 DEF PublishLate, TypeOK, file, bounded
  <1>15. ASSUME NEW p \in Procs, Lookup(p) PROVE TypeOK'
    <2>1. doubt' \subseteq Ids /\ step' \in [Procs -> Steps] /\ made' \in [Procs -> SUBSET Draft]
          /\ said' \in [Procs -> {"none", "posted", "nothing", "uncertain"}]
      BY <1>0, <1>15 DEF Lookup, Found, Goes, Ends, Forgets, TypeOK, Steps, Pushing
    <2> QED
      BY <1>15, <2>1 DEF Lookup, TypeOK, Untouched, file, change, bounded
  <1>16. ASSUME NEW p \in Procs, DeleteOne(p) PROVE TypeOK'
    BY <1>16 DEF DeleteOne, TypeOK, file, bounded, history
  <1>17. ASSUME NEW p \in Procs, DeletedAll(p) PROVE TypeOK'
    BY <1>17 DEF DeletedAll, Goes, Ends, TypeOK, Untouched, file, change, bounded, history, Steps
  <1>18. ASSUME NEW p \in Procs, PushClear(p) PROVE TypeOK'
    BY <1>0, <1>18
    DEF PushClear, Clears, Goes, Ends, Forgets, TypeOK, Untouched, change, bounded, Steps
  <1>19. ASSUME NEW p \in Procs, Crash(p) PROVE TypeOK'
    <2>1. staged' \in Seq(Op) /\ torn' \in BOOLEAN /\ gone' \subseteq Ids /\ doubt' \subseteq Ids
      BY <1>0, <1>19 DEF Crash, TypeOK, file
    <2> QED
      BY <1>19, <2>1 DEF Crash, Goes, Forgets, TypeOK, change, Steps
  <1>20. ASSUME NEW t \in Threads, Resolve(t) PROVE TypeOK'
    BY <1>20 DEF Resolve, TypeOK, file, command, history
  <1>21. CASE WebDraft
    BY <1>21 DEF WebDraft, TypeOK, file, command
  <1>22. CASE WebPublish
    <2>1. posted' \in [Ids -> 0..2] /\ messages' \subseteq SUBSET Ids
      BY <1>0, <1>22, PostsTypes DEF WebPublish, PublishAll, TypeOK
    <2>2. doubt' \subseteq Ids /\ robbed' \subseteq Procs /\ events' \in 0..MaxEvents
      BY <1>0, <1>22 DEF WebPublish, TypeOK
    <2>3. drafts' = {} /\ webDraft' = FALSE
      BY <1>22 DEF WebPublish, PublishAll
    <2> QED
      BY <1>22, <2>1, <2>2, <2>3 DEF WebPublish, TypeOK, file, command
  <1>23. CASE WebDelete
    <2>1. gone' \subseteq Ids /\ robbed' \subseteq Procs /\ events' \in 0..MaxEvents
      BY <1>0, <1>23 DEF WebDelete, TypeOK
    <2> QED
      BY <1>23, <2>1 DEF WebDelete, TypeOK, file, command
  <1>24. CASE UNCHANGED vars
    BY <1>24 DEF vars, TypeOK, file, change, bounded, command, history
  <1> QED
    BY <1>1, <1>2, <1>3, <1>4, <1>5, <1>6, <1>7, <1>8, <1>9, <1>10, <1>11, <1>12, <1>13, <1>14,
       <1>15, <1>16, <1>17, <1>18, <1>19, <1>20, <1>21, <1>22, <1>23, <1>24 DEF Next, Proceeds

-----------------------------------------------------------------------------
(* What a command holds.                                                   *)

LEMMA HandsStep ==
  ASSUME TypeOK, Hands, [Next]_vars
  PROVE  Hands'
  <1> USE DEF Hands
  <1>0. /\ step \in [Procs -> Steps] /\ ops \in [Procs -> Seq(Op)] /\ made \in [Procs -> SUBSET Draft]
        /\ said \in [Procs -> {"none", "posted", "nothing", "uncertain"}]
    BY DEF TypeOK
  <1>1. ASSUME NEW p \in Procs, Stage(p) PROVE Hands'
    <2>1. UNCHANGED made /\ Goes(p, "stage") /\ said' = [said EXCEPT ![p] = "none"] /\ step[p] = "idle"
      BY <1>1 DEF Stage, Starts
    <2>2. \E op : ops' = [ops EXCEPT ![p] = <<op>>]
      BY <1>1 DEF Stage, Keeps
    <2> QED
      BY <1>0, <2>1, <2>2 DEF Goes, Pushes, Pushing, Drafting
  <1>2. ASSUME NEW p \in Procs, StageLoad(p) PROVE Hands'
    <2>1. UNCHANGED <<made, said>> /\ (Goes(p, "idle") \/ Goes(p, "save")) /\ step[p] = "stage"
          /\ \A q \in Procs \ {p} : ops'[q] = ops[q]
      BY <1>0, <1>2 DEF StageLoad, Keeps
    <2>2. made[p] = {} /\ said[p] = "none"
      BY <2>1 DEF Drafting
    <2> QED
      BY <1>0, <2>1, <2>2 DEF Goes, Pushes, Pushing, Drafting
  <1>3. ASSUME NEW p \in Procs, Load(p) PROVE Hands'
    <2>1. UNCHANGED made /\ Goes(p, "save") /\ said' = [said EXCEPT ![p] = "none"] /\ step[p] = "idle"
          /\ \A q \in Procs \ {p} : ops'[q] = ops[q]
      BY <1>0, <1>3 DEF Load, Starts, Keeps
    <2> QED
      BY <1>0, <2>1 DEF Goes, Pushes, Pushing, Drafting
  <1>4. ASSUME NEW p \in Procs, Save(p) PROVE Hands'
    BY <1>0, <1>4 DEF Save, Goes, Keeps, Pushes, Pushing, Drafting
  <1>5. ASSUME NEW p \in Procs, Clear(p) PROVE Hands'
    BY <1>5 DEF Clear, Pushes
  <1>6. ASSUME NEW p \in Procs, Push(p) PROVE Hands'
    BY <1>0, <1>6 DEF Push, Starts, Goes, Keeps, Pushes, Pushing, Drafting
  <1>7. ASSUME NEW p \in Procs, PushRead(p) PROVE Hands'
    BY <1>0, <1>7 DEF PushRead, Goes, Ends, Pushes, Pushing, Drafting
  <1>8. ASSUME NEW p \in Procs, Post(p) PROVE Hands'
    <2>1. UNCHANGED <<made, ops>> /\ step[p] = "post"
          /\ \/ Goes(p, "clear") /\ UNCHANGED said
             \/ Ends(p, "nothing")
      BY <1>8 DEF Post
    <2> QED
      BY <1>0, <2>1 DEF Goes, Ends, Pushes, Pushing, Drafting
  <1>9. ASSUME NEW p \in Procs, Check(p) PROVE Hands'
    BY <1>0, <1>9 DEF Check, Goes, Ends, Pushes, Pushing, Drafting
  <1>10. ASSUME NEW p \in Procs, CreateOne(p) PROVE Hands'
    <2>1. PICK i \in NextDraft(p) :
            \/ /\ made' = [made EXCEPT ![p] = @ \cup {[id |-> ops[p][i].id, by |-> p]}]
               /\ UNCHANGED step
            \/ Goes(p, "delete") /\ UNCHANGED made
      BY <1>10 DEF CreateOne
    <2>2. i \in DOMAIN ops[p] /\ UNCHANGED <<ops, said>> /\ step[p] = "create"
      BY <1>10 DEF CreateOne, NextDraft
    <2>3. ops[p][i].id \in IdsOf(ops[p])
      BY <2>2 DEF IdsOf
    <2>4. CASE /\ made' = [made EXCEPT ![p] = @ \cup {[id |-> ops[p][i].id, by |-> p]}]
               /\ UNCHANGED step
      <3>1. \A d \in made'[p] : d.by = p /\ d.id \in IdsOf(ops[p])
        BY <1>0, <2>3, <2>4
      <3> QED
        BY <1>0, <2>2, <2>4, <3>1 DEF Pushes, Drafting
    <2>5. CASE Goes(p, "delete") /\ UNCHANGED made
      BY <1>0, <2>2, <2>5 DEF Goes, Pushes, Pushing, Drafting
    <2> QED
      BY <2>1, <2>4, <2>5
  <1>11. ASSUME NEW p \in Procs, CreatedAll(p) PROVE Hands'
    BY <1>0, <1>11 DEF CreatedAll, Goes, Pushes, Pushing, Drafting
  <1>12. ASSUME NEW p \in Procs, Recheck(p) PROVE Hands'
    BY <1>0, <1>12 DEF Recheck, Goes, Pushes, Pushing, Drafting
  <1>13. ASSUME NEW p \in Procs, Publish(p) PROVE Hands'
    <2>1. UNCHANGED <<made, ops, said>> /\ step[p] = "publish" /\ (Goes(p, "clear") \/ Goes(p, "lookup"))
      BY <1>13 DEF Publish
    <2> QED
      BY <1>0, <2>1 DEF Goes, Pushes, Pushing, Drafting
  <1>14. ASSUME NEW p \in Procs, PublishLate(p) PROVE Hands'
    BY <1>14 DEF PublishLate, Pushes
  <1>15. ASSUME NEW p \in Procs, Lookup(p) PROVE Hands'
    <2>1. CASE Found(p)
      BY <1>0, <1>15, <2>1 DEF Lookup, Found, Goes, Pushes, Pushing, Drafting
    <2>2. CASE Ends(p, "uncertain") /\ Forgets(p)
      BY <1>0, <1>15, <2>2 DEF Lookup, Ends, Goes, Forgets, Pushes, Pushing, Drafting
    <2> QED
      BY <1>15, <2>1, <2>2 DEF Lookup
  <1>16. ASSUME NEW p \in Procs, DeleteOne(p) PROVE Hands'
    BY <1>0, <1>16 DEF DeleteOne, Pushes, Drafting
  <1>17. ASSUME NEW p \in Procs, DeletedAll(p) PROVE Hands'
    BY <1>0, <1>17 DEF DeletedAll, Goes, Ends, Pushes, Pushing, Drafting
  <1>18. ASSUME NEW p \in Procs, PushClear(p) PROVE Hands'
    BY <1>0, <1>18 DEF PushClear, Goes, Ends, Forgets, Pushes, Pushing, Drafting
  <1>19. ASSUME NEW p \in Procs, Crash(p) PROVE Hands'
    BY <1>0, <1>19 DEF Crash, Goes, Forgets, Pushes, Pushing, Drafting
  <1>20. ASSUME NEW t \in Threads, Resolve(t) PROVE Hands'
    BY <1>20 DEF Resolve, command, Pushes
  <1>21. CASE WebDraft
    BY <1>21 DEF WebDraft, command, Pushes
  <1>22. CASE WebPublish
    BY <1>22 DEF WebPublish, command, Pushes
  <1>23. CASE WebDelete
    BY <1>23 DEF WebDelete, command, Pushes
  <1>24. CASE UNCHANGED vars
    BY <1>24 DEF vars, command, Pushes
  <1> QED
    BY <1>1, <1>2, <1>3, <1>4, <1>5, <1>6, <1>7, <1>8, <1>9, <1>10, <1>11, <1>12, <1>13, <1>14,
       <1>15, <1>16, <1>17, <1>18, <1>19, <1>20, <1>21, <1>22, <1>23, <1>24 DEF Next, Proceeds

-----------------------------------------------------------------------------
(* The drafts of a push, and its message.                                  *)

LEMMA PostsMore ==
  ASSUME posted \in [Ids -> 0..2], NEW ids \in SUBSET Ids, Posts(ids)
  PROVE  /\ \A id \in Ids : posted[id] > 0 => posted'[id] > 0
         /\ \A id \in ids : posted'[id] > 0 /\ (posted'[id] = 2 => posted[id] > 0)
         /\ \A id \in Ids \ ids : posted'[id] = posted[id]
         /\ messages \subseteq messages'
         /\ ids # {} => ids \in messages'
  BY DEF Posts

LEMMA SomeIds ==
  ASSUME NEW l \in Seq(Op), l # <<>>
  PROVE  IdsOf(l) # {}
  <1>1. 1 \in DOMAIN l
    BY Lists
  <1> QED
    BY <1>1 DEF IdsOf

LEMMA MadeFinite ==
  ASSUME TypeOK, Hands, NEW p \in Procs
  PROVE  IsFiniteSet(made[p]) /\ Cardinality(made[p]) \in Nat
  <1> DEFINE f == [id \in Ids |-> [id |-> id, by |-> p]]
             T == {f[id] : id \in Ids}
  <1>1. IsFiniteSet(Ids)
    BY FS_Interval, StagedAssumption DEF Ids
  <1>2. f \in Surjection(Ids, T)
    BY DEF Surjection
  <1>3. IsFiniteSet(T)
    BY <1>1, <1>2, FS_Surjection
  <1>4. made[p] \in SUBSET T
    <2>1. \A d \in made[p] : d = f[d.id] /\ d.id \in Ids
      BY DEF TypeOK, Hands, Draft
    <2> QED
      BY <2>1
  <1>5. IsFiniteSet(made[p])
    BY <1>3, <1>4, FS_Subset
  <1> QED
    BY <1>5, FS_CardinalityType

(* Nothing that the drafts' invariants are about changes but steps of p    *)
(* that have none.                                                         *)
LEMMA DraftsSame ==
  ASSUME TypeOK, Hands, DraftsAreKnown, DraftsAreSafe, MessageMade, NEW p \in Procs,
         UNCHANGED <<drafts, posted, messages>>, gone \subseteq gone', robbed \ {p} \subseteq robbed',
         \A q \in Procs : made'[q] \in {made[q], {}} /\ (q # p => made'[q] = made[q]),
         \A q \in Procs \ {p} : step'[q] = step[q] /\ ops'[q] = ops[q],
         step'[p] \notin Drafting \cup {"clear"} \/ UNCHANGED <<step, ops, made, robbed>>
  PROVE  DraftsAreKnown' /\ DraftsAreSafe' /\ MessageMade'
  <1>1. DraftsAreKnown'
    BY DEF DraftsAreKnown, Drafting
  <1>2. DraftsAreSafe'
    BY DEF DraftsAreSafe, Drafting
  <1>3. MessageMade'
    BY DEF MessageMade, Drafting
  <1> QED
    BY <1>1, <1>2, <1>3

(* Everything that is drafted is published, or deleted, by somebody whom no*)
(* push knows of.                                                          *)
LEMMA DraftsTaken ==
  ASSUME TypeOK, Hands, DraftsAreKnown, DraftsAreSafe, MessageMade, UNCHANGED <<step, ops, made>>,
         drafts' = {}, gone \subseteq gone', robbed' = robbed \cup Owners,
         \A id \in Ids : posted[id] > 0 => posted'[id] > 0, messages \subseteq messages',
         \A d \in drafts : posted'[d.id] > 0 \/ d.id \in gone'
  PROVE  DraftsAreKnown' /\ DraftsAreSafe' /\ MessageMade'
  <1>1. \A p \in Procs : IdsOf(ops[p]) \subseteq Ids /\ \A d \in made[p] : d.id \in Ids
    BY IdsAreIds DEF TypeOK, Draft
  <1>2. DraftsAreKnown'
    BY DEF DraftsAreKnown
  <1>3. DraftsAreSafe'
    BY <1>1 DEF DraftsAreSafe
  <1>4. \A p \in Procs \ robbed' : made[p] \subseteq drafts => made[p] = {}
    BY DEF Hands, Owners
  <1>5. MessageMade'
    BY <1>4 DEF MessageMade
  <1> QED
    BY <1>2, <1>3, <1>5

LEMMA DraftsStep ==
  ASSUME TypeOK, Hands, DraftsAreKnown, DraftsAreSafe, MessageMade, [Next]_vars
  PROVE  DraftsAreKnown' /\ DraftsAreSafe' /\ MessageMade'
  <1> DEFINE Goal == DraftsAreKnown' /\ DraftsAreSafe' /\ MessageMade'
  <1>0. /\ step \in [Procs -> Steps] /\ ops \in [Procs -> Seq(Op)] /\ made \in [Procs -> SUBSET Draft]
        /\ posted \in [Ids -> 0..2] /\ drafts \subseteq Draft
        /\ \A p \in Procs : IdsOf(ops[p]) \subseteq Ids
        /\ Drafted(drafts) \subseteq Ids
        /\ \A p \in Procs : \A d \in made[p] : d.by = p /\ d.id \in Ids
        /\ \A p \in Procs : Pushes(p) => IdsOf(ops[p]) # {}
    BY IdsAreIds, SomeIds DEF TypeOK, Drafted, Draft, Hands
  <1>1. ASSUME NEW p \in Procs, Stage(p) PROVE Goal
    BY <1>0, <1>1, DraftsSame DEF Stage, Starts, Goes, Keeps, change, history, Drafting
  <1>2. ASSUME NEW p \in Procs, StageLoad(p) PROVE Goal
    <2>1. (Goes(p, "idle") \/ Goes(p, "save")) /\ gone \subseteq gone'
          /\ \A q \in Procs \ {p} : ops'[q] = ops[q]
      BY <1>0, <1>2 DEF StageLoad, Keeps
    <2> QED
      BY <1>0, <1>2, <2>1, DraftsSame DEF StageLoad, Goes, Untouched, change, Drafting
  <1>3. ASSUME NEW p \in Procs, Load(p) PROVE Goal
    <2>1. Goes(p, "save") /\ gone \subseteq gone' /\ \A q \in Procs \ {p} : ops'[q] = ops[q]
      BY <1>0, <1>3 DEF Load, Starts, Keeps
    <2> QED
      BY <1>0, <1>3, <2>1, DraftsSame DEF Load, Goes, Untouched, change, Drafting
  <1>4. ASSUME NEW p \in Procs, Save(p) PROVE Goal
    BY <1>0, <1>4, DraftsSame DEF Save, Goes, Keeps, Untouched, change, Drafting
  <1>5. ASSUME NEW p \in Procs, Clear(p) PROVE Goal
    BY <1>0, <1>5, DraftsSame DEF Clear, Untouched, change
  <1>6. ASSUME NEW p \in Procs, Push(p) PROVE Goal
    BY <1>0, <1>6, DraftsSame DEF Push, Starts, Goes, Keeps, change, Drafting
  <1>7. ASSUME NEW p \in Procs, PushRead(p) PROVE Goal
    <2>1. /\ Goes(p, "post") \/ Goes(p, "check") \/ Goes(p, "idle")
          /\ UNCHANGED <<drafts, posted, messages, gone, robbed, made, ops>>
      BY <1>7 DEF PushRead, Ends, Untouched, change, history
    <2> QED
      BY <1>0, <2>1, DraftsSame DEF Goes, Drafting
  <1>8. ASSUME NEW p \in Procs, Post(p) PROVE Goal
    <2>1. UNCHANGED <<drafts, gone, robbed, made, ops>> /\ step[p] = "post" /\ made[p] = {}
      BY <1>8 DEF Post, Hands, Drafting
    <2>2. CASE Posts(IdsOf(ops[p])) /\ (Goes(p, "clear") \/ Goes(p, "idle"))
      <3>1. /\ \A id \in Ids : posted[id] > 0 => posted'[id] > 0
            /\ \A id \in IdsOf(ops[p]) : posted'[id] > 0
            /\ messages \subseteq messages'
            /\ IdsOf(ops[p]) \in messages'
        BY <1>0, <2>1, <2>2, PostsMore DEF Pushes, Pushing
      <3>2. step'[p] \in {"clear", "idle"} /\ \A q \in Procs \ {p} : step'[q] = step[q]
        BY <1>0, <2>2 DEF Goes
      <3>3. DraftsAreKnown'
        BY <2>1, <3>2 DEF DraftsAreKnown, Drafting
      <3>4. DraftsAreSafe'
        BY <1>0, <2>1, <3>1, <3>2 DEF DraftsAreSafe
      <3>5. MessageMade'
        BY <2>1, <3>1, <3>2 DEF MessageMade
      <3> QED
        BY <3>3, <3>4, <3>5
    <2>3. CASE Goes(p, "idle") /\ UNCHANGED <<posted, messages>>
      BY <1>0, <2>1, <2>3, DraftsSame DEF Goes, Drafting
    <2> QED
      BY <1>8, <2>2, <2>3 DEF Post, Ends
  <1>9. ASSUME NEW p \in Procs, Check(p) PROVE Goal
    <2>1. UNCHANGED <<drafts, posted, messages, gone, robbed, made, ops>> /\ step[p] = "check"
      BY <1>9 DEF Check, Untouched, change, history
    <2>2. CASE Goes(p, "idle")
      BY <1>0, <2>1, <2>2, DraftsSame DEF Goes, Drafting
    <2>3. CASE Goes(p, "create") /\ drafts = {}
      <3>1. made[p] = {} /\ Cardinality({}) = 0
        BY <2>1, FS_EmptySet DEF Hands, Drafting
      <3>2. step'[p] = "create" /\ \A q \in Procs \ {p} : step'[q] = step[q]
        BY <1>0, <2>3 DEF Goes
      <3>3. DraftsAreKnown'
        BY <2>1, <2>3, <3>1, <3>2 DEF DraftsAreKnown, Drafting
      <3>4. DraftsAreSafe'
        BY <2>1, <3>1, <3>2 DEF DraftsAreSafe
      <3>5. MessageMade'
        BY <2>1, <3>1, <3>2 DEF MessageMade
      <3> QED
        BY <3>3, <3>4, <3>5
    <2> QED
      BY <1>9, <2>2, <2>3 DEF Check, Ends
  <1>10. ASSUME NEW p \in Procs, CreateOne(p) PROVE Goal
    <2>1. PICK i \in NextDraft(p) :
            LET d == [id |-> ops[p][i].id, by |-> p]
            IN \/ /\ drafts' = drafts \cup {d}
                  /\ made' = [made EXCEPT ![p] = @ \cup {d}]
                  /\ UNCHANGED step
               \/ /\ drafts' \in {drafts, drafts \cup {d}}
                  /\ Goes(p, "delete")
                  /\ UNCHANGED made
      BY <1>10 DEF CreateOne
    <2> DEFINE d == [id |-> ops[p][i].id, by |-> p]
    <2>2. UNCHANGED <<posted, messages, gone, robbed, ops>> /\ step[p] = "create"
      BY <1>10 DEF CreateOne, history
    <2>3. d.id = ops[p][i].id /\ d.by = p
      OBVIOUS
    <2> HIDE DEF d
    <2>4. CASE drafts' = drafts \cup {d} /\ made' = [made EXCEPT ![p] = @ \cup {d}] /\ UNCHANGED step
      <3>1. made'[p] = made[p] \cup {d} /\ \A q \in Procs \ {p} : made'[q] = made[q]
        BY <1>0, <2>4
      <3>2. i = Cardinality(made[p]) + 1 /\ Cardinality(made[p]) \in Nat
            /\ Cardinality(made[p] \cup {d}) \in {Cardinality(made[p]), Cardinality(made[p]) + 1}
        BY MadeFinite, FS_AddElement DEF NextDraft
      <3>3. \A j \in 1..Cardinality(made'[p]) : j \in 1..Cardinality(made[p]) \/ j = i
        BY <3>1, <3>2
      <3>4. Drafted(made'[p]) = Drafted(made[p]) \cup {ops[p][i].id}
        BY <2>3, <3>1 DEF Drafted
      <3>5. DraftsAreKnown'
        BY <2>2, <2>3, <2>4, <3>1, <3>3, <3>4 DEF DraftsAreKnown, Drafting
      <3>6. DraftsAreSafe'
        BY <2>2, <2>4, <3>1 DEF DraftsAreSafe
      <3>7. MessageMade'
        BY <2>2, <2>4, <3>1 DEF MessageMade
      <3> QED
        BY <3>5, <3>6, <3>7
    <2>5. CASE drafts' \in {drafts, drafts \cup {d}} /\ Goes(p, "delete") /\ UNCHANGED made
      <3>1. step'[p] = "delete" /\ \A q \in Procs \ {p} : step'[q] = step[q]
        BY <1>0, <2>5 DEF Goes
      <3>2. DraftsAreKnown'
        BY <2>2, <2>3, <2>5, <3>1 DEF DraftsAreKnown, Drafting
      <3>3. DraftsAreSafe'
        BY <2>2, <2>5, <3>1 DEF DraftsAreSafe
      <3>4. MessageMade'
        BY <2>2, <2>5, <3>1 DEF MessageMade
      <3> QED
        BY <3>2, <3>3, <3>4
    <2> QED
      BY <2>1, <2>4, <2>5 DEF d
  <1>11. ASSUME NEW p \in Procs, CreatedAll(p) PROVE Goal
    <2>1. /\ UNCHANGED <<drafts, posted, messages, gone, robbed, made, ops>> /\ step[p] = "create"
          /\ NextDraft(p) = {}
      BY <1>11 DEF CreatedAll, Untouched, change, history
    <2>2. step'[p] = "recheck" /\ \A q \in Procs \ {p} : step'[q] = step[q]
      BY <1>0, <1>11 DEF CreatedAll, Goes
    <2>3. \A i \in DOMAIN ops[p] : i \in 1..Cardinality(made[p])
      <3>1. DOMAIN ops[p] = 1..Len(ops[p]) /\ Len(ops[p]) \in Nat
        BY <1>0, Lists
      <3>2. Cardinality(made[p]) + 1 \notin 1..Len(ops[p]) /\ Cardinality(made[p]) \in Nat
        BY <2>1, <3>1, MadeFinite DEF NextDraft
      <3> QED
        BY <3>1, <3>2
    <2>4. IdsOf(ops[p]) \subseteq Drafted(made[p])
      BY <2>1, <2>3 DEF DraftsAreKnown, IdsOf
    <2>5. DraftsAreKnown'
      BY <2>1, <2>2, <2>4 DEF DraftsAreKnown, Drafting
    <2>6. DraftsAreSafe'
      BY <2>1, <2>2 DEF DraftsAreSafe
    <2>7. MessageMade'
      BY <2>1, <2>2 DEF MessageMade
    <2> QED
      BY <2>5, <2>6, <2>7
  <1>12. ASSUME NEW p \in Procs, Recheck(p) PROVE Goal
    <2>1. UNCHANGED <<drafts, posted, messages, gone, robbed, made, ops>> /\ step[p] = "recheck"
      BY <1>12 DEF Recheck, Untouched, change, history
    <2>2. step'[p] \in {"publish", "delete"} /\ \A q \in Procs \ {p} : step'[q] = step[q]
      BY <1>0, <1>12 DEF Recheck, Goes
    <2>3. DraftsAreKnown'
      BY <2>1, <2>2 DEF DraftsAreKnown, Drafting
    <2>4. DraftsAreSafe'
      BY <2>1, <2>2 DEF DraftsAreSafe
    <2>5. MessageMade'
      BY <2>1, <2>2 DEF MessageMade
    <2> QED
      BY <2>3, <2>4, <2>5
  <1>13. ASSUME NEW p \in Procs, Publish(p) PROVE Goal
    <2>1. UNCHANGED <<gone, made, ops>> /\ step[p] = "publish"
      BY <1>13 DEF Publish
    <2>2. step'[p] \in {"clear", "lookup"} /\ \A q \in Procs \ {p} : step'[q] = step[q]
      BY <1>0, <1>13 DEF Publish, Goes
    <2>3. CASE /\ PublishAll
               /\ robbed' = IF Owners \subseteq {p} THEN robbed ELSE robbed \cup Owners \cup {p}
      <3>1. /\ \A id \in Ids : posted[id] > 0 => posted'[id] > 0
            /\ \A id \in Drafted(drafts) : posted'[id] > 0
            /\ messages \subseteq messages'
            /\ Drafted(drafts) # {} => Drafted(drafts) \in messages'
            /\ drafts' = {}
        BY <1>0, <2>3, PostsMore DEF PublishAll
      <3>2. IdsOf(ops[p]) \subseteq Drafted(made[p])
        BY <2>1 DEF DraftsAreKnown
      <3>3. \A q \in Procs : \A d \in made[q] : posted'[d.id] > 0 \/ d.id \in gone
        BY <1>0, <3>1 DEF DraftsAreSafe, Drafted
      <3>4. \A id \in IdsOf(ops[p]) : posted'[id] > 0 \/ id \in gone
        BY <3>2, <3>3 DEF Drafted
      <3>5. DraftsAreKnown'
        BY <2>1, <2>2, <3>1 DEF DraftsAreKnown
      <3>6. DraftsAreSafe'
        BY <1>0, <2>1, <2>2, <3>1, <3>3, <3>4 DEF DraftsAreSafe
      <3>7. \A q \in Procs \ {p} : q \notin robbed' /\ made[q] \subseteq drafts => made[q] = {}
        BY <1>0, <2>3 DEF Owners
      <3>8. p \notin robbed' => IdsOf(ops[p]) \in messages'
        <4> SUFFICES ASSUME p \notin robbed' PROVE IdsOf(ops[p]) \in messages'
          OBVIOUS
        <4>1. Owners \subseteq {p} /\ p \notin robbed
          BY <2>3
        <4>2. made[p] \subseteq drafts
          BY <2>1, <4>1 DEF MessageMade
        <4>3. \A d \in drafts : d.by = p
          BY <4>1 DEF Owners
        <4>4. drafts \subseteq made[p]
          BY <2>1, <4>3 DEF DraftsAreKnown, Drafting
        <4>5. Drafted(drafts) \subseteq IdsOf(ops[p])
          BY <4>4 DEF Drafted, Hands
        <4>6. IdsOf(ops[p]) \subseteq Drafted(drafts)
          BY <3>2, <4>2 DEF Drafted
        <4>7. IdsOf(ops[p]) # {}
          BY <1>0, <2>1 DEF Pushes, Pushing
        <4>8. Drafted(drafts) = IdsOf(ops[p])
          BY <4>5, <4>6
        <4> QED
          BY <3>1, <4>7, <4>8
      <3>9. MessageMade'
        <4>1. robbed \subseteq robbed'
          BY <2>3
        <4> QED
          BY <2>1, <2>2, <3>1, <3>7, <3>8, <4>1 DEF MessageMade
      <3> QED
        BY <3>5, <3>6, <3>9
    <2>4. CASE UNCHANGED <<drafts, posted, messages, robbed>> /\ step'[p] = "lookup"
      <3>1. DraftsAreKnown'
        BY <2>1, <2>2, <2>4 DEF DraftsAreKnown, Drafting
      <3>2. DraftsAreSafe'
        BY <2>1, <2>2, <2>4 DEF DraftsAreSafe
      <3>3. MessageMade'
        BY <2>1, <2>2, <2>4 DEF MessageMade
      <3> QED
        BY <3>1, <3>2, <3>3
    <2> QED
      BY <1>0, <1>13, <2>3, <2>4 DEF Publish, Goes
  <1>14. ASSUME NEW p \in Procs, PublishLate(p) PROVE Goal
    <2>1. UNCHANGED <<step, ops, made, gone>>
      BY <1>14 DEF PublishLate
    <2>2. CASE PublishAll /\ robbed' = robbed \cup Owners
      <3>1. /\ \A id \in Ids : posted[id] > 0 => posted'[id] > 0
            /\ \A id \in Drafted(drafts) : posted'[id] > 0
            /\ messages \subseteq messages' /\ drafts' = {}
        BY <1>0, <2>2, PostsMore DEF PublishAll
      <3> QED
        BY <2>1, <2>2, <3>1, DraftsTaken DEF Drafted
    <2>3. CASE UNCHANGED <<drafts, posted, messages, robbed>>
      BY <2>1, <2>3, DraftsSame
    <2> QED
      BY <1>14, <2>2, <2>3 DEF PublishLate
  <1>15. ASSUME NEW p \in Procs, Lookup(p) PROVE Goal
    <2>1. UNCHANGED <<drafts, posted, messages, gone, robbed, ops>> /\ step[p] = "lookup"
      BY <1>15 DEF Lookup, Untouched, change
    <2>2. CASE Goes(p, "idle") /\ Forgets(p)
      BY <1>0, <2>1, <2>2, DraftsSame DEF Goes, Forgets, Drafting
    <2>3. CASE Goes(p, "delete") /\ UNCHANGED made
      BY <1>0, <2>1, <2>3, DraftsSame DEF Goes, Drafting
    <2>4. CASE Goes(p, "clear") /\ UNCHANGED made /\ made[p] \cap drafts = {}
      <3>1. step'[p] = "clear" /\ \A q \in Procs \ {p} : step'[q] = step[q]
        BY <1>0, <2>4 DEF Goes
      <3>2. IdsOf(ops[p]) \subseteq Drafted(made[p]) /\ IdsOf(ops[p]) # {}
        BY <1>0, <2>1 DEF DraftsAreKnown, Pushes, Pushing
      <3>3. \A id \in IdsOf(ops[p]) : posted[id] > 0 \/ id \in gone
        BY <2>4, <3>2 DEF DraftsAreSafe, Drafted
      <3>4. p \notin robbed => IdsOf(ops[p]) \in messages
        BY <2>1, <2>4, <3>2 DEF MessageMade, Drafted
      <3>5. DraftsAreKnown'
        BY <2>1, <2>4, <3>1 DEF DraftsAreKnown, Drafting
      <3>6. DraftsAreSafe'
        BY <2>1, <2>4, <3>1, <3>3 DEF DraftsAreSafe
      <3>7. MessageMade'
        BY <2>1, <2>4, <3>1, <3>4 DEF MessageMade
      <3> QED
        BY <3>5, <3>6, <3>7
    <2> QED
      BY <1>15, <2>2, <2>3, <2>4 DEF Lookup, Found, Ends
  <1>16. ASSUME NEW p \in Procs, DeleteOne(p) PROVE Goal
    <2>1. PICK d \in made[p] : /\ made' = [made EXCEPT ![p] = @ \ {d}]
                               /\ drafts' \in {drafts, drafts \ {d}}
      BY <1>16 DEF DeleteOne
    <2>2. UNCHANGED <<posted, messages, gone, robbed, ops, step>> /\ step[p] = "delete"
      BY <1>16 DEF DeleteOne, history
    <2>3. /\ made'[p] = made[p] \ {d} /\ \A q \in Procs \ {p} : made'[q] = made[q] /\ d \notin made[q]
      BY <1>0, <2>1
    <2>4. DraftsAreKnown'
      BY <2>1, <2>2, <2>3 DEF DraftsAreKnown, Drafting
    <2>5. DraftsAreSafe'
      BY <2>1, <2>2, <2>3 DEF DraftsAreSafe
    <2>6. MessageMade'
      BY <2>1, <2>2, <2>3 DEF MessageMade
    <2> QED
      BY <2>4, <2>5, <2>6
  <1>17. ASSUME NEW p \in Procs, DeletedAll(p) PROVE Goal
    BY <1>0, <1>17, DraftsSame DEF DeletedAll, Ends, Goes, Untouched, change, history, Drafting
  <1>18. ASSUME NEW p \in Procs, PushClear(p) PROVE Goal
    BY <1>0, <1>18, DraftsSame DEF PushClear, Ends, Goes, Forgets, Untouched, change, Drafting
  <1>19. ASSUME NEW p \in Procs, Crash(p) PROVE Goal
    <2>1. gone \subseteq gone'
      BY <1>19 DEF Crash
    <2> QED
      BY <1>0, <1>19, <2>1, DraftsSame DEF Crash, Goes, Forgets, change, Drafting
  <1>20. ASSUME NEW t \in Threads, Resolve(t) PROVE Goal
    BY <1>20 DEF Resolve, command, history, DraftsAreKnown, DraftsAreSafe, MessageMade
  <1>21. CASE WebDraft
    BY <1>21 DEF WebDraft, command, DraftsAreKnown, DraftsAreSafe, MessageMade
  <1>22. CASE WebPublish
    <2>1. UNCHANGED <<step, ops, made, gone>> /\ PublishAll /\ robbed' = robbed \cup Owners
      BY <1>22 DEF WebPublish, command
    <2>2. /\ \A id \in Ids : posted[id] > 0 => posted'[id] > 0
          /\ \A id \in Drafted(drafts) : posted'[id] > 0
          /\ messages \subseteq messages' /\ drafts' = {}
      BY <1>0, <2>1, PostsMore DEF PublishAll
    <2> QED
      BY <2>1, <2>2, DraftsTaken DEF Drafted
  <1>23. CASE WebDelete
    BY <1>23, DraftsTaken DEF WebDelete, command, Drafted
  <1>24. CASE UNCHANGED vars
    BY <1>24 DEF vars, change, command, history, DraftsAreKnown, DraftsAreSafe, MessageMade
  <1> QED
    BY <1>1, <1>2, <1>3, <1>4, <1>5, <1>6, <1>7, <1>8, <1>9, <1>10, <1>11, <1>12, <1>13, <1>14,
       <1>15, <1>16, <1>17, <1>18, <1>19, <1>20, <1>21, <1>22, <1>23, <1>24 DEF Next, Proceeds

-----------------------------------------------------------------------------
(* What is posted, and how often.                                          *)

PostedInv == OnePush /\ PushIsOver /\ PostedOnce /\ AllOrNone

(* A command that does not push goes on.                                   *)
LEMMA NoPush ==
  ASSUME TypeOK, Hands, PostedInv, NEW p \in Procs, ~Pushes(p), ~Pushes(p)',
         UNCHANGED <<posted, messages, drafts, made, robbed>>, doubt \subseteq doubt',
         \A q \in Procs \ {p} : UNCHANGED <<step[q], ops[q], said[q]>>,
         UNCHANGED <<said[p], ops[p]>> \/ said'[p] = "none",
         \A id \in IdsOf(staged') : id \in IdsOf(staged) \/ posted[id] = 0 \/ id \in doubt'
  PROVE  PostedInv'
  <1>1. OnePush'
    BY DEF PostedInv, OnePush, Pushes, Certain
  <1>2. \A q \in Procs : Pushes(q)' => q # p /\ Pushes(q)
    BY DEF Pushes
  <1>3. \A q \in Procs : step[q] \in {"lookup", "clear"} => q # p
    BY DEF Pushes, Pushing
  <1>4. PushIsOver'
    <2> SUFFICES ASSUME NEW id \in Certain', posted[id] > 0
                 PROVE  /\ \A q \in Procs : Pushes(q)' /\ id \in IdsOf(ops'[q]) =>
                             step'[q] = "clear" \/ (step'[q] = "lookup" /\ made[q] \cap drafts = {})
                        /\ id \in IdsOf(staged') =>
                             \E q \in Procs : step'[q] \in {"lookup", "clear"} /\ id \in IdsOf(ops'[q])
      BY DEF PushIsOver
    <2>1. id \in Certain /\ id \in Ids
      BY DEF Certain
    <2>2. \A q \in Procs : Pushes(q)' /\ id \in IdsOf(ops'[q]) =>
            step'[q] = "clear" \/ (step'[q] = "lookup" /\ made[q] \cap drafts = {})
      BY <1>2, <2>1 DEF PostedInv, PushIsOver
    <2>3. ASSUME id \in IdsOf(staged')
          PROVE  \E q \in Procs : step'[q] \in {"lookup", "clear"} /\ id \in IdsOf(ops'[q])
      <3>1. id \in IdsOf(staged)
        BY <2>1, <2>3 DEF Certain, TypeOK
      <3> QED
        BY <1>3, <2>1, <3>1 DEF PostedInv, PushIsOver
    <2> QED
      BY <2>2, <2>3
  <1>5. PostedOnce'
    BY DEF PostedInv, PostedOnce
  <1>6. AllOrNone'
    BY DEF PostedInv, AllOrNone
  <1> QED
    BY <1>1, <1>4, <1>5, <1>6 DEF PostedInv

(* A push goes on, or ends, and posts nothing.                             *)
LEMMA PushGoesOn ==
  ASSUME TypeOK, Hands, PostedInv, NEW p \in Procs, Pushes(p),
         UNCHANGED <<posted, messages, ops, robbed>>, doubt \subseteq doubt',
         \A q \in Procs \ {p} : UNCHANGED <<step[q], said[q], made[q]>>,
         \A d \in drafts' : d \in drafts \/ d.by = p,
         staged' \in {staged, <<>>},
         \A id \in IdsOf(ops[p]) \ doubt' : posted[id] > 0 =>
           \/ step'[p] = "clear"
           \/ step'[p] = "lookup" /\ made'[p] \cap drafts' = {}
           \/ ~Pushes(p)' /\ staged' = <<>>,
         \/ said'[p] \in {"none", "uncertain"}
         \/ said'[p] = "nothing" /\ \A id \in IdsOf(ops[p]) \ doubt' : posted[id] = 0
         \/ said'[p] = "posted" /\ (p \in robbed \/ IdsOf(ops[p]) \in messages)
  PROVE  PostedInv'
  <1>0. IdsOf(<<>>) = {} /\ Certain' \subseteq Certain /\ Certain \subseteq Ids
        /\ \A q \in Procs : IdsOf(ops[q]) \subseteq Ids
    BY IdsAreIds DEF IdsOf, Certain, TypeOK
  <1>1. OnePush'
    <2>1. \A id \in Certain, q \in Procs \ {p} :
            Pushes(q) /\ id \in IdsOf(ops[q]) => id \notin IdsOf(ops[p])
      BY DEF PostedInv, OnePush
    <2> QED
      BY <1>0, <2>1 DEF PostedInv, OnePush, Pushes
  <1>2. PushIsOver'
    <2> SUFFICES ASSUME NEW id \in Certain', posted[id] > 0
                 PROVE  /\ \A q \in Procs : Pushes(q)' /\ id \in IdsOf(ops[q]) =>
                             step'[q] = "clear" \/ (step'[q] = "lookup" /\ made'[q] \cap drafts' = {})
                        /\ id \in IdsOf(staged') =>
                             \E q \in Procs : step'[q] \in {"lookup", "clear"} /\ id \in IdsOf(ops[q])
      BY DEF PushIsOver
    <2>1. id \in Certain /\ id \notin doubt'
      BY <1>0 DEF Certain
    <2>2. ASSUME NEW q \in Procs \ {p}, Pushes(q)', id \in IdsOf(ops[q])
          PROVE  step'[q] = "clear" \/ (step'[q] = "lookup" /\ made'[q] \cap drafts' = {})
      <3>1. step[q] = "clear" \/ (step[q] = "lookup" /\ made[q] \cap drafts = {})
        BY <2>1, <2>2 DEF PostedInv, PushIsOver, Pushes
      <3>2. \A d \in made[q] : d.by # p
        BY <2>2 DEF Hands
      <3> QED
        BY <2>2, <3>1, <3>2
    <2>3. ASSUME id \in IdsOf(staged')
          PROVE  \E q \in Procs : step'[q] \in {"lookup", "clear"} /\ id \in IdsOf(ops[q])
      <3>1. id \in IdsOf(staged) /\ staged' # <<>>
        BY <1>0, <2>3
      <3>2. PICK q \in Procs : step[q] \in {"lookup", "clear"} /\ id \in IdsOf(ops[q])
        BY <2>1, <3>1 DEF PostedInv, PushIsOver
      <3> QED
        BY <2>1, <3>1, <3>2
    <2> QED
      BY <2>1, <2>2, <2>3
  <1>3. PostedOnce'
    BY DEF PostedInv, PostedOnce
  <1>4. AllOrNone'
    <2>1. ASSUME NEW q \in Procs \ {p}
          PROVE  /\ said'[q] = "posted" /\ q \notin robbed => IdsOf(ops[q]) \in messages
                 /\ said'[q] = "nothing" => \A id \in IdsOf(ops[q]) : posted[id] > 0 => id \in doubt'
      BY DEF PostedInv, AllOrNone
    <2>2. \A id \in Ids : posted[id] = 0 => ~(posted[id] > 0)
      BY DEF TypeOK
    <2> QED
      BY <1>0, <2>1, <2>2 DEF AllOrNone
  <1> QED
    BY <1>1, <1>2, <1>3, <1>4 DEF PostedInv

(* Somebody posts: a push its own replies, once, or other ones that are in *)
(* doubt then.                                                             *)
LEMMA SomePost ==
  ASSUME TypeOK, Hands, PostedInv, NEW p \in Procs, NEW ids \in SUBSET Ids, Posts(ids),
         UNCHANGED <<ops, made, staged>>, doubt \subseteq doubt', drafts' \subseteq drafts,
         robbed \subseteq robbed',
         \A q \in Procs \ {p} : UNCHANGED <<step[q], said[q]>>,
         \A id \in ids : id \in doubt' \/ (id \in IdsOf(ops[p]) /\ step[p] \in {"post", "publish"}),
         \/ UNCHANGED <<step[p], said[p]>> /\ ids \subseteq doubt'
         \/ /\ step[p] \in {"post", "publish"} /\ said'[p] = "none"
            /\ step'[p] = "clear" \/ (step'[p] = "lookup" /\ made[p] \cap drafts' = {})
         \/ ~Pushes(p)' /\ said'[p] = "nothing" /\ IdsOf(ops[p]) \subseteq doubt' /\ Pushes(p)
  PROVE  PostedInv'
  <1>0. /\ Certain' \subseteq Certain /\ Certain \subseteq Ids
        /\ \A q \in Procs : IdsOf(ops[q]) \subseteq Ids
        /\ posted \in [Ids -> 0..2]
    BY IdsAreIds DEF Certain, TypeOK
  <1>1. /\ \A id \in Ids : posted[id] > 0 => posted'[id] > 0
        /\ \A id \in ids : posted'[id] > 0 /\ (posted'[id] = 2 => posted[id] > 0)
        /\ \A id \in Ids \ ids : posted'[id] = posted[id]
        /\ messages \subseteq messages'
    BY <1>0, PostsMore
  <1>2. \A id \in ids \cap Certain' : /\ id \in IdsOf(ops[p]) /\ Pushes(p) /\ step[p] \in {"post", "publish"}
                                      /\ posted[id] = 0
    <2>1. \A id \in ids \cap Certain' : id \in IdsOf(ops[p]) /\ step[p] \in {"post", "publish"}
      BY DEF Certain
    <2> QED
      BY <1>0, <2>1 DEF PostedInv, PushIsOver, Pushes, Pushing
  <1>3. \A q \in Procs : Pushes(q)' => Pushes(q)
    BY DEF Pushes, Pushing
  <1>4. OnePush'
    <2>1. \A q \in Procs : said'[q] = "nothing" => said[q] = "nothing" \/ (q = p /\ Pushes(p))
      OBVIOUS
    <2> QED
      BY <1>0, <1>3, <2>1 DEF PostedInv, OnePush
  <1>5. PushIsOver'
    <2> SUFFICES ASSUME NEW id \in Certain', posted'[id] > 0
                 PROVE  /\ \A q \in Procs : Pushes(q)' /\ id \in IdsOf(ops[q]) =>
                             step'[q] = "clear" \/ (step'[q] = "lookup" /\ made[q] \cap drafts' = {})
                        /\ id \in IdsOf(staged) =>
                             \E q \in Procs : step'[q] \in {"lookup", "clear"} /\ id \in IdsOf(ops[q])
      BY DEF PushIsOver
    <2>1. id \in Certain /\ id \in Ids /\ id \notin doubt'
      BY <1>0 DEF Certain
    <2>2. CASE id \in ids
      <3>1. id \in IdsOf(ops[p]) /\ Pushes(p)
            /\ (step'[p] = "clear" \/ (step'[p] = "lookup" /\ made[p] \cap drafts' = {}))
        BY <1>2, <2>1, <2>2
      <3>2. \A q \in Procs \ {p} : ~(Pushes(q) /\ id \in IdsOf(ops[q]))
        BY <2>1, <3>1 DEF PostedInv, OnePush
      <3> QED
        BY <1>3, <3>1, <3>2
    <2>3. CASE id \notin ids
      <3>1. posted[id] > 0
        BY <1>1, <2>1, <2>3
      <3>2. \A q \in Procs : Pushes(q) /\ id \in IdsOf(ops[q]) =>
              step[q] = "clear" \/ (step[q] = "lookup" /\ made[q] \cap drafts = {})
        BY <2>1, <3>1 DEF PostedInv, PushIsOver
      <3>3. id \in IdsOf(staged) => \E q \in Procs : step[q] \in {"lookup", "clear"} /\ id \in IdsOf(ops[q])
        BY <2>1, <3>1 DEF PostedInv, PushIsOver
      <3>4. ASSUME NEW q \in Procs, id \in IdsOf(ops[q]), step[q] \in {"lookup", "clear"}
            PROVE  step'[q] = step[q]
        BY <2>1, <3>4
      <3>5. \A q \in Procs : step[q] \in {"lookup", "clear"} => Pushes(q)
        BY DEF Pushes, Pushing
      <3> QED
        BY <1>3, <3>2, <3>3, <3>4
    <2> QED
      BY <2>2, <2>3
  <1>6. PostedOnce'
    <2> SUFFICES ASSUME NEW id \in Ids, posted'[id] = 2, id \notin doubt' PROVE FALSE
      BY DEF PostedOnce
    <2>1. id \in Certain'
      BY DEF Certain
    <2>2. CASE id \in ids
      BY <1>1, <1>2, <2>1, <2>2
    <2>3. CASE id \notin ids
      BY <1>1, <2>3 DEF PostedInv, PostedOnce
    <2> QED
      BY <2>2, <2>3
  <1>7. AllOrNone'
    <2> SUFFICES ASSUME NEW q \in Procs
                 PROVE  /\ said'[q] = "posted" /\ q \notin robbed' => IdsOf(ops[q]) \in messages'
                        /\ said'[q] = "nothing" =>
                             \A id \in IdsOf(ops[q]) : posted'[id] > 0 => id \in doubt'
      BY DEF AllOrNone
    <2>1. said'[q] = "posted" => said[q] = "posted"
      OBVIOUS
    <2>2. ASSUME said'[q] = "nothing", NEW id \in IdsOf(ops[q]), posted'[id] > 0, id \notin doubt'
          PROVE  FALSE
      <3>1. id \in Certain' /\ id \in Ids /\ id \in Certain
        BY <1>0, <2>2 DEF Certain
      <3>2. said[q] = "nothing"
        BY <2>2
      <3>3. CASE id \notin ids
        BY <1>1, <2>2, <3>1, <3>2, <3>3 DEF PostedInv, AllOrNone
      <3>4. CASE id \in ids
        <4>1. id \in IdsOf(ops[p]) /\ Pushes(p)
          BY <1>2, <3>1, <3>4
        <4>2. q # p
          BY <3>2, <4>1 DEF Hands, Pushes, Pushing
        <4> QED
          BY <2>2, <3>1, <3>2, <4>1, <4>2 DEF PostedInv, OnePush
      <3> QED
        BY <3>3, <3>4
    <2> QED
      BY <1>1, <2>1, <2>2 DEF PostedInv, AllOrNone
  <1> QED
    BY <1>4, <1>5, <1>6, <1>7 DEF PostedInv

LEMMA PostedStep ==
  ASSUME TypeOK, Hands, DraftsAreKnown, MessageMade, PostedInv, [Next]_vars
  PROVE  PostedInv'
  <1>0. /\ step \in [Procs -> Steps] /\ ops \in [Procs -> Seq(Op)] /\ made \in [Procs -> SUBSET Draft]
        /\ said \in [Procs -> {"none", "posted", "nothing", "uncertain"}]
        /\ posted \in [Ids -> 0..2] /\ doubt \subseteq Ids
        /\ \A p \in Procs : IdsOf(ops[p]) \subseteq Ids
        /\ Drafted(drafts) \subseteq Ids /\ IdsOf(staged) \subseteq Ids
        /\ IdsOf(<<>>) = {}
    BY IdsAreIds DEF TypeOK, Drafted, Draft, IdsOf
  <1>p. \A p \in Procs : Pushes(p) => said[p] = "none"
    BY DEF Pushes, Pushing, Hands
  <1>s. \A p \in Procs : Pushes(p) /\ step[p] \notin {"lookup", "clear"} =>
          \A id \in IdsOf(ops[p]) \ doubt : posted[id] = 0 /\ ~(posted[id] > 0)
    <2> SUFFICES ASSUME NEW p \in Procs, Pushes(p), step[p] \notin {"lookup", "clear"},
                        NEW id \in IdsOf(ops[p]) \ doubt
                 PROVE  posted[id] = 0 /\ ~(posted[id] > 0)
      OBVIOUS
    <2>1. id \in Certain /\ posted[id] \in 0..2
      BY <1>0 DEF Certain
    <2>2. ~(posted[id] > 0)
      BY <2>1 DEF PostedInv, PushIsOver
    <2> QED
      BY <2>1, <2>2
  <1>1. ASSUME NEW p \in Procs, Stage(p) PROVE PostedInv'
    <2>1. step[p] = "idle" /\ step'[p] = "stage" /\ \A q \in Procs \ {p} : UNCHANGED <<step[q], ops[q], said[q]>>
      BY <1>0, <1>1 DEF Stage, Starts, Goes, Keeps
    <2>2. said'[p] = "none" /\ UNCHANGED <<posted, messages, drafts, made, robbed, doubt, staged>>
      BY <1>0, <1>1 DEF Stage, file, change, history
    <2> QED
      BY <2>1, <2>2, NoPush DEF Pushes, Pushing
  <1>2. ASSUME NEW p \in Procs, StageLoad(p) PROVE PostedInv'
    <2>1. /\ step[p] = "stage" /\ step'[p] \in {"idle", "save"} /\ said[p] = "none"
          /\ \A q \in Procs \ {p} : UNCHANGED <<step[q], ops[q], said[q]>>
      BY <1>0, <1>2 DEF StageLoad, Goes, Keeps, Hands
    <2>2. UNCHANGED <<said, posted, messages, drafts, made, robbed, doubt, staged>>
      BY <1>2 DEF StageLoad, file, Untouched, change
    <2> QED
      BY <2>1, <2>2, NoPush DEF Pushes, Pushing
  <1>3. ASSUME NEW p \in Procs, Load(p) PROVE PostedInv'
    <2>1. /\ step[p] = "idle" /\ step'[p] = "save" /\ said'[p] = "none"
          /\ \A q \in Procs \ {p} : UNCHANGED <<step[q], ops[q], said[q]>>
      BY <1>0, <1>3 DEF Load, Starts, Goes, Keeps
    <2>2. UNCHANGED <<posted, messages, drafts, made, robbed, doubt, staged>>
      BY <1>3 DEF Load, file, Untouched, change
    <2> QED
      BY <2>1, <2>2, NoPush DEF Pushes, Pushing
  <1>4. ASSUME NEW p \in Procs, Save(p) PROVE PostedInv'
    <2>1. /\ step[p] = "save" /\ step'[p] = "idle" /\ said[p] = "none" /\ UNCHANGED said
          /\ \A q \in Procs \ {p} : UNCHANGED <<step[q], ops[q], said[q]>>
      BY <1>0, <1>4 DEF Save, Goes, Keeps, Hands
    <2>2. UNCHANGED <<posted, messages, drafts, made, robbed>> /\ doubt \subseteq doubt'
      BY <1>4 DEF Save, Untouched, change
    <2>3. \A id \in IdsOf(staged') : posted[id] = 0 \/ id \in doubt'
      BY <1>0, <1>4 DEF Save
    <2> QED
      BY <2>1, <2>2, <2>3, NoPush DEF Pushes, Pushing
  <1>5. ASSUME NEW p \in Procs, Clear(p) PROVE PostedInv'
    BY <1>0, <1>5, NoPush DEF Clear, Untouched, change, Pushes, Pushing
  <1>6. ASSUME NEW p \in Procs, Push(p) PROVE PostedInv'
    <2>1. /\ step[p] = "idle" /\ step'[p] = "read" /\ ops'[p] = staged
          /\ \A q \in Procs \ {p} : UNCHANGED <<step[q], ops[q]>>
          /\ \A q \in Procs : said'[q] = "none"
      BY <1>0, <1>6 DEF Push, Starts, Goes, Keeps
    <2>2. UNCHANGED <<posted, messages, drafts, made, staged>>
          /\ doubt' = doubt \cup {id \in IdsOf(staged) : \E q \in Procs : Pushes(q) /\ id \in IdsOf(ops[q])}
      BY <1>6 DEF Push, file, change
    <2>3. ~Pushes(p) /\ \A q \in Procs \ {p} : Pushes(q)' <=> Pushes(q)
      BY <2>1 DEF Pushes, Pushing
    <2>4. \A id \in Certain' : /\ id \in Certain /\ id \in Ids
                               /\ \A q \in Procs : Pushes(q) /\ id \in IdsOf(ops[q]) => id \notin IdsOf(staged)
      BY <2>2 DEF Certain
    <2>5. OnePush'
      BY <2>1, <2>3, <2>4 DEF PostedInv, OnePush
    <2>6. \A id \in Certain' : posted[id] > 0 => id \notin IdsOf(staged)
      BY <2>4 DEF PostedInv, PushIsOver, Pushes, Pushing
    <2>7. PushIsOver'
      BY <2>1, <2>2, <2>3, <2>4, <2>6 DEF PostedInv, PushIsOver
    <2>8. PostedOnce' /\ AllOrNone'
      BY <2>1, <2>2 DEF PostedInv, PostedOnce, AllOrNone
    <2> QED
      BY <2>5, <2>7, <2>8 DEF PostedInv
  <1>7. ASSUME NEW p \in Procs, PushRead(p) PROVE PostedInv'
    <2>1. /\ Pushes(p) /\ step[p] = "read" /\ said'[p] \in {"none", "nothing"}
          /\ \A q \in Procs \ {p} : UNCHANGED <<step[q], said[q], made[q]>>
          /\ UNCHANGED <<posted, messages, drafts, ops, made, robbed, doubt, staged>>
      BY <1>0, <1>7, <1>p DEF PushRead, Goes, Ends, Untouched, change, file, history, Pushes, Pushing
    <2>2. \A id \in IdsOf(ops[p]) \ doubt' : posted[id] = 0 /\ ~(posted[id] > 0)
      BY <1>s, <2>1
    <2> QED
      BY <2>1, <2>2, PushGoesOn
  <1>8. ASSUME NEW p \in Procs, Post(p) PROVE PostedInv'
    <2>1. /\ Pushes(p) /\ step[p] = "post" /\ said[p] = "none"
          /\ \A q \in Procs \ {p} : UNCHANGED <<step[q], said[q], made[q]>>
          /\ UNCHANGED <<drafts, ops, made, robbed, staged>> /\ doubt \subseteq doubt'
      BY <1>0, <1>8, <1>p DEF Post, Goes, Ends, file, Pushes, Pushing
    <2>2. CASE Posts(IdsOf(ops[p])) /\ Goes(p, "clear") /\ UNCHANGED <<said, doubt>>
      BY <1>0, <2>1, <2>2, SomePost DEF Goes
    <2>3. CASE Posts(IdsOf(ops[p])) /\ Ends(p, "nothing") /\ doubt' = doubt \cup IdsOf(ops[p])
      <3>1. ~Pushes(p)' /\ said'[p] = "nothing"
        BY <1>0, <2>3 DEF Ends, Goes, Pushes, Pushing
      <3> QED
        BY <1>0, <2>1, <2>3, <3>1, SomePost
    <2>4. CASE Ends(p, "nothing") /\ UNCHANGED <<posted, messages, doubt>>
      <3>1. said'[p] = "nothing"
        BY <1>0, <2>4 DEF Ends
      <3>2. \A id \in IdsOf(ops[p]) \ doubt' : posted[id] = 0 /\ ~(posted[id] > 0)
        BY <1>s, <2>1, <2>4
      <3> QED
        BY <2>1, <2>4, <3>1, <3>2, PushGoesOn
    <2> QED
      BY <1>8, <2>2, <2>3, <2>4 DEF Post
  <1>9. ASSUME NEW p \in Procs, Check(p) PROVE PostedInv'
    <2>1. /\ Pushes(p) /\ step[p] = "check" /\ said'[p] \in {"none", "nothing"}
          /\ \A q \in Procs \ {p} : UNCHANGED <<step[q], said[q], made[q]>>
          /\ UNCHANGED <<posted, messages, drafts, ops, made, robbed, doubt, staged>>
      BY <1>0, <1>9, <1>p DEF Check, Goes, Ends, Untouched, change, file, history, Pushes, Pushing
    <2>2. \A id \in IdsOf(ops[p]) \ doubt' : posted[id] = 0 /\ ~(posted[id] > 0)
      BY <1>s, <2>1
    <2> QED
      BY <2>1, <2>2, PushGoesOn
  <1>10. ASSUME NEW p \in Procs, CreateOne(p) PROVE PostedInv'
    <2>1. /\ Pushes(p) /\ step[p] = "create" /\ said'[p] = "none"
          /\ UNCHANGED <<said, posted, messages, ops, robbed, doubt, staged>>
      BY <1>10, <1>p DEF CreateOne, file, history, Pushes, Pushing
    <2>2. \A q \in Procs \ {p} : UNCHANGED <<step[q], said[q], made[q]>>
      BY <1>0, <1>10 DEF CreateOne, Goes
    <2>3. \A d \in drafts' : d \in drafts \/ d.by = p
      BY <1>10 DEF CreateOne
    <2> QED
      BY <1>s, <1>0, <2>1, <2>2, <2>3, PushGoesOn
  <1>11. ASSUME NEW p \in Procs, CreatedAll(p) PROVE PostedInv'
    <2>1. /\ Pushes(p) /\ step[p] = "create" /\ said'[p] = "none"
          /\ \A q \in Procs \ {p} : UNCHANGED <<step[q], said[q], made[q]>>
          /\ UNCHANGED <<posted, messages, drafts, ops, made, robbed, doubt, staged>>
      BY <1>0, <1>11, <1>p DEF CreatedAll, Goes, Untouched, change, file, history, Pushes, Pushing
    <2> QED
      BY <1>s, <1>0, <2>1, PushGoesOn
  <1>12. ASSUME NEW p \in Procs, Recheck(p) PROVE PostedInv'
    <2>1. /\ Pushes(p) /\ step[p] = "recheck" /\ said'[p] = "none"
          /\ \A q \in Procs \ {p} : UNCHANGED <<step[q], said[q], made[q]>>
          /\ UNCHANGED <<posted, messages, drafts, ops, made, robbed, doubt, staged>>
      BY <1>0, <1>12, <1>p DEF Recheck, Goes, Untouched, change, file, history, Pushes, Pushing
    <2> QED
      BY <1>s, <1>0, <2>1, PushGoesOn
  <1>13. ASSUME NEW p \in Procs, Publish(p) PROVE PostedInv'
    <2>1. /\ Pushes(p) /\ step[p] = "publish" /\ said'[p] = "none"
          /\ \A q \in Procs \ {p} : UNCHANGED <<step[q], said[q], made[q]>>
          /\ UNCHANGED <<said, ops, made, staged>>
      BY <1>0, <1>13, <1>p DEF Publish, Goes, file, Pushes, Pushing
    <2>2. step'[p] \in {"clear", "lookup"}
      BY <1>0, <1>13 DEF Publish, Goes
    <2>3. CASE /\ PublishAll
               /\ robbed' = IF Owners \subseteq {p} THEN robbed ELSE robbed \cup Owners \cup {p}
               /\ doubt' = doubt \cup {d.id : d \in {x \in drafts : x.by # p}}
      <3>1. robbed \subseteq robbed' /\ doubt \subseteq doubt' /\ drafts' = {}
        BY <2>3 DEF PublishAll
      <3>2. ASSUME NEW d \in drafts
            PROVE  d.id \in doubt' \/ d.id \in IdsOf(ops[p])
        <4>1. CASE d.by = p
          BY <2>1, <4>1 DEF DraftsAreKnown, Drafting, Hands
        <4>2. CASE d.by # p
          BY <2>3, <4>2
        <4> QED
          BY <4>1, <4>2
      <3>3. \A id \in Drafted(drafts) : id \in doubt' \/ id \in IdsOf(ops[p])
        BY <3>2 DEF Drafted
      <3>4. Posts(Drafted(drafts))
        BY <2>3 DEF PublishAll
      <3> QED
        BY <1>0, <2>1, <2>2, <3>1, <3>3, <3>4, SomePost
    <2>4. CASE UNCHANGED <<drafts, posted, messages, robbed, doubt>>
      BY <1>s, <1>0, <2>1, <2>4, PushGoesOn
    <2> QED
      BY <1>13, <2>3, <2>4 DEF Publish
  <1>14. ASSUME NEW p \in Procs, PublishLate(p) PROVE PostedInv'
    <2>1. UNCHANGED <<step, said, ops, made, staged>>
      BY <1>14 DEF PublishLate, file
    <2>2. CASE PublishAll /\ robbed' = robbed \cup Owners /\ doubt' = doubt \cup Drafted(drafts)
      BY <1>0, <2>1, <2>2, SomePost DEF PublishAll
    <2>3. CASE UNCHANGED <<drafts, posted, messages, robbed, doubt>>
      BY <2>1, <2>3 DEF PostedInv, OnePush, PushIsOver, PostedOnce, AllOrNone, Pushes, Certain
    <2> QED
      BY <1>14, <2>2, <2>3 DEF PublishLate
  <1>15. ASSUME NEW p \in Procs, Lookup(p) PROVE PostedInv'
    <2>1. /\ Pushes(p) /\ step[p] = "lookup" /\ said[p] = "none"
          /\ UNCHANGED <<posted, messages, drafts, ops, robbed, staged>>
      BY <1>15, <1>p DEF Lookup, Untouched, change, file, Pushes, Pushing
    <2>2. \A q \in Procs \ {p} : UNCHANGED <<step[q], said[q], made[q]>>
      BY <1>0, <1>15 DEF Lookup, Found, Goes, Ends, Forgets
    <2>3. CASE Found(p)
      <3>1. said' = said /\ doubt' = doubt /\ (made[p] \cap drafts = {} => step'[p] = "clear")
        BY <1>0, <2>3 DEF Found, Goes
      <3>2. \A id \in IdsOf(ops[p]) \ doubt : posted[id] > 0 => made[p] \cap drafts = {}
        BY <1>0, <2>1 DEF PostedInv, PushIsOver, Certain
      <3> QED
        BY <2>1, <2>2, <3>1, <3>2, PushGoesOn
    <2>4. CASE Ends(p, "uncertain") /\ Forgets(p) /\ doubt' = doubt \cup IdsOf(ops[p])
      <3>1. said'[p] = "uncertain"
        BY <1>0, <2>4 DEF Ends
      <3> QED
        BY <2>1, <2>2, <2>4, <3>1, PushGoesOn
    <2> QED
      BY <1>15, <2>3, <2>4 DEF Lookup
  <1>16. ASSUME NEW p \in Procs, DeleteOne(p) PROVE PostedInv'
    <2>1. /\ Pushes(p) /\ step[p] = "delete" /\ said'[p] = "none"
          /\ UNCHANGED <<step, said, posted, messages, ops, robbed, doubt, staged>>
          /\ drafts' \subseteq drafts
      BY <1>16, <1>p DEF DeleteOne, file, history, Pushes, Pushing
    <2>2. \A q \in Procs \ {p} : UNCHANGED <<step[q], said[q], made[q]>>
      BY <1>0, <1>16 DEF DeleteOne
    <2> QED
      BY <1>s, <1>0, <2>1, <2>2, PushGoesOn
  <1>17. ASSUME NEW p \in Procs, DeletedAll(p) PROVE PostedInv'
    <2>1. /\ Pushes(p) /\ step[p] = "delete" /\ said'[p] = "nothing"
          /\ \A q \in Procs \ {p} : UNCHANGED <<step[q], said[q], made[q]>>
          /\ UNCHANGED <<posted, messages, drafts, ops, made, robbed, doubt, staged>>
      BY <1>0, <1>17 DEF DeletedAll, Goes, Ends, Untouched, change, file, history, Pushes, Pushing
    <2> QED
      BY <1>s, <1>0, <2>1, PushGoesOn
  <1>18. ASSUME NEW p \in Procs, PushClear(p) PROVE PostedInv'
    <2>1. /\ Pushes(p) /\ step[p] = "clear" /\ said'[p] = "posted" /\ ~Pushes(p)' /\ staged' = <<>>
          /\ \A q \in Procs \ {p} : UNCHANGED <<step[q], said[q], made[q]>>
          /\ UNCHANGED <<posted, messages, drafts, ops, robbed, doubt>>
      BY <1>0, <1>18 DEF PushClear, Clears, Goes, Ends, Forgets, Untouched, change, Pushes, Pushing
    <2>2. p \in robbed \/ IdsOf(ops[p]) \in messages
      BY <2>1 DEF MessageMade
    <2> QED
      BY <2>1, <2>2, PushGoesOn
  <1>19. ASSUME NEW p \in Procs, Crash(p) PROVE PostedInv'
    <2>1. /\ step'[p] = "idle" /\ \A q \in Procs \ {p} : UNCHANGED <<step[q], said[q], made[q]>>
          /\ UNCHANGED <<said, posted, messages, drafts, ops, robbed>> /\ doubt \subseteq doubt'
          /\ staged' \in {staged, <<>>} /\ said[p] = "none" /\ made'[p] = {}
      BY <1>0, <1>19 DEF Crash, Goes, Forgets, change, file, Hands
    <2>2. CASE ~Pushes(p)
      <3>1. made[p] = {}
        BY <1>0, <2>2 DEF Hands, Pushes, Pushing, Drafting
      <3>2. made' = made
        BY <1>0, <1>19, <3>1 DEF Crash, Forgets
      <3> QED
        BY <1>0, <2>1, <2>2, <3>2, NoPush DEF Pushes, Pushing
    <2>3. CASE Pushes(p)
      <3>1. step[p] \in {"lookup", "clear"} => IdsOf(ops[p]) \subseteq doubt'
        BY <1>19 DEF Crash
      <3> QED
        BY <1>s, <1>0, <2>1, <2>3, <3>1, PushGoesOn
    <2> QED
      BY <2>2, <2>3
  <1>20. ASSUME NEW t \in Threads, Resolve(t) PROVE PostedInv'
    BY <1>20 DEF Resolve, file, command, history, PostedInv, OnePush, PushIsOver, PostedOnce, AllOrNone,
                 Pushes, Certain
  <1>21. CASE WebDraft
    BY <1>21 DEF WebDraft, file, command, PostedInv, OnePush, PushIsOver, PostedOnce, AllOrNone,
                 Pushes, Certain
  <1>22. CASE WebPublish
    <2>1. /\ UNCHANGED <<step, said, ops, made, staged>> /\ PublishAll
          /\ doubt' = doubt \cup Drafted(drafts) /\ robbed' = robbed \cup Owners
      BY <1>22 DEF WebPublish, file, command
    <2>2. CASE drafts = {}
      <3>1. Posts({}) /\ drafts' = drafts /\ doubt' = doubt /\ robbed \subseteq robbed'
        BY <2>1, <2>2 DEF PublishAll, Drafted
      <3>2. UNCHANGED <<posted, messages>>
        BY <1>0, <3>1 DEF Posts
      <3> QED
        BY <2>1, <3>1, <3>2 DEF PostedInv, OnePush, PushIsOver, PostedOnce, AllOrNone, Pushes, Certain
    <2>3. ASSUME NEW d \in drafts PROVE PostedInv'
      <3>1. d.by \in Procs
        BY DEF TypeOK, Draft
      <3> QED
        BY <1>0, <2>1, <3>1, SomePost DEF PublishAll
    <2> QED
      BY <2>2, <2>3
  <1>23. CASE WebDelete
    BY <1>23 DEF WebDelete, file, command, PostedInv, OnePush, PushIsOver, PostedOnce, AllOrNone,
                 Pushes, Certain
  <1>24. CASE UNCHANGED vars
    BY <1>24 DEF vars, file, change, command, history, PostedInv, OnePush, PushIsOver, PostedOnce,
                 AllOrNone, Pushes, Certain
  <1> QED
    BY <1>1, <1>2, <1>3, <1>4, <1>5, <1>6, <1>7, <1>8, <1>9, <1>10, <1>11, <1>12, <1>13, <1>14,
       <1>15, <1>16, <1>17, <1>18, <1>19, <1>20, <1>21, <1>22, <1>23, <1>24 DEF Next, Proceeds

-----------------------------------------------------------------------------
(* No reply is lost.                                                       *)

(* Where a reply may be.                                                   *)
Accounted(id) ==
  \/ id \in IdsOf(staged) \cup gone \cup raced
  \/ posted[id] > 0
  \/ \E p \in Procs : step[p] \in {"stage", "save"} /\ id \in IdsOf(ops[p])

LEMMA LostStep ==
  ASSUME TypeOK, Hands, DraftsAreSafe, NoReplyLost, [Next]_vars
  PROVE  NoReplyLost'
  <1>0. /\ step \in [Procs -> Steps] /\ ops \in [Procs -> Seq(Op)] /\ posted \in [Ids -> 0..2]
        /\ \A p \in Procs : IdsOf(ops[p]) \subseteq Ids
        /\ Drafted(drafts) \subseteq Ids
        /\ replies \in 0..MaxReplies /\ MaxReplies \in Nat
    BY IdsAreIds, StagedAssumption DEF TypeOK, Drafted, Draft
  <1>r. 1..replies \subseteq Ids
    BY <1>0 DEF Ids
  <1>k. \A id \in 1..replies : Accounted(id)
    BY DEF NoReplyLost, Accounted
  <1>g. (\A id \in 1..replies' : Accounted(id)') => NoReplyLost'
    BY DEF NoReplyLost, Accounted
  <1>f. replies' = replies /\ (\A id \in 1..replies : Accounted(id)') => NoReplyLost'
    BY <1>g
  <1>e. \A p \in Procs : posted' = posted /\ gone \subseteq gone' /\ raced \subseteq raced'
          /\ staged' = staged /\ replies' = replies /\ step[p] \notin {"stage", "save"}
          /\ (\A q \in Procs \ {p} : UNCHANGED <<step[q], ops[q]>>)
          => NoReplyLost'
    BY <1>k, <1>f DEF Accounted
  <1>1. ASSUME NEW p \in Procs, Stage(p) PROVE NoReplyLost'
    <2>1. PICK t \in open : Keeps(p, <<[id |-> replies + 1, index |-> Index(t), thread |-> t]>>)
      BY <1>1 DEF Stage
    <2>2. step[p] = "idle" /\ step'[p] = "stage" /\ \A q \in Procs \ {p} : UNCHANGED <<step[q], ops[q]>>
      BY <1>0, <1>1 DEF Stage, Starts, Goes, Keeps
    <2>3. UNCHANGED <<staged, gone, raced, posted>> /\ replies' = replies + 1
      BY <1>1 DEF Stage, file, change, history
    <2>4. replies + 1 \in IdsOf(ops'[p])
      <3>1. ops'[p] = <<[id |-> replies + 1, index |-> Index(t), thread |-> t]>>
        BY <1>0, <2>1 DEF Keeps
      <3>2. 1 \in DOMAIN ops'[p] /\ ops'[p][1].id = replies + 1
        BY <3>1
      <3> QED
        BY <3>2 DEF IdsOf
    <2>5. ASSUME NEW id \in 1..replies' PROVE Accounted(id)'
      <3>1. CASE id = replies + 1
        BY <2>2, <2>4, <3>1 DEF Accounted
      <3>2. CASE id # replies + 1
        <4>1. Accounted(id)
          BY <1>0, <1>k, <2>3, <3>2
        <4> QED
          BY <2>2, <2>3, <4>1 DEF Accounted
      <3> QED
        BY <3>1, <3>2
    <2> QED
      BY <1>g, <2>5
  <1>2. ASSUME NEW p \in Procs, StageLoad(p) PROVE NoReplyLost'
    <2>1. /\ step[p] = "stage" /\ \A q \in Procs \ {p} : UNCHANGED <<step[q], ops[q]>>
          /\ UNCHANGED <<staged, raced, posted, replies>> /\ gone \subseteq gone'
      BY <1>0, <1>2 DEF StageLoad, Goes, Keeps, file, Untouched, change, bounded
    <2>2. \A id \in IdsOf(ops[p]) : id \in gone' \/ (step'[p] = "save" /\ id \in IdsOf(ops'[p]))
      <3>1. CASE torn
        BY <1>2, <3>1 DEF StageLoad
      <3>2. CASE ~torn
        <4>1. ops[p] \in [1..1 -> Op] /\ DOMAIN ops[p] = 1..1
          <5>1. ops[p] \in Seq(Op) /\ Len(ops[p]) = 1
            BY <1>0, <2>1 DEF Hands
          <5> QED
            BY ONLY <5>1, Lists
        <4>2. IdsOf(ops[p]) = {ops[p][1].id} /\ ops[p][1] \in Op
          BY <4>1 DEF IdsOf
        <4>3. step'[p] = "save" /\ ops'[p] = Replaced(ops[p][1])
          BY <1>0, <1>2, <3>2 DEF StageLoad, Goes, Keeps
        <4> QED
          BY <4>2, <4>3, ListReplaced DEF TypeOK
      <3> QED
        BY <3>1, <3>2
    <2> QED
      BY <1>k, <1>f, <2>1, <2>2 DEF Accounted
  <1>3. ASSUME NEW p \in Procs, Load(p) PROVE NoReplyLost'
    <2>1. gone \subseteq gone' /\ \A q \in Procs \ {p} : ops'[q] = ops[q]
      BY <1>0, <1>3 DEF Load, Keeps
    <2> QED
      BY <1>0, <1>e, <1>3, <2>1 DEF Load, Starts, Goes, file, Untouched, change, bounded
  <1>4. ASSUME NEW p \in Procs, Save(p) PROVE NoReplyLost'
    <2>1. /\ step[p] = "save" /\ \A q \in Procs \ {p} : UNCHANGED <<step[q], ops[q]>>
          /\ UNCHANGED <<gone, posted, replies>> /\ staged' = ops[p]
          /\ raced' = raced \cup (IdsOf(staged) \ IdsOf(ops[p]))
      BY <1>0, <1>4 DEF Save, Goes, Keeps, Untouched, change, bounded
    <2> QED
      BY <1>k, <1>f, <2>1 DEF Accounted
  <1>5. ASSUME NEW p \in Procs, Clear(p) PROVE NoReplyLost'
    BY <1>k, <1>f, <1>5 DEF Clear, Untouched, change, bounded, Accounted
  <1>6. ASSUME NEW p \in Procs, Push(p) PROVE NoReplyLost'
    BY <1>0, <1>e, <1>6 DEF Push, Starts, Goes, Keeps, file, change
  <1>7. ASSUME NEW p \in Procs, PushRead(p) PROVE NoReplyLost'
    BY <1>0, <1>e, <1>7 DEF PushRead, Goes, Ends, file, Untouched, change, bounded, history
  <1>8. ASSUME NEW p \in Procs, Post(p) PROVE NoReplyLost'
    <2>1. /\ step[p] = "post" /\ UNCHANGED <<staged, gone, raced, ops, replies>>
          /\ \A q \in Procs \ {p} : step'[q] = step[q]
      BY <1>0, <1>8 DEF Post, Goes, Ends, file, bounded
    <2>2. \A id \in Ids : posted[id] > 0 => posted'[id] > 0
      BY <1>0, <1>8, PostsMore DEF Post
    <2> QED
      BY <1>r, <1>k, <1>f, <2>1, <2>2 DEF Accounted
  <1>9. ASSUME NEW p \in Procs, Check(p) PROVE NoReplyLost'
    BY <1>0, <1>e, <1>9 DEF Check, Goes, Ends, file, Untouched, change, bounded, history
  <1>10. ASSUME NEW p \in Procs, CreateOne(p) PROVE NoReplyLost'
    BY <1>0, <1>e, <1>10 DEF CreateOne, Goes, file, bounded, history
  <1>11. ASSUME NEW p \in Procs, CreatedAll(p) PROVE NoReplyLost'
    BY <1>0, <1>e, <1>11 DEF CreatedAll, Goes, file, Untouched, change, bounded, history
  <1>12. ASSUME NEW p \in Procs, Recheck(p) PROVE NoReplyLost'
    BY <1>0, <1>e, <1>12 DEF Recheck, Goes, file, Untouched, change, bounded, history
  <1>13. ASSUME NEW p \in Procs, Publish(p) PROVE NoReplyLost'
    <2>1. /\ step[p] = "publish" /\ UNCHANGED <<staged, gone, raced, ops, replies>>
          /\ \A q \in Procs \ {p} : step'[q] = step[q]
      BY <1>0, <1>13 DEF Publish, Goes, file, bounded
    <2>2. \A id \in Ids : posted[id] > 0 => posted'[id] > 0
      BY <1>0, <1>13, PostsMore DEF Publish, PublishAll
    <2> QED
      BY <1>r, <1>k, <1>f, <2>1, <2>2 DEF Accounted
  <1>14. ASSUME NEW p \in Procs, PublishLate(p) PROVE NoReplyLost'
    <2>1. \A id \in Ids : posted[id] > 0 => posted'[id] > 0
      BY <1>0, <1>14, PostsMore DEF PublishLate, PublishAll
    <2> QED
      BY <1>r, <1>k, <1>f, <1>14, <2>1 DEF PublishLate, Accounted, file, bounded
  <1>15. ASSUME NEW p \in Procs, Lookup(p) PROVE NoReplyLost'
    BY <1>0, <1>e, <1>15 DEF Lookup, Found, Goes, Ends, file, Untouched, change, bounded
  <1>16. ASSUME NEW p \in Procs, DeleteOne(p) PROVE NoReplyLost'
    BY <1>0, <1>e, <1>16 DEF DeleteOne, file, bounded, history
  <1>17. ASSUME NEW p \in Procs, DeletedAll(p) PROVE NoReplyLost'
    BY <1>0, <1>e, <1>17 DEF DeletedAll, Goes, Ends, file, Untouched, change, bounded, history
  <1>18. ASSUME NEW p \in Procs, PushClear(p) PROVE NoReplyLost'
    <2>1. /\ step[p] = "clear" /\ UNCHANGED <<posted, gone, ops, replies>>
          /\ \A q \in Procs \ {p} : step'[q] = step[q]
          /\ raced' = raced \cup (IdsOf(staged) \ IdsOf(ops[p]))
      BY <1>0, <1>18 DEF PushClear, Ends, Goes, Untouched, change, bounded
    <2>2. \A id \in IdsOf(ops[p]) : posted[id] > 0 \/ id \in gone
      BY <2>1 DEF DraftsAreSafe
    <2> QED
      BY <1>k, <1>f, <2>1, <2>2 DEF Accounted
  <1>19. ASSUME NEW p \in Procs, Crash(p) PROVE NoReplyLost'
    <2>1. /\ \A q \in Procs \ {p} : step'[q] = step[q]
          /\ UNCHANGED <<posted, raced, ops, replies>> /\ gone \subseteq gone'
      BY <1>0, <1>19 DEF Crash, Goes, change
    <2>2. step[p] \in {"stage", "save"} => IdsOf(ops[p]) \subseteq gone' \cup IdsOf(staged')
      BY <1>19 DEF Crash, file
    <2>3. staged' = staged \/ IdsOf(staged) \subseteq gone'
      BY <1>19 DEF Crash, file
    <2> QED
      BY <1>k, <1>f, <2>1, <2>2, <2>3 DEF Accounted
  <1>20. ASSUME NEW t \in Threads, Resolve(t) PROVE NoReplyLost'
    BY <1>k, <1>f, <1>20 DEF Resolve, Accounted, file, command, history
  <1>21. CASE WebDraft
    BY <1>k, <1>f, <1>21 DEF WebDraft, Accounted, file, command
  <1>22. CASE WebPublish
    <2>1. \A id \in Ids : posted[id] > 0 => posted'[id] > 0
      BY <1>0, <1>22, PostsMore DEF WebPublish, PublishAll
    <2> QED
      BY <1>r, <1>k, <1>f, <1>22, <2>1 DEF WebPublish, Accounted, file, command
  <1>23. CASE WebDelete
    BY <1>k, <1>f, <1>23 DEF WebDelete, Accounted, file, command
  <1>24. CASE UNCHANGED vars
    BY <1>k, <1>f, <1>24 DEF vars, Accounted, file, change, bounded, command, history
  <1> QED
    BY <1>1, <1>2, <1>3, <1>4, <1>5, <1>6, <1>7, <1>8, <1>9, <1>10, <1>11, <1>12, <1>13, <1>14,
       <1>15, <1>16, <1>17, <1>18, <1>19, <1>20, <1>21, <1>22, <1>23, <1>24 DEF Next, Proceeds

-----------------------------------------------------------------------------
(* The user's own draft.                                                   *)

OwnInv == LastLook /\ OwnDraftsOnly

LEMMA OwnStep ==
  ASSUME TypeOK, OwnInv, [Next]_vars
  PROVE  OwnInv'
  <1> USE DEF OwnInv, LastLook, OwnDraftsOnly
  <1>0. step \in [Procs -> Steps] /\ webDraft \in BOOLEAN
    BY DEF TypeOK
  <1>e. ASSUME NEW p \in Procs, UNCHANGED <<webDraft, late, slipped, taken>>,
               \A q \in Procs \ {p} : step'[q] = step[q], step'[p] # "publish"
        PROVE  OwnInv'
    BY <1>e
  <1>1. ASSUME NEW p \in Procs, Stage(p) PROVE OwnInv'
    BY <1>0, <1>e, <1>1 DEF Stage, Starts, Goes, change, history
  <1>2. ASSUME NEW p \in Procs, StageLoad(p) PROVE OwnInv'
    BY <1>0, <1>e, <1>2 DEF StageLoad, Goes, Untouched, change
  <1>3. ASSUME NEW p \in Procs, Load(p) PROVE OwnInv'
    BY <1>0, <1>e, <1>3 DEF Load, Starts, Goes, Untouched, change
  <1>4. ASSUME NEW p \in Procs, Save(p) PROVE OwnInv'
    BY <1>0, <1>e, <1>4 DEF Save, Goes, Untouched, change
  <1>5. ASSUME NEW p \in Procs, Clear(p) PROVE OwnInv'
    BY <1>5 DEF Clear, Untouched, change
  <1>6. ASSUME NEW p \in Procs, Push(p) PROVE OwnInv'
    BY <1>0, <1>e, <1>6 DEF Push, Starts, Goes, change
  <1>7. ASSUME NEW p \in Procs, PushRead(p) PROVE OwnInv'
    BY <1>0, <1>e, <1>7 DEF PushRead, Goes, Ends, Untouched, change, history
  <1>8. ASSUME NEW p \in Procs, Post(p) PROVE OwnInv'
    BY <1>0, <1>e, <1>8 DEF Post, Goes, Ends
  <1>9. ASSUME NEW p \in Procs, Check(p) PROVE OwnInv'
    BY <1>0, <1>e, <1>9 DEF Check, Goes, Ends, Untouched, change, history
  <1>10. ASSUME NEW p \in Procs, CreateOne(p) PROVE OwnInv'
    BY <1>0, <1>e, <1>10 DEF CreateOne, Goes, history
  <1>11. ASSUME NEW p \in Procs, CreatedAll(p) PROVE OwnInv'
    BY <1>0, <1>e, <1>11 DEF CreatedAll, Goes, Untouched, change, history
  <1>12. ASSUME NEW p \in Procs, Recheck(p) PROVE OwnInv'
    BY <1>0, <1>e, <1>12 DEF Recheck, Goes, Others, Untouched, change, history
  <1>13. ASSUME NEW p \in Procs, Publish(p) PROVE OwnInv'
    <2>1. UNCHANGED slipped /\ \A q \in Procs \ {p} : step'[q] = step[q]
      BY <1>0, <1>13 DEF Publish, Goes
    <2>2. CASE PublishAll /\ taken' = (taken \/ webDraft)
      <3>1. webDraft' = FALSE /\ step[p] = "publish"
        BY <1>13, <2>2 DEF Publish, PublishAll
      <3> QED
        BY <2>1, <2>2, <3>1
    <2>3. CASE late' \in {late, late \cup {p}} /\ UNCHANGED <<webDraft, taken>>
      BY <1>13, <2>1, <2>3 DEF Publish
    <2> QED
      BY <1>13, <2>2, <2>3 DEF Publish
  <1>14. ASSUME NEW p \in Procs, PublishLate(p) PROVE OwnInv'
    <2>1. UNCHANGED <<slipped, step>> /\ late' = late \ {p} /\ p \in late
      BY <1>14 DEF PublishLate
    <2>2. CASE PublishAll /\ taken' = (taken \/ webDraft)
      BY <2>1, <2>2 DEF PublishAll
    <2>3. CASE UNCHANGED <<webDraft, taken>>
      BY <2>1, <2>3
    <2> QED
      BY <1>14, <2>2, <2>3 DEF PublishLate
  <1>15. ASSUME NEW p \in Procs, Lookup(p) PROVE OwnInv'
    BY <1>0, <1>e, <1>15 DEF Lookup, Found, Goes, Ends, Untouched, change
  <1>16. ASSUME NEW p \in Procs, DeleteOne(p) PROVE OwnInv'
    BY <1>16 DEF DeleteOne, history
  <1>17. ASSUME NEW p \in Procs, DeletedAll(p) PROVE OwnInv'
    BY <1>0, <1>e, <1>17 DEF DeletedAll, Goes, Ends, Untouched, change, history
  <1>18. ASSUME NEW p \in Procs, PushClear(p) PROVE OwnInv'
    BY <1>0, <1>e, <1>18 DEF PushClear, Goes, Ends, Untouched, change
  <1>19. ASSUME NEW p \in Procs, Crash(p) PROVE OwnInv'
    BY <1>0, <1>e, <1>19 DEF Crash, Goes, change
  <1>20. ASSUME NEW t \in Threads, Resolve(t) PROVE OwnInv'
    BY <1>20 DEF Resolve, command, history
  <1>21. CASE WebDraft
    BY <1>21 DEF WebDraft, command
  <1>22. CASE WebPublish
    BY <1>22 DEF WebPublish, PublishAll, command
  <1>23. CASE WebDelete
    BY <1>23 DEF WebDelete, command
  <1>24. CASE UNCHANGED vars
    BY <1>24 DEF vars, change, command, history
  <1> QED
    BY <1>1, <1>2, <1>3, <1>4, <1>5, <1>6, <1>7, <1>8, <1>9, <1>10, <1>11, <1>12, <1>13, <1>14,
       <1>15, <1>16, <1>17, <1>18, <1>19, <1>20, <1>21, <1>22, <1>23, <1>24 DEF Next, Proceeds

-----------------------------------------------------------------------------
(* Every reply anywhere was staged.                                        *)

LEMMA IdsWithout ==
  ASSUME NEW l \in Seq(Op), NEW i \in DOMAIN l
  PROVE  IdsOf(Without(l, i)) \subseteq IdsOf(l)
  <1>1. DOMAIN l = 1..Len(l) /\ Len(l) \in Nat
    BY Lists
  <1>2. DOMAIN Without(l, i) = 1..Len(l) - 1
    BY DEF Without
  <1>3. \A j \in 1..Len(l) - 1 :
          \E k \in DOMAIN l : Without(l, i)[j] = l[k]
    <2> TAKE j \in 1..Len(l) - 1
    <2>1. j \in DOMAIN l /\ j + 1 \in DOMAIN l
      BY <1>1
    <2> QED
      BY <2>1 DEF Without
  <1> QED
    BY <1>2, <1>3 DEF IdsOf

LEMMA EnteredStep ==
  ASSUME TypeOK, Hands, AllEntered, [Next]_vars
  PROVE  AllEntered'
  <1>0. /\ ops \in [Procs -> Seq(Op)] /\ staged \in Seq(Op)
        /\ replies \in Nat
    BY DEF TypeOK
  <1>e. /\ IdsOf(staged) \subseteq 1..replies /\ Drafted(drafts) \subseteq 1..replies
        /\ gone \subseteq 1..replies /\ raced \subseteq 1..replies
        /\ \A p \in Procs : IdsOf(ops[p]) \subseteq 1..replies
    BY DEF AllEntered
  <1>n. IdsOf(<<>>) = {}
    BY DEF IdsOf
  <1>g. ASSUME replies' = replies, IdsOf(staged') \subseteq 1..replies,
               Drafted(drafts') \subseteq 1..replies, gone' \subseteq 1..replies,
               raced' \subseteq 1..replies, \A p \in Procs : IdsOf(ops'[p]) \subseteq 1..replies
        PROVE  AllEntered'
    BY <1>g DEF AllEntered
  <1>1. ASSUME NEW p \in Procs, Stage(p) PROVE AllEntered'
    <2>1. PICK t \in open : ops' = [ops EXCEPT ![p] = <<[id |-> replies + 1, index |-> Index(t), thread |-> t]>>]
      BY <1>1 DEF Stage, Keeps
    <2>2. UNCHANGED <<staged, drafts, gone, raced>> /\ replies' = replies + 1
      BY <1>1 DEF Stage, file, change, history
    <2>3. IdsOf(<<[id |-> replies + 1, index |-> Index(t), thread |-> t]>>) = {replies + 1}
      BY DEF IdsOf
    <2>4. 1..replies \subseteq 1..replies + 1 /\ replies + 1 \in 1..replies + 1
      BY <1>0
    <2>5. \A q \in Procs : IdsOf(ops'[q]) \subseteq 1..replies + 1
      BY <1>0, <1>e, <2>1, <2>3, <2>4
    <2> QED
      BY <1>e, <2>2, <2>4, <2>5 DEF AllEntered
  <1>2. ASSUME NEW p \in Procs, StageLoad(p) PROVE AllEntered'
    <2>1. UNCHANGED <<staged, drafts, raced, replies>>
      BY <1>2 DEF StageLoad, file, Untouched, change, bounded
    <2>2. CASE torn
      BY <1>2, <1>e, <1>g, <2>1, <2>2 DEF StageLoad
    <2>3. CASE ~torn
      <3>1. 1 \in DOMAIN ops[p] /\ ops[p][1] \in Op
        BY <1>0, <1>2, Lists DEF StageLoad, Hands
      <3>2. ops[p][1].id \in 1..replies
        BY <1>e, <3>1 DEF IdsOf
      <3>3. IdsOf(Replaced(ops[p][1])) \subseteq 1..replies
        BY <1>0, <1>e, <3>1, <3>2, ListReplaced
      <3>4. {staged[i].id : i \in SameIndex(ops[p][1])} \subseteq IdsOf(staged)
        BY DEF SameIndex, IdsOf
      <3>5. /\ ops' = [ops EXCEPT ![p] = Replaced(ops[p][1])]
            /\ gone' = gone \cup {staged[i].id : i \in SameIndex(ops[p][1])}
        BY <1>2, <2>3 DEF StageLoad, Keeps
      <3> QED
        BY <1>0, <1>e, <1>g, <2>1, <3>3, <3>4, <3>5
    <2> QED
      BY <2>2, <2>3
  <1>3. ASSUME NEW p \in Procs, Load(p) PROVE AllEntered'
    <2>1. UNCHANGED <<staged, drafts, raced, replies>>
      BY <1>3 DEF Load, file, Untouched, change, bounded
    <2>2. CASE Keeps(p, staged) /\ UNCHANGED gone
      BY <1>0, <1>e, <1>g, <2>1, <2>2 DEF Keeps
    <2>3. ASSUME NEW i \in DOMAIN staged, Keeps(p, Without(staged, i)), gone' = gone \cup {staged[i].id}
          PROVE  AllEntered'
      <3>1. staged[i].id \in IdsOf(staged) /\ IdsOf(Without(staged, i)) \subseteq IdsOf(staged)
        BY <1>0, IdsWithout DEF IdsOf
      <3> QED
        BY <1>0, <1>e, <1>g, <2>1, <2>3, <3>1 DEF Keeps
    <2> QED
      BY <1>3, <2>2, <2>3 DEF Load
  <1>4. ASSUME NEW p \in Procs, Save(p) PROVE AllEntered'
    BY <1>0, <1>e, <1>n, <1>g, <1>4 DEF Save, Keeps, Untouched, change, bounded
  <1>5. ASSUME NEW p \in Procs, Clear(p) PROVE AllEntered'
    BY <1>e, <1>n, <1>g, <1>5 DEF Clear, Untouched, change, bounded
  <1>6. ASSUME NEW p \in Procs, Push(p) PROVE AllEntered'
    BY <1>0, <1>e, <1>g, <1>6 DEF Push, Keeps, file, change
  <1>7. ASSUME NEW p \in Procs, CreateOne(p) PROVE AllEntered'
    <2>1. UNCHANGED <<staged, gone, raced, replies, ops>>
      BY <1>7 DEF CreateOne, file, bounded, history
    <2>2. PICK i \in DOMAIN ops[p] : drafts' \in {drafts, drafts \cup {[id |-> ops[p][i].id, by |-> p]}}
      BY <1>7 DEF CreateOne, NextDraft
    <2>3. ops[p][i].id \in 1..replies
      BY <1>e DEF IdsOf
    <2>4. Drafted(drafts') \subseteq 1..replies
      BY <1>e, <2>2, <2>3 DEF Drafted
    <2> QED
      BY <1>e, <1>g, <2>1, <2>4
  <1>8. ASSUME NEW p \in Procs, DeleteOne(p) PROVE AllEntered'
    BY <1>e, <1>g, <1>8 DEF DeleteOne, file, bounded, history, Drafted
  <1>9. ASSUME UNCHANGED <<staged, gone, raced, replies, ops>>, drafts' \in {drafts, {}}
        PROVE  AllEntered'
    BY <1>e, <1>g, <1>9 DEF Drafted
  <1>10. ASSUME NEW p \in Procs,
                \/ PushRead(p) \/ Post(p) \/ Check(p) \/ CreatedAll(p) \/ Recheck(p)
                \/ Publish(p) \/ PublishLate(p) \/ Lookup(p) \/ DeletedAll(p)
         PROVE  AllEntered'
    BY <1>9, <1>10
    DEF PushRead, Post, Check, CreatedAll, Recheck, Publish, PublishLate, PublishAll, Lookup, DeletedAll,
        Untouched, file, change, bounded, history
  <1>11. ASSUME NEW p \in Procs, PushClear(p) PROVE AllEntered'
    BY <1>e, <1>n, <1>g, <1>11 DEF PushClear, Clears, Untouched, change, bounded
  <1>12. ASSUME NEW p \in Procs, Crash(p) PROVE AllEntered'
    <2>1. UNCHANGED <<drafts, raced, replies, ops>> /\ staged' \in {staged, <<>>}
      BY <1>12 DEF Crash, file, change
    <2>2. gone' \subseteq gone \cup IdsOf(ops[p]) \cup IdsOf(staged)
      BY <1>12 DEF Crash
    <2> QED
      BY <1>e, <1>n, <1>g, <2>1, <2>2
  <1>13. CASE (\E t \in Threads : Resolve(t)) \/ WebDraft \/ WebPublish
    BY <1>9, <1>13 DEF Resolve, WebDraft, WebPublish, PublishAll, file, command, history
  <1>14. CASE WebDelete
    BY <1>e, <1>g, <1>14 DEF WebDelete, file, command, Drafted
  <1>15. CASE UNCHANGED vars
    BY <1>9, <1>15 DEF vars, file, change, bounded, command, history
  <1> QED
    BY <1>1, <1>2, <1>3, <1>4, <1>5, <1>6, <1>7, <1>8, <1>10, <1>11, <1>12, <1>13, <1>14, <1>15
    DEF Next, Proceeds

-----------------------------------------------------------------------------
(* The theorems.                                                           *)

LEMMA InitIInv ==
  ASSUME Init
  PROVE  IInv
  <1> USE StagedAssumption DEF Init
  <1>1. <<>> \in Seq(Op) /\ IdsOf(<<>>) = {}
    BY DEF IdsOf
  <1>2. TypeOK
    <2>1. /\ step \in [Procs -> Steps] /\ posted \in [Ids -> 0..2]
          /\ made \in [Procs -> SUBSET Draft]
          /\ said \in [Procs -> {"none", "posted", "nothing", "uncertain"}]
      BY DEF Steps
    <2>2. staged \in Seq(Op) /\ ops \in [Procs -> Seq(Op)]
      BY <1>1
    <2>3. replies \in 0..MaxReplies /\ pushes \in 0..MaxPushes /\ events \in 0..MaxEvents
      OBVIOUS
    <2> QED
      BY <2>1, <2>2, <2>3 DEF TypeOK
  <1>3. Hands
    BY DEF Hands, Pushes, Pushing
  <1>4. DraftsAreKnown /\ DraftsAreSafe /\ MessageMade
    BY DEF DraftsAreKnown, DraftsAreSafe, MessageMade, Drafting
  <1>5. PostedInv
    BY DEF PostedInv, OnePush, PushIsOver, PostedOnce, AllOrNone, Pushes, Pushing, Certain
  <1>6. NoReplyLost
    BY DEF NoReplyLost
  <1>7. OwnInv
    BY DEF OwnInv, LastLook, OwnDraftsOnly
  <1>8. AllEntered
    BY <1>1 DEF AllEntered, Drafted
  <1> QED
    BY <1>2, <1>3, <1>4, <1>5, <1>6, <1>7, <1>8 DEF IInv, PostedInv, OwnInv

LEMMA StepIInv ==
  ASSUME IInv, [Next]_vars
  PROVE  IInv'
  <1>1. TypeOK'
    BY TypeStep DEF IInv
  <1>2. Hands'
    BY HandsStep DEF IInv
  <1>3. DraftsAreKnown' /\ DraftsAreSafe' /\ MessageMade'
    BY DraftsStep DEF IInv
  <1>4. PostedInv'
    BY PostedStep DEF IInv, PostedInv
  <1>5. NoReplyLost'
    BY LostStep DEF IInv
  <1>6. OwnInv'
    BY OwnStep DEF IInv, OwnInv
  <1>7. AllEntered'
    BY EnteredStep DEF IInv
  <1> QED
    BY <1>1, <1>2, <1>3, <1>4, <1>5, <1>6, <1>7 DEF IInv, PostedInv, OwnInv

(* Every step of a command, of another one, of the web UI or of a kill     *)
(* keeps the invariant.                                                    *)
THEOREM InductiveInvariant == Spec => []IInv
  BY InitIInv, StepIInv, PTL DEF Spec

(* Every variable keeps its type: a reply that is staged in the place of   *)
(* another one, or taken out, leaves a list of replies.                    *)
THEOREM TypeCorrect == Spec => []TypeOK
  <1>1. IInv => TypeOK
    BY DEF IInv
  <1> QED
    BY InductiveInvariant, <1>1, PTL

(* A reply that is posted twice was in doubt: some push had posted it and  *)
(* lost the answer or its life, or two read it, or its draft was published *)
(* by somebody else, or a save brought it back.                            *)
THEOREM RepliesArePostedOnce == Spec => []PostedOnce
  <1>1. IInv => PostedOnce
    BY DEF IInv
  <1> QED
    BY InductiveInvariant, <1>1, PTL

(* What a push says at its end is true: it posted one message of all the   *)
(* replies it read, or none of them.                                       *)
THEOREM PushesAreAtomic == Spec => []AllOrNone
  <1>1. IInv => AllOrNone
    BY DEF IInv
  <1> QED
    BY InductiveInvariant, <1>1, PTL

(* A reply stays staged until it is posted or the user takes it out, unless*)
(* a command wrote or unlinked the file without having read it.            *)
THEOREM RepliesAreKept == Spec => []NoReplyLost
  <1>1. IInv => NoReplyLost
    BY DEF IInv
  <1> QED
    BY InductiveInvariant, <1>1, PTL

(* A push publishes a draft of the user's only if it was saved after the   *)
(* push looked for the last time.                                          *)
THEOREM OwnDraftsArePublished == Spec => []OwnDraftsOnly
  <1>1. IInv => OwnDraftsOnly
    BY DEF IInv
  <1> QED
    BY InductiveInvariant, <1>1, PTL

-----------------------------------------------------------------------------
(* Every step is one of ReplyOutbox, or shows nothing there.               *)

LEMMA KeptIs ==
  /\ \A id : id \in Kept <=>
       \/ id \in IdsOf(staged)
       \/ \E p \in Procs : step[p] \in {"stage", "save"} /\ id \in IdsOf(ops[p])
  /\ \A id : id \in Kept' <=>
       \/ id \in IdsOf(staged')
       \/ \E p \in Procs : step'[p] \in {"stage", "save"} /\ id \in IdsOf(ops'[p])
  BY DEF Kept, IdsOf

LEMMA TakenIs ==
  /\ Taken \in [Procs -> {Taken[p] : p \in Procs}]
  /\ Taken' \in [Procs -> {Taken'[p] : p \in Procs}]
  /\ \A p \in Procs : /\ step[p] \in Pushing => Taken[p] = IdsOf(ops[p])
                      /\ step[p] \notin Pushing => Taken[p] = {}
                      /\ step'[p] \in Pushing => Taken'[p] = IdsOf(ops'[p])
                      /\ step'[p] \notin Pushing => Taken'[p] = {}
  BY DEF Taken, Pushes, IdsOf

(* A push on its way keeps what it took.                                   *)
LEMMA OnItsWay ==
  ASSUME NEW p \in Procs, step[p] \in Pushing, step'[p] \in Pushing,
         \A q \in Procs \ {p} : step'[q] = step[q], UNCHANGED <<staged, ops>>
  PROVE  Taken' = Taken /\ Kept' = Kept
  <1>1. step[p] \notin {"stage", "save"} /\ step'[p] \notin {"stage", "save"}
    BY DEF Pushing
  <1>2. \A id : id \in Kept' <=> id \in Kept
    BY <1>1, KeptIs
  <1>3. \A q \in Procs : Taken'[q] = Taken[q]
    BY TakenIs
  <1>4. Taken' = Taken
    BY <1>3, TakenIs
  <1> QED
    BY <1>2, <1>4

(* One that ends lets go of it.                                            *)
LEMMA AtItsEnd ==
  ASSUME TypeOK, Hands, NEW p \in Procs, step[p] \in Pushing, step'[p] = "idle",
         \A q \in Procs \ {p} : step'[q] = step[q], UNCHANGED ops
  PROVE  /\ Taken[p] = IdsOf(ops[p]) /\ Taken[p] # {} /\ Taken' = [Taken EXCEPT ![p] = {}]
         /\ staged' = staged => Kept' = Kept
         /\ IdsOf(staged') \subseteq IdsOf(staged) =>
              Kept' \subseteq Kept /\ Kept \ Kept' \subseteq IdsOf(staged)
  <1>1. step[p] \notin {"stage", "save"} /\ step'[p] \notin {"stage", "save"} /\ step'[p] \notin Pushing
    BY DEF Pushing
  <1>2. IdsOf(ops[p]) # {}
    BY SomeIds DEF TypeOK, Hands, Pushes
  <1>3. Taken[p] = IdsOf(ops[p]) /\ Taken'[p] = {} /\ \A q \in Procs \ {p} : Taken'[q] = Taken[q]
    BY <1>1, TakenIs
  <1>4. Taken' = [Taken EXCEPT ![p] = {}]
    BY <1>3, TakenIs
  <1>5. staged' = staged => \A id : id \in Kept' <=> id \in Kept
    BY <1>1, KeptIs
  <1>6. IdsOf(staged') \subseteq IdsOf(staged) =>
          Kept' \subseteq Kept /\ Kept \ Kept' \subseteq IdsOf(staged)
    BY <1>1, KeptIs
  <1> QED
    BY <1>2, <1>3, <1>4, <1>5, <1>6

(* No push takes or lets go of anything when another command goes on.      *)
LEMMA NoPushSteps ==
  ASSUME \A q \in Procs : \/ step'[q] = step[q] /\ ops'[q] = ops[q]
                          \/ step[q] \notin Pushing /\ step'[q] \notin Pushing
  PROVE  Taken' = Taken
  <1>1. \A q \in Procs : Taken'[q] = Taken[q]
    BY TakenIs
  <1> QED
    BY <1>1, TakenIs

LEMMA NoCommandSteps ==
  ASSUME UNCHANGED <<staged, step, ops>>
  PROVE  Taken' = Taken /\ Kept' = Kept
  <1>1. Taken' = Taken
    BY NoPushSteps
  <1>2. \A id : id \in Kept' <=> id \in Kept
    BY KeptIs
  <1>3. Kept' = Kept
    BY <1>2
  <1> QED
    BY <1>1, <1>3

LEMMA StageEnters ==
  ASSUME IInv, NEW p \in Procs, Stage(p)
  PROVE  Outbox!Enter
  <1>0. /\ step \in [Procs -> Steps] /\ ops \in [Procs -> Seq(Op)]
        /\ said \in [Procs -> {"none", "posted", "nothing", "uncertain"}]
        /\ replies \in Nat /\ MaxReplies \in Nat
    BY StagedAssumption DEF IInv, TypeOK
  <1>1. PICK t \in open : ops' = [ops EXCEPT ![p] = <<[id |-> replies + 1, index |-> Index(t), thread |-> t]>>]
    BY DEF Stage, Keeps
  <1>2. /\ UNCHANGED <<staged, gone, raced, posted, messages, doubt, robbed>>
        /\ replies' = replies + 1 /\ replies < MaxReplies
        /\ said' = [said EXCEPT ![p] = "none"]
        /\ step[p] = "idle" /\ step' = [step EXCEPT ![p] = "stage"]
    BY DEF Stage, Starts, Goes, file, change, history
  <1>3. IdsOf(ops'[p]) = {replies + 1}
    <2>1. IdsOf(<<[id |-> replies + 1, index |-> Index(t), thread |-> t]>>) = {replies + 1}
      BY DEF IdsOf
    <2> QED
      BY <1>0, <1>1, <2>1
  <1>4. \A q \in Procs \ {p} : step'[q] = step[q] /\ ops'[q] = ops[q]
    BY <1>0, <1>1, <1>2
  <1>5. Taken' = Taken
    BY <1>0, <1>2, <1>4, NoPushSteps DEF Pushing
  <1>6. \A id : id \in Kept' <=> id \in Kept \cup {replies + 1}
    BY <1>0, <1>2, <1>3, <1>4, KeptIs
  <1>7. Kept' = Kept \cup {replies + 1}
    BY <1>6
  <1>8. replies + 1 \in Ids \ (1..replies) /\ 1..replies' = (1..replies) \cup {replies + 1}
    BY <1>0, <1>2 DEF Ids
  <1>9. \A q \in Procs : said'[q] \in {said[q], "none"}
    BY <1>0, <1>2
  <1> QED
    BY <1>2, <1>5, <1>7, <1>8, <1>9 DEF Outbox!Enter, Outbox!Forgets

(* What drops replies, or writes back posted ones.                         *)
LEMMA Drops ==
  ASSUME UNCHANGED <<posted, messages, replies>>, Taken' = Taken,
         \A q \in Procs : said'[q] \in {said[q], "none"},
         Kept' \subseteq Kept, gone \subseteq gone', raced \subseteq raced', AllEntered',
         \A r \in Kept \ Kept' : r \in gone' \cup raced' \/ posted[r] > 0,
         NEW rs, doubt' = doubt \cup rs, \A r \in rs : r \in Kept /\ posted[r] > 0,
         robbed \subseteq robbed'
  PROVE  Outbox!Drop
  <1>1. gone \cup raced \subseteq (gone \cup raced)' /\ (gone \cup raced)' \subseteq 1..replies
    BY DEF AllEntered
  <1>2. Outbox!Loses
    BY <1>1 DEF Outbox!Loses
  <1>3. rs \in SUBSET {r \in Kept : posted[r] > 0}
    OBVIOUS
  <1> QED
    BY <1>2, <1>3 DEF Outbox!Drop, Outbox!Forgets

LEMMA CommandsDrop ==
  ASSUME IInv, IInv', NEW p \in Procs, StageLoad(p) \/ Load(p) \/ Save(p) \/ Clear(p)
  PROVE  Outbox!Drop
  <1>0. /\ step \in [Procs -> Steps] /\ ops \in [Procs -> Seq(Op)] /\ staged \in Seq(Op)
        /\ said \in [Procs -> {"none", "posted", "nothing", "uncertain"}]
        /\ posted \in [Ids -> 0..2] /\ AllEntered' /\ IdsOf(<<>>) = {}
    BY DEF IInv, TypeOK, IdsOf
  <1>1. UNCHANGED <<posted, messages, replies, robbed>>
    BY DEF StageLoad, Load, Save, Clear, Untouched, change, bounded
  <1>2. \A q \in Procs : said'[q] \in {said[q], "none"}
    BY <1>0 DEF StageLoad, Load, Save, Clear
  <1>3. gone \subseteq gone' /\ raced \subseteq raced'
    BY DEF StageLoad, Load, Save, Clear
  <1>4. /\ \A q \in Procs \ {p} : step'[q] = step[q] /\ ops'[q] = ops[q]
        /\ step[p] \notin Pushing /\ step'[p] \notin Pushing
    BY <1>0 DEF StageLoad, Load, Save, Clear, Starts, Goes, Keeps, Pushing
  <1>5. Taken' = Taken
    BY <1>4, NoPushSteps
  <1>6. CASE StageLoad(p)
    <2>1. staged' = staged /\ doubt' = doubt /\ step[p] = "stage"
      BY <1>6 DEF StageLoad, file
    <2>2. CASE torn
      <3>1. step'[p] = "idle" /\ gone' = gone \cup IdsOf(ops[p])
        BY <1>0, <1>6, <2>2 DEF StageLoad, Goes
      <3>2. Kept' \subseteq Kept /\ \A r \in Kept \ Kept' : r \in gone'
        BY <1>4, <2>1, <3>1, KeptIs
      <3> QED
        BY <1>0, <1>1, <1>2, <1>3, <1>5, <2>1, <3>2, Drops, doubt' = doubt \cup {}
    <2>3. CASE ~torn
      <3>1. step'[p] = "save" /\ ops'[p] = Replaced(ops[p][1])
        BY <1>0, <1>6, <2>3 DEF StageLoad, Goes, Keeps
      <3>2. Len(ops[p]) = 1 /\ DOMAIN ops[p] = 1..1 /\ ops[p][1] \in Op
        BY <1>0, <2>1, Lists DEF IInv, Hands
      <3>3. IdsOf(ops[p]) = {ops[p][1].id}
        BY <3>2 DEF IdsOf
      <3>4. IdsOf(ops[p]) \subseteq IdsOf(ops'[p]) /\ IdsOf(ops'[p]) \subseteq IdsOf(staged) \cup IdsOf(ops[p])
        BY <1>0, <3>1, <3>2, <3>3, ListReplaced
      <3>5. Kept' \subseteq Kept /\ \A r \in Kept \ Kept' : r \in gone'
        BY <1>4, <2>1, <3>1, <3>4, KeptIs
      <3> QED
        BY <1>0, <1>1, <1>2, <1>3, <1>5, <2>1, <3>5, Drops, doubt' = doubt \cup {}
    <2> QED
      BY <2>2, <2>3
  <1>7. CASE Load(p)
    <2>1. staged' = staged /\ doubt' = doubt /\ step[p] = "idle"
      BY <1>7 DEF Load, Starts, file
    <2>2. IdsOf(ops'[p]) \subseteq IdsOf(staged)
      BY <1>0, <1>7, IdsWithout DEF Load, Keeps
    <2>3. Kept' \subseteq Kept /\ \A r \in Kept \ Kept' : r \in gone'
      BY <1>4, <2>1, <2>2, KeptIs
    <2> QED
      BY <1>0, <1>1, <1>2, <1>3, <1>5, <2>1, <2>3, Drops, doubt' = doubt \cup {}
  <1>8. CASE Save(p)
    <2> DEFINE rs == {id \in IdsOf(ops[p]) : posted[id] > 0}
    <2>1. /\ step[p] = "save" /\ step'[p] = "idle" /\ staged' = ops[p]
          /\ raced' = raced \cup (IdsOf(staged) \ IdsOf(ops[p])) /\ doubt' = doubt \cup rs
      BY <1>0, <1>8 DEF Save, Goes
    <2>2. Kept' \subseteq Kept /\ \A r \in Kept \ Kept' : r \in raced'
      BY <1>4, <2>1, KeptIs
    <2>3. \A r \in rs : r \in Kept /\ posted[r] > 0
      BY <2>1, KeptIs
    <2> QED
      BY <1>0, <1>1, <1>2, <1>3, <1>5, <2>1, <2>2, <2>3, Drops
  <1>9. CASE Clear(p)
    <2>1. /\ step' = step /\ ops' = ops /\ IdsOf(staged') = {} /\ gone' = gone \cup IdsOf(staged)
          /\ doubt' = doubt
      BY <1>0, <1>9 DEF Clear
    <2>2. Kept' \subseteq Kept /\ \A r \in Kept \ Kept' : r \in gone'
      BY <2>1, KeptIs
    <2> QED
      BY <1>0, <1>1, <1>2, <1>3, <1>5, <2>1, <2>2, Drops, doubt' = doubt \cup {}
  <1> QED
    BY <1>6, <1>7, <1>8, <1>9

LEMMA WebDeleteDrops ==
  ASSUME IInv', WebDelete
  PROVE  Outbox!Drop
  <1>1. UNCHANGED <<posted, messages, replies, said, doubt, step, ops, staged, raced>>
    BY DEF WebDelete, file, command
  <1>2. gone \subseteq gone' /\ robbed \subseteq robbed'
    BY DEF WebDelete
  <1>3. Taken' = Taken /\ Kept' = Kept
    BY <1>1, NoCommandSteps
  <1>4. gone \cup raced \subseteq (gone \cup raced)' /\ (gone \cup raced)' \subseteq 1..replies
    BY <1>1, <1>2 DEF IInv, AllEntered
  <1>5. Outbox!Loses /\ Outbox!Forgets
    BY <1>1, <1>3, <1>4 DEF Outbox!Loses, Outbox!Forgets
  <1>6. {} \in SUBSET {r \in Kept : posted[r] > 0} /\ doubt' = doubt \cup {}
    BY <1>1
  <1> QED
    BY <1>1, <1>2, <1>3, <1>5, <1>6 DEF Outbox!Drop

(* Not yet posted: what a push has taken, before it posts or publishes.    *)
LEMMA NotPosted ==
  ASSUME IInv, NEW p \in Procs, step[p] \in Pushing, step[p] \notin {"lookup", "clear"}
  PROVE  \A id \in IdsOf(ops[p]) \ doubt : posted[id] = 0
  <1> SUFFICES ASSUME NEW id \in IdsOf(ops[p]) \ doubt PROVE posted[id] = 0
    OBVIOUS
  <1>1. id \in Certain /\ posted[id] \in 0..2
    BY IdsAreIds DEF IInv, TypeOK, Certain
  <1>2. ~(posted[id] > 0)
    BY <1>1 DEF IInv, PushIsOver, Pushes
  <1> QED
    BY <1>1, <1>2

LEMMA PushTakes ==
  ASSUME IInv, NEW p \in Procs, Push(p)
  PROVE  Outbox!Take(p)
  <1>0. /\ step \in [Procs -> Steps] /\ ops \in [Procs -> Seq(Op)] /\ staged \in Seq(Op)
    BY DEF IInv, TypeOK
  <1>1. /\ UNCHANGED <<posted, messages, replies, gone, raced, staged>>
        /\ step[p] = "idle" /\ step' = [step EXCEPT ![p] = "read"]
        /\ ops' = [ops EXCEPT ![p] = staged] /\ staged # <<>>
        /\ said' = [q \in Procs |-> "none"] /\ robbed' = robbed \ {p}
        /\ doubt' = doubt \cup {id \in IdsOf(staged) : \E q \in Procs : Pushes(q) /\ id \in IdsOf(ops[q])}
    BY DEF Push, Starts, Goes, Keeps, file, change
  <1>2. /\ step'[p] = "read" /\ ops'[p] = staged
        /\ \A q \in Procs \ {p} : step'[q] = step[q] /\ ops'[q] = ops[q]
    BY <1>0, <1>1
  <1>3. Taken[p] = {} /\ Taken'[p] = IdsOf(staged)
    <2>1. step[p] \notin Pushing /\ step'[p] \in Pushing
      BY <1>1, <1>2 DEF Pushing
    <2> QED
      BY <1>2, <2>1, TakenIs
  <1>4. \A q \in Procs \ {p} : Taken'[q] = Taken[q]
    BY <1>2, TakenIs
  <1>5. Taken' = [Taken EXCEPT ![p] = IdsOf(staged)]
    BY <1>3, <1>4, TakenIs
  <1>6. \A id : id \in Kept' <=> id \in Kept
    BY <1>1, <1>2, KeptIs
  <1>7. IdsOf(staged) \in (SUBSET Kept) \ {{}}
    BY <1>0, <1>1, SomeIds DEF Kept
  <1>8. \A q \in Procs : \A id : id \in Taken[q] <=> Pushes(q) /\ id \in IdsOf(ops[q])
    BY DEF Taken
  <1>9. doubt' = doubt \cup {r \in IdsOf(staged) : \E q \in Procs : r \in Taken[q]}
    <2>1. {id \in IdsOf(staged) : \E q \in Procs : Pushes(q) /\ id \in IdsOf(ops[q])}
            = {r \in IdsOf(staged) : \E q \in Procs : r \in Taken[q]}
      BY <1>8
    <2> QED
      BY <1>1, <2>1
  <1>10. Kept' = Kept
    BY <1>6
  <1>11. \A q \in Procs : said'[q] \in {said[q], "none"}
    BY <1>1
  <1> QED
    BY <1>1, <1>3, <1>5, <1>7, <1>9, <1>10, <1>11 DEF Outbox!Take, Outbox!Forgets

LEMMA PushReportsNothing ==
  ASSUME IInv, NEW p \in Procs, step[p] \in Pushing, step[p] \notin {"lookup", "clear"},
         Ends(p, "nothing"), UNCHANGED <<staged, ops, replies, posted, messages, gone, raced, doubt, robbed>>
  PROVE  Outbox!ReportNothing(p)
  <1>1. step'[p] = "idle" /\ \A q \in Procs \ {p} : step'[q] = step[q]
    BY DEF Ends, Goes, IInv, TypeOK
  <1>2. Taken[p] = IdsOf(ops[p]) /\ Taken[p] # {} /\ Taken' = [Taken EXCEPT ![p] = {}] /\ Kept' = Kept
    BY <1>1, AtItsEnd DEF IInv
  <1>3. \A r \in Taken[p] \ doubt' : posted[r] = 0
    BY <1>2, NotPosted
  <1> QED
    BY <1>2, <1>3 DEF Outbox!ReportNothing, Outbox!Reports, Outbox!Unposted, Ends

(* One review is posted, or none.                                          *)
LEMMA PostDelivers ==
  ASSUME IInv, NEW p \in Procs, Post(p)
  PROVE  Outbox!Deliver(p) \/ Outbox!DeliverUnheard(p) \/ Outbox!ReportNothing(p)
  <1>0. /\ step \in [Procs -> Steps] /\ ops \in [Procs -> Seq(Op)] /\ TypeOK /\ Hands
    BY DEF IInv, TypeOK
  <1>1. /\ step[p] = "post" /\ step[p] \in Pushing
        /\ UNCHANGED <<staged, ops, replies, gone, raced, robbed>>
    BY DEF Post, Pushing, file, bounded
  <1>2. Taken[p] = IdsOf(ops[p]) /\ Taken[p] # {}
    BY <1>0, <1>1, SomeIds, TakenIs DEF Hands, Pushes
  <1>3. ASSUME Posts(IdsOf(ops[p])), \A r \in Taken[p] \ doubt' : posted[r] = 0
        PROVE  Outbox!Posts(Taken[p])
    BY <1>2, <1>3 DEF Posts, Outbox!Posts, Outbox!Unposted
  <1>4. CASE Posts(IdsOf(ops[p])) /\ Goes(p, "clear") /\ UNCHANGED <<said, doubt>>
    <2>1. step'[p] = "clear" /\ \A q \in Procs \ {p} : step'[q] = step[q]
      BY <1>0, <1>4 DEF Goes
    <2>2. Taken' = Taken /\ Kept' = Kept
      BY <1>1, <2>1, OnItsWay DEF Pushing
    <2>3. Outbox!Posts(Taken[p])
      BY <1>1, <1>2, <1>3, <1>4, NotPosted
    <2> QED
      BY <1>1, <1>2, <1>4, <2>2, <2>3 DEF Outbox!Deliver
  <1>5. CASE Posts(IdsOf(ops[p])) /\ Ends(p, "nothing") /\ doubt' = doubt \cup IdsOf(ops[p])
    <2>1. step'[p] = "idle" /\ \A q \in Procs \ {p} : step'[q] = step[q]
      BY <1>0, <1>5 DEF Ends, Goes
    <2>2. Taken' = [Taken EXCEPT ![p] = {}] /\ Kept' = Kept
      BY <1>0, <1>1, <2>1, AtItsEnd
    <2>3. Outbox!Posts(Taken[p])
      BY <1>2, <1>3, <1>5
    <2> QED
      BY <1>1, <1>2, <1>5, <2>2, <2>3 DEF Outbox!DeliverUnheard, Outbox!Reports, Ends
  <1>6. CASE Ends(p, "nothing") /\ UNCHANGED <<posted, messages, doubt>>
    BY <1>1, <1>6, PushReportsNothing
  <1> QED
    BY <1>4, <1>5, <1>6 DEF Post

(* All drafts of the account are posted: some were not the push's that     *)
(* posts them, and then they are in doubt.                                 *)
LEMMA Muddles ==
  ASSUME IInv, PublishAll, UNCHANGED <<said, replies, gone, raced>>, Kept' = Kept, Taken' = Taken,
         robbed \subseteq robbed', doubt \subseteq doubt', doubt' \subseteq doubt \cup Drafted(drafts),
         \A r \in Drafted(drafts) \ doubt' : posted[r] = 0,
         \/ Drafted(drafts) \subseteq doubt'
         \/ \E p \in Procs : p \in robbed' /\ Drafted(drafts) \subseteq doubt' \cup Taken[p]
  PROVE  Outbox!Muddle
  <1>1. Drafted(drafts) \in SUBSET (1..replies)
    BY DEF IInv, AllEntered
  <1>2. Outbox!Posts(Drafted(drafts))
    BY DEF PublishAll, Posts, Outbox!Posts, Outbox!Unposted
  <1> QED
    BY <1>1, <1>2 DEF Outbox!Muddle

LEMMA PublishDelivers ==
  ASSUME IInv, NEW p \in Procs, Publish(p)
  PROVE  Outbox!Deliver(p) \/ Outbox!Muddle \/ UNCHANGED Outbox!vars
  <1>0. /\ step \in [Procs -> Steps] /\ ops \in [Procs -> Seq(Op)] /\ TypeOK /\ Hands
        /\ DraftsAreKnown /\ MessageMade
    BY DEF IInv, TypeOK
  <1>1. /\ step[p] = "publish" /\ step[p] \in Pushing
        /\ UNCHANGED <<staged, ops, said, replies, gone, raced>>
    BY DEF Publish, Pushing, file, bounded
  <1>2. step'[p] \in {"clear", "lookup"} /\ \A q \in Procs \ {p} : step'[q] = step[q]
    BY <1>0 DEF Publish, Goes
  <1>3. Taken' = Taken /\ Kept' = Kept
    BY <1>1, <1>2, OnItsWay DEF Pushing
  <1>4. Taken[p] = IdsOf(ops[p]) /\ Taken[p] # {}
    BY <1>0, <1>1, SomeIds, TakenIs DEF Hands, Pushes
  <1>5. CASE UNCHANGED <<drafts, webDraft, posted, messages, robbed, taken, doubt>>
    BY <1>1, <1>3, <1>5 DEF Outbox!vars
  <1>6. CASE /\ PublishAll
             /\ robbed' = IF Owners \subseteq {p} THEN robbed ELSE robbed \cup Owners \cup {p}
             /\ doubt' = doubt \cup {d.id : d \in {x \in drafts : x.by # p}}
    <2>1. \A d \in drafts : d.by = p => d.id \in Taken[p]
      BY <1>0, <1>1, <1>4 DEF DraftsAreKnown, Drafting, Hands
    <2>2. /\ Drafted(drafts) \subseteq doubt' \cup Taken[p]
          /\ doubt' \subseteq doubt \cup Drafted(drafts)
      BY <1>6, <2>1 DEF Drafted
    <2>3. \A r \in Drafted(drafts) \ doubt' : posted[r] = 0
      BY <1>1, <1>4, <1>6, <2>2, NotPosted
    <2>4. CASE p \in robbed'
      <3>1. robbed \subseteq robbed' /\ doubt \subseteq doubt'
        BY <1>6
      <3> QED
        BY <1>1, <1>3, <1>6, <2>2, <2>3, <2>4, <3>1, Muddles
    <2>5. CASE p \notin robbed'
      <3>1. Owners \subseteq {p} /\ p \notin robbed /\ robbed' = robbed
        BY <1>6, <2>5
      <3>2. \A d \in drafts : d.by = p
        BY <3>1 DEF Owners
      <3>3. doubt' = doubt
        BY <1>6, <3>2
      <3>4. made[p] \subseteq drafts
        BY <1>0, <1>1, <3>1 DEF MessageMade
      <3>5. IdsOf(ops[p]) \subseteq Drafted(drafts)
        BY <1>0, <1>1, <3>4 DEF DraftsAreKnown, Drafted
      <3>6. Drafted(drafts) = Taken[p]
        BY <1>4, <2>1, <3>2, <3>5 DEF Drafted
      <3>7. Outbox!Posts(Taken[p])
        BY <1>4, <1>6, <2>3, <3>6 DEF PublishAll, Posts, Outbox!Posts, Outbox!Unposted
      <3> QED
        BY <1>1, <1>3, <1>4, <3>1, <3>3, <3>7 DEF Outbox!Deliver
    <2> QED
      BY <2>4, <2>5
  <1> QED
    BY <1>5, <1>6 DEF Publish

LEMMA PublishLateMuddles ==
  ASSUME IInv, NEW p \in Procs, PublishLate(p)
  PROVE  Outbox!Muddle \/ UNCHANGED Outbox!vars
  <1>1. UNCHANGED <<staged, step, ops, said, replies, gone, raced>>
    BY DEF PublishLate, file, bounded
  <1>2. Taken' = Taken /\ Kept' = Kept
    BY <1>1, NoCommandSteps
  <1>3. CASE PublishAll /\ robbed' = robbed \cup Owners /\ doubt' = doubt \cup Drafted(drafts)
    BY <1>1, <1>2, <1>3, Muddles
  <1>4. CASE UNCHANGED <<drafts, webDraft, posted, messages, robbed, taken, doubt>>
    BY <1>1, <1>2, <1>4 DEF Outbox!vars
  <1> QED
    BY <1>3, <1>4 DEF PublishLate

LEMMA WebPublishMuddles ==
  ASSUME IInv, WebPublish
  PROVE  Outbox!Muddle
  <1>1. /\ UNCHANGED <<staged, step, ops, said, replies, gone, raced>>
        /\ PublishAll /\ robbed' = robbed \cup Owners /\ doubt' = doubt \cup Drafted(drafts)
    BY DEF WebPublish, file, command
  <1>2. Taken' = Taken /\ Kept' = Kept
    BY <1>1, NoCommandSteps
  <1> QED
    BY <1>1, <1>2, Muddles

LEMMA ClearReports ==
  ASSUME IInv, IInv', NEW p \in Procs, PushClear(p)
  PROVE  Outbox!ReportPosted(p)
  <1>0. TypeOK /\ Hands /\ step \in [Procs -> Steps] /\ AllEntered' /\ IdsOf(<<>>) = {}
    BY DEF IInv, TypeOK, IdsOf
  <1>1. /\ step[p] = "clear" /\ step[p] \in Pushing
        /\ UNCHANGED <<ops, posted, messages, replies, gone, doubt, robbed>>
        /\ staged' = <<>> /\ raced' = raced \cup (IdsOf(staged) \ IdsOf(ops[p]))
        /\ said' = [said EXCEPT ![p] = "posted"]
    BY DEF PushClear, Clears, Ends, Untouched, change, bounded, Pushing
  <1>2. step'[p] = "idle" /\ \A q \in Procs \ {p} : step'[q] = step[q]
    BY <1>0 DEF PushClear, Ends, Goes
  <1>3. /\ Taken[p] = IdsOf(ops[p]) /\ Taken[p] # {} /\ Taken' = [Taken EXCEPT ![p] = {}]
        /\ Kept' \subseteq Kept /\ Kept \ Kept' \subseteq IdsOf(staged)
    BY <1>0, <1>1, <1>2, AtItsEnd
  <1>4. Taken[p] \in messages \/ p \in robbed
    BY <1>1, <1>3 DEF IInv, MessageMade
  <1>5. \A r \in Kept \ Kept' : r \in gone' \cup raced' \/ posted[r] > 0
    <2>1. \A id \in IdsOf(ops[p]) : posted[id] > 0 \/ id \in gone
      BY <1>1 DEF IInv, DraftsAreSafe
    <2> QED
      BY <1>1, <1>3, <2>1
  <1>6. gone \cup raced \subseteq (gone \cup raced)' /\ (gone \cup raced)' \subseteq 1..replies
    BY <1>0, <1>1 DEF AllEntered
  <1>7. Outbox!Loses
    BY <1>3, <1>5, <1>6 DEF Outbox!Loses
  <1> QED
    BY <1>1, <1>3, <1>4, <1>7 DEF Outbox!ReportPosted, Outbox!Reports

(* A push that looks what became of its publish call.                      *)
LEMMA LookupReports ==
  ASSUME IInv, NEW p \in Procs, Lookup(p)
  PROVE  Outbox!ReportUncertain(p) \/ UNCHANGED Outbox!vars
  <1>0. TypeOK /\ Hands /\ step \in [Procs -> Steps]
    BY DEF IInv, TypeOK
  <1>1. /\ step[p] = "lookup" /\ step[p] \in Pushing
        /\ UNCHANGED <<staged, ops, posted, messages, replies, gone, raced, robbed>>
    BY DEF Lookup, Untouched, file, change, bounded, Pushing
  <1>2. CASE Found(p)
    <2>1. step'[p] \in {"clear", "delete"} /\ \A q \in Procs \ {p} : step'[q] = step[q]
      BY <1>0, <1>2 DEF Found, Goes
    <2>2. Taken' = Taken /\ Kept' = Kept
      BY <1>1, <2>1, OnItsWay DEF Pushing
    <2> QED
      BY <1>1, <1>2, <2>2 DEF Found, Outbox!vars
  <1>3. CASE Ends(p, "uncertain") /\ doubt' = doubt \cup IdsOf(ops[p])
    <2>1. step'[p] = "idle" /\ \A q \in Procs \ {p} : step'[q] = step[q]
      BY <1>0, <1>3 DEF Ends, Goes
    <2>2. Taken[p] = IdsOf(ops[p]) /\ Taken[p] # {} /\ Taken' = [Taken EXCEPT ![p] = {}] /\ Kept' = Kept
      BY <1>0, <1>1, <2>1, AtItsEnd
    <2> QED
      BY <1>1, <1>3, <2>2 DEF Outbox!ReportUncertain, Outbox!Reports, Ends
  <1> QED
    BY <1>2, <1>3 DEF Lookup

(* A push that goes on, or refuses.                                        *)
LEMMA PushGoesOnOrRefuses ==
  ASSUME IInv, NEW p \in Procs,
         \/ PushRead(p) \/ Check(p) \/ CreateOne(p) \/ CreatedAll(p) \/ Recheck(p)
         \/ DeleteOne(p) \/ DeletedAll(p)
  PROVE  Outbox!ReportNothing(p) \/ UNCHANGED Outbox!vars
  <1>0. step \in [Procs -> Steps]
    BY DEF IInv, TypeOK
  <1>1. /\ step[p] \in Pushing /\ step[p] \notin {"lookup", "clear"}
        /\ UNCHANGED <<staged, ops, replies, posted, messages, gone, raced, doubt, robbed>>
    BY DEF PushRead, Check, CreateOne, CreatedAll, Recheck, DeleteOne, DeletedAll,
           Untouched, file, change, bounded, history, Pushing
  <1>2. CASE Ends(p, "nothing")
    BY <1>1, <1>2, PushReportsNothing
  <1>3. CASE UNCHANGED said /\ (UNCHANGED step \/ \E s \in Pushing : Goes(p, s))
    <2>1. step'[p] \in Pushing /\ \A q \in Procs \ {p} : step'[q] = step[q]
      BY <1>0, <1>1, <1>3 DEF Goes
    <2>2. Taken' = Taken /\ Kept' = Kept
      BY <1>1, <2>1, OnItsWay
    <2> QED
      BY <1>1, <1>3, <2>2 DEF Outbox!vars
  <1>4. "post" \in Pushing /\ "check" \in Pushing /\ "create" \in Pushing /\ "recheck" \in Pushing
        /\ "publish" \in Pushing /\ "delete" \in Pushing
    BY DEF Pushing
  <1>5. Ends(p, "nothing") \/ (UNCHANGED said /\ (UNCHANGED step \/ \E s \in Pushing : Goes(p, s)))
    <2>1. CASE PushRead(p)
      <3>1. (IF OnePatchset(p) THEN "post" ELSE "check") \in Pushing
        BY <1>4
      <3> QED
        BY <2>1, <3>1 DEF PushRead
    <2>2. CASE Check(p) \/ CreatedAll(p) \/ Recheck(p) \/ DeletedAll(p)
      BY <1>4, <2>2 DEF Check, CreatedAll, Recheck, DeletedAll
    <2>3. CASE CreateOne(p) \/ DeleteOne(p)
      BY <1>4, <2>3 DEF CreateOne, DeleteOne
    <2> QED
      BY <2>1, <2>2, <2>3
  <1> QED
    BY <1>2, <1>3, <1>5

LEMMA CrashDies ==
  ASSUME IInv, IInv', NEW p \in Procs, Crash(p)
  PROVE  Outbox!Die(p) \/ Outbox!Drop
  <1>0. TypeOK /\ Hands /\ step \in [Procs -> Steps] /\ AllEntered' /\ IdsOf(<<>>) = {}
        /\ said \in [Procs -> {"none", "posted", "nothing", "uncertain"}]
    BY DEF IInv, TypeOK, IdsOf
  <1>1. /\ UNCHANGED <<ops, said, posted, messages, replies, raced, robbed>>
        /\ step[p] # "idle" /\ step'[p] = "idle" /\ \A q \in Procs \ {p} : step'[q] = step[q]
    BY <1>0 DEF Crash, Goes, change
  <1>2. doubt' = IF step[p] \in {"publish", "lookup", "clear"} THEN doubt \cup IdsOf(ops[p]) ELSE doubt
    BY DEF Crash
  <1>3. CASE step[p] \in Pushing
    <2>1. UNCHANGED <<staged, gone>>
      BY <1>3 DEF Crash, file, Pushing
    <2>2. Taken[p] = IdsOf(ops[p]) /\ Taken[p] # {} /\ Taken' = [Taken EXCEPT ![p] = {}] /\ Kept' = Kept
      BY <1>0, <1>1, <1>3, <2>1, AtItsEnd
    <2>3. \A r \in Taken[p] \ doubt' : posted[r] = 0
      <3>1. CASE step[p] \in {"publish", "lookup", "clear"}
        BY <1>2, <2>2, <3>1
      <3>2. CASE step[p] \notin {"publish", "lookup", "clear"}
        BY <1>2, <1>3, <2>2, <3>2, NotPosted
      <3> QED
        BY <3>1, <3>2
    <2>4. doubt' \in {doubt, doubt \cup Taken[p]}
      BY <1>2, <2>2
    <2>5. said' = [said EXCEPT ![p] = said[p]]
      BY <1>0, <1>1
    <2> QED
      BY <1>1, <2>1, <2>2, <2>3, <2>4, <2>5 DEF Outbox!Die, Outbox!Reports, Outbox!Unposted
  <1>4. CASE step[p] \notin Pushing
    <2>1. step[p] \in {"stage", "save"} /\ doubt' = doubt \cup {}
      BY <1>0, <1>1, <1>2, <1>4 DEF Steps, Pushing
    <2>2. Taken' = Taken
      BY <1>1, <1>4, NoPushSteps DEF Pushing
    <2>3. /\ gone \subseteq gone' /\ IdsOf(ops[p]) \ IdsOf(staged) \subseteq gone'
          /\ staged' = staged \/ (IdsOf(staged') = {} /\ IdsOf(staged) \subseteq gone')
      BY <1>0, <2>1 DEF Crash, file
    <2>4. Kept' \subseteq Kept /\ \A r \in Kept \ Kept' : r \in gone'
      BY <1>1, <2>1, <2>3, KeptIs
    <2> QED
      BY <1>0, <1>1, <2>1, <2>2, <2>3, <2>4, Drops
  <1> QED
    BY <1>3, <1>4

LEMMA OutboxStep ==
  ASSUME IInv, IInv', [Next]_vars
  PROVE  [Outbox!Next]_(Outbox!vars)
  <1>1. ASSUME NEW p \in Procs, \/ Stage(p) \/ Load(p) \/ Clear(p) \/ Push(p)
                                \/ Proceeds(p) \/ PublishLate(p) \/ Crash(p)
        PROVE  [Outbox!Next]_(Outbox!vars)
    <2>1. CASE Stage(p) \/ StageLoad(p) \/ Load(p) \/ Save(p) \/ Clear(p)
      BY <2>1, StageEnters, CommandsDrop DEF Outbox!Next
    <2>2. CASE Push(p) \/ Post(p) \/ Publish(p) \/ PublishLate(p)
      BY <2>2, PushTakes, PostDelivers, PublishDelivers, PublishLateMuddles DEF Outbox!Next
    <2>3. CASE \/ PushRead(p) \/ Check(p) \/ CreateOne(p) \/ CreatedAll(p) \/ Recheck(p)
               \/ DeleteOne(p) \/ DeletedAll(p)
      BY <2>3, PushGoesOnOrRefuses DEF Outbox!Next
    <2>4. CASE Lookup(p) \/ PushClear(p) \/ Crash(p)
      BY <2>4, LookupReports, ClearReports, CrashDies DEF Outbox!Next
    <2> QED
      BY <1>1, <2>1, <2>2, <2>3, <2>4 DEF Proceeds
  <1>2. CASE WebPublish \/ WebDelete
    BY <1>2, WebPublishMuddles, WebDeleteDrops DEF Outbox!Next
  <1>3. CASE (\E t \in Threads : Resolve(t)) \/ WebDraft \/ UNCHANGED vars
    <2>1. UNCHANGED <<staged, step, ops, said, replies, posted, messages, gone, raced, doubt, robbed>>
      BY <1>3 DEF Resolve, WebDraft, vars, file, change, bounded, command, history
    <2>2. Taken' = Taken /\ Kept' = Kept
      BY <2>1, NoCommandSteps
    <2> QED
      BY <2>1, <2>2 DEF Outbox!vars
  <1> QED
    BY <1>1, <1>2, <1>3 DEF Next

(* Staging and pushing keep the promise of ReplyOutbox, for any number of  *)
(* commands at a time, replies, threads and failures: a push posts what it *)
(* took together or not at all and says which (cmd_push), and nothing      *)
(* posted is posted again unless the outbox has it in doubt.               *)
THEOREM PushesImplementOutbox == Spec => ImplementsOutbox
  <1>1. Init => Outbox!Init
    <2> SUFFICES ASSUME Init PROVE Outbox!Init
      OBVIOUS
    <2>1. 1..replies = {} /\ gone \cup raced = {}
      BY DEF Init
    <2>2. Kept = {}
      BY KeptIs DEF Init, IdsOf
    <2>3. Taken = [p \in Procs |-> {}]
      BY DEF Init, Taken, Pushes, Pushing
    <2> QED
      BY <2>1, <2>2, <2>3 DEF Init, Outbox!Init
  <1>2. IInv /\ IInv' /\ [Next]_vars => [Outbox!Next]_(Outbox!vars)
    BY OutboxStep
  <1> QED
    BY <1>1, <1>2, InductiveInvariant, PTL DEF Spec, ImplementsOutbox, Outbox!Spec
=============================================================================
