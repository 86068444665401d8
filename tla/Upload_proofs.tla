---------------------------- MODULE Upload_proofs ----------------------------
(***************************************************************************)
(* Proofs about Upload, for ranges of any length, any kinds of commits, any*)
(* number of uploads and of patches made meanwhile.                        *)
(***************************************************************************)
EXTENDS Upload, SequenceTheorems, TLAPS

(* Commits.                                                                *)

LEMMA Parts ==
  ASSUME NEW x \in Commit
  PROVE  /\ x \in Seq(Patch) /\ x # NoCommit
         /\ Len(x) \in Nat \ {0} /\ Len(x) \in 1..Len(x)
         /\ x \in [1..Len(x) -> Patch] /\ DOMAIN x = 1..Len(x)
         /\ \A k \in 1..Len(x) : x[k] \in Patch
         /\ Tip(x) \in Patch /\ Tip(x) = x[Len(x)]
  <1>1. x \in Seq(Patch) /\ x # <<>>
    BY DEF Commit
  <1>2. Len(x) \in Nat \ {0}
    BY <1>1, EmptySeq, LenProperties
  <1>3. x \in [1..Len(x) -> Patch] /\ DOMAIN x = 1..Len(x)
    BY <1>1, LenProperties
  <1> QED
    BY <1>1, <1>2, <1>3 DEF Tip, NoCommit

LEMMA Made ==
  ASSUME NEW n \in Nat \ {0}, NEW x \in [1..n -> Patch]
  PROVE  x \in Commit /\ Len(x) = n
  <1>1. x \in Seq(Patch) /\ Len(x) = n
    BY IsASeq, LenProperties
  <1> QED
    BY <1>1, EmptySeq DEF Commit

LEMMA Prefix ==
  ASSUME NEW x \in Commit, NEW k \in 1..Len(x)
  PROVE  /\ UpTo(x, k) \in Commit
         /\ Len(UpTo(x, k)) = k
         /\ \A j \in 1..k : UpTo(x, k)[j] = x[j]
         /\ Tip(UpTo(x, k)) = x[k]
  <1>1. x \in Seq(Patch) /\ Len(x) \in Nat
    BY Parts
  <1>2. 1 \in 1..Len(x) + 1 /\ k \in 0..Len(x) /\ k \in Nat \ {0}
    BY <1>1
  <1>3. /\ UpTo(x, k) \in Seq(Patch)
        /\ Len(UpTo(x, k)) = k
        /\ \A j \in 1..k : UpTo(x, k)[j] = x[j]
    BY <1>1, <1>2, SubSeqProperties DEF UpTo
  <1> QED
    BY <1>2, <1>3, EmptySeq DEF Commit, Tip

LEMMA Full ==
  ASSUME NEW x \in Commit
  PROVE  UpTo(x, Len(x)) = x
  BY Parts, SubSeqFull DEF UpTo

(* A chain is the beginning of another one if their patches are.           *)
LEMMA Beginning ==
  ASSUME NEW x \in Commit, NEW y \in Commit, Len(y) \in 1..Len(x),
         \A j \in 1..Len(y) : y[j] = x[j]
  PROVE  y = UpTo(x, Len(y))
  <1>1. /\ y \in Seq(Patch) /\ UpTo(x, Len(y)) \in Seq(Patch)
        /\ Len(UpTo(x, Len(y))) = Len(y)
        /\ \A j \in 1..Len(y) : UpTo(x, Len(y))[j] = y[j]
    BY Prefix, Parts
  <1> QED
    BY ONLY <1>1, SeqEqual

LEMMA Extended ==
  ASSUME NEW x \in Commit, NEW p \in Patch
  PROVE  /\ Append(x, p) \in Commit
         /\ Len(Append(x, p)) = Len(x) + 1
         /\ \A j \in 1..Len(x) : Append(x, p)[j] = x[j]
         /\ Append(x, p)[Len(x) + 1] = p
         /\ Tip(Append(x, p)) = p
  <1>1. x \in Seq(Patch) /\ Len(x) \in Nat
    BY Parts
  <1>2. /\ Append(x, p) \in Seq(Patch)
        /\ Len(Append(x, p)) = Len(x) + 1
        /\ \A j \in 1..Len(x) : Append(x, p)[j] = x[j]
        /\ Append(x, p)[Len(x) + 1] = p
    BY <1>1, AppendProperties
  <1> QED
    BY <1>1, <1>2, EmptySeq DEF Commit, Tip

(* The last patch replaced.                                                *)
WithTip(x, p) == [x EXCEPT ![Len(x)] = p]

LEMMA Retipped ==
  ASSUME NEW x \in Commit, NEW p \in Patch
  PROVE  /\ WithTip(x, p) \in Commit
         /\ Len(WithTip(x, p)) = Len(x)
         /\ \A j \in 1..Len(x) - 1 : WithTip(x, p)[j] = x[j]
         /\ Tip(WithTip(x, p)) = p
  <1> DEFINE z == WithTip(x, p)
  <1>1. x \in Seq(Patch) /\ Len(x) \in Nat \ {0} /\ Len(x) \in 1..Len(x)
    BY Parts
  <1>2. /\ z \in Seq(Patch) /\ Len(z) = Len(x)
        /\ \A j \in 1..Len(x) : z[j] = IF j = Len(x) THEN p ELSE x[j]
    BY <1>1, ExceptSeq DEF WithTip
  <1> HIDE DEF z
  <1>3. z # <<>>
    BY <1>1, <1>2, EmptySeq
  <1>4. z[Len(x)] = p
    BY <1>1, <1>2
  <1>5. \A j \in 1..Len(x) - 1 : z[j] = x[j]
    BY <1>1, <1>2
  <1>6. z \in Commit /\ Tip(z) = p
    BY <1>2, <1>3, <1>4 DEF Commit, Tip
  <1> QED
    BY <1>2, <1>5, <1>6 DEF z

LEMMA SameLength ==
  ASSUME NEW x \in Commit, NEW y \in Commit, Trees(x) = Trees(y)
  PROVE  Len(x) = Len(y) /\ \A k \in 1..Len(x) : x[k].tree = y[k].tree
  <1>1. Len(x) \in Nat \ {0} /\ Len(y) \in Nat \ {0}
    BY Parts
  <1>2. DOMAIN Trees(x) = 1..Len(x) /\ DOMAIN Trees(y) = 1..Len(y)
    BY DEF Trees
  <1>3. 1..Len(x) = 1..Len(y)
    BY <1>2
  <1>4. Len(x) = Len(y)
    BY <1>1, <1>3
  <1> QED
    BY <1>4 DEF Trees

(* The patchsets of a change.                                              *)
LEMMA CurrentCommit ==
  ASSUME patchsets \in [Changes -> Seq(Commit)], NEW c \in Changes, patchsets[c] # <<>>
  PROVE  Current(c) \in Commit
  <1>1. patchsets[c] \in Seq(Commit) /\ Len(patchsets[c]) \in Nat \ {0}
    BY EmptySeq, LenProperties
  <1>2. Len(patchsets[c]) \in 1..Len(patchsets[c])
    BY <1>1
  <1> QED
    BY <1>1, <1>2, ElementOfSeq DEF Current, Tip

LEMMA NewPatchset ==
  ASSUME NEW s \in Seq(Commit), NEW x \in Commit
  PROVE  Append(s, x) \in Seq(Commit) /\ Append(s, x) # <<>> /\ Tip(Append(s, x)) = x
  <1>1. Append(s, x) \in Seq(Commit) /\ Len(Append(s, x)) = Len(s) + 1 /\ Append(s, x)[Len(s) + 1] = x
    BY AppendProperties
  <1> QED
    BY <1>1, EmptySeq, LenProperties DEF Tip

(* A change gets a patchset, the other ones keep theirs.                   *)
LEMMA AddedOne ==
  ASSUME patchsets \in [Changes -> Seq(Commit)], NEW c \in Changes, NEW x \in Commit,
         patchsets' = Added(c, x)
  PROVE  /\ patchsets' \in [Changes -> Seq(Commit)]
         /\ patchsets'[c] # <<>> /\ Current(c)' = x
         /\ \A d \in Changes \ {c} : patchsets'[d] = patchsets[d] /\ Current(d)' = Current(d)
         /\ \A d \in Changes : patchsets[d] # <<>> => patchsets'[d] # <<>>
  <1>1. patchsets' = [patchsets EXCEPT ![c] = Append(patchsets[c], x)]
    BY DEF Added
  <1>2. Append(patchsets[c], x) \in Seq(Commit) /\ Append(patchsets[c], x) # <<>>
        /\ Tip(Append(patchsets[c], x)) = x
    BY NewPatchset
  <1> QED
    BY <1>1, <1>2 DEF Current

-----------------------------------------------------------------------------
(* The checks.                                                             *)

LEMMA UnknownPlaces ==
  ASSUME NEW x \in Commit
  PROVE  /\ Unknown(x) \subseteq 1..Len(x)
         /\ \A k \in Unknown(x) : k..Len(x) \subseteq Unknown(x)
  <1>1. Len(x) \in Nat
    BY Parts
  <1>2. ASSUME NEW k \in Unknown(x), NEW j \in k..Len(x), j \in Known(x)
        PROVE  FALSE
    <2>1. PICK i \in j..Len(x) : \E c \in Changes : \E n \in 1..Len(patchsets[c]) :
                                    patchsets[c][n] = UpTo(x, i)
      BY <1>2 DEF Known
    <2>2. k \in 1..Len(x) /\ i \in k..Len(x)
      BY <1>1, <1>2, <2>1 DEF Unknown
    <2>3. k \in Known(x)
      BY <2>1, <2>2 DEF Known
    <2> QED
      BY <2>3 DEF Unknown
  <1>3. Unknown(x) \subseteq 1..Len(x)
    BY DEF Unknown
  <1>4. ASSUME NEW k \in Unknown(x), NEW j \in k..Len(x) PROVE j \in Unknown(x)
    <2>1. k \in 1..Len(x)
      BY <1>3
    <2>2. j \in 1..Len(x)
      BY <1>1, <2>1
    <2> QED
      BY <1>2, <2>2 DEF Unknown
  <1> QED
    BY <1>3, <1>4

LEMMA CopiedCommit ==
  ASSUME NEW x \in Commit, NEW rewrites, NEW also, uploads \in 0..MaxUploads
  PROVE  LET z == Copied(x, rewrites, also)
         IN /\ z \in Commit /\ Len(z) = Len(x) /\ SameTrees(x, z)
            /\ \A k \in 1..Len(x) :
                 /\ z[k].change = x[k].change
                 /\ z[k].made = IF k \in rewrites THEN uploads ELSE x[k].made
                 /\ z[k].as \in {x[k].as, "account"}
  <1> DEFINE z == Copied(x, rewrites, also)
  <1>1. Len(x) \in Nat \ {0} /\ \A k \in 1..Len(x) : x[k] \in Patch
    BY Parts
  <1>2. z = [k \in 1..Len(x) |-> IF k \notin rewrites THEN x[k]
               ELSE [x[k] EXCEPT !.made = uploads, !.as = IF k \in also THEN "account" ELSE @]]
    BY DEF Copied
  <1>3. ASSUME NEW k \in 1..Len(x)
        PROVE  /\ z[k] \in Patch
               /\ z[k].change = x[k].change /\ z[k].tree = x[k].tree
               /\ z[k].made = IF k \in rewrites THEN uploads ELSE x[k].made
               /\ z[k].as \in {x[k].as, "account"}
    <2>1. uploads \in 0..2 * MaxUploads
      BY UploadAssumption
    <2>2. x[k] \in Patch
      BY <1>1
    <2>3. CASE k \in rewrites
      <3>1. z[k] = [x[k] EXCEPT !.made = uploads, !.as = IF k \in also THEN "account" ELSE @]
        BY <1>2, <2>3
      <3> QED
        BY <2>1, <2>2, <2>3, <3>1 DEF Patch
    <2>4. CASE k \notin rewrites
      BY <1>2, <2>2, <2>4
    <2> QED
      BY <2>3, <2>4
  <1>4. z \in [1..Len(x) -> Patch]
    BY <1>2, <1>3
  <1>5. z \in Commit /\ Len(z) = Len(x)
    BY <1>1, <1>4, Made
  <1>6. SameTrees(x, z)
    BY <1>3, <1>5 DEF SameTrees, Trees
  <1> QED
    BY <1>3, <1>5, <1>6

-----------------------------------------------------------------------------
(* What the steps of an upload work on.                                    *)

LEMMA PlannedPlaces ==
  ASSUME TypeOK, Planned, pc \in Before \cup After
  PROVE  /\ from \in Commit /\ sent \in Commit
         /\ Len(sent) \in Nat \ {0} /\ Len(from) = Len(sent) /\ Len(sent) <= N
         /\ edits \subseteq new /\ new \subseteq 1..Len(sent) /\ new \subseteq Spot
         /\ \A k \in new : sent[k].change \in Changes
         /\ \A j, k \in new : sent[j].change = sent[k].change => j = k
  <1>1. from \in Commit /\ sent \in Commit /\ SameTrees(from, sent) /\ Acceptable
        /\ edits \subseteq new /\ new \subseteq 1..Len(sent) /\ Len(sent) <= N
    BY DEF TypeOK, Planned
  <1>2. Len(sent) \in Nat \ {0} /\ Len(from) = Len(sent)
    BY <1>1, Parts, SameLength DEF SameTrees
  <1>3. N \in Nat \ {0}
    BY UploadAssumption
  <1>4. new \subseteq Spot
    BY <1>1, <1>2, <1>3 DEF Spot
  <1>5. \A k \in new : sent[k].change \in Changes
    <2>1. \A k \in 1..Len(sent) : sent[k] \in Patch
      BY <1>1, Parts
    <2> QED
      BY <1>1, <1>3, <2>1 DEF Acceptable, Patch, Changes
  <1>6. \A j, k \in new : sent[j].change = sent[k].change => j = k
    BY <1>1 DEF Acceptable
  <1> QED
    BY <1>1, <1>2, <1>4, <1>5, <1>6

LEMMA Taken ==
  ASSUME TypeOK, Planned, pc \in Before \cup After, Takes
  PROVE  /\ patchsets' \in [Changes -> Seq(Commit)]
         /\ \A k \in new : patchsets'[sent[k].change] # <<>>
                           /\ Tip(patchsets'[sent[k].change]) = UpTo(sent, k)
  <1> DEFINE K(c) == CHOOSE k \in new : sent[k].change = c
  <1>0. /\ sent \in Commit /\ new \subseteq 1..Len(sent)
        /\ \A k \in new : sent[k].change \in Changes
        /\ \A j, k \in new : sent[j].change = sent[k].change => j = k
    BY PlannedPlaces
  <1>1. patchsets' = [c \in Changes |-> IF \E k \in new : sent[k].change = c
                                        THEN Append(patchsets[c], UpTo(sent, K(c)))
                                        ELSE patchsets[c]]
    BY DEF Takes
  <1>2. \A k \in new : K(sent[k].change) = k
    BY <1>0
  <1>3. patchsets \in [Changes -> Seq(Commit)]
    BY DEF TypeOK
  <1>4. ASSUME NEW k \in new
        PROVE  /\ patchsets'[sent[k].change] \in Seq(Commit)
               /\ patchsets'[sent[k].change] # <<>>
               /\ Tip(patchsets'[sent[k].change]) = UpTo(sent, k)
    <2>1. patchsets'[sent[k].change] = Append(patchsets[sent[k].change], UpTo(sent, k))
      BY <1>0, <1>1, <1>2
    <2>2. UpTo(sent, k) \in Commit /\ patchsets[sent[k].change] \in Seq(Commit)
      BY <1>0, <1>3, Prefix
    <2> QED
      BY <2>1, <2>2, NewPatchset
  <1>5. \A c \in Changes : patchsets'[c] \in Seq(Commit)
    <2>1. ASSUME NEW c \in Changes, ~ \E k \in new : sent[k].change = c
          PROVE  patchsets'[c] \in Seq(Commit)
      BY <1>1, <1>3, <2>1
    <2> QED
      BY <1>4, <2>1
  <1>6. patchsets' \in [Changes -> Seq(Commit)]
    BY <1>1, <1>5
  <1> QED
    BY <1>4, <1>6

(* The place whose change is edited.                                       *)
LEMMA EditedPlace ==
  ASSUME TypeOK, Planned, Progress, pc \in Editing, at \in new
  PROVE  /\ at \in 1..Len(sent) /\ at \in Spot
         /\ Change \in Changes /\ Current(Change) \in Commit
         /\ \A k \in new : k # at => sent[k].change # Change
  <1>1. /\ pc \in After /\ pc \in Before \cup After
        /\ patchsets \in [Changes -> Seq(Commit)]
    BY DEF Editing, After, TypeOK
  <1>2. /\ at \in 1..Len(sent) /\ at \in Spot /\ Change \in Changes
        /\ \A k \in new : k # at => sent[k].change # Change
    BY <1>1, PlannedPlaces DEF Change
  <1>3. patchsets[Change] # <<>>
    BY <1>1 DEF Progress, Change
  <1> QED
    BY <1>1, <1>2, <1>3, CurrentCommit

LEMMA BelowCommit ==
  ASSUME TypeOK, ParentMoved, at \in Spot
  PROVE  at - 1 \in Spot /\ moved[at - 1] \in Commit
  BY UploadAssumption DEF TypeOK, ParentMoved, Spot

RebasedTo == Append(moved[at - 1], [Tip(Current(Change)) EXCEPT !.made = MaxUploads + uploads])

LEMMA Rebased ==
  ASSUME TypeOK, Planned, Progress, Rebase
  PROVE  /\ at \in new
         /\ patchsets' \in [Changes -> Seq(Commit)]
         /\ RebasedTo \in Commit
         /\ Len(RebasedTo) = Len(moved[at - 1]) + 1
         /\ \A j \in 1..Len(moved[at - 1]) : RebasedTo[j] = moved[at - 1][j]
         /\ Current(Change)' = RebasedTo
         /\ \A d \in Changes \ {Change} : Current(d)' = Current(d)
         /\ \A d \in Changes : patchsets[d] # <<>> => patchsets'[d] # <<>>
  <1>1. pc = "rebase" /\ pc \in Editing /\ at \in new /\ ParentMoved
    BY DEF Rebase, Progress, Editing
  <1>2. at \in Spot /\ Change \in Changes /\ Current(Change) \in Commit
    BY <1>1, EditedPlace
  <1>3. moved[at - 1] \in Commit
    BY <1>1, <1>2, BelowCommit
  <1>4. [Tip(Current(Change)) EXCEPT !.made = MaxUploads + uploads] \in Patch
    <2>1. Tip(Current(Change)) \in Patch
      BY <1>2, Parts
    <2>2. MaxUploads + uploads \in 0..2 * MaxUploads
      BY UploadAssumption DEF TypeOK
    <2> QED
      BY <2>1, <2>2 DEF Patch
  <1>5. /\ RebasedTo \in Commit
        /\ Len(RebasedTo) = Len(moved[at - 1]) + 1
        /\ \A j \in 1..Len(moved[at - 1]) : RebasedTo[j] = moved[at - 1][j]
    BY <1>3, <1>4, Extended DEF RebasedTo
  <1>6. patchsets' = Added(Change, RebasedTo) /\ UNCHANGED sent /\ at' = at
    BY DEF Rebase, RebasedTo, Afterwards, plan, GoesOn, GivesUp, WarnsOf
  <1>7. patchsets \in [Changes -> Seq(Commit)]
    BY DEF TypeOK
  <1>8. /\ patchsets' \in [Changes -> Seq(Commit)]
        /\ Tip(patchsets'[Change]) = RebasedTo
        /\ \A d \in Changes \ {Change} : Current(d)' = Current(d)
        /\ \A d \in Changes : patchsets[d] # <<>> => patchsets'[d] # <<>>
    BY <1>2, <1>5, <1>6, <1>7, AddedOne DEF Current
  <1>9. Change' = Change
    BY <1>6 DEF Change
  <1> QED
    BY <1>1, <1>5, <1>8, <1>9 DEF Current

PublishedAs == [editing EXCEPT ![Len(editing)].as = "own", ![Len(editing)].made = MaxUploads + uploads]

LEMMA Published ==
  ASSUME TypeOK, Planned, Progress, PublishEdit
  PROVE  /\ at \in new /\ at \in edits /\ editing \in Commit
         /\ patchsets' \in [Changes -> Seq(Commit)]
         /\ PublishedAs \in Commit
         /\ Len(PublishedAs) = Len(editing)
         /\ \A j \in 1..Len(editing) - 1 : PublishedAs[j] = editing[j]
         /\ Tip(PublishedAs).as = "own"
         /\ Current(Change)' = PublishedAs
         /\ \A d \in Changes \ {Change} : Current(d)' = Current(d)
         /\ \A d \in Changes : patchsets[d] # <<>> => patchsets'[d] # <<>>
  <1>1. pc = "publish" /\ pc \in Editing /\ at \in new /\ at \in edits /\ editing \in Commit
    BY DEF PublishEdit, Progress, Editing, TypeOK
  <1>2. at \in Spot /\ Change \in Changes /\ Current(Change) \in Commit
    BY <1>1, EditedPlace
  <1> DEFINE p == [editing[Len(editing)] EXCEPT !.as = "own", !.made = MaxUploads + uploads]
  <1>3. p \in Patch /\ p.as = "own"
    <2>1. editing[Len(editing)] \in Patch
      BY <1>1, Parts
    <2>2. MaxUploads + uploads \in 0..2 * MaxUploads
      BY UploadAssumption DEF TypeOK
    <2> QED
      BY <2>1, <2>2 DEF Patch
  <1>4. PublishedAs = WithTip(editing, p)
    <2> DEFINE q == [editing[Len(editing)] EXCEPT !.as = "own"]
               y == [editing EXCEPT ![Len(editing)] = q]
    <2>1. Len(editing) \in 1..Len(editing) /\ editing[Len(editing)] \in Patch
          /\ editing \in [1..Len(editing) -> Patch]
      BY <1>1, Parts
    <2>2. y = [editing EXCEPT ![Len(editing)].as = "own"]
      OBVIOUS
    <2>3. PublishedAs = [y EXCEPT ![Len(editing)].made = MaxUploads + uploads]
      BY <2>2 DEF PublishedAs
    <2>4. p = [q EXCEPT !.made = MaxUploads + uploads]
      BY <2>1 DEF Patch
    <2>5. y[Len(editing)] = q
      BY <2>1
    <2> HIDE DEF q, p
    <2>6. PublishedAs = [y EXCEPT ![Len(editing)] = p]
      BY <2>3, <2>4, <2>5
    <2> QED
      BY <2>1, <2>6 DEF WithTip
  <1> HIDE DEF p
  <1>5. /\ PublishedAs \in Commit
        /\ Len(PublishedAs) = Len(editing)
        /\ \A j \in 1..Len(editing) - 1 : PublishedAs[j] = editing[j]
        /\ Tip(PublishedAs).as = "own"
    <2>1. editing \in Commit /\ p \in Patch /\ p.as = "own"
      BY <1>1, <1>3
    <2> QED
      BY <1>4, <2>1, Retipped
  <1>6. patchsets' = Added(Change, PublishedAs) /\ UNCHANGED sent /\ at' = at
    BY DEF PublishEdit, PublishedAs, Afterwards, plan, GoesOn, GivesUp, WarnsOf
  <1>7. patchsets \in [Changes -> Seq(Commit)]
    BY DEF TypeOK
  <1>8. /\ patchsets' \in [Changes -> Seq(Commit)]
        /\ Tip(patchsets'[Change]) = PublishedAs
        /\ \A d \in Changes \ {Change} : Current(d)' = Current(d)
        /\ \A d \in Changes : patchsets[d] # <<>> => patchsets'[d] # <<>>
    BY <1>2, <1>5, <1>6, <1>7, AddedOne DEF Current
  <1>9. Change' = Change
    BY <1>6 DEF Change
  <1> QED
    BY <1>1, <1>5, <1>8, <1>9 DEF Current

(* What the user and the others do.                                        *)
LEMMA Amended ==
  ASSUME TypeOK, UserAmends
  PROVE  head' \in Commit /\ Len(head') = Len(head)
  <1> DEFINE q == [head[Len(head)] EXCEPT !.tree = N + trees']
             p == [q EXCEPT !.made = 0]
             y == [head EXCEPT ![Len(head)] = q]
  <1>1. head \in Commit
    BY DEF TypeOK
  <1>2. Len(head) \in 1..Len(head) /\ head[Len(head)] \in Patch /\ head \in [1..Len(head) -> Patch]
    BY <1>1, Parts
  <1>3. p \in Patch
    <2>1. N + trees' \in 0..N + MaxTrees
      BY UploadAssumption DEF UserAmends, TypeOK
    <2>2. 0 \in 0..2 * MaxUploads
      BY UploadAssumption
    <2>3. q \in Patch
      BY <1>2, <2>1 DEF Patch
    <2> QED
      BY <2>2, <2>3 DEF Patch
  <1>4. y = [head EXCEPT ![Len(head)].tree = N + trees']
    OBVIOUS
  <1>5. head' = [y EXCEPT ![Len(head)].made = 0]
    BY <1>4 DEF UserAmends
  <1>6. y[Len(head)] = q
    BY <1>2
  <1>7. p = [q EXCEPT !.made = 0]
    OBVIOUS
  <1> HIDE DEF q, p
  <1>8. head' = [y EXCEPT ![Len(head)] = p]
    BY <1>5, <1>6, <1>7
  <1>9. head' = WithTip(head, p)
    BY <1>2, <1>8 DEF WithTip
  <1> QED
    BY <1>1, <1>3, <1>9, Retipped

LEMMA Uploaded ==
  ASSUME TypeOK, NEW c \in Changes, OtherUploads(c)
  PROVE  /\ patchsets' \in [Changes -> Seq(Commit)]
         /\ patchsets'[c] # <<>> /\ Tip(Current(c)').made = 0
         /\ \A d \in Changes \ {c} : Current(d)' = Current(d)
         /\ \A d \in Changes : patchsets[d] # <<>> => patchsets'[d] # <<>>
  <1> DEFINE p == [change |-> c, tree |-> N + trees', as |-> "own", made |-> 0]
  <1>1. patchsets \in [Changes -> Seq(Commit)] /\ Current(c) \in Commit
    BY CurrentCommit DEF TypeOK, OtherUploads
  <1>2. p \in Patch /\ p.made = 0
    <2>1. N + trees' \in 0..N + MaxTrees /\ c \in 0..N
      BY UploadAssumption DEF OtherUploads, TypeOK, Changes
    <2> QED
      BY <2>1, UploadAssumption DEF Patch
  <1>3. patchsets' = Added(c, WithTip(Current(c), p))
    BY DEF OtherUploads, WithTip
  <1> HIDE DEF p
  <1>4. WithTip(Current(c), p) \in Commit /\ Tip(WithTip(Current(c), p)) = p
    BY <1>1, <1>2, Retipped
  <1> QED
    BY <1>1, <1>2, <1>3, <1>4, AddedOne

LEMMA TypeStep ==
  ASSUME TypeOK, Lengths, Planned, Progress, [Next]_vars
  PROVE  TypeOK'
  <1> USE DEF server, local, plan, back
  <1>0. /\ N \in Nat \ {0} /\ MaxTrees \in Nat /\ MaxUploads \in Nat \ {0}
        /\ Editing \subseteq Steps /\ NoCommit \in Commit \cup {NoCommit}
    BY UploadAssumption DEF Editing, Steps
  <1>1. CASE Begin
    <2>1. moved' \in [Spot -> Commit \cup {NoCommit}] /\ at' \in 1..N + 1 /\ uploads' \in 0..MaxUploads
      BY <1>0, <1>1 DEF Begin, TypeOK, Nowhere
    <2>2. pc' \in Steps /\ from' \in Commit
      BY <1>1 DEF Begin, TypeOK, Steps
    <2> QED
      BY <1>1, <2>1, <2>2 DEF Begin, TypeOK
  <1>2. CASE Refuse
    BY <1>2 DEF Refuse, TypeOK, Steps
  <1>3. CASE Accept
    <2>1. from \in Commit /\ Len(from) \in 1..N
      <3>1. from \in Commit /\ Len(from) <= N
        BY <1>3 DEF Accept, Lengths, TypeOK
      <3> QED
        BY <1>0, <3>1, Parts
    <2>2. Unknown(from) \subseteq Spot
      BY <1>0, <2>1, UnknownPlaces DEF Spot
    <2>3. edits' \subseteq Spot
      BY <1>3, <2>2 DEF Accept, AuthorEdits
    <2>4. sent' \in Commit
      BY <1>3, <2>1, CopiedCommit DEF Accept, TypeOK
    <2>5. pc' \in Steps
      BY <1>3 DEF Accept, Steps
    <2>6. new' \subseteq Spot /\ updates' \subseteq Spot
      BY <1>3, <2>2 DEF Accept
    <2> QED
      BY <1>3, <2>3, <2>4, <2>5, <2>6 DEF Accept, TypeOK
  <1>4. CASE Rewrite
    <2>1. sent \in Commit
      BY <1>4, PlannedPlaces DEF Rewrite, Before
    <2> QED
      BY <1>4, <2>1 DEF Rewrite, MovesHead, TypeOK, Steps
  <1>5. CASE Push
    <2>1. patchsets' \in [Changes -> Seq(Commit)] /\ delivered' \in BOOLEAN
      BY <1>5, Taken DEF Push, Before, Takes
    <2> QED
      BY <1>5, <2>1 DEF Push, TypeOK, Steps
  <1>6. CASE PushFails
    <2>1. patchsets' \in [Changes -> Seq(Commit)] /\ delivered' \in BOOLEAN
      BY <1>6, Taken DEF PushFails, Before, Takes, TypeOK
    <2> QED
      BY <1>6, <2>1 DEF PushFails, TypeOK, Steps
  <1>7. CASE Restore
    <2>1. from \in Commit
      BY <1>7, PlannedPlaces DEF Restore, Before
    <2>2. head' \in Commit
      BY <1>7, <2>1 DEF Restore, MovesHead, TypeOK
    <2> QED
      BY <1>7, <2>2 DEF Restore, TypeOK, Steps
  <1>8. CASE Find
    BY <1>8 DEF Find, TypeOK, Steps
  <1>9. CASE EditNone
    <2>1. at' \in 1..N + 1
      <3>1. Len(sent) <= N /\ Len(sent) \in Nat
        BY <1>9, PlannedPlaces DEF EditNone, After, Editing
      <3> QED
        BY <1>0, <1>9, <3>1 DEF EditNone, TypeOK
    <2> QED
      BY <1>9, <2>1 DEF EditNone, Afterwards, TypeOK
  <1>10. CASE EditUnfound
    BY <1>10 DEF EditUnfound, WarnsOf, Afterwards, TypeOK, Steps
  <1>11. CASE EditOne
    BY <1>11 DEF EditOne, GoesOn, Afterwards, TypeOK, Steps
  <1>12. CASE EditedAll
    BY <1>12 DEF EditedAll, GoesOn, Afterwards, TypeOK, Steps
  <1>13. CASE Rebase
    <2>1. patchsets' \in [Changes -> Seq(Commit)]
      BY <1>13, Rebased
    <2>2. pc' \in Steps /\ at' = at /\ moved' = moved /\ left' \subseteq Spot /\ warned' \in BOOLEAN
      BY <1>13 DEF Rebase, GoesOn, GivesUp, WarnsOf, TypeOK, Steps
    <2> QED
      BY <1>13, <2>1, <2>2 DEF Rebase, Afterwards, TypeOK
  <1>14. CASE SetEdit
    <2>1. editing' \in Commit
      <3>1. pc \in Editing /\ at \in new
        BY <1>14 DEF SetEdit, Editing, Progress
      <3> QED
        BY <1>14, <3>1, EditedPlace DEF SetEdit
    <2> QED
      BY <1>14, <2>1 DEF SetEdit, GoesOn, Afterwards, TypeOK, Steps
  <1>15. CASE PublishEdit
    <2>1. patchsets' \in [Changes -> Seq(Commit)]
      BY <1>15, Published
    <2>2. pc' \in Steps /\ at' = at /\ moved' = moved /\ left' \subseteq Spot /\ warned' \in BOOLEAN
      BY <1>15 DEF PublishEdit, GoesOn, GivesUp, WarnsOf, TypeOK, Steps
    <2> QED
      BY <1>15, <2>1, <2>2 DEF PublishEdit, Afterwards, TypeOK
  <1>16. CASE ReadFinal
    <2>1. pc \in Editing /\ at \in new
      BY <1>16 DEF ReadFinal, Editing, Progress
    <2>2. at \in Spot /\ Current(Change) \in Commit
      BY <2>1, EditedPlace
    <2>3. moved' \in [Spot -> Commit \cup {NoCommit}]
      BY <1>16, <2>2 DEF ReadFinal, TypeOK
    <2>4. at' \in 1..N + 1
      BY <1>0, <1>16, <2>2 DEF ReadFinal, Spot
    <2> QED
      BY <1>16, <2>3, <2>4 DEF ReadFinal, Afterwards, TypeOK, Steps
  <1>17. CASE EditFails
    BY <1>17 DEF EditFails, GivesUp, WarnsOf, Afterwards, TypeOK, Steps
  <1>18. CASE MoveHead
    <2>1. Len(sent) \in Spot
      BY <1>0, <1>18, PlannedPlaces DEF MoveHead, After, Spot
    <2>2. moved[Len(sent)] \in Commit
      BY <1>18, <2>1 DEF MoveHead, Restored, TypeOK
    <2>3. head' \in Commit /\ warned' \in BOOLEAN
      BY <1>18, <2>2 DEF MoveHead, MovesHead, TypeOK
    <2> QED
      BY <1>18, <2>3 DEF MoveHead, TypeOK, Steps
  <1>19. CASE LeaveHead
    BY <1>19 DEF LeaveHead, TypeOK, Steps
  <1>20. CASE UserAmends
    <2>1. head' \in Commit /\ mine' \in Commit
      BY <1>20, Amended DEF UserAmends
    <2>2. trees' \in 0..MaxTrees /\ touched' \in BOOLEAN
      BY <1>0, <1>20 DEF UserAmends, TypeOK
    <2> QED
      BY <1>20, <2>1, <2>2 DEF UserAmends, TypeOK
  <1>21. ASSUME NEW c \in Changes, OtherUploads(c) PROVE TypeOK'
    <2>1. patchsets' \in [Changes -> Seq(Commit)]
      BY <1>21, Uploaded
    <2>2. trees' \in 0..MaxTrees /\ touched' \in BOOLEAN
      BY <1>0, <1>21 DEF OtherUploads, TypeOK
    <2> QED
      BY <1>21, <2>1, <2>2 DEF OtherUploads, TypeOK
  <1>22. ASSUME NEW c \in Changes, OtherCloses(c) PROVE TypeOK'
    BY <1>22 DEF OtherCloses, TypeOK
  <1>23. CASE UNCHANGED vars
    BY <1>23 DEF vars, TypeOK
  <1> QED
    BY <1>1, <1>2, <1>3, <1>4, <1>5, <1>6, <1>7, <1>8, <1>9, <1>10, <1>11, <1>12, <1>13, <1>14,
       <1>15, <1>16, <1>17, <1>18, <1>19, <1>20, <1>21, <1>22, <1>23 DEF Next, Proceeds, Others

-----------------------------------------------------------------------------
(* What HEAD is, and what the checks let through.                          *)

(* Where an edit or a rebase of HEAD's own change has led.                 *)
LEMMA MovedHead ==
  ASSUME TypeOK, Planned, MoveHead
  PROVE  /\ sent \in Commit /\ moved[Len(sent)] \in Commit
         /\ \/ head' = head
            \/ /\ head = sent /\ head' = moved[Len(sent)]
               /\ Trees(head') = Trees(head) /\ Len(head') = Len(head)
  <1>1. sent \in Commit /\ Len(sent) \in Nat \ {0} /\ Len(sent) <= N
    BY PlannedPlaces DEF MoveHead, After
  <1>2. Len(sent) \in Spot
    BY <1>1, UploadAssumption DEF Spot
  <1>3. moved[Len(sent)] \in Commit
    BY <1>2 DEF MoveHead, Restored, TypeOK
  <1>4. CASE head' = head
    BY <1>1, <1>3, <1>4
  <1>5. CASE head' # head
    <2>1. /\ SameTrees(moved[Len(sent)], sent)
          /\ head = sent /\ head' = moved[Len(sent)]
      BY <1>5 DEF MoveHead, MovesHead
    <2>2. Trees(head') = Trees(head) /\ Len(head') = Len(head)
      BY <1>1, <1>3, <2>1, SameLength DEF SameTrees
    <2> QED
      BY <1>1, <1>3, <2>1, <2>2
  <1> QED
    BY <1>4, <1>5

LEMMA HeadStep ==
  ASSUME TypeOK, Planned, HeadKeepsTree, [Next]_vars
  PROVE  HeadKeepsTree'
  <1> USE DEF HeadKeepsTree, local
  <1>p. pc \in Before => SameTrees(from, sent)
    BY DEF Planned
  <1>s. UNCHANGED <<head, mine>> => HeadKeepsTree'
    BY DEF Trees
  <1>m. Trees(head') = Trees(head) /\ mine' = mine => HeadKeepsTree'
    BY DEF Trees
  <1>1. CASE Begin
    BY <1>s, <1>1 DEF Begin
  <1>2. CASE Refuse
    BY <1>s, <1>2 DEF Refuse
  <1>3. CASE Accept
    BY <1>s, <1>3 DEF Accept
  <1>4. CASE Rewrite
    <2>1. mine' = mine /\ Trees(from) = Trees(sent) /\ (head' = head \/ (head = from /\ head' = sent))
      BY <1>p, <1>4 DEF Rewrite, MovesHead, Before, SameTrees
    <2> QED
      BY <1>m, <2>1
  <1>5. CASE Push
    BY <1>s, <1>5 DEF Push
  <1>6. CASE PushFails
    BY <1>s, <1>6 DEF PushFails
  <1>7. CASE Restore
    <2>1. mine' = mine /\ Trees(from) = Trees(sent) /\ (head' = head \/ (head = sent /\ head' = from))
      BY <1>p, <1>7 DEF Restore, MovesHead, Before, SameTrees
    <2> QED
      BY <1>m, <2>1
  <1>8. CASE Find
    BY <1>s, <1>8 DEF Find
  <1>9. CASE EditNone
    BY <1>s, <1>9 DEF EditNone, Afterwards
  <1>10. CASE EditUnfound
    BY <1>s, <1>10 DEF EditUnfound, Afterwards
  <1>11. CASE EditOne
    BY <1>s, <1>11 DEF EditOne, Afterwards
  <1>12. CASE EditedAll
    BY <1>s, <1>12 DEF EditedAll, Afterwards
  <1>13. CASE Rebase
    BY <1>s, <1>13 DEF Rebase, Afterwards
  <1>14. CASE SetEdit
    BY <1>s, <1>14 DEF SetEdit, Afterwards
  <1>15. CASE PublishEdit
    BY <1>s, <1>15 DEF PublishEdit, Afterwards
  <1>16. CASE ReadFinal
    BY <1>s, <1>16 DEF ReadFinal, Afterwards
  <1>17. CASE EditFails
    BY <1>s, <1>17 DEF EditFails, Afterwards
  <1>18. CASE MoveHead
    <2>1. mine' = mine
      BY <1>18 DEF MoveHead
    <2> QED
      BY <1>m, <1>18, <2>1, MovedHead
  <1>19. CASE LeaveHead
    BY <1>s, <1>19 DEF LeaveHead
  <1>20. CASE UserAmends
    BY <1>20 DEF UserAmends, Trees
  <1>21. ASSUME NEW c \in Changes, OtherUploads(c) PROVE HeadKeepsTree'
    BY <1>s, <1>21 DEF OtherUploads
  <1>22. ASSUME NEW c \in Changes, OtherCloses(c) PROVE HeadKeepsTree'
    BY <1>s, <1>22 DEF OtherCloses
  <1>23. CASE UNCHANGED vars
    BY <1>s, <1>23 DEF vars
  <1> QED
    BY <1>1, <1>2, <1>3, <1>4, <1>5, <1>6, <1>7, <1>8, <1>9, <1>10, <1>11, <1>12, <1>13, <1>14,
       <1>15, <1>16, <1>17, <1>18, <1>19, <1>20, <1>21, <1>22, <1>23 DEF Next, Proceeds, Others

LEMMA LengthsStep ==
  ASSUME TypeOK, Lengths, Planned, [Next]_vars
  PROVE  Lengths'
  <1> USE DEF Lengths, local, plan
  <1>0. N \in Nat \ {0} /\ uploads \in Nat /\ head \in Commit
    BY UploadAssumption DEF TypeOK
  <1>s. UNCHANGED <<head, uploads, from>> /\ pc' # "idle" /\ pc # "idle" /\ pc' # "check" => Lengths'
    OBVIOUS
  <1>e. pc \in Editing /\ UNCHANGED <<head, uploads, from>> /\ pc' \in Editing \cup {"move"} => Lengths'
    BY <1>s DEF Editing
  <1>1. CASE Begin
    BY <1>0, <1>1, Parts DEF Begin
  <1>2. CASE Refuse
    BY <1>s, <1>2 DEF Refuse
  <1>3. CASE Accept
    BY <1>s, <1>3 DEF Accept
  <1>4. CASE Rewrite
    <2>1. Len(sent) <= N
      BY <1>4 DEF Rewrite, Planned, Before
    <2> QED
      BY <1>4, <2>1 DEF Rewrite, MovesHead
  <1>5. CASE Push
    BY <1>s, <1>5 DEF Push
  <1>6. CASE PushFails
    BY <1>s, <1>6 DEF PushFails
  <1>7. CASE Restore
    <2>1. Len(from) <= N
      BY <1>7, PlannedPlaces DEF Restore, Before
    <2> QED
      BY <1>7, <2>1 DEF Restore, MovesHead
  <1>8. CASE Find
    BY <1>s, <1>8 DEF Find
  <1>9. CASE EditNone
    BY <1>e, <1>9 DEF EditNone, Afterwards, Editing
  <1>10. CASE EditUnfound
    BY <1>e, <1>10 DEF EditUnfound, WarnsOf, Afterwards, Editing
  <1>11. CASE EditOne
    BY <1>e, <1>11 DEF EditOne, GoesOn, Afterwards, Editing
  <1>12. CASE EditedAll
    BY <1>e, <1>12 DEF EditedAll, GoesOn, Afterwards, Editing
  <1>13. CASE Rebase
    BY <1>e, <1>13 DEF Rebase, GoesOn, GivesUp, WarnsOf, Afterwards, Editing
  <1>14. CASE SetEdit
    BY <1>e, <1>14 DEF SetEdit, GoesOn, Afterwards, Editing
  <1>15. CASE PublishEdit
    BY <1>e, <1>15 DEF PublishEdit, GoesOn, GivesUp, WarnsOf, Afterwards, Editing
  <1>16. CASE ReadFinal
    BY <1>e, <1>16 DEF ReadFinal, Afterwards, Editing
  <1>17. CASE EditFails
    BY <1>e, <1>17 DEF EditFails, GivesUp, WarnsOf, Afterwards, Editing
  <1>18. CASE MoveHead
    <2>1. Len(head') <= N
      BY <1>18, MovedHead
    <2> QED
      BY <1>18, <2>1 DEF MoveHead
  <1>19. CASE LeaveHead
    BY <1>s, <1>19 DEF LeaveHead
  <1>20. CASE UserAmends
    BY <1>20, Amended DEF UserAmends
  <1>21. ASSUME NEW c \in Changes, OtherUploads(c) PROVE Lengths'
    BY <1>21 DEF OtherUploads
  <1>22. ASSUME NEW c \in Changes, OtherCloses(c) PROVE Lengths'
    BY <1>22 DEF OtherCloses
  <1>23. CASE UNCHANGED vars
    BY <1>23 DEF vars
  <1> QED
    BY <1>1, <1>2, <1>3, <1>4, <1>5, <1>6, <1>7, <1>8, <1>9, <1>10, <1>11, <1>12, <1>13, <1>14,
       <1>15, <1>16, <1>17, <1>18, <1>19, <1>20, <1>21, <1>22, <1>23 DEF Next, Proceeds, Others

(* The checks refuse what Gerrit would.                                    *)
LEMMA Accepted ==
  ASSUME TypeOK, Lengths, Accept
  PROVE  Planned'
  <1>0. /\ from \in Commit /\ from' = from /\ Len(from) \in Nat \ {0} /\ Len(from) <= N
        /\ uploads \in 0..MaxUploads /\ uploads \in Nat \ {0} /\ kind' = kind
        /\ new' = Unknown(from)
    <2>1. from \in Commit /\ Len(from) <= N /\ uploads \in 0..MaxUploads /\ uploads > 0
      BY DEF Accept, Lengths, TypeOK
    <2> QED
      BY <2>1, Parts, UploadAssumption DEF Accept, local
  <1>1. PICK series, amend, person, authorEdit \in BOOLEAN :
          LET also    == IF person /\ authorEdit THEN AuthorEdits(from) ELSE {}
              rewrites == Rewrites(from, also)
          IN /\ ~Refused(series, amend, person)
             /\ edits' = also
             /\ sent' = Copied(from, rewrites, also)
    BY DEF Accept
  <1> DEFINE also == IF person /\ authorEdit THEN AuthorEdits(from) ELSE {}
             rewrites == Rewrites(from, also)
  <1>2. ~Refused(series, amend, person) /\ edits' = also /\ sent' = Copied(from, rewrites, also)
    BY <1>1
  <1>3. also \subseteq Unknown(from)
    BY DEF AuthorEdits
  <1>4. Foreign(from) \subseteq rewrites
    <2>1. Foreign(from) \subseteq Unknown(from) /\ \A k \in Unknown(from) : k <= k
      BY <1>0, UnknownPlaces DEF Foreign
    <2> QED
      BY <2>1 DEF Rewrites
  <1>5. /\ sent' \in Commit /\ Len(sent') = Len(from) /\ SameTrees(from, sent')
        /\ \A k \in 1..Len(from) :
             /\ sent'[k].change = from[k].change
             /\ sent'[k].made = IF k \in rewrites THEN uploads ELSE from[k].made
             /\ sent'[k].as \in {from[k].as, "account"}
    BY <1>0, <1>2, CopiedCommit
  <1> HIDE DEF also, rewrites
  <1>6. Unknown(from) \subseteq 1..Len(from) /\ \A k \in Unknown(from) : k..Len(from) \subseteq Unknown(from)
    BY <1>0, UnknownPlaces
  <1>7. ASSUME NEW k \in Unknown(from)
        PROVE  from[k].change # 0
    <2>1. ~OutOfRange(from, series) /\ k \in 1..Len(from)
      BY <1>2, <1>6 DEF Refused
    <2>2. CASE series
      BY <2>1, <2>2 DEF OutOfRange
    <2>3. CASE ~series
      <3>1. Unknown(from) = {Len(from)} /\ Tip(from).change # 0
        BY <2>1, <2>3 DEF OutOfRange
      <3> QED
        BY <3>1 DEF Tip
    <2> QED
      BY <2>2, <2>3
  <1>8. ASSUME NEW k \in Unknown(from)
        PROVE  sent'[k].made # 0 \/ kind[k].registered
    <2>1. k \in 1..Len(from)
      BY <1>6
    <2>2. CASE k \in rewrites
      BY <1>0, <1>5, <2>1, <2>2
    <2>3. CASE k \notin rewrites
      <3>1. Registered(from, k)
        BY <1>4, <2>3 DEF Foreign
      <3> QED
        BY <1>5, <2>1, <2>3, <3>1 DEF Registered
    <2> QED
      BY <2>2, <2>3
  <1>9. ASSUME NEW k \in Unknown(from)
        PROVE  kind[k].signed # "none"
    <2>1. Signed(from, k) # "none"
      BY <1>2 DEF Refused, Unsigned
    <2> QED
      BY <2>1 DEF Signed
  <1>10. ASSUME NEW j \in 1..Len(from), NEW k \in Unknown(from), from[j].change = from[k].change
         PROVE  j = k
    <2>1. from[j].change # 0 /\ from[k].change # 0 /\ k \in 1..Len(from)
      BY <1>6, <1>7, <1>10
    <2>2. ~(j < k) /\ ~(k < j)
      BY <1>2, <1>10, <2>1 DEF Refused, DuplicateChangeIds
    <2> QED
      BY <1>0, <2>1, <2>2
  <1>11. \A k \in new' : /\ sent'[k].change # 0
                         /\ Registered(sent, k)'
                         /\ Signed(sent, k)' # "none"
    <2>1. ASSUME NEW k \in Unknown(from)
          PROVE  sent'[k].change # 0 /\ Registered(sent, k)' /\ Signed(sent, k)' # "none"
      <3>1. k \in 1..Len(from)
        BY <1>6
      <3>2. sent'[k].change # 0
        BY <1>5, <1>7, <3>1
      <3>3. Registered(sent, k)'
        BY <1>0, <1>8 DEF Registered
      <3>4. Signed(sent, k)' # "none"
        BY <1>0, <1>9 DEF Signed
      <3> QED
        BY <3>2, <3>3, <3>4
    <2> QED
      BY <1>0, <2>1
  <1>12. \A j, k \in 1..Len(sent') : k \in new' /\ sent'[j].change = sent'[k].change => j = k
    BY <1>0, <1>5, <1>10
  <1>13. Acceptable'
    BY <1>11, <1>12 DEF Acceptable
  <1>14. updates' \subseteq new'
    BY <1>0 DEF Accept
  <1>15. from' # NoCommit /\ sent' # NoCommit /\ Len(sent') <= N /\ SameTrees(from, sent)'
    BY <1>0, <1>5, Parts DEF SameTrees, Trees
  <1>16. edits' \subseteq new' /\ new' \subseteq 1..Len(sent')
         /\ \A k \in new' : k..Len(sent') \subseteq new'
    BY <1>0, <1>2, <1>3, <1>5, <1>6
  <1> QED
    BY <1>13, <1>14, <1>15, <1>16 DEF Planned

LEMMA PlannedStep ==
  ASSUME TypeOK, Lengths, Planned, [Next]_vars
  PROVE  Planned'
  <1> USE DEF local, plan
  <1>s. UNCHANGED <<kind, from, sent, new, updates, edits>>
          /\ (pc' \in Before \cup After => pc \in Before \cup After) => Planned'
    BY DEF Planned, Acceptable, Registered, Signed, SameTrees, Trees
  <1> USE DEF Before, After, Editing
  <1>1. CASE Begin
    BY <1>1 DEF Begin, Planned
  <1>2. CASE Refuse
    BY <1>s, <1>2 DEF Refuse
  <1>3. CASE Accept
    BY <1>3, Accepted
  <1>4. CASE Rewrite
    BY <1>s, <1>4 DEF Rewrite
  <1>5. CASE Push
    BY <1>s, <1>5 DEF Push
  <1>6. CASE PushFails
    BY <1>s, <1>6 DEF PushFails
  <1>7. CASE Restore
    BY <1>s, <1>7 DEF Restore
  <1>8. CASE Find
    BY <1>s, <1>8 DEF Find
  <1>9. CASE EditNone
    BY <1>s, <1>9 DEF EditNone, Afterwards
  <1>10. CASE EditUnfound
    BY <1>s, <1>10 DEF EditUnfound, Afterwards
  <1>11. CASE EditOne
    BY <1>s, <1>11 DEF EditOne, Afterwards
  <1>12. CASE EditedAll
    BY <1>s, <1>12 DEF EditedAll, Afterwards
  <1>13. CASE Rebase
    BY <1>s, <1>13 DEF Rebase, Afterwards
  <1>14. CASE SetEdit
    BY <1>s, <1>14 DEF SetEdit, Afterwards
  <1>15. CASE PublishEdit
    BY <1>s, <1>15 DEF PublishEdit, Afterwards
  <1>16. CASE ReadFinal
    BY <1>s, <1>16 DEF ReadFinal, Afterwards
  <1>17. CASE EditFails
    BY <1>s, <1>17 DEF EditFails, Afterwards
  <1>18. CASE MoveHead
    BY <1>s, <1>18 DEF MoveHead
  <1>19. CASE LeaveHead
    BY <1>s, <1>19 DEF LeaveHead
  <1>20. CASE UserAmends
    BY <1>s, <1>20 DEF UserAmends
  <1>21. ASSUME NEW c \in Changes, OtherUploads(c) PROVE Planned'
    BY <1>s, <1>21 DEF OtherUploads
  <1>22. ASSUME NEW c \in Changes, OtherCloses(c) PROVE Planned'
    BY <1>s, <1>22 DEF OtherCloses
  <1>23. CASE UNCHANGED vars
    BY <1>s, <1>23 DEF vars
  <1> QED
    BY <1>1, <1>2, <1>3, <1>4, <1>5, <1>6, <1>7, <1>8, <1>9, <1>10, <1>11, <1>12, <1>13, <1>14,
       <1>15, <1>16, <1>17, <1>18, <1>19, <1>20, <1>21, <1>22, <1>23 DEF Next, Proceeds, Others

-----------------------------------------------------------------------------
(* How far the edits have come.                                            *)

LEMMA ProgressStep ==
  ASSUME TypeOK, Lengths, Planned, Progress, [Next]_vars
  PROVE  Progress'
  <1> USE DEF local, plan, back
  <1>0. /\ N \in Nat \ {0} /\ at \in 1..N + 1 /\ moved \in [Spot -> Commit \cup {NoCommit}]
        /\ Spot \subseteq Nat
    BY UploadAssumption DEF TypeOK, Spot
  <1> DEFINE Kept == /\ UNCHANGED <<sent, new, edits, at, moved>>
                     /\ \A c \in Changes : patchsets[c] # <<>> => patchsets'[c] # <<>>
  <1>k. pc \in After => \A k \in new : sent[k].change \in Changes
    BY PlannedPlaces
  (* A step that stays where it is. *)
  <1>s. Kept /\ UNCHANGED <<pc, found, warned, editing>> => Progress'
    BY <1>k DEF Progress, ParentMoved, Restored
  (* A step of the loop. *)
  <1>e. /\ Kept /\ pc \in Editing /\ pc' \in Editing \cup {"move"}
        /\ pc' \in Editing \ {"edit"} => at \in new
        /\ pc' = "rebase" => ParentMoved
        /\ pc' \in {"author", "publish"} => at \in edits
        /\ pc' = "publish" => editing' # NoCommit
        => Progress'
    BY <1>k DEF Progress, ParentMoved, Restored, After, Editing, Before
  <1>1. CASE Begin
    BY <1>1 DEF Begin, Progress, After, Editing, Before, Nowhere
  <1>2. CASE Refuse
    BY <1>2 DEF Refuse, Progress, After, Editing, Before
  <1>3. CASE Accept
    BY <1>3 DEF Accept, Progress, After, Editing, Before, Nowhere
  <1>4. CASE Rewrite
    BY <1>4 DEF Rewrite, Progress, After, Editing, Before, Nowhere
  <1>5. CASE Push
    <2>1. \A k \in new : patchsets'[sent[k].change] # <<>>
      BY <1>5, Taken DEF Push, Before
    <2> QED
      BY <1>5, <2>1 DEF Push, Progress, After, Editing, Before, Nowhere
  <1>6. CASE PushFails
    BY <1>6 DEF PushFails, Progress, After, Editing, Before, Nowhere
  <1>7. CASE Restore
    BY <1>7 DEF Restore, Progress, After, Editing, Before
  <1>8. CASE Find
    <2>1. moved' = Nowhere /\ at' = 1 /\ \A k \in Spot : ~Restored(k)'
      BY <1>8 DEF Find, Progress, Before, Nowhere, Restored
    <2>2. /\ pc' \in {"done", "edit"} /\ UNCHANGED <<patchsets, sent, new>>
          /\ \A k \in new : patchsets[sent[k].change] # <<>>
      BY <1>8 DEF Find, server, Progress, After
    <2> QED
      BY <2>1, <2>2 DEF Progress, After, Editing, Before
  <1>9. CASE EditNone
    <2>1. pc = "edit" /\ pc' = "edit" /\ at' = at + 1 /\ UNCHANGED <<patchsets, sent, new, moved>>
      BY <1>9 DEF EditNone, Afterwards
    <2>2. \A k \in Spot : Restored(k)' => k \in new' /\ k < at'
      BY <1>0, <2>1 DEF Progress, Editing, Restored
    <2>3. \A k \in new' : patchsets'[sent'[k].change] # <<>>
      BY <2>1 DEF Progress, After, Editing
    <2> QED
      BY <2>1, <2>2, <2>3 DEF Progress, After, Editing, Before
  <1>10. CASE EditUnfound
    BY <1>e, <1>10 DEF EditUnfound, WarnsOf, Afterwards, Editing
  <1>11. CASE EditOne
    <2>1. at \in new /\ (~ParentMoved => at \in edits)
      BY <1>11 DEF EditOne, NothingToDo
    <2> QED
      BY <1>e, <1>11, <2>1 DEF EditOne, GoesOn, Afterwards, Editing
  <1>12. CASE EditedAll
    BY <1>e, <1>12 DEF EditedAll, GoesOn, Afterwards, Editing
  <1>13. CASE Rebase
    <2>1. \A d \in Changes : patchsets[d] # <<>> => patchsets'[d] # <<>>
      BY <1>13, Rebased
    <2>2. pc = "rebase" /\ pc' \in {"author", "read", "move"} /\ (pc' = "author" => at \in edits)
          /\ UNCHANGED <<sent, new, edits, at, moved>>
      BY <1>13 DEF Rebase, GoesOn, GivesUp, WarnsOf, Afterwards
    <2>3. at \in new
      BY <2>2 DEF Progress, Editing
    <2> QED
      BY <1>e, <2>1, <2>2, <2>3 DEF Editing
  <1>14. CASE SetEdit
    <2>1. at \in new /\ at \in edits /\ pc \in Editing
      BY <1>14 DEF SetEdit, Progress, Editing
    <2>2. editing' # NoCommit
      BY <1>14, <2>1, EditedPlace, Parts DEF SetEdit
    <2> QED
      BY <1>e, <1>14, <2>1, <2>2 DEF SetEdit, GoesOn, Afterwards, Editing
  <1>15. CASE PublishEdit
    <2>1. at \in new /\ \A d \in Changes : patchsets[d] # <<>> => patchsets'[d] # <<>>
      BY <1>15, Published
    <2>2. pc = "publish" /\ pc' \in {"read", "move"} /\ UNCHANGED <<sent, new, edits, at, moved>>
      BY <1>15 DEF PublishEdit, GoesOn, GivesUp, WarnsOf, Afterwards
    <2> QED
      BY <1>e, <2>1, <2>2 DEF Editing
  <1>16. CASE ReadFinal
    <2>1. /\ pc = "read" /\ pc' = "edit" /\ at' = at + 1 /\ UNCHANGED <<patchsets, sent, new>>
          /\ moved' = [moved EXCEPT ![at] = Current(Change)]
      BY <1>16 DEF ReadFinal, Afterwards
    <2>2. at \in new
      BY <2>1 DEF Progress, Editing
    <2>3. \A k \in Spot : Restored(k)' => k \in new' /\ k < at'
      BY <1>0, <2>1, <2>2 DEF Progress, Editing, Restored
    <2>4. \A k \in new' : patchsets'[sent'[k].change] # <<>>
      BY <2>1 DEF Progress, After, Editing
    <2> QED
      BY <2>1, <2>3, <2>4 DEF Progress, After, Editing, Before
  <1>17. CASE EditFails
    BY <1>e, <1>17 DEF EditFails, GivesUp, WarnsOf, Afterwards, Editing
  <1>18. CASE MoveHead
    BY <1>18 DEF MoveHead, server, Progress, After, Editing, Before, Restored
  <1>19. CASE LeaveHead
    BY <1>19 DEF LeaveHead, server, Progress, After, Editing, Before, Restored
  <1>20. CASE UserAmends
    BY <1>s, <1>20 DEF UserAmends, server
  <1>21. ASSUME NEW c \in Changes, OtherUploads(c) PROVE Progress'
    BY <1>s, <1>21, Uploaded DEF OtherUploads
  <1>22. ASSUME NEW c \in Changes, OtherCloses(c) PROVE Progress'
    BY <1>s, <1>22 DEF OtherCloses
  <1>23. CASE UNCHANGED vars
    BY <1>s, <1>23 DEF vars, server
  <1> QED
    BY <1>1, <1>2, <1>3, <1>4, <1>5, <1>6, <1>7, <1>8, <1>9, <1>10, <1>11, <1>12, <1>13, <1>14,
       <1>15, <1>16, <1>17, <1>18, <1>19, <1>20, <1>21, <1>22, <1>23 DEF Next, Proceeds, Others

-----------------------------------------------------------------------------
(* The authors.                                                            *)

LEMMA GivenStep ==
  ASSUME TypeOK, Planned, Progress, GivenBack, [Next]_vars
  PROVE  GivenBack'
  <1> USE DEF local, plan, back
  <1>0. at \in Nat
    BY UploadAssumption DEF TypeOK
  <1>p. pc \in Before \cup After => edits \subseteq new /\ edits \subseteq Spot /\ Spot \subseteq Nat
    BY PlannedPlaces DEF Spot
  <1>g. \A k : UNCHANGED <<patchsets, sent>> => Given(k)' = Given(k)
    BY DEF Given, Current
  <1>n. pc' \notin Editing \cup {"move", "done"} => GivenBack'
    BY DEF GivenBack
  (* A step of the loop, which may end it. *)
  <1> DEFINE Warns == /\ pc' = "move" /\ warned' = TRUE
                      /\ \A k \in edits : ~Restored(k) /\ k \in found => k \in left'
  <1>e. ASSUME pc \in Editing, UNCHANGED <<sent, edits, at, found, moved>>,
               \A k \in edits : Restored(k) \/ k < at => Given(k)',
               \/ pc' \in Editing /\ (pc' = "read" /\ at \in edits => Given(at)')
               \/ Warns
               \/ pc' = "move" /\ \A k \in edits : k < at
        PROVE  GivenBack'
    BY <1>e DEF GivenBack, Editing
  <1>b. pc \in Editing => \A k \in edits : Restored(k) \/ k < at => Given(k)
    BY <1>p DEF GivenBack, Progress, Editing, After
  <1>1. CASE Begin
    BY <1>n, <1>1 DEF Begin, Editing
  <1>2. CASE Refuse
    BY <1>n, <1>2 DEF Refuse, Editing
  <1>3. CASE Accept
    BY <1>n, <1>3 DEF Accept, Editing
  <1>4. CASE Rewrite
    BY <1>n, <1>4 DEF Rewrite, Editing
  <1>5. CASE Push
    BY <1>n, <1>5 DEF Push, Editing
  <1>6. CASE PushFails
    BY <1>n, <1>6 DEF PushFails, Editing
  <1>7. CASE Restore
    BY <1>n, <1>7 DEF Restore, Editing
  <1>8. CASE Find
    <2>1. pc = "find" /\ at' = 1 /\ edits' = edits
      BY <1>8 DEF Find, Progress
    <2>2. edits \subseteq Nat \ {0}
      BY <1>p, <2>1 DEF After, Spot
    <2>3. CASE edits = {}
      BY <1>8, <2>1, <2>3 DEF Find, GivenBack, Editing
    <2>4. CASE edits # {}
      BY <1>8, <2>1, <2>2, <2>4 DEF Find, GivenBack, Editing
    <2> QED
      BY <2>3, <2>4
  <1>9. CASE EditNone
    <2>1. /\ pc = "edit" /\ pc' = "edit" /\ at' = at + 1 /\ at \notin edits
          /\ UNCHANGED <<patchsets, sent, edits>>
      <3>1. pc = "edit" /\ NothingToDo /\ (at \notin new \/ ~InTheWay)
        BY <1>9 DEF EditNone
      <3>2. at \notin edits
        BY <1>p, <3>1 DEF NothingToDo, InTheWay, After, Editing
      <3> QED
        BY <1>9, <3>1, <3>2 DEF EditNone, Afterwards
    <2>2. \A k \in edits : k < at + 1 => k < at
      BY <1>0, <1>p, <2>1 DEF After, Editing
    <2> QED
      BY <1>b, <1>g, <2>1, <2>2 DEF GivenBack, Editing
  <1>10. CASE EditUnfound
    BY <1>b, <1>e, <1>g, <1>10 DEF EditUnfound, WarnsOf, Afterwards, Editing
  <1>11. CASE EditOne
    BY <1>b, <1>e, <1>g, <1>11 DEF EditOne, GoesOn, Afterwards, Editing
  <1>12. CASE EditedAll
    <2>1. \A k \in edits : k < at
      BY <1>0, <1>12, PlannedPlaces DEF EditedAll, After, Editing
    <2> QED
      BY <1>b, <1>e, <1>g, <1>12, <2>1 DEF EditedAll, GoesOn, Afterwards, Editing
  <1>13. CASE Rebase
    <2>1. pc = "rebase" /\ pc \in Editing /\ at \in new
      BY <1>13, Rebased DEF Rebase, Editing
    <2>2. UNCHANGED <<sent, edits, at, found, moved>>
      BY <1>13 DEF Rebase, GoesOn, GivesUp, WarnsOf, Afterwards
    <2>3. \A k \in edits : Restored(k) \/ k < at => Given(k)'
      <3>1. ASSUME NEW k \in edits, Restored(k) \/ k < at
            PROVE  sent[k].change \in Changes \ {Change}
        BY <1>0, <1>p, <2>1, <3>1, EditedPlace, PlannedPlaces DEF Progress, After, Editing
      <3>2. ASSUME NEW k \in edits, Restored(k) \/ k < at
            PROVE  Current(sent[k].change)' = Current(sent[k].change)
        BY <1>13, <2>2, <3>1, <3>2, Rebased DEF Current
      <3> QED
        BY <1>b, <2>1, <2>2, <3>2 DEF Given
    <2>4. \/ pc' \in Editing /\ (pc' = "read" => at \notin edits)
          \/ Warns
      BY <1>13 DEF Rebase, GoesOn, GivesUp, WarnsOf, Editing
    <2> QED
      BY <1>e, <2>1, <2>2, <2>3, <2>4
  <1>14. CASE SetEdit
    BY <1>b, <1>e, <1>g, <1>14 DEF SetEdit, GoesOn, Afterwards, Editing
  <1>15. CASE PublishEdit
    <2>1. pc = "publish" /\ pc \in Editing /\ at \in new
      BY <1>15, Published DEF PublishEdit, Editing
    <2>2. UNCHANGED <<sent, edits, at, found, moved>>
      BY <1>15 DEF PublishEdit, GoesOn, GivesUp, WarnsOf, Afterwards
    <2>3. \A k \in edits : Restored(k) \/ k < at => Given(k)'
      <3>1. ASSUME NEW k \in edits, Restored(k) \/ k < at
            PROVE  sent[k].change \in Changes \ {Change}
        BY <1>0, <1>p, <2>1, <3>1, EditedPlace, PlannedPlaces DEF Progress, After, Editing
      <3>2. ASSUME NEW k \in edits, Restored(k) \/ k < at
            PROVE  Current(sent[k].change)' = Current(sent[k].change)
        BY <1>15, <2>2, <3>1, <3>2, Published DEF Current
      <3> QED
        BY <1>b, <2>1, <2>2, <3>2 DEF Given
    <2>4. Given(at)'
      <3>1. Current(Change)' = PublishedAs /\ Tip(PublishedAs).as = "own"
        BY <1>15, Published
      <3> QED
        BY <2>2, <3>1 DEF Given, Change
    <2>5. \/ pc' \in Editing
          \/ Warns
      BY <1>15 DEF PublishEdit, GoesOn, GivesUp, WarnsOf, Editing
    <2> QED
      BY <1>e, <2>1, <2>2, <2>3, <2>4, <2>5
  <1>16. CASE ReadFinal
    <2>1. pc = "read" /\ pc' = "edit" /\ at' = at + 1 /\ UNCHANGED <<patchsets, sent, edits>>
      BY <1>16 DEF ReadFinal, Afterwards
    <2>2. \A k \in edits : k < at + 1 => k < at \/ k = at
      BY <1>0, <1>p, <2>1 DEF After, Editing
    <2> QED
      BY <1>g, <2>1, <2>2 DEF GivenBack, Editing
  <1>17. CASE EditFails
    BY <1>b, <1>e, <1>g, <1>17 DEF EditFails, GivesUp, WarnsOf, Afterwards, Editing
  <1>18. CASE MoveHead
    BY <1>g, <1>18 DEF MoveHead, server, GivenBack, Editing
  <1>19. CASE LeaveHead
    BY <1>g, <1>19 DEF LeaveHead, server, GivenBack, Editing
  <1>20. CASE UserAmends
    BY <1>g, <1>20 DEF UserAmends, server, GivenBack
  <1>21. ASSUME NEW c \in Changes, OtherUploads(c) PROVE GivenBack'
    <2>1. \A k : Given(k) /\ sent[k].change \in Changes => Given(k)'
      <3>1. ASSUME NEW k, Given(k), sent[k].change \in Changes PROVE Given(k)'
        <4>1. sent' = sent
          BY <1>21 DEF OtherUploads
        <4>2. CASE sent[k].change = c
          BY <1>21, <4>1, <4>2, Uploaded DEF Given, Current
        <4>3. CASE sent[k].change # c
          <5>1. Current(sent[k].change)' = Current(sent[k].change)
            BY <1>21, <3>1, <4>1, <4>3, Uploaded DEF Current
          <5> QED
            BY <3>1, <4>1, <5>1 DEF Given
        <4> QED
          BY <4>2, <4>3
      <3> QED
        BY <3>1
    <2>2. pc \in After => \A k \in edits : sent[k].change \in Changes
      BY PlannedPlaces
    <2> QED
      BY <1>21, <2>1, <2>2 DEF OtherUploads, GivenBack, After
  <1>22. ASSUME NEW c \in Changes, OtherCloses(c) PROVE GivenBack'
    BY <1>g, <1>22 DEF OtherCloses, GivenBack
  <1>23. CASE UNCHANGED vars
    BY <1>g, <1>23 DEF vars, server, GivenBack
  <1> QED
    BY <1>1, <1>2, <1>3, <1>4, <1>5, <1>6, <1>7, <1>8, <1>9, <1>10, <1>11, <1>12, <1>13, <1>14,
       <1>15, <1>16, <1>17, <1>18, <1>19, <1>20, <1>21, <1>22, <1>23 DEF Next, Proceeds, Others

-----------------------------------------------------------------------------
(* An upload nobody disturbs.                                              *)

LEMMA NowCommit ==
  ASSUME TypeOK, Planned, pc \in After, NEW k \in 1..Len(sent)
  PROVE  /\ Now(k) \in Commit
         /\ ~Restored(k) => /\ Now(k) = UpTo(sent, k) /\ Len(Now(k)) = k
                            /\ \A j \in 1..k : Now(k)[j] = sent[j]
         /\ Restored(k) => Now(k) = moved[k]
  <1>1. sent \in Commit /\ Len(sent) \in Nat \ {0} /\ Len(sent) <= N /\ N \in Nat
    BY PlannedPlaces, UploadAssumption
  <1>2. k \in Spot
    BY <1>1 DEF Spot
  <1>3. CASE Restored(k)
    BY <1>2, <1>3 DEF TypeOK, Now, Restored
  <1>4. CASE ~Restored(k)
    BY <1>1, <1>4, Prefix DEF Now
  <1> QED
    BY <1>3, <1>4

(* Below a place that nothing below was moved to, there is only what was   *)
(* sent.                                                                   *)
LEMMA UnmovedBelow ==
  ASSUME TypeOK, Planned, Progress, pc \in Editing, at \in new, ~ParentMoved, Walked(at - 1)
  PROVE  \A i \in 1..at - 1 : ~Restored(i)
  <1>1. at \in Nat \ {0}
    BY DEF TypeOK
  <1>2. ASSUME NEW i \in 1..at - 1, Restored(i) PROVE FALSE
    <2>1. at > 1 /\ at - 1 \in 1..at - 1 /\ ~Restored(at - 1)
      BY <1>1, <1>2 DEF ParentMoved, Restored
    <2>2. CASE i = at - 1
      BY <1>2, <2>1, <2>2
    <2>3. CASE i < at - 1
      BY <1>2, <2>1, <2>3 DEF Walked
    <2> QED
      BY <1>1, <2>2, <2>3
  <1> QED
    BY <1>2

(* The commit that was sent is on top of others that were.                 *)
LEMMA SentOnTop ==
  ASSUME TypeOK, Planned, pc \in After, NEW k \in 1..Len(sent),
         \A i \in 1..k - 1 : ~Restored(i)
  PROVE  OnTop(UpTo(sent, k), k)
  <1>1. sent \in Commit /\ Len(sent) \in Nat \ {0}
    BY PlannedPlaces
  <1>2. Len(UpTo(sent, k)) = k /\ \A j \in 1..k : UpTo(sent, k)[j] = sent[j]
    BY <1>1, Prefix
  <1>3. ASSUME NEW i \in 1..k - 1, NEW j \in 1..i PROVE UpTo(sent, k)[j] = Now(i)[j]
    <2>1. i \in 1..Len(sent) /\ j \in 1..k
      BY <1>1
    <2> QED
      BY <1>2, <1>3, <2>1, NowCommit
  <1> QED
    BY <1>2, <1>3 DEF OnTop

LEMMA CopiedNone ==
  ASSUME NEW x \in Commit, NEW also
  PROVE  Copied(x, {}, also) = x
  <1>1. x \in [1..Len(x) -> Patch]
    BY Parts
  <1>2. Copied(x, {}, also) = [k \in 1..Len(x) |-> x[k]]
    BY DEF Copied
  <1> QED
    BY <1>1, <1>2

ChainInv == Chained /\ AuthorsAreBack

LEMMA ChainedStep ==
  ASSUME TypeOK, Lengths, Planned, Progress, ChainInv, [Next]_vars
  PROVE  ChainInv'
  <1> USE DEF local, plan, back, ChainInv
  <1> SUFFICES ASSUME ~touched', ~warned'
               PROVE  ChainInv'
    BY DEF Chained, AuthorsAreBack
  <1>0. /\ N \in Nat \ {0} /\ at \in Nat \ {0}
        /\ touched \in BOOLEAN /\ warned \in BOOLEAN
    BY UploadAssumption DEF TypeOK
  <1>n. pc' \in {"raised", "restore", "idle"} => ChainInv'
    BY DEF Chained, AuthorsAreBack, Editing
  <1>a. pc' # "done" => AuthorsAreBack'
    BY DEF AuthorsAreBack
  (* What was walked stays so as long as the changes below do.             *)
  <1>w. ASSUME NEW n \in Nat, Walked(n), UNCHANGED <<sent, moved, new, edits>>,
               \A k \in new : k <= n => Current(sent[k].change)' = Current(sent[k].change)
        PROVE  Walked(n)'
    <2>1. \A k : Now(k)' = Now(k) /\ Restored(k)' = Restored(k)
      BY <1>w DEF Now, Restored
    <2>2. \A k \in 1..n : OnTop(Now(k), k)'
      BY <1>w, <2>1 DEF Walked, OnTop
    <2>3. \A k \in new' : k <= n => (Current(sent[k].change) = Now(k))'
      BY <1>w, <2>1 DEF Walked
    <2> QED
      BY <1>w, <2>1, <2>2, <2>3 DEF Walked
  <1>u. ASSUME NEW k \in 1..N, NEW x, OnTop(x, k), UNCHANGED <<sent, moved>>
        PROVE  OnTop(x, k)'
    <2>1. \A i : Now(i)' = Now(i)
      BY <1>u DEF Now, Restored
    <2> QED
      BY <1>u, <2>1 DEF OnTop
  <1>t. pc \in Editing /\ at \in new =>
          /\ at \in 1..Len(sent) /\ at \in 1..N
          /\ Change \in Changes /\ Current(Change) \in Commit
          /\ \A k \in new : sent[k].change \in Changes
          /\ \A k \in new : k # at => sent[k].change # Change
    BY EditedPlace, PlannedPlaces DEF Spot, After
  (* A step of the loop that changes Gerrit at this place only.            *)
  <1>e. ASSUME pc \in Editing, at \in new, ~touched, ~warned,
               UNCHANGED <<head, sent, moved, new, edits, at>>,
               \A d \in Changes \ {Change} : Current(d)' = Current(d),
               pc' \in {"rebase", "author", "publish", "read"},
               pc' = "rebase" => Current(Change)' = UpTo(sent, at),
               pc' \in {"author", "publish", "read"} => OnTop(Current(Change)', at),
               pc' = "publish" => editing' = Current(Change)',
               pc' = "read" /\ at \in edits => Current(Change)'[at].as = "own"
        PROVE  ChainInv'
    <2>1. /\ at \in 1..Len(sent) /\ at \in 1..N /\ at - 1 \in Nat
          /\ \A k \in new : k # at => Current(sent[k].change)' = Current(sent[k].change)
      <3>1. at \in 1..Len(sent) /\ at \in 1..N /\ at - 1 \in Nat
        BY <1>0, <1>e, <1>t
      <3>2. ASSUME NEW k \in new, k # at PROVE Current(sent[k].change)' = Current(sent[k].change)
        <4>1. sent[k].change \in Changes \ {Change}
          BY <1>e, <1>t, <3>2
        <4>2. Current(sent[k].change)' = Tip(patchsets'[sent[k].change])
          BY <1>e DEF Current
        <4> QED
          BY <1>e, <4>1, <4>2 DEF Current
      <3> QED
        BY <3>1, <3>2
    <2>2. /\ at <= Len(sent) + 1 /\ Walked(at - 1) /\ head = sent
          /\ \A k \in new : k > at => Current(sent[k].change) = UpTo(sent, k)
      BY <1>e DEF Chained
    <2>3. \A k \in new : k <= at - 1 => k # at
      BY <2>1
    <2>4. Walked(at - 1)'
      <3>1. PICK n \in Nat : n = at - 1
        BY <2>1
      <3>2. Walked(n)
        BY <2>2, <3>1
      <3>3. \A k \in new : k <= n => Current(sent[k].change)' = Current(sent[k].change)
        BY <2>1, <2>3, <3>1
      <3>4. Walked(n)'
        BY <1>e, <1>w, <3>2, <3>3
      <3>5. at' - 1 = n
        BY <1>e, <3>1
      <3> QED
        BY <3>4, <3>5
    <2>6. \A k \in new' : k > at' => (Current(sent[k].change) = UpTo(sent, k))'
      <3>1. ASSUME NEW k \in new, k > at PROVE (Current(sent[k].change) = UpTo(sent, k))'
        BY <1>e, <2>1, <2>2, <3>1
      <3> QED
        BY <1>e, <3>1
    <2>7. pc' \in {"author", "publish", "read"} => OnTop(Current(Change), at)'
      <3>1. UNCHANGED <<sent, moved>> /\ at' = at
        BY <1>e
      <3>2. \A i : Now(i)' = Now(i)
        BY <3>1 DEF Now, Restored
      <3> QED
        BY <1>e, <3>1, <3>2 DEF OnTop
    <2> QED
      BY <1>a, <1>e, <2>2, <2>4, <2>6, <2>7 DEF Chained, Editing, Change
  <1>1. CASE Begin
    BY <1>1 DEF Begin, Chained, AuthorsAreBack, Editing
  <1>2. CASE Refuse
    BY <1>n, <1>2 DEF Refuse
  <1>3. CASE Accept
    <2>1. head = from /\ from \in Commit /\ head' = head /\ from' = from /\ pc' \in {"rewrite", "push"}
      BY <1>3 DEF Accept, Chained, Lengths, TypeOK
    <2>2. pc' = "push" => sent' = from
      BY <1>3, <2>1, CopiedNone DEF Accept
    <2> QED
      BY <1>a, <2>1, <2>2 DEF Chained, Editing
  <1>4. CASE Rewrite
    BY <1>4 DEF Rewrite, MovesHead, Chained, AuthorsAreBack, Editing
  <1>5. CASE Push
    <2>1. head = sent /\ UNCHANGED <<head, sent, new>> /\ pc' = "find"
      BY <1>5 DEF Push, Chained
    <2>2. \A k \in new : Current(sent[k].change)' = UpTo(sent, k)
      BY <1>5, <2>1, Taken DEF Push, Before, Current
    <2> QED
      BY <1>a, <2>1, <2>2 DEF Chained, Editing
  <1>6. CASE PushFails
    BY <1>n, <1>6 DEF PushFails
  <1>7. CASE Restore
    BY <1>n, <1>7 DEF Restore
  <1>8. CASE Find
    <2>1. /\ UNCHANGED <<head, patchsets, sent, new, edits, moved, at>>
          /\ head = sent /\ at = 1 /\ moved = Nowhere
          /\ \A k \in new : Current(sent[k].change) = UpTo(sent, k)
          /\ pc' = IF edits = {} THEN "done" ELSE "edit"
      BY <1>8 DEF Find, server, Chained, Progress
    <2>2. \A k \in new' : (Current(sent[k].change) = UpTo(sent, k))'
      BY <2>1 DEF Current
    <2>3. CASE edits = {}
      BY <2>1, <2>2, <2>3 DEF Chained, AuthorsAreBack, Editing
    <2>4. CASE edits # {}
      <3>1. sent \in Commit /\ Len(sent) \in Nat \ {0} /\ edits \subseteq new /\ new \subseteq 1..Len(sent)
        BY <1>8, PlannedPlaces DEF Find, After
      <3>2. Walked(0)'
        BY <2>1, <3>1 DEF Walked
      <3>3. at' = 1 /\ at' <= Len(sent') + 1 /\ head' = sent' /\ pc' = "edit"
        <4>1. at' = 1 /\ sent' = sent /\ head' = sent
          BY <2>1
        <4>2. pc' = "edit"
          BY <2>1, <2>4
        <4>3. 1 <= Len(sent) + 1
          BY <3>1
        <4> QED
          BY <4>1, <4>2, <4>3
      <3>4. at' \in new' => (Current(Change) = UpTo(sent, at))'
        BY <2>2 DEF Change
      <3> QED
        BY <1>a, <2>2, <3>2, <3>3, <3>4 DEF Chained, Editing
    <2> QED
      BY <2>3, <2>4
  <1>9. CASE EditNone
    <2>0. /\ pc = "edit" /\ pc' = "edit" /\ at' = at + 1 /\ at <= Len(sent)
          /\ UNCHANGED <<head, patchsets, sent, new, edits, moved>>
          /\ ~touched /\ ~warned
      BY <1>9 DEF EditNone, Afterwards
    <2>1. /\ head = sent /\ Walked(at - 1)
          /\ \A k \in new : k > at => Current(sent[k].change) = UpTo(sent, k)
          /\ at \in new => Current(Change) = UpTo(sent, at)
      BY <2>0 DEF Chained, Editing
    <2>2. /\ sent \in Commit /\ Len(sent) \in Nat \ {0} /\ Len(sent) <= N
          /\ edits \subseteq new /\ new \subseteq 1..Len(sent)
          /\ \A k \in new : k..Len(sent) \subseteq new
          /\ at \in 1..Len(sent) /\ pc \in After
      BY <1>0, <2>0, PlannedPlaces DEF After, Editing, Planned
    <2>3. \A k \in Spot : Restored(k) => k \in new /\ k < at
      BY <2>0 DEF Progress, Editing
    <2>4. 1..at \subseteq Spot /\ ~Restored(at)
      BY <1>0, <2>2, <2>3 DEF Spot
    <2>5. at \notin edits /\ \A i \in 1..at - 1 : ~Restored(i)
      <3>1. NothingToDo /\ (at \notin new \/ ~InTheWay)
        BY <1>9 DEF EditNone
      <3>2. CASE at \notin new
        <4>1. ASSUME NEW i \in 1..at - 1, Restored(i) PROVE FALSE
          <5>1. i \in new
            BY <2>2, <2>3, <2>4, <4>1
          <5>2. at \in i..Len(sent)
            BY <2>2
          <5> QED
            BY <2>2, <3>2, <5>1, <5>2
        <4> QED
          BY <2>2, <3>2, <4>1
      <3>3. CASE at \in new /\ at \notin found
        <4>1. 1..at - 1 \subseteq Spot
          BY <2>2, <2>4
        <4> QED
          BY <3>1, <3>3, <4>1 DEF InTheWay
      <3>4. CASE at \in new /\ at \in found
        <4>1. ~ParentMoved /\ at \notin edits
          BY <3>1, <3>4 DEF NothingToDo
        <4> QED
          BY <2>0, <2>1, <3>4, <4>1, UnmovedBelow DEF Editing
      <3> QED
        BY <3>2, <3>3, <3>4
    <2>6. Walked(at)
      <3>1. Now(at) = UpTo(sent, at) /\ OnTop(Now(at), at)
        BY <2>2, <2>4, <2>5, NowCommit, SentOnTop
      <3>2. \A k \in 1..at : k = at \/ k \in 1..at - 1
        BY <1>0
      <3>3. \A k \in 1..at : OnTop(Now(k), k)
        BY <2>1, <3>1, <3>2 DEF Walked
      <3>4. \A k \in new : k <= at => k = at \/ k <= at - 1
        BY <1>0, <2>2
      <3>5. \A k \in new : k <= at => Current(sent[k].change) = Now(k)
        BY <2>1, <3>1, <3>4 DEF Walked, Change
      <3>6. \A k \in edits : k <= at => Restored(k) /\ Now(k)[k].as = "own"
        BY <2>1, <2>2, <2>5, <3>4 DEF Walked
      <3>7. \A j, k \in 1..at : j < k /\ Restored(j) => Restored(k)
        BY <1>0, <2>4, <2>5, <3>2
      <3> QED
        BY <3>3, <3>5, <3>6, <3>7 DEF Walked
    <2>7. Walked(at - 1)'
      <3>1. PICK n \in Nat : n = at
        BY <1>0
      <3>2. Walked(n)
        BY <2>6, <3>1
      <3>3. \A k \in new : Current(sent[k].change)' = Current(sent[k].change)
        BY <2>0 DEF Current
      <3>4. Walked(n)'
        BY <1>w, <2>0, <3>2, <3>3
      <3>5. at' - 1 = n
        BY <1>0, <2>0, <3>1
      <3> QED
        BY <3>4, <3>5
    <2>9. \A k \in new' : k >= at' => (Current(sent[k].change) = UpTo(sent, k))'
      BY <1>0, <2>0, <2>1, <2>2 DEF Current
    <2>10. at' \in new' => (Current(Change) = UpTo(sent, at))'
      BY <1>0, <2>0, <2>9 DEF Change
    <2> QED
      BY <1>0, <1>a, <2>0, <2>1, <2>2, <2>7, <2>9, <2>10 DEF Chained, Editing
  <1>10. CASE EditUnfound
    BY <1>10 DEF EditUnfound, WarnsOf
  <1>11. CASE EditOne
    <2>0. /\ pc = "edit" /\ pc' = IF ParentMoved THEN "rebase" ELSE "author"
          /\ UNCHANGED <<head, patchsets, sent, new, edits, moved, at>>
          /\ ~touched /\ ~warned /\ at \in new /\ pc \in Editing /\ pc \in After
      BY <1>11 DEF EditOne, GoesOn, Afterwards, NothingToDo, Editing, After
    <2>1. Walked(at - 1) /\ Current(Change) = UpTo(sent, at)
      BY <2>0 DEF Chained
    <2>2. /\ Current(Change)' = Current(Change)
          /\ \A d \in Changes \ {Change} : Current(d)' = Current(d)
      BY <2>0 DEF Current, Change
    <2>3. ~ParentMoved => OnTop(Current(Change), at)
      BY <1>t, <2>0, <2>1, UnmovedBelow, SentOnTop
    <2> QED
      BY <1>e, <2>0, <2>1, <2>2, <2>3
  <1>12. CASE EditedAll
    <2>0. /\ pc = "edit" /\ pc' = "move" /\ at > Len(sent)
          /\ UNCHANGED <<head, patchsets, sent, new, edits, moved>>
          /\ ~touched /\ ~warned
      BY <1>12 DEF EditedAll, GoesOn, Afterwards
    <2>1. head = sent /\ Walked(at - 1) /\ at <= Len(sent) + 1 /\ Len(sent) \in Nat
      BY <2>0, PlannedPlaces DEF Chained, Editing, After
    <2>2. at - 1 = Len(sent)
      BY <1>0, <2>0, <2>1
    <2>3. Walked(Len(sent))
      BY <2>1, <2>2
    <2>4. \A k \in new : Current(sent[k].change)' = Current(sent[k].change)
      BY <2>0 DEF Current
    <2>5. Walked(Len(sent))'
      <3>1. PICK n \in Nat : n = Len(sent)
        BY <2>1
      <3>2. Walked(n)
        BY <2>3, <3>1
      <3>3. Walked(n)'
        BY <1>w, <2>0, <2>4, <3>2
      <3>4. Len(sent') = n
        BY <2>0, <3>1
      <3> QED
        BY <3>3, <3>4
    <2> QED
      BY <1>a, <2>0, <2>1, <2>5 DEF Chained, Editing
  <1>13. CASE Rebase
    <2>0. /\ pc = "rebase" /\ pc \in Editing /\ pc' = IF at \in edits THEN "author" ELSE "read"
          /\ UNCHANGED <<head, sent, new, edits, moved, at>>
          /\ ~touched /\ ~warned
      BY <1>13 DEF Rebase, GoesOn, GivesUp, WarnsOf, Afterwards, Editing
    <2>1. /\ at \in new /\ Len(RebasedTo) = Len(moved[at - 1]) + 1
          /\ \A j \in 1..Len(moved[at - 1]) : RebasedTo[j] = moved[at - 1][j]
          /\ Current(Change)' = RebasedTo
          /\ \A d \in Changes \ {Change} : Current(d)' = Current(d)
      BY <1>13, Rebased
    <2>2. Walked(at - 1) /\ ParentMoved
      BY <2>0 DEF Chained, Progress
    <2>3. at > 1 /\ Now(at - 1) = moved[at - 1] /\ at - 1 \in 1..at - 1
      BY <1>0, <2>2 DEF ParentMoved, Now, Restored
    <2>4. OnTop(moved[at - 1], at - 1)
      BY <2>2, <2>3 DEF Walked
    <2>5. OnTop(RebasedTo, at)
      <3>1. Len(moved[at - 1]) = at - 1
        BY <2>4 DEF OnTop
      <3>2. ASSUME NEW i \in 1..at - 1, NEW j \in 1..i PROVE RebasedTo[j] = Now(i)[j]
        <4>1. j \in 1..at - 1 /\ RebasedTo[j] = moved[at - 1][j]
          BY <1>0, <2>1, <3>1
        <4>2. CASE i = at - 1
          BY <2>3, <4>1, <4>2
        <4>3. CASE i # at - 1
          <5>1. i \in 1..(at - 1) - 1
            BY <1>0, <4>3
          <5> QED
            BY <2>4, <4>1, <5>1 DEF OnTop
        <4> QED
          BY <4>2, <4>3
      <3> QED
        BY <1>0, <2>1, <3>1, <3>2 DEF OnTop
    <2> QED
      BY <1>e, <2>0, <2>1, <2>5
  <1>14. CASE SetEdit
    <2>0. /\ pc = "author" /\ pc \in Editing /\ pc' = "publish"
          /\ UNCHANGED <<head, patchsets, sent, new, edits, moved, at>>
          /\ ~touched /\ ~warned /\ editing' = Current(Change)
      BY <1>14 DEF SetEdit, GoesOn, Afterwards, Editing
    <2>1. at \in new /\ OnTop(Current(Change), at)
      BY <2>0 DEF Chained, Progress
    <2>2. /\ Current(Change)' = Current(Change)
          /\ \A d \in Changes \ {Change} : Current(d)' = Current(d)
      BY <2>0 DEF Current, Change
    <2> QED
      BY <1>e, <2>0, <2>1, <2>2
  <1>15. CASE PublishEdit
    <2>0. /\ pc = "publish" /\ pc \in Editing /\ pc' = "read"
          /\ UNCHANGED <<head, sent, new, edits, moved, at>>
          /\ ~touched /\ ~warned
      BY <1>15 DEF PublishEdit, GoesOn, GivesUp, WarnsOf, Afterwards, Editing
    <2>1. /\ at \in new /\ PublishedAs \in Commit /\ Len(PublishedAs) = Len(editing)
          /\ \A j \in 1..Len(editing) - 1 : PublishedAs[j] = editing[j]
          /\ Tip(PublishedAs).as = "own"
          /\ Current(Change)' = PublishedAs
          /\ \A d \in Changes \ {Change} : Current(d)' = Current(d)
      BY <1>15, Published
    <2>2. editing = Current(Change) /\ OnTop(editing, at)
      BY <2>0 DEF Chained
    <2>3. Len(PublishedAs) = at /\ PublishedAs[at].as = "own"
      BY <2>1, <2>2 DEF OnTop, Tip
    <2>4. OnTop(PublishedAs, at)
      <3>1. ASSUME NEW i \in 1..at - 1, NEW j \in 1..i PROVE PublishedAs[j] = Now(i)[j]
        <4>1. j \in 1..at - 1
          BY <1>0
        <4> QED
          BY <2>1, <2>2, <4>1 DEF OnTop
      <3> QED
        BY <2>3, <3>1 DEF OnTop
    <2> QED
      BY <1>e, <2>0, <2>1, <2>3, <2>4
  <1>16. CASE ReadFinal
    <2>0. /\ pc = "read" /\ pc \in Editing /\ pc' = "edit" /\ at' = at + 1
          /\ UNCHANGED <<head, patchsets, sent, new, edits>>
          /\ moved' = [moved EXCEPT ![at] = Current(Change)]
          /\ ~touched /\ ~warned
      BY <1>16 DEF ReadFinal, Afterwards, Editing
    <2>1. /\ head = sent /\ Walked(at - 1) /\ OnTop(Current(Change), at) /\ at \in new
          /\ \A k \in new : k > at => Current(sent[k].change) = UpTo(sent, k)
          /\ at \in edits => Current(Change)[at].as = "own"
      BY <2>0 DEF Chained, Progress
    <2>2. /\ at \in 1..Len(sent) /\ Len(sent) \in Nat /\ Len(sent) <= N /\ at \in Spot
          /\ Current(Change) \in Commit
          /\ edits \subseteq new /\ new \subseteq 1..Len(sent) /\ 1..Len(sent) \subseteq Spot
      BY <1>0, <2>0, <2>1, EditedPlace, PlannedPlaces DEF After, Spot
    <2>n. PICK n \in Nat : n = at
      BY <1>0
    <2>3. /\ Restored(n)' /\ Now(n)' = Current(Change)
          /\ \A k \in Spot \ {n} : Restored(k)' = Restored(k) /\ Now(k)' = Now(k)
      <3>1. moved'[n] = Current(Change) /\ \A k \in Spot \ {n} : moved'[k] = moved[k]
        BY <2>0, <2>2, <2>n DEF TypeOK
      <3>2. Current(Change) # NoCommit
        BY <2>2, Parts
      <3> QED
        BY <2>0, <3>1, <3>2 DEF Restored, Now
    <2>4. \A k \in 1..n : k = n \/ k \in 1..n - 1
      BY <2>n
    <2>5. 1..n - 1 \subseteq Spot \ {n}
      BY <2>2, <2>n DEF Spot
    <2>6. ASSUME NEW k \in 1..n PROVE OnTop(Now(k), k)'
      <3>1. \A i \in 1..k - 1 : Now(i)' = Now(i)
        BY <2>3, <2>5, <2>n
      <3>2. CASE k = n
        <4>1. Now(k)' = Current(Change)
          BY <2>3, <3>2
        <4>2. k = at
          BY <2>n, <3>2
        <4> QED
          BY <2>1, <3>1, <4>1, <4>2 DEF OnTop
      <3>3. CASE k \in 1..n - 1
        <4>1. Now(k)' = Now(k) /\ OnTop(Now(k), k)
          BY <2>1, <2>3, <2>5, <2>n, <3>3 DEF Walked
        <4> QED
          BY <3>1, <4>1 DEF OnTop
      <3> QED
        BY <2>4, <3>2, <3>3
    <2>7. ASSUME NEW k \in new, k <= n PROVE (Current(sent[k].change) = Now(k))'
      <3>1. (Current(sent[k].change))' = Current(sent[k].change)
        BY <2>0 DEF Current
      <3>2. CASE k = n
        <4>1. Current(sent[k].change) = Current(Change)
          BY <2>n, <3>2 DEF Change
        <4>2. Now(k)' = Current(Change)
          BY <2>3, <3>2
        <4> QED
          BY <3>1, <4>1, <4>2
      <3>3. CASE k # n
        <4>1. k \in 1..n - 1 /\ k <= at - 1
          BY <2>2, <2>7, <2>n, <3>3
        <4>2. Now(k)' = Now(k)
          BY <2>3, <2>5, <4>1
        <4>3. Current(sent[k].change) = Now(k)
          BY <2>1, <4>1 DEF Walked
        <4> QED
          BY <3>1, <4>2, <4>3
      <3> QED
        BY <3>2, <3>3
    <2>8. ASSUME NEW k \in edits, k <= n PROVE Restored(k)' /\ Now(k)'[k].as = "own"
      <3>1. CASE k = n
        <4>1. Now(k)' = Current(Change) /\ Restored(k)'
          BY <2>3, <3>1
        <4>2. k = at /\ at \in edits
          BY <2>n, <3>1
        <4> QED
          BY <2>1, <4>1, <4>2
      <3>2. CASE k # n
        <4>1. k \in 1..n - 1 /\ k <= at - 1
          BY <2>2, <2>8, <2>n, <3>2
        <4>2. Now(k)' = Now(k) /\ Restored(k)' = Restored(k)
          BY <2>3, <2>5, <4>1
        <4>3. Restored(k) /\ Now(k)[k].as = "own"
          BY <2>1, <4>1 DEF Walked
        <4> QED
          BY <4>2, <4>3
      <3> QED
        BY <3>1, <3>2
    <2>9. ASSUME NEW j \in 1..n, NEW k \in 1..n, j < k, Restored(j)' PROVE Restored(k)'
      <3>1. CASE k = n
        BY <2>3, <3>1
      <3>2. CASE k # n
        <4>1. k \in 1..n - 1 /\ j \in 1..n - 1
          BY <2>9, <2>n, <3>2
        <4>2. Restored(k)' = Restored(k) /\ Restored(j)' = Restored(j)
          BY <2>3, <2>5, <4>1
        <4>3. Restored(j) => Restored(k)
          BY <2>1, <2>9, <2>n, <4>1 DEF Walked
        <4> QED
          BY <2>9, <4>2, <4>3
      <3> QED
        BY <3>1, <3>2
    <2>10. Walked(at - 1)'
      <3>1. new' = new /\ edits' = edits
        BY <2>0
      <3>2. Walked(n)'
        BY <2>6, <2>7, <2>8, <2>9, <3>1 DEF Walked
      <3>3. at' - 1 = n
        BY <2>0, <2>n
      <3> QED
        BY <3>2, <3>3
    <2>11. \A k \in new' : k >= at' => (Current(sent[k].change) = UpTo(sent, k))'
      BY <1>0, <2>0, <2>1, <2>2 DEF Current
    <2>12. at' \in new' => (Current(Change) = UpTo(sent, at))'
      BY <1>0, <2>0, <2>11 DEF Change
    <2> QED
      BY <1>0, <1>a, <2>0, <2>1, <2>2, <2>10, <2>11, <2>12 DEF Chained, Editing
  <1>17. CASE EditFails
    BY <1>17 DEF EditFails, GivesUp, WarnsOf
  <1>18. CASE MoveHead
    <2>0. /\ pc = "move" /\ pc' = "done" /\ UNCHANGED <<patchsets, sent, new, edits>>
          /\ ~touched /\ ~warned /\ Restored(Len(sent))
          /\ head = sent /\ head' = moved[Len(sent)]
      <3>1. ~warned /\ head = sent /\ SameTrees(moved[Len(sent)], sent)
        BY <1>18 DEF MoveHead
      <3> QED
        BY <1>18, <3>1 DEF MoveHead, MovesHead, server
    <2>1. Walked(Len(sent)) /\ pc \in After
      BY <2>0 DEF Chained, After
    <2>2. /\ sent \in Commit /\ Len(sent) \in Nat \ {0} /\ edits \subseteq new /\ new \subseteq 1..Len(sent)
          /\ Len(sent) \in 1..Len(sent)
      BY <2>1, PlannedPlaces
    <2>3. head' = Now(Len(sent)) /\ head' \in Commit /\ Len(head') = Len(sent)
      BY <2>0, <2>1, <2>2, NowCommit DEF Walked, OnTop
    <2>4. ASSUME NEW k \in new
          PROVE  (Current(sent[k].change) = UpTo(head, k))' /\ head'[k] = Now(k)[k]
      <3>1. k \in 1..Len(sent) /\ Now(k) \in Commit /\ Len(Now(k)) = k
            /\ Current(sent[k].change) = Now(k)
        BY <2>1, <2>2, NowCommit DEF Walked, OnTop
      <3>2. \A j \in 1..k : Now(k)[j] = head'[j]
        <4>1. CASE k = Len(sent)
          BY <2>3, <4>1
        <4>2. CASE k # Len(sent)
          <5>1. k \in 1..Len(sent) - 1
            BY <2>2, <3>1, <4>2
          <5> QED
            BY <2>1, <2>2, <2>3, <5>1 DEF Walked, OnTop
        <4> QED
          BY <4>1, <4>2
      <3>3. Now(k) = UpTo(head', k)
        BY <2>3, <3>1, <3>2, Beginning
      <3>4. k \in 1..k
        BY <2>2, <3>1
      <3> QED
        BY <2>0, <3>1, <3>2, <3>3, <3>4 DEF Current
    <2>5. \A k \in edits : Now(k)[k].as = "own"
      BY <2>1, <2>2 DEF Walked
    <2>6. AuthorsAreBack'
      BY <2>0, <2>2, <2>4, <2>5 DEF AuthorsAreBack
    <2> QED
      BY <2>0, <2>6 DEF Chained, Editing
  <1>19. CASE LeaveHead
    <2>0. /\ pc = "move" /\ pc' = "done" /\ UNCHANGED <<head, patchsets, sent, new, edits>>
          /\ ~touched /\ ~warned /\ ~Restored(Len(sent))
      BY <1>19 DEF LeaveHead, server
    <2>1. head = sent /\ Walked(Len(sent)) /\ pc \in After
      BY <2>0 DEF Chained, After
    <2>2. /\ Len(sent) \in Nat \ {0} /\ edits \subseteq new /\ new \subseteq 1..Len(sent)
      BY <2>1, PlannedPlaces
    <2>3. \A k \in 1..Len(sent) : ~Restored(k)
      <3>1. ASSUME NEW k \in 1..Len(sent), Restored(k) PROVE FALSE
        <4>1. k = Len(sent) \/ k < Len(sent)
          BY <2>2
        <4>2. Len(sent) \in 1..Len(sent)
          BY <2>2
        <4> QED
          BY <2>0, <2>1, <3>1, <4>1, <4>2 DEF Walked
      <3> QED
        BY <3>1
    <2>4. edits = {}
      BY <2>1, <2>2, <2>3 DEF Walked
    <2>5. \A k \in new : (Current(sent[k].change) = UpTo(head, k))'
      <3>1. ASSUME NEW k \in new PROVE (Current(sent[k].change) = UpTo(head, k))'
        <4>1. k \in 1..Len(sent) /\ Current(sent[k].change) = UpTo(sent, k)
          BY <2>1, <2>2, <2>3, NowCommit DEF Walked
        <4> QED
          BY <2>0, <2>1, <4>1 DEF Current
      <3> QED
        BY <3>1
    <2>6. AuthorsAreBack'
      BY <2>0, <2>4, <2>5 DEF AuthorsAreBack
    <2> QED
      BY <2>0, <2>6 DEF Chained, Editing
  <1>20. CASE UserAmends
    BY <1>20 DEF UserAmends
  <1>21. ASSUME NEW c \in Changes, OtherUploads(c) PROVE ChainInv'
    BY <1>21 DEF OtherUploads
  <1>22. ASSUME NEW c \in Changes, OtherCloses(c) PROVE ChainInv'
    BY <1>22 DEF OtherCloses
  <1>23. CASE UNCHANGED vars
    <2>0. UNCHANGED <<patchsets, head, from, sent, new, edits, at, moved, editing, pc, touched, warned>>
      BY <1>23 DEF vars, server
    <2> QED
      BY <2>0 DEF Chained, AuthorsAreBack, Walked, OnTop, Now, Restored, Current, Change, Tip, UpTo
  <1> QED
    BY <1>1, <1>2, <1>3, <1>4, <1>5, <1>6, <1>7, <1>8, <1>9, <1>10, <1>11, <1>12, <1>13, <1>14,
       <1>15, <1>16, <1>17, <1>18, <1>19, <1>20, <1>21, <1>22, <1>23 DEF Next, Proceeds, Others

-----------------------------------------------------------------------------
(* The invariant.                                                          *)

LEMMA LocalCommit ==
  ASSUME NEW n \in 1..N, NEW ids \in [1..n -> 0..N]
  PROVE  LocalRange(ids) \in Commit /\ Len(LocalRange(ids)) = n
  <1>1. N \in Nat \ {0} /\ MaxTrees \in Nat /\ MaxUploads \in Nat \ {0} /\ n \in Nat \ {0}
    BY UploadAssumption
  <1>2. DOMAIN ids = 1..n
    OBVIOUS
  <1>3. ASSUME NEW k \in 1..n
        PROVE  [change |-> ids[k], tree |-> k, as |-> "own", made |-> 0] \in Patch
    <2>1. k \in 0..N + MaxTrees /\ 0 \in 0..2 * MaxUploads
      BY <1>1
    <2> QED
      BY <2>1 DEF Patch
  <1>4. LocalRange(ids) \in [1..n -> Patch]
    BY <1>2, <1>3 DEF LocalRange
  <1> QED
    BY <1>1, <1>4, Made

LEMMA EarlierCommit ==
  ASSUME NEW c \in Changes
  PROVE  Earlier(c) \in Commit
  <1>1. N \in Nat \ {0} /\ MaxTrees \in Nat /\ MaxUploads \in Nat \ {0} /\ c \in 0..N
    BY UploadAssumption DEF Changes
  <1>2. 0 \in 0..N + MaxTrees /\ 0 \in 0..2 * MaxUploads
    BY <1>1
  <1>3. [change |-> c, tree |-> 0, as |-> "own", made |-> 0] \in Patch
    BY <1>1, <1>2 DEF Patch
  <1> QED
    BY <1>3 DEF Earlier, Commit

LEMMA InitIInv ==
  ASSUME Init
  PROVE  IInv
  <1>1. PICK n \in 1..N : \E ids \in [1..n -> 0..N], uploaded \in 0..n, old \in SUBSET Changes :
          head = LocalRange(ids) /\ patchsets = OnGerrit(ids, uploaded, old)
    BY DEF Init
  <1>2. PICK ids \in [1..n -> 0..N], uploaded \in 0..n, old \in SUBSET Changes :
          head = LocalRange(ids) /\ patchsets = OnGerrit(ids, uploaded, old)
    BY <1>1
  <1>3. head \in Commit /\ Len(head) = n /\ mine = head
    BY <1>2, LocalCommit DEF Init
  <1>4. N \in Nat \ {0} /\ MaxTrees \in Nat /\ MaxUploads \in Nat \ {0} /\ n \in Nat
    BY UploadAssumption
  <1>5. ASSUME NEW c \in Changes PROVE OnGerrit(ids, uploaded, old)[c] \in Seq(Commit)
    <2>1. CASE \E k \in 1..uploaded : ids[k] = c
      <3>1. PICK k \in 1..uploaded : k = (CHOOSE j \in 1..uploaded : ids[j] = c)
        BY <2>1
      <3>2. k \in 1..n
        BY <1>4
      <3>3. UpTo(LocalRange(ids), k) \in Commit
        BY <3>2, LocalCommit, Prefix
      <3>4. OnGerrit(ids, uploaded, old)[c] = <<UpTo(LocalRange(ids), k)>>
        BY <2>1, <3>1 DEF OnGerrit
      <3> QED
        BY <3>3, <3>4
    <2>2. CASE ~ \E k \in 1..uploaded : ids[k] = c
      <3>1. OnGerrit(ids, uploaded, old)[c] = IF c \in old THEN <<Earlier(c)>> ELSE <<>>
        BY <2>2 DEF OnGerrit
      <3>2. <<Earlier(c)>> \in Seq(Commit) /\ <<>> \in Seq(Commit)
        BY EarlierCommit
      <3> QED
        BY <3>1, <3>2
    <2> QED
      BY <2>1, <2>2
  <1>6. patchsets \in [Changes -> Seq(Commit)]
    <2>1. /\ DOMAIN OnGerrit(ids, uploaded, old) = Changes
          /\ OnGerrit(ids, uploaded, old) =
               [c \in Changes |-> OnGerrit(ids, uploaded, old)[c]]
      BY DEF OnGerrit
    <2> QED
      BY <1>2, <1>5, <2>1
  <1>7. TypeOK
    <2>1. closed \subseteq Changes /\ kind \in [Spot -> Kinds]
      BY DEF Init
    <2>2. trees \in 0..MaxTrees /\ uploads \in 0..MaxUploads /\ at \in 1..N + 1
      BY <1>4 DEF Init
    <2>3. moved \in [Spot -> Commit \cup {NoCommit}]
      BY DEF Init, Nowhere
    <2>4. pc \in Steps
      BY DEF Init, Steps
    <2> QED
      BY <1>3, <1>6, <2>1, <2>2, <2>3, <2>4 DEF Init, TypeOK
  <1>8. pc = "idle"
    BY DEF Init
  <1>9. Lengths
    BY <1>3, <1>4, <1>8 DEF Lengths
  <1>10. Planned /\ Progress /\ GivenBack /\ Chained /\ AuthorsAreBack
    BY <1>8 DEF Planned, Progress, GivenBack, Chained, AuthorsAreBack, Before, After, Editing
  <1>11. HeadKeepsTree
    BY <1>3 DEF HeadKeepsTree
  <1> QED
    BY <1>7, <1>9, <1>10, <1>11 DEF IInv

LEMMA StepIInv ==
  ASSUME IInv, [Next]_vars
  PROVE  IInv'
  <1>1. TypeOK'
    BY TypeStep DEF IInv
  <1>2. Lengths'
    BY LengthsStep DEF IInv
  <1>3. Planned'
    BY PlannedStep DEF IInv
  <1>4. Progress'
    BY ProgressStep DEF IInv
  <1>5. GivenBack'
    BY GivenStep DEF IInv
  <1>6. Chained' /\ AuthorsAreBack'
    BY ChainedStep DEF IInv, ChainInv
  <1>7. HeadKeepsTree'
    BY HeadStep DEF IInv
  <1> QED
    BY <1>1, <1>2, <1>3, <1>4, <1>5, <1>6, <1>7 DEF IInv

(* Every step of an upload, of the user's and of other people's keeps the  *)
(* invariant.                                                              *)
THEOREM InductiveInvariant == Spec => []IInv
  BY InitIInv, StepIInv, PTL DEF Spec

(* Every variable keeps its type: whatever is copied, edited or rebased is *)
(* a chain of patches, and the loop stays in the range.                    *)
THEOREM TypeCorrect == Spec => []TypeOK
  <1>1. IInv => TypeOK
    BY DEF IInv
  <1> QED
    BY InductiveInvariant, <1>1, PTL

(* HEAD always has the content the user gave it: _rewrite_chain, the       *)
(* restore after a failed push and _move_head_to only move it to commits   *)
(* with the same trees, and never over an amend.                           *)
THEOREM HeadKeepsItsTree == Spec => []HeadKeepsTree
  <1>1. IInv => HeadKeepsTree
    BY DEF IInv
  <1> QED
    BY InductiveInvariant, <1>1, PTL

(* What _check_duplicate_change_ids, _check_range and the other checks let *)
(* through, Gerrit takes, unless a change was closed.                      *)
THEOREM ChecksAreEnough == Spec => []ChecksSuffice
  <1>1. IInv => ChecksSuffice
    BY DEF IInv, Planned, ChecksSuffice, Before
  <1> QED
    BY InductiveInvariant, <1>1, PTL

(* An upload that ends without a warning, with nobody else's hand in it,   *)
(* leaves HEAD's commits as the current patchsets, one on top of the other,*)
(* each with its own author.                                               *)
THEOREM AuthorsComeBack == Spec => []AuthorsAreBack
  <1>1. IInv => AuthorsAreBack
    BY DEF IInv
  <1> QED
    BY InductiveInvariant, <1>1, PTL

(* When an upload returns, _edit_authors_back has warned if it left the    *)
(* account as author of a commit it pushed, with the number of that change *)
(* where it is known.                                                      *)
THEOREM LeftIsWarned == Spec => []LeftIsWarnedOf
  <1>1. IInv => LeftIsWarnedOf
    <2> SUFFICES ASSUME IInv, pc = "done", NEW k \in edits,
                        Tip(Current(sent[k].change)).as = "account",
                        Tip(Current(sent[k].change)).made # 0
                 PROVE  warned /\ (k \in found => k \in left)
      BY DEF LeftIsWarnedOf
    <2> QED
      BY DEF IInv, GivenBack, Given
  <1> QED
    BY InductiveInvariant, <1>1, PTL
=============================================================================
