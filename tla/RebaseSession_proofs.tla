------------------------ MODULE RebaseSession_proofs ------------------------
(***************************************************************************)
(* Proofs about RebaseSession, for a series of any length, any number of   *)
(* versions, commands and deaths.                                          *)
(***************************************************************************)
EXTENDS RebaseSession, SequenceTheorems, FiniteSetTheorems, WellFoundedInduction, TLAPS

(* Commits.                                                                *)

LEMMA CommitParts ==
  ASSUME NEW x \in Commit
  PROVE  /\ x \in Seq(Patch)
         /\ Len(x) \in Nat \ {0}
         /\ Len(x) \in 1..Len(x)
         /\ \A k \in 1..Len(x) : x[k] \in Patch
         /\ Tip(x) \in Patch
         /\ Tip(x).change \in 0..N
  <1>1. x \in Seq(Patch) /\ x # <<>>
    BY DEF Commit
  <1>2. Len(x) \in Nat \ {0}
    BY <1>1, EmptySeq, LenProperties
  <1>3. \A k \in 1..Len(x) : x[k] \in Patch
    BY <1>1, ElementOfSeq
  <1>4. Tip(x) \in Patch
    BY <1>2, <1>3 DEF Tip
  <1> QED
    BY <1>1, <1>2, <1>3, <1>4 DEF Patch

LEMMA PickedCommit ==
  ASSUME NEW x \in Commit, NEW y \in Commit
  PROVE  /\ Picked(x, y) \in Commit
         /\ Len(Picked(x, y)) = Len(x) + 1
         /\ \A k \in 1..Len(x) : Picked(x, y)[k] = x[k]
         /\ Tip(Picked(x, y)) = Tip(y)
         /\ \A c : Contains(x, c) => Contains(Picked(x, y), c)
         /\ Contains(Picked(x, y), Tip(y).change)
  <1> DEFINE z == Append(x, Tip(y))
  <1>1. x \in Seq(Patch) /\ Len(x) \in Nat /\ Tip(y) \in Patch
    BY CommitParts
  <1>2. /\ z \in Seq(Patch)
        /\ Len(z) = Len(x) + 1
        /\ \A k \in 1..Len(x) : z[k] = x[k]
        /\ z[Len(z)] = Tip(y)
    BY <1>1, AppendProperties
  <1>3. z # <<>>
    BY <1>1, <1>2, EmptySeq
  <1>4. \A c : Contains(x, c) => Contains(z, c)
    BY <1>1, <1>2 DEF Contains
  <1>5. Contains(z, Tip(y).change)
    <2>1. Len(z) \in 1..Len(z)
      BY <1>1, <1>2
    <2> QED
      BY <1>2, <2>1 DEF Contains
  <1>6. Tip(z) = Tip(y)
    BY <1>2 DEF Tip
  <1> QED
    BY <1>2, <1>3, <1>4, <1>5, <1>6 DEF Picked, Commit

LEMMA PrefixCommit ==
  ASSUME NEW x \in Commit, NEW k \in 1..Len(x)
  PROVE  /\ SubSeq(x, 1, k) \in Commit
         /\ Len(SubSeq(x, 1, k)) = k
         /\ \A j \in 1..k : SubSeq(x, 1, k)[j] = x[j]
         /\ Tip(SubSeq(x, 1, k)) = x[k]
  <1>1. x \in Seq(Patch) /\ Len(x) \in Nat
    BY CommitParts
  <1>2. 1 \in 1..Len(x) + 1 /\ k \in 0..Len(x)
    BY <1>1
  <1>3. /\ SubSeq(x, 1, k) \in Seq(Patch)
        /\ Len(SubSeq(x, 1, k)) = k
        /\ \A j \in 1..k : SubSeq(x, 1, k)[j] = x[j]
    BY <1>1, <1>2, SubSeqProperties
  <1>4. SubSeq(x, 1, k) # <<>>
    BY <1>3, EmptySeq
  <1> QED
    BY <1>1, <1>3, <1>4 DEF Commit, Tip

LEMMA AncestorCommits ==
  ASSUME NEW x \in Commit
  PROVE  Ancestors(x) \subseteq Commit /\ x \in Ancestors(x)
  <1>1. Ancestors(x) \subseteq Commit
    BY PrefixCommit DEF Ancestors
  <1>2. SubSeq(x, 1, Len(x)) = x
    BY CommitParts, SubSeqFull
  <1> QED
    BY <1>1, <1>2, CommitParts DEF Ancestors

LEMMA AmendedCommit ==
  ASSUME NEW x \in Commit, NEW v \in 1..MaxVersion
  PROVE  LET z == [x EXCEPT ![Len(x)].version = v]
         IN z \in Commit /\ \A c : Contains(x, c) => Contains(z, c)
  <1> DEFINE z == [x EXCEPT ![Len(x)].version = v]
             p == [x[Len(x)] EXCEPT !.version = v]
  <1>1. x \in Seq(Patch) /\ Len(x) \in Nat \ {0} /\ x[Len(x)] \in Patch
    BY CommitParts
  <1>2. p \in Patch /\ p.change = x[Len(x)].change
    BY <1>1 DEF Patch
  <1>3. z = [x EXCEPT ![Len(x)] = p]
    OBVIOUS
  <1>4. /\ z \in Seq(Patch)
        /\ Len(z) = Len(x)
        /\ \A k \in 1..Len(x) : z[k] = IF k = Len(x) THEN p ELSE x[k]
    BY <1>1, <1>2, <1>3, ExceptSeq
  <1>5. z # <<>>
    BY <1>1, <1>4, EmptySeq
  <1>6. \A c : Contains(x, c) => Contains(z, c)
    BY <1>1, <1>2, <1>4 DEF Contains
  <1> QED
    BY <1>4, <1>5, <1>6 DEF Commit

(* The commit of a change that is once in a chain.                         *)
LEMMA CommitOfOne ==
  ASSUME NEW x \in Commit, NEW c, Contains(x, c),
         \A j, k \in 1..Len(x) : x[j].change = x[k].change => j = k
  PROVE  /\ CommitOf(x, c) \in Commit
         /\ Tip(CommitOf(x, c)).change = c
  <1>1. PICK k \in 1..Len(x) : x[k].change = c
    BY DEF Contains
  <1>2. Len(x) \in Nat
    BY CommitParts
  <1>3. k = CHOOSE i \in 1..Len(x) : /\ x[i].change = c
                                     /\ \A j \in i + 1..Len(x) : x[j].change # c
    <2>1. \A j \in k + 1..Len(x) : x[j].change # c
      BY <1>1, <1>2
    <2>2. \A i \in 1..Len(x) : x[i].change = c => i = k
      BY <1>1
    <2> QED
      BY <1>1, <2>1, <2>2
  <1>4. CommitOf(x, c) = SubSeq(x, 1, k)
    BY <1>3 DEF CommitOf
  <1> QED
    BY <1>1, <1>4, PrefixCommit

(* The first of some changes.                                              *)
LEMMA FirstOfSome ==
  ASSUME NEW S, S \subseteq Changes, S # {}
  PROVE  First(S) \in S /\ \A d \in S : First(S) <= d
  <1> DEFINE R == {p \in Nat \X Nat : p[1] < p[2]}
  <1>1. S \subseteq Nat
    BY SessionAssumption DEF Changes
  <1>2. IsWellFoundedOn(OpToRel(<, Nat), Nat)
    BY NatLessThanWellFounded, Zenon
  <1>3. OpToRel(<, Nat) = R
    BY Zenon DEF OpToRel
  <1>4. IsWellFoundedOn(R, Nat)
    BY <1>2, <1>3, Zenon
  <1>5. PICK c \in S : \A d \in S : ~(<<d, c>> \in R)
    <2> HIDE DEF R
    <2> QED
      BY <1>1, <1>4, WFMin
  <1>6. ASSUME NEW d \in S
        PROVE  c <= d
    <2>1. c \in Nat /\ d \in Nat
      BY <1>1
    <2>2. d < c => <<d, c>> \in R
      BY <2>1
    <2> QED
      BY <1>5, <2>1, <2>2
  <1> QED
    BY <1>6 DEF First

-----------------------------------------------------------------------------
(* Types, and where the session in memory and the one in the file agree.   *)

Control ==
  /\ pc \notin {"idle", "clear"} => mem \in Session
  /\ pc \in FinishPoint \cup ReintPoint => file = mem
  /\ pc \in {"pick", "picked", "nothing", "conflict"} => todo # {} /\ mem.pending = First(todo)
  /\ pc \in {"rpick", "rpicked", "rskip"} => mem.pending # 0

PickControl ==
  /\ pc \notin {"idle", "continue", "emptied", "drop", "nothing", "conflict"} => ~pick.active
  /\ pc \in {"continue", "emptied"} => pick.active

LEMMA MovesType ==
  ASSUME TypeOK, NEW x \in Commit, MovesTo(x)
  PROVE  head' \in Commit /\ objects' \subseteq Commit
  BY AncestorCommits DEF MovesTo, TypeOK

LEMMA FreshType ==
  ASSUME NEW c \in Changes, NEW x \in Commit, NEW o \in Commit, NEW p \in [Changes -> Commit]
  PROVE  Fresh(c, x, o, p) \in Session
  BY SessionAssumption DEF Fresh, Session

LEMMA ActiveType ==
  ASSUME TypeOK
  PROVE  /\ file.active => file \in Session
         /\ pick.active => pick \in Pick
  BY DEF TypeOK, NoSession, NoPick

LEMMA SeriesType ==
  ASSUME TypeOK, InOrder(gerrit[N])
  PROVE  Series \in [Changes -> Commit] /\ \A c \in Changes : Tip(Series[c]).change = c
  <1> DEFINE x == gerrit[N]
  <1>1. x \in Commit /\ N \in Nat \ {0}
    BY SessionAssumption DEF TypeOK, Changes
  <1>2. x \in Seq(Patch) /\ Len(x) = N + 1
    BY <1>1, CommitParts DEF InOrder
  <1>3. ASSUME NEW c \in Changes
        PROVE  CommitOf(x, c) \in Commit /\ Tip(CommitOf(x, c)).change = c
    <2>1. c + 1 \in 1..Len(x) /\ x[c + 1].change = c
      BY <1>1, <1>2 DEF InOrder, Changes
    <2>2. \A j \in c + 2..Len(x) : x[j].change # c
      <3>1. ASSUME NEW j \in c + 2..Len(x) PROVE x[j].change # c
        <4>1. j - 1 \in Changes /\ (j - 1) + 1 = j /\ j - 1 # c
          BY <1>1, <1>2 DEF Changes
        <4> QED
          BY <4>1 DEF InOrder
      <3> QED
        BY <3>1
    <2>3. \E k \in 1..Len(x) : /\ x[k].change = c
                               /\ \A j \in k + 1..Len(x) : x[j].change # c
      <3>1. (c + 1) + 1 = c + 2
        BY DEF Changes
      <3> QED
        BY <2>1, <2>2, <3>1
    <2>4. PICK k \in 1..Len(x) : CommitOf(x, c) = SubSeq(x, 1, k) /\ x[k].change = c
      BY <2>3 DEF CommitOf
    <2> QED
      BY <1>1, <2>4, PrefixCommit
  <1> QED
    BY <1>3 DEF Series

LEMMA UpdatedType ==
  ASSUME NEW p \in [Changes -> Commit], NEW q \in [Changes -> Commit \cup {NoCommit}]
  PROVE  Updated(p, q) \in [Changes -> Commit]
  <1>1. NoCommit \notin Commit
    BY DEF Commit, NoCommit
  <1> QED
    BY <1>1 DEF Updated

LEMMA SwitchType ==
  ASSUME TypeOK, NEW c \in Changes, file.active, Switch(c)
  PROVE  /\ head' \in Commit /\ objects' \subseteq Commit
         /\ pick' = NoPick
         /\ mem' \in Session
         /\ pc' = "save"
         /\ UNCHANGED <<todo, new, how, branch, gerrit, file, astray>>
  <1> PICK x \in ({file.patches[c]} \cap objects) \cup {gerrit[c]} :
             /\ ChecksOut(x)
             /\ mem' = Fresh(c, x, file.origin, file.patches)
    BY DEF Switch
  <1>1. file \in Session /\ gerrit \in [Changes -> Commit]
    BY ActiveType DEF TypeOK
  <1>2. x \in Commit /\ file.origin \in Commit /\ file.patches \in [Changes -> Commit]
    BY <1>1 DEF Session
  <1>3. /\ MovesTo(x) /\ pick' = NoPick
        /\ mem' = Fresh(c, x, file.origin, file.patches)
        /\ pc' = "save"
        /\ UNCHANGED <<todo, new, how, branch, gerrit, file, astray>>
    BY DEF Switch, ChecksOut, Goes
  <1> QED
    BY <1>2, <1>3, MovesType, FreshType

(* A session on its way to the newer patchset of a stale change.           *)
LEMMA ToStaleType ==
  ASSUME TypeOK, NEW s \in Session, NEW S, S \subseteq Changes, S # {}, ToStale(s, S)
  PROVE  /\ head' \in Commit /\ objects' \subseteq Commit
         /\ mem' \in Session /\ mem'.rebased = s.rebased
         /\ pc' = "rsave"
         /\ UNCHANGED <<todo, new, how>>
  <1> DEFINE c == First(S)
  <1>1. c \in Changes
    BY FirstOfSome
  <1>2. gerrit[c] \in Commit
    BY <1>1 DEF TypeOK
  <1>3. c + 1..N \subseteq Changes
    BY <1>1, SessionAssumption DEF Changes
  <1>4. [s EXCEPT !.stale = S, !.due = c + 1..N, !.patches[c] = gerrit[c]] \in Session
    BY <1>1, <1>2, <1>3 DEF Session
  <1>5. mem'.rebased = s.rebased
    BY DEF ToStale, Session
  <1> QED
    BY <1>2, <1>4, <1>5, MovesType DEF ToStale, Goes

LEMMA SessionParts ==
  ASSUME NEW s \in Session
  PROVE  /\ s.active = TRUE
         /\ s.target \in Changes
         /\ s.commit \in Commit /\ s.origin \in Commit
         /\ s.patches \in [Changes -> Commit]
         /\ s.rebased \subseteq Changes /\ s.skipped \subseteq Changes
         /\ s.pending \in 0..N
         /\ s.pending # 0 => s.pending \in Changes
         /\ s.stale \subseteq Changes /\ s.due \subseteq Changes
  <1>1. s.pending # 0 => s.pending \in Changes
    BY SessionAssumption DEF Session, Changes
  <1> QED
    BY <1>1 DEF Session

(* What the commands change in a session.                                  *)
LEMMA SessionEdits ==
  ASSUME NEW s \in Session
  PROVE  /\ [s EXCEPT !.stale = {}] \in Session
         /\ \A c \in Changes :
              /\ [s EXCEPT !.pending = c] \in Session
              /\ [s EXCEPT !.rebased = @ \cup {c}, !.pending = 0] \in Session
              /\ [s EXCEPT !.skipped = @ \cup {c}, !.pending = 0] \in Session
              /\ [s EXCEPT !.due = @ \ {c}, !.skipped = @ \cup {c}, !.pending = 0] \in Session
              /\ \A x \in Commit :
                   [s EXCEPT !.due = @ \ {c}, !.rebased = @ \cup {c},
                             !.patches[c] = x, !.pending = 0] \in Session
         /\ \A q \in [Changes -> Commit \cup {NoCommit}] :
              /\ [s EXCEPT !.patches = Updated(@, q)] \in Session
              /\ [s EXCEPT !.patches = Updated(@, q), !.rebased = {}] \in Session
  <1> USE SessionAssumption DEF Changes
  <1>1. [s EXCEPT !.stale = {}] \in Session
    BY DEF Session
  <1>2. ASSUME NEW c \in Changes
        PROVE  /\ [s EXCEPT !.pending = c] \in Session
               /\ [s EXCEPT !.rebased = @ \cup {c}, !.pending = 0] \in Session
               /\ [s EXCEPT !.skipped = @ \cup {c}, !.pending = 0] \in Session
               /\ [s EXCEPT !.due = @ \ {c}, !.skipped = @ \cup {c}, !.pending = 0] \in Session
    <2>1. c \in 0..N /\ 0 \in 0..N
      OBVIOUS
    <2>2. /\ s.rebased \cup {c} \subseteq Changes
          /\ s.skipped \cup {c} \subseteq Changes
          /\ s.due \ {c} \subseteq Changes
      BY DEF Session
    <2> QED
      BY <2>1, <2>2 DEF Session
  <1>3. ASSUME NEW c \in Changes, NEW x \in Commit
        PROVE  [s EXCEPT !.due = @ \ {c}, !.rebased = @ \cup {c},
                         !.patches[c] = x, !.pending = 0] \in Session
    <2>1. [s.patches EXCEPT ![c] = x] \in [Changes -> Commit]
      BY DEF Session
    <2>2. 0 \in 0..N /\ s.rebased \cup {c} \subseteq Changes /\ s.due \ {c} \subseteq Changes
      BY DEF Session
    <2> QED
      BY <2>1, <2>2 DEF Session
  <1>4. ASSUME NEW q \in [Changes -> Commit \cup {NoCommit}]
        PROVE  /\ [s EXCEPT !.patches = Updated(@, q)] \in Session
               /\ [s EXCEPT !.patches = Updated(@, q), !.rebased = {}] \in Session
    <2>1. Updated(s.patches, q) \in [Changes -> Commit]
      BY UpdatedType DEF Session
    <2> QED
      BY <2>1 DEF Session
  <1> QED
    BY <1>1, <1>2, <1>3, <1>4

LEMMA PickType ==
  ASSUME NEW x \in Commit, NEW c \in Changes, NEW b \in BOOLEAN, Stops(x, c, b)
  PROVE  pick' \in Pick /\ pick'.for = c /\ pick'.commit = x
  BY DEF Stops, Pick

LEMMA BeginsType ==
  ASSUME TypeOK, Begins
  PROVE  /\ commands' \in 0..MaxCommands
         /\ newest' = newest /\ crashes' = crashes
         /\ pc = "idle"
  BY SessionAssumption DEF Begins, TypeOK

LEMMA EndType ==
  ASSUME End
  PROVE  /\ pc' = "idle" /\ mem' = NoSession /\ todo' = {} /\ how' = "none"
         /\ new' = NoNew
         /\ new' \in [Changes -> Commit \cup {NoCommit}]
  BY DEF End, NoNew

(* What each of these changes leaves in the session.                       *)
LEMMA PendingFields ==
  ASSUME NEW s \in Session, NEW c
  PROVE  LET t == [s EXCEPT !.pending = c]
         IN /\ t.active = s.active /\ t.target = s.target /\ t.patches = s.patches
            /\ t.rebased = s.rebased /\ t.skipped = s.skipped /\ t.pending = c
  BY DEF Session

LEMMA RebasedFields ==
  ASSUME NEW s \in Session, NEW c
  PROVE  LET t == [s EXCEPT !.rebased = @ \cup {c}, !.pending = 0]
         IN /\ t.active = s.active /\ t.target = s.target /\ t.patches = s.patches
            /\ t.rebased = s.rebased \cup {c} /\ t.skipped = s.skipped /\ t.pending = 0
  BY DEF Session

LEMMA SkippedFields ==
  ASSUME NEW s \in Session, NEW c
  PROVE  LET t == [s EXCEPT !.skipped = @ \cup {c}, !.pending = 0]
         IN /\ t.active = s.active /\ t.target = s.target /\ t.patches = s.patches
            /\ t.rebased = s.rebased /\ t.skipped = s.skipped \cup {c} /\ t.pending = 0
  BY DEF Session

LEMMA SkippedDueFields ==
  ASSUME NEW s \in Session, NEW c
  PROVE  LET t == [s EXCEPT !.due = @ \ {c}, !.skipped = @ \cup {c}, !.pending = 0]
         IN /\ t.active = s.active /\ t.target = s.target /\ t.patches = s.patches
            /\ t.rebased = s.rebased /\ t.skipped = s.skipped \cup {c} /\ t.pending = 0
  BY DEF Session

LEMMA RebasedDueFields ==
  ASSUME NEW s \in Session, NEW c, NEW x
  PROVE  LET t == [s EXCEPT !.due = @ \ {c}, !.rebased = @ \cup {c},
                           !.patches[c] = x, !.pending = 0]
         IN /\ t.active = s.active /\ t.target = s.target /\ t.patches = [s.patches EXCEPT ![c] = x]
            /\ t.rebased = s.rebased \cup {c} /\ t.skipped = s.skipped /\ t.pending = 0
  BY DEF Session

LEMMA UpdatedFields ==
  ASSUME NEW s \in Session, NEW q
  PROVE  LET t == [s EXCEPT !.patches = Updated(@, q)]
         IN /\ t.active = s.active /\ t.target = s.target /\ t.patches = Updated(s.patches, q)
            /\ t.rebased = s.rebased /\ t.skipped = s.skipped /\ t.pending = s.pending
  BY DEF Session

LEMMA ClosedFields ==
  ASSUME NEW s \in Session, NEW q
  PROVE  LET t == [s EXCEPT !.patches = Updated(@, q), !.rebased = {}]
         IN /\ t.active = s.active /\ t.target = s.target /\ t.patches = Updated(s.patches, q)
            /\ t.rebased = {} /\ t.skipped = s.skipped /\ t.pending = s.pending
  BY DEF Session

LEMMA CompleteFields ==
  ASSUME NEW s \in Session
  PROVE  LET t == [s EXCEPT !.stale = {}]
         IN /\ t.active = s.active /\ t.target = s.target /\ t.patches = s.patches
            /\ t.rebased = s.rebased /\ t.skipped = s.skipped /\ t.pending = s.pending
  BY DEF Session

LEMMA InSession ==
  ASSUME NEW s \in Session \cup {NoSession}, s.active
  PROVE  s \in Session
  BY DEF NoSession


LEMMA TypeStep ==
  ASSUME TypeOK, Control, PickControl, [Next]_vars
  PROVE  TypeOK'
  <1>1. CASE Amend
    <2> DEFINE c == Tip(head).change
               x == [head EXCEPT ![Len(head)].version = newest[c] + 1]
    <2>1. c \in Changes /\ newest[c] + 1 \in 1..MaxVersion
      <3>1. c \in 0..N /\ c # 0
        BY <1>1, CommitParts DEF Amend, TypeOK
      <3>2. c \in Changes /\ newest[c] < MaxVersion
        BY <1>1, <3>1, SessionAssumption DEF Amend, Changes
      <3> QED
        BY <3>2, SessionAssumption DEF TypeOK
    <2>2. x \in Commit
      BY <2>1, AmendedCommit DEF TypeOK
    <2>3. head' \in Commit /\ objects' \subseteq Commit
      BY <1>1, <2>2, MovesType DEF Amend
    <2>4. newest' \in [Changes -> 1..MaxVersion]
      BY <1>1, <2>1 DEF Amend, TypeOK
    <2> QED
      BY <1>1, <2>3, <2>4 DEF Amend, TypeOK, command
  <1>2. CASE Resolve
    <2>1. pick \in Pick
      BY <1>2, ActiveType DEF Resolve, Unmerged
    <2>2. pick' \in Pick
      BY <1>2, <2>1 DEF Resolve, Pick
    <2> QED
      BY <1>2, <2>2 DEF Resolve, TypeOK, command, bounds
  <1>3. CASE UserContinues
    <2>1. pick \in Pick /\ pick.commit \in Commit
      BY <1>3, ActiveType DEF UserContinues, Pick
    <2>2. head' \in Commit /\ objects' \subseteq Commit
      BY <1>3, <2>1, PickedCommit, MovesType DEF UserContinues, TypeOK
    <2> QED
      BY <1>3, <2>2 DEF UserContinues, TypeOK, command, bounds
  <1>4. CASE UserDrops
    BY <1>4 DEF UserDrops, TypeOK, command, bounds
  <1>5. CASE Finish
    <2>1. file \in Session
      BY <1>5, ActiveType DEF Finish
    <2>2. mem' \in Session /\ file' \in Session
      <3>1. file.pending # 0 => file.pending \in Changes
        BY <2>1, SessionParts
      <3>2. CASE pick.active \/ file.pending = 0
        BY <1>5, <2>1, <3>2 DEF Finish, Saves
      <3>3. CASE ~pick.active /\ file.pending # 0
        BY <1>5, <2>1, <3>1, <3>3, SessionEdits DEF Finish, Saves
      <3> QED
        BY <3>2, <3>3
    <2>3. how' \in {"fresh", "resumed", "other"} /\ pc' \in CommandPoint
      BY <1>5 DEF Finish, Began, CommandPoint, FinishPoint
    <2> QED
      BY <1>5, <2>2, <2>3, BeginsType DEF Finish, TypeOK, repo
  <1>6. CASE Abort
    <2>1. file.origin \in Commit
      BY <1>6, ActiveType, SessionParts DEF Abort
    <2>2. head' \in Commit /\ objects' \subseteq Commit /\ pick' = NoPick
      BY <1>6, <2>1, MovesType DEF Abort, ChecksOut
    <2> QED
      BY <1>6, <2>2, BeginsType DEF Abort, Goes, TypeOK, CommandPoint
  <1>7. CASE EndSession
    BY <1>7, BeginsType DEF EndSession, TypeOK, repo, command
  <1>8. CASE ContinueReintegration
    <2>1. file \in Session
      BY <1>8, ActiveType DEF ContinueReintegration
    <2>2. mem' \in Session /\ file' \in Session /\ pc' \in CommandPoint
      BY <1>8, <2>1 DEF ContinueReintegration, Saves, Goes, CommandPoint, ReintPoint
    <2> QED
      BY <1>8, <2>2, BeginsType DEF ContinueReintegration, Goes, TypeOK, repo
  <1>9. CASE SkipReintegration
    <2>1. file \in Session
      BY <1>9, ActiveType DEF SkipReintegration
    <2>2. mem' \in Session /\ file' \in Session /\ pc' \in CommandPoint
      BY <1>9, <2>1 DEF SkipReintegration, Saves, Goes, CommandPoint, ReintPoint
    <2> QED
      BY <1>9, <2>2, BeginsType DEF SkipReintegration, Goes, TypeOK
  <1>10. ASSUME NEW c \in Changes, StartInSession(c) PROVE TypeOK'
    BY <1>10, BeginsType, SwitchType DEF StartInSession, Switch, TypeOK, CommandPoint
  <1>11. ASSUME NEW c \in Changes, StartNew(c) PROVE TypeOK'
    <2>1. PICK x \in IF Local(c) = {} THEN {gerrit[c]} ELSE Local(c) :
                MovesTo(x) /\ mem' = Fresh(c, x, head, Series)
      BY <1>11 DEF StartNew
    <2>2. x \in Commit
      BY <2>1, AncestorCommits DEF Local, TypeOK
    <2>3. head' \in Commit /\ objects' \subseteq Commit
      BY <2>1, <2>2, MovesType
    <2>4. mem' \in Session
      BY <1>11, <2>1, <2>2, SeriesType, FreshType DEF StartNew, TypeOK
    <2> QED
      BY <1>11, <2>3, <2>4, BeginsType DEF StartNew, Goes, TypeOK, CommandPoint
  <1>12. ASSUME NEW c \in Changes, StartReintegration(c) PROVE TypeOK'
    <2> DEFINE s == Fresh(c, gerrit[First(StaleChanges)], head, Series)
    <2>1. StaleChanges \subseteq Changes /\ StaleChanges # {}
      BY <1>12 DEF StartReintegration, StaleChanges
    <2>2. s \in Session
      BY <1>12, <2>1, FirstOfSome, SeriesType, FreshType DEF StartReintegration, TypeOK
    <2>3. ToStale(s, StaleChanges)
      BY <1>12 DEF StartReintegration
    <2>4. /\ head' \in Commit /\ objects' \subseteq Commit
          /\ mem' \in Session /\ pc' = "rsave"
          /\ UNCHANGED <<todo, new, how>>
      BY <2>1, <2>2, <2>3, ToStaleType
    <2> QED
      BY <1>12, <2>4, BeginsType
         DEF StartReintegration, TypeOK, CommandPoint, ReintPoint
  <1>13. CASE Save
    BY <1>13, EndType DEF Save, Control, TypeOK, repo, bounds, CommandPoint
  <1>14. CASE Clear
    BY <1>14, EndType DEF Clear, TypeOK, repo, bounds, CommandPoint
  <1>15. CASE Continue
    <2>1. pick \in Pick /\ pick.commit \in Commit
      BY <1>15, ActiveType DEF Continue, PickControl, Pick
    <2>2. head' \in Commit /\ objects' \subseteq Commit /\ pick' \in Pick \cup {NoPick}
      BY <1>15, <2>1, PickedCommit, MovesType DEF Continue, TypeOK, repo
    <2> QED
      BY <1>15, <2>2
         DEF Continue, Moves, Goes, TypeOK, bounds, CommandPoint, FinishPoint
  <1>16. CASE Continued
    <2>1. mem \in Session /\ file \in Session
      BY <1>16 DEF Continued, Control, FinishPoint
    <2>2. mem' \in Session /\ file' \in Session
      <3>1. CASE mem.pending = 0
        BY <1>16, <2>1, <3>1 DEF Continued
      <3>2. CASE mem.pending # 0
        <4>1. mem.pending \in Changes
          BY <2>1, <3>2, SessionParts
        <4> QED
          BY <1>16, <2>1, <3>2, <4>1, SessionEdits DEF Continued, Saves
      <3> QED
        BY <3>1, <3>2
    <2> QED
      BY <1>16, <2>2
         DEF Continued, Notes, Goes, TypeOK, repo, bounds, CommandPoint, FinishPoint
  <1>17. CASE Emptied
    <2>1. mem \in Session /\ file \in Session
      BY <1>17 DEF Emptied, Control, FinishPoint
    <2>2. mem' \in Session /\ file' \in Session
      <3>1. CASE mem.pending = 0
        BY <1>17, <2>1, <3>1 DEF Emptied
      <3>2. CASE mem.pending # 0
        <4>1. mem.pending \in Changes
          BY <2>1, <3>2, SessionParts
        <4> QED
          BY <1>17, <2>1, <3>2, <4>1, SessionEdits DEF Emptied, Saves
      <3> QED
        BY <3>1, <3>2
    <2> QED
      BY <1>17, <2>2
         DEF Emptied, Notes, Goes, TypeOK, repo, bounds, CommandPoint, FinishPoint
  <1>18. CASE Drop
    BY <1>18 DEF Drop, TypeOK, Goes, Moves, bounds, CommandPoint, FinishPoint
  <1>19. CASE Plan
    <2>1. mem \in Session /\ mem.target \in Changes
      BY <1>19, SessionParts DEF Plan, Control, FinishPoint
    <2>2. Remaining(mem) \subseteq Changes
      BY <2>1, SessionAssumption DEF Remaining, Changes
    <2>3. [NoNew EXCEPT ![mem.target] = head] \in [Changes -> Commit \cup {NoCommit}]
      BY <2>1 DEF NoNew, TypeOK
    <2> QED
      BY <1>19, <2>2, <2>3
         DEF Plan, Notes, TypeOK, repo, bounds, CommandPoint, FinishPoint
  <1>20. CASE PickNext
    <2>1. mem \in Session /\ First(todo) \in Changes
      BY <1>20, FirstOfSome DEF PickNext, Control, FinishPoint, TypeOK
    <2>2. mem' \in Session /\ file' \in Session
      BY <1>20, <2>1, SessionEdits DEF PickNext, Saves
    <2> QED
      BY <1>20, <2>2
         DEF PickNext, Notes, Goes, TypeOK, repo, bounds, CommandPoint, FinishPoint
  <1>21. CASE CherryPick
    <2> DEFINE c == First(todo)
               x == mem.patches[c]
    <2>1. c \in Changes /\ x \in Commit
      <3>1. mem \in Session /\ todo # {} /\ todo \subseteq Changes
        BY <1>21 DEF CherryPick, Control, TypeOK
      <3>2. c \in Changes /\ mem.patches \in [Changes -> Commit]
        BY <3>1, FirstOfSome, SessionParts
      <3> QED
        BY <3>2
    <2>2. CASE PicksCleanly(x) /\ Goes("picked")
      <3>1. head' \in Commit /\ objects' \subseteq Commit /\ pick' = NoPick
        BY <2>1, <2>2, PickedCommit, MovesType DEF PicksCleanly, TypeOK
      <3> QED
        BY <1>21, <2>2, <3>1
           DEF CherryPick, Moves, Goes, TypeOK, bounds, CommandPoint, FinishPoint
    <2>3. CASE PicksEmpty(x, c) /\ Goes("nothing")
      <3>1. pick' \in Pick
        BY <2>1, <2>3, PickType DEF PicksEmpty
      <3> QED
        BY <1>21, <2>3, <3>1
           DEF CherryPick, PicksEmpty, Moves, Goes, TypeOK, bounds, CommandPoint,
               FinishPoint
    <2>4. CASE PicksRefused /\ Goes("nothing")
      BY <1>21, <2>4
         DEF CherryPick, PicksRefused, Moves, Goes, TypeOK, repo, bounds,
             CommandPoint, FinishPoint
    <2>5. CASE PicksConflicting(x, c) /\ Goes("conflict")
      <3>1. pick' \in Pick
        BY <2>1, <2>5, PickType DEF PicksConflicting
      <3> QED
        BY <1>21, <2>5, <3>1
           DEF CherryPick, PicksConflicting, Moves, Goes, TypeOK, bounds,
               CommandPoint, FinishPoint
    <2> QED
      BY <1>21, <2>2, <2>3, <2>4, <2>5 DEF CherryPick
  <1>22. CASE PickedOne
    <2>1. mem \in Session /\ First(todo) \in Changes
      BY <1>22, FirstOfSome DEF PickedOne, Control, FinishPoint, TypeOK
    <2>2. mem' \in Session /\ file' \in Session
      BY <1>22, <2>1, SessionEdits DEF PickedOne, Saves
    <2>3. new' \in [Changes -> Commit \cup {NoCommit}] /\ todo' \subseteq Changes
      BY <1>22, <2>1 DEF PickedOne, TypeOK
    <2> QED
      BY <1>22, <2>2, <2>3
         DEF PickedOne, Notes, TypeOK, repo, bounds, CommandPoint, FinishPoint
  <1>23. CASE PickedNothing
    <2>1. mem \in Session /\ First(todo) \in Changes
      BY <1>23, FirstOfSome DEF PickedNothing, Control, FinishPoint, TypeOK
    <2>2. mem' \in Session /\ file' \in Session
      BY <1>23, <2>1, SessionEdits DEF PickedNothing, Saves
    <2>3. todo' \subseteq Changes
      BY <1>23 DEF PickedNothing, TypeOK
    <2> QED
      BY <1>23, <2>2, <2>3
         DEF PickedNothing, Notes, TypeOK, repo, bounds, CommandPoint, FinishPoint
  <1>24. CASE Conflicted
    <2>1. file' \in Session
      BY <1>24, SessionEdits DEF Conflicted, Control, FinishPoint, TypeOK
    <2> QED
      BY <1>24, <2>1, EndType DEF Conflicted, Notes, TypeOK, repo, bounds, CommandPoint
  <1>25. CASE Close
    <2>1. file' \in Session /\ mem' \in Session
      BY <1>25, SessionEdits DEF Close, Saves, Control, FinishPoint, TypeOK
    <2> QED
      BY <1>25, <2>1
         DEF Close, Notes, Goes, TypeOK, repo, bounds, CommandPoint, FinishPoint
  <1>26. CASE Push
    <2>1. gerrit' \in [Changes -> Commit]
      <3>1. CASE gerrit' = gerrit
        BY <3>1 DEF TypeOK
      <3>2. CASE gerrit' # gerrit
        <4>1. \A j, k \in 1..Len(head) : head[j].change = head[k].change => j = k
          BY <1>26, <3>2 DEF Push
        <4>2. \A c \in Changes : Contains(head, c) => CommitOf(head, c) \in Commit
          BY <4>1, CommitOfOne DEF TypeOK
        <4> QED
          BY <1>26, <3>2, <4>2 DEF Push, TypeOK
      <3> QED
        BY <3>1, <3>2
    <2> QED
      BY <1>26, <2>1 DEF Push, Goes, TypeOK, repo, bounds, CommandPoint, FinishPoint
  <1>27. CASE Advance
    <2>1. CASE End /\ UNCHANGED <<repo, branch, gerrit, file, astray>>
      BY <1>27, <2>1, EndType DEF Advance, TypeOK, repo, bounds, CommandPoint
    <2>2. ASSUME NEW d \in mem.target + 1..N, Switch(d) PROVE TypeOK'
      <3>1. mem.target \in Changes /\ file.active
        BY <1>27, SessionParts DEF Advance, Control, FinishPoint
      <3>2. d \in Changes
        BY <3>1, SessionAssumption DEF Changes
      <3> QED
        BY <1>27, <2>2, <3>1, <3>2, SwitchType DEF Advance, TypeOK, bounds, CommandPoint
    <2> QED
      BY <1>27, <2>1, <2>2 DEF Advance
  <1>28. CASE SaveStale
    BY <1>28
       DEF SaveStale, Control, Goes, TypeOK, repo, bounds, CommandPoint, ReintPoint
  <1>29. CASE PickDue
    <2>1. mem \in Session /\ First(mem.due) \in Changes
      BY <1>29, FirstOfSome, SessionParts DEF PickDue, Control, ReintPoint
    <2>2. mem' \in Session /\ file' \in Session
      BY <1>29, <2>1, SessionEdits DEF PickDue, Saves
    <2> QED
      BY <1>29, <2>2
         DEF PickDue, Notes, Goes, TypeOK, repo, bounds, CommandPoint, ReintPoint
  <1>30. CASE PickInReintegration
    <2> DEFINE c == mem.pending
               x == IF mem.patches[c] \in objects THEN mem.patches[c] ELSE gerrit[c]
               fetched == objects \cup Ancestors(x)
    <2>1. c \in Changes /\ x \in Commit /\ mem \in Session
      BY <1>30, SessionParts DEF PickInReintegration, Control, TypeOK
    <2>2. fetched \subseteq Commit /\ Picked(head, x) \in Commit
      BY <2>1, AncestorCommits, PickedCommit DEF TypeOK
    <2> HIDE DEF x, fetched
    <2>3. CASE /\ head' = Picked(head, x)
              /\ objects' = fetched \cup {head'}
              /\ pick' = NoPick /\ Goes("rpicked") /\ mem' = mem
      BY <1>30, <2>1, <2>2, <2>3
         DEF PickInReintegration, Goes, TypeOK, bounds, CommandPoint, ReintPoint
    <2>4. CASE /\ \E b \in BOOLEAN : Stops(x, c, b)
              /\ head' = head /\ objects' = fetched /\ End
      <3>1. pick' \in Pick
        BY <2>1, <2>4, PickType
      <3> QED
        BY <1>30, <2>2, <2>4, <3>1, EndType
           DEF PickInReintegration, TypeOK, bounds, CommandPoint
    <2>5. CASE /\ objects' = fetched /\ UNCHANGED <<head, pick>>
              /\ Goes("rskip") /\ mem' = mem
      BY <1>30, <2>1, <2>2, <2>5
         DEF PickInReintegration, Goes, TypeOK, bounds, CommandPoint, ReintPoint
    <2> QED
      BY <1>30, <2>3, <2>4, <2>5 DEF PickInReintegration, x, fetched
  <1>31. CASE PickedInReintegration
    <2>1. mem \in Session /\ mem.pending \in Changes
      BY <1>31, SessionParts DEF PickedInReintegration, Control
    <2>2. mem' \in Session /\ file' \in Session
      BY <1>31, <2>1, SessionEdits DEF PickedInReintegration, Saves, TypeOK
    <2> QED
      BY <1>31, <2>2
         DEF PickedInReintegration, Notes, Goes, TypeOK, repo, bounds, CommandPoint,
             ReintPoint
  <1>32. CASE SkippedInReintegration
    <2>1. mem \in Session /\ mem.pending \in Changes
      BY <1>32, SessionParts DEF SkippedInReintegration, Control
    <2>2. mem' \in Session /\ file' \in Session
      BY <1>32, <2>1, SessionEdits DEF SkippedInReintegration, Saves, TypeOK
    <2> QED
      BY <1>32, <2>2
         DEF SkippedInReintegration, Notes, Goes, TypeOK, repo, bounds, CommandPoint,
             ReintPoint
  <1>33. CASE NextStale
    <2>1. mem \in Session /\ StillStale \subseteq Changes /\ StillStale # {}
      BY <1>33, SessionParts DEF NextStale, StillStale, Control, ReintPoint
    <2>2. /\ head' \in Commit /\ objects' \subseteq Commit
          /\ mem' \in Session /\ pc' = "rsave"
          /\ UNCHANGED <<todo, new, how>>
      BY <1>33, <2>1, ToStaleType DEF NextStale
    <2> QED
      BY <1>33, <2>2 DEF NextStale, TypeOK, bounds, CommandPoint, ReintPoint
  <1>34. CASE Complete
    <2>1. file' \in Session
      BY <1>34, SessionEdits DEF Complete, Control, ReintPoint
    <2> QED
      BY <1>34, <2>1, EndType DEF Complete, Notes, TypeOK, repo, bounds, CommandPoint
  <1>35. CASE FetchFails
    BY <1>35, EndType DEF FetchFails, Notes, TypeOK, repo, bounds, CommandPoint
  <1>36. CASE Crash
    <2>1. crashes' \in 0..MaxCrashes
      BY <1>36, SessionAssumption DEF Crash, TypeOK
    <2>2. file' \in Session \cup {NoSession} /\ astray' \in BOOLEAN
      BY <1>36 DEF Crash, TypeOK
    <2> QED
      BY <1>36, <2>1, <2>2, EndType DEF Crash, TypeOK, repo, CommandPoint
  <1>37. CASE UNCHANGED vars
    BY <1>37 DEF vars, repo, command, bounds, TypeOK
  <1> QED
    BY <1>1, <1>2, <1>3, <1>4, <1>5, <1>6, <1>7, <1>8, <1>9, <1>10, <1>11,
       <1>12, <1>13, <1>14, <1>15, <1>16, <1>17, <1>18, <1>19, <1>20,
       <1>21, <1>22, <1>23, <1>24, <1>25, <1>26, <1>27, <1>28, <1>29,
       <1>30, <1>31, <1>32, <1>33, <1>34, <1>35, <1>36, <1>37
       DEF Next, User, Command, Proceeds


LEMMA ControlStep ==
  ASSUME TypeOK, Control, PickControl, TypeOK', [Next]_vars
  PROVE  Control'
  <1>1. CASE Amend
    BY <1>1 DEF Amend, Control, FinishPoint, ReintPoint, command
  <1>2. CASE Resolve
    BY <1>2 DEF Resolve, Control, FinishPoint, ReintPoint, command
  <1>3. CASE UserContinues
    BY <1>3 DEF UserContinues, Control, FinishPoint, ReintPoint, command
  <1>4. CASE UserDrops
    BY <1>4 DEF UserDrops, Control, FinishPoint, ReintPoint, command
  <1>5. CASE Finish
    <2>1. mem' = file' /\ mem' \in Session /\ pc' \in {"continue", "plan"}
      <3>1. file \in Session
        BY <1>5, ActiveType DEF Finish
      <3>2. mem' = file'
        BY <1>5 DEF Finish, Saves
      <3>3. file'.active
        <4>1. file.active /\ [file EXCEPT !.skipped = @ \cup {file.pending}, !.pending = 0].active
          BY <3>1, SessionParts, SkippedFields
        <4> QED
          BY <1>5, <4>1 DEF Finish, Saves
      <3> QED
        BY <1>5, <3>2, <3>3, ActiveType DEF Finish, TypeOK, NoSession
    <2> QED
      BY <2>1 DEF Control, FinishPoint, ReintPoint
  <1>6. CASE Abort
    BY <1>6 DEF Abort, Control, FinishPoint, ReintPoint, Goes
  <1>7. CASE EndSession
    BY <1>7 DEF EndSession, Control, FinishPoint, ReintPoint, command, Begins
  <1>8. CASE ContinueReintegration
    BY <1>8, ActiveType
       DEF ContinueReintegration, Saves, Goes, Control, FinishPoint, ReintPoint
  <1>9. CASE SkipReintegration
    BY <1>9, ActiveType
       DEF SkipReintegration, Saves, Goes, Control, FinishPoint, ReintPoint
  <1>10. ASSUME NEW c \in Changes, StartInSession(c) PROVE Control'
    BY <1>10, SwitchType DEF StartInSession, Switch, Control, FinishPoint, ReintPoint
  <1>11. ASSUME NEW c \in Changes, StartNew(c) PROVE Control'
    <2>1. mem'.active /\ pc' = "save"
      BY <1>11 DEF StartNew, Fresh, Goes
    <2> QED
      BY <2>1, InSession DEF TypeOK, Control, FinishPoint, ReintPoint
  <1>12. ASSUME NEW c \in Changes, StartReintegration(c) PROVE Control'
    <2>1. mem'.active /\ pc' = "rsave"
      BY <1>12 DEF StartReintegration, ToStale, Fresh, Goes
    <2> QED
      BY <2>1, InSession DEF TypeOK, Control, FinishPoint, ReintPoint
  <1>13. CASE Save
    BY <1>13 DEF Save, End, Control, FinishPoint, ReintPoint
  <1>14. CASE Clear
    BY <1>14 DEF Clear, End, Control, FinishPoint, ReintPoint
  <1>15. CASE Continue
    BY <1>15 DEF Continue, Moves, Goes, Control, FinishPoint, ReintPoint
  <1>16. CASE Continued
    <2>1. mem \in Session
      BY <1>16 DEF Continued, Control, FinishPoint
    <2>2. mem.active /\ [mem EXCEPT !.rebased = @ \cup {mem.pending}, !.pending = 0].active
      BY <2>1, SessionParts, RebasedFields
    <2>3. mem'.active /\ file' = mem'
      BY <1>16, <2>2 DEF Continued, Saves, Control, FinishPoint
    <2> QED
      BY <1>16, <2>3, InSession
         DEF Continued, Goes, TypeOK, Control, FinishPoint, ReintPoint
  <1>17. CASE Emptied
    <2>1. mem \in Session
      BY <1>17 DEF Emptied, Control, FinishPoint
    <2>2. mem.active /\ [mem EXCEPT !.skipped = @ \cup {mem.pending}, !.pending = 0].active
      BY <2>1, SessionParts, SkippedFields
    <2>3. mem'.active /\ file' = mem'
      BY <1>17, <2>2 DEF Emptied, Saves, Control, FinishPoint
    <2> QED
      BY <1>17, <2>3, InSession
         DEF Emptied, Goes, TypeOK, Control, FinishPoint, ReintPoint
  <1>18. CASE Drop
    BY <1>18 DEF Drop, Moves, Goes, Control, FinishPoint, ReintPoint
  <1>19. CASE Plan
    BY <1>19 DEF Plan, Notes, Control, FinishPoint, ReintPoint
  <1>20. CASE PickNext
    <2>1. mem \in Session
      BY <1>20 DEF PickNext, Control, FinishPoint
    <2>2. mem'.active /\ file' = mem' /\ mem'.pending = First(todo)
      BY <1>20, <2>1, SessionParts, PendingFields DEF PickNext, Saves
    <2> QED
      BY <1>20, <2>2, InSession
         DEF PickNext, Goes, TypeOK, Control, FinishPoint, ReintPoint
  <1>21. CASE CherryPick
    <2>1. pc' \in {"picked", "nothing", "conflict"} /\ UNCHANGED <<mem, file, todo>>
      BY <1>21 DEF CherryPick, Goes, Moves
    <2> QED
      BY <1>21, <2>1 DEF CherryPick, Control, FinishPoint, ReintPoint
  <1>22. CASE PickedOne
    <2>1. mem \in Session
      BY <1>22 DEF PickedOne, Control, FinishPoint
    <2>2. mem'.active /\ file' = mem' /\ pc' \in {"next", "drop"}
      BY <1>22, <2>1, SessionParts, RebasedFields DEF PickedOne, Saves
    <2> QED
      BY <2>2, InSession DEF TypeOK, Control, FinishPoint, ReintPoint
  <1>23. CASE PickedNothing
    <2>1. mem \in Session
      BY <1>23 DEF PickedNothing, Control, FinishPoint
    <2>2. mem'.active /\ file' = mem' /\ pc' \in {"next", "drop"}
      BY <1>23, <2>1, SessionParts, SkippedFields DEF PickedNothing, Saves
    <2> QED
      BY <2>2, InSession DEF TypeOK, Control, FinishPoint, ReintPoint
  <1>24. CASE Conflicted
    BY <1>24 DEF Conflicted, End, Control, FinishPoint, ReintPoint
  <1>25. CASE Close
    <2>1. mem \in Session
      BY <1>25 DEF Close, Control, FinishPoint
    <2>2. mem'.active /\ file' = mem'
      BY <1>25, <2>1, SessionParts, ClosedFields DEF Close, Saves, Control, FinishPoint
    <2> QED
      BY <1>25, <2>2, InSession
         DEF Close, Goes, TypeOK, Control, FinishPoint, ReintPoint
  <1>26. CASE Push
    BY <1>26 DEF Push, Goes, Control, FinishPoint, ReintPoint
  <1>27. CASE Advance
    <2>1. CASE End
      BY <2>1 DEF End, Control, FinishPoint, ReintPoint
    <2>2. ASSUME NEW d \in mem.target + 1..N, Switch(d) PROVE Control'
      <3>1. mem'.active /\ pc' = "save"
        BY <2>2 DEF Switch, Fresh, Goes
      <3> QED
        BY <3>1, InSession DEF TypeOK, Control, FinishPoint, ReintPoint
    <2> QED
      BY <1>27, <2>1, <2>2 DEF Advance
  <1>28. CASE SaveStale
    BY <1>28 DEF SaveStale, Goes, Control, FinishPoint, ReintPoint
  <1>29. CASE PickDue
    <2>1. mem \in Session /\ First(mem.due) \in Changes
      BY <1>29, FirstOfSome, SessionParts DEF PickDue, Control, ReintPoint
    <2>2. LET t == [mem EXCEPT !.pending = First(mem.due)]
          IN t.active /\ t.pending = First(mem.due)
      BY <2>1, SessionParts, PendingFields
    <2>3. First(mem.due) # 0
      BY <2>1 DEF Changes
    <2>4. mem'.active /\ file' = mem' /\ mem'.pending # 0
      BY <1>29, <2>2, <2>3 DEF PickDue, Saves
    <2> QED
      BY <1>29, <2>4, InSession
         DEF PickDue, Goes, TypeOK, Control, FinishPoint, ReintPoint
  <1>30. CASE PickInReintegration
    BY <1>30 DEF PickInReintegration, Goes, End, Control, FinishPoint, ReintPoint
  <1>31. CASE PickedInReintegration
    <2>1. mem \in Session
      BY <1>31 DEF PickedInReintegration, Control, ReintPoint
    <2>2. [mem EXCEPT !.due = @ \ {mem.pending}, !.rebased = @ \cup {mem.pending},
                      !.patches[mem.pending] = head, !.pending = 0].active
      BY <2>1 DEF Session
    <2>3. mem'.active /\ file' = mem'
      BY <1>31, <2>2 DEF PickedInReintegration, Saves
    <2> QED
      BY <1>31, <2>3, InSession
         DEF PickedInReintegration, Goes, TypeOK, Control, FinishPoint, ReintPoint
  <1>32. CASE SkippedInReintegration
    <2>1. mem \in Session
      BY <1>32 DEF SkippedInReintegration, Control, ReintPoint
    <2>2. mem'.active /\ file' = mem'
      BY <1>32, <2>1, SessionParts, SkippedDueFields DEF SkippedInReintegration, Saves
    <2> QED
      BY <1>32, <2>2, InSession
         DEF SkippedInReintegration, Goes, TypeOK, Control, FinishPoint, ReintPoint
  <1>33. CASE NextStale
    <2>1. mem'.active /\ pc' = "rsave"
      BY <1>33 DEF NextStale, ToStale, Goes, Control, ReintPoint, Session
    <2> QED
      BY <2>1, InSession DEF TypeOK, Control, FinishPoint, ReintPoint
  <1>34. CASE Complete
    BY <1>34 DEF Complete, End, Control, FinishPoint, ReintPoint
  <1>35. CASE FetchFails
    BY <1>35 DEF FetchFails, End, Control, FinishPoint, ReintPoint
  <1>36. CASE Crash
    BY <1>36 DEF Crash, End, Control, FinishPoint, ReintPoint
  <1>37. CASE UNCHANGED vars
    BY <1>37 DEF vars, command, Control, FinishPoint, ReintPoint
  <1> QED
    BY <1>1, <1>2, <1>3, <1>4, <1>5, <1>6, <1>7, <1>8, <1>9, <1>10, <1>11,
       <1>12, <1>13, <1>14, <1>15, <1>16, <1>17, <1>18, <1>19, <1>20,
       <1>21, <1>22, <1>23, <1>24, <1>25, <1>26, <1>27, <1>28, <1>29,
       <1>30, <1>31, <1>32, <1>33, <1>34, <1>35, <1>36, <1>37
       DEF Next, User, Command, Proceeds


-----------------------------------------------------------------------------
(* What a cherry-pick in progress is about.                                *)

LEMMA PickControlStep ==
  ASSUME TypeOK, Control, PickControl, [Next]_vars
  PROVE  PickControl'
  <1>1. CASE Amend
    BY <1>1 DEF Amend, PickControl, command
  <1>2. CASE Resolve \/ UserContinues \/ UserDrops
    BY <1>2 DEF Resolve, UserContinues, UserDrops, PickControl, command
  <1>3. CASE Finish
    BY <1>3 DEF Finish, PickControl, repo
  <1>4. CASE Abort \/ (\E c \in Changes : StartInSession(c))
    BY <1>4
       DEF Abort, StartInSession, Switch, ChecksOut, Goes, NoPick,
           PickControl
  <1>5. CASE EndSession
    BY <1>5 DEF EndSession, PickControl, repo, command, Begins
  <1>6. CASE ContinueReintegration \/ SkipReintegration
    BY <1>6
       DEF ContinueReintegration, SkipReintegration, Goes, NoPick,
           PickControl, repo
  <1>7. CASE (\E c \in Changes : StartNew(c)) \/
             (\E c \in Changes : StartReintegration(c))
    BY <1>7 DEF StartNew, StartReintegration, ToStale, Goes, PickControl
  <1>8. CASE Save \/ Clear \/ Conflicted \/ Complete \/ FetchFails \/ Crash
    BY <1>8
       DEF Save, Clear, Conflicted, Complete, FetchFails, Crash, End,
           Notes, PickControl, repo
  <1>9. CASE Continue
    BY <1>9 DEF Continue, Goes, NoPick, PickControl, repo
  <1>10. CASE Continued \/ Emptied
    BY <1>10 DEF Continued, Emptied, Goes, Notes, PickControl, repo
  <1>11. CASE Drop
    BY <1>11 DEF Drop, Goes, NoPick, PickControl
  <1>12. CASE Plan \/ PickNext \/ PickedOne \/ PickedNothing \/ Close
    BY <1>12
       DEF Plan, PickNext, PickedOne, PickedNothing, Close, Goes, Notes,
           PickControl, repo
  <1>13. CASE CherryPick
    BY <1>13
       DEF CherryPick, PicksCleanly, PicksRefused, Goes, NoPick,
           PickControl, repo
  <1>14. CASE Push
    BY <1>14 DEF Push, Goes, PickControl, repo
  <1>15. CASE Advance
    BY <1>15
       DEF Advance, End, Switch, ChecksOut, Goes, NoPick, PickControl, repo
  <1>16. CASE SaveStale \/ PickDue \/ PickedInReintegration \/
              SkippedInReintegration
    BY <1>16
       DEF SaveStale, PickDue, PickedInReintegration,
           SkippedInReintegration, Goes, Notes, PickControl, repo
  <1>17. CASE PickInReintegration
    BY <1>17 DEF PickInReintegration, Goes, End, NoPick, PickControl
  <1>18. CASE NextStale
    BY <1>18 DEF NextStale, ToStale, Goes, PickControl
  <1>19. CASE UNCHANGED vars
    BY <1>19 DEF vars, repo, command, PickControl
  <1> QED
    BY <1>1, <1>2, <1>3, <1>4, <1>5, <1>6, <1>7, <1>8, <1>9, <1>10, <1>11,
       <1>12, <1>13, <1>14, <1>15, <1>16, <1>17, <1>18, <1>19
       DEF Next, User, Command, Proceeds

LEMMA AccountedStep ==
  ASSUME TypeOK, Control, PickControl, PickIsAccounted, TypeOK', [Next]_vars
  PROVE  PickIsAccounted'
  <1>1. CASE Amend \/ UserContinues \/ UserDrops \/ Abort \/
             SkipReintegration \/ (\E c \in Changes : StartInSession(c)) \/
             Drop
    BY <1>1
       DEF Amend, UserContinues, UserDrops, Abort, SkipReintegration,
           StartInSession, Drop, Switch, ChecksOut, NoPick, PickIsAccounted
  <1>2. CASE Resolve
    <2>1. pick'.for = pick.for /\ file' = file
      BY <1>2, ActiveType DEF Resolve, Unmerged, Pick
    <2> QED
      BY <1>2, <2>1 DEF Resolve, Unmerged, PickIsAccounted
  <1>3. CASE Finish
    <2>1. CASE pick.active
      BY <1>3, <2>1 DEF Finish, Saves, repo, PickIsAccounted
    <2>2. CASE ~pick.active
      BY <1>3, <2>2 DEF Finish, repo, PickIsAccounted
    <2> QED
      BY <2>1, <2>2
  <1>4. CASE EndSession \/ Clear
    BY <1>4 DEF EndSession, Clear, NoSession, PickIsAccounted
  <1>5. CASE ContinueReintegration \/ (\E c \in Changes : StartNew(c)) \/
             (\E c \in Changes : StartReintegration(c))
    BY <1>5
       DEF ContinueReintegration, StartNew, StartReintegration, repo,
           PickIsAccounted
  <1>6. CASE Save \/ SaveStale
    BY <1>6 DEF Save, SaveStale, repo, PickControl, PickIsAccounted
  <1>7. CASE Continue
    BY <1>7 DEF Continue, Moves, NoPick, repo, PickIsAccounted
  <1>8. CASE Continued \/ Plan \/ PickNext \/ PickedOne \/ Close \/
             PickDue \/ PickedInReintegration \/ SkippedInReintegration \/
             Complete \/ FetchFails
    BY <1>8
       DEF Continued, Plan, PickNext, PickedOne, Close, PickDue,
           PickedInReintegration, SkippedInReintegration, Complete,
           FetchFails, Notes, repo, PickControl, PickIsAccounted
  <1>9. CASE Push \/ NextStale
    BY <1>9 DEF Push, NextStale, repo, PickControl, PickIsAccounted
  <1>10. CASE Emptied
    <2>1. mem \in Session /\ file = mem /\ pick' = pick
      BY <1>10 DEF Emptied, Notes, repo, Control, FinishPoint
    <2>2. CASE mem.pending = 0
      BY <1>10, <2>1, <2>2 DEF Emptied, PickIsAccounted
    <2>3. CASE mem.pending # 0
      <3>1. LET t == [mem EXCEPT !.skipped = @ \cup {mem.pending}, !.pending = 0]
            IN t.pending = 0 /\ t.skipped = mem.skipped \cup {mem.pending}
        BY <2>1, SkippedFields
      <3>2. mem.active
        BY <2>1, SessionParts
      <3> QED
        BY <1>10, <2>1, <2>3, <3>1, <3>2 DEF Emptied, Saves, PickIsAccounted
    <2> QED
      BY <2>2, <2>3
  <1>11. CASE CherryPick
    <2>1. /\ file' = file /\ file = mem
          /\ First(todo) \in Changes
          /\ mem.pending = First(todo) /\ mem.pending # 0
      <3>1. First(todo) \in Changes
        BY <1>11, FirstOfSome DEF CherryPick, Control, TypeOK
      <3> QED
        BY <1>11, <3>1, SessionAssumption
           DEF CherryPick, Moves, Control, FinishPoint, Changes
    <2>2. CASE pick' = pick \/ pick' = NoPick
      BY <1>11, <2>1, <2>2
         DEF CherryPick, PickControl, NoPick, PickIsAccounted
    <2>3. CASE \E b \in BOOLEAN : Stops(mem.patches[First(todo)], First(todo), b)
      BY <2>1, <2>3 DEF Stops, PickIsAccounted
    <2> QED
      BY <1>11, <2>2, <2>3
         DEF CherryPick, PicksCleanly, PicksEmpty, PicksRefused,
             PicksConflicting, repo
  <1>12. CASE PickedNothing
    <2>1. mem \in Session /\ file = mem /\ pick' = pick /\ mem.pending = First(todo)
      BY <1>12 DEF PickedNothing, Notes, repo, Control, FinishPoint
    <2>2. First(todo) \in Changes /\ First(todo) # 0 /\ mem.active
      <3>1. First(todo) \in Changes
        BY <1>12, FirstOfSome DEF PickedNothing, Control, TypeOK
      <3>2. First(todo) # 0
        BY <3>1, SessionAssumption DEF Changes
      <3> QED
        BY <2>1, <3>1, <3>2, SessionParts
    <2>3. LET t == [mem EXCEPT !.skipped = @ \cup {First(todo)}, !.pending = 0]
          IN t.pending = 0 /\ t.skipped = mem.skipped \cup {First(todo)}
      BY <2>1, SkippedFields
    <2> QED
      BY <1>12, <2>1, <2>2, <2>3 DEF PickedNothing, Saves, PickIsAccounted
  <1>13. CASE Conflicted
    <2>1. mem \in Session /\ file = mem /\ pick' = pick
      BY <1>13 DEF Conflicted, Notes, repo, Control, FinishPoint
    <2>2. file'.pending = mem.pending /\ file'.skipped = mem.skipped /\ mem.active
      BY <1>13, <2>1, UpdatedFields, SessionParts DEF Conflicted
    <2> QED
      BY <2>1, <2>2 DEF PickIsAccounted
  <1>14. CASE Advance
    BY <1>14
       DEF Advance, Switch, ChecksOut, NoPick, repo, PickControl,
           PickIsAccounted
  <1>15. CASE PickInReintegration
    <2>1. file' = file /\ file = mem /\ mem.pending # 0
      BY <1>15 DEF PickInReintegration, Control, ReintPoint
    <2>2. CASE \E x \in {mem.patches[mem.pending], gerrit[mem.pending]}, b \in BOOLEAN :
                  Stops(x, mem.pending, b)
      BY <2>1, <2>2 DEF Stops, PickIsAccounted
    <2>3. CASE ~pick'.active
      BY <2>3 DEF PickIsAccounted
    <2> QED
      BY <1>15, <2>2, <2>3 DEF PickInReintegration, PickControl, NoPick
  <1>16. CASE Crash
    BY <1>16 DEF Crash, repo, NoSession, PickIsAccounted
  <1>17. CASE UNCHANGED vars
    BY <1>17 DEF vars, repo, PickIsAccounted
  <1> QED
    BY <1>1, <1>2, <1>3, <1>4, <1>5, <1>6, <1>7, <1>8, <1>9, <1>10, <1>11,
       <1>12, <1>13, <1>14, <1>15, <1>16, <1>17
       DEF Next, User, Command, Proceeds

-----------------------------------------------------------------------------
(* That no later patch is lost: what the lists of a finish say of HEAD.    *)

(* What Gerrit has for a change ends in a patch of that change.            *)
GerritTips == \A c \in Changes : Tip(gerrit[c]).change = c

(* A cherry-pick in progress is of a patch of the change it is for.        *)
PickMatches ==
  pick.active /\ file.active /\ Tip(file.patches[pick.for]).change = pick.for
    => Tip(pick.commit).change = pick.for

(* The loop of phase 5, between the plan and the push.                     *)
InLoop ==
  \/ pc \in {"next", "pick", "picked", "nothing", "conflict"}
  \/ pc = "drop" /\ new # NoNew

(* Before the plan no new commit is noted.                                 *)
NothingNew == pc \in {"idle", "continue", "continued", "emptied", "plan"} => new = NoNew

(* In the loop every later change is still to do or noted, and what is     *)
(* still to do has no new commit yet.                                      *)
LoopCovers ==
  InLoop =>
    /\ \A d \in mem.target + 1..N : d \in todo \cup mem.rebased \cup mem.skipped
    /\ \A c \in todo : c > mem.target /\ new[c] = NoCommit
    /\ new[mem.target] # NoCommit

(* In the loop HEAD has all that the new commits have: it only grows.      *)
NewBelow ==
  InLoop =>
    \A c, d \in Changes : new[c] # NoCommit /\ Contains(new[c], d) => Contains(head, d)

(* What the session lists as rebased is under HEAD: the fact that spans    *)
(* the commands, and that is suspended when HEAD was moved away from those *)
(* commits with the list left as it was (astray).                          *)
RebasedKept ==
  ~astray /\ file.active /\ pc \notin {"save", "rsave", "clear"} =>
    \A d \in file.rebased : Tip(file.patches[d]).change = d => Contains(head, d)

(* A patch just picked, not listed yet, is under HEAD.                     *)
JustPicked ==
  \A c \in Changes :
    (pc = "picked" /\ c = First(todo)) \/ (pc = "continued" /\ c = mem.pending)
    => (Tip(mem.patches[c]).change = c => Contains(head, c))

(* A session about to be written by work-on-patch begins anew.             *)
SaveIsFresh == pc = "save" => mem.rebased = {}

(* The inductive invariant: the types, which command is at which of its    *)
(* points, whose cherry-pick is in progress, what the loop has done so     *)
(* far, and what the lists of the session say of HEAD.                     *)
KeptInv ==
  /\ TypeOK /\ Control /\ PickControl
  /\ PickIsAccounted /\ GerritTips /\ PickMatches
  /\ NothingNew /\ LoopCovers /\ NewBelow
  /\ JustPicked /\ SaveIsFresh /\ RebasedKept
  /\ NoPatchLost

LEMMA HeadKeeps ==
  ASSUME TypeOK, Control, PickControl, pc' \notin {"save", "rsave", "clear"}, [Next]_vars
  PROVE  \A c : Contains(head, c) => Contains(head', c)
  <1>1. CASE Amend
    <2> DEFINE v == newest[Tip(head).change] + 1
    <2>1. Tip(head).change \in Changes
      BY <1>1, CommitParts, SessionAssumption DEF Amend, TypeOK, Changes
    <2>2. v \in 1..MaxVersion
      BY <1>1, <2>1, SessionAssumption DEF Amend, TypeOK
    <2>3. head' = [head EXCEPT ![Len(head)].version = v]
      BY <1>1 DEF Amend, MovesTo
    <2> HIDE DEF v
    <2> QED
      BY <2>2, <2>3, AmendedCommit DEF TypeOK
  <1>2. CASE UserContinues \/ Continue
    <2>1. pick.active
      BY <1>2 DEF UserContinues, Continue, PickControl
    <2>2. pick.commit \in Commit
      BY <2>1, ActiveType DEF Pick
    <2>3. head' = head \/ head' = Picked(head, pick.commit)
      BY <1>2 DEF UserContinues, Continue, MovesTo, repo
    <2> QED
      BY <2>2, <2>3, PickedCommit DEF TypeOK
  <1>3. CASE CherryPick
    <2>1. mem.patches[First(todo)] \in Commit
      <3>1. mem \in Session /\ First(todo) \in Changes
        BY <1>3, FirstOfSome DEF CherryPick, Control, TypeOK
      <3> QED
        BY <3>1, SessionParts
    <2>2. head' = head \/ head' = Picked(head, mem.patches[First(todo)])
      BY <1>3
         DEF CherryPick, PicksCleanly, PicksEmpty, PicksRefused,
             PicksConflicting, MovesTo, repo
    <2> QED
      BY <2>1, <2>2, PickedCommit DEF TypeOK
  <1>4. CASE PickInReintegration
    <2>1. mem \in Session /\ mem.pending \in Changes
      BY <1>4, SessionParts DEF PickInReintegration, Control
    <2>2. mem.patches[mem.pending] \in Commit /\ gerrit[mem.pending] \in Commit
      BY <2>1, SessionParts DEF TypeOK
    <2>3. \/ head' = head
          \/ head' = Picked(head, mem.patches[mem.pending])
          \/ head' = Picked(head, gerrit[mem.pending])
      BY <1>4 DEF PickInReintegration
    <2> QED
      BY <2>2, <2>3, PickedCommit DEF TypeOK
  <1>5. CASE Abort \/ (\E c \in Changes : StartInSession(c)) \/
             (\E c \in Changes : StartNew(c)) \/
             (\E c \in Changes : StartReintegration(c)) \/ NextStale
    BY <1>5
       DEF Abort, StartInSession, StartNew, StartReintegration, NextStale,
           Switch, ToStale, Goes
  <1>6. CASE Advance
    BY <1>6 DEF Advance, Switch, Goes, repo
  <1>7. CASE Resolve \/ UserDrops \/ Finish \/ EndSession \/
             ContinueReintegration \/ SkipReintegration
    BY <1>7
       DEF Resolve, UserDrops, Finish, EndSession, ContinueReintegration,
           SkipReintegration, repo
  <1>8. CASE Save \/ Clear \/ Push \/ SaveStale \/ Crash \/ Drop
    BY <1>8 DEF Save, Clear, Push, SaveStale, Crash, Drop, repo
  <1>9. CASE Continued \/ Emptied \/ Plan \/ PickNext \/ PickedOne \/
             PickedNothing \/ Conflicted \/ Close \/ PickDue \/
             PickedInReintegration \/ SkippedInReintegration \/ Complete \/
             FetchFails
    BY <1>9
       DEF Continued, Emptied, Plan, PickNext, PickedOne, PickedNothing,
           Conflicted, Close, PickDue, PickedInReintegration,
           SkippedInReintegration, Complete, FetchFails, Notes, repo
  <1>10. CASE UNCHANGED vars
    BY <1>10 DEF vars, repo
  <1> QED
    BY <1>1, <1>2, <1>3, <1>4, <1>5, <1>6, <1>7, <1>8, <1>9, <1>10
       DEF Next, User, Command, Proceeds

LEMMA GerritTipsStep ==
  ASSUME TypeOK, GerritTips, [Next]_vars
  PROVE  GerritTips'
  <1>1. CASE Push
    <2>1. CASE gerrit' = gerrit
      BY <2>1 DEF GerritTips
    <2>2. CASE gerrit' # gerrit
      <3>1. \A j, k \in 1..Len(head) : head[j].change = head[k].change => j = k
        BY <1>1, <2>2 DEF Push
      <3>2. \A c \in Changes : Contains(head, c) => Tip(CommitOf(head, c)).change = c
        BY <3>1, CommitOfOne DEF TypeOK
      <3>3. gerrit' = [c \in Changes |-> IF Contains(head, c) THEN CommitOf(head, c) ELSE gerrit[c]]
        BY <1>1, <2>2 DEF Push
      <3> QED
        BY <3>2, <3>3 DEF GerritTips
    <2> QED
      BY <2>1, <2>2
  <1>2. CASE Amend \/ Resolve \/ UserContinues \/ UserDrops \/ Finish \/
             Abort \/ EndSession \/ ContinueReintegration \/
             SkipReintegration \/ (\E c \in Changes : StartInSession(c)) \/
             (\E c \in Changes : StartNew(c)) \/
             (\E c \in Changes : StartReintegration(c)) \/ Save \/ Clear \/
             Continue \/ Continued \/ Emptied \/ Drop \/ Plan \/
             PickNext \/ CherryPick \/ PickedOne \/ PickedNothing \/
             Conflicted \/ Close \/ Advance \/ SaveStale \/ PickDue \/
             PickInReintegration \/ PickedInReintegration \/
             SkippedInReintegration \/ NextStale \/ Complete \/
             FetchFails \/ Crash
    BY <1>2
       DEF Amend, Resolve, UserContinues, UserDrops, Finish, Abort,
           EndSession, ContinueReintegration, SkipReintegration,
           StartInSession, StartNew, StartReintegration, Save, Clear,
           Continue, Continued, Emptied, Drop, Plan, PickNext, CherryPick,
           PickedOne, PickedNothing, Conflicted, Close, Advance, SaveStale,
           PickDue, PickInReintegration, PickedInReintegration,
           SkippedInReintegration, NextStale, Complete, FetchFails, Crash,
           Notes, Moves, Switch, GerritTips
  <1>3. CASE UNCHANGED vars
    BY <1>3 DEF vars, GerritTips
  <1> QED
    BY <1>1, <1>2, <1>3
       DEF Next, User, Command, Proceeds

LEMMA MatchesStep ==
  ASSUME TypeOK, Control, PickControl, PickIsAccounted, GerritTips, PickMatches, LoopCovers, [Next]_vars
  PROVE  PickMatches'
  <1>1. CASE Amend \/ UserContinues \/ UserDrops \/ Abort \/
             SkipReintegration \/ (\E c \in Changes : StartInSession(c)) \/
             Drop
    BY <1>1
       DEF Amend, UserContinues, UserDrops, Abort, SkipReintegration,
           StartInSession, Drop, Switch, ChecksOut, NoPick, PickMatches
  <1>2. CASE Resolve
    <2>1. pick'.for = pick.for /\ pick'.commit = pick.commit /\ file' = file
      BY <1>2, ActiveType DEF Resolve, Unmerged, Pick
    <2> QED
      BY <1>2, <2>1 DEF Resolve, Unmerged, PickMatches
  <1>3. CASE Finish
    <2>1. CASE pick.active
      BY <1>3, <2>1 DEF Finish, Saves, repo, PickMatches
    <2>2. CASE ~pick.active
      BY <1>3, <2>2 DEF Finish, repo, PickMatches
    <2> QED
      BY <2>1, <2>2
  <1>4. CASE EndSession \/ Clear
    BY <1>4 DEF EndSession, Clear, NoSession, PickMatches
  <1>5. CASE ContinueReintegration \/ (\E c \in Changes : StartNew(c)) \/
             (\E c \in Changes : StartReintegration(c))
    BY <1>5
       DEF ContinueReintegration, StartNew, StartReintegration, repo,
           PickMatches
  <1>6. CASE Save \/ SaveStale
    BY <1>6 DEF Save, SaveStale, repo, PickControl, PickMatches
  <1>7. CASE Continue
    BY <1>7 DEF Continue, Moves, NoPick, repo, PickMatches
  <1>8. CASE Continued \/ Plan \/ PickNext \/ PickedOne \/ Close \/
             PickDue \/ PickedInReintegration \/ SkippedInReintegration \/
             Complete \/ FetchFails
    BY <1>8
       DEF Continued, Plan, PickNext, PickedOne, Close, PickDue,
           PickedInReintegration, SkippedInReintegration, Complete,
           FetchFails, Notes, repo, PickControl, PickMatches
  <1>9. CASE Push \/ NextStale
    BY <1>9 DEF Push, NextStale, repo, PickControl, PickMatches
  <1>10. CASE Emptied
    <2>1. mem \in Session /\ file = mem /\ pick' = pick
      BY <1>10 DEF Emptied, Notes, repo, Control, FinishPoint
    <2>2. mem.active /\ [mem EXCEPT !.skipped = @ \cup {mem.pending}, !.pending = 0].patches = mem.patches
      BY <2>1, SkippedFields, SessionParts
    <2> QED
      BY <1>10, <2>1, <2>2 DEF Emptied, Saves, PickMatches
  <1>11. CASE CherryPick
    <2>1. file' = file /\ file = mem
      BY <1>11 DEF CherryPick, Moves, Control, FinishPoint
    <2>2. CASE pick' = pick \/ pick' = NoPick
      BY <1>11, <2>1, <2>2 DEF CherryPick, PickControl, NoPick, PickMatches
    <2>3. CASE \E b \in BOOLEAN : Stops(mem.patches[First(todo)], First(todo), b)
      BY <2>1, <2>3 DEF Stops, PickMatches
    <2> QED
      BY <1>11, <2>2, <2>3
         DEF CherryPick, PicksCleanly, PicksEmpty, PicksRefused,
             PicksConflicting, repo
  <1>12. CASE PickedNothing
    <2>1. mem \in Session /\ file = mem /\ pick' = pick
      BY <1>12 DEF PickedNothing, Notes, repo, Control, FinishPoint
    <2>2. mem.active /\ [mem EXCEPT !.skipped = @ \cup {First(todo)}, !.pending = 0].patches = mem.patches
      BY <2>1, SkippedFields, SessionParts
    <2> QED
      BY <1>12, <2>1, <2>2 DEF PickedNothing, Saves, PickMatches
  <1>13. CASE Conflicted
    <2>1. mem \in Session /\ file = mem /\ pick' = pick
      BY <1>13 DEF Conflicted, Notes, repo, Control, FinishPoint
    <2>2. mem.active /\ file'.patches = Updated(mem.patches, new)
      BY <1>13, <2>1, UpdatedFields, SessionParts DEF Conflicted
    <2>3. First(todo) \in todo /\ First(todo) \in Changes /\ mem.pending = First(todo)
      BY <1>13, FirstOfSome DEF Conflicted, Control, TypeOK
    <2>4. new[First(todo)] = NoCommit
      BY <1>13, <2>3 DEF Conflicted, LoopCovers, InLoop
    <2>5. pick.active => pick.for = First(todo)
      BY <2>1, <2>2, <2>3, SessionAssumption DEF PickIsAccounted, Changes
    <2>6. pick.active => file'.patches[pick.for] = mem.patches[pick.for]
      BY <2>2, <2>3, <2>4, <2>5 DEF Updated
    <2> QED
      BY <2>1, <2>2, <2>6 DEF PickMatches
  <1>14. CASE Advance
    BY <1>14
       DEF Advance, Switch, ChecksOut, NoPick, repo, PickControl,
           PickMatches
  <1>15. CASE PickInReintegration
    <2>1. file' = file /\ file = mem /\ mem.pending \in Changes
      BY <1>15, SessionParts DEF PickInReintegration, Control, ReintPoint
    <2>2. CASE \E b \in BOOLEAN : \/ Stops(mem.patches[mem.pending], mem.pending, b)
                                \/ Stops(gerrit[mem.pending], mem.pending, b)
      BY <2>1, <2>2 DEF Stops, PickMatches, GerritTips
    <2>3. CASE ~pick'.active
      BY <2>3 DEF PickMatches
    <2> QED
      BY <1>15, <2>2, <2>3 DEF PickInReintegration, PickControl, NoPick
  <1>16. CASE Crash
    BY <1>16 DEF Crash, repo, NoSession, PickMatches
  <1>17. CASE UNCHANGED vars
    BY <1>17 DEF vars, repo, PickMatches
  <1> QED
    BY <1>1, <1>2, <1>3, <1>4, <1>5, <1>6, <1>7, <1>8, <1>9, <1>10, <1>11,
       <1>12, <1>13, <1>14, <1>15, <1>16, <1>17
       DEF Next, User, Command, Proceeds

LEMMA NothingNewStep ==
  ASSUME NothingNew, [Next]_vars
  PROVE  NothingNew'
  <1>1. CASE Amend \/ Resolve \/ UserContinues \/ UserDrops \/ EndSession
    BY <1>1
       DEF Amend, Resolve, UserContinues, UserDrops, EndSession,
           NothingNew, command, Begins
  <1>2. CASE Finish \/ Abort \/ ContinueReintegration \/
             SkipReintegration \/ (\E c \in Changes : StartInSession(c)) \/
             (\E c \in Changes : StartNew(c)) \/
             (\E c \in Changes : StartReintegration(c))
    BY <1>2
       DEF Finish, Abort, ContinueReintegration, SkipReintegration,
           StartInSession, StartNew, StartReintegration, Switch, ToStale,
           Goes, Begins, NothingNew
  <1>3. CASE Save \/ Clear \/ Conflicted \/ Complete \/ FetchFails \/ Crash
    BY <1>3
       DEF Save, Clear, Conflicted, Complete, FetchFails, Crash, End,
           NothingNew
  <1>4. CASE Continue \/ Continued \/ Emptied \/ Drop
    BY <1>4 DEF Continue, Continued, Emptied, Drop, Goes, NothingNew
  <1>5. CASE Plan \/ PickNext \/ CherryPick \/ PickedOne \/
             PickedNothing \/ Close \/ Push
    BY <1>5
       DEF Plan, PickNext, CherryPick, PickedOne, PickedNothing, Close,
           Push, Goes, NothingNew
  <1>6. CASE Advance
    BY <1>6 DEF Advance, End, Switch, Goes, NothingNew
  <1>7. CASE SaveStale \/ PickDue \/ PickedInReintegration \/
             SkippedInReintegration \/ NextStale
    BY <1>7
       DEF SaveStale, PickDue, PickedInReintegration,
           SkippedInReintegration, NextStale, ToStale, Goes, NothingNew
  <1>8. CASE PickInReintegration
    BY <1>8 DEF PickInReintegration, End, Goes, NothingNew
  <1>9. CASE UNCHANGED vars
    BY <1>9 DEF vars, command, NothingNew
  <1> QED
    BY <1>1, <1>2, <1>3, <1>4, <1>5, <1>6, <1>7, <1>8, <1>9
       DEF Next, User, Command, Proceeds

LEMMA LoopCoversStep ==
  ASSUME TypeOK, Control, NothingNew, LoopCovers, [Next]_vars
  PROVE  LoopCovers'
  <1>1. CASE Plan
    <2>1. mem \in Session /\ mem.target \in Changes /\ head # NoCommit
      BY <1>1, SessionParts
         DEF Plan, Control, FinishPoint, TypeOK, Commit, NoCommit
    <2>2. new' = [NoNew EXCEPT ![mem.target] = head] /\ todo' = Remaining(mem) /\ mem' = mem
      BY <1>1 DEF Plan
    <2>3. \A c \in Remaining(mem) : c \in Changes /\ c > mem.target
      BY <2>1, SessionAssumption DEF Remaining, Changes
    <2>4. new'[mem.target] # NoCommit /\ \A c \in todo' : new'[c] = NoCommit
      <3>1. \A c \in todo' : c # mem.target
        BY <2>1, <2>2, <2>3, SessionAssumption DEF Changes
      <3> QED
        BY <2>1, <2>2, <2>3, <3>1 DEF NoNew
    <2>5. \A d \in mem.target + 1..N : d \in Remaining(mem) \cup mem.rebased \cup mem.skipped
      BY DEF Remaining
    <2> QED
      BY <2>2, <2>3, <2>4, <2>5 DEF LoopCovers
  <1>2. CASE PickNext
    <2>1. mem \in Session /\ InLoop /\ UNCHANGED <<todo, new>>
      BY <1>2 DEF PickNext, Control, FinishPoint, InLoop, Goes
    <2>2. /\ mem'.target = mem.target
          /\ mem'.rebased = mem.rebased /\ mem'.skipped = mem.skipped
      BY <1>2, <2>1, PendingFields DEF PickNext, Saves
    <2> QED
      BY <2>1, <2>2 DEF LoopCovers
  <1>3. CASE CherryPick
    <2>1. InLoop /\ UNCHANGED <<mem, todo, new>>
      BY <1>3 DEF CherryPick, InLoop, Goes, Moves
    <2> QED
      BY <2>1 DEF LoopCovers
  <1>4. CASE PickedOne
    <2> DEFINE c == First(todo)
    <2>1. mem \in Session /\ mem.target \in Changes /\ InLoop
      BY <1>4, SessionParts DEF PickedOne, Control, FinishPoint, InLoop
    <2>2. c \in todo /\ c \in Changes
      BY <1>4, FirstOfSome DEF PickedOne, Control, TypeOK
    <2>3. /\ mem'.target = mem.target
          /\ mem'.rebased = mem.rebased \cup {c} /\ mem'.skipped = mem.skipped
      BY <1>4, <2>1, RebasedFields DEF PickedOne, Saves
    <2>4. todo' = todo \ {c} /\ new' = [new EXCEPT ![c] = head]
      BY <1>4 DEF PickedOne
    <2> HIDE DEF c
    <2>5. c # mem.target
      BY <2>1, <2>2 DEF LoopCovers, Changes
    <2>6. new'[mem.target] # NoCommit
      BY <2>1, <2>2, <2>4, <2>5 DEF LoopCovers, TypeOK
    <2>7. \A d \in todo' : d > mem.target /\ new'[d] = NoCommit
      BY <2>1, <2>2, <2>4 DEF LoopCovers, TypeOK
    <2>8. \A d \in mem.target + 1..N : d \in todo' \cup mem'.rebased \cup mem'.skipped
      BY <2>1, <2>3, <2>4 DEF LoopCovers
    <2> QED
      BY <2>3, <2>6, <2>7, <2>8 DEF LoopCovers
  <1>5. CASE PickedNothing
    <2> DEFINE c == First(todo)
    <2>1. mem \in Session /\ InLoop
      BY <1>5 DEF PickedNothing, Control, FinishPoint, InLoop
    <2>2. /\ mem'.target = mem.target
          /\ mem'.rebased = mem.rebased /\ mem'.skipped = mem.skipped \cup {c}
      BY <1>5, <2>1, SkippedFields DEF PickedNothing, Saves
    <2>3. todo' = todo \ {c} /\ new' = new
      BY <1>5 DEF PickedNothing
    <2> HIDE DEF c
    <2> QED
      BY <2>1, <2>2, <2>3 DEF LoopCovers
  <1>6. CASE Drop
    <2>1. InLoop' => InLoop
      BY <1>6 DEF Drop, InLoop, Goes
    <2> QED
      BY <1>6, <2>1 DEF Drop, Goes, Moves, LoopCovers
  <1>7. CASE Emptied
    BY <1>7 DEF Emptied, Goes, NothingNew, LoopCovers, InLoop
  <1>8. CASE Amend \/ Resolve \/ UserContinues \/ UserDrops \/ EndSession
    BY <1>8
       DEF Amend, Resolve, UserContinues, UserDrops, EndSession, command,
           Begins, LoopCovers, InLoop
  <1>9. CASE Finish \/ Abort \/ ContinueReintegration \/
             SkipReintegration \/ (\E c \in Changes : StartInSession(c)) \/
             (\E c \in Changes : StartNew(c)) \/
             (\E c \in Changes : StartReintegration(c))
    BY <1>9
       DEF Finish, Abort, ContinueReintegration, SkipReintegration,
           StartInSession, StartNew, StartReintegration, Switch, ToStale,
           Goes, LoopCovers, InLoop
  <1>10. CASE Save \/ Clear \/ Conflicted \/ Complete \/ FetchFails \/ Crash
    BY <1>10
       DEF Save, Clear, Conflicted, Complete, FetchFails, Crash, End,
           LoopCovers, InLoop
  <1>11. CASE Continue \/ Continued
    <2>1. pc' \in {"continued", "emptied", "plan"}
      BY <1>11 DEF Continue, Continued, Goes
    <2> QED
      BY <2>1 DEF LoopCovers, InLoop
  <1>12. CASE Close \/ Push
    BY <1>12 DEF Close, Push, Goes, LoopCovers, InLoop
  <1>13. CASE Advance \/ PickInReintegration
    BY <1>13
       DEF Advance, PickInReintegration, End, Switch, Goes, LoopCovers,
           InLoop
  <1>14. CASE SaveStale \/ PickDue \/ PickedInReintegration \/
              SkippedInReintegration \/ NextStale
    BY <1>14
       DEF SaveStale, PickDue, PickedInReintegration,
           SkippedInReintegration, NextStale, ToStale, Goes, LoopCovers,
           InLoop
  <1>15. CASE UNCHANGED vars
    BY <1>15 DEF vars, command, LoopCovers, InLoop
  <1> QED
    BY <1>1, <1>2, <1>3, <1>4, <1>5, <1>6, <1>7, <1>8, <1>9, <1>10, <1>11,
       <1>12, <1>13, <1>14, <1>15
       DEF Next, User, Command, Proceeds

LEMMA NewBelowStep ==
  ASSUME TypeOK, Control, PickControl, NothingNew, NewBelow, [Next]_vars
  PROVE  NewBelow'
  <1>1. CASE Plan
    <2>1. mem.target \in Changes /\ head' = head /\ new' = [NoNew EXCEPT ![mem.target] = head]
      BY <1>1, SessionParts DEF Plan, Notes, repo, Control, FinishPoint
    <2>2. \A c \in Changes : new'[c] # NoCommit => new'[c] = head
      BY <2>1 DEF NoNew
    <2> QED
      BY <2>1, <2>2 DEF NewBelow
  <1>2. CASE CherryPick
    <2>1. InLoop /\ new' = new /\ pc' \notin {"save", "rsave", "clear"}
      BY <1>2 DEF CherryPick, InLoop, Goes
    <2> QED
      BY <2>1, HeadKeeps DEF NewBelow
  <1>3. CASE PickedOne
    <2>1. InLoop /\ head' = head /\ First(todo) \in Changes
      BY <1>3, FirstOfSome DEF PickedOne, Notes, repo, InLoop, Control, TypeOK
    <2>2. new' = [new EXCEPT ![First(todo)] = head]
      BY <1>3 DEF PickedOne
    <2>3. \A c \in Changes : new'[c] = new[c] \/ new'[c] = head
      BY <2>1, <2>2 DEF TypeOK
    <2> QED
      BY <2>1, <2>3 DEF NewBelow
  <1>4. CASE PickNext \/ PickedNothing
    BY <1>4 DEF PickNext, PickedNothing, Goes, Notes, repo, NewBelow, InLoop
  <1>5. CASE Drop
    BY <1>5 DEF Drop, Goes, NewBelow, InLoop
  <1>6. CASE Emptied
    BY <1>6 DEF Emptied, Goes, NothingNew, NewBelow, InLoop
  <1>7. CASE Amend \/ Resolve \/ UserContinues \/ UserDrops \/ EndSession
    BY <1>7
       DEF Amend, Resolve, UserContinues, UserDrops, EndSession, command,
           Begins, NewBelow, InLoop
  <1>8. CASE Finish \/ Abort \/ ContinueReintegration \/
             SkipReintegration \/ (\E c \in Changes : StartInSession(c)) \/
             (\E c \in Changes : StartNew(c)) \/
             (\E c \in Changes : StartReintegration(c))
    BY <1>8
       DEF Finish, Abort, ContinueReintegration, SkipReintegration,
           StartInSession, StartNew, StartReintegration, Switch, ToStale,
           Goes, NewBelow, InLoop
  <1>9. CASE Save \/ Clear \/ Conflicted \/ Complete \/ FetchFails \/ Crash
    BY <1>9
       DEF Save, Clear, Conflicted, Complete, FetchFails, Crash, End,
           NewBelow, InLoop
  <1>10. CASE Continue \/ Continued
    <2>1. pc' \in {"continued", "emptied", "plan"}
      BY <1>10 DEF Continue, Continued, Goes
    <2> QED
      BY <2>1 DEF NewBelow, InLoop
  <1>11. CASE Close \/ Push
    BY <1>11 DEF Close, Push, Goes, NewBelow, InLoop
  <1>12. CASE Advance \/ PickInReintegration
    BY <1>12
       DEF Advance, PickInReintegration, End, Switch, Goes, NewBelow, InLoop
  <1>13. CASE SaveStale \/ PickDue \/ PickedInReintegration \/
              SkippedInReintegration \/ NextStale
    BY <1>13
       DEF SaveStale, PickDue, PickedInReintegration,
           SkippedInReintegration, NextStale, ToStale, Goes, NewBelow,
           InLoop
  <1>14. CASE UNCHANGED vars
    BY <1>14 DEF vars, repo, command, NewBelow, InLoop
  <1> QED
    BY <1>1, <1>2, <1>3, <1>4, <1>5, <1>6, <1>7, <1>8, <1>9, <1>10, <1>11,
       <1>12, <1>13, <1>14
       DEF Next, User, Command, Proceeds

LEMMA JustPickedStep ==
  ASSUME TypeOK, Control, PickControl, PickIsAccounted, PickMatches, JustPicked, [Next]_vars
  PROVE  JustPicked'
  <1>1. CASE Continue
    <2>1. CASE pc' = "continued"
      <3>1. pick.active /\ file = mem /\ mem.active /\ mem' = mem
        BY <1>1, SessionParts
           DEF Continue, PickControl, Control, FinishPoint, Moves
      <3>2. pick.commit \in Commit /\ head' = Picked(head, pick.commit)
        BY <1>1, <2>1, <3>1, ActiveType DEF Continue, Goes, MovesTo, Pick
      <3>3. ASSUME NEW c \in Changes, c = mem.pending, Tip(mem.patches[c]).change = c
            PROVE  Contains(head', c)
        <4>1. mem.pending # 0
          BY <3>3, SessionAssumption DEF Changes
        <4>2. pick.for = c /\ Tip(pick.commit).change = c
          BY <3>1, <3>3, <4>1 DEF PickIsAccounted, PickMatches
        <4> QED
          BY <3>2, <4>2, PickedCommit DEF TypeOK
      <3> QED
        BY <2>1, <3>1, <3>3 DEF JustPicked
    <2>2. CASE pc' = "emptied"
      BY <2>2 DEF JustPicked
    <2> QED
      BY <1>1, <2>1, <2>2 DEF Continue, Goes
  <1>2. CASE CherryPick
    <2>1. CASE pc' = "picked"
      <3> DEFINE x == mem.patches[First(todo)]
      <3>1. head' = Picked(head, x) /\ UNCHANGED <<mem, todo>>
        BY <1>2, <2>1 DEF CherryPick, PicksCleanly, MovesTo, Goes, Moves
      <3>2. x \in Commit
        <4>1. mem \in Session /\ First(todo) \in Changes
          BY <1>2, FirstOfSome DEF CherryPick, Control, TypeOK
        <4> QED
          BY <4>1, SessionParts
      <3>3. Contains(head', Tip(x).change)
        BY <3>1, <3>2, PickedCommit DEF TypeOK
      <3> QED
        BY <2>1, <3>1, <3>3 DEF JustPicked
    <2>2. CASE pc' \in {"nothing", "conflict"}
      BY <2>2 DEF JustPicked
    <2> QED
      BY <1>2, <2>1, <2>2 DEF CherryPick, Goes
  <1>3. CASE Amend \/ Resolve \/ UserContinues \/ UserDrops \/ EndSession
    BY <1>3
       DEF Amend, Resolve, UserContinues, UserDrops, EndSession, command,
           Begins, JustPicked
  <1>4. CASE Finish \/ Abort \/ ContinueReintegration \/
             SkipReintegration \/ (\E c \in Changes : StartInSession(c)) \/
             (\E c \in Changes : StartNew(c)) \/
             (\E c \in Changes : StartReintegration(c))
    BY <1>4
       DEF Finish, Abort, ContinueReintegration, SkipReintegration,
           StartInSession, StartNew, StartReintegration, Switch, ToStale,
           Goes, JustPicked
  <1>5. CASE Save \/ Clear \/ Conflicted \/ Complete \/ FetchFails \/ Crash
    BY <1>5
       DEF Save, Clear, Conflicted, Complete, FetchFails, Crash, End,
           JustPicked
  <1>6. CASE Continued \/ Emptied \/ Drop \/ Plan \/ PickNext \/
             PickedOne \/ PickedNothing \/ Close \/ Push
    BY <1>6
       DEF Continued, Emptied, Drop, Plan, PickNext, PickedOne,
           PickedNothing, Close, Push, Goes, JustPicked
  <1>7. CASE Advance \/ PickInReintegration
    BY <1>7 DEF Advance, PickInReintegration, End, Switch, Goes, JustPicked
  <1>8. CASE SaveStale \/ PickDue \/ PickedInReintegration \/
             SkippedInReintegration \/ NextStale
    BY <1>8
       DEF SaveStale, PickDue, PickedInReintegration,
           SkippedInReintegration, NextStale, ToStale, Goes, JustPicked
  <1>9. CASE UNCHANGED vars
    BY <1>9 DEF vars, repo, command, JustPicked
  <1> QED
    BY <1>1, <1>2, <1>3, <1>4, <1>5, <1>6, <1>7, <1>8, <1>9
       DEF Next, User, Command, Proceeds

LEMMA SaveIsFreshStep ==
  ASSUME SaveIsFresh, [Next]_vars
  PROVE  SaveIsFresh'
  <1>1. CASE (\E c \in Changes : StartInSession(c)) \/
             (\E c \in Changes : StartNew(c))
    BY <1>1 DEF StartInSession, StartNew, Switch, Fresh, SaveIsFresh
  <1>2. CASE Advance
    BY <1>2 DEF Advance, End, Switch, Fresh, SaveIsFresh
  <1>3. CASE Amend \/ Resolve \/ UserContinues \/ UserDrops \/ EndSession
    BY <1>3
       DEF Amend, Resolve, UserContinues, UserDrops, EndSession, command,
           Begins, SaveIsFresh
  <1>4. CASE Finish \/ Abort \/ ContinueReintegration \/
             SkipReintegration \/ (\E c \in Changes : StartReintegration(c))
    BY <1>4
       DEF Finish, Abort, ContinueReintegration, SkipReintegration,
           StartReintegration, ToStale, Goes, SaveIsFresh
  <1>5. CASE Save \/ Clear \/ Conflicted \/ Complete \/ FetchFails \/ Crash
    BY <1>5
       DEF Save, Clear, Conflicted, Complete, FetchFails, Crash, End,
           SaveIsFresh
  <1>6. CASE Continue \/ Continued \/ Emptied \/ Drop \/ Plan \/
             PickNext \/ CherryPick \/ PickedOne \/ PickedNothing \/
             Close \/ Push
    BY <1>6
       DEF Continue, Continued, Emptied, Drop, Plan, PickNext, CherryPick,
           PickedOne, PickedNothing, Close, Push, Goes, SaveIsFresh
  <1>7. CASE PickInReintegration
    BY <1>7 DEF PickInReintegration, End, Goes, SaveIsFresh
  <1>8. CASE SaveStale \/ PickDue \/ PickedInReintegration \/
             SkippedInReintegration \/ NextStale
    BY <1>8
       DEF SaveStale, PickDue, PickedInReintegration,
           SkippedInReintegration, NextStale, ToStale, Goes, SaveIsFresh
  <1>9. CASE UNCHANGED vars
    BY <1>9 DEF vars, command, SaveIsFresh
  <1> QED
    BY <1>1, <1>2, <1>3, <1>4, <1>5, <1>6, <1>7, <1>8, <1>9
       DEF Next, User, Command, Proceeds

(* The lists stay as they are, or get shorter, and HEAD keeps its changes. *)
LEMMA ListsKept ==
  ASSUME RebasedKept, pc \notin {"save", "rsave", "clear"},
         astray' = FALSE => astray = FALSE,
         file'.active => /\ file.active
                         /\ file'.rebased = file.rebased
                         /\ file'.patches = file.patches,
         \A c : Contains(head, c) => Contains(head', c), astray' \in BOOLEAN, astray \in BOOLEAN
  PROVE  RebasedKept'
  BY DEF RebasedKept

LEMMA RebasedKeptStep ==
  ASSUME KeptInv, TypeOK', [Next]_vars
  PROVE  RebasedKept'
  <1>1. CASE Amend \/ Resolve \/ UserContinues \/ UserDrops \/
             ContinueReintegration \/ SkipReintegration
    <2>1. file' = file /\ astray' = astray /\ pc = "idle" /\ pc' \notin {"save", "rsave", "clear"}
      BY <1>1
         DEF Amend, Resolve, UserContinues, UserDrops,
             ContinueReintegration, SkipReintegration, command, Begins,
             Saves, Goes
    <2> QED
      BY <2>1, HeadKeeps, ListsKept DEF KeptInv, TypeOK
  <1>2. CASE Finish
    <2>1. astray' = astray /\ pc = "idle" /\ pc' \in {"continue", "plan"} /\ file \in Session
      BY <1>2, ActiveType DEF Finish, Begins, KeptInv
    <2>2. file.active /\ file'.rebased = file.rebased /\ file'.patches = file.patches
      <3>1. LET t == [file EXCEPT !.skipped = @ \cup {file.pending}, !.pending = 0]
            IN t.rebased = file.rebased /\ t.patches = file.patches
        BY <2>1, SkippedFields
      <3> QED
        BY <1>2, <3>1 DEF Finish, Saves
    <2> QED
      BY <2>1, <2>2, HeadKeeps, ListsKept DEF KeptInv, TypeOK
  <1>3. CASE Abort \/ (\E c \in Changes : StartInSession(c)) \/
             (\E c \in Changes : StartNew(c)) \/
             (\E c \in Changes : StartReintegration(c)) \/ NextStale
    <2>1. pc' \in {"save", "rsave", "clear"}
      BY <1>3
         DEF Abort, StartInSession, StartNew, StartReintegration,
             NextStale, Switch, ToStale, Goes
    <2> QED
      BY <2>1 DEF RebasedKept
  <1>4. CASE EndSession \/ Clear
    BY <1>4 DEF EndSession, Clear, NoSession, RebasedKept
  <1>5. CASE Save
    BY <1>5 DEF Save, KeptInv, SaveIsFresh, RebasedKept
  <1>6. CASE SaveStale
    BY <1>6 DEF SaveStale, RebasedKept
  <1>7. CASE Continue \/ CherryPick \/ Drop
    <2>1. /\ UNCHANGED <<file, astray>>
          /\ pc \in FinishPoint /\ pc' \in FinishPoint
      BY <1>7 DEF Continue, CherryPick, Drop, Moves, Goes, FinishPoint
    <2> QED
      BY <2>1, HeadKeeps, ListsKept DEF KeptInv, TypeOK, FinishPoint
  <1>8. CASE Continued
    <2>1. mem \in Session /\ file = mem /\ head' = head /\ astray' = astray /\ mem.active
      BY <1>8, SessionParts
         DEF Continued, Notes, repo, KeptInv, Control, FinishPoint
    <2>2. CASE mem.pending = 0
      BY <1>8, <2>1, <2>2 DEF Continued, KeptInv, RebasedKept
    <2>3. CASE mem.pending # 0
      <3>1. LET t == [mem EXCEPT !.rebased = @ \cup {mem.pending}, !.pending = 0]
            IN t.rebased = mem.rebased \cup {mem.pending} /\ t.patches = mem.patches
        BY <2>1, RebasedFields
      <3>2. file'.rebased = mem.rebased \cup {mem.pending} /\ file'.patches = mem.patches
        BY <1>8, <2>3, <3>1 DEF Continued, Saves
      <3>3. Tip(mem.patches[mem.pending]).change = mem.pending => Contains(head, mem.pending)
        <4>1. mem.pending \in Changes
          BY <2>1, <2>3, SessionParts
        <4> QED
          BY <1>8, <4>1 DEF Continued, KeptInv, JustPicked
      <3>4. ~astray => \A d \in mem.rebased : Tip(mem.patches[d]).change = d => Contains(head, d)
        BY <1>8, <2>1 DEF Continued, KeptInv, RebasedKept
      <3> QED
        BY <2>1, <3>2, <3>3, <3>4 DEF RebasedKept
    <2> QED
      BY <2>2, <2>3
  <1>9. CASE Emptied
    <2>1. mem \in Session /\ file = mem /\ astray' = astray /\ mem.active
      BY <1>9, SessionParts
         DEF Emptied, Notes, repo, KeptInv, Control, FinishPoint
    <2>2. file'.rebased = file.rebased /\ file'.patches = file.patches
      <3>1. LET t == [mem EXCEPT !.skipped = @ \cup {mem.pending}, !.pending = 0]
            IN t.rebased = mem.rebased /\ t.patches = mem.patches
        BY <2>1, SkippedFields
      <3> QED
        BY <1>9, <2>1, <3>1 DEF Emptied, Saves
    <2>3. pc = "emptied" /\ pc' = "drop"
      BY <1>9 DEF Emptied, Goes
    <2> QED
      BY <2>1, <2>2, <2>3, HeadKeeps, ListsKept DEF KeptInv, TypeOK
  <1>10. CASE Plan \/ Push
    BY <1>10 DEF Plan, Push, Notes, Goes, repo, KeptInv, RebasedKept
  <1>11. CASE PickNext \/ PickDue
    <2>1. mem \in Session /\ file = mem /\ astray' = astray /\ mem.active /\ head' = head
      BY <1>11, SessionParts
         DEF PickNext, PickDue, Notes, repo, KeptInv, Control, FinishPoint,
             ReintPoint
    <2>2. file'.rebased = file.rebased /\ file'.patches = file.patches
      <3>1. PICK c : file' = [mem EXCEPT !.pending = c]
        BY <1>11 DEF PickNext, PickDue, Saves
      <3>2. LET t == [mem EXCEPT !.pending = c]
            IN t.rebased = mem.rebased /\ t.patches = mem.patches
        BY <2>1, PendingFields
      <3> QED
        BY <2>1, <3>1, <3>2
    <2>3. pc \in {"next", "rnext"}
      BY <1>11 DEF PickNext, PickDue
    <2> QED
      BY <2>1, <2>2, <2>3 DEF KeptInv, RebasedKept
  <1>12. CASE PickedOne
    <2> DEFINE c == First(todo)
    <2>1. mem \in Session /\ file = mem /\ head' = head /\ astray' = astray /\ mem.active
      BY <1>12, SessionParts
         DEF PickedOne, Notes, repo, KeptInv, Control, FinishPoint
    <2>2. file'.rebased = mem.rebased \cup {c} /\ file'.patches = mem.patches
      BY <1>12, <2>1, RebasedFields DEF PickedOne, Saves
    <2>3. Tip(mem.patches[c]).change = c => Contains(head, c)
      <3>1. c \in Changes
        BY <1>12, FirstOfSome DEF PickedOne, KeptInv, Control, TypeOK
      <3> QED
        BY <1>12, <3>1 DEF PickedOne, KeptInv, JustPicked
    <2>4. ~astray => \A d \in mem.rebased : Tip(mem.patches[d]).change = d => Contains(head, d)
      BY <1>12, <2>1 DEF PickedOne, KeptInv, RebasedKept
    <2> HIDE DEF c
    <2> QED
      BY <2>1, <2>2, <2>3, <2>4 DEF RebasedKept
  <1>13. CASE PickedNothing
    <2>1. mem \in Session /\ file = mem /\ astray' = astray /\ mem.active /\ head' = head
      BY <1>13, SessionParts
         DEF PickedNothing, Notes, repo, KeptInv, Control, FinishPoint
    <2>2. file'.rebased = file.rebased /\ file'.patches = file.patches
      BY <1>13, <2>1, SkippedFields DEF PickedNothing, Saves
    <2>3. pc = "nothing"
      BY <1>13 DEF PickedNothing
    <2> QED
      BY <2>1, <2>2, <2>3 DEF KeptInv, RebasedKept
  <1>14. CASE Conflicted
    <2>1. mem \in Session /\ file = mem /\ head' = head /\ astray' = astray /\ mem.active /\ InLoop
      BY <1>14, SessionParts
         DEF Conflicted, Notes, repo, KeptInv, Control, FinishPoint, InLoop
    <2>2. file'.rebased = mem.rebased /\ file'.patches = Updated(mem.patches, new)
      BY <1>14, <2>1, UpdatedFields DEF Conflicted
    <2>3. ASSUME NEW d \in mem.rebased, ~astray, Tip(file'.patches[d]).change = d
          PROVE  Contains(head, d)
      <3>1. d \in Changes
        BY <2>1, SessionParts
      <3>2. CASE new[d] = NoCommit
        BY <1>14, <2>1, <2>2, <2>3, <3>1, <3>2
           DEF Conflicted, KeptInv, RebasedKept, Updated
      <3>3. CASE new[d] # NoCommit
        <4>1. file'.patches[d] = new[d] /\ new[d] \in Commit
          BY <2>2, <3>1, <3>3 DEF Updated, KeptInv, TypeOK
        <4>2. Contains(new[d], d)
          BY <2>3, <4>1, CommitParts DEF Contains, Tip
        <4> QED
          BY <2>1, <3>1, <3>3, <4>2 DEF KeptInv, NewBelow
      <3> QED
        BY <3>2, <3>3
    <2> QED
      BY <2>1, <2>2, <2>3 DEF RebasedKept
  <1>15. CASE Close
    <2>1. mem \in Session
      BY <1>15 DEF Close, KeptInv, Control, FinishPoint
    <2>2. file'.rebased = {}
      BY <1>15, <2>1, ClosedFields DEF Close, Saves
    <2> QED
      BY <2>2 DEF RebasedKept
  <1>16. CASE Advance
    BY <1>16 DEF Advance, End, Switch, Goes, repo, KeptInv, RebasedKept
  <1>17. CASE PickInReintegration
    <2>1. /\ UNCHANGED <<file, astray>> /\ pc = "rpick"
          /\ pc' \in {"rpicked", "rskip", "idle"}
      BY <1>17 DEF PickInReintegration, End, Goes
    <2> QED
      BY <2>1, HeadKeeps, ListsKept DEF KeptInv, TypeOK
  <1>18. CASE PickedInReintegration
    <2> DEFINE c == mem.pending
    <2>1. mem \in Session /\ file = mem /\ head' = head /\ astray' = astray /\ mem.active /\ c \in Changes
      BY <1>18, SessionParts
         DEF PickedInReintegration, Notes, repo, KeptInv, Control,
             ReintPoint
    <2>2. file'.rebased = mem.rebased \cup {c} /\ file'.patches = [mem.patches EXCEPT ![c] = head]
      <3>1. LET t == [mem EXCEPT !.due = @ \ {c}, !.rebased = @ \cup {c}, !.patches[c] = head, !.pending = 0]
            IN t.rebased = mem.rebased \cup {c} /\ t.patches = [mem.patches EXCEPT ![c] = head]
        BY <2>1 DEF Session
      <3> QED
        BY <1>18, <3>1 DEF PickedInReintegration, Saves
    <2>3. mem.patches \in [Changes -> Commit] /\ head \in Commit
      BY <2>1, SessionParts DEF KeptInv, TypeOK
    <2>4. ~astray => \A d \in mem.rebased : Tip(mem.patches[d]).change = d => Contains(head, d)
      BY <1>18, <2>1 DEF PickedInReintegration, KeptInv, RebasedKept
    <2>5. Tip(head).change = c => Contains(head, c)
      BY <2>3, CommitParts DEF Contains, Tip
    <2> HIDE DEF c
    <2>6. \A d \in Changes : file'.patches[d] = IF d = c THEN head ELSE mem.patches[d]
      BY <2>1, <2>2, <2>3
    <2>7. mem.rebased \subseteq Changes
      BY <2>1, SessionParts
    <2> QED
      BY <2>1, <2>2, <2>4, <2>5, <2>6, <2>7 DEF RebasedKept
  <1>19. CASE SkippedInReintegration
    <2>1. mem \in Session /\ file = mem /\ astray' = astray /\ mem.active /\ head' = head
      BY <1>19, SessionParts
         DEF SkippedInReintegration, Notes, repo, KeptInv, Control,
             ReintPoint
    <2>2. file'.rebased = file.rebased /\ file'.patches = file.patches
      <3>1. LET t == [mem EXCEPT !.due = @ \ {mem.pending}, !.skipped = @ \cup {mem.pending}, !.pending = 0]
            IN t.rebased = mem.rebased /\ t.patches = mem.patches
        BY <2>1, SkippedDueFields
      <3> QED
        BY <1>19, <2>1, <3>1 DEF SkippedInReintegration, Saves
    <2> QED
      BY <1>19, <2>1, <2>2 DEF SkippedInReintegration, KeptInv, RebasedKept
  <1>20. CASE Complete
    <2>1. mem \in Session /\ file = mem /\ astray' = astray /\ mem.active /\ head' = head
      BY <1>20, SessionParts
         DEF Complete, Notes, repo, KeptInv, Control, ReintPoint
    <2>2. file'.rebased = file.rebased /\ file'.patches = file.patches
      BY <1>20, <2>1, CompleteFields DEF Complete
    <2> QED
      BY <1>20, <2>1, <2>2 DEF Complete, KeptInv, RebasedKept
  <1>21. CASE FetchFails
    BY <1>21 DEF FetchFails, End, Notes, repo, KeptInv, RebasedKept
  <1>22. CASE Crash
    <2>1. head' = head /\ (~astray' => ~astray /\ pc \notin {"save", "rsave", "clear"})
      BY <1>22 DEF Crash, repo, KeptInv, TypeOK
    <2>2. file' = file \/ file' = NoSession
      BY <1>22 DEF Crash
    <2> QED
      BY <2>1, <2>2 DEF NoSession, KeptInv, RebasedKept
  <1>23. CASE UNCHANGED vars
    BY <1>23 DEF vars, repo, command, KeptInv, RebasedKept
  <1> QED
    BY <1>1, <1>2, <1>3, <1>4, <1>5, <1>6, <1>7, <1>8, <1>9, <1>10, <1>11,
       <1>12, <1>13, <1>14, <1>15, <1>16, <1>17, <1>18, <1>19, <1>20,
       <1>21, <1>22, <1>23
       DEF Next, User, Command, Proceeds

LEMMA NoPatchLostStep ==
  ASSUME KeptInv, [Next]_vars
  PROVE  NoPatchLost'
  <1>1. CASE Close
    <2>1. /\ mem \in Session /\ mem.active /\ file = mem /\ InLoop
          /\ todo = {} /\ pc = "next" /\ head' = head /\ astray' = astray
      BY <1>1, SessionParts
         DEF Close, Notes, repo, KeptInv, Control, FinishPoint, InLoop
    <2>2. /\ mem'.target = mem.target /\ mem'.skipped = mem.skipped
          /\ mem'.patches = Updated(mem.patches, new)
      BY <1>1, <2>1, ClosedFields DEF Close, Saves
    <2>3. ASSUME NEW d \in mem.target + 1..N, ~astray, Tip(mem'.patches[d]).change = d, d \notin mem.skipped
          PROVE  Contains(head, d)
      <3>0. mem.target \in 1..N
        BY <2>1, SessionParts DEF Changes
      <3>1. d \in Changes
        BY <2>3, <3>0, SessionAssumption DEF Changes
      <3>2. d \in mem.rebased
        BY <2>1, <2>3 DEF KeptInv, LoopCovers
      <3>3. CASE new[d] = NoCommit
        <4>1. Tip(mem.patches[d]).change = d
          BY <2>2, <2>3, <3>1, <3>3 DEF Updated
        <4> QED
          BY <2>1, <2>3, <3>2, <4>1 DEF KeptInv, RebasedKept
      <3>4. CASE new[d] # NoCommit
        <4>1. mem'.patches[d] = new[d] /\ new[d] \in Commit
          BY <2>2, <3>1, <3>4 DEF Updated, KeptInv, TypeOK
        <4>2. Contains(new[d], d)
          BY <2>3, <4>1, CommitParts DEF Contains, Tip
        <4> QED
          BY <2>1, <3>1, <3>4, <4>2 DEF KeptInv, NewBelow
      <3> QED
        BY <3>3, <3>4
    <2> QED
      BY <2>1, <2>2, <2>3 DEF NoPatchLost
  <1>2. CASE Plan
    <2>1. CASE pc' = "next"
      BY <2>1 DEF NoPatchLost
    <2>2. CASE mem.target = N
      <3>1. mem'.target + 1..N = {}
        BY <1>2, <2>2, SessionAssumption DEF Plan
      <3> QED
        BY <3>1 DEF NoPatchLost
    <2> QED
      BY <1>2, <2>1, <2>2 DEF Plan
  <1>3. CASE Amend \/ Resolve \/ UserContinues \/ UserDrops \/ EndSession
    BY <1>3
       DEF Amend, Resolve, UserContinues, UserDrops, EndSession, command,
           Begins, NoPatchLost
  <1>4. CASE Finish \/ Abort \/ ContinueReintegration \/
             SkipReintegration \/ (\E c \in Changes : StartInSession(c)) \/
             (\E c \in Changes : StartNew(c)) \/
             (\E c \in Changes : StartReintegration(c))
    BY <1>4
       DEF Finish, Abort, ContinueReintegration, SkipReintegration,
           StartInSession, StartNew, StartReintegration, Switch, ToStale,
           Goes, NoPatchLost
  <1>5. CASE Save \/ Clear \/ Conflicted \/ Complete \/ FetchFails \/ Crash
    BY <1>5
       DEF Save, Clear, Conflicted, Complete, FetchFails, Crash, End,
           NoPatchLost
  <1>6. CASE Continue \/ Continued \/ Emptied \/ Drop \/ PickNext \/
             CherryPick \/ PickedOne \/ PickedNothing \/ Push
    BY <1>6
       DEF Continue, Continued, Emptied, Drop, PickNext, CherryPick,
           PickedOne, PickedNothing, Push, Goes, NoPatchLost
  <1>7. CASE Advance \/ PickInReintegration
    BY <1>7 DEF Advance, PickInReintegration, End, Switch, Goes, NoPatchLost
  <1>8. CASE SaveStale \/ PickDue \/ PickedInReintegration \/
             SkippedInReintegration \/ NextStale
    BY <1>8
       DEF SaveStale, PickDue, PickedInReintegration,
           SkippedInReintegration, NextStale, ToStale, Goes, NoPatchLost
  <1>9. CASE UNCHANGED vars
    BY <1>9 DEF vars, repo, command, KeptInv, NoPatchLost
  <1> QED
    BY <1>1, <1>2, <1>3, <1>4, <1>5, <1>6, <1>7, <1>8, <1>9
       DEF Next, User, Command, Proceeds

-----------------------------------------------------------------------------
(* The initial states: every change has a chain that ends in it.           *)

LEMMA ChainCommit ==
  ASSUME NEW c \in 0..N, NEW S
  PROVE  Chain(c, S) \in Commit /\ Tip(Chain(c, S)).change = c
  <1> DEFINE x == Chain(c, S)
  <1>1. c \in Nat /\ 1 \in 1..MaxVersion /\ 2 \in 1..MaxVersion
    BY SessionAssumption
  <1>2. \A k \in 1..c + 1 : [change |-> k - 1, version |-> IF k - 1 \in S THEN 2 ELSE 1] \in Patch
    BY <1>1, SessionAssumption DEF Patch
  <1>3. x \in [1..c + 1 -> Patch]
    BY <1>2 DEF Chain
  <1>4. x \in Seq(Patch) /\ Len(x) = c + 1
    BY <1>1, <1>3, IsASeq, LenProperties
  <1>5. x # <<>>
    BY <1>1, <1>4, EmptySeq
  <1>6. x[Len(x)].change = c
    BY <1>1, <1>4 DEF Chain
  <1> QED
    BY <1>4, <1>5, <1>6 DEF Commit, Tip

LEMMA InitKept == Init => KeptInv
  <1> SUFFICES ASSUME Init PROVE KeptInv
    OBVIOUS
  <1>1. branch \in Commit /\ head \in Commit /\ objects \subseteq Commit
    <2>1. branch \in Commit
      BY SessionAssumption, ChainCommit DEF Init
    <2> QED
      BY <2>1, AncestorCommits DEF Init
  <1>2. newest \in [Changes -> 1..MaxVersion]
    BY SessionAssumption DEF Init
  <1>3. gerrit \in [Changes -> Commit] /\ GerritTips
    <2> DEFINE tips(stale, below) ==
                 [c \in Changes |-> Chain(c, IF c \in stale THEN below[c] \cup {c} ELSE {})]
    <2>0. PICK stale \in StaleSets : \E below \in [Changes -> SUBSET stale] : gerrit = tips(stale, below)
      BY DEF Init
    <2>1. PICK below \in [Changes -> SUBSET stale] : gerrit = tips(stale, below)
      BY <2>0
    <2>2. \A c \in Changes : c \in 0..N
      BY SessionAssumption DEF Changes
    <2> QED
      BY <2>1, <2>2, ChainCommit DEF GerritTips
  <1>4. TypeOK
    <2>1. new \in [Changes -> Commit \cup {NoCommit}]
      BY DEF Init, NoNew
    <2>2. /\ astray \in BOOLEAN
          /\ pick \in Pick \cup {NoPick}
          /\ file \in Session \cup {NoSession}
          /\ mem \in Session \cup {NoSession}
      BY DEF Init
    <2>3. /\ pc \in CommandPoint
          /\ todo \subseteq Changes
          /\ how \in {"none", "fresh", "resumed", "other"}
      BY DEF Init, CommandPoint
    <2>4. commands \in 0..MaxCommands /\ crashes \in 0..MaxCrashes
      BY SessionAssumption DEF Init
    <2> QED
      BY <1>1, <1>2, <1>3, <2>1, <2>2, <2>3, <2>4 DEF TypeOK
  <1> QED
    BY <1>3, <1>4
       DEF Init, KeptInv, Control, PickControl, NoPick, NoSession, PickIsAccounted,
       PickMatches, NothingNew, LoopCovers, NewBelow, InLoop, JustPicked, SaveIsFresh,
       RebasedKept, NoPatchLost, FinishPoint, ReintPoint

LEMMA KeptStep == KeptInv /\ [Next]_vars => KeptInv'
  <1> SUFFICES ASSUME KeptInv, [Next]_vars PROVE KeptInv'
    OBVIOUS
  <1>1. TypeOK'
    BY TypeStep DEF KeptInv
  <1>2. Control' /\ PickControl'
    BY <1>1, ControlStep, PickControlStep DEF KeptInv
  <1>3. PickIsAccounted' /\ GerritTips' /\ PickMatches'
    BY <1>1, AccountedStep, GerritTipsStep, MatchesStep DEF KeptInv
  <1>4. NothingNew' /\ LoopCovers' /\ NewBelow'
    BY NothingNewStep, LoopCoversStep, NewBelowStep DEF KeptInv
  <1>5. JustPicked' /\ SaveIsFresh'
    BY JustPickedStep, SaveIsFreshStep DEF KeptInv
  <1>6. RebasedKept' /\ NoPatchLost'
    BY <1>1, RebasedKeptStep, NoPatchLostStep
  <1> QED
    BY <1>1, <1>2, <1>3, <1>4, <1>5, <1>6 DEF KeptInv

LEMMA AlwaysKept == Spec => []KeptInv
  BY InitKept, KeptStep, PTL DEF Spec

(* The variables have their types: the session file is one that was        *)
(* written, or counts as none, whatever command died over it.              *)
THEOREM TypeCorrect == Spec => []TypeOK
  <1>1. KeptInv => TypeOK
    BY DEF KeptInv
  <1> QED
    BY <1>1, AlwaysKept, PTL

(* A cherry-pick in progress is the one the session has pending, or one    *)
(* that it has given up.                                                   *)
THEOREM PickAccounted == Spec => []PickIsAccounted
  <1>1. KeptInv => PickIsAccounted
    BY DEF KeptInv
  <1> QED
    BY <1>1, AlwaysKept, PTL

(* When a finish comes to its push, every later patch of which the session *)
(* has the commit is under HEAD or listed as skipped, however many         *)
(* conflicts, skips and deaths it took.                                    *)
THEOREM NothingLost == Spec => []NoPatchLost
  <1>1. KeptInv => NoPatchLost
    BY DEF KeptInv
  <1> QED
    BY <1>1, AlwaysKept, PTL

-----------------------------------------------------------------------------
(* The stack a finish builds when nothing comes in its way: the patches of *)
(* the changes in done, in the order of the series, on top of the commit   *)
(* base, and of each of them the new commit.                               *)

Place(base, done, d) == Len(base) + Cardinality({e \in done : e <= d})

Stacked(x, base, done, commits) ==
  /\ Len(x) = Len(base) + Cardinality(done)
  /\ SubSeq(x, 1, Len(base)) = base
  /\ \A d \in done : /\ x[Place(base, done, d)].change = d
                     /\ commits[d] = SubSeq(x, 1, Place(base, done, d))

LEMMA SomeChanges ==
  ASSUME NEW S, S \subseteq Changes
  PROVE  IsFiniteSet(S) /\ Cardinality(S) \in Nat
  <1>1. IsFiniteSet(Changes)
    BY SessionAssumption, FS_Interval DEF Changes
  <1> QED
    BY <1>1, FS_Subset, FS_CardinalityType

(* A place lies in the stack.                                              *)
LEMMA PlaceInStack ==
  ASSUME NEW x \in Commit, NEW base \in Commit, NEW done, done \subseteq Changes,
         NEW d \in done, Len(x) = Len(base) + Cardinality(done)
  PROVE  Place(base, done, d) \in 1..Len(x)
  <1> DEFINE upto == {e \in done : e <= d}
  <1>1. Len(base) \in Nat \ {0} /\ Len(x) \in Nat
    BY CommitParts
  <1>2. IsFiniteSet(done) /\ Cardinality(done) \in Nat /\ Cardinality(upto) \in Nat
    BY SomeChanges
  <1>3. Cardinality(upto) <= Cardinality(done)
    BY <1>2, FS_Subset
  <1> HIDE DEF upto
  <1>4. Place(base, done, d) = Len(base) + Cardinality(upto)
    BY DEF Place, upto
  <1> QED
    BY <1>1, <1>2, <1>3, <1>4

(* What lies in a commit lies in one that has a patch more.                *)
LEMMA PickedPrefix ==
  ASSUME NEW x \in Commit, NEW y \in Commit, NEW k \in 1..Len(x)
  PROVE  SubSeq(Picked(x, y), 1, k) = SubSeq(x, 1, k)
  <1> DEFINE z == Picked(x, y)
  <1>1. z \in Commit /\ Len(z) = Len(x) + 1 /\ \A j \in 1..Len(x) : z[j] = x[j]
    BY PickedCommit
  <1>2. Len(x) \in Nat
    BY CommitParts
  <1>3. k \in 1..Len(z) /\ \A j \in 1..k : j \in 1..Len(x)
    BY <1>1, <1>2
  <1> HIDE DEF z
  <1>4. /\ SubSeq(x, 1, k) \in Commit /\ Len(SubSeq(x, 1, k)) = k
        /\ \A j \in 1..k : SubSeq(x, 1, k)[j] = x[j]
    BY PrefixCommit
  <1>5. /\ SubSeq(z, 1, k) \in Commit /\ Len(SubSeq(z, 1, k)) = k
        /\ \A j \in 1..k : SubSeq(z, 1, k)[j] = z[j]
    BY <1>1, <1>3, PrefixCommit
  <1>6. SubSeq(x, 1, k) \in Seq(Patch) /\ SubSeq(z, 1, k) \in Seq(Patch)
    BY <1>4, <1>5, CommitParts
  <1>7. \A j \in 1..k : SubSeq(z, 1, k)[j] = SubSeq(x, 1, k)[j]
    BY <1>1, <1>3, <1>4, <1>5
  <1>8. SubSeq(z, 1, k) = SubSeq(x, 1, k)
    BY <1>4, <1>5, <1>6, <1>7, SeqEqual
  <1> QED
    BY <1>8 DEF z

(* A stack with a later patch on top is the stack of one change more.      *)
LEMMA StackedOne ==
  ASSUME NEW x \in Commit, NEW y \in Commit, NEW base \in Commit,
         NEW done, done \subseteq Changes, NEW c \in Changes, \A d \in done : d < c,
         NEW commits \in [Changes -> Commit \cup {NoCommit}],
         Stacked(x, base, done, commits), Tip(y).change = c
  PROVE  Stacked(Picked(x, y), base, done \cup {c}, [commits EXCEPT ![c] = Picked(x, y)])
  <1> DEFINE z == Picked(x, y)
             all == done \cup {c}
             noted == [commits EXCEPT ![c] = z]
  <1>1. z \in Commit /\ Len(z) = Len(x) + 1 /\ \A k \in 1..Len(x) : z[k] = x[k]
    BY PickedCommit
  <1>2. Tip(z).change = c
    BY PickedCommit
  <1>3. Len(x) \in Nat \ {0} /\ Len(base) \in Nat \ {0} /\ z \in Seq(Patch)
    BY <1>1, CommitParts
  <1>4. c \in Nat /\ \A d \in done : d \in Nat /\ d # c
    BY SessionAssumption DEF Changes
  <1>5. IsFiniteSet(done) /\ Cardinality(done) \in Nat
    BY SomeChanges
  <1>6. Cardinality(all) = Cardinality(done) + 1
    BY <1>4, <1>5, FS_AddElement
  <1>7. Len(x) = Len(base) + Cardinality(done)
    BY DEF Stacked
  <1>8. Len(z) = Len(base) + Cardinality(all)
    BY <1>1, <1>3, <1>5, <1>6, <1>7
  <1>9. SubSeq(z, 1, Len(base)) = base
    <2>1. Len(base) \in 1..Len(x)
      BY <1>3, <1>5, <1>7
    <2> QED
      BY <2>1, PickedPrefix DEF Stacked
  <1>10. ASSUME NEW d \in done
         PROVE  z[Place(base, all, d)].change = d /\ noted[d] = SubSeq(z, 1, Place(base, all, d))
    <2>1. {e \in all : e <= d} = {e \in done : e <= d}
      BY <1>4
    <2>2. Place(base, all, d) = Place(base, done, d)
      BY <2>1 DEF Place
    <2>3. Place(base, done, d) \in 1..Len(x)
      BY <1>7, PlaceInStack
    <2>4. x[Place(base, done, d)].change = d /\ commits[d] = SubSeq(x, 1, Place(base, done, d))
      BY DEF Stacked
    <2>5. noted[d] = commits[d]
      BY <1>4
    <2> HIDE DEF all, noted, z
    <2>6. z[Place(base, all, d)].change = d
      BY <1>1, <2>2, <2>3, <2>4
    <2>7. SubSeq(z, 1, Place(base, done, d)) = SubSeq(x, 1, Place(base, done, d))
      BY <2>3, PickedPrefix DEF z
    <2> QED
      BY <2>2, <2>4, <2>5, <2>6, <2>7
  <1>11. z[Place(base, all, c)].change = c /\ noted[c] = SubSeq(z, 1, Place(base, all, c))
    <2>0. \A e \in all : e <= c
      BY <1>4
    <2>1. {e \in all : e <= c} = all
      BY <2>0
    <2>2. Place(base, all, c) = Len(z)
      BY <1>8, <2>1 DEF Place
    <2>3. SubSeq(z, 1, Len(z)) = z
      BY <1>3, SubSeqFull
    <2>4. noted[c] = z
      OBVIOUS
    <2> QED
      BY <1>2, <2>2, <2>3, <2>4 DEF Tip
  <1>12. \A d \in all : /\ z[Place(base, all, d)].change = d
                        /\ noted[d] = SubSeq(z, 1, Place(base, all, d))
    BY <1>10, <1>11
  <1> HIDE DEF all, noted, z
  <1>13. Stacked(z, base, all, noted)
    BY <1>8, <1>9, <1>12 DEF Stacked
  <1> QED
    BY <1>13 DEF all, noted, z

(* At a plan nothing is stacked yet.                                       *)
LEMMA StackedNone ==
  ASSUME NEW x \in Commit, NEW commits
  PROVE  Stacked(x, x, {}, commits)
  <1>1. Len(x) \in Nat /\ x \in Seq(Patch)
    BY CommitParts
  <1>2. SubSeq(x, 1, Len(x)) = x
    BY <1>1, SubSeqFull
  <1>3. Cardinality({}) = 0
    BY FS_EmptySet
  <1> QED
    BY <1>1, <1>2, <1>3 DEF Stacked

(* A finish that began with a cherry-pick in progress is not fresh.        *)
ResumedIsNotFresh ==
  how = "fresh" => /\ pc \notin {"continue", "continued", "emptied"}
                   /\ pc = "drop" => new # NoNew

(* A fresh finish plans for the session it began with.                     *)
FreshPlan == how = "fresh" /\ pc = "plan" => Untouched(mem)

(* In its loop, what is noted comes before what is still to do.            *)
FreshLists ==
  how = "fresh" /\ InLoop =>
    /\ \A c \in Changes : Tip(mem.patches[c]).change = c
    /\ mem.rebased \cup mem.skipped \subseteq mem.target + 1..N
    /\ mem.rebased \cap mem.skipped = {}
    /\ todo = Remaining(mem)
    /\ \A d \in mem.rebased \cup mem.skipped, c \in todo : d < c

(* And HEAD is the stack of what was rebased, with the patch just picked.  *)
FreshStack ==
  how = "fresh" /\ InLoop =>
    IF pc = "picked"
    THEN Stacked(head, new[mem.target], mem.rebased \cup {First(todo)},
                 [new EXCEPT ![First(todo)] = head])
    ELSE Stacked(head, new[mem.target], mem.rebased, new)

(* The inductive invariant of a fresh finish.                              *)
FreshInv ==
  /\ KeptInv
  /\ ResumedIsNotFresh /\ FreshPlan /\ FreshLists /\ FreshStack
  /\ FinishRebases

(* The steps by which a command comes to a point of the finish.            *)
LEMMA IntoLoop ==
  ASSUME NothingNew, [Next]_vars, InLoop'
  PROVE  \/ Plan \/ PickNext \/ CherryPick \/ PickedOne \/ PickedNothing
         \/ (Drop /\ new # NoNew)
         \/ UNCHANGED vars
  <1>1. CASE Amend \/ Resolve \/ UserContinues \/ UserDrops \/ EndSession
    BY <1>1
       DEF Amend, Resolve, UserContinues, UserDrops, EndSession, command, Begins, InLoop
  <1>2. CASE Finish \/ Abort \/ ContinueReintegration \/ SkipReintegration \/
             (\E c \in Changes : StartInSession(c)) \/
             (\E c \in Changes : StartNew(c)) \/
             (\E c \in Changes : StartReintegration(c))
    BY <1>2
       DEF Finish, Abort, ContinueReintegration, SkipReintegration,
           StartInSession, StartNew, StartReintegration, Switch, ToStale,
           Goes, InLoop
  <1>3. CASE Save \/ Clear \/ Conflicted \/ Complete \/ FetchFails \/ Crash
    BY <1>3 DEF Save, Clear, Conflicted, Complete, FetchFails, Crash, End, InLoop
  <1>4. CASE Continue \/ Continued \/ Emptied
    BY <1>4 DEF Continue, Continued, Emptied, Goes, NothingNew, InLoop
  <1>5. CASE Drop
    BY <1>5 DEF Drop, Goes, InLoop
  <1>6. CASE Close \/ Push
    BY <1>6 DEF Close, Push, Goes, InLoop
  <1>7. CASE Advance \/ PickInReintegration
    BY <1>7 DEF Advance, PickInReintegration, End, Switch, Goes, InLoop
  <1>8. CASE SaveStale \/ PickDue \/ PickedInReintegration \/
             SkippedInReintegration \/ NextStale
    BY <1>8
       DEF SaveStale, PickDue, PickedInReintegration,
           SkippedInReintegration, NextStale, ToStale, Goes, InLoop
  <1> QED
    BY <1>1, <1>2, <1>3, <1>4, <1>5, <1>6, <1>7, <1>8
       DEF Next, User, Command, Proceeds

LEMMA IntoFinish ==
  ASSUME [Next]_vars
  PROVE  /\ pc' \in {"continue", "continued", "emptied", "drop", "plan"} =>
              \/ Finish \/ Continue \/ Continued \/ Emptied \/ Drop \/ PickedNothing
              \/ UNCHANGED vars
         /\ pc' = "push" => Plan \/ Close \/ UNCHANGED vars
  <1>1. CASE Amend \/ Resolve \/ UserContinues \/ UserDrops \/ EndSession
    BY <1>1 DEF Amend, Resolve, UserContinues, UserDrops, EndSession, command, Begins
  <1>2. CASE Finish \/ Abort \/ ContinueReintegration \/ SkipReintegration \/
             (\E c \in Changes : StartInSession(c)) \/
             (\E c \in Changes : StartNew(c)) \/
             (\E c \in Changes : StartReintegration(c))
    BY <1>2
       DEF Finish, Abort, ContinueReintegration, SkipReintegration,
           StartInSession, StartNew, StartReintegration, Switch, ToStale, Goes
  <1>3. CASE Save \/ Clear \/ Conflicted \/ Complete \/ FetchFails \/ Crash
    BY <1>3 DEF Save, Clear, Conflicted, Complete, FetchFails, Crash, End
  <1>4. CASE Continue \/ Continued \/ Emptied \/ Drop
    BY <1>4 DEF Continue, Continued, Emptied, Drop, Goes
  <1>5. CASE Plan \/ PickNext \/ CherryPick \/ PickedOne \/ PickedNothing \/ Close \/ Push
    BY <1>5 DEF Plan, PickNext, CherryPick, PickedOne, PickedNothing, Close, Push, Goes
  <1>6. CASE Advance \/ PickInReintegration
    BY <1>6 DEF Advance, PickInReintegration, End, Switch, Goes
  <1>7. CASE SaveStale \/ PickDue \/ PickedInReintegration \/
             SkippedInReintegration \/ NextStale
    BY <1>7
       DEF SaveStale, PickDue, PickedInReintegration,
           SkippedInReintegration, NextStale, ToStale, Goes
  <1> QED
    BY <1>1, <1>2, <1>3, <1>4, <1>5, <1>6, <1>7
       DEF Next, User, Command, Proceeds

LEMMA FreshBegins ==
  ASSUME KeptInv, ResumedIsNotFresh, FreshPlan, [Next]_vars
  PROVE  ResumedIsNotFresh' /\ FreshPlan'
  <1>1. CASE pc' \notin {"continue", "continued", "emptied", "drop", "plan"}
    BY <1>1 DEF ResumedIsNotFresh, FreshPlan
  <1>2. CASE Finish
    <2>1. CASE pick.active
      <3>1. how' = "resumed"
        BY <1>2, <2>1 DEF Finish, Began
      <3> QED
        BY <3>1 DEF ResumedIsNotFresh, FreshPlan
    <2>2. CASE ~pick.active /\ Untouched(file)
      <3>1. mem' = file /\ pc' = "plan" /\ head' = head /\ pick' = pick
        BY <1>2, <2>2 DEF Finish, Saves, Untouched, repo
      <3>2. Untouched(mem)'
        BY <2>2, <3>1 DEF Untouched
      <3> QED
        BY <3>1, <3>2 DEF ResumedIsNotFresh, FreshPlan
    <2>3. CASE ~pick.active /\ ~Untouched(file)
      <3>1. how' = "other"
        BY <1>2, <2>3 DEF Finish, Began
      <3> QED
        BY <3>1 DEF ResumedIsNotFresh, FreshPlan
    <2> QED
      BY <2>1, <2>2, <2>3
  <1>3. CASE Continue \/ Continued \/ Emptied
    BY <1>3 DEF Continue, Continued, Emptied, Goes, ResumedIsNotFresh, FreshPlan
  <1>4. CASE Drop
    BY <1>4 DEF Drop, Goes, ResumedIsNotFresh, FreshPlan
  <1>5. CASE PickedNothing
    <2>1. mem.target \in Changes /\ new[mem.target] # NoCommit /\ new' = new
      BY <1>5, SessionParts
         DEF PickedNothing, KeptInv, Control, FinishPoint, LoopCovers, InLoop
    <2>2. new' # NoNew
      BY <2>1 DEF NoNew
    <2> QED
      BY <1>5, <2>2 DEF PickedNothing, ResumedIsNotFresh, FreshPlan
  <1>6. CASE UNCHANGED vars
    BY <1>6
       DEF vars, repo, command, ResumedIsNotFresh, FreshPlan, Untouched
  <1> QED
    BY <1>1, <1>2, <1>3, <1>4, <1>5, <1>6, IntoFinish

LEMMA FreshListsStep ==
  ASSUME FreshInv, [Next]_vars
  PROVE  FreshLists'
  <1> SUFFICES ASSUME how' = "fresh", InLoop'
               PROVE  FreshLists'
    BY DEF FreshLists
  <1>1. CASE Plan
    <2>1. mem' = mem /\ todo' = Remaining(mem) /\ how' = how
      BY <1>1 DEF Plan
    <2>2. Untouched(mem)
      BY <1>1, <2>1 DEF Plan, FreshInv, FreshPlan
    <2>3. Remaining(mem)' = Remaining(mem)
      BY <2>1 DEF Remaining
    <2> QED
      BY <2>1, <2>2, <2>3 DEF Untouched, FreshLists
  <1>2. CASE PickNext
    <2>1. mem \in Session /\ InLoop /\ UNCHANGED <<todo, how>>
      BY <1>2 DEF PickNext, FreshInv, KeptInv, Control, FinishPoint, InLoop, Goes
    <2>2. /\ mem'.target = mem.target /\ mem'.patches = mem.patches
          /\ mem'.rebased = mem.rebased /\ mem'.skipped = mem.skipped
      BY <1>2, <2>1, PendingFields DEF PickNext, Saves
    <2>3. Remaining(mem)' = Remaining(mem)
      BY <2>2 DEF Remaining
    <2> QED
      BY <2>1, <2>2, <2>3 DEF FreshInv, FreshLists
  <1>3. CASE CherryPick \/ (Drop /\ new # NoNew)
    <2>1. InLoop /\ UNCHANGED <<mem, todo, how>>
      BY <1>3 DEF CherryPick, Drop, InLoop, Goes, Moves
    <2>2. Remaining(mem)' = Remaining(mem)
      BY <2>1 DEF Remaining
    <2> QED
      BY <2>1, <2>2 DEF FreshInv, FreshLists
  <1>4. CASE PickedOne \/ PickedNothing
    <2> DEFINE c == First(todo)
    <2>1. mem \in Session /\ InLoop /\ how = "fresh" /\ todo' = todo \ {c}
      BY <1>4 DEF PickedOne, PickedNothing, FreshInv, KeptInv, Control, FinishPoint, InLoop
    <2>2. c \in todo /\ \A d \in todo : c <= d
      BY <1>4, FirstOfSome
         DEF PickedOne, PickedNothing, FreshInv, KeptInv, Control, TypeOK
    <2>3. /\ mem'.target = mem.target /\ mem'.patches = mem.patches
          /\ \/ mem'.rebased = mem.rebased \cup {c} /\ mem'.skipped = mem.skipped
             \/ mem'.rebased = mem.rebased /\ mem'.skipped = mem.skipped \cup {c}
      <3>1. CASE PickedOne
        BY <2>1, <3>1, RebasedFields DEF PickedOne, Saves
      <3>2. CASE PickedNothing
        BY <2>1, <3>2, SkippedFields DEF PickedNothing, Saves
      <3> QED
        BY <1>4, <3>1, <3>2
    <2> HIDE DEF c
    <2>4. /\ mem.rebased \cup mem.skipped \subseteq mem.target + 1..N
          /\ mem.rebased \cap mem.skipped = {}
          /\ todo = Remaining(mem)
          /\ \A d \in mem.rebased \cup mem.skipped, e \in todo : d < e
          /\ \A e \in Changes : Tip(mem.patches[e]).change = e
      BY <2>1 DEF FreshInv, FreshLists
    <2>5. c \in mem.target + 1..N /\ c \notin mem.rebased \cup mem.skipped
      BY <2>2, <2>4 DEF Remaining
    <2>6. mem'.rebased \cup mem'.skipped = (mem.rebased \cup mem.skipped) \cup {c}
      BY <2>3
    <2>7. todo' = Remaining(mem)'
      BY <2>1, <2>3, <2>4, <2>6 DEF Remaining
    <2>8. \A d \in mem'.rebased \cup mem'.skipped, e \in todo' : d < e
      <3>1. ASSUME NEW e \in todo' PROVE c < e
        <4>1. e \in todo /\ e # c /\ c <= e /\ c \in Int /\ e \in Int
          BY <2>1, <2>2 DEF FreshInv, KeptInv, TypeOK, Changes
        <4> QED
          BY <4>1
      <3> QED
        BY <2>1, <2>4, <2>6, <3>1
    <2>9. mem'.rebased \cap mem'.skipped = {}
      BY <2>3, <2>4, <2>5
    <2> QED
      BY <2>3, <2>4, <2>5, <2>6, <2>7, <2>8, <2>9 DEF FreshLists
  <1>5. CASE UNCHANGED vars
    <2>1. UNCHANGED <<pc, mem, todo, new, how>>
      BY <1>5 DEF vars, command
    <2> QED
      BY <2>1 DEF FreshInv, FreshLists, InLoop, Remaining
  <1> QED
    BY <1>1, <1>2, <1>3, <1>4, <1>5, IntoLoop DEF FreshInv, KeptInv

LEMMA FreshStackStep ==
  ASSUME FreshInv, [Next]_vars
  PROVE  FreshStack'
  <1> SUFFICES ASSUME how' = "fresh", InLoop'
               PROVE  FreshStack'
    BY DEF FreshStack
  <1>0. head \in Commit /\ new \in [Changes -> Commit \cup {NoCommit}] /\ todo \subseteq Changes
    BY DEF FreshInv, KeptInv, TypeOK
  <1>1. CASE Plan
    <2>1. /\ mem \in Session /\ mem.target \in Changes /\ mem' = mem /\ how' = how /\ head' = head
          /\ new' = [NoNew EXCEPT ![mem.target] = head] /\ pc' # "picked"
      BY <1>1, SessionParts
         DEF Plan, Notes, repo, FreshInv, KeptInv, Control, FinishPoint
    <2>2. mem.rebased = {}
      BY <1>1, <2>1 DEF Plan, FreshInv, FreshPlan, Untouched
    <2>3. new'[mem.target] = head
      BY <2>1 DEF NoNew
    <2> QED
      BY <1>0, <2>1, <2>2, <2>3, StackedNone DEF FreshStack
  <1>2. CASE PickNext
    <2>1. mem \in Session /\ InLoop /\ pc # "picked" /\ pc' # "picked" /\ UNCHANGED <<head, new, how>>
      BY <1>2 DEF PickNext, FreshInv, KeptInv, Control, FinishPoint, InLoop, Goes, Notes, repo
    <2>2. mem'.target = mem.target /\ mem'.rebased = mem.rebased
      BY <1>2, <2>1, PendingFields DEF PickNext, Saves
    <2> QED
      BY <2>1, <2>2 DEF FreshInv, FreshStack
  <1>3. CASE CherryPick
    <2> DEFINE c == First(todo)
    <2>1. mem \in Session /\ InLoop /\ pc = "pick" /\ UNCHANGED <<mem, todo, new, how>>
      BY <1>3 DEF CherryPick, FreshInv, KeptInv, Control, FinishPoint, InLoop, Goes, Moves
    <2>2. Stacked(head, new[mem.target], mem.rebased, new)
      BY <2>1 DEF FreshInv, FreshStack
    <2>3. CASE pc' = "picked"
      <3>1. head' = Picked(head, mem.patches[c])
        BY <1>3, <2>3 DEF CherryPick, PicksCleanly, MovesTo, Goes
      <3>2. c \in todo /\ c \in Changes
        BY <1>3, <1>0, FirstOfSome DEF CherryPick, FreshInv, KeptInv, Control
      <3>3. mem.patches[c] \in Commit /\ mem.rebased \subseteq Changes /\ mem.target \in Changes
        BY <2>1, <3>2, SessionParts
      <3> HIDE DEF c
      <3>4. Tip(mem.patches[c]).change = c /\ \A d \in mem.rebased : d < c
        BY <2>1, <3>2 DEF FreshInv, FreshLists
      <3>5. new[mem.target] \in Commit
        BY <1>0, <2>1, <3>3 DEF FreshInv, KeptInv, LoopCovers
      <3>6. Stacked(head', new[mem.target], mem.rebased \cup {c}, [new EXCEPT ![c] = head'])
        BY <1>0, <2>2, <3>1, <3>2, <3>3, <3>4, <3>5, StackedOne
      <3> QED
        BY <2>1, <2>3, <3>6 DEF FreshStack, c
    <2>4. CASE pc' # "picked"
      <3>1. head' = head
        BY <1>3, <2>4 DEF CherryPick, PicksEmpty, PicksRefused, PicksConflicting, Goes, repo
      <3> QED
        BY <2>1, <2>2, <2>4, <3>1 DEF FreshStack
    <2> QED
      BY <2>3, <2>4
  <1>4. CASE PickedOne
    <2> DEFINE c == First(todo)
    <2>1. mem \in Session /\ InLoop /\ pc = "picked" /\ pc' # "picked" /\ UNCHANGED <<head, how>>
      BY <1>4 DEF PickedOne, FreshInv, KeptInv, Control, FinishPoint, InLoop, Notes, repo
    <2>2. mem'.target = mem.target /\ mem'.rebased = mem.rebased \cup {c}
      BY <1>4, <2>1, RebasedFields DEF PickedOne, Saves
    <2>3. new' = [new EXCEPT ![c] = head]
      BY <1>4 DEF PickedOne
    <2>4. Stacked(head, new[mem.target], mem.rebased \cup {c}, [new EXCEPT ![c] = head])
      BY <2>1 DEF FreshInv, FreshStack
    <2>5. c \in todo /\ mem.target \in Changes
      BY <1>4, <1>0, <2>1, FirstOfSome, SessionParts DEF PickedOne, FreshInv, KeptInv, Control
    <2> HIDE DEF c
    <2>6. c # mem.target
      BY <2>1, <2>5 DEF FreshInv, KeptInv, LoopCovers, Changes
    <2>7. new'[mem.target] = new[mem.target]
      BY <1>0, <2>3, <2>5, <2>6
    <2>8. Stacked(head', new'[mem'.target], mem'.rebased, new')
      BY <2>1, <2>2, <2>3, <2>4, <2>7
    <2> QED
      BY <2>1, <2>8 DEF FreshStack
  <1>5. CASE PickedNothing
    <2>1. mem \in Session /\ InLoop /\ pc # "picked" /\ pc' # "picked" /\ UNCHANGED <<head, new, how>>
      BY <1>5 DEF PickedNothing, FreshInv, KeptInv, Control, FinishPoint, InLoop, Notes, repo
    <2>2. mem'.target = mem.target /\ mem'.rebased = mem.rebased
      BY <1>5, <2>1, SkippedFields DEF PickedNothing, Saves
    <2> QED
      BY <2>1, <2>2 DEF FreshInv, FreshStack
  <1>6. CASE Drop /\ new # NoNew
    <2>1. InLoop /\ pc # "picked" /\ pc' # "picked" /\ UNCHANGED <<head, mem, new, how>>
      BY <1>6 DEF Drop, InLoop, Goes, Moves
    <2> QED
      BY <2>1 DEF FreshInv, FreshStack
  <1>7. CASE UNCHANGED vars
    <2>1. UNCHANGED <<head, pc, mem, todo, new, how>>
      BY <1>7 DEF vars, command, repo
    <2> QED
      BY <2>1 DEF FreshInv, FreshStack, InLoop
  <1> QED
    BY <1>1, <1>2, <1>3, <1>4, <1>5, <1>6, <1>7, IntoLoop DEF FreshInv, KeptInv

LEMMA FinishRebasesStep ==
  ASSUME FreshInv, [Next]_vars
  PROVE  FinishRebases'
  <1> SUFFICES ASSUME pc' = "push", how' = "fresh", mem'.target < N
               PROVE  FinishRebases'
    BY DEF FinishRebases
  <1>1. CASE Plan
    BY <1>1, SessionAssumption DEF Plan
  <1>2. CASE Close
    <2>1. mem \in Session /\ InLoop /\ pc = "next" /\ todo = {} /\ UNCHANGED <<head, new, how>>
      BY <1>2 DEF Close, FreshInv, KeptInv, Control, FinishPoint, InLoop, Goes, Notes, repo
    <2>2. /\ mem'.target = mem.target /\ mem'.skipped = mem.skipped
          /\ mem'.patches = Updated(mem.patches, new)
      BY <1>2, <2>1, ClosedFields DEF Close, Saves
    <2> DEFINE base  == new[mem.target]
               later == (mem.target + 1..N) \ mem.skipped
    <2>3. later = mem.rebased
      BY <2>1 DEF FreshInv, FreshLists, Remaining
    <2>4. mem.target \in Changes /\ mem.rebased \subseteq Changes
      BY <2>1, SessionParts
    <2>5. /\ new \in [Changes -> Commit \cup {NoCommit}] /\ head \in Commit
          /\ base \in Commit
      BY <2>1, <2>4 DEF FreshInv, KeptInv, TypeOK, LoopCovers
    <2>6. Stacked(head, base, later, new)
      BY <2>1, <2>3 DEF FreshInv, FreshStack
    <2> HIDE DEF base, later
    <2>7. ASSUME NEW d \in later
          PROVE  mem'.patches[d] = SubSeq(head, 1, Place(base, later, d))
      <3>1. d \in Changes /\ later \subseteq Changes
        BY <2>3, <2>4
      <3>2. new[d] = SubSeq(head, 1, Place(base, later, d))
        BY <2>6 DEF Stacked
      <3>3. Place(base, later, d) \in 1..Len(head)
        BY <2>5, <2>6, <3>1, PlaceInStack DEF Stacked
      <3>4. new[d] \in Commit /\ NoCommit \notin Commit
        BY <2>5, <3>2, <3>3, PrefixCommit DEF Commit, NoCommit
      <3> QED
        BY <2>2, <3>1, <3>2, <3>4 DEF Updated
    <2>8. base = new'[mem'.target] /\ later = (mem'.target + 1..N) \ mem'.skipped
      BY <2>1, <2>2 DEF base, later
    <2>9. /\ Len(head') = Len(base) + Cardinality(later)
          /\ SubSeq(head', 1, Len(base)) = base
          /\ \A d \in later :
               LET k == Len(base) + Cardinality({e \in later : e <= d})
               IN head'[k].change = d /\ mem'.patches[d] = SubSeq(head', 1, k)
      BY <2>1, <2>6, <2>7 DEF Stacked, Place
    <2> QED
      BY <2>8, <2>9 DEF FinishRebases
  <1>3. CASE UNCHANGED vars
    <2>1. UNCHANGED <<head, pc, mem, new, how>>
      BY <1>3 DEF vars, command, repo
    <2> QED
      BY <2>1 DEF FreshInv, FinishRebases
  <1> QED
    BY <1>1, <1>2, <1>3, IntoFinish

LEMMA InitFresh == Init => FreshInv
  BY InitKept
     DEF Init, FreshInv, ResumedIsNotFresh, FreshPlan, FreshLists, FreshStack, FinishRebases

LEMMA FreshStep == FreshInv /\ [Next]_vars => FreshInv'
  <1> SUFFICES ASSUME FreshInv, [Next]_vars PROVE FreshInv'
    OBVIOUS
  <1>1. KeptInv'
    BY KeptStep DEF FreshInv
  <1>2. ResumedIsNotFresh' /\ FreshPlan'
    BY FreshBegins DEF FreshInv
  <1>3. FreshLists' /\ FreshStack' /\ FinishRebases'
    BY FreshListsStep, FreshStackStep, FinishRebasesStep
  <1> QED
    BY <1>1, <1>2, <1>3 DEF FreshInv

(* A finish nothing came in the way of leaves the later patches on top of  *)
(* the amended one, each once and in the order of the series, and the      *)
(* session has their new commits, for a series of any length.              *)
THEOREM FinishesRebase == Spec => []FinishRebases
  <1>1. FreshInv => FinishRebases
    BY DEF FreshInv
  <1> QED
    BY <1>1, InitFresh, FreshStep, PTL DEF Spec
=============================================================================
