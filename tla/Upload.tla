------------------------------- MODULE Upload -------------------------------
(***************************************************************************)
(* `gerrit upload`: the commits between the branch and HEAD go to Gerrit as*)
(* the uploading account.  The command checks the range, copies commits    *)
(* that need another committer, or the account as their author, moves HEAD *)
(* to the copies, pushes, and gives the changes their author back by edits *)
(* on Gerrit, bottom up.  Other people upload to the same changes, and the *)
(* user amends HEAD, between any two steps; any call may fail, and its     *)
(* answer may be lost.                                                     *)
(*                                                                         *)
(* A commit is the chain of patches from the branch up to it.              *)
(***************************************************************************)
EXTENDS Integers, Sequences, FiniteSets

CONSTANTS
  N,           \* the most commits over the branch
  Kinds,       \* the kinds of local commits (see Kind)
  MaxTrees,    \* bound: patches that others or the user make meanwhile
  MaxUploads   \* bound: uploads, one after the other

(* What the checks ask about a commit the user made: who wrote it (the     *)
(* person the account uploads for, the person with the address in capitals,*)
(* the account, or someone else), whether its committer is one of the      *)
(* account's, and who signed it off.                                       *)
Kind == [author : {"person", "PERSON", "account", "other"}, registered : BOOLEAN,
         signed : {"author", "account", "both", "none"}]

ASSUME UploadAssumption ==
  /\ N \in Nat \ {0}
  /\ Kinds \subseteq Kind
  /\ MaxTrees \in Nat
  /\ MaxUploads \in Nat \ {0}

(* A patch belongs to the change its Change-Id names (0 for none), has a   *)
(* tree and the author's own authorship and message or the account's.  It  *)
(* was made by somebody (0), by the n-th upload (n), or on Gerrit for it   *)
(* (MaxUploads + n): commits made by different hands are different.        *)
Changes == 1..N
Patch   == [change : 0..N, tree : 0..N + MaxTrees, as : {"own", "account"},
            made : 0..2 * MaxUploads]
Commit  == Seq(Patch) \ {<<>>}
Spot    == 1..N

NoCommit  == <<>>
Tip(x)    == x[Len(x)]
UpTo(x, k) == SubSeq(x, 1, k)
Trees(x)  == [k \in 1..Len(x) |-> x[k].tree]   \* what they add up to

VARIABLES
  patchsets, \* of each change on Gerrit
  closed,    \* the changes that were merged or abandoned
  kind,      \* the kind of the local commit at each place of the range
  head,      \* HEAD, from the branch on
  mine,      \* what the user last made of it
  trees,     \* patches made meanwhile
  uploads,   \* uploads so far
  pc,        \* where the upload is
  from,      \* HEAD as it read it
  sent,      \* the commits it pushes
  new,       \* the places in it of those Gerrit does not have
  updates,   \* those for changes that are on Gerrit already
  edits,     \* those it pushes with the account as author
  delivered, \* Gerrit has taken the push
  at,        \* the place whose change is edited
  found,     \* the places whose change number is known
  moved,     \* the commit a change was edited or rebased to
  editing,   \* the patchset that the open change edit is on
  left,      \* the places a warning names as keeping the account as author
  warned,    \* there was a warning after the push
  touched    \* somebody else has had a hand in it since it began

server == <<patchsets, closed>>
local  == <<kind, head, mine>>
plan   == <<from, sent, new, updates, edits>>
back   == <<at, found, moved, editing, left, warned>>
vars   == <<server, local, trees, uploads, pc, plan, delivered, back, touched>>

Steps == {"idle", "check", "rewrite", "push", "restore", "find", "edit", "rebase", "author",
          "publish", "read", "move", "done", "raised"}

TypeOK ==
  /\ patchsets \in [Changes -> Seq(Commit)]
  /\ closed \subseteq Changes
  /\ kind \in [Spot -> Kinds]
  /\ head \in Commit /\ mine \in Commit
  /\ trees \in 0..MaxTrees
  /\ uploads \in 0..MaxUploads
  /\ pc \in Steps
  /\ from \in Commit \cup {NoCommit}
  /\ sent \in Commit \cup {NoCommit}
  /\ new \subseteq Spot /\ updates \subseteq Spot /\ edits \subseteq Spot
  /\ delivered \in BOOLEAN
  /\ at \in 1..N + 1
  /\ found \subseteq Spot
  /\ moved \in [Spot -> Commit \cup {NoCommit}]
  /\ editing \in Commit \cup {NoCommit}
  /\ left \subseteq Spot
  /\ warned \in BOOLEAN /\ touched \in BOOLEAN

Current(c) == Tip(patchsets[c])
Nowhere    == [k \in Spot |-> NoCommit]

-----------------------------------------------------------------------------
(* The local range has up to N commits, each with the Change-Id of any     *)
(* change or with none.  The lowest ones may be on Gerrit already, and     *)
(* some of the other changes have a patchset.                              *)
LocalRange(ids) == [k \in DOMAIN ids |-> [change |-> ids[k], tree |-> k, as |-> "own", made |-> 0]]

Earlier(c) == <<[change |-> c, tree |-> 0, as |-> "own", made |-> 0]>>

OnGerrit(ids, uploaded, old) ==
  [c \in Changes |->
     IF \E k \in 1..uploaded : ids[k] = c
     THEN <<UpTo(LocalRange(ids), CHOOSE k \in 1..uploaded : ids[k] = c)>>
     ELSE IF c \in old THEN <<Earlier(c)>> ELSE <<>>]

Init ==
  /\ \E n \in 1..N : \E ids \in [1..n -> 0..N], uploaded \in 0..n, old \in SUBSET Changes :
       /\ \A j, k \in 1..uploaded : ids[k] # 0 /\ (ids[j] = ids[k] => j = k)
       /\ head = LocalRange(ids)
       /\ patchsets = OnGerrit(ids, uploaded, old)
  /\ mine = head
  /\ closed \in SUBSET {c \in Changes : patchsets[c] # <<>>}
  /\ kind \in [Spot -> Kinds]
  /\ trees = 0 /\ uploads = 0
  /\ pc = "idle"
  /\ from = NoCommit /\ sent = NoCommit
  /\ new = {} /\ updates = {} /\ edits = {}
  /\ delivered = FALSE
  /\ at = 1 /\ found = {} /\ moved = Nowhere /\ editing = NoCommit
  /\ left = {} /\ warned = FALSE /\ touched = FALSE

-----------------------------------------------------------------------------
(* Gerrit, and what others do there.                                       *)

Added(c, x) == [patchsets EXCEPT ![c] = Append(@, x)]

(* A new patchset of a change, in place of its current one.                *)
OtherUploads(c) ==
  /\ trees < MaxTrees
  /\ patchsets[c] # <<>>
  /\ c \notin closed
  /\ trees' = trees + 1
  /\ LET x == Current(c)
     IN patchsets' = Added(c, [x EXCEPT ![Len(x)] = [change |-> c, tree |-> N + trees',
                                                     as |-> "own", made |-> 0]])
  /\ touched' = TRUE
  /\ UNCHANGED <<closed, local, uploads, pc, plan, delivered, back>>

OtherCloses(c) ==
  /\ patchsets[c] # <<>>
  /\ closed' = closed \cup {c}
  /\ touched' = TRUE
  /\ UNCHANGED <<patchsets, local, trees, uploads, pc, plan, delivered, back>>

(* The user amends HEAD, whatever it is at the moment.                     *)
UserAmends ==
  /\ trees < MaxTrees
  /\ trees' = trees + 1
  /\ head' = [head EXCEPT ![Len(head)].tree = N + trees', ![Len(head)].made = 0]
  /\ mine' = head'
  /\ touched' = TRUE
  /\ UNCHANGED <<server, kind, uploads, pc, plan, delivered, back>>

-----------------------------------------------------------------------------
(* The checks before the push.                                             *)

(* What a copy of a commit keeps of its kind, and what becomes of it when  *)
(* the account is its author.                                              *)
Author(x, k) == IF x[k].as = "account" THEN "account" ELSE kind[k].author
Registered(x, k) == x[k].made # 0 \/ kind[k].registered
Signed(x, k) ==
  IF x[k].as = "account" /\ kind[k].signed # "none" THEN "account" ELSE kind[k].signed

(* The commits Gerrit has as a patchset, and all below one of them.        *)
Known(x) ==
  {k \in 1..Len(x) : \E j \in k..Len(x), c \in Changes :
     \E i \in 1..Len(patchsets[c]) : patchsets[c][i] = UpTo(x, j)}

Unknown(x) == (1..Len(x)) \ Known(x)

(* Mutant: only the commits that are new to Gerrit are compared.           *)
DuplicateChangeIdsOfNew(x) ==
  \E j, k \in Unknown(x) : j < k /\ x[j].change # 0 /\ x[j].change = x[k].change

(* _check_duplicate_change_ids.                                            *)
DuplicateChangeIds(x) ==
  \E j, k \in 1..Len(x) : j < k /\ x[j].change # 0 /\ x[j].change = x[k].change

(* _check_range: only HEAD is new, or every commit has a Change-Id.        *)
OutOfRange(x, series) ==
  IF series THEN \E k \in 1..Len(x) : x[k].change = 0
  ELSE Unknown(x) # {Len(x)} \/ Tip(x).change = 0

(* _plan refuses a commit whose change is closed.                          *)
ClosedChange(x) == \E k \in Unknown(x) : x[k].change \in closed

(* _check_authorship, when the account uploads for a person: neither does  *)
(* the account write commits, nor sign those of the person.                *)
WrongAuthor(x) ==
  \E k \in Unknown(x) : \/ Author(x, k) = "account"
                        \/ Author(x, k) \in {"person", "PERSON"} /\ Signed(x, k) # "author"

(* _check_signoffs.                                                        *)
Unsigned(x) == \E k \in Unknown(x) : Signed(x, k) = "none"

(* _author_edit_targets and _committer_rewrites: the commits that get the  *)
(* account as author (the address as it is written must be the person's in *)
(* small letters), or as committer, and all above them.                    *)
AuthorEdits(x) == {k \in Unknown(x) : Author(x, k) = "person"}

Foreign(x) == {k \in Unknown(x) : ~Registered(x, k)}

Rewrites(x, also) == {k \in Unknown(x) : \E j \in Foreign(x) \cup also : j <= k}

(* _recommit, of each of them.                                             *)
Copied(x, rewrites, also) ==
  [k \in 1..Len(x) |->
     IF k \notin rewrites THEN x[k]
     ELSE [x[k] EXCEPT !.made = uploads, !.as = IF k \in also THEN "account" ELSE @]]

Begin ==
  /\ pc \in {"idle", "done", "raised"}
  /\ uploads < MaxUploads
  /\ uploads' = uploads + 1
  /\ pc' = "check"
  /\ from' = head
  /\ sent' = NoCommit /\ new' = {} /\ updates' = {} /\ edits' = {}
  /\ delivered' = FALSE
  /\ at' = 1 /\ found' = {} /\ moved' = Nowhere /\ editing' = NoCommit
  /\ left' = {} /\ warned' = FALSE /\ touched' = FALSE
  /\ UNCHANGED <<server, local, trees>>

(* Every refusal before the push: nothing has happened yet.                *)
Refused(series, amend, person) ==
  \/ Unknown(from) = {}
  \/ DuplicateChangeIds(from)
  \/ OutOfRange(from, series)
  \/ ClosedChange(from)
  \/ person /\ WrongAuthor(from)
  \/ Unsigned(from)
  \/ ~amend /\ Foreign(from) # {}

Refuse ==
  /\ pc = "check"
  /\ \E series, amend, person \in BOOLEAN : Refused(series, amend, person)
  /\ pc' = "raised"
  /\ UNCHANGED <<server, local, trees, uploads, plan, delivered, back, touched>>

(* With the options of the command and, in the environment, the person the *)
(* account uploads for.                                                    *)
Accept ==
  /\ pc = "check"
  /\ \E series, amend, person, authorEdit \in BOOLEAN :
       LET also    == IF person /\ authorEdit THEN AuthorEdits(from) ELSE {}
           rewrites == Rewrites(from, also)
       IN /\ ~Refused(series, amend, person)
          /\ edits' = also
          /\ sent' = Copied(from, rewrites, also)
          /\ pc' = IF rewrites = {} THEN "push" ELSE "rewrite"
  /\ new' = Unknown(from)
  /\ updates' = {k \in Unknown(from) : patchsets[from[k].change] # <<>>}
  /\ UNCHANGED <<server, local, trees, uploads, from, delivered, back, touched>>

-----------------------------------------------------------------------------
(* The push.                                                               *)

(* Mutant: HEAD is set without comparing it.                               *)
SetsHead(was, x) == head' = x

(* git update-ref with the old value: HEAD moves if it still is there.     *)
MovesHead(was, x) == head' = IF head = was THEN x ELSE head

(* _rewrite_chain moves HEAD to the copies, or raises.                     *)
Rewrite ==
  /\ pc = "rewrite"
  /\ MovesHead(from, sent)
  /\ pc' = IF head = from THEN "push" ELSE "raised"
  /\ UNCHANGED <<server, kind, mine, trees, uploads, plan, delivered, back, touched>>

(* What Gerrit asks of a push: each new commit has a Change-Id of its own  *)
(* in the range, a committer of the account's, and a sign-off of the       *)
(* author's, the committer's or the uploader's.                            *)
Acceptable ==
  /\ \A k \in new : sent[k].change # 0 /\ Registered(sent, k) /\ Signed(sent, k) # "none"
  /\ \A j, k \in 1..Len(sent) : k \in new /\ sent[j].change = sent[k].change => j = k

Takes ==
  /\ Acceptable
  /\ \A k \in new : sent[k].change \notin closed
  /\ patchsets' = [c \in Changes |->
       IF \E k \in new : sent[k].change = c
       THEN Append(patchsets[c], UpTo(sent, CHOOSE k \in new : sent[k].change = c))
       ELSE patchsets[c]]
  /\ delivered' = TRUE

Push ==
  /\ pc = "push"
  /\ Takes
  /\ pc' = "find"
  /\ UNCHANGED <<closed, local, trees, uploads, plan, back, touched>>

(* git fails, or it runs into its timeout, which raises at once; Gerrit    *)
(* may have taken the push all the same.                                   *)
PushFails ==
  /\ pc = "push"
  /\ Takes \/ UNCHANGED <<patchsets, delivered>>
  /\ pc' \in {"restore", "raised"}
  /\ UNCHANGED <<closed, local, trees, uploads, plan, back, touched>>

(* Copies with the account as author were only for the push.               *)
Restore ==
  /\ pc = "restore"
  /\ IF edits = {} THEN head' = head ELSE MovesHead(sent, from)
  /\ pc' = "raised"
  /\ UNCHANGED <<server, kind, mine, trees, uploads, plan, delivered, back, touched>>

(* _patchset_of: the number of a new change is looked up, best effort.     *)
Find ==
  /\ pc = "find"
  /\ found' \in {S \in SUBSET new : updates \subseteq S}
  /\ pc' = IF edits = {} THEN "done" ELSE "edit"
  /\ UNCHANGED <<server, local, trees, uploads, plan, delivered, at, moved, editing, left,
                 warned, touched>>

-----------------------------------------------------------------------------
(* _edit_authors_back.                                                     *)

Change         == sent[at].change
ParentMoved    == at > 1 /\ moved[at - 1] # NoCommit
Restored(k)    == moved[k] # NoCommit
InTheWay       == at \notin found /\ (at \in edits \/ \E k \in Spot : Restored(k))

(* Mutant: a change above an edited one is not rebased.                    *)
NothingToDoButEdits == at \notin new \/ at \notin found \/ at \notin edits

NothingToDo    == at \notin new \/ at \notin found \/ (~ParentMoved /\ at \notin edits)

Afterwards == UNCHANGED <<closed, local, trees, uploads, plan, delivered, found, touched>>

(* Mutant: the warning names the changes above the one that failed.        *)
GivesUpAbove ==
  /\ warned' = TRUE
  /\ left' = {k \in edits : k > at /\ k \in found}
  /\ pc' = "move"
  /\ UNCHANGED <<at, moved, editing>>

(* Mutant: a change that failed is tried again.                            *)
TriesAgain ==
  /\ warned' = TRUE
  /\ pc' = "edit"
  /\ UNCHANGED <<at, moved, editing, left>>

(* The loop ends, with a warning that names some places.                   *)
WarnsOf(S) ==
  /\ warned' = TRUE
  /\ left' = S
  /\ pc' = "move"
  /\ UNCHANGED <<at, moved, editing>>

(* A step failed: the warning lists the change numbers of what was not     *)
(* given back, which says nothing of a change whose number is not known.   *)
GivesUp == WarnsOf({k \in edits : ~Restored(k) /\ k \in found})

GoesOn(step) == pc' = step /\ UNCHANGED <<at, moved, left, warned>>

EditNone ==
  /\ pc = "edit"
  /\ at <= Len(sent)
  /\ NothingToDo
  /\ at \notin new \/ ~InTheWay
  /\ at' = at + 1
  /\ UNCHANGED <<patchsets, pc, moved, editing, left, warned>>
  /\ Afterwards

(* No change was found for this commit: the warning names the commit and   *)
(* the changes above it.                                                   *)
EditUnfound ==
  /\ pc = "edit"
  /\ at <= Len(sent)
  /\ at \in new
  /\ InTheWay
  /\ WarnsOf({k \in edits : ~Restored(k)})
  /\ UNCHANGED patchsets
  /\ Afterwards

EditOne ==
  /\ pc = "edit"
  /\ at <= Len(sent)
  /\ ~NothingToDo
  /\ GoesOn(IF ParentMoved THEN "rebase" ELSE "author")
  /\ UNCHANGED <<patchsets, editing>>
  /\ Afterwards

EditedAll ==
  /\ pc = "edit"
  /\ at > Len(sent)
  /\ GoesOn("move")
  /\ UNCHANGED <<patchsets, editing>>
  /\ Afterwards

(* Gerrit puts the current patchset of the change on top of the parent's.  *)
(* The answer may be lost.                                                 *)
Rebase ==
  /\ pc = "rebase"
  /\ Change \notin closed
  /\ patchsets' = Added(Change, Append(moved[at - 1],
                          [Tip(Current(Change)) EXCEPT !.made = MaxUploads + uploads]))
  /\ GoesOn(IF at \in edits THEN "author" ELSE "read") \/ GivesUp
  /\ UNCHANGED editing
  /\ Afterwards

(* The author and the message are set in a change edit, which is on the    *)
(* patchset that is the current one by then.                               *)
SetEdit ==
  /\ pc = "author"
  /\ Change \notin closed
  /\ editing' = Current(Change)
  /\ GoesOn("publish")
  /\ UNCHANGED patchsets
  /\ Afterwards

(* Gerrit publishes no edit of a patchset that is not the current one.     *)
PublishEdit ==
  /\ pc = "publish"
  /\ Change \notin closed
  /\ editing = Current(Change)
  /\ patchsets' = Added(Change, [editing EXCEPT ![Len(editing)].as = "own",
                                 ![Len(editing)].made = MaxUploads + uploads])
  /\ GoesOn("read") \/ GivesUp
  /\ UNCHANGED editing
  /\ Afterwards

ReadFinal ==
  /\ pc = "read"
  /\ moved' = [moved EXCEPT ![at] = Current(Change)]
  /\ at' = at + 1
  /\ pc' = "edit"
  /\ UNCHANGED <<patchsets, editing, left, warned>>
  /\ Afterwards

EditFails ==
  /\ pc \in {"rebase", "author", "publish", "read"}
  /\ GivesUp
  /\ UNCHANGED patchsets
  /\ Afterwards

SameTrees(x, y) == Trees(x) = Trees(y)

(* _move_head_to, once HEAD's own change was edited or rebased.  Its fetch *)
(* may fail, or time out, which raises.                                    *)
MoveHead ==
  /\ pc = "move"
  /\ Restored(Len(sent))
  /\ LET final == moved[Len(sent)]
     IN /\ IF SameTrees(final, sent) THEN MovesHead(sent, final) ELSE head' = head
        /\ warned' = (warned \/ ~SameTrees(final, sent) \/ head # sent)
  /\ pc' = "done"
  /\ UNCHANGED <<server, kind, mine, trees, uploads, plan, delivered, at, found, moved,
                 editing, left, touched>>

LeaveHead ==
  /\ pc = "move"
  /\ IF Restored(Len(sent))
     THEN warned' = TRUE /\ pc' \in {"done", "raised"}
     ELSE warned' = warned /\ pc' = "done"
  /\ UNCHANGED <<server, local, trees, uploads, plan, delivered, at, found, moved, editing,
                 left, touched>>

-----------------------------------------------------------------------------
Others ==
  \/ UserAmends
  \/ \E c \in Changes : OtherUploads(c) \/ OtherCloses(c)

Proceeds ==
  \/ Refuse \/ Accept \/ Rewrite \/ Push \/ PushFails \/ Restore \/ Find
  \/ EditNone \/ EditUnfound \/ EditOne \/ EditedAll
  \/ Rebase \/ SetEdit \/ PublishEdit \/ ReadFinal \/ EditFails
  \/ MoveHead \/ LeaveHead

Next == Begin \/ Proceeds \/ Others

Spec == Init /\ [][Next]_vars

(* A command that runs goes on: git and REST calls have timeouts.          *)
FairSpec == Spec /\ WF_vars(Proceeds)

-----------------------------------------------------------------------------
(* Properties.                                                             *)

(* HEAD always has the content the user gave it: copying commits, a failed *)
(* push, edits on Gerrit and other people's patchsets leave the work alone,*)
(* and an amend meanwhile is not undone.                                   *)
HeadKeepsTree == Trees(head) = Trees(mine)

(* What the checks let through, Gerrit takes, unless a change was closed.  *)
ChecksSuffice == pc = "push" => Acceptable

(* An upload that ends without a warning, with nobody else's hand in it:   *)
(* the current patchsets of the changes are HEAD's commits, one on top of  *)
(* the other, each with its own author.                                    *)
AuthorsAreBack ==
  pc = "done" /\ ~warned /\ ~touched =>
    \A k \in new : /\ Current(sent[k].change) = UpTo(head, k)
                   /\ k \in edits => head[k].as = "own"

(* An upload that returns leaves no change with the account as author of   *)
(* what it pushed and says nothing: there was a warning after the push, and*)
(* when the number of the change is known, the warning has it.             *)
LeftIsWarnedOf ==
  pc = "done" =>
    \A k \in edits : LET p == Tip(Current(sent[k].change))
                     IN p.as = "account" /\ p.made # 0 =>
                          warned /\ (k \in found => k \in left)

(* Every upload comes to an end.                                           *)
UploadEnds == pc = "check" ~> pc \in {"done", "raised"}

-----------------------------------------------------------------------------
(* The parts of the inductive invariant.                                   *)

Before  == {"rewrite", "push", "restore"}           \* Gerrit's answer
Editing == {"edit", "rebase", "author", "publish", "read"}
After   == {"find", "move", "done"} \cup Editing

(* No chain is longer than the range.                                      *)
Lengths ==
  /\ Len(head) <= N
  /\ pc # "idle" => uploads > 0
  /\ pc = "check" => from # NoCommit /\ Len(from) <= N

(* What the checks let through.                                            *)
Planned ==
  pc \in Before \cup After =>
    /\ from # NoCommit /\ sent # NoCommit
    /\ Len(sent) <= N
    /\ SameTrees(from, sent)
    /\ edits \subseteq new /\ updates \subseteq new /\ new \subseteq 1..Len(sent)
    /\ \A k \in new : k..Len(sent) \subseteq new
    /\ Acceptable

(* How far the edits have come.                                            *)
Progress ==
  /\ pc \in Before \cup {"check", "find"} =>
       at = 1 /\ found = {} /\ moved = Nowhere /\ ~warned
  /\ pc \in After => \A k \in new : patchsets[sent[k].change] # <<>>
  /\ pc \in Editing => \A k \in Spot : Restored(k) => k \in new /\ k < at
  /\ pc \in Editing \ {"edit"} => at \in new
  /\ pc = "rebase" => ParentMoved
  /\ pc \in {"author", "publish"} => at \in edits
  /\ pc = "publish" => editing # NoCommit
  /\ pc \in {"move", "done"} => \A k \in Spot : Restored(k) => k \in new

(* The change of a place has not the account as author of a copy.          *)
Given(k) == LET p == Tip(Current(sent[k].change)) IN p.as = "account" => p.made = 0

GivenBack ==
  /\ pc \in Editing => \A k \in edits : k < at \/ (k = at /\ pc = "read") => Given(k)
  /\ pc \in {"move", "done"} =>
       \A k \in edits : Given(k) \/ (warned /\ (k \in found => k \in left))

(* As long as nobody else has a hand in it and nothing has failed: what    *)
(* became of each commit of the range, one on top of the other.            *)
Now(k) == IF Restored(k) THEN moved[k] ELSE UpTo(sent, k)

OnTop(x, k) == Len(x) = k /\ \A i \in 1..k - 1 : \A j \in 1..i : x[j] = Now(i)[j]

Walked(n) ==
  /\ \A k \in 1..n : OnTop(Now(k), k)
  /\ \A k \in new : k <= n => Current(sent[k].change) = Now(k)
  /\ \A k \in edits : k <= n => Restored(k) /\ Now(k)[k].as = "own"
  /\ \A j, k \in 1..n : j < k /\ Restored(j) => Restored(k)

Chained ==
  ~touched /\ ~warned =>
    /\ pc \in {"check", "rewrite"} => head = from
    /\ pc \in {"push", "find", "move"} \cup Editing => head = sent
    /\ pc = "find" => \A k \in new : Current(sent[k].change) = UpTo(sent, k)
    /\ pc \in Editing =>
         /\ at <= Len(sent) + 1
         /\ Walked(at - 1)
         /\ \A k \in new : k > at => Current(sent[k].change) = UpTo(sent, k)
         /\ pc \in {"edit", "rebase"} /\ at \in new => Current(Change) = UpTo(sent, at)
         /\ pc \in {"author", "publish", "read"} => OnTop(Current(Change), at)
         /\ pc = "publish" => editing = Current(Change)
         /\ pc = "read" /\ at \in edits => Current(Change)[at].as = "own"
    /\ pc = "move" => Walked(Len(sent))

IInv ==
  /\ TypeOK /\ Lengths /\ Planned /\ Progress /\ GivenBack /\ Chained
  /\ HeadKeepsTree /\ AuthorsAreBack

-----------------------------------------------------------------------------
(* What the documentation says.                                            *)

(* upload raises an error only when nothing has been pushed.               *)
NothingPushedWhenRaised == pc = "raised" => ~delivered

(* _edit_authors_back stops at the first failure with a warning naming what*)
(* is left.                                                                *)
LeftIsNamed ==
  pc = "done" =>
    \A k \in edits : LET p == Tip(Current(sent[k].change))
                     IN p.as = "account" /\ p.made # 0 => k \in left
=============================================================================
