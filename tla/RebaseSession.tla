---------------------------- MODULE RebaseSession ----------------------------
(***************************************************************************)
(* The patch session of gerrit_cli: `work-on-patch`, `finish-patch`,       *)
(* `abort` and the reintegration of stale changes, each a process that     *)
(* reads the session file, drives the user's git repository and writes the *)
(* file again.  Between two commands the repository is the user's, who     *)
(* amends commits and resolves, continues or drops cherry-picks.           *)
(*                                                                         *)
(* A commit is the chain of patches up to it, from the branch's base (the  *)
(* change 0), each patch a change in one of its versions: an amend gives   *)
(* the last patch a new version, and a cherry-pick puts the last patch of  *)
(* one chain on top of another.                                            *)
(***************************************************************************)
EXTENDS Integers, Sequences, FiniteSets

CONSTANTS
  N,           \* changes in the series, numbered from its base to its tip
  StaleSets,   \* what changes may have patchsets the series is not built on
  MaxVersion,  \* bound: versions of one change
  MaxCommands, \* bound: commands the user runs
  MaxCrashes   \* bound: commands that die

ASSUME SessionAssumption ==
  /\ N \in Nat \ {0}
  /\ StaleSets \subseteq SUBSET (1..N - 1)
  /\ MaxVersion \in Nat \ {0, 1}
  /\ MaxCommands \in Nat
  /\ MaxCrashes \in Nat

Changes == 1..N
Patch   == [change : 0..N, version : 1..MaxVersion]
Commit  == Seq(Patch) \ {<<>>}

NoCommit     == <<>>
Tip(x)       == x[Len(x)]
Picked(x, y) == Append(x, Tip(y))
Ancestors(x) == {SubSeq(x, 1, k) : k \in 1..Len(x)}

Contains(x, c) == \E k \in 1..Len(x) : x[k].change = c

(* The commit of a change in a chain: what lies under its last patch.      *)
CommitOf(x, c) ==
  SubSeq(x, 1, CHOOSE k \in 1..Len(x) : /\ x[k].change = c
                                        /\ \A j \in k + 1..Len(x) : x[j].change # c)

NoSession == [active |-> FALSE]

(* The session file.  A file that cannot be parsed counts as none.  The    *)
(* lists of changes are in the order of the series, so sets stand for them;*)
(* the stale changes are kept from the current one on, and a reintegration *)
(* is active while there are any.                                          *)
Session ==
  [active  : {TRUE},
   target  : Changes,              \* target_change
   commit  : Commit,               \* target_commit
   origin  : Commit,               \* original_head, original_branch
   patches : [Changes -> Commit],  \* the commits of series_patches
   rebased : SUBSET Changes,       \* rebased_changes
   skipped : SUBSET Changes,       \* skipped_changes
   pending : 0..N,                 \* pending_cherry_pick, 0 for None
   stale   : SUBSET Changes,       \* stale_changes[current_stale_idx:]
   due     : SUBSET Changes]       \* pending_descendants

First(S) == CHOOSE c \in S : \A d \in S : c <= d

(* git's CHERRY_PICK_HEAD, whether the index has unmerged files, and, for  *)
(* the properties, the change that it is picked for.                       *)
NoPick == [active |-> FALSE]
Pick   == [active : {TRUE}, commit : Commit, unmerged : BOOLEAN, for : Changes]

FinishPoint  == {"continue", "continued", "emptied", "drop", "plan", "next", "pick",
                 "picked", "nothing", "conflict", "push", "advance"}
ReintPoint   == {"rnext", "rpick", "rpicked", "rskip"}
CommandPoint == {"idle", "save", "rsave", "clear"} \cup FinishPoint \cup ReintPoint

VARIABLES
  head,     \* HEAD
  branch,   \* the user's branch, which no command moves
  objects,  \* the commits that are in the repository
  pick,     \* the cherry-pick in progress
  gerrit,   \* the current revision of each change on Gerrit
  file,     \* the session file
  pc,       \* where the running command is
  mem,      \* the session it holds in memory
  todo,     \* finish: the descendants still to pick
  new,      \* finish: new_commits
  how,      \* finish: how it began, for the properties
  astray,   \* HEAD has left the commits that the list of rebased ones is about
  newest,   \* the newest version of each change anybody made
  commands, \* commands so far
  crashes   \* and those that died

command == <<pc, mem, todo, new, how>>
bounds  == <<newest, commands, crashes>>
repo    == <<head, objects, pick>>
vars    == <<repo, branch, gerrit, file, command, astray, bounds>>

NoNew == [c \in Changes |-> NoCommit]

TypeOK ==
  /\ head \in Commit
  /\ branch \in Commit
  /\ objects \subseteq Commit
  /\ astray \in BOOLEAN
  /\ pick \in Pick \cup {NoPick}
  /\ gerrit \in [Changes -> Commit]
  /\ file \in Session \cup {NoSession}
  /\ pc \in CommandPoint
  /\ mem \in Session \cup {NoSession}
  /\ todo \subseteq Changes
  /\ new \in [Changes -> Commit \cup {NoCommit}]
  /\ how \in {"none", "fresh", "resumed", "other"}
  /\ newest \in [Changes -> 1..MaxVersion]
  /\ commands \in 0..MaxCommands
  /\ crashes \in 0..MaxCrashes

(* The chain of the first c changes, some of them in their second version. *)
Chain(c, second) ==
  [k \in 1..c + 1 |-> [change |-> k - 1, version |-> IF k - 1 \in second THEN 2 ELSE 1]]

(* The series is the tip's chain.  A stale change has a patchset that this *)
(* chain does not contain, uploaded on whatever its author had below.      *)
Init ==
  /\ \E stale \in StaleSets :
       /\ newest = [c \in Changes |-> IF c \in stale THEN 2 ELSE 1]
       /\ \E below \in [Changes -> SUBSET stale] :
            gerrit = [c \in Changes |-> Chain(c, IF c \in stale THEN below[c] \cup {c} ELSE {})]
  /\ branch \in {Chain(0, {}), Chain(N, {})}
  /\ head = branch
  /\ objects = Ancestors(branch)
  /\ pick = NoPick
  /\ file = NoSession
  /\ pc = "idle"
  /\ mem = NoSession
  /\ todo = {}
  /\ new = NoNew
  /\ how = "none"
  /\ astray = FALSE
  /\ commands = 0
  /\ crashes = 0

-----------------------------------------------------------------------------
(* The user, between two commands.                                         *)

Unmerged == pick.active /\ pick.unmerged

(* HEAD is moved to a commit, which is in the repository then.             *)
MovesTo(x) ==
  /\ head' = x
  /\ objects' = objects \cup Ancestors(x)

(* git commit --amend.                                                     *)
(* Bound: only in a session, so that the branch stays as it is.            *)
Amend ==
  /\ pc = "idle"
  /\ file.active
  /\ ~pick.active
  /\ LET c == Tip(head).change
     IN /\ c # 0
        /\ newest[c] < MaxVersion
        /\ newest' = [newest EXCEPT ![c] = @ + 1]
        /\ MovesTo([head EXCEPT ![Len(head)].version = newest[c] + 1])
  /\ UNCHANGED <<pick, branch, gerrit, file, command, astray, commands, crashes>>

(* git add, of the files in conflict.                                      *)
Resolve ==
  /\ pc = "idle"
  /\ Unmerged
  /\ pick' = [pick EXCEPT !.unmerged = FALSE]
  /\ UNCHANGED <<head, objects, branch, gerrit, file, command, astray, bounds>>

(* git cherry-pick --continue.                                             *)
UserContinues ==
  /\ pc = "idle"
  /\ pick.active
  /\ ~pick.unmerged
  /\ MovesTo(Picked(head, pick.commit))
  /\ pick' = NoPick
  /\ UNCHANGED <<branch, gerrit, file, command, astray, bounds>>

(* git cherry-pick --skip, and --abort, which for one commit is the same.  *)
UserDrops ==
  /\ pc = "idle"
  /\ pick.active
  /\ pick' = NoPick
  /\ UNCHANGED <<head, objects, branch, gerrit, file, command, astray, bounds>>

-----------------------------------------------------------------------------
(* What the commands are made of.                                          *)

Begins ==
  /\ pc = "idle"
  /\ commands < MaxCommands
  /\ commands' = commands + 1
  /\ UNCHANGED <<newest, crashes>>

Goes(point) == pc' = point /\ UNCHANGED <<todo, new, how>>

End ==
  /\ pc' = "idle"
  /\ mem' = NoSession
  /\ todo' = {}
  /\ new' = NoNew
  /\ how' = "none"

(* A step that leaves the repository alone.                                *)
Notes == UNCHANGED <<repo, branch, gerrit, astray, bounds>>

(* A step of git's, which the session does not know of yet.                *)
Moves == UNCHANGED <<branch, gerrit, file, mem, astray, bounds>>

(* save_session: what is in memory is in the file too.                     *)
Saves(s) == mem' = s /\ file' = s

(* git refuses a checkout while files are unmerged, and otherwise gives up *)
(* the cherry-pick in progress.                                            *)
ChecksOut(x) ==
  /\ ~Unmerged
  /\ MovesTo(x)
  /\ pick' = NoPick

Stops(x, c, unmerged) ==
  pick' = [active |-> TRUE, commit |-> x, unmerged |-> unmerged, for |-> c]

(* A commit whose last patch is already there has nothing to add, or is in *)
(* conflict with what came after it.                                       *)
PicksCleanly(x) ==
  /\ x \in objects
  /\ \A k \in 1..Len(head) : head[k] # Tip(x)
  /\ MovesTo(Picked(head, x))
  /\ pick' = NoPick

PicksConflicting(x, c) ==
  /\ x \in objects
  /\ Stops(x, c, TRUE)
  /\ UNCHANGED <<head, objects>>

(* Nothing to add: git leaves the cherry-pick in progress.                 *)
PicksEmpty(x, c) ==
  /\ x \in objects
  /\ Stops(x, c, FALSE)
  /\ UNCHANGED <<head, objects>>

(* git does not begin: the commit is not in the repository, or files that  *)
(* are not committed are in the way.                                       *)
PicksRefused == UNCHANGED repo

(* Mutant: the new commits replace the list instead of being put into it.  *)
UpdatedAll(patches, commits) == commits

(* _update_commits_in_patches.                                             *)
Updated(patches, commits) ==
  [c \in Changes |-> IF commits[c] = NoCommit THEN patches[c] ELSE commits[c]]

-----------------------------------------------------------------------------
(* work-on-patch, start_rebase_to_patch.                                   *)

Fresh(c, x, origin, patches) ==
  [active |-> TRUE, target |-> c, commit |-> x, origin |-> origin, patches |-> patches,
   rebased |-> {}, skipped |-> {}, pending |-> 0, stale |-> {}, due |-> {}]

(* In a session: its own record of the commit is checked out, or what is   *)
(* on Gerrit where that fails: the commit is missing, or files that are not*)
(* committed are in the way of it.  A session that starts anew from its    *)
(* list of patches replaces it once HEAD has moved.                        *)
Switch(c) ==
  /\ file.active
  /\ \E x \in ({file.patches[c]} \cap objects) \cup {gerrit[c]} :
       /\ ChecksOut(x)
       /\ mem' = Fresh(c, x, file.origin, file.patches)
  /\ Goes("save")
  /\ UNCHANGED <<branch, gerrit, file, astray>>

StartInSession(c) ==
  /\ Begins
  /\ Switch(c)

(* Bound: a new session begins with a series that has all its changes, in  *)
(* their order.                                                            *)
InOrder(x) == Len(x) = N + 1 /\ \A k \in Changes : x[k + 1].change = k

Series == [c \in Changes |-> CommitOf(gerrit[N], c)]

StaleChanges == {c \in Changes : gerrit[c] # Series[c]}

(* Without one: the tree has to be clean.  A local commit of the change is *)
(* preferred to Gerrit's.  Stale changes that are no more part of the      *)
(* series only cause a warning.                                            *)
Local(c) == {x \in Ancestors(head) \cup Ancestors(branch) : Tip(x).change = c}

StartNew(c) ==
  /\ ~file.active
  /\ ~pick.active
  /\ InOrder(gerrit[N])
  /\ Begins
  /\ \E x \in IF Local(c) = {} THEN {gerrit[c]} ELSE Local(c) :
       /\ MovesTo(x)
       /\ mem' = Fresh(c, x, head, Series)
  /\ Goes("save")
  /\ UNCHANGED <<pick, branch, gerrit, file, astray>>

Save ==
  /\ pc = "save"
  /\ file' = mem
  /\ astray' = FALSE
  /\ End
  /\ UNCHANGED <<repo, branch, gerrit, bounds>>

-----------------------------------------------------------------------------
(* finish-patch, finish_rebase.                                            *)

(* A finish of a patch that was amended, or not, and nothing else, in a    *)
(* session that has a commit of its own for each change.                   *)
Untouched(s) ==
  /\ \A c \in Changes : Tip(s.patches[c]).change = c
  /\ ~pick.active
  /\ s.pending = 0
  /\ s.rebased = {}
  /\ s.skipped = {}
  /\ s.stale = {}
  /\ Tip(head).change = s.target

Began == IF pick.active THEN "resumed" ELSE IF Untouched(file) THEN "fresh" ELSE "other"

(* Mutant: a pending cherry-pick that is not in progress counts as done.   *)
FinishCountsPending ==
  /\ file.active
  /\ ~Unmerged
  /\ Begins
  /\ how' = Began
  /\ IF pick.active
     THEN pc' = "continue" /\ Saves(file)
     ELSE /\ pc' = "plan"
          /\ IF file.pending = 0
             THEN Saves(file)
             ELSE Saves([file EXCEPT !.rebased = @ \cup {file.pending}, !.pending = 0])
  /\ UNCHANGED <<repo, branch, gerrit, todo, new, astray>>

(* Phases 1 and 2.  A pending cherry-pick that is not in progress is taken *)
(* to have been skipped by the user.                                       *)
Finish ==
  /\ file.active
  /\ ~Unmerged
  /\ Begins
  /\ how' = Began
  /\ IF pick.active
     THEN pc' = "continue" /\ Saves(file)
     ELSE /\ pc' = "plan"
          /\ IF file.pending = 0
             THEN Saves(file)
             ELSE Saves([file EXCEPT !.skipped = @ \cup {file.pending}, !.pending = 0])
  /\ UNCHANGED <<repo, branch, gerrit, todo, new, astray>>

(* git cherry-pick --continue, which fails when nothing is left to commit. *)
Continue ==
  /\ pc = "continue"
  /\ \/ /\ MovesTo(Picked(head, pick.commit))
        /\ pick' = NoPick
        /\ Goes("continued")
     \/ /\ UNCHANGED repo
        /\ Goes("emptied")
  /\ Moves

Continued ==
  /\ pc = "continued"
  /\ IF mem.pending = 0
     THEN UNCHANGED <<mem, file>>
     ELSE Saves([mem EXCEPT !.rebased = @ \cup {mem.pending}, !.pending = 0])
  /\ Goes("plan")
  /\ Notes

Emptied ==
  /\ pc = "emptied"
  /\ IF mem.pending = 0
     THEN UNCHANGED <<mem, file>>
     ELSE Saves([mem EXCEPT !.skipped = @ \cup {mem.pending}, !.pending = 0])
  /\ Goes("drop")
  /\ Notes

(* git cherry-pick --skip, in phase 1 and in the loop.                     *)
Drop ==
  /\ pc = "drop"
  /\ pick' = NoPick
  /\ Goes(IF new = NoNew THEN "plan" ELSE "next")
  /\ UNCHANGED <<head, objects>>
  /\ Moves

(* Phase 4.  The Change-Ids of the commits since HEAD are looked for, and  *)
(* there are none, so only the session's own lists tell what is done.      *)
Remaining(s) == (s.target + 1..N) \ (s.rebased \cup s.skipped)

Plan ==
  /\ pc = "plan"
  /\ todo' = Remaining(mem)
  /\ new' = [NoNew EXCEPT ![mem.target] = head]
  /\ pc' = IF mem.target = N THEN "push" ELSE "next"
  /\ UNCHANGED <<file, mem, how>>
  /\ Notes

(* Mutant: what is pending is only noted in memory.                        *)
PickNextUnsaved ==
  /\ pc = "next"
  /\ todo # {}
  /\ mem' = [mem EXCEPT !.pending = First(todo)]
  /\ Goes("pick")
  /\ UNCHANGED file
  /\ Notes

PickNext ==
  /\ pc = "next"
  /\ todo # {}
  /\ Saves([mem EXCEPT !.pending = First(todo)])
  /\ Goes("pick")
  /\ Notes

CherryPick ==
  /\ pc = "pick"
  /\ LET c == First(todo)
         x == mem.patches[c]
     IN \/ PicksCleanly(x) /\ Goes("picked")
        \/ (PicksEmpty(x, c) \/ PicksRefused) /\ Goes("nothing")
        \/ PicksConflicting(x, c) /\ Goes("conflict")
  /\ Moves

(* Mutant: the new commit of the patch is not recorded.                    *)
PickedOneUnrecorded ==
  /\ pc = "picked"
  /\ Saves([mem EXCEPT !.rebased = @ \cup {First(todo)}, !.pending = 0])
  /\ todo' = todo \ {First(todo)}
  /\ pc' = "next"
  /\ UNCHANGED <<new, how>>
  /\ Notes

PickedOne ==
  /\ pc = "picked"
  /\ Saves([mem EXCEPT !.rebased = @ \cup {First(todo)}, !.pending = 0])
  /\ new' = [new EXCEPT ![First(todo)] = head]
  /\ todo' = todo \ {First(todo)}
  /\ pc' = "next"
  /\ UNCHANGED how
  /\ Notes

(* Mutant: a patch that cannot be picked is tried again.                   *)
PickedNothingAgain ==
  /\ pc = "nothing"
  /\ Saves([mem EXCEPT !.skipped = @ \cup {First(todo)}, !.pending = 0])
  /\ pc' = "drop"
  /\ UNCHANGED <<todo, new, how>>
  /\ Notes

PickedNothing ==
  /\ pc = "nothing"
  /\ Saves([mem EXCEPT !.skipped = @ \cup {First(todo)}, !.pending = 0])
  /\ todo' = todo \ {First(todo)}
  /\ pc' = "drop"
  /\ UNCHANGED <<new, how>>
  /\ Notes

(* The command ends, and the user is asked to resolve the conflict.        *)
Conflicted ==
  /\ pc = "conflict"
  /\ file' = [mem EXCEPT !.patches = Updated(@, new)]
  /\ End
  /\ Notes

Close ==
  /\ pc = "next"
  /\ todo = {}
  /\ Saves([mem EXCEPT !.patches = Updated(@, new), !.rebased = {}])
  /\ Goes("push")
  /\ Notes

(* The commits go to Gerrit, which takes no two patches of one change.  The*)
(* code pushes what differs from target_commit, but that may be an         *)
(* abbreviated hash, which every commit differs from.                      *)
Push ==
  /\ pc = "push"
  /\ \/ gerrit' = gerrit
     \/ /\ \A j, k \in 1..Len(head) : head[j].change = head[k].change => j = k
        /\ gerrit' = [c \in Changes |-> IF Contains(head, c) THEN CommitOf(head, c) ELSE gerrit[c]]
  /\ Goes("advance")
  /\ UNCHANGED <<repo, branch, file, mem, astray, bounds>>

(* finish_patch then goes on to a later patch that has comments, if any.   *)
Advance ==
  /\ pc = "advance"
  /\ \/ End /\ UNCHANGED <<repo, branch, gerrit, file, astray>>
     \/ \E d \in mem.target + 1..N : Switch(d)
  /\ UNCHANGED bounds

-----------------------------------------------------------------------------
(* abort, and abort --keep-changes.                                        *)

Abort ==
  /\ file.active
  /\ Begins
  /\ ChecksOut(file.origin)
  /\ Goes("clear")
  /\ UNCHANGED <<branch, gerrit, file, mem, astray>>

Clear ==
  /\ pc = "clear"
  /\ file' = NoSession
  /\ astray' = FALSE
  /\ End
  /\ UNCHANGED <<repo, branch, gerrit, bounds>>

EndSession ==
  /\ file.active
  /\ Begins
  /\ file' = NoSession
  /\ astray' = FALSE
  /\ UNCHANGED <<repo, branch, gerrit, command>>

-----------------------------------------------------------------------------
(* Reintegration: work-on-patch finds stale changes that are still part of *)
(* the series, takes the newer patchset of each and picks what follows it. *)

(* To the newer patchset of the first of the stale changes.                *)
ToStale(s, stale) ==
  LET c == First(stale)
  IN /\ MovesTo(gerrit[c])
     /\ mem' = [s EXCEPT !.stale = stale, !.due = c + 1..N, !.patches[c] = gerrit[c]]
     /\ Goes("rsave")

StartReintegration(c) ==
  /\ ~file.active
  /\ ~pick.active
  /\ InOrder(gerrit[N])
  /\ StaleChanges # {}
  /\ Begins
  /\ ToStale(Fresh(c, gerrit[First(StaleChanges)], head, Series), StaleChanges)
  /\ UNCHANGED <<pick, branch, gerrit, file, astray>>

SaveStale ==
  /\ pc = "rsave"
  /\ file' = mem
  /\ astray' = (mem.rebased # {})
  /\ Goes("rnext")
  /\ UNCHANGED <<repo, branch, gerrit, mem, bounds>>

PickDue ==
  /\ pc = "rnext"
  /\ mem.due # {}
  /\ Saves([mem EXCEPT !.pending = First(mem.due)])
  /\ Goes("rpick")
  /\ Notes

(* A commit that is missing is fetched, as the change's current revision.  *)
(* An empty cherry-pick is still in progress and counts as a conflict.     *)
PickInReintegration ==
  /\ pc = "rpick"
  /\ LET c == mem.pending
         x == IF mem.patches[c] \in objects THEN mem.patches[c] ELSE gerrit[c]
         fetched == objects \cup Ancestors(x)
     IN \/ /\ \A k \in 1..Len(head) : head[k] # Tip(x)
           /\ head' = Picked(head, x)
           /\ objects' = fetched \cup {head'}
           /\ pick' = NoPick
           /\ Goes("rpicked")
           /\ mem' = mem
        \/ /\ \E b \in BOOLEAN : Stops(x, c, b)
           /\ head' = head
           /\ objects' = fetched
           /\ End
        \/ /\ objects' = fetched
           /\ UNCHANGED <<head, pick>>
           /\ Goes("rskip")
           /\ mem' = mem
  /\ UNCHANGED <<branch, gerrit, file, astray, bounds>>

PickedInReintegration ==
  /\ pc = "rpicked"
  /\ Saves([mem EXCEPT !.due = @ \ {mem.pending}, !.rebased = @ \cup {mem.pending},
                       !.patches[mem.pending] = head, !.pending = 0])
  /\ Goes("rnext")
  /\ Notes

SkippedInReintegration ==
  /\ pc = "rskip"
  /\ Saves([mem EXCEPT !.due = @ \ {mem.pending}, !.skipped = @ \cup {mem.pending}, !.pending = 0])
  /\ Goes("rnext")
  /\ Notes

(* _advance_reintegration: to the next stale change, or complete.          *)
StillStale == mem.stale \ {First(mem.stale)}

NextStale ==
  /\ pc = "rnext"
  /\ mem.due = {}
  /\ StillStale # {}
  /\ ToStale(mem, StillStale)
  /\ UNCHANGED <<pick, branch, gerrit, file, astray, bounds>>

Complete ==
  /\ pc = "rnext"
  /\ mem.due = {}
  /\ StillStale = {}
  /\ file' = [mem EXCEPT !.stale = {}]
  /\ End
  /\ Notes

(* Gerrit cannot be reached for a commit that is missing: the command ends.*)
FetchFails ==
  /\ pc = "rnext"
  /\ IF mem.due # {} THEN mem.patches[First(mem.due)] \notin objects ELSE StillStale # {}
  /\ End
  /\ UNCHANGED file
  /\ Notes

(* continue-reintegration: a pending cherry-pick that is not in progress   *)
(* is taken to have been completed by the user.                            *)
ContinueReintegration ==
  /\ file.active
  /\ file.stale # {}
  /\ ~pick.active
  /\ Begins
  /\ Saves(file)
  /\ Goes(IF file.pending = 0 THEN "rnext" ELSE "rpicked")
  /\ UNCHANGED <<repo, branch, gerrit, astray>>

(* skip-reintegration, with git cherry-pick --abort.                       *)
SkipReintegration ==
  /\ file.active
  /\ file.stale # {}
  /\ file.pending # 0
  /\ Begins
  /\ pick' = NoPick
  /\ Saves(file)
  /\ Goes("rskip")
  /\ UNCHANGED <<head, objects, branch, gerrit, astray>>

-----------------------------------------------------------------------------
(* A command dies.  A file it was about to write may be left unreadable.   *)
Writes == {"save", "rsave", "continued", "emptied", "next", "picked", "nothing",
           "conflict", "rnext", "rpicked", "rskip"}

Crash ==
  /\ pc # "idle"
  /\ crashes < MaxCrashes
  /\ crashes' = crashes + 1
  /\ file' \in {file} \cup (IF pc \in Writes THEN {NoSession} ELSE {})
  /\ astray' = (astray \/ pc \in {"save", "rsave", "clear"})
  /\ End
  /\ UNCHANGED <<repo, branch, gerrit, newest, commands>>

User == Amend \/ Resolve \/ UserContinues \/ UserDrops

Command ==
  \/ Finish \/ Abort \/ EndSession \/ ContinueReintegration \/ SkipReintegration
  \/ \E c \in Changes : StartInSession(c) \/ StartNew(c) \/ StartReintegration(c)

Proceeds ==
  \/ Save \/ Clear
  \/ Continue \/ Continued \/ Emptied \/ Drop \/ Plan \/ PickNext \/ CherryPick
  \/ PickedOne \/ PickedNothing \/ Conflicted \/ Close \/ Push \/ Advance
  \/ SaveStale \/ PickDue \/ PickInReintegration \/ PickedInReintegration
  \/ SkippedInReintegration \/ NextStale \/ Complete \/ FetchFails

Next == User \/ Command \/ Proceeds \/ Crash

Spec == Init /\ [][Next]_vars

(* A command that runs goes on.                                            *)
FairSpec == Spec /\ WF_vars(Proceeds)

-----------------------------------------------------------------------------
(* Properties.                                                             *)

(* A cherry-pick in progress is the one the session file has pending, or   *)
(* one it has given up: what phase 1 of the next finish puts down about    *)
(* the pending change is about this commit.                                *)
PickIsAccounted ==
  pick.active /\ file.active =>
    IF file.pending = 0 THEN pick.for \in file.skipped ELSE pick.for = file.pending

(* No later patch is lost by a finish, however often conflicts, skips and  *)
(* deaths made it start again: each is under HEAD or listed as skipped, if *)
(* what the session has for it is its commit at all.                       *)
NoPatchLost ==
  pc = "push" /\ ~astray =>
    \A d \in mem.target + 1..N :
      Tip(mem.patches[d]).change = d => Contains(head, d) \/ d \in mem.skipped

(* A finish nothing came in the way of: the later patches are on top of    *)
(* the amended one in their order, and the session has their new commits.  *)
FinishRebases ==
  pc = "push" /\ how = "fresh" /\ mem.target < N =>
    LET base  == new[mem.target]
        later == (mem.target + 1..N) \ mem.skipped
        At(d) == Len(base) + Cardinality({e \in later : e <= d})
    IN /\ Len(head) = Len(base) + Cardinality(later)
       /\ SubSeq(head, 1, Len(base)) = base
       /\ \A d \in later : /\ head[At(d)].change = d
                          /\ mem.patches[d] = SubSeq(head, 1, At(d))

(* Every command comes to an end.                                          *)
CommandsEnd == pc # "idle" ~> pc = "idle"

-----------------------------------------------------------------------------
(* What the documentation says.                                            *)

(* finish-patch rebases all later patches: one is left out only if there   *)
(* was a commit to find empty.                                             *)
LaterPatchesRebased ==
  pc = "push" /\ how = "fresh" => \A d \in mem.skipped : mem.patches[d] \in objects

(* After a conflict: fix it, git add, finish-patch again.  The session is  *)
(* updated with the new commits, and a later finish has no patch missing.  *)
LaterPatchesKept ==
  pc = "push" =>
    \A d \in mem.target + 1..N : Contains(head, d) \/ d \in mem.skipped

(* A reintegrated series is consistent: its newest patches are in it.      *)
Reintegrated ==
  [][Complete /\ mem.skipped = {} =>
       \A c \in Changes : \A k \in 1..Len(file'.patches[c]) :
         LET p == file'.patches[c][k]
         IN p.change # 0 => p.version >= Tip(gerrit[p.change]).version]_vars
=============================================================================
