--------------------------- MODULE ReviewManifest ---------------------------
(***************************************************************************)
(* The lreview results directory: the summary.json manifest, the findings  *)
(* files beside it, and the lreview invocations (`run`, `run --post`,      *)
(* `post`) that share them and post to Gerrit or GitHub.                   *)
(*                                                                         *)
(* A revision (sha, patchset) of a change is a number in 1..MaxPs.  An     *)
(* invocation stands for one process; it also names the review it made and *)
(* the model that made it.                                                 *)
(***************************************************************************)
EXTENDS Integers

CONSTANTS
  Invs,       \* lreview invocations, each a process started at most once
  NoInv,      \* no invocation: a free lock, a file that does not exist
  Keys,       \* manifest keys ("64620", "64620-light", "github:o/r#7", a slug)
  NoKey,      \* no key
  GithubKeys, \* the keys of GitHub pull requests
  LocalKeys,  \* the keys of local refs, which have no change to post to
  MaxPs       \* bound: revisions pushed to one change

ASSUME ConstantsAssumption ==
  /\ NoInv \notin Invs
  /\ NoKey \notin Keys
  /\ GithubKeys \subseteq Keys
  /\ LocalKeys \subseteq Keys
  /\ GithubKeys \cap LocalKeys = {}
  /\ MaxPs \in Nat \ {0}

Shas == 1..MaxPs

(* "failed" stands for failed, timeout, stalled and invalid-json, which    *)
(* neither the merge nor the poster tells apart.                           *)
Statuses == {"findings", "clean", "failed"}

Modes == {"none", "run", "run-post", "post", "force", "dry"}

(* The states of an invocation.  Those in Holding own the manifest lock.   *)
Holding == {"merging", "entry", "checked", "accepted"}
Waiting == {"review", "merge", "snapshot", "post"}
Ended   == {"done", "dead"}
States  == {"idle"} \cup Waiting \cup Holding \cup Ended

(* A manifest entry; sha = 0 is an absent one.  run is the invocation      *)
(* whose review it records, last the sha of its last_posted record.        *)
Entry == [sha : 0..MaxPs, status : Statuses, run : Invs \cup {NoInv},
          posted : BOOLEAN, last : 0..MaxPs]

NoEntry == [sha |-> 0, status |-> "failed", run |-> NoInv,
            posted |-> FALSE, last |-> 0]

Messages == [sha : Shas, content : Invs \cup {NoInv}, stamp : Invs \cup {NoInv}]
NoMessage == [sha |-> 0, content |-> NoInv, stamp |-> NoInv]

VARIABLES
  manifest,  \* summary.json: an entry per key
  lock,      \* the holder of the flock on .summary.lock
  files,     \* the findings file of a key and sha: the review in it
  head,      \* the newest revision of each change
  posts,     \* reviews the provider accepted, per key and sha
  message,   \* the last review the provider accepted for a key
  extra,     \* posts the manifest does not account for (see Accounted)
  pc,        \* where each invocation is
  mode,      \* how it was started
  named,     \* whether it posts keys it was given by name
  target,    \* the revision of each key it reviews, 0 for none
  result,    \* what its reviews ended with so far, "none" until they end
  todo,      \* the keys it still has to post
  cur,       \* the key whose entry it is posting
  copy       \* the manifest as it loaded it under the lock

shared == <<manifest, lock, files, head, posts, message, extra>>
local  == <<pc, mode, named, target, result, todo, cur, copy>>
vars   == <<shared, local>>

TypeOK ==
  /\ manifest \in [Keys -> Entry]
  /\ lock \in Invs \cup {NoInv}
  /\ files \in [Keys -> [Shas -> Invs \cup {NoInv}]]
  /\ head \in [Keys -> Shas]
  /\ posts \in [Keys -> [Shas -> Nat]]
  /\ message \in [Keys -> Messages \cup {NoMessage}]
  /\ extra \in [Keys -> [Shas -> Nat]]
  /\ pc \in [Invs -> States]
  /\ mode \in [Invs -> Modes]
  /\ named \in [Invs -> BOOLEAN]
  /\ target \in [Invs -> [Keys -> 0..MaxPs]]
  /\ result \in [Invs -> [Keys -> Statuses \cup {"none"}]]
  /\ todo \in [Invs -> SUBSET Keys]
  /\ cur \in [Invs -> Keys \cup {NoKey}]
  /\ copy \in [Invs -> [Keys -> Entry]]

-----------------------------------------------------------------------------
(* What the code computes.                                                 *)

Batch(i)    == {k \in Keys : target[i][k] # 0}
Reviewed(i) == {k \in Keys : result[i][k] # "none"}

(* `run --post` names the findings and clean results of its own batch that *)
(* have a change to go to.                                                 *)
Postable(i) == {k \in Keys \ LocalKeys : result[i][k] \in {"findings", "clean"}}

Present(m) == {k \in Keys : m[k].sha # 0}

(* Mutant: last_posted is kept of whatever the entry was before.           *)
MergedFromUnposted(i, k, old) ==
  [sha    |-> target[i][k],
   status |-> result[i][k],
   run    |-> i,
   posted |-> old.posted /\ old.sha = target[i][k],
   last   |-> IF old.sha # target[i][k] THEN old.sha ELSE 0]

(* update_summary: the entry that replaces old when i's review of k is     *)
(* merged.                                                                 *)
Merged(i, k, old) ==
  [sha    |-> target[i][k],
   status |-> result[i][k],
   run    |-> i,
   posted |-> old.posted /\ old.sha = target[i][k],
   last   |-> IF old.posted /\ old.sha # target[i][k] THEN old.sha ELSE 0]

(* Mutant: the manifest is written from the results alone.                 *)
MergeOnlyResults(i) == [k \in Keys |-> IF k \in Reviewed(i)
                                       THEN Merged(i, k, copy[i][k])
                                       ELSE NoEntry]

Merge(i) == [k \in Keys |-> IF k \in Reviewed(i)
                            THEN Merged(i, k, copy[i][k])
                            ELSE copy[i][k]]

PostableClean(k, e) == e.status = "clean" /\ k \notin GithubKeys \cup LocalKeys

(* Mutant: the flag is not looked at again under the lock.                 *)
SkipsNotOnFlag(i, k, e) ==
  \/ e.sha = 0
  \/ k \in LocalKeys
  \/ PostableClean(k, e) /\ ~named[i]
  \/ e.status # "findings" /\ ~PostableClean(k, e)

(* Mutant: a review that failed goes out with the findings file of an      *)
(* earlier one.                                                            *)
SkipsNotOnStatus(i, k, e) ==
  \/ e.sha = 0
  \/ k \in LocalKeys
  \/ PostableClean(k, e) /\ ~named[i]
  \/ e.posted /\ mode[i] # "force"

(* The reasons post_results passes over the entry it has loaded.           *)
Skips(i, k, e) ==
  \/ e.sha = 0
  \/ k \in LocalKeys
  \/ PostableClean(k, e) /\ ~named[i]
  \/ e.status # "findings" /\ ~PostableClean(k, e)
  \/ e.posted /\ mode[i] # "force"

(* A clean message is composed from the entry; findings come from the file *)
(* the entry names, when it is there.                                      *)
Sendable(k, e) == PostableClean(k, e) \/ files[k][e.sha] # NoInv
Content(k, e)  == IF PostableClean(k, e) THEN e.run ELSE files[k][e.sha]

Bump(count, k, s) == [count EXCEPT ![k][s] = @ + 1]

-----------------------------------------------------------------------------
Init ==
  /\ manifest = [k \in Keys |-> NoEntry]
  /\ lock = NoInv
  /\ files = [k \in Keys |-> [s \in Shas |-> NoInv]]
  /\ head = [k \in Keys |-> 1]
  /\ posts = [k \in Keys |-> [s \in Shas |-> 0]]
  /\ message = [k \in Keys |-> NoMessage]
  /\ extra = [k \in Keys |-> [s \in Shas |-> 0]]
  /\ pc = [i \in Invs |-> "idle"]
  /\ mode = [i \in Invs |-> "none"]
  /\ named = [i \in Invs |-> FALSE]
  /\ target = [i \in Invs |-> [k \in Keys |-> 0]]
  /\ result = [i \in Invs |-> [k \in Keys |-> "none"]]
  /\ todo = [i \in Invs |-> {}]
  /\ cur = [i \in Invs |-> NoKey]
  /\ copy = [i \in Invs |-> [k \in Keys |-> NoEntry]]

(* The author pushes a new patchset.  A local key carries its sha in its   *)
(* name, so it never gets another one.                                     *)
NewPatchset(k) ==
  /\ k \notin LocalKeys
  /\ head[k] < MaxPs
  /\ head' = [head EXCEPT ![k] = @ + 1]
  /\ UNCHANGED <<manifest, lock, files, posts, message, extra, local>>

(* What cmd_run can resolve its arguments to: one pull request at its head,*)
(* local refs, or Gerrit changes, each at its current patchset or at the   *)
(* older one a URL names.                                                  *)
Resolvable(t) ==
  LET batch == {k \in Keys : t[k] # 0} IN
  /\ batch # {}
  /\ \A k \in batch : t[k] <= head[k]
  /\ \/ \E k \in GithubKeys : batch = {k} /\ t[k] = head[k]
     \/ batch \subseteq LocalKeys
     \/ batch \cap (GithubKeys \cup LocalKeys) = {}

(* `lreview run [--post]`                                                  *)
StartRun(i) ==
  /\ pc[i] = "idle"
  /\ \E t \in [Keys -> 0..MaxPs], m \in {"run", "run-post"} :
       /\ Resolvable(t)
       /\ target' = [target EXCEPT ![i] = t]
       /\ mode' = [mode EXCEPT ![i] = m]
  /\ pc' = [pc EXCEPT ![i] = "review"]
  /\ UNCHANGED <<shared, named, result, todo, cur, copy>>

(* One review ends and its artifacts are collected into the results        *)
(* directory: findings are copied over the file of that revision, a clean  *)
(* review removes it, any other end leaves it alone.  The manifest lock is *)
(* not held.  A GitHub review always writes its result, so it is never     *)
(* clean.                                                                  *)
FinishedAs(i, k, r) ==
  /\ r = "clean" => k \notin GithubKeys
  /\ result' = [result EXCEPT ![i][k] = r]
  /\ \/ r = "findings" /\ files' = [files EXCEPT ![k][target[i][k]] = i]
     \/ r = "clean"    /\ files' = [files EXCEPT ![k][target[i][k]] = NoInv]
     \/ r = "failed"   /\ files' = files

FinishReview(i, k) ==
  /\ pc[i] = "review"
  /\ k \in Batch(i) \ Reviewed(i)
  /\ \E r \in Statuses : FinishedAs(i, k, r)
  /\ UNCHANGED <<manifest, lock, head, posts, message, extra,
                 pc, mode, named, target, todo, cur, copy>>

(* Every future has been gathered; run_batch goes on to update_summary.    *)
Gather(i) ==
  /\ pc[i] = "review"
  /\ Reviewed(i) = Batch(i)
  /\ pc' = [pc EXCEPT ![i] = "merge"]
  /\ UNCHANGED <<shared, mode, named, target, result, todo, cur, copy>>

(* Mutant: a cancelled review has a result, of a status of its own.        *)
InterruptListsCancelled(i) ==
  /\ pc[i] = "review"
  /\ \E killed \in SUBSET (Batch(i) \ Reviewed(i)) :
       result' = [result EXCEPT ![i] =
                    [k \in Keys |-> IF k \in killed THEN "failed"
                                   ELSE IF k \in Batch(i) \ Reviewed(i) THEN "cancelled" ELSE @[k]]]
  /\ pc' = [pc EXCEPT ![i] = "merge"]
  /\ mode' = [mode EXCEPT ![i] = "run"]
  /\ UNCHANGED <<shared, named, target, todo, cur, copy>>

(* Ctrl+C during the reviews: the killed ones count as failed, the         *)
(* cancelled ones leave no result, and what there is still goes to the     *)
(* manifest.  The invocation then exits with 130 and posts nothing.        *)
Interrupt(i) ==
  /\ pc[i] = "review"
  /\ \E killed \in SUBSET (Batch(i) \ Reviewed(i)) :
       /\ result' = [result EXCEPT ![i] =
                       [k \in Keys |-> IF k \in killed THEN "failed" ELSE @[k]]]
       /\ pc' = [pc EXCEPT ![i] = IF Reviewed(i) \cup killed = {}
                                  THEN "done" ELSE "merge"]
  /\ mode' = [mode EXCEPT ![i] = "run"]
  /\ UNCHANGED <<shared, named, target, todo, cur, copy>>

(* `lreview post [--force | --dry-run] [change...]`                        *)
StartPost(i) ==
  /\ pc[i] = "idle"
  /\ \E request \in SUBSET Keys, m \in {"post", "force", "dry"} :
       /\ todo' = [todo EXCEPT ![i] = request]
       /\ named' = [named EXCEPT ![i] = request # {}]
       /\ mode' = [mode EXCEPT ![i] = m]
  /\ pc' = [pc EXCEPT ![i] = "snapshot"]
  /\ UNCHANGED <<shared, target, result, cur, copy>>

-----------------------------------------------------------------------------
(* locked_summary: the lock is taken and the manifest loaded under it; the *)
(* lock is given up after the save, or when the block raises.              *)

(* Mutant: without the flock.                                              *)
AcquireUnlocked(i) ==
  /\ lock' = i
  /\ copy' = [copy EXCEPT ![i] = manifest]

(* Mutant: the manifest is loaded once and kept over the entries.          *)
AcquireCached(i) ==
  /\ lock = NoInv
  /\ lock' = i
  /\ copy' = [copy EXCEPT ![i] = IF Present(@) = {} THEN manifest ELSE @]

Acquire(i) ==
  /\ lock = NoInv
  /\ lock' = i
  /\ copy' = [copy EXCEPT ![i] = manifest]

SaveAndRelease(i, m) ==
  /\ manifest' = m
  /\ lock' = NoInv

(* The state after an entry has been dealt with: the next key, or the end. *)
Onward(i) == IF todo[i] = {} THEN "done" ELSE "post"

BeginMerge(i) ==
  /\ pc[i] = "merge"
  /\ Acquire(i)
  /\ pc' = [pc EXCEPT ![i] = "merging"]
  /\ UNCHANGED <<manifest, files, head, posts, message, extra,
                 mode, named, target, result, todo, cur>>

(* update_summary merges all results in one critical section.  A posted    *)
(* revision that the merge replaces by another one is no longer the        *)
(* entry's, so its post moves from the entry to extra.                     *)
SaveMerge(i) ==
  /\ pc[i] = "merging"
  /\ SaveAndRelease(i, Merge(i))
  /\ extra' = [k \in Keys |-> [s \in Shas |->
                 IF /\ k \in Reviewed(i)
                    /\ copy[i][k].posted
                    /\ copy[i][k].sha = s
                    /\ target[i][k] # s
                 THEN extra[k][s] + 1 ELSE extra[k][s]]]
  /\ IF mode[i] = "run-post" /\ Postable(i) # {}
     THEN /\ pc' = [pc EXCEPT ![i] = "snapshot"]
          /\ todo' = [todo EXCEPT ![i] = Postable(i)]
          /\ named' = [named EXCEPT ![i] = TRUE]
     ELSE /\ pc' = [pc EXCEPT ![i] = "done"]
          /\ UNCHANGED <<todo, named>>
  /\ UNCHANGED <<files, head, posts, message, mode, target, result, cur, copy>>

(* post_results reads the manifest once for the keys to go through.  A     *)
(* named key that is not in it is a KeyError.                              *)
Snapshot(i) ==
  /\ pc[i] = "snapshot"
  /\ lock = NoInv
  /\ LET wanted == IF named[i] THEN todo[i] ELSE Present(manifest) IN
       /\ todo' = [todo EXCEPT ![i] = wanted]
       /\ pc' = [pc EXCEPT ![i] =
                   IF wanted # {} /\ wanted \subseteq Present(manifest)
                   THEN "post" ELSE "done"]
  /\ UNCHANGED <<shared, mode, named, target, result, cur, copy>>

(* The entry of the next key is read again under the lock, which is held   *)
(* until it has been posted and flagged.                                   *)
TakeEntry(i, k) ==
  /\ pc[i] = "post"
  /\ k \in todo[i]
  /\ Acquire(i)
  /\ cur' = [cur EXCEPT ![i] = k]
  /\ todo' = [todo EXCEPT ![i] = @ \ {k}]
  /\ pc' = [pc EXCEPT ![i] = "entry"]
  /\ UNCHANGED <<manifest, files, head, posts, message, extra,
                 mode, named, target, result>>

(* The end of a block that changed nothing: what was loaded is saved back, *)
(* except by a dry run.                                                    *)
Leave(i, next) ==
  /\ SaveAndRelease(i, IF mode[i] = "dry" THEN manifest ELSE copy[i])
  /\ pc' = [pc EXCEPT ![i] = next]
  /\ UNCHANGED <<mode, named, target, result, todo, cur, copy>>

Skip(i) ==
  /\ pc[i] = "entry"
  /\ Skips(i, cur[i], copy[i][cur[i]])
  /\ Leave(i, Onward(i))
  /\ UNCHANGED <<files, head, posts, message, extra>>

(* A dry run opens the findings file outside of the per-entry error        *)
(* handling: a file that is gone ends the whole dry run.                   *)
WouldPost(i) ==
  /\ pc[i] = "entry"
  /\ mode[i] = "dry"
  /\ ~Skips(i, cur[i], copy[i][cur[i]])
  /\ Leave(i, IF Sendable(cur[i], copy[i][cur[i]]) THEN Onward(i) ELSE "done")
  /\ UNCHANGED <<files, head, posts, message, extra>>

(* _post_github asks for the head of the pull request first ...            *)
HeadUnchanged(i) ==
  /\ pc[i] = "entry"
  /\ cur[i] \in GithubKeys
  /\ mode[i] # "dry"
  /\ ~Skips(i, cur[i], copy[i][cur[i]])
  /\ head[cur[i]] = copy[i][cur[i]].sha
  /\ pc' = [pc EXCEPT ![i] = "checked"]
  /\ UNCHANGED <<shared, mode, named, target, result, todo, cur, copy>>

(* ... and refuses the post when it is not the reviewed one.               *)
HeadMoved(i) ==
  /\ pc[i] = "entry"
  /\ cur[i] \in GithubKeys
  /\ mode[i] # "dry"
  /\ ~Skips(i, cur[i], copy[i][cur[i]])
  /\ head[cur[i]] # copy[i][cur[i]].sha
  /\ Leave(i, Onward(i))
  /\ UNCHANGED <<files, head, posts, message, extra>>

Sending(i) ==
  \/ pc[i] = "checked"
  \/ /\ pc[i] = "entry"
     /\ cur[i] \notin GithubKeys
     /\ mode[i] # "dry"
     /\ ~Skips(i, cur[i], copy[i][cur[i]])

(* The findings file is read and the provider accepts the review, pinned   *)
(* to the revision of the entry and stamped with the entry's model.        *)
Accepted(i) ==
  LET k == cur[i]
      e == copy[i][k]
  IN  /\ Sending(i)
      /\ Sendable(k, e)
      /\ posts' = Bump(posts, k, e.sha)
      /\ message' = [message EXCEPT ![k] =
                       [sha |-> e.sha, content |-> Content(k, e), stamp |-> e.run]]

(* A forced post of an entry already flagged is one more than its flag     *)
(* tells.                                                                  *)
Deliver(i) ==
  /\ Accepted(i)
  /\ extra' = IF mode[i] = "force" /\ copy[i][cur[i]].posted
              THEN Bump(extra, cur[i], copy[i][cur[i]].sha) ELSE extra
  /\ pc' = [pc EXCEPT ![i] = "accepted"]
  /\ UNCHANGED <<manifest, lock, files, head,
                 mode, named, target, result, todo, cur, copy>>

(* The provider accepts the review but the answer never arrives (a timeout *)
(* or a dropped connection): the outcome is an error and no flag is set.   *)
LoseAnswer(i) ==
  /\ Accepted(i)
  /\ extra' = Bump(extra, cur[i], copy[i][cur[i]].sha)
  /\ Leave(i, Onward(i))
  /\ UNCHANGED <<files, head>>

(* The post fails before the provider accepts anything, which it always    *)
(* does when the findings file is gone.  One bad entry does not stop the   *)
(* rest.                                                                   *)
Refuse(i) ==
  /\ Sending(i)
  /\ Leave(i, Onward(i))
  /\ UNCHANGED <<files, head, posts, message, extra>>

(* The flag is set in the loaded manifest, which is saved as the block     *)
(* ends.                                                                   *)
Record(i) ==
  /\ pc[i] = "accepted"
  /\ SaveAndRelease(i, [copy[i] EXCEPT ![cur[i]].posted = TRUE])
  /\ pc' = [pc EXCEPT ![i] = Onward(i)]
  /\ UNCHANGED <<files, head, posts, message, extra,
                 mode, named, target, result, todo, cur, copy>>

(* Mutant: a lock file in the place of the flock outlives its process.     *)
CrashKeepingLock(i) ==
  /\ pc[i] \in Waiting \cup Holding
  /\ pc' = [pc EXCEPT ![i] = "dead"]
  /\ extra' = IF pc[i] = "accepted" /\ ~copy[i][cur[i]].posted
              THEN Bump(extra, cur[i], copy[i][cur[i]].sha) ELSE extra
  /\ UNCHANGED <<manifest, lock, files, head, posts, message,
                 mode, named, target, result, todo, cur, copy>>

(* The process ends abruptly: it is killed, a second Ctrl+C arrives, or an *)
(* exception that nobody handles (a full disk) leaves the locked block.    *)
(* The system drops its lock and nothing is saved.  A review the provider  *)
(* had just accepted stays unflagged.                                      *)
Crash(i) ==
  /\ pc[i] \in Waiting \cup Holding
  /\ pc' = [pc EXCEPT ![i] = "dead"]
  /\ lock' = IF lock = i THEN NoInv ELSE lock
  /\ extra' = IF pc[i] = "accepted" /\ ~copy[i][cur[i]].posted
              THEN Bump(extra, cur[i], copy[i][cur[i]].sha) ELSE extra
  /\ UNCHANGED <<manifest, files, head, posts, message,
                 mode, named, target, result, todo, cur, copy>>

-----------------------------------------------------------------------------
(* What invocation i does of its own once it has been started.             *)
Work(i) ==
  \/ \E k \in Keys : FinishReview(i, k)
  \/ Gather(i)
  \/ BeginMerge(i)
  \/ SaveMerge(i)
  \/ Snapshot(i)
  \/ \E k \in Keys : TakeEntry(i, k)
  \/ Skip(i)
  \/ WouldPost(i)
  \/ HeadUnchanged(i)
  \/ HeadMoved(i)
  \/ Deliver(i)
  \/ LoseAnswer(i)
  \/ Refuse(i)
  \/ Record(i)

(* All invocations have come to an end; the results directory remains.     *)
AllEnded ==
  /\ \A i \in Invs : pc[i] \in Ended
  /\ UNCHANGED vars

Next ==
  \/ \E i \in Invs : \/ StartRun(i)
                     \/ StartPost(i)
                     \/ Interrupt(i)
                     \/ Crash(i)
                     \/ Work(i)
  \/ \E k \in Keys : NewPatchset(k)
  \/ AllEnded

Spec == Init /\ [][Next]_vars

(* A started invocation keeps going: reviews and posts all have timeouts,  *)
(* and the flock goes to some waiting process whenever it is free.  There  *)
(* are finitely many invocations, each takes the lock finitely often, so   *)
(* weak fairness is all that is asked of the lock.                         *)
Fairness == \A i \in Invs : WF_vars(Work(i))

FairSpec == Spec /\ Fairness

-----------------------------------------------------------------------------
(* Safety                                                                  *)

(* The manifest says that revision s of k, its current one, is posted.     *)
Recorded(k, s) == manifest[k].posted /\ manifest[k].sha = s

(* The provider has accepted s of k, and the invocation that holds the     *)
(* lock is about to record it for the first time.                          *)
InFlight(k, s) ==
  /\ lock # NoInv
  /\ pc[lock] = "accepted"
  /\ cur[lock] = k
  /\ copy[lock][k].sha = s
  /\ ~copy[lock][k].posted

One(b) == IF b THEN 1 ELSE 0

(* Every review the provider has accepted is accounted for: it is the one  *)
(* the manifest flags, the one being recorded at this moment, or an extra: *)
(* a repost the user forced, a post whose answer was lost or whose process *)
(* died before the save, or the post of a revision that another one has    *)
(* since replaced in the manifest.  So neither a re-review of the posted   *)
(* revision nor any overlap of runs and posts makes a review go out twice, *)
(* and nothing is flagged that was not posted (post_results,               *)
(* update_summary).                                                        *)
Accounted ==
  \A k \in Keys, s \in Shas :
    posts[k][s] = One(Recorded(k, s)) + One(InFlight(k, s)) + extra[k][s]

(* A last_posted record names a revision that really was posted            *)
(* (update_summary).                                                       *)
LastPostedIsReal ==
  \A k \in Keys : manifest[k].last # 0 => posts[k][manifest[k].last] > 0

(* An invocation between the load and the save of locked_summary is the    *)
(* only one, and what it loaded is still what the file holds.              *)
HolderIsCurrent ==
  \A i \in Invs : /\ pc[i] \in Holding <=> lock = i
                  /\ lock = i => copy[i] = manifest

(* A `run --post` that comes to its normal end has been through every      *)
(* postable review of its batch: none of them is missing from the manifest *)
(* it has merged them into, whatever the others have merged since          *)
(* (cmd_run, post_results' KeyError).                                      *)
RunPostFindsItsBatch ==
  \A i \in Invs : pc[i] = "done" /\ mode[i] = "run-post" => todo[i] = {}

(* A save changes the entries its invocation has reviewed or is posting,   *)
(* and no other: concurrent invocations do not clobber each other's        *)
(* manifest updates (locked_summary, update_summary, post_results).        *)
Touches(i, k) ==
  \/ pc[i] = "merging" /\ k \in Reviewed(i)
  \/ pc[i] = "accepted" /\ cur[i] = k

NoLostUpdate ==
  [][\A k \in Keys : manifest'[k] # manifest[k] =>
       \E i \in Invs : lock = i /\ Touches(i, k)]_vars

(* Liveness: every invocation that is started ends.  None waits for the    *)
(* manifest lock for ever, even when a holder dies.                        *)
EveryInvocationEnds ==
  \A i \in Invs : pc[i] # "idle" ~> pc[i] \in Ended

-----------------------------------------------------------------------------
(* The inductive invariant behind the safety properties.                   *)

(* An invocation that has taken an entry knows its key, and one that is    *)
(* past the checks of post_results has an entry to post.                   *)
PostingAnEntry ==
  \A i \in Invs :
    /\ pc[i] \in {"entry", "checked", "accepted"} => cur[i] \in Keys
    /\ pc[i] \in {"checked", "accepted"} => ~Skips(i, cur[i], copy[i][cur[i]])

(* Accounted needs the holder's copy to be the manifest: otherwise the     *)
(* flag that Record sets, or the old entry that a merge replaces, could be *)
(* one that another invocation has changed since.                          *)
IInv ==
  /\ TypeOK
  /\ HolderIsCurrent
  /\ PostingAnEntry
  /\ Accounted
  /\ LastPostedIsReal

(* Two more, behind the refinement and RunPostFindsItsBatch: reviews are   *)
(* of the batch, so that a merge never removes an entry, and a `run --post`*)
(* goes through keys that the manifest has.                                *)
BatchReviewed ==
  \A i \in Invs : /\ Reviewed(i) \subseteq Batch(i)
                  /\ pc[i] = "idle" => Reviewed(i) = {} /\ todo[i] = {}

RunPostProgress ==
  \A i \in Invs : mode[i] = "run-post" =>
    /\ pc[i] \in {"review", "merge", "merging", "done"} => todo[i] = {}
    /\ todo[i] \subseteq Present(manifest)
    /\ pc[i] = "snapshot" => named[i] /\ todo[i] # {}

-----------------------------------------------------------------------------
(* Refinement                                                              *)

(* A review that the provider has accepted counts as sent in the ledger    *)
(* from the moment its outcome is settled: the save of its flag, or the    *)
(* death of the process that would have saved it.                          *)
BeingPosted(k, s) ==
  lock # NoInv /\ pc[lock] = "accepted" /\ cur[lock] = k /\ copy[lock][k].sha = s

Settled == [k \in Keys |-> [s \in Shas |-> posts[k][s] - One(BeingPosted(k, s))]]

Ledger == INSTANCE ReviewLedger WITH
            entry <- manifest, sent <- Settled, Reviews <- Invs, Nobody <- NoInv

(* The processes, the lock, the loads and the saves implement the ledger,  *)
(* in which merging and posting are single steps.                          *)
ImplementsLedger == Ledger!Spec

-----------------------------------------------------------------------------
(* What the documentation says and the code does not do.                   *)

(* "keeps a last_posted record so an earlier posted review is never        *)
(* silently forgotten" (update_summary): an entry that tells of a posted   *)
(* review, its own or an earlier one, is only replaced by one that does.   *)
Remembers(e) == e.posted \/ e.last # 0

EarlierPostRemembered ==
  [][\A k \in Keys : Remembers(manifest[k]) => Remembers(manifest'[k])]_vars

(* "Posted messages are prefixed ... stamped with the model that actually  *)
(* ran the review" (README), while "a post of earlier results can safely   *)
(* overlap a running batch": the review that goes out is the one whose     *)
(* model it is stamped with.                                               *)
StampMatchesContent ==
  \A k \in Keys : message[k] # NoMessage => message[k].content = message[k].stamp

=============================================================================
