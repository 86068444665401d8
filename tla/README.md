# Verification of the review, patch and dashboard tools

TLA+ models of the parts of this repository in which several processes, threads or people
meet, or in which a command of many steps may die between two of them: the results
directory that `lreview` invocations share, the batch that runs review agents in parallel, the
web process of the Gerrit dashboard, and of the Gerrit client the patch session, the upload
and the staged replies; and the hourly patch shepherd.  Each model is checked by TLC on small
instances, and its safety properties and refinements are proved with TLAPS for every value of
the constants; only liveness is left to TLC.

`PROJECT.json` lists the components, the runs with their properties, the mutants that show
that each property depends on the code, the source lines every definition stands for, the
hazards of the code and the theorems.

    tlasany M.tla                          parse a module
    tlc -workers 2 -config X.cfg MCM.tla   model-check an instance
    tlapm M_proofs.tla                     check the proofs

## 1. The system

The repository is a collection of Python command line tools around Lustre development.
Most of them are stateless clients of a REST service.  The ones that keep state, or
run things in parallel, are these.

| component | state it keeps | operations | who else touches the state |
|---|---|---|---|
| **lreview manifest and posting** (`manifest.py`, `poster.py`, `update_summary`, `cmd_run`, `cmd_post`) | `summary.json`, the lock file beside it, a findings file per change and revision; on the provider, the posted reviews | merge a batch, post an entry, post all, dry run, force | every other `lreview run`, `run --post` and `post` on the same directory; the author who pushes new revisions |
| **lreview batch runner** (`runner.py`) | the pool's queue, `_RUNNING_PGIDS`, worktrees, artifacts in them, the list of results | prepare, start an agent, wait, kill, retry, classify, clean up, Ctrl+C | the agents (separate process sessions), the user |
| **lreview worktrees** (`worktree.py`) | git worktrees named by pid | create, remove, reap orphans | later runs on the same machine |
| **lreview review memory** (`memory.py`) | a document per change | stage, read, take back, count | another review of the same change |
| **dashboard web process** (`app.py`, `store.py`, `fetcher.py`) | registry of user contexts; per context events, rate cap, snapshot; per user files for snapshot, summary, lists and settings | look up, build, evict; refresh, edit, set interval, index | request threads, one refresher thread per context, fetch pools; the cron refresh |
| **dashboard classification and pages** (`classify.py`, `ci_parse.py`, `review_rules.py`) | none | pure functions from Gerrit's answers to what a page shows | |
| **dashboard command line** (`gerrit_dashboard/cli.py`, `config.py`) | the same files as the web process | cron refresh, list edits | the web process |
| **patch_shepherd** (`orchestrator.py`, `shepherd_tool.sh`, `run_shepherd.sh`) | the watch list, a file of the retests spent by a run | check, retest, stop, link, report | five parallel checkers, checks of an earlier run that were given up, the user who edits the list |
| **gerrit_cli rebase session** (`session.py`, `rebase_manager.py`, `reintegration.py`, `patch_workflow.py`, `series.py`) | one session file, the git repository | work on a patch, finish it, abort, end, reintegrate, continue, skip | the user with git; other commands that died |
| **gerrit_cli upload** (`upload.py`) | HEAD; on Gerrit the patchsets and change edits | check the range, copy commits, push, edit authors back, move HEAD | other uploaders, people who close changes, the user who amends |
| **gerrit_cli staged replies** (`staging.py`, `replier.py`, `commands/staging.py`) | one file per change; on Gerrit the drafts and the threads | stage, remove, refresh, clear, push as one message | other commands on the same change, the web UI of the same account |
| gerrit_cli queries and graph, CI, issue and patch tools, shared library, crash and drgn tools, priority reports, lreview's analysis tools and prompts | none that outlives a call, or one cache file | REST calls, formatting | |

How they interact: `lreview run` prepares worktrees, starts agents by a thread pool, and
merges what they said into the manifest; `--post` and `lreview post` go from the manifest
to Gerrit or GitHub.  The dashboard's refreshers read Gerrit by their own pool and write
files that request threads read.  `finish-patch` rebases the later patches of a series onto
the amended one in the session's repository; it pushes the result with git, or under
another account by `upload`, which is a command of its own too and owns nothing but HEAD while it
runs.  On the way a finish posts the
replies staged for its change by the same `push_staged` as `gerrit push`: one more push to StagedReplies, and
no state of RebaseSession.  The shepherd calls the other tools' command lines: `maloo` for
retests, `jira` for bugs, a model for what nobody has linked yet.

### What is hard, and what makes each component correct

*Manifest and posting.*  Any number of invocations overlap; each may die at any point, with
the lock in its hand; the answer to a post may be lost; a revision may be pushed between a
review and its post.  Correct means: no update is lost; an accepted review is never sent
again unless the user forces it or nobody could know that it was accepted; what an entry
says of posted revisions is true; everybody gets the lock at last.

*Batch runner.*  Agents ignore SIGTERM, stall, exit without output or say that their
session is gone; Ctrl+C meets workers between any two steps.  Correct means: each agent has
a worker waiting for it; nothing is left at the end; each review has one result; no verdict
is read from what an earlier attempt left; the number of agents is bounded; the run ends.

*Dashboard.*  Request threads build and evict the same boards; a request arrives between any
two steps of a thread that has just consumed the event, sits out a rate cap or is about to
sleep without a timeout.  Correct means: a queued refresh runs; an edit is seen by some
refresh; switching the interval on reaches a sleeping thread; a thread nobody has stopped
belongs to a registered board; a page never gets another version's snapshot.

*Rebase session.*  A finish is cherry-picks, saves and conflicts in five phases, each of which
a command may die in or hand to the user, who resolves, continues or drops the pick with git
and amends what HEAD happens to be.  Correct means: a cherry-pick in progress is the one the session
says is pending; no patch of the series disappears without being listed as skipped; a finish
nothing came in the way of leaves the series rebased and the session with its commits.

*Upload.*  HEAD is moved to copies of its commits, which are pushed under the account's name, edited
on Gerrit one by one and fetched back; each call may fail or lose its answer, somebody else
may upload in between, and the user may amend.  Correct means: the user's work stays in HEAD; the
checks refuse what Gerrit would; authors come back, or there is a warning that they did not.

*Staged replies.*  A file without a lock; a review posted by a call whose answer may be lost or come
late; drafts that belong to the account, not to the push.  Correct means: replies are
posted together and once, stay staged until posted, and the user's own drafts are let be.

*Shepherd.*  Five checkers count and spend what they share; a check that times out is given up
and runs on; the list is rewritten at the end of a run by places read at its start.  Correct
means: the cap holds as far as it can; a status is of the patch it stands at; no two runs
retest the same.

*Review memory.*  Two reviews of one change should not lose each other's notes.
*Worktrees.*  Reaping must remove only what no live run owns.

`PROJECT.json` lists the single hazards, each at its line, with the properties that cover
them or the reason why none does.

## 2. The modules

    ReviewLedger                    what the results directory promises
       ^ implemented by
    ReviewManifest                  the processes, the lock, loads and saves
       <- ReviewManifest_proofs <- ReviewManifest_refinement
       <- MCReviewManifest
    ReviewPool                      what a batch promises
       ^ implemented by
    ReviewBatch                     one `lreview run`: main thread, workers, agents
       <- ReviewBatch_proofs, MCReviewBatch
    Dashboard                       registry, refreshers, request threads, files
       <- Dashboard_proofs, MCDashboard
    RebaseSession                   the session's commands, git, the user, deaths
       <- RebaseSession_proofs, MCRebaseSession
    Upload                          one upload after the other, Gerrit, other people
       <- Upload_proofs, MCUpload
    ReplyOutbox                     what staging and pushing replies promise
       ^ implemented by
    StagedReplies                   the staging file, pushes, drafts, the web UI
       <- StagedReplies_proofs, MCStagedReplies
    Shepherd                        a run's checkers, the list, the report
       <- Shepherd_proofs, MCShepherd

In each module the actions come first, then `Spec` and `FairSpec`, then the properties, the
parts of the inductive invariant, and last what the documentation says and the code does not
do.  A definition whose comment begins with "Mutant" is a plausible bug in the definition
that follows it; no specification uses it.

### ReviewLedger

The abstract specification: `entry` is the manifest, `sent` counts posted reviews.  Merging
a batch and posting a review are single steps.  A post either flags its entry or is
unrecorded (a lost answer, a dead process, a forced repost); it always is of an entry that
has findings or is clean.

### ReviewManifest

| in the model | in the code |
|---|---|
| `manifest`, `copy[i]` | `summary.json`; what `locked_summary` yields to an invocation (`manifest.py`) |
| `lock` | the flock on `.summary.lock`, which the kernel frees when its holder dies |
| `files` | the findings file of a change and revision, with the review that is in it |
| `head` | the newest revision of each change, moved by its author (`NewPatchset`) |
| `posts`, `message` | what the provider has accepted: how often, and the last one's content and stamp |
| `extra` | history: the posts the manifest does not account for |
| `pc`, `mode`, `named` | the place of each invocation; `run`, `run --post`, `post`, `--force`, `--dry-run`; whether the keys were named |
| `target`, `result` | the batch and how its reviews ended (`Gather` and `FinishReview` stand for the whole of ReviewBatch) |
| `Acquire` … `SaveMerge` | `update_summary` within `locked_summary` |
| `Snapshot` | the unlocked read by which `post_results` lists the keys |
| `TakeEntry`, `Skip`, `WouldPost` | the loop of `post_results` and its early continues |
| `HeadUnchanged`, `HeadMoved`, `Deliver`, `LoseAnswer`, `Refuse` | the check of a pull request's head and the post itself |
| `Record` | the flag and the save after an accepted post |
| `Interrupt`, `Crash` | Ctrl+C during a batch; SIGKILL or power loss anywhere |

A process dies between the save's rename and anything else, never inside it: the code writes
a temporary file and renames it.  An entry keeps `sha`, `status`, the review it records,
`posted` and `last_posted`; wording, counts and file names are left out.  Statuses the poster
and the merge treat alike (`failed`, `timeout`, `stalled`, `invalid-json`) are one value.

### ReviewPool

The abstract specification of a batch: each review is refused (`Refuse`), or begun and decided once
(`Begin`, `Decide`), never more than `Jobs` at a time, and what was decided is handed over at the end
(`HandOver`): all of the batch if nobody interrupts it, all that was decided after one Ctrl+C.  After a
second one (`Interrupt`, `Abandon`) results may be missing and reviews still be under way, but
nothing is handed over that was not decided.

### ReviewBatch

One `run_batch`.  `main` is the main thread (prepare, gather, the steps of
`kill_running_reviews`, cancel, join, cleanup, summary, exit), `work[r]` the worker's place in
`_run_review` and `_run_agent` for review `r`, `agent[r]` the process.  `pgids` is
`_RUNNING_PGIDS`.  `Launch` and `Register` are two steps because `Popen` and the registration
are; `Terminate`, `AllGone`, `KillSurvivors` and `CancelPending` are the order of the Ctrl+C
handler.  Agents write, exit and ignore signals as they like (`WriteJson`, `WriteMeta`,
`AgentExits`); nothing is assumed of them.  `json[r]` and `meta[r]` hold the number of the
attempt that wrote the artifact, which is all that a verdict depends on.  A save by
`SaveSummary` is the `SaveMerge` of one ReviewManifest invocation: the two modules compose at
that step, by the set of reviews with a result.

`Pool` maps it to ReviewPool: a review is under way from the moment a worker has taken it to the one it has a
status (`UnderWay`), handed over when it is in `saved`, and the batch is over when the main thread is past
its summary.

### Dashboard

A context is one `UserCtx` with its thread.  `users` and `older` are the `OrderedDict` named
`users` in `create_app`, its content and its order; `wakeup`, `stop`, `pending`, `auto`, `ran`,
`snapshot` the fields of `AppState`; `loop[c]` the place in `_refresher_loop`, `refresh_once`
and the fetcher; `hpc[h]` that of a request
thread.  What the code does under one lock is one action; what it does after the lock is the
next one:

| in the model | in the code |
|---|---|
| `Lookup`, `Build`, `Insert` (`Win` or `Lose`), `Start`, `TearDown`, `WakeStopped` | `get_ctx`: the lookup under the registry's lock, building outside of it, the second look and the eviction, starting and tearing down after it |
| `CheckStop`, `TakeWakeup`, `Decide`, `WaitOutCap`, `StartRefresh`, `Park`, `Wake` | the refresher's loop |
| `Fetch`, `Enrich`, `FailRefresh`, `SaveSnapshot`, `Finish` | `refresh_once`, whose parts may each fail |
| `View`, `EditList`, `SetInterval`, `SaveInterval`, `RequestRefresh` | the handlers of a board |
| `LoadSummary`, `Summarize`, `WriteSummary` | the landing page and its backfill |

A snapshot is abstracted to the version of the code that wrote it (`"ok"`, `"old"`, `"none"`).
`unseen` is history: a list was edited since a refresh last read the lists.

### RebaseSession

A commit is the chain of patches up to it, so that "is under HEAD" and "was put on top of" are
about sequences; a patch is a change in one of its versions, and an amend makes a new version.
The lists of changes in the session file are sets, because the code keeps them in the order of
the series.

| in the model | in the code |
|---|---|
| `file`, `mem` | the session file; the session a command holds (`session.py`) |
| `head`, `branch`, `objects`, `pick` | HEAD, the branch the user came from, the commits that were fetched or made, `CHERRY_PICK_HEAD` with unmerged files or without |
| `gerrit` | the current revision of each change, which may not be built on the series |
| `pc`, `todo`, `new` | the place in `finish_rebase` or the reintegration, its list and `new_commits` |
| `how`, `astray` | history, for the properties: how the finish began; HEAD was moved while the list of rebased changes stayed |
| `StartNew`, `StartInSession`, `Save` | `work-on-patch`, outside of a session and in one |
| `Finish`, `Continue` … `Drop` | phase 1 of `finish_rebase`: what became of a pending cherry-pick |
| `Plan`, `PickNext`, `CherryPick`, `PickedOne`, `PickedNothing`, `Conflicted` | the loop over the later patches, with the saves around each `git cherry-pick` |
| `Close`, `Push`, `Advance` | the end of a finish |
| `StartReintegration` … `Complete`, `FetchFails`, `ContinueReintegration`, `SkipReintegration` | the reintegration of changes with newer patchsets |
| `Abort`, `EndSession`, `Clear` | `abort` and `end-session` |
| `Amend`, `Resolve`, `UserContinues`, `UserDrops` | the user with git, between commands |
| `Crash` | a command dies; a file it was about to write may be left unreadable, which the code takes for none |

### Upload

`from` is HEAD as `upload` read it, `sent` what it pushes in its place, `new` the places of the
commits Gerrit does not have, `edits` those pushed with the account as author, `moved` the
commits to which `_edit_authors_back` has edited or rebased changes so far.  `mine` is history:
what the user last made of HEAD.

| in the model | in the code (`upload.py`) |
|---|---|
| `Begin`, `Refuse`, `Accept` | `_check_range`, `_check_duplicate_change_ids`, `_plan`, `_check_authorship`, `_check_signoffs`, `_committer_rewrites`; the options of the command are chosen in the action |
| `Rewrite`, `Restore`, `MoveHead`, `LeaveHead` | `_rewrite_chain`, the restore after a failed push, `_move_head_to`, each by `git update-ref` with the old value |
| `Push`, `PushFails` | `git push`; a failure after which Gerrit may have taken it |
| `Find` | `_patchset_of`, best effort |
| `EditNone` … `EditedAll`, `Rebase`, `SetEdit`, `PublishEdit`, `ReadFinal`, `EditFails` | `_edit_authors_back`, call by call; its warnings are `WarnsOf`: of a commit no change was found for and all above it (`EditUnfound`), or by change numbers, where they are known (`GivesUp`) |
| `OtherUploads`, `OtherCloses`, `UserAmends` | the others |

What the checks ask of a commit (who wrote it, whose its committer is, who signed it off) is its
`Kind`; messages are left out but for the Change-Id.  `Takes` is what Gerrit asks of a push,
from how the code explains its refusals.

### ReplyOutbox

The abstract specification of staging and pushing: replies are entered, kept, and lost only when
the user gives them up or a command overwrites them.  A push takes what is kept, posts all of it as one
message or nothing (`Deliver`), and reports which (`ReportPosted`, `ReportNothing`, `ReportUncertain`); it
may be told that it failed when it did not (`DeliverUnheard`), or die (`Die`).  What it cannot keep from
happening is named: a reply is posted a second time only when it is in `doubt`, and a push
reports more than it did only when others published or deleted what it had prepared (`robbed`, `Muddle`).

### StagedReplies

Two or more places (`Procs`) run one command each after the other on one change.  `staged` is the
file; `step`, `ops`, `made` what the running command is at, has read, and has made.

| in the model | in the code |
|---|---|
| `Stage`, `StageLoad`, `Save` | `stage` and `stage_operation`: load, replace the reply with the same index or append, save |
| `Load`, `Clear` | `staged remove` and `refresh`, which load and save; `staged clear`, which unlinks |
| `Push`, `PushRead`, `Post` | `push`: one review when all threads are of one patchset |
| `Check`, `CreateOne`, `CreatedAll`, `Recheck`, `Publish`, `Lookup`, `DeleteOne`, `DeletedAll` | `replier.py`: drafts, looked at before and after they are made, published together, looked up after a failure, deleted when they are to be given up |
| `PushClear` | the file is unlinked when posted |
| `PublishLate` | a publish whose caller gave up takes effect |
| `WebDraft`, `WebPublish`, `WebDelete`, `Resolve` | the user in the web UI of the same account |
| `Crash` | a command is killed; the file it wrote may be torn |

A reply is posted twice only in ways the code cannot rule out, and `doubt`, `raced`, `robbed`,
`slipped` and `gone` record which of them happened.

`Outbox` maps it to ReplyOutbox: kept are the replies in the file and those that a command is about
to write (`Kept`), and a push has taken the replies it read until it ends (`Taken`).  Reading, checking,
making and deleting drafts show nothing there.

### Shepherd

`phase` is the place of the run in `orchestrator.py`, `check[i]` the place of the check of the
i-th patch in `shepherd_tool.sh`, `rest[i]` the failures it still has to look at, `unknown` those the model
is to decide on, `orphans` the checks that were given up and go on.  `pending` is what CI says of a retest,
with the run that asked for it; `crossed` and `strayed` are history: patches two runs asked retests of
at once, and patches of which a check was given up.

| in the model | in the code |
|---|---|
| `Start`, `StampTime`, `ReadList` | the run rewrites the list with its time and reads it |
| `Take`, `Info`, `ReadCi` | a worker takes a patch; merged and abandoned ones, and pending or passed CI, are skipped |
| `NextSuite` | the loop over the failing suites: one with a linked bug has a retest asked for, one without is left to the model |
| `CountRetests`, `AppendRetest`, `CallRetest` | the cap is read, the file of spent retests appended to, the retest asked for |
| `GiveUp`, `OrphanProceeds` | the timeout of `tool` in `orchestrator.py`, which kills the shell only; the Python program in it goes on (`OrphanLooks`, `OrphanAsks`) |
| `CheckedAll`, `Block`, `StopPatch`, `LinkBug`, `DecidedAll` | results are gathered, the series of a stopped patch blocked, the model's decisions executed, failure by failure |
| `LoadReport`, `WriteReport` | `write-report`: the list read again, marked by place, written |
| `Edit`, `Closes`, `Tests` | the user edits the list; a patch is merged or abandoned; CI ends |

## 3. What the runs show

| run | instance | shows |
|---|---|---|
| `manifest_one_key` | three invocations, one Gerrit change, two revisions (2.0M states) | `Accounted`, `LastPostedIsReal`, `HolderIsCurrent` |
| `manifest_providers` | two invocations; a Gerrit change, a pull request and a local ref; fairness (0.3M) | `NoLostUpdate`, `RunPostFindsItsBatch`, `ImplementsLedger`, `EveryInvocationEnds`, the types |
| `batch_parallel` | two reviews, two workers, two Ctrl+C (3.5M) | `AgentsAreOwned`, `NothingLeftBehind`, `ResultsComplete`, `ImplementsPool` |
| `batch_queue` | two reviews, one worker, two Ctrl+C; fairness | `BoundedAgents`, `VerdictOfThisAttempt`, `BatchEnds` |
| `dashboard` | two users, a registry of one, two request threads, two contexts, two requests (3.7M) | `QueuedWillRun`, `EditsAreFollowedUp`, `RunningIsRegistered`, `RegistryBounded`, `AutoIsArmed`, the types |
| `rebase_session` | three changes, any of the first two stale, three commands of which one dies; fairness (1.0M) | `PickIsAccounted`, `NoPatchLost`, `FinishRebases`, `CommandsEnd`, the types |
| `upload` | two uploads of ranges of one or two commits with any Change-Ids, one patch made meanwhile; fairness (0.5M) | `HeadKeepsTree`, `ChecksSuffice`, `AuthorsAreBack`, `LeftIsWarnedOf`, `UploadEnds` |
| `staged_replies` | two places, two threads, two replies, two pushes, one event (6.0M) | `PostedOnce`, `AllOrNone`, `NoReplyLost`, `OwnDraftsOnly`, `ImplementsOutbox` |
| `shepherd` | two patches with two failures each, two workers, a cap of two, two runs, one edit or other event (1.7M) | `RetestsBounded`, `StatusIsOfItsPatch`, `RetestedByOneRun`, the types |

The type invariants of the other three modules were checked in the same instances, as the inductive
invariants were before they were proved; their theorems make the check redundant.

Three more runs each find a statement of the documentation violated: `interrupt_kills_all`,
`torn_down_threads_end`, `later_patches_kept` (section 6).

### Bounds, and why they are enough

* `Invs`: an invocation is a process and runs once.  A lost or doubled post takes two
  that overlap, the memory of an earlier post takes three merges.  `manifest_providers` has
  one key of each kind, since the code branches on nothing else, and so the second key that a save
  could clobber.
* `MaxPs = 2`: a revision and its successor are all that the code compares.  The `posts` and
  `extra` counters are not bounded by a guard; finitely many invocations bound them.
* `N`, `Jobs`: two workers at once for the registry and the kill; one worker for two
  reviews so that one is pending when Ctrl+C comes; three reviews and two workers for a pending
  one that a freed worker takes.  One review has a session to resume and one is a pull
  request, the two properties of a review the code asks about.
* `MaxInterrupts = 2`: the second Ctrl+C is the one that meets the handler of the first.
* `MaxUsers = 1`: the second board evicts the first.  `Ctxs` and `MaxRequests` are two: building
  a board twice, an eviction during a refresh, and an edit beside another request all need
  two.  `OnDisk` are the kinds of file an earlier server may have left.
* RebaseSession: three changes are one to finish and two to carry along, so that a conflict in the first
  pick meets a second one still to do; a stale change above or below another takes two that
  may be stale.  Two versions tell an amended patch from the one before.  Three commands are a
  work-on-patch, a finish that dies or conflicts, and the one that follows; `later_patches_kept`
  needs five.
* Upload: with two commits there is one below and one above the edited one; the second upload meets
  what the first one left, among it raised ones that were delivered.  The model was
  also run once with three commits and one upload (4.0M states) and with two patches made meanwhile
  (2.7M), with the same result.
* StagedReplies: a reply posted twice takes two pushes, or one and a death; two threads on one
  patchset or two take both ways to post.  One event keeps the run small; the proof
  covers the others, and it found a case no small run has (section 4).
* Shepherd: two workers exceed a cap of two, which one check with two failures may spend alone; two runs,
  so that a check that was given up meets the next run.  Lists of one or two entries leave room for an entry
  to be added, and may have one patch twice.
* The safety runs of ReviewManifest, Dashboard, StagedReplies and Shepherd use symmetry in
  invocations, users, contexts, threads, places, patches and their failures, which no definition tells apart
  (`DefaultUser` is set to no user); the runs with liveness do not.

Deadlock is checked in the manifest and batch runs.  The other systems idle: a server whose
requests are served and whose refreshers wait without a timeout, a repository between two
commands, a list between two runs.  There the bounds on commands end the behaviour, and deadlock is
not checked; that no *running* command is stuck is what `CommandsEnd` and `UploadEnds` say.

### Fairness

* ReviewManifest: `WF` of each started invocation's next step.  Reviews and posts have timeouts, a
  flock is granted to some waiter when it is free and freed by the kernel when the
  holder dies.  No strong fairness is needed: each of finitely many processes takes the lock
  finitely often.  Crashes, new patchsets and starting are not fair.
* ReviewBatch: `WF` of the main thread and of each worker.  Waiting for an agent is no
  assumption about the agent, for the wait ends in a timeout and a SIGKILL.  Neither agents nor
  the user are fair.
* Dashboard: `WF` of each refresher and each request thread.  Every wait has a timeout and
  every Gerrit call too, except the untimed wait of a board without an interval, which
  is enabled only by its event, and the wait for cancelled futures, which is never enabled.
* RebaseSession, Upload: `WF` of the steps of a running command.  They are git calls and REST calls with
  timeouts, and no step waits for another process or for the user: a conflict ends the command.
  Starting commands, the user, the others and deaths are not fair.
* StagedReplies, Shepherd: none.  Their properties are safety properties.

## 4. What is proved

All theorems hold for every value of the constants that meets the `ASSUME`s: the names for
"nobody" are none of the names (`ConstantsAssumption`, `NamesAssumption`), `GithubKeys` and
`LocalKeys` are disjoint sets of keys, `N`, `Jobs`, `MaxPs` and `MaxUsers` are positive
(`BatchAssumption`, `BoundsAssumption`, and likewise `SessionAssumption`, `UploadAssumption`,
`StagedAssumption`, `ShepherdAssumption`).  The sets of invocations, keys, users, contexts, threads,
places and patches need not be finite.

**ReviewManifest** (`ReviewManifest_proofs`).  `TypeCorrect`, `LockCorrect`, `PostsAreAccounted`,
`LastPostedIsTrue`, `FlaggedWasPosted`, `NoUpdateIsLost`.  The inductive invariant `IInv` is the
type, `HolderIsCurrent`, `PostingAnEntry`, `Accounted` and `LastPostedIsReal`.  `Accounted` alone is
not inductive: `Record` saves the copy its invocation loaded earlier, and only
`HolderIsCurrent` (what the holder loaded is what the file holds) makes that a change of one
flag; `PostingAnEntry` says that the copy's entry had passed the checks of `post_results`.  The proof
goes in two layers: types, lock and `PostingAnEntry` first (`LockInv`), the accounts on top.

**Refinement** (`ReviewManifest_refinement`).  `LedgerImplemented`: each step of the processes is a
step or a stutter of ReviewLedger under the mapping `entry <- manifest`, `sent <- Settled`, where a
review counts as sent when its outcome is settled, by the save of the flag or the death of
the process that would have saved it.  It needs `BatchReviewed` (a merge never writes an absent
revision).  `RunPostComplete`: a `run --post` finds each of its reviews in the manifest; it
rests on `RunPostProgress` and on the fact that no step removes a key.

**ReviewBatch** (`ReviewBatch_proofs`).  `TypeCorrect`, `AgentsHaveOwners`, `NothingIsLeft`,
`ResultsAreComplete`, `AgentsAreBounded`, `VerdictsAreFresh`, `BatchImplementsPool`.  The invariant has one part per concern:
`Lifecycle` (which places of the main thread go with which places of a worker), `Progress`
(what is in the list of results), `Budget` (each agent after the first is paid for by a stall, a
lost session or the question for the metadata), `FreshArtifacts` (what lies in a worktree is
this attempt's).  The bound of `Jobs` on live agents is by counting: at most the worker
that takes a review is added, and only when there are fewer.
`BatchImplementsPool` shows that each step is one of ReviewPool or shows nothing there.  Its part of the
invariant is `Outcomes`: which places of a worker come before a status, that a result has one, that only an
interrupted batch cancels, and that no worker is at a review when the batch ends without a second Ctrl+C.

**Dashboard** (`Dashboard_proofs`).  `TypeCorrect`, `QueuedRefreshesRun`, `EditsAreNotForgotten`,
`AutoReachesSleepers`, `RunningThreadsAreRegistered`, `RegistryKeepsItsLimit`, `ThreadsDoNotPileUp`.  The first four need the types, `Lifecycle` (what a request
thread holds at each place) and, where a thread is started, `FreshIsPrivate`.  `RunningIsRegistered` speaks of started threads, but a context exists before
its thread: `BuiltIsTracked` says the same of all built contexts, with the handler that is about
to insert one as a third case, and `FreshIsPrivate` that nobody else holds that context and
only its handler starts it.  `RegistryBounded` needs that the eviction in `get_ctx`, which gives up one board for
each one that is entered, finds one to give up.  `LruOrder` says that the boards stand in one order; so the
ones that may be given up have a least recently used one, which the proof finds by well-founded
induction on the finite sets of boards older than a board, and entering it last and taking out one keeps
both the order and the size.  The default user's board is never given up: with `MaxUsers` of one the registry
holds it and one other, and `RegistryBounded` says so.  `ThreadsBounded` counts on top of it and of `RunningIsRegistered`: at most
the limit, one more, and one for each request about to tear a board down.  It is not a run's property, for its
bound lies above what two contexts can reach.

**RebaseSession** (`RebaseSession_proofs`).  `TypeCorrect`, `PickAccounted`, `NothingLost`, `FinishesRebase`.  `NoPatchLost` is
about the one point where a finish is ready to push, but what makes it true there spans several commands:
`RebasedKept` says that whatever the session lists as rebased is under HEAD, as long as HEAD was not
moved away from those commits (`astray`).  Within a finish, `LoopCovers` says that every later change is
still to do, listed or has a new commit, and `NewBelow` that the new commits are under HEAD, which only
grows.  `PickMatches`, `JustPicked` and `SaveIsFresh` are about the moments between a git call
and the save that records it.  `Control` and `PickControl` say which place of a command goes with which session.
`FinishRebases` says more of a finish that nothing came in the way of: the later patches lie on the amended one,
each once and in order.  `FreshStack` says so of the part done so far, with the place of each patch
counted by `Cardinality` of those below it; `FreshLists` that what is noted comes before
what is to do, so that the next pick goes on top; `ResumedIsNotFresh` and `FreshPlan` that such a finish had no
cherry-pick to take up and plans from the session it loaded.

**Upload** (`Upload_proofs`).  `TypeCorrect`, `HeadKeepsItsTree`, `ChecksAreEnough`, `AuthorsComeBack`,
`LeftIsWarned`.  `Planned` is what the checks let through: the copies have the trees of HEAD's
commits, what is new is an upper part of the range, and Gerrit accepts it; from it follow
`ChecksSuffice` and, with `Progress`, that every place the loop visits has a patchset.  `GivenBack` says of
each place below the loop's that its change has not the account as author of a copy, which other people's
patchsets keep, or that there was a warning, which has the change's number if that was found.  An upload that raises
returns no warning at all, so `LeftIsWarnedOf` is about those that end.  `AuthorsAreBack` needs more, for it speaks of whole chains: `Chained` says what became of
each commit while nobody else has a hand in it, and `Walked(n)` that the commits the lowest `n` places have
by now lie on top of each other (`OnTop`).  The proof shows that one edited commit forces
a rebase of all above it, so that HEAD's own change was moved if any was.

**StagedReplies** (`StagedReplies_proofs`).  `TypeCorrect`, `RepliesArePostedOnce`, `PushesAreAtomic`,
`RepliesAreKept`, `OwnDraftsArePublished`, `PushesImplementOutbox`, for any number of places.  `DraftsAreKnown` and `DraftsAreSafe` say that a
push knows all its drafts and that none vanishes but by being posted or deleted; `MessageMade` that a push about
to clear the file has made its message; `OnePush` and `PushIsOver` that a reply no history variable excuses is in
the hands of one push at a time, and of one that is about to clear it once it is posted; `LastLook` that the user's draft is there at a
publish only if it was saved after the last look.  The proof found a case that no small run reaches: a push may
publish the drafts of another, which takes four replies and three pushes.  `PostedOnce` and `AllOrNone` name it
(`robbed`), for the code does not exclude it.
`PushesImplementOutbox` has a lemma for each kind of step: what each command is to ReplyOutbox.  It is the same
invariant that makes a step the right one: `PushIsOver` that a push may say "nothing" or post at all
(no reply of its own that is certain is posted yet), `DraftsAreKnown` and `MessageMade` that what `publish_drafts`
takes is just the push's own batch, `DraftsAreSafe` that clearing the file loses nothing.  One
part is there for the refinement alone: `AllEntered`, that every reply anywhere was staged.

**Shepherd** (`Shepherd_proofs`).  `TypeCorrect`, `RetestsAreBounded`, `StatusesAreTrue`, `RetestsAreOfOneRun`.
`Budget` counts: what was spent, plus the checkers that have counted and not yet appended, in this
run and among the checks it gave up, is at most the cap and one less than the workers and those
given up.  `Unedited` says that the list in memory is the one in the file until the user edits it.
`RetestsOfThisRun` is what makes `RetestedByOneRun` inductive: whoever is about to ask for a retest of a patch
with no check given up, a check or a decision, acts for the run that goes on, and what is pending, if anything,
was asked for by that run too.

**Only model-checked.**  The liveness properties `EveryInvocationEnds`, `BatchEnds`, `CommandsEnd` and
`UploadEnds`, since the proof system does not deal with `ENABLED`, and the violations of section 6, which
are counterexamples.  What TLC checks of the abstract specifications is that the detailed ones
implement them; they have no properties of their own.

## 5. What is not modelled, and why

* ReviewManifest: a manifest that does not parse (the code sets it aside and starts afresh: the
  rename makes it unreachable for the code's own writes), a check of a pull request's head that the
  provider overtakes before the post arrives (no promise to check against), the texts.
* ReviewBatch: in-place reviews, `keep_worktrees`, a worktree that cannot be removed, the
  children of an agent that outlive it, review memory, progress output, a Ctrl+C within the
  final cleanup and save, and one between two statements that the model has as one step.
* Dashboard: the cache of resolved accounts, the list limits, what the comment cache holds, the
  migration of single-user files, a death of the process, and a second process on the
  same files.
* RebaseSession: `finish-patch --user` (an upload under another account), `next-patch` and the status commands,
  series whose changes on Gerrit are not in one chain, two commands on one session at once (the
  code neither locks it nor promises anything).
* Upload: push options, `--expect-patchset`, `--base`, merge commits in the range, dry runs.
* StagedReplies: drafts mode, dry runs, replies posted directly, the texts.  `Save` is one step; the code
  truncates the file and writes it in place (`staging.py:112`), so a command that reads or writes at
  that moment may find it torn, which the model has for deaths only.
* Shepherd: the caps on links and raised bugs (the same code as the one on retests), mail and the daily
  report.  A patch has one test session, with any number of failures; with several, what is said of a patch here
  is said of each.  CI says that a retest is pending from the moment Maloo has accepted it.  Runs do not overlap, for a systemd timer starts
  them; `last_patchset` and `last_review_count` are read and never written by the code; retests by other people
  are left out.  That `write-report` overwrites an edit the user makes between its load and its
  save is in the model, with no promise to check it against.
* Of the components without a module most are stateless: a REST client, a parser, a renderer, a report, a
  crash-dump script reads, formats and ends.  Their functions have no state, order or failure that a
  model could tell apart, and they are nine tenths of the repository's lines; so the share of
  the lines the modules stand for stays small, while the parts that keep state are in them.  The
  review memory, the reaping of worktrees and the dashboard's second process are planned (section 7).

## 6. Where documentation and code differ

Three runs each check one sentence of the repository's documentation and end with a counterexample.

* `interrupt_kills_all`.  Ctrl+C is said to kill each running review.  An agent between `Popen` and
  its registration, and one that a freed worker starts before the pending reviews are
  cancelled, are not signalled; the run waits for them.
* `torn_down_threads_end`.  An evicted board's thread is said to be stopped.  One that consumes the
  wake-up of its own teardown sleeps for ever if its board has no interval; one that waits for
  futures which the teardown cancels never returns.
* `later_patches_kept`.  After a conflict the user is to fix it and run `finish-patch` again.  The second
  finish notes HEAD as the target's commit (`rebase_manager.py:964`), which is by then a later patch's; a
  later finish from further below picks that one, and the target is gone.

The modules state more such sentences, each in its last section.  TLC finds a counterexample to
each when it is checked as an invariant or a property of the module's instance; no run repeats them.

* `EarlierPostRemembered` (ReviewManifest).  A posted review is said never to be forgotten.  Review and post
  patchset 1, review patchset 2, review it again: the second merge starts from an entry that is
  not posted, and drops `last_posted` (`runner.py:1623`).
* `StampMatchesContent` (ReviewManifest).  Posted messages are said to be stamped with the model that ran, and a
  post to overlap a running batch safely.  The batch copies its findings over the file of the same
  revision before it merges (`runner.py:1035`): the post sends the new findings under the old stamp.
* `OnlyAKillStrands` (ReviewBatch).  A run is said to strand a worktree only if it is killed.  Ctrl+C during the
  preparation (`runner.py:1502`) is outside of the `try`.
* `SummaryOfLastSnapshot` (Dashboard).  The summary is said to be of the last snapshot.  A refresh that fails
  between the two files, or a backfill that read before it, leaves an older one for good.
* `LaterPatchesRebased` (RebaseSession).  A finish rebases all later patches.  One whose commit was never
  fetched fails to be picked without unmerged files, and counts as empty (`rebase_manager.py:984`).
* `Reintegrated` (RebaseSession).  A reintegrated series has the newest patches.  With two stale changes the
  upper one's patchset is taken with what its author had below it (`rebase_manager.py:444`).
* `NothingPushedWhenRaised` (Upload).  An upload is said to raise an error only when nothing was pushed
  (`upload.py:1679-1682`).  A push that Gerrit took while git timed out raises all the same.
* `NothingMeansNothing` (StagedReplies).  A push is said to report "nothing was posted" only then
  (`replier.py:399`).  A publish that takes effect after the drafts were looked up is reported so.
* `ReplacesItsThread` (StagedReplies).  Staging twice for a thread is to replace the reply
  (`staging.py:156`).  Threads are told apart by their place among the unresolved ones, which shifts when
  one is resolved.

* `LeftIsNamed` (Upload).  `_edit_authors_back` is said to stop with a warning naming what is left
  (`upload.py:1521`).  Of a change whose number was not found the warning of a later failure prints "None"
  (`upload.py:1562`), and an upload that raises after the push, in `_move_head_to` for one, warns of nothing.
* `RetestedOnce` (Shepherd).  All failures of a session with a pending retest are said to be skipped
  (`shepherd_tool.sh:265-267`).  That is looked at once, before the first failure: a check asks for a retest of the same
  session for each failing suite with a bug (`shepherd_tool.sh:311`), and `execute_decisions` for each subtest
  (`orchestrator.py:407`).

Two more were met on the way.  The shepherd's report says "done" of a link or a retest whatever became of
it (`orchestrator.py:406`); the report is text, which the model leaves out.  And a patch under
negative review stops those above it that were found merged too, for their results have no
`watch_status` to tell (`orchestrator.py:202`); `Block` does as the code does.

The properties that pass take these into account where they must and nowhere else:
`NothingLeftBehind` is about runs whose reviews were submitted, `QueuedWillRun` about contexts that
are not stopped, `ResultsComplete` about at most one Ctrl+C.

## 7. Plan

Done: the manifest with its ledger, the batch with its pool, the dashboard's process, the rebase session,
the upload, the staged replies with their outbox and the shepherd, with their proofs.  Left, in this order.

1. **DashboardFiles**: two contexts of one board, the cron refresh as a second process,
   restarts.  Properties: the saved interval is the running one after a restart, a list edit of one
   process is not lost to the other, the snapshot saved last is the one begun last.
2. **ReviewMemory** and **WorktreeReaping**: stage, read, take back and count of a change's document by
   two reviews of it; orphans by pid, with pids used again.
3. Composition of ReviewBatch with ReviewManifest: the batch's `SaveSummary` as the merge, so that
   `saved` is what the manifest is given.
4. Abstract specifications of a rebased series (what `finish-patch` promises over several commands and
   conflicts) and of an upload, for RebaseSession and Upload to implement.

## 8. Files

`X.tla` is a component, `X_proofs.tla` (and `ReviewManifest_refinement.tla`) its theorems,
`MCX.tla` its instances and `MC*.cfg` the values of the constants, one for each run.
