----------------------------- MODULE ReviewBatch -----------------------------
(***************************************************************************)
(* One `lreview run`: the main thread in run_batch, the worker threads of  *)
(* its pool, and the headless agents they start, each a process of its own *)
(* session; Ctrl+C, timeouts, stalls, retries and the one question for a   *)
(* missing review-metadata.json.                                           *)
(*                                                                         *)
(* The reviews are numbered in the order of the batch, which is the order  *)
(* of the pool's queue and of the futures.                                 *)
(***************************************************************************)
EXTENDS Integers, FiniteSets

CONSTANTS
  N,              \* reviews in the batch
  Jobs,           \* --jobs: worker threads
  GithubReviews,  \* the pull requests, which have a result file even if clean
  SessionReviews, \* the ones with an earlier Claude session to resume
  MaxInterrupts   \* bound: Ctrl+C the user presses

ASSUME BatchAssumption ==
  /\ N \in Nat \ {0}
  /\ Jobs \in Nat \ {0}
  /\ GithubReviews \subseteq 1..N
  /\ SessionReviews \subseteq 1..N
  /\ MaxInterrupts \in Nat

Reviews == 1..N

Verdicts == {"findings", "clean"}
Statuses == {"failed", "timeout", "invalid-json", "stalled"} \cup Verdicts

(* The worker's place in a review.  Busy ones occupy a worker thread.      *)
HasAgent  == {"launched", "waiting", "stopping"}
Listed    == {"waiting", "stopping"}
Busy      == HasAgent \cup {"launch", "ended", "overdue", "silent", "classify", "cleanup"}
WorkState == Busy \cup {"unprepared", "prepared", "queued", "cancelled", "done"}

MainState == {"prepare", "gather", "term", "grace", "cancel", "join",
              "cleanup", "summary", "exit", "ended"}

Running == {"alive", "termed"}

VARIABLES
  main,       \* where the main thread is
  turn,       \* the review its loop has come to
  interrupts, \* Ctrl+C so far
  results,    \* the list of results: how often each review is in it
  saved,      \* the reviews update_summary was given
  work,       \* what the worker is doing with each review
  pgids,      \* _RUNNING_PGIDS, the agents by the review they make
  wtree,      \* the worktrees that exist
  agent,      \* the agent process of each review
  code,       \* how the last agent of a review exited
  cause,      \* why the worker stops an agent
  kind,       \* what the agent was started for
  session,    \* whether it resumes a session
  stalls,     \* the stalls of a review
  launches,   \* the agents started for a review
  json,       \* gerrit-review.json in the worktree: the attempt that wrote it
  valid,      \* and whether it parses and passes validation
  meta,       \* review-metadata.json: the attempt that wrote it
  status      \* the status of a result, "none" until there is one

mainVars  == <<main, turn, interrupts, results, saved>>
agentVars == <<agent, code>>
files     == <<json, valid, meta>>
tryVars   == <<cause, kind, session, stalls, launches>>
vars == <<mainVars, work, pgids, wtree, agentVars, files, tryVars, status>>

TypeOK ==
  /\ main \in MainState
  /\ turn \in 1..N + 1
  /\ interrupts \in 0..MaxInterrupts
  /\ results \in [Reviews -> Nat]
  /\ saved \in SUBSET Reviews
  /\ work \in [Reviews -> WorkState]
  /\ pgids \in SUBSET Reviews
  /\ wtree \in SUBSET Reviews
  /\ agent \in [Reviews -> {"none", "alive", "termed", "dead"}]
  /\ code \in [Reviews -> {"none", "ok", "bad", "no-session"}]
  /\ cause \in [Reviews -> {"none", "timeout", "stall"}]
  /\ kind \in [Reviews -> {"review", "nudge"}]
  /\ session \in [Reviews -> BOOLEAN]
  /\ stalls \in [Reviews -> 0..2]
  /\ launches \in [Reviews -> Nat]
  /\ json \in [Reviews -> 0..2]
  /\ valid \in [Reviews -> BOOLEAN]
  /\ meta \in [Reviews -> 0..2]
  /\ status \in [Reviews -> Statuses \cup {"none"}]

(* An attempt is what follows a stall, or the beginning.                   *)
Attempt(r) == stalls[r] + 1

Init ==
  /\ main = "prepare"
  /\ turn = 1
  /\ interrupts = 0
  /\ results = [r \in Reviews |-> 0]
  /\ saved = {}
  /\ work = [r \in Reviews |-> "unprepared"]
  /\ pgids = {}
  /\ wtree = {}
  /\ agent = [r \in Reviews |-> "none"]
  /\ code = [r \in Reviews |-> "none"]
  /\ cause = [r \in Reviews |-> "none"]
  /\ kind = [r \in Reviews |-> "review"]
  /\ session = [r \in Reviews |-> r \in SessionReviews]
  /\ stalls = [r \in Reviews |-> 0]
  /\ launches = [r \in Reviews |-> 0]
  /\ json = [r \in Reviews |-> 0]
  /\ valid = [r \in Reviews |-> FALSE]
  /\ meta = [r \in Reviews |-> 0]
  /\ status = [r \in Reviews |-> "none"]

-----------------------------------------------------------------------------
(* The agents.  They are nobody's threads: what they write, when they exit *)
(* and how they take a SIGTERM is up to them.                              *)

(* The agent writes an artifact into its worktree, if that is still there. *)
WriteJson(r) ==
  /\ agent[r] \in Running
  /\ r \in wtree
  /\ json[r] # Attempt(r)
  /\ json' = [json EXCEPT ![r] = Attempt(r)]
  /\ \E b \in BOOLEAN : valid' = [valid EXCEPT ![r] = b]
  /\ UNCHANGED <<mainVars, work, pgids, wtree, agentVars, meta, tryVars, status>>

WriteMeta(r) ==
  /\ agent[r] \in Running
  /\ r \in wtree
  /\ meta[r] # Attempt(r)
  /\ meta' = [meta EXCEPT ![r] = Attempt(r)]
  /\ UNCHANGED <<mainVars, work, pgids, wtree, agentVars, json, valid, tryVars, status>>

Exits(r, c) ==
  /\ agent[r] \in Running
  /\ agent' = [agent EXCEPT ![r] = "dead"]
  /\ code' = [code EXCEPT ![r] = c]
  /\ UNCHANGED <<mainVars, work, pgids, wtree, files, tryVars, status>>

(* An agent that cannot resume its session says so and exits.              *)
AgentExits(r) ==
  \/ \E c \in {"ok", "bad"} : Exits(r, c)
  \/ session[r] /\ Exits(r, "no-session")

Signalled(rs) ==
  agent' = [r \in Reviews |-> IF r \in rs /\ agent[r] = "alive"
                              THEN "termed" ELSE agent[r]]

(* SIGKILL                                                                 *)
Killed(rs) ==
  /\ agent' = [r \in Reviews |-> IF r \in rs /\ agent[r] \in Running
                                 THEN "dead" ELSE agent[r]]
  /\ code' = [r \in Reviews |-> IF r \in rs /\ agent[r] \in Running
                                THEN "bad" ELSE code[r]]

-----------------------------------------------------------------------------
(* A worker thread: _review_and_cleanup, _run_review, _run_agent.          *)

Goes(r, to) == work' = [work EXCEPT ![r] = to]

BusyWorkers == {r \in Reviews : work[r] \in Busy}

(* A free worker takes the first of the queue.                             *)
Take(r) ==
  /\ work[r] = "queued"
  /\ \A q \in Reviews : q < r => work[q] # "queued"
  /\ Cardinality(BusyWorkers) < Jobs
  /\ Goes(r, "launch")
  /\ UNCHANGED <<mainVars, pgids, wtree, agentVars, files, tryVars, status>>

(* Popen starts an agent in the worktree ...                               *)
Launch(r) ==
  /\ work[r] = "launch"
  /\ r \in wtree
  /\ agent' = [agent EXCEPT ![r] = "alive"]
  /\ code' = [code EXCEPT ![r] = "none"]
  /\ cause' = [cause EXCEPT ![r] = "none"]
  /\ launches' = [launches EXCEPT ![r] = @ + 1]
  /\ Goes(r, "launched")
  /\ UNCHANGED <<mainVars, pgids, wtree, files, kind, session, stalls, status>>

Finished(r, s) ==
  /\ status' = [status EXCEPT ![r] = s]
  /\ Goes(r, "cleanup")

(* ... or raises: the command or the worktree is not there.                *)
LaunchFails(r) ==
  /\ work[r] = "launch"
  /\ \/ kind[r] = "nudge" /\ Goes(r, "classify") /\ UNCHANGED status
     \/ kind[r] = "review" /\ Finished(r, "failed")
  /\ UNCHANGED <<mainVars, pgids, wtree, agentVars, files, tryVars>>

(* Only a statement later is it known to kill_running_reviews.             *)
Register(r) ==
  /\ work[r] = "launched"
  /\ pgids' = pgids \cup {r}
  /\ Goes(r, "waiting")
  /\ UNCHANGED <<mainVars, wtree, agentVars, files, tryVars, status>>

(* The agent has exited by itself or was killed by the main thread.        *)
Reap(r) ==
  /\ work[r] = "waiting"
  /\ agent[r] = "dead"
  /\ pgids' = pgids \ {r}
  /\ Goes(r, IF kind[r] = "nudge" THEN "classify" ELSE "ended")
  /\ UNCHANGED <<mainVars, wtree, agentVars, files, tryVars, status>>

(* The time is up, or the log has stopped growing: SIGTERM to the group,   *)
Overdue(r) ==
  /\ work[r] = "waiting"
  /\ agent[r] # "dead"
  /\ Signalled({r})
  /\ \E why \in {"timeout", "stall"} : cause' = [cause EXCEPT ![r] = why]
  /\ Goes(r, "stopping")
  /\ UNCHANGED <<mainVars, pgids, wtree, code, files,
                 kind, session, stalls, launches, status>>

(* Mutant: a second SIGTERM in the place of the SIGKILL.                   *)
KillSoftly(r) ==
  /\ work[r] = "stopping"
  /\ agent[r] \in Running
  /\ Signalled({r})
  /\ UNCHANGED <<mainVars, work, pgids, wtree, code, files, tryVars, status>>

(* after a grace period SIGKILL,                                           *)
KillHard(r) ==
  /\ work[r] = "stopping"
  /\ agent[r] \in Running
  /\ Killed({r})
  /\ UNCHANGED <<mainVars, work, pgids, wtree, files, tryVars, status>>

(* Mutant: the agent that was stopped stays in the registry.               *)
StoppedStillListed(r) ==
  /\ work[r] = "stopping"
  /\ agent[r] = "dead"
  /\ Goes(r, IF kind[r] = "nudge" THEN "classify" ELSE "overdue")
  /\ UNCHANGED <<mainVars, pgids, wtree, agentVars, files, tryVars, status>>

(* and the agent is gone.                                                  *)
Stopped(r) ==
  /\ work[r] = "stopping"
  /\ agent[r] = "dead"
  /\ pgids' = pgids \ {r}
  /\ Goes(r, IF kind[r] = "nudge" THEN "classify" ELSE "overdue")
  /\ UNCHANGED <<mainVars, wtree, agentVars, files, tryVars, status>>

TimedOut(r) ==
  /\ work[r] = "overdue"
  /\ cause[r] = "timeout"
  /\ Finished(r, "timeout")
  /\ UNCHANGED <<mainVars, pgids, wtree, agentVars, files, tryVars>>

Stall(r) ==
  /\ work[r] = "overdue"
  /\ cause[r] = "stall"
  /\ stalls' = [stalls EXCEPT ![r] = @ + 1]
  /\ Goes(r, "silent")
  /\ UNCHANGED <<mainVars, pgids, wtree, agentVars, files,
                 cause, kind, session, launches, status>>

(* A second stall ends the review; so does a first one without             *)
(* --stall-retry or without the time for another attempt.                  *)
GiveUp(r) ==
  /\ work[r] = "silent"
  /\ Finished(r, "stalled")
  /\ UNCHANGED <<mainVars, pgids, wtree, agentVars, files, tryVars>>

(* Mutant: what the stalled attempt has written is left in the worktree.   *)
RetryKeepingArtifacts(r) ==
  /\ work[r] = "silent"
  /\ stalls[r] = 1
  /\ Goes(r, "launch")
  /\ UNCHANGED <<mainVars, pgids, wtree, agentVars, files, tryVars, status>>

(* Otherwise it starts once more, without the artifacts of the first try.  *)
Retry(r) ==
  /\ work[r] = "silent"
  /\ stalls[r] = 1
  /\ json' = [json EXCEPT ![r] = 0]
  /\ valid' = [valid EXCEPT ![r] = FALSE]
  /\ meta' = [meta EXCEPT ![r] = 0]
  /\ Goes(r, "launch")
  /\ UNCHANGED <<mainVars, pgids, wtree, agentVars, tryVars, status>>

LostSession(r) == session[r] /\ code[r] = "no-session"

(* Mutant: the session that was not there is resumed again.                *)
FreshSessionKept(r) ==
  /\ work[r] = "ended"
  /\ LostSession(r)
  /\ Goes(r, "launch")
  /\ UNCHANGED <<mainVars, pgids, wtree, agentVars, files, tryVars, status>>

(* The session it was to resume is gone: once more without one.            *)
FreshSession(r) ==
  /\ work[r] = "ended"
  /\ LostSession(r)
  /\ session' = [session EXCEPT ![r] = FALSE]
  /\ Goes(r, "launch")
  /\ UNCHANGED <<mainVars, pgids, wtree, agentVars, files,
                 cause, kind, stalls, launches, status>>

NoOutput(r) == json[r] = 0 /\ meta[r] = 0 /\ r \notin GithubReviews /\ code[r] = "ok"

(* A review that exits well without any output is asked once for           *)
(* review-metadata.json, if its agent can be resumed.                      *)
AskForMetadata(r) ==
  /\ work[r] = "ended"
  /\ NoOutput(r)
  /\ kind' = [kind EXCEPT ![r] = "nudge"]
  /\ Goes(r, "launch")
  /\ UNCHANGED <<mainVars, pgids, wtree, agentVars, files,
                 cause, session, stalls, launches, status>>

Proceed(r) ==
  /\ work[r] = "ended"
  /\ ~LostSession(r)
  /\ Goes(r, "classify")
  /\ UNCHANGED <<mainVars, pgids, wtree, agentVars, files, tryVars, status>>

(* Only a review that exited well is asked, whatever became of the asking. *)
ExitedWell(r) == kind[r] = "nudge" \/ code[r] = "ok"

(* The result, from the exit status and what is in the worktree.  A        *)
(* findings file counts however the agent ended.                           *)
Verdict(r, s) ==
  \/ s = "findings"     /\ json[r] # 0 /\ valid[r]
  \/ s = "invalid-json" /\ json[r] # 0 /\ ~valid[r]
  \/ s = "clean"        /\ json[r] = 0 /\ ExitedWell(r) /\ meta[r] # 0
                        /\ r \notin GithubReviews
  \/ s = "failed"       /\ json[r] = 0
                        /\ (~ExitedWell(r) \/ meta[r] = 0 \/ r \in GithubReviews)

Classify(r) ==
  /\ work[r] = "classify"
  /\ \E s \in Statuses : Verdict(r, s) /\ Finished(r, s)
  /\ UNCHANGED <<mainVars, pgids, wtree, agentVars, files, tryVars>>

(* The worktrees rs are removed with everything in them.                   *)
Remove(rs) ==
  /\ wtree' = wtree \ rs
  /\ json' = [r \in Reviews |-> IF r \in rs THEN 0 ELSE json[r]]
  /\ meta' = [r \in Reviews |-> IF r \in rs THEN 0 ELSE meta[r]]
  /\ valid' = [r \in Reviews |-> IF r \in rs THEN FALSE ELSE valid[r]]

(* The worktree goes and the future has its result.  The variables of the  *)
(* review's calls are gone with them.                                      *)
CleanUp(r) ==
  /\ work[r] = "cleanup"
  /\ Remove({r})
  /\ Goes(r, "done")
  /\ agent' = [agent EXCEPT ![r] = "none"]
  /\ code' = [code EXCEPT ![r] = "none"]
  /\ cause' = [cause EXCEPT ![r] = "none"]
  /\ kind' = [kind EXCEPT ![r] = "review"]
  /\ session' = [session EXCEPT ![r] = FALSE]
  /\ stalls' = [stalls EXCEPT ![r] = 0]
  /\ UNCHANGED <<mainVars, pgids, launches, status>>

Work(r) ==
  \/ Take(r) \/ Launch(r) \/ LaunchFails(r) \/ Register(r) \/ Reap(r)
  \/ Overdue(r) \/ KillHard(r) \/ Stopped(r) \/ TimedOut(r) \/ Stall(r)
  \/ GiveUp(r) \/ Retry(r) \/ FreshSession(r) \/ AskForMetadata(r)
  \/ Proceed(r) \/ Classify(r) \/ CleanUp(r)

-----------------------------------------------------------------------------
(* The main thread: run_batch.                                             *)

Step(to) == main' = to

(* prepare_worktree, one change after the other.                           *)
Prepare ==
  /\ main = "prepare"
  /\ turn <= N
  /\ wtree' = wtree \cup {turn}
  /\ Goes(turn, "prepared")
  /\ turn' = turn + 1
  /\ UNCHANGED <<main, interrupts, results, saved, pgids, agentVars, files,
                 tryVars, status>>

(* Mutant: a review that could not be set up is not in the list.          *)
PrepareFailsUnlisted ==
  /\ main = "prepare"
  /\ turn <= N
  /\ status' = [status EXCEPT ![turn] = "failed"]
  /\ turn' = turn + 1
  /\ UNCHANGED <<main, interrupts, results, saved, work, pgids, wtree, agentVars,
                 files, tryVars>>

(* A change that cannot be fetched or checked out is a failed review.      *)
PrepareFails ==
  /\ main = "prepare"
  /\ turn <= N
  /\ status' = [status EXCEPT ![turn] = "failed"]
  /\ results' = [results EXCEPT ![turn] = @ + 1]
  /\ turn' = turn + 1
  /\ UNCHANGED <<main, interrupts, saved, work, pgids, wtree, agentVars, files,
                 tryVars>>

Submit ==
  /\ main = "prepare"
  /\ turn = N + 1
  /\ work' = [r \in Reviews |-> IF work[r] = "prepared" THEN "queued" ELSE work[r]]
  /\ Step(IF \E r \in Reviews : work[r] = "prepared" THEN "gather" ELSE "summary")
  /\ turn' = 1
  /\ UNCHANGED <<interrupts, results, saved, pgids, wtree, agentVars, files,
                 tryVars, status>>

(* for future in futures: results.append(future.result())                  *)
Gather ==
  /\ main = "gather"
  /\ turn <= N
  /\ work[turn] \in {"unprepared", "done"}
  /\ results' = IF work[turn] = "done" THEN [results EXCEPT ![turn] = @ + 1]
                                       ELSE results
  /\ turn' = turn + 1
  /\ UNCHANGED <<main, interrupts, saved, work, pgids, wtree, agentVars, files,
                 tryVars, status>>

AllGathered ==
  /\ main = "gather"
  /\ turn = N + 1
  /\ Step("cleanup")
  /\ UNCHANGED <<turn, interrupts, results, saved, work, pgids, wtree, agentVars,
                 files, tryVars, status>>

(* Ctrl+C while the worktrees are prepared: nothing catches it.            *)
(* Ctrl+C while the reviews run: its handler takes over.                   *)
(* Ctrl+C while the handler waits: the rest of the handler is skipped.     *)
(* One during the few statements between, or during the final cleanup, is  *)
(* left out.                                                               *)
Interrupt ==
  /\ interrupts < MaxInterrupts
  /\ interrupts' = interrupts + 1
  /\ \/ main = "prepare" /\ Step("exit")
     \/ main = "gather" /\ turn <= N /\ Step("term")
     \/ main \in {"grace", "join"} /\ Step("cleanup")
  /\ UNCHANGED <<turn, results, saved, work, pgids, wtree, agentVars, files,
                 tryVars, status>>

(* kill_running_reviews: SIGTERM to every group of the registry ...        *)
Terminate ==
  /\ main = "term"
  /\ Signalled(pgids)
  /\ Step(IF pgids = {} THEN "cancel" ELSE "grace")
  /\ UNCHANGED <<turn, interrupts, results, saved, work, pgids, wtree, code,
                 files, tryVars, status>>

(* ... until it is seen empty ...                                          *)
AllGone ==
  /\ main = "grace"
  /\ pgids = {}
  /\ Step("cancel")
  /\ UNCHANGED <<turn, interrupts, results, saved, work, pgids, wtree, agentVars,
                 files, tryVars, status>>

(* ... and SIGKILL to the ones in it when the grace period is over.        *)
KillSurvivors ==
  /\ main = "grace"
  /\ pgids # {}
  /\ Killed(pgids)
  /\ Step("cancel")
  /\ UNCHANGED <<turn, interrupts, results, saved, work, pgids, wtree, files,
                 tryVars, status>>

(* pool.shutdown(wait=True, cancel_futures=True)                           *)
CancelPending ==
  /\ main = "cancel"
  /\ work' = [r \in Reviews |-> IF work[r] = "queued" THEN "cancelled" ELSE work[r]]
  /\ Step("join")
  /\ UNCHANGED <<turn, interrupts, results, saved, pgids, wtree, agentVars, files,
                 tryVars, status>>

(* Mutant: the results that are already in the list go in again.           *)
CollectAgain ==
  /\ main = "join"
  /\ BusyWorkers = {}
  /\ results' = [r \in Reviews |-> IF work[r] = "done"
                                   THEN results[r] + 1 ELSE results[r]]
  /\ Step("cleanup")
  /\ UNCHANGED <<turn, interrupts, saved, work, pgids, wtree, agentVars, files,
                 tryVars, status>>

Collect ==
  /\ main = "join"
  /\ BusyWorkers = {}
  /\ results' = [r \in Reviews |-> IF work[r] = "done" /\ results[r] = 0
                                   THEN 1 ELSE results[r]]
  /\ Step("cleanup")
  /\ UNCHANGED <<turn, interrupts, saved, work, pgids, wtree, agentVars, files,
                 tryVars, status>>

(* Mutant: only the worktrees of reviews that have a result are removed.   *)
RemoveFinished ==
  /\ main = "cleanup"
  /\ Remove({r \in Reviews : work[r] = "done"})
  /\ Step("summary")
  /\ UNCHANGED <<turn, interrupts, results, saved, work, pgids, agentVars,
                 tryVars, status>>

(* The finally of the pool removes what the workers have left.             *)
RemoveWorktrees ==
  /\ main = "cleanup"
  /\ Remove({r \in Reviews : work[r] # "unprepared"})
  /\ Step("summary")
  /\ UNCHANGED <<turn, interrupts, results, saved, work, pgids, agentVars,
                 tryVars, status>>

(* update_summary; from here on the batch is a merge of ReviewManifest.    *)
SaveSummary ==
  /\ main = "summary"
  /\ saved' = {r \in Reviews : results[r] > 0}
  /\ Step("exit")
  /\ UNCHANGED <<turn, interrupts, results, work, pgids, wtree, agentVars, files,
                 tryVars, status>>

(* The interpreter joins the threads of every pool before it exits; what   *)
(* is still queued is run first.                                           *)
Exit ==
  /\ main = "exit"
  /\ \A r \in Reviews : work[r] \notin Busy \cup {"queued"}
  /\ Step("ended")
  /\ UNCHANGED <<turn, interrupts, results, saved, work, pgids, wtree, agentVars,
                 files, tryVars, status>>

Main ==
  \/ Prepare \/ PrepareFails \/ Submit \/ Gather \/ AllGathered \/ Terminate
  \/ AllGone \/ KillSurvivors \/ CancelPending \/ Collect \/ RemoveWorktrees
  \/ SaveSummary \/ Exit

Ended == main = "ended" /\ UNCHANGED vars

Next ==
  \/ Main
  \/ Interrupt
  \/ \E r \in Reviews : Work(r) \/ AgentExits(r) \/ WriteJson(r) \/ WriteMeta(r)
  \/ Ended

Spec == Init /\ [][Next]_vars

(* The threads of the run are scheduled, and every wait for an agent has a *)
(* timeout.  Nothing is asked of the agents, which need not ever exit, nor *)
(* of the user.                                                            *)
Fairness == WF_vars(Main) /\ \A r \in Reviews : WF_vars(Work(r))

FairSpec == Spec /\ Fairness

-----------------------------------------------------------------------------
(* Properties                                                              *)

(* Every agent that runs has a worker that will wait for it, the registry  *)
(* holds exactly the agents of the workers that have registered one, and   *)
(* there are never more of them than --jobs (_run_agent, run_batch).       *)
AgentsAreOwned ==
  /\ \A r \in Reviews : /\ agent[r] \in Running => work[r] \in HasAgent
                        /\ r \in pgids <=> work[r] \in Listed
  /\ Cardinality(BusyWorkers) <= Jobs

(* However a run ends once its reviews have been submitted, interrupted    *)
(* even twice, it leaves no agent and no worktree behind (the finally      *)
(* blocks of run_batch and _run_agent).                                    *)
NothingLeftBehind ==
  main = "ended" /\ (\A r \in Reviews : work[r] # "prepared")
    => wtree = {} /\ pgids = {} /\ \A r \in Reviews : agent[r] \notin Running

(* What update_summary is given, after at most one Ctrl+C: every review of *)
(* the batch once, whether it could be set up or not, except the cancelled *)
(* ones, and those never had an agent (run_batch).                         *)
ResultsComplete ==
  main = "summary" /\ interrupts <= 1 =>
    \A r \in Reviews :
      /\ results[r] = IF work[r] = "cancelled" THEN 0 ELSE 1
      /\ work[r] = "cancelled" => launches[r] = 0
      /\ results[r] = 1 => status[r] # "none"

(* Nothing a retry, a lost session and the question for the metadata do in *)
(* any combination starts more than four agents for one review             *)
(* (_run_review).                                                          *)
BoundedAgents == \A r \in Reviews : launches[r] <= 4

(* A verdict is only ever taken from what the last attempt wrote, never    *)
(* from the leftovers of one that stalled (_run_review, _remove_artifacts).*)
VerdictOfThisAttempt ==
  [][\A r \in Reviews : status[r] = "none" =>
       /\ status'[r] \in {"findings", "invalid-json"} => json[r] = Attempt(r)
       /\ status'[r] = "clean" => meta[r] = Attempt(r)]_vars

(* Liveness: the run comes to its end, even when no agent ever exits by    *)
(* itself or heeds a SIGTERM, and whatever Ctrl+C interrupts (_run_agent's *)
(* timeouts).                                                              *)
BatchEnds == <>(main = "ended")

(* What somebody who sees neither the threads nor the agents may count on. *)
UnderWay == {r \in Reviews : work[r] \in Busy /\ status[r] = "none"}

Pool == INSTANCE ReviewPool WITH
  None    <- "none",
  verdict <- status,
  running <- UnderWay,
  handed  <- saved,
  over    <- main \in {"exit", "ended"},
  pressed <- IF interrupts > 2 THEN 2 ELSE interrupts

(* The batch keeps the promise of ReviewPool: every review is refused or   *)
(* decided once, and what is handed to update_summary is all that was      *)
(* decided, unless a second Ctrl+C forced the end (run_batch).             *)
ImplementsPool == Pool!Spec

-----------------------------------------------------------------------------
(* The parts of the inductive invariants behind them.                      *)

Unstarted == {"unprepared", "prepared", "queued", "cancelled"}

(* Where a review can be while the main thread is at a given place.        *)
Lifecycle ==
  /\ \A r \in Reviews :
       /\ main = "prepare" => work[r] \in {"unprepared", "prepared"}
       /\ work[r] = "prepared" => main \in {"prepare", "exit", "ended"}
       /\ main = "ended" => work[r] \notin Busy \cup {"queued"}
       /\ work[r] = "unprepared" => r \notin wtree
  /\ (\A r \in Reviews : work[r] # "prepared") /\ main \in {"summary", "exit", "ended"}
       => wtree = {}

(* What the main thread has in its list, by where it is.                   *)
Progress ==
  \A r \in Reviews :
    /\ work[r] \in {"cleanup", "done"} => status[r] # "none"
    /\ work[r] \in Unstarted => launches[r] = 0
    /\ work[r] = "cancelled" => main \notin {"prepare", "gather", "term", "grace", "cancel"}
    /\ main = "prepare" =>
         /\ results[r] = IF r < turn /\ work[r] = "unprepared" THEN 1 ELSE 0
         /\ results[r] = 1 => status[r] # "none"
         /\ r >= turn => work[r] = "unprepared"
    /\ main \in {"gather", "term", "grace", "cancel", "join"} =>
         /\ work[r] = "unprepared" => results[r] = 1 /\ status[r] # "none"
         /\ work[r] # "unprepared" => results[r] \in {0, 1}
         /\ work[r] # "unprepared" /\ results[r] = 1 => work[r] = "done"
    /\ main = "gather" =>
         /\ work[r] # "unprepared" => results[r] = IF r < turn THEN 1 ELSE 0
    /\ main \in {"term", "grace", "cancel", "join"} => interrupts > 0
    /\ main = "join" => work[r] # "queued"
    /\ main \in {"cleanup", "summary"} /\ interrupts <= 1 =>
         /\ work[r] \in {"unprepared", "done", "cancelled"}
         /\ results[r] = IF work[r] = "cancelled" THEN 0 ELSE 1
         /\ results[r] = 1 => status[r] # "none"

(* A review has its status when it was decided, and not before; and after  *)
(* at most one Ctrl+C nothing goes on behind the end of the run.           *)
Outcomes ==
  \A r \in Reviews :
    /\ work[r] \in {"prepared", "queued", "cancelled"} \cup (Busy \ {"cleanup"})
         => status[r] = "none"
    /\ results[r] > 0 => status[r] # "none"
    /\ main = "prepare" /\ r >= turn => status[r] = "none"
    /\ work[r] = "cancelled" => interrupts > 0
    /\ main \in {"exit", "ended"} /\ interrupts <= 1 => work[r] \notin Busy \cup {"queued"}

(* Every agent after the first was paid for by a stall, by the session or  *)
(* by the question for the metadata.                                       *)
Paid(r) == stalls[r] + (IF session[r] THEN 0 ELSE 1)
                     + (IF kind[r] = "nudge" THEN 1 ELSE 0)

Budget ==
  \A r \in Reviews :
    /\ work[r] \in Unstarted => launches[r] = 0 /\ stalls[r] = 0 /\ kind[r] = "review"
    /\ work[r] \in {"ended", "overdue", "silent"} => kind[r] = "review"
    /\ work[r] \in HasAgent \cup {"launch", "ended", "overdue", "classify"} => stalls[r] <= 1
    /\ work[r] \in {"launch", "silent"} => launches[r] <= Paid(r)
    /\ work[r] \in HasAgent \cup {"ended", "overdue", "classify"} => launches[r] <= Paid(r) + 1
    /\ launches[r] <= 4

(* What lies in a worktree is of this attempt, until the attempt stalls.   *)
FreshArtifacts ==
  \A r \in Reviews :
    work[r] \notin {"silent", "cleanup", "done"} =>
      json[r] \in {0, Attempt(r)} /\ meta[r] \in {0, Attempt(r)}

-----------------------------------------------------------------------------
(* What the documentation says and the code does not do.                   *)

(* "Ctrl+C kills every running review the same way" (README): when the     *)
(* handler goes on to wait for the workers, no agent is left that has not  *)
(* been signalled.                                                         *)
InterruptKillsAll ==
  main = "join" => \A r \in Reviews : agent[r] # "alive"

(* "A run cleans up in a finally, so only a SIGKILL or a lost machine      *)
(* strands" a worktree (reap_orphan_worktrees): a run that comes to an end *)
(* has none.                                                               *)
OnlyAKillStrands == main = "ended" => wtree = {}

=============================================================================
