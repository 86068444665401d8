------------------------- MODULE ReviewBatch_proofs -------------------------
(* Proofs about ReviewBatch, for any number of reviews, workers and Ctrl+C.*)
EXTENDS ReviewBatch, FiniteSetTheorems, TLAPS

(* The invariants of ReviewBatch hold one another up: the types need the   *)
(* budget of stalls, the registry needs the life cycle, and so on.  Each   *)
(* lemma takes one of them over one step, action by action.                *)

(* The part of AgentsAreOwned that is about single reviews.                *)
Owned ==
  \A r \in Reviews : /\ agent[r] \in Running => work[r] \in HasAgent
                     /\ r \in pgids <=> work[r] \in Listed

LEMMA OwnedStep ==
  ASSUME TypeOK, Lifecycle, Owned, [Next]_vars
  PROVE  Owned'
  <1> USE DEF vars, mainVars, agentVars, files, tryVars, Goes, Step,
             TypeOK, Owned, Reviews, WorkState, Busy, HasAgent, Listed, Running, Statuses,
             Verdicts, MainState
  <1>1. ASSUME NEW r \in Reviews, Take(r) PROVE Owned'
    BY <1>1 DEF Take
  <1>2. ASSUME NEW r \in Reviews, Launch(r) PROVE Owned'
    BY <1>2 DEF Launch
  <1>3. ASSUME NEW r \in Reviews, LaunchFails(r) PROVE Owned'
    <2>1. CASE /\ work' = [work EXCEPT ![r] = "classify"]
               /\ status' = status
      BY <1>3, <2>1 DEF LaunchFails
    <2>2. CASE /\ work' = [work EXCEPT ![r] = "cleanup"]
               /\ status' = [status EXCEPT ![r] = "failed"]
               /\ kind[r] = "review"
      BY <1>3, <2>2 DEF LaunchFails
    <2> QED
      BY <1>3, <2>1, <2>2 DEF LaunchFails, Finished
  <1>4. ASSUME NEW r \in Reviews, Register(r) PROVE Owned'
    BY <1>4 DEF Register
  <1>5. ASSUME NEW r \in Reviews, Reap(r) PROVE Owned'
    BY <1>5 DEF Reap
  <1>6. ASSUME NEW r \in Reviews, Overdue(r) PROVE Owned'
    BY <1>6 DEF Overdue, Signalled
  <1>7. ASSUME NEW r \in Reviews, KillHard(r) PROVE Owned'
    BY <1>7 DEF KillHard, Killed
  <1>8. ASSUME NEW r \in Reviews, Stopped(r) PROVE Owned'
    BY <1>8 DEF Stopped
  <1>9. ASSUME NEW r \in Reviews, TimedOut(r) PROVE Owned'
    BY <1>9 DEF TimedOut, Finished
  <1>10. ASSUME NEW r \in Reviews, Stall(r) PROVE Owned'
    BY <1>10 DEF Stall
  <1>11. ASSUME NEW r \in Reviews, GiveUp(r) PROVE Owned'
    BY <1>11 DEF GiveUp, Finished
  <1>12. ASSUME NEW r \in Reviews, Retry(r) PROVE Owned'
    BY <1>12 DEF Retry
  <1>13. ASSUME NEW r \in Reviews, FreshSession(r) PROVE Owned'
    BY <1>13 DEF FreshSession, LostSession
  <1>14. ASSUME NEW r \in Reviews, AskForMetadata(r) PROVE Owned'
    BY <1>14 DEF AskForMetadata, NoOutput
  <1>15. ASSUME NEW r \in Reviews, Proceed(r) PROVE Owned'
    BY <1>15 DEF Proceed, LostSession
  <1>16. ASSUME NEW r \in Reviews, Classify(r) PROVE Owned'
    BY <1>16 DEF Classify, Finished, Verdict
  <1>17. ASSUME NEW r \in Reviews, CleanUp(r) PROVE Owned'
    BY <1>17 DEF CleanUp, Remove
  <1>18. ASSUME NEW r \in Reviews, AgentExits(r) PROVE Owned'
    <2>1. PICK c \in {"ok", "bad", "no-session"} : Exits(r, c)
      BY <1>18 DEF AgentExits
    <2> QED
      BY <2>1 DEF Exits
  <1>19. ASSUME NEW r \in Reviews, WriteJson(r) PROVE Owned'
    BY <1>19 DEF WriteJson
  <1>20. ASSUME NEW r \in Reviews, WriteMeta(r) PROVE Owned'
    BY <1>20 DEF WriteMeta
  <1>21. CASE Prepare
    BY <1>21, BatchAssumption DEF Prepare, Lifecycle
  <1>22. CASE PrepareFails
    BY <1>22 DEF PrepareFails
  <1>23. CASE Submit
    BY <1>23 DEF Submit
  <1>24. CASE Gather
    BY <1>24 DEF Gather
  <1>25. CASE AllGathered
    BY <1>25 DEF AllGathered
  <1>26. CASE Terminate
    BY <1>26 DEF Terminate, Signalled
  <1>27. CASE AllGone
    BY <1>27 DEF AllGone
  <1>28. CASE KillSurvivors
    BY <1>28 DEF KillSurvivors, Killed
  <1>29. CASE CancelPending
    BY <1>29 DEF CancelPending
  <1>30. CASE Collect
    BY <1>30 DEF Collect
  <1>31. CASE RemoveWorktrees
    BY <1>31 DEF RemoveWorktrees, Remove
  <1>32. CASE SaveSummary
    BY <1>32 DEF SaveSummary
  <1>33. CASE Exit
    BY <1>33 DEF Exit
  <1>34. CASE Interrupt
    BY <1>34 DEF Interrupt
  <1>35. CASE UNCHANGED vars
    BY <1>35
  <1> QED
    BY <1>1, <1>2, <1>3, <1>4, <1>5, <1>6, <1>7, <1>8, <1>9, <1>10, <1>11,
       <1>12, <1>13, <1>14, <1>15, <1>16, <1>17, <1>18, <1>19, <1>20, <1>21,
       <1>22, <1>23, <1>24, <1>25, <1>26, <1>27, <1>28, <1>29, <1>30, <1>31,
       <1>32, <1>33, <1>34, <1>35
    DEF Next, Main, Work, Ended

LEMMA TypeStep ==
  ASSUME TypeOK, AgentsAreOwned, Budget, [Next]_vars
  PROVE  TypeOK'
  <1> USE DEF vars, mainVars, agentVars, files, tryVars, Goes, Step,
             TypeOK, Reviews, WorkState, Busy, HasAgent, Statuses, Verdicts,
             MainState, Attempt
  <1>1. ASSUME NEW r \in Reviews, Take(r) PROVE TypeOK'
    BY <1>1 DEF Take
  <1>2. ASSUME NEW r \in Reviews, Launch(r) PROVE TypeOK'
    BY <1>2 DEF Launch
  <1>3. ASSUME NEW r \in Reviews, LaunchFails(r) PROVE TypeOK'
    BY <1>3 DEF LaunchFails, Finished
  <1>4. ASSUME NEW r \in Reviews, Register(r) PROVE TypeOK'
    BY <1>4 DEF Register
  <1>5. ASSUME NEW r \in Reviews, Reap(r) PROVE TypeOK'
    BY <1>5 DEF Reap
  <1>6. ASSUME NEW r \in Reviews, Overdue(r) PROVE TypeOK'
    BY <1>6 DEF Overdue, Signalled
  <1>7. ASSUME NEW r \in Reviews, KillHard(r) PROVE TypeOK'
    BY <1>7 DEF KillHard, Killed
  <1>8. ASSUME NEW r \in Reviews, Stopped(r) PROVE TypeOK'
    BY <1>8 DEF Stopped
  <1>9. ASSUME NEW r \in Reviews, TimedOut(r) PROVE TypeOK'
    BY <1>9 DEF TimedOut, Finished
  <1>10. ASSUME NEW r \in Reviews, Stall(r) PROVE TypeOK'
    <2>1. stalls[r] + 1 \in 0..2
      BY <1>10 DEF Stall, Budget
    <2> QED
      BY <1>10, <2>1 DEF Stall
  <1>11. ASSUME NEW r \in Reviews, GiveUp(r) PROVE TypeOK'
    BY <1>11 DEF GiveUp, Finished
  <1>12. ASSUME NEW r \in Reviews, Retry(r) PROVE TypeOK'
    BY <1>12 DEF Retry
  <1>13. ASSUME NEW r \in Reviews, FreshSession(r) PROVE TypeOK'
    BY <1>13 DEF FreshSession, LostSession
  <1>14. ASSUME NEW r \in Reviews, AskForMetadata(r) PROVE TypeOK'
    BY <1>14 DEF AskForMetadata, NoOutput
  <1>15. ASSUME NEW r \in Reviews, Proceed(r) PROVE TypeOK'
    BY <1>15 DEF Proceed, LostSession
  <1>16. ASSUME NEW r \in Reviews, Classify(r) PROVE TypeOK'
    BY <1>16 DEF Classify, Finished, Verdict
  <1>17. ASSUME NEW r \in Reviews, CleanUp(r) PROVE TypeOK'
    <2>1. PICK rs \in SUBSET Reviews : Remove(rs)
      BY <1>17 DEF CleanUp
    <2>2. valid' \in [Reviews -> BOOLEAN]
      BY <2>1 DEF Remove
    <2>3. wtree' \in SUBSET Reviews /\ json' \in [Reviews -> 0..2] /\ meta' \in [Reviews -> 0..2]
      BY <2>1 DEF Remove
    <2>4. agent' \in [Reviews -> {"none", "alive", "termed", "dead"}] /\ session' \in [Reviews -> BOOLEAN]
      BY <1>17 DEF CleanUp
    <2> QED
      BY <1>17, <2>2, <2>3, <2>4 DEF CleanUp
  <1>18. ASSUME NEW r \in Reviews, AgentExits(r) PROVE TypeOK'
    <2>1. PICK c \in {"ok", "bad", "no-session"} : Exits(r, c)
      BY <1>18 DEF AgentExits
    <2> QED
      BY <2>1 DEF Exits
  <1>19. ASSUME NEW r \in Reviews, WriteJson(r) PROVE TypeOK'
    BY <1>19 DEF WriteJson, AgentsAreOwned, Budget, Running
  <1>20. ASSUME NEW r \in Reviews, WriteMeta(r) PROVE TypeOK'
    BY <1>20 DEF WriteMeta, AgentsAreOwned, Budget, Running
  <1>21. CASE Prepare
    BY <1>21, BatchAssumption DEF Prepare
  <1>22. CASE PrepareFails
    BY <1>22, BatchAssumption DEF PrepareFails
  <1>23. CASE Submit
    BY <1>23, BatchAssumption DEF Submit
  <1>24. CASE Gather
    BY <1>24, BatchAssumption DEF Gather
  <1>25. CASE AllGathered
    BY <1>25 DEF AllGathered
  <1>26. CASE Terminate
    BY <1>26 DEF Terminate, Signalled
  <1>27. CASE AllGone
    BY <1>27 DEF AllGone
  <1>28. CASE KillSurvivors
    BY <1>28 DEF KillSurvivors, Killed
  <1>29. CASE CancelPending
    BY <1>29 DEF CancelPending
  <1>30. CASE Collect
    BY <1>30 DEF Collect
  <1>31. CASE RemoveWorktrees
    <2>1. PICK rs \in SUBSET Reviews : Remove(rs)
      BY <1>31 DEF RemoveWorktrees
    <2>2. valid' \in [Reviews -> BOOLEAN]
      BY <2>1 DEF Remove
    <2>3. wtree' \in SUBSET Reviews /\ json' \in [Reviews -> 0..2] /\ meta' \in [Reviews -> 0..2]
      BY <2>1 DEF Remove
    <2>4. agent' \in [Reviews -> {"none", "alive", "termed", "dead"}] /\ session' \in [Reviews -> BOOLEAN]
      BY <1>31 DEF RemoveWorktrees
    <2> QED
      BY <1>31, <2>2, <2>3, <2>4 DEF RemoveWorktrees
  <1>32. CASE SaveSummary
    BY <1>32 DEF SaveSummary
  <1>33. CASE Exit
    BY <1>33 DEF Exit
  <1>34. CASE Interrupt
    BY <1>34, BatchAssumption DEF Interrupt
  <1>35. CASE UNCHANGED vars
    BY <1>35
  <1> QED
    BY <1>1, <1>2, <1>3, <1>4, <1>5, <1>6, <1>7, <1>8, <1>9, <1>10, <1>11,
       <1>12, <1>13, <1>14, <1>15, <1>16, <1>17, <1>18, <1>19, <1>20, <1>21,
       <1>22, <1>23, <1>24, <1>25, <1>26, <1>27, <1>28, <1>29, <1>30, <1>31,
       <1>32, <1>33, <1>34, <1>35
    DEF Next, Main, Work, Ended

LEMMA LifecycleStep ==
  ASSUME TypeOK, Owned, Lifecycle, [Next]_vars
  PROVE  Lifecycle'
  <1> USE DEF vars, mainVars, agentVars, files, tryVars, Goes, Step,
             TypeOK, Lifecycle, Reviews, WorkState, Busy, HasAgent, Listed, Running, Statuses,
             Verdicts, MainState
  <1>1. ASSUME NEW r \in Reviews, Take(r) PROVE Lifecycle'
    BY <1>1 DEF Take
  <1>2. ASSUME NEW r \in Reviews, Launch(r) PROVE Lifecycle'
    BY <1>2 DEF Launch
  <1>3. ASSUME NEW r \in Reviews, LaunchFails(r) PROVE Lifecycle'
    <2>1. CASE /\ work' = [work EXCEPT ![r] = "classify"]
               /\ status' = status
      BY <1>3, <2>1 DEF LaunchFails
    <2>2. CASE /\ work' = [work EXCEPT ![r] = "cleanup"]
               /\ status' = [status EXCEPT ![r] = "failed"]
               /\ kind[r] = "review"
      BY <1>3, <2>2 DEF LaunchFails
    <2> QED
      BY <1>3, <2>1, <2>2 DEF LaunchFails, Finished
  <1>4. ASSUME NEW r \in Reviews, Register(r) PROVE Lifecycle'
    BY <1>4 DEF Register
  <1>5. ASSUME NEW r \in Reviews, Reap(r) PROVE Lifecycle'
    BY <1>5 DEF Reap
  <1>6. ASSUME NEW r \in Reviews, Overdue(r) PROVE Lifecycle'
    BY <1>6 DEF Overdue, Signalled
  <1>7. ASSUME NEW r \in Reviews, KillHard(r) PROVE Lifecycle'
    BY <1>7 DEF KillHard, Killed
  <1>8. ASSUME NEW r \in Reviews, Stopped(r) PROVE Lifecycle'
    BY <1>8 DEF Stopped
  <1>9. ASSUME NEW r \in Reviews, TimedOut(r) PROVE Lifecycle'
    BY <1>9 DEF TimedOut, Finished
  <1>10. ASSUME NEW r \in Reviews, Stall(r) PROVE Lifecycle'
    BY <1>10 DEF Stall
  <1>11. ASSUME NEW r \in Reviews, GiveUp(r) PROVE Lifecycle'
    BY <1>11 DEF GiveUp, Finished
  <1>12. ASSUME NEW r \in Reviews, Retry(r) PROVE Lifecycle'
    BY <1>12 DEF Retry
  <1>13. ASSUME NEW r \in Reviews, FreshSession(r) PROVE Lifecycle'
    BY <1>13 DEF FreshSession, LostSession
  <1>14. ASSUME NEW r \in Reviews, AskForMetadata(r) PROVE Lifecycle'
    BY <1>14 DEF AskForMetadata, NoOutput
  <1>15. ASSUME NEW r \in Reviews, Proceed(r) PROVE Lifecycle'
    BY <1>15 DEF Proceed, LostSession
  <1>16. ASSUME NEW r \in Reviews, Classify(r) PROVE Lifecycle'
    BY <1>16 DEF Classify, Finished, Verdict
  <1>17. ASSUME NEW r \in Reviews, CleanUp(r) PROVE Lifecycle'
    BY <1>17 DEF CleanUp, Remove
  <1>18. ASSUME NEW r \in Reviews, AgentExits(r) PROVE Lifecycle'
    <2>1. PICK c \in {"ok", "bad", "no-session"} : Exits(r, c)
      BY <1>18 DEF AgentExits
    <2> QED
      BY <2>1 DEF Exits
  <1>19. ASSUME NEW r \in Reviews, WriteJson(r) PROVE Lifecycle'
    BY <1>19 DEF WriteJson
  <1>20. ASSUME NEW r \in Reviews, WriteMeta(r) PROVE Lifecycle'
    BY <1>20 DEF WriteMeta
  <1>21. CASE Prepare
    BY <1>21 DEF Prepare
  <1>22. CASE PrepareFails
    BY <1>22 DEF PrepareFails
  <1>23. CASE Submit
    BY <1>23 DEF Submit
  <1>24. CASE Gather
    BY <1>24 DEF Gather
  <1>25. CASE AllGathered
    BY <1>25 DEF AllGathered
  <1>26. CASE Terminate
    BY <1>26 DEF Terminate, Signalled
  <1>27. CASE AllGone
    BY <1>27 DEF AllGone
  <1>28. CASE KillSurvivors
    BY <1>28 DEF KillSurvivors, Killed
  <1>29. CASE CancelPending
    BY <1>29 DEF CancelPending
  <1>30. CASE Collect
    BY <1>30 DEF Collect
  <1>31. CASE RemoveWorktrees
    BY <1>31 DEF RemoveWorktrees, Remove
  <1>32. CASE SaveSummary
    BY <1>32 DEF SaveSummary
  <1>33. CASE Exit
    BY <1>33 DEF Exit
  <1>34. CASE Interrupt
    BY <1>34 DEF Interrupt
  <1>35. CASE UNCHANGED vars
    BY <1>35
  <1> QED
    BY <1>1, <1>2, <1>3, <1>4, <1>5, <1>6, <1>7, <1>8, <1>9, <1>10, <1>11,
       <1>12, <1>13, <1>14, <1>15, <1>16, <1>17, <1>18, <1>19, <1>20, <1>21,
       <1>22, <1>23, <1>24, <1>25, <1>26, <1>27, <1>28, <1>29, <1>30, <1>31,
       <1>32, <1>33, <1>34, <1>35
    DEF Next, Main, Work, Ended

LEMMA ProgressStep ==
  ASSUME TypeOK, Lifecycle, Progress, [Next]_vars
  PROVE  Progress'
  <1> USE DEF vars, mainVars, agentVars, files, tryVars, Goes, Step,
             TypeOK, Lifecycle, Progress, Unstarted,
             Reviews, WorkState, Busy, HasAgent, Listed, Running, Statuses,
             Verdicts, MainState
  <1>1. ASSUME NEW r \in Reviews, Take(r) PROVE Progress'
    BY <1>1 DEF Take
  <1>2. ASSUME NEW r \in Reviews, Launch(r) PROVE Progress'
    BY <1>2 DEF Launch
  <1>3. ASSUME NEW r \in Reviews, LaunchFails(r) PROVE Progress'
    <2>1. CASE /\ work' = [work EXCEPT ![r] = "classify"]
               /\ status' = status
      BY <1>3, <2>1 DEF LaunchFails
    <2>2. CASE /\ work' = [work EXCEPT ![r] = "cleanup"]
               /\ status' = [status EXCEPT ![r] = "failed"]
               /\ kind[r] = "review"
      BY <1>3, <2>2 DEF LaunchFails
    <2> QED
      BY <1>3, <2>1, <2>2 DEF LaunchFails, Finished
  <1>4. ASSUME NEW r \in Reviews, Register(r) PROVE Progress'
    BY <1>4 DEF Register
  <1>5. ASSUME NEW r \in Reviews, Reap(r) PROVE Progress'
    BY <1>5 DEF Reap
  <1>6. ASSUME NEW r \in Reviews, Overdue(r) PROVE Progress'
    BY <1>6 DEF Overdue, Signalled
  <1>7. ASSUME NEW r \in Reviews, KillHard(r) PROVE Progress'
    BY <1>7 DEF KillHard, Killed
  <1>8. ASSUME NEW r \in Reviews, Stopped(r) PROVE Progress'
    BY <1>8 DEF Stopped
  <1>9. ASSUME NEW r \in Reviews, TimedOut(r) PROVE Progress'
    BY <1>9 DEF TimedOut, Finished
  <1>10. ASSUME NEW r \in Reviews, Stall(r) PROVE Progress'
    BY <1>10 DEF Stall
  <1>11. ASSUME NEW r \in Reviews, GiveUp(r) PROVE Progress'
    BY <1>11 DEF GiveUp, Finished
  <1>12. ASSUME NEW r \in Reviews, Retry(r) PROVE Progress'
    BY <1>12 DEF Retry
  <1>13. ASSUME NEW r \in Reviews, FreshSession(r) PROVE Progress'
    BY <1>13 DEF FreshSession, LostSession
  <1>14. ASSUME NEW r \in Reviews, AskForMetadata(r) PROVE Progress'
    BY <1>14 DEF AskForMetadata, NoOutput
  <1>15. ASSUME NEW r \in Reviews, Proceed(r) PROVE Progress'
    BY <1>15 DEF Proceed, LostSession
  <1>16. ASSUME NEW r \in Reviews, Classify(r) PROVE Progress'
    BY <1>16 DEF Classify, Finished, Verdict
  <1>17. ASSUME NEW r \in Reviews, CleanUp(r) PROVE Progress'
    BY <1>17 DEF CleanUp, Remove
  <1>18. ASSUME NEW r \in Reviews, AgentExits(r) PROVE Progress'
    <2>1. PICK c \in {"ok", "bad", "no-session"} : Exits(r, c)
      BY <1>18 DEF AgentExits
    <2> QED
      BY <2>1 DEF Exits
  <1>19. ASSUME NEW r \in Reviews, WriteJson(r) PROVE Progress'
    BY <1>19 DEF WriteJson
  <1>20. ASSUME NEW r \in Reviews, WriteMeta(r) PROVE Progress'
    BY <1>20 DEF WriteMeta
  <1>21. CASE Prepare
    BY <1>21 DEF Prepare
  <1>22. CASE PrepareFails
    BY <1>22 DEF PrepareFails
  <1>23. CASE Submit
    BY <1>23, BatchAssumption DEF Submit
  <1>24. CASE Gather
    BY <1>24 DEF Gather
  <1>25. CASE AllGathered
    BY <1>25, BatchAssumption DEF AllGathered
  <1>26. CASE Terminate
    BY <1>26 DEF Terminate, Signalled
  <1>27. CASE AllGone
    BY <1>27 DEF AllGone
  <1>28. CASE KillSurvivors
    BY <1>28 DEF KillSurvivors, Killed
  <1>29. CASE CancelPending
    BY <1>29 DEF CancelPending
  <1>30. CASE Collect
    <2>1. \A r \in Reviews : work[r] \in {"unprepared", "done", "cancelled"}
      BY <1>30 DEF Collect, BusyWorkers
    <2> QED
      BY <1>30, <2>1 DEF Collect
  <1>31. CASE RemoveWorktrees
    BY <1>31 DEF RemoveWorktrees, Remove
  <1>32. CASE SaveSummary
    BY <1>32 DEF SaveSummary
  <1>33. CASE Exit
    BY <1>33 DEF Exit
  <1>34. CASE Interrupt
    BY <1>34 DEF Interrupt
  <1>35. CASE UNCHANGED vars
    BY <1>35
  <1> QED
    BY <1>1, <1>2, <1>3, <1>4, <1>5, <1>6, <1>7, <1>8, <1>9, <1>10, <1>11,
       <1>12, <1>13, <1>14, <1>15, <1>16, <1>17, <1>18, <1>19, <1>20, <1>21,
       <1>22, <1>23, <1>24, <1>25, <1>26, <1>27, <1>28, <1>29, <1>30, <1>31,
       <1>32, <1>33, <1>34, <1>35
    DEF Next, Main, Work, Ended

LEMMA OutcomesStep ==
  ASSUME TypeOK, Lifecycle, Progress, Outcomes, [Next]_vars
  PROVE  Outcomes'
  <1> USE DEF vars, mainVars, agentVars, files, tryVars, Goes, Step,
             TypeOK, Lifecycle, Progress, Outcomes, Unstarted,
             Reviews, WorkState, Busy, HasAgent, Listed, Running, Statuses,
             Verdicts, MainState
  <1>1. ASSUME NEW r \in Reviews, Take(r) PROVE Outcomes'
    BY <1>1 DEF Take
  <1>2. ASSUME NEW r \in Reviews, Launch(r) PROVE Outcomes'
    BY <1>2 DEF Launch
  <1>3. ASSUME NEW r \in Reviews, LaunchFails(r) PROVE Outcomes'
    <2>1. CASE /\ work' = [work EXCEPT ![r] = "classify"]
               /\ status' = status
      BY <1>3, <2>1 DEF LaunchFails
    <2>2. CASE /\ work' = [work EXCEPT ![r] = "cleanup"]
               /\ status' = [status EXCEPT ![r] = "failed"]
               /\ kind[r] = "review"
      BY <1>3, <2>2 DEF LaunchFails
    <2> QED
      BY <1>3, <2>1, <2>2 DEF LaunchFails, Finished
  <1>4. ASSUME NEW r \in Reviews, Register(r) PROVE Outcomes'
    BY <1>4 DEF Register
  <1>5. ASSUME NEW r \in Reviews, Reap(r) PROVE Outcomes'
    BY <1>5 DEF Reap
  <1>6. ASSUME NEW r \in Reviews, Overdue(r) PROVE Outcomes'
    BY <1>6 DEF Overdue, Signalled
  <1>7. ASSUME NEW r \in Reviews, KillHard(r) PROVE Outcomes'
    BY <1>7 DEF KillHard, Killed
  <1>8. ASSUME NEW r \in Reviews, Stopped(r) PROVE Outcomes'
    BY <1>8 DEF Stopped
  <1>9. ASSUME NEW r \in Reviews, TimedOut(r) PROVE Outcomes'
    BY <1>9 DEF TimedOut, Finished
  <1>10. ASSUME NEW r \in Reviews, Stall(r) PROVE Outcomes'
    BY <1>10 DEF Stall
  <1>11. ASSUME NEW r \in Reviews, GiveUp(r) PROVE Outcomes'
    BY <1>11 DEF GiveUp, Finished
  <1>12. ASSUME NEW r \in Reviews, Retry(r) PROVE Outcomes'
    BY <1>12 DEF Retry
  <1>13. ASSUME NEW r \in Reviews, FreshSession(r) PROVE Outcomes'
    BY <1>13 DEF FreshSession, LostSession
  <1>14. ASSUME NEW r \in Reviews, AskForMetadata(r) PROVE Outcomes'
    BY <1>14 DEF AskForMetadata, NoOutput
  <1>15. ASSUME NEW r \in Reviews, Proceed(r) PROVE Outcomes'
    BY <1>15 DEF Proceed, LostSession
  <1>16. ASSUME NEW r \in Reviews, Classify(r) PROVE Outcomes'
    BY <1>16 DEF Classify, Finished, Verdict
  <1>17. ASSUME NEW r \in Reviews, CleanUp(r) PROVE Outcomes'
    BY <1>17 DEF CleanUp, Remove
  <1>18. ASSUME NEW r \in Reviews, AgentExits(r) PROVE Outcomes'
    <2>1. PICK c \in {"ok", "bad", "no-session"} : Exits(r, c)
      BY <1>18 DEF AgentExits
    <2> QED
      BY <2>1 DEF Exits
  <1>19. ASSUME NEW r \in Reviews, WriteJson(r) PROVE Outcomes'
    BY <1>19 DEF WriteJson
  <1>20. ASSUME NEW r \in Reviews, WriteMeta(r) PROVE Outcomes'
    BY <1>20 DEF WriteMeta
  <1>21. CASE Prepare
    BY <1>21 DEF Prepare
  <1>22. CASE PrepareFails
    BY <1>22 DEF PrepareFails
  <1>23. CASE Submit
    BY <1>23, BatchAssumption DEF Submit
  <1>24. CASE Gather
    BY <1>24 DEF Gather
  <1>25. CASE AllGathered
    BY <1>25, BatchAssumption DEF AllGathered
  <1>26. CASE Terminate
    BY <1>26 DEF Terminate, Signalled
  <1>27. CASE AllGone
    BY <1>27 DEF AllGone
  <1>28. CASE KillSurvivors
    BY <1>28 DEF KillSurvivors, Killed
  <1>29. CASE CancelPending
    BY <1>29 DEF CancelPending
  <1>30. CASE Collect
    <2>1. \A r \in Reviews : work[r] \in {"unprepared", "done", "cancelled"}
      BY <1>30 DEF Collect, BusyWorkers
    <2> QED
      BY <1>30, <2>1 DEF Collect
  <1>31. CASE RemoveWorktrees
    BY <1>31 DEF RemoveWorktrees, Remove
  <1>32. CASE SaveSummary
    BY <1>32 DEF SaveSummary
  <1>33. CASE Exit
    BY <1>33 DEF Exit
  <1>34. CASE Interrupt
    BY <1>34 DEF Interrupt
  <1>35. CASE UNCHANGED vars
    BY <1>35
  <1> QED
    BY <1>1, <1>2, <1>3, <1>4, <1>5, <1>6, <1>7, <1>8, <1>9, <1>10, <1>11,
       <1>12, <1>13, <1>14, <1>15, <1>16, <1>17, <1>18, <1>19, <1>20, <1>21,
       <1>22, <1>23, <1>24, <1>25, <1>26, <1>27, <1>28, <1>29, <1>30, <1>31,
       <1>32, <1>33, <1>34, <1>35
    DEF Next, Main, Work, Ended

LEMMA BudgetStep ==
  ASSUME TypeOK, Lifecycle, Budget, [Next]_vars
  PROVE  Budget'
  <1> USE DEF vars, mainVars, agentVars, files, tryVars, Goes, Step,
             TypeOK, Budget, Unstarted, Paid,
             Reviews, WorkState, Busy, HasAgent, Listed, Running, Statuses,
             Verdicts, MainState
  <1>1. ASSUME NEW r \in Reviews, Take(r) PROVE Budget'
    BY <1>1 DEF Take
  <1>2. ASSUME NEW r \in Reviews, Launch(r) PROVE Budget'
    BY <1>2 DEF Launch
  <1>3. ASSUME NEW r \in Reviews, LaunchFails(r) PROVE Budget'
    <2>1. CASE /\ work' = [work EXCEPT ![r] = "classify"]
               /\ status' = status
      BY <1>3, <2>1 DEF LaunchFails
    <2>2. CASE /\ work' = [work EXCEPT ![r] = "cleanup"]
               /\ status' = [status EXCEPT ![r] = "failed"]
               /\ kind[r] = "review"
      BY <1>3, <2>2 DEF LaunchFails
    <2> QED
      BY <1>3, <2>1, <2>2 DEF LaunchFails, Finished
  <1>4. ASSUME NEW r \in Reviews, Register(r) PROVE Budget'
    BY <1>4 DEF Register
  <1>5. ASSUME NEW r \in Reviews, Reap(r) PROVE Budget'
    BY <1>5 DEF Reap
  <1>6. ASSUME NEW r \in Reviews, Overdue(r) PROVE Budget'
    BY <1>6 DEF Overdue, Signalled
  <1>7. ASSUME NEW r \in Reviews, KillHard(r) PROVE Budget'
    BY <1>7 DEF KillHard, Killed
  <1>8. ASSUME NEW r \in Reviews, Stopped(r) PROVE Budget'
    BY <1>8 DEF Stopped
  <1>9. ASSUME NEW r \in Reviews, TimedOut(r) PROVE Budget'
    BY <1>9 DEF TimedOut, Finished
  <1>10. ASSUME NEW r \in Reviews, Stall(r) PROVE Budget'
    BY <1>10 DEF Stall
  <1>11. ASSUME NEW r \in Reviews, GiveUp(r) PROVE Budget'
    BY <1>11 DEF GiveUp, Finished
  <1>12. ASSUME NEW r \in Reviews, Retry(r) PROVE Budget'
    BY <1>12 DEF Retry
  <1>13. ASSUME NEW r \in Reviews, FreshSession(r) PROVE Budget'
    BY <1>13 DEF FreshSession, LostSession
  <1>14. ASSUME NEW r \in Reviews, AskForMetadata(r) PROVE Budget'
    BY <1>14 DEF AskForMetadata, NoOutput
  <1>15. ASSUME NEW r \in Reviews, Proceed(r) PROVE Budget'
    BY <1>15 DEF Proceed, LostSession
  <1>16. ASSUME NEW r \in Reviews, Classify(r) PROVE Budget'
    BY <1>16 DEF Classify, Finished, Verdict
  <1>17. ASSUME NEW r \in Reviews, CleanUp(r) PROVE Budget'
    BY <1>17 DEF CleanUp, Remove
  <1>18. ASSUME NEW r \in Reviews, AgentExits(r) PROVE Budget'
    <2>1. PICK c \in {"ok", "bad", "no-session"} : Exits(r, c)
      BY <1>18 DEF AgentExits
    <2> QED
      BY <2>1 DEF Exits
  <1>19. ASSUME NEW r \in Reviews, WriteJson(r) PROVE Budget'
    BY <1>19 DEF WriteJson
  <1>20. ASSUME NEW r \in Reviews, WriteMeta(r) PROVE Budget'
    BY <1>20 DEF WriteMeta
  <1>21. CASE Prepare
    BY <1>21, BatchAssumption DEF Prepare, Lifecycle
  <1>22. CASE PrepareFails
    BY <1>22 DEF PrepareFails
  <1>23. CASE Submit
    BY <1>23 DEF Submit
  <1>24. CASE Gather
    BY <1>24 DEF Gather
  <1>25. CASE AllGathered
    BY <1>25 DEF AllGathered
  <1>26. CASE Terminate
    BY <1>26 DEF Terminate, Signalled
  <1>27. CASE AllGone
    BY <1>27 DEF AllGone
  <1>28. CASE KillSurvivors
    BY <1>28 DEF KillSurvivors, Killed
  <1>29. CASE CancelPending
    BY <1>29 DEF CancelPending
  <1>30. CASE Collect
    BY <1>30 DEF Collect
  <1>31. CASE RemoveWorktrees
    BY <1>31 DEF RemoveWorktrees, Remove
  <1>32. CASE SaveSummary
    BY <1>32 DEF SaveSummary
  <1>33. CASE Exit
    BY <1>33 DEF Exit
  <1>34. CASE Interrupt
    BY <1>34 DEF Interrupt
  <1>35. CASE UNCHANGED vars
    BY <1>35
  <1> QED
    BY <1>1, <1>2, <1>3, <1>4, <1>5, <1>6, <1>7, <1>8, <1>9, <1>10, <1>11,
       <1>12, <1>13, <1>14, <1>15, <1>16, <1>17, <1>18, <1>19, <1>20, <1>21,
       <1>22, <1>23, <1>24, <1>25, <1>26, <1>27, <1>28, <1>29, <1>30, <1>31,
       <1>32, <1>33, <1>34, <1>35
    DEF Next, Main, Work, Ended

LEMMA FreshStep ==
  ASSUME TypeOK, Lifecycle, Owned, FreshArtifacts, [Next]_vars
  PROVE  FreshArtifacts'
  <1> USE DEF vars, mainVars, agentVars, files, tryVars, Goes, Step,
             TypeOK, Owned, FreshArtifacts, Attempt,
             Reviews, WorkState, Busy, HasAgent, Listed, Running, Statuses,
             Verdicts, MainState
  <1>1. ASSUME NEW r \in Reviews, Take(r) PROVE FreshArtifacts'
    BY <1>1 DEF Take
  <1>2. ASSUME NEW r \in Reviews, Launch(r) PROVE FreshArtifacts'
    BY <1>2 DEF Launch
  <1>3. ASSUME NEW r \in Reviews, LaunchFails(r) PROVE FreshArtifacts'
    <2>1. CASE /\ work' = [work EXCEPT ![r] = "classify"]
               /\ status' = status
      BY <1>3, <2>1 DEF LaunchFails
    <2>2. CASE /\ work' = [work EXCEPT ![r] = "cleanup"]
               /\ status' = [status EXCEPT ![r] = "failed"]
               /\ kind[r] = "review"
      BY <1>3, <2>2 DEF LaunchFails
    <2> QED
      BY <1>3, <2>1, <2>2 DEF LaunchFails, Finished
  <1>4. ASSUME NEW r \in Reviews, Register(r) PROVE FreshArtifacts'
    BY <1>4 DEF Register
  <1>5. ASSUME NEW r \in Reviews, Reap(r) PROVE FreshArtifacts'
    BY <1>5 DEF Reap
  <1>6. ASSUME NEW r \in Reviews, Overdue(r) PROVE FreshArtifacts'
    BY <1>6 DEF Overdue, Signalled
  <1>7. ASSUME NEW r \in Reviews, KillHard(r) PROVE FreshArtifacts'
    BY <1>7 DEF KillHard, Killed
  <1>8. ASSUME NEW r \in Reviews, Stopped(r) PROVE FreshArtifacts'
    BY <1>8 DEF Stopped
  <1>9. ASSUME NEW r \in Reviews, TimedOut(r) PROVE FreshArtifacts'
    BY <1>9 DEF TimedOut, Finished
  <1>10. ASSUME NEW r \in Reviews, Stall(r) PROVE FreshArtifacts'
    BY <1>10 DEF Stall
  <1>11. ASSUME NEW r \in Reviews, GiveUp(r) PROVE FreshArtifacts'
    BY <1>11 DEF GiveUp, Finished
  <1>12. ASSUME NEW r \in Reviews, Retry(r) PROVE FreshArtifacts'
    BY <1>12 DEF Retry
  <1>13. ASSUME NEW r \in Reviews, FreshSession(r) PROVE FreshArtifacts'
    BY <1>13 DEF FreshSession, LostSession
  <1>14. ASSUME NEW r \in Reviews, AskForMetadata(r) PROVE FreshArtifacts'
    BY <1>14 DEF AskForMetadata, NoOutput
  <1>15. ASSUME NEW r \in Reviews, Proceed(r) PROVE FreshArtifacts'
    BY <1>15 DEF Proceed, LostSession
  <1>16. ASSUME NEW r \in Reviews, Classify(r) PROVE FreshArtifacts'
    BY <1>16 DEF Classify, Finished, Verdict
  <1>17. ASSUME NEW r \in Reviews, CleanUp(r) PROVE FreshArtifacts'
    BY <1>17 DEF CleanUp, Remove
  <1>18. ASSUME NEW r \in Reviews, AgentExits(r) PROVE FreshArtifacts'
    <2>1. PICK c \in {"ok", "bad", "no-session"} : Exits(r, c)
      BY <1>18 DEF AgentExits
    <2> QED
      BY <2>1 DEF Exits
  <1>19. ASSUME NEW r \in Reviews, WriteJson(r) PROVE FreshArtifacts'
    BY <1>19 DEF WriteJson
  <1>20. ASSUME NEW r \in Reviews, WriteMeta(r) PROVE FreshArtifacts'
    BY <1>20 DEF WriteMeta
  <1>21. CASE Prepare
    BY <1>21, BatchAssumption DEF Prepare, Lifecycle
  <1>22. CASE PrepareFails
    BY <1>22 DEF PrepareFails
  <1>23. CASE Submit
    BY <1>23 DEF Submit
  <1>24. CASE Gather
    BY <1>24 DEF Gather
  <1>25. CASE AllGathered
    BY <1>25 DEF AllGathered
  <1>26. CASE Terminate
    BY <1>26 DEF Terminate, Signalled
  <1>27. CASE AllGone
    BY <1>27 DEF AllGone
  <1>28. CASE KillSurvivors
    BY <1>28 DEF KillSurvivors, Killed
  <1>29. CASE CancelPending
    BY <1>29 DEF CancelPending
  <1>30. CASE Collect
    BY <1>30 DEF Collect
  <1>31. CASE RemoveWorktrees
    BY <1>31 DEF RemoveWorktrees, Remove
  <1>32. CASE SaveSummary
    BY <1>32 DEF SaveSummary
  <1>33. CASE Exit
    BY <1>33 DEF Exit
  <1>34. CASE Interrupt
    BY <1>34 DEF Interrupt
  <1>35. CASE UNCHANGED vars
    BY <1>35
  <1> QED
    BY <1>1, <1>2, <1>3, <1>4, <1>5, <1>6, <1>7, <1>8, <1>9, <1>10, <1>11,
       <1>12, <1>13, <1>14, <1>15, <1>16, <1>17, <1>18, <1>19, <1>20, <1>21,
       <1>22, <1>23, <1>24, <1>25, <1>26, <1>27, <1>28, <1>29, <1>30, <1>31,
       <1>32, <1>33, <1>34, <1>35
    DEF Next, Main, Work, Ended

LEMMA BusyFinite ==
  /\ IsFiniteSet(BusyWorkers) /\ Cardinality(BusyWorkers) \in Nat
  /\ IsFiniteSet(BusyWorkers') /\ Cardinality(BusyWorkers') \in Nat
  <1>1. IsFiniteSet(1..N)
    BY FS_Interval, BatchAssumption
  <1>2. BusyWorkers \subseteq 1..N /\ BusyWorkers' \subseteq 1..N
    BY DEF BusyWorkers, Reviews
  <1>3. IsFiniteSet(BusyWorkers) /\ IsFiniteSet(BusyWorkers')
    BY <1>1, <1>2, FS_Subset
  <1> QED
    BY <1>3, FS_CardinalityType

(* A worker that goes on is a busy one, except when it takes a review.     *)
LEMMA WorkerIsBusy ==
  ASSUME TypeOK, NEW r \in Reviews, Work(r), ~Take(r)
  PROVE  /\ work[r] \in Busy
         /\ \A q \in Reviews : q # r => work'[q] = work[q]
  BY DEF Work, Launch, LaunchFails, Register, Reap, Overdue, KillHard, Stopped,
     TimedOut, Stall, GiveUp, Retry, FreshSession, AskForMetadata, Proceed,
     Classify, CleanUp, Goes, Finished, TypeOK, Busy, HasAgent

LEMMA BusyShrinks ==
  ASSUME TypeOK, Lifecycle, [Next]_vars, \A r \in Reviews : ~Take(r)
  PROVE  BusyWorkers' \subseteq BusyWorkers
  <1> USE DEF BusyWorkers, vars, mainVars
  <1>1. ASSUME NEW r \in Reviews, Work(r) PROVE BusyWorkers' \subseteq BusyWorkers
    BY <1>1, WorkerIsBusy
  <1>2. CASE Prepare
    BY <1>2, BatchAssumption DEF Prepare, Goes, TypeOK, Reviews, Busy, HasAgent
  <1>3. CASE Submit \/ CancelPending
    BY <1>3 DEF Submit, CancelPending, TypeOK, Busy, HasAgent
  <1>4. CASE UNCHANGED work
    BY <1>4
  <1> QED
    BY <1>1, <1>2, <1>3, <1>4
    DEF Next, Main, Ended, PrepareFails, Gather, AllGathered, Terminate, AllGone,
        KillSurvivors, Collect, RemoveWorktrees, SaveSummary, Exit, Interrupt,
        AgentExits, Exits, WriteJson, WriteMeta

WithinJobs == Cardinality(BusyWorkers) <= Jobs

LEMMA WithinJobsStep ==
  ASSUME TypeOK, Lifecycle, WithinJobs, [Next]_vars
  PROVE  WithinJobs'
  <1>1. ASSUME NEW r \in Reviews, Take(r) PROVE WithinJobs'
    <2>1. BusyWorkers' = BusyWorkers \cup {r} /\ r \notin BusyWorkers
      BY <1>1 DEF Take, Goes, BusyWorkers, TypeOK, Busy, HasAgent
    <2>2. Cardinality(BusyWorkers') = Cardinality(BusyWorkers) + 1
      BY <2>1, BusyFinite, FS_AddElement
    <2> QED
      BY <1>1, <2>2, BusyFinite, BatchAssumption DEF Take, WithinJobs
  <1>2. CASE \A r \in Reviews : ~Take(r)
    <2>1. Cardinality(BusyWorkers') <= Cardinality(BusyWorkers)
      BY <1>2, BusyShrinks, BusyFinite, FS_Subset
    <2> QED
      BY <2>1, BusyFinite, BatchAssumption DEF WithinJobs
  <1> QED
    BY <1>1, <1>2

BInv == /\ TypeOK /\ Lifecycle /\ Owned /\ WithinJobs
        /\ Progress /\ Outcomes /\ Budget /\ FreshArtifacts

LEMMA BInvInit == Init => BInv
  <1> SUFFICES ASSUME Init PROVE BInv
    OBVIOUS
  <1> USE BatchAssumption DEF Init, Reviews
  <1>1. TypeOK
    BY DEF TypeOK, MainState, WorkState, Statuses
  <1>2. Lifecycle /\ Owned
    BY DEF Lifecycle, Owned, Listed, Running
  <1>3. WithinJobs
    <2>1. BusyWorkers = {}
      BY DEF BusyWorkers, Busy, HasAgent
    <2> QED
      BY <2>1, FS_EmptySet DEF WithinJobs
  <1>4. Progress /\ Outcomes /\ Budget /\ FreshArtifacts
    BY DEF Progress, Outcomes, Busy, Budget, FreshArtifacts, Unstarted, HasAgent
  <1> QED
    BY <1>1, <1>2, <1>3, <1>4 DEF BInv

LEMMA BInvStep == BInv /\ [Next]_vars => BInv'
  <1> SUFFICES ASSUME BInv, [Next]_vars PROVE BInv'
    OBVIOUS
  <1>1. AgentsAreOwned
    BY DEF BInv, Owned, WithinJobs, AgentsAreOwned
  <1> QED
    BY <1>1, TypeStep, OwnedStep, LifecycleStep, WithinJobsStep, ProgressStep,
       OutcomesStep, BudgetStep, FreshStep DEF BInv

LEMMA BInvCorrect == Spec => []BInv
  BY BInvInit, BInvStep, PTL DEF Spec

(* Every variable of run_batch and its workers keeps its type.             *)
THEOREM TypeCorrect == Spec => []TypeOK
  <1>1. BInv => TypeOK
    BY DEF BInv
  <1> QED
    BY <1>1, BInvCorrect, PTL

(* No agent without a worker that waits for it, a registry that is exact,  *)
(* and never more than --jobs workers (_run_agent, run_batch).             *)
THEOREM AgentsHaveOwners == Spec => []AgentsAreOwned
  <1>1. BInv => AgentsAreOwned
    BY DEF BInv, Owned, WithinJobs, AgentsAreOwned
  <1> QED
    BY <1>1, BInvCorrect, PTL

(* A run that ends after its reviews were submitted leaves neither agents  *)
(* nor worktrees, however often it is interrupted (run_batch's finally).   *)
THEOREM NothingIsLeft == Spec => []NothingLeftBehind
  <1>1. ASSUME BInv, main = "ended", \A r \in Reviews : work[r] # "prepared"
        PROVE  wtree = {} /\ pgids = {} /\ \A r \in Reviews : agent[r] \notin Running
    <2>1. \A r \in Reviews : work[r] \notin Busy
      BY <1>1 DEF BInv, Lifecycle
    <2>2. \A r \in Reviews : r \notin pgids /\ agent[r] \notin Running
      BY <1>1, <2>1 DEF BInv, Owned, Busy, HasAgent, Listed
    <2> QED
      BY <1>1, <2>2 DEF BInv, Lifecycle, TypeOK
  <1>2. BInv => NothingLeftBehind
    BY <1>1 DEF NothingLeftBehind
  <1> QED
    BY <1>2, BInvCorrect, PTL

(* What goes to update_summary is complete and has no duplicates, and the  *)
(* reviews it lacks were cancelled before any agent started (run_batch).   *)
THEOREM ResultsAreComplete == Spec => []ResultsComplete
  <1>1. BInv => ResultsComplete
    BY DEF BInv, Progress, Unstarted, ResultsComplete
  <1> QED
    BY <1>1, BInvCorrect, PTL

(* No review costs more than four agents (_run_review).                    *)
THEOREM AgentsAreBounded == Spec => []BoundedAgents
  <1>1. BInv => BoundedAgents
    BY DEF BInv, Budget, BoundedAgents
  <1> QED
    BY <1>1, BInvCorrect, PTL

(* A verdict comes from the artifacts of the attempt that ended, never     *)
(* from those of a stalled one (_run_review, _remove_artifacts).           *)
THEOREM VerdictsAreFresh == Spec => VerdictOfThisAttempt
  <1> DEFINE Fresh == \A r \in Reviews : status[r] = "none" =>
                /\ status'[r] \in {"findings", "invalid-json"} => json[r] = Attempt(r)
                /\ status'[r] = "clean" => meta[r] = Attempt(r)
  <1>1. ASSUME BInv, Next PROVE Fresh
    <2> USE <1>1 DEF BInv
    <2>1. ASSUME NEW q \in Reviews, Classify(q) PROVE Fresh
      <3>1. PICK s \in Statuses : Verdict(q, s) /\ status' = [status EXCEPT ![q] = s]
        BY <2>1 DEF Classify, Finished
      <3>2. json[q] \in {0, Attempt(q)} /\ meta[q] \in {0, Attempt(q)}
        BY <2>1 DEF Classify, FreshArtifacts
      <3> QED
        BY <3>1, <3>2 DEF Verdict, TypeOK
    <2>2. ASSUME NEW q \in Reviews, NEW s \in {"failed", "timeout", "stalled"},
                 status' = [status EXCEPT ![q] = s]
          PROVE  Fresh
      BY <2>2 DEF TypeOK
    <2>3. ASSUME NEW q \in Reviews, LaunchFails(q) \/ TimedOut(q) \/ GiveUp(q)
          PROVE  Fresh
      <3>1. \/ UNCHANGED status
            \/ \E s \in {"failed", "timeout", "stalled"} : status' = [status EXCEPT ![q] = s]
        BY <2>3 DEF LaunchFails, TimedOut, GiveUp, Finished
      <3>2. CASE UNCHANGED status
        BY <3>2
      <3> HIDE DEF Fresh
      <3> QED
        BY <3>1, <3>2, <2>2
    <2>4. CASE PrepareFails
      <3>1. turn \in Reviews /\ status' = [status EXCEPT ![turn] = "failed"]
        BY <2>4, BatchAssumption DEF PrepareFails, TypeOK, Reviews
      <3> HIDE DEF Fresh
      <3> QED
        BY <3>1, <2>2
    <2>5. CASE UNCHANGED status
      BY <2>5
    <2> HIDE DEF Fresh
    <2> QED
      BY <2>1, <2>3, <2>4, <2>5
      DEF Next, Main, Work, Ended, vars, mainVars, Prepare, Submit, Gather,
          AllGathered, Terminate, AllGone, KillSurvivors, CancelPending, Collect,
          RemoveWorktrees, SaveSummary, Exit, Interrupt, AgentExits, Exits,
          WriteJson, WriteMeta, Take, Launch, Register, Reap, Overdue, KillHard,
          Stopped, Stall, Retry, FreshSession, AskForMetadata, Proceed, CleanUp
  <1>2. ASSUME BInv, [Next]_vars PROVE [Fresh]_vars
    BY <1>1, <1>2
  <1> QED
    BY <1>2, BInvInit, BInvStep, PTL DEF Spec, VerdictOfThisAttempt

-----------------------------------------------------------------------------
(* The refinement of ReviewPool: a step of a thread begins, decides or     *)
(* hands over a review, or changes nothing of what the pool shows.         *)

AtEnd == main \in {"exit", "ended"}
Pressed == IF interrupts > 2 THEN 2 ELSE interrupts

(* The steps of a worker on a review it has taken up and not decided.      *)
Labours(r) ==
  \/ Launch(r) \/ Register(r) \/ Reap(r) \/ Overdue(r) \/ KillHard(r) \/ Stopped(r)
  \/ Stall(r) \/ Retry(r) \/ FreshSession(r) \/ AskForMetadata(r) \/ Proceed(r)

LEMMA LabourShowsNothing ==
  ASSUME BInv, NEW r \in Reviews, Labours(r)
  PROVE  UnderWay' = UnderWay /\ UNCHANGED <<mainVars, status>>
  <1>1. UNCHANGED <<mainVars, status>>
    BY DEF Labours, Launch, Register, Reap, Overdue, KillHard, Stopped, Stall, Retry,
           FreshSession, AskForMetadata, Proceed
  <1>2. /\ work[r] \in Busy /\ work'[r] \in Busy
        /\ \A q \in Reviews : q # r => work'[q] = work[q]
    BY DEF BInv, TypeOK, Labours, Launch, Register, Reap, Overdue, KillHard, Stopped, Stall,
           Retry, FreshSession, AskForMetadata, Proceed, Goes, Busy, HasAgent
  <1> QED
    BY <1>1, <1>2 DEF UnderWay

(* The steps that decide a review.                                         *)
LEMMA DecisionSteps ==
  ASSUME BInv, NEW r \in Reviews,
         \/ (LaunchFails(r) /\ ~UNCHANGED status)
         \/ TimedOut(r) \/ GiveUp(r) \/ Classify(r)
  PROVE  /\ \E s \in Statuses : status' = [status EXCEPT ![r] = s]
         /\ work[r] \in Busy \ {"cleanup"}
         /\ work' = [work EXCEPT ![r] = "cleanup"]
         /\ UNCHANGED mainVars
  BY DEF LaunchFails, TimedOut, GiveUp, Classify, Finished, Goes, Statuses, Busy, HasAgent

LEMMA DecisionDecides ==
  ASSUME BInv, NEW r \in Reviews, UNCHANGED mainVars,
         NEW s \in Statuses, status' = [status EXCEPT ![r] = s],
         work[r] \in Busy \ {"cleanup"}, work' = [work EXCEPT ![r] = "cleanup"]
  PROVE  Pool!Decide(r)
  <1>1. status[r] = "none" /\ r \in UnderWay
    BY DEF BInv, Outcomes, UnderWay
  <1>2. UnderWay' = UnderWay \ {r}
    BY DEF BInv, TypeOK, UnderWay, Statuses, Verdicts
  <1>3. AtEnd => Pressed = 2
    <2>1. AtEnd => interrupts > 1
      BY DEF BInv, TypeOK, Outcomes, AtEnd
    <2> QED
      BY <2>1, BatchAssumption DEF BInv, TypeOK, Pressed
  <1> QED
    BY <1>1, <1>2, <1>3 DEF Pool!Decide, Pool!GoesOn, mainVars, AtEnd, Pressed

LEMMA TakeBegins ==
  ASSUME BInv, NEW r \in Reviews, Take(r)
  PROVE  Pool!Begin(r)
  <1>1. UNCHANGED <<mainVars, status>> /\ work' = [work EXCEPT ![r] = "launch"]
    BY DEF Take, Goes
  <1>2. status[r] = "none" /\ r \notin UnderWay
    BY DEF BInv, Outcomes, Take, UnderWay, Busy, HasAgent
  <1>3. UnderWay' = UnderWay \cup {r}
    BY <1>1, <1>2 DEF BInv, TypeOK, UnderWay, Busy
  <1>4. Cardinality(UnderWay) < Jobs
    <2>1. UnderWay \subseteq BusyWorkers
      BY DEF UnderWay, BusyWorkers
    <2>2. Cardinality(UnderWay) <= Cardinality(BusyWorkers) /\ Cardinality(UnderWay) \in Nat
      BY <2>1, BusyFinite, FS_Subset, FS_CardinalityType
    <2> QED
      BY <2>2, BusyFinite, BatchAssumption DEF Take
  <1>5. AtEnd => Pressed = 2
    <2>1. AtEnd => interrupts > 1
      BY DEF BInv, TypeOK, Outcomes, AtEnd, Take
    <2> QED
      BY <2>1, BatchAssumption DEF BInv, TypeOK, Pressed
  <1>6. Pool!Cardinality(UnderWay) = Cardinality(UnderWay)
    BY Zenon DEF Pool!Cardinality, Cardinality
  <1> QED
    BY <1>1, <1>2, <1>3, <1>4, <1>5, <1>6
       DEF Pool!Begin, Pool!GoesOn, Pool!Waiting, Pool!Decided, mainVars, AtEnd, Pressed

LEMMA PrepareFailsRefuses ==
  ASSUME BInv, PrepareFails
  PROVE  Pool!Refuse(turn)
  <1>1. turn \in Reviews
    BY BatchAssumption DEF BInv, TypeOK, PrepareFails, Reviews
  <1>2. UnderWay = {} /\ UnderWay' = {}
    BY DEF BInv, Lifecycle, PrepareFails, UnderWay, Busy, HasAgent
  <1>3. status[turn] = "none"
    BY <1>1 DEF BInv, TypeOK, Outcomes, PrepareFails
  <1> QED
    BY <1>1, <1>2, <1>3
       DEF PrepareFails, Pool!Refuse, Pool!Waiting, Pool!Decided, AtEnd, Pressed

LEMMA InterruptPresses ==
  ASSUME BInv, Interrupt
  PROVE  Pool!Interrupt \/ Pool!Abandon
  <1>1. /\ interrupts' = interrupts + 1 /\ interrupts \in Nat
        /\ UNCHANGED <<work, status, saved>>
    BY BatchAssumption DEF Interrupt, BInv, TypeOK
  <1>2. Pressed' = IF Pressed = 0 THEN 1 ELSE 2
    BY <1>1 DEF Pressed
  <1>3. UnderWay' = UnderWay
    BY <1>1 DEF UnderWay
  <1>4. CASE main = "prepare"
    <2>1. UnderWay = {}
      BY <1>4 DEF BInv, Lifecycle, UnderWay, Busy, HasAgent
    <2>2. ~AtEnd /\ AtEnd' = TRUE
      BY <1>4 DEF Interrupt, Step, AtEnd
    <2> QED
      BY <1>1, <1>2, <1>3, <2>1, <2>2 DEF Pool!Abandon, Pool!Press, AtEnd, Pressed
  <1>5. CASE main # "prepare"
    <2>1. ~AtEnd /\ ~AtEnd'
      BY <1>5 DEF Interrupt, Step, AtEnd
    <2> QED
      BY <1>1, <1>2, <1>3, <2>1 DEF Pool!Interrupt, Pool!Press, AtEnd, Pressed
  <1> QED
    BY <1>4, <1>5

LEMMA SummaryHandsOver ==
  ASSUME BInv, SaveSummary
  PROVE  Pool!HandOver
  <1>1. /\ main = "summary" /\ main' = "exit" /\ saved' = {r \in Reviews : results[r] > 0}
        /\ UNCHANGED <<interrupts, work, status>>
    BY DEF SaveSummary, Step
  <1>2. UnderWay' = UnderWay /\ interrupts \in Nat
    BY <1>1, BatchAssumption DEF UnderWay, BInv, TypeOK
  <1>3. saved' \subseteq Pool!Decided
    BY <1>1 DEF BInv, Outcomes, Pool!Decided
  <1>4. ASSUME Pressed < 2
        PROVE  UnderWay = {} /\ saved' = Pool!Decided
    <2>1. interrupts <= 1
      BY <1>2, <1>4 DEF Pressed
    <2>2. \A r \in Reviews : /\ work[r] \in {"unprepared", "done", "cancelled"}
                            /\ results[r] = IF work[r] = "cancelled" THEN 0 ELSE 1
      BY <1>1, <2>1 DEF BInv, Progress
    <2>3. UnderWay = {}
      BY <2>2 DEF UnderWay, Busy, HasAgent
    <2>4. \A r \in Reviews : status[r] # "none" => results[r] > 0
      BY <2>2 DEF BInv, Outcomes
    <2> QED
      BY <1>1, <1>3, <2>3, <2>4 DEF Pool!Decided
  <1>5. ASSUME Pressed = 0
        PROVE  Pool!Decided = Reviews
    <2>1. interrupts = 0
      BY <1>2, <1>5 DEF Pressed
    <2>2. \A r \in Reviews : results[r] = 1
      BY <1>1, <2>1 DEF BInv, Progress, Outcomes
    <2> QED
      BY <2>2 DEF BInv, Outcomes, Pool!Decided
  <1> QED
    BY <1>1, <1>2, <1>3, <1>4, <1>5 DEF Pool!HandOver, AtEnd, Pressed

(* The steps of the main thread that the pool does not show.               *)
LEMMA MainShowsNothing ==
  ASSUME BInv,
         \/ Prepare \/ Submit \/ Gather \/ AllGathered \/ Terminate \/ AllGone
         \/ KillSurvivors \/ CancelPending \/ Collect \/ RemoveWorktrees \/ Exit
  PROVE  UnderWay' = UnderWay /\ AtEnd' = AtEnd /\ UNCHANGED <<interrupts, saved, status>>
  <1>1. UNCHANGED <<interrupts, saved, status>> /\ AtEnd' = AtEnd
    BY DEF Prepare, Submit, Gather, AllGathered, Terminate, AllGone, KillSurvivors,
           CancelPending, Collect, RemoveWorktrees, Exit, Step, AtEnd
  <1>2. \A r \in Reviews : work'[r] \in Busy <=> work[r] \in Busy
    <2>1. CASE Prepare
      BY <2>1 DEF Prepare, Goes, BInv, TypeOK, Lifecycle, Busy, HasAgent
    <2>2. CASE Submit \/ CancelPending
      BY <2>2 DEF Submit, CancelPending, Busy, HasAgent
    <2>3. CASE UNCHANGED work
      BY <2>3
    <2> QED
      BY <2>1, <2>2, <2>3
         DEF Gather, AllGathered, Terminate, AllGone, KillSurvivors, Collect,
             RemoveWorktrees, Exit
  <1> QED
    BY <1>1, <1>2 DEF UnderWay

LEMMA CleanUpShowsNothing ==
  ASSUME BInv, NEW r \in Reviews, CleanUp(r)
  PROVE  UnderWay' = UnderWay /\ UNCHANGED <<mainVars, status>>
  <1>1. UNCHANGED <<mainVars, status>> /\ work[r] = "cleanup" /\ work' = [work EXCEPT ![r] = "done"]
    BY DEF CleanUp, Goes
  <1>2. status[r] # "none"
    BY <1>1 DEF BInv, Progress
  <1> QED
    BY <1>1, <1>2 DEF BInv, TypeOK, UnderWay

LEMMA PoolStep ==
  ASSUME BInv, [Next]_vars
  PROVE  [Pool!Next]_(Pool!vars)
  <1>1. ASSUME UnderWay' = UnderWay, AtEnd' = AtEnd, UNCHANGED <<interrupts, saved, status>>
        PROVE  [Pool!Next]_(Pool!vars)
    BY <1>1 DEF Pool!vars, AtEnd
  <1>2. ASSUME NEW r \in Reviews, Work(r)
        PROVE  [Pool!Next]_(Pool!vars)
    <2>1. CASE Take(r)
      BY <2>1, TakeBegins DEF Pool!Next
    <2>2. CASE Labours(r) \/ CleanUp(r) \/ (LaunchFails(r) /\ UNCHANGED status)
      <3>1. UnderWay' = UnderWay /\ UNCHANGED <<mainVars, status>>
        <4>1. CASE Labours(r) \/ CleanUp(r)
          BY <4>1, LabourShowsNothing, CleanUpShowsNothing
        <4>2. CASE LaunchFails(r) /\ UNCHANGED status
          <5>1. UNCHANGED mainVars /\ work[r] = "launch" /\ work'[r] \in Busy
            BY <4>2 DEF LaunchFails, Goes, Finished, BInv, TypeOK, Busy
          <5>2. \A q \in Reviews : q # r => work'[q] = work[q]
            BY <4>2 DEF LaunchFails, Goes, Finished, BInv, TypeOK
          <5> QED
            BY <4>2, <5>1, <5>2 DEF UnderWay, Busy
        <4> QED
          BY <2>2, <4>1, <4>2
      <3> QED
        BY <1>1, <3>1 DEF mainVars, AtEnd
    <2>3. CASE (LaunchFails(r) /\ ~UNCHANGED status) \/ TimedOut(r) \/ GiveUp(r) \/ Classify(r)
      BY <2>3, DecisionSteps, DecisionDecides DEF Pool!Next
    <2> QED
      BY <1>2, <2>1, <2>2, <2>3 DEF Work, Labours
  <1>3. CASE PrepareFails
    <2>1. turn \in Reviews
      BY <1>3, BatchAssumption DEF BInv, TypeOK, PrepareFails, Reviews
    <2> QED
      BY <1>3, <2>1, PrepareFailsRefuses DEF Pool!Next
  <1>4. CASE Interrupt \/ SaveSummary
    BY <1>4, InterruptPresses, SummaryHandsOver DEF Pool!Next
  <1>5. CASE \/ Prepare \/ Submit \/ Gather \/ AllGathered \/ Terminate \/ AllGone
             \/ KillSurvivors \/ CancelPending \/ Collect \/ RemoveWorktrees \/ Exit
    BY <1>1, <1>5, MainShowsNothing
  <1>6. ASSUME NEW r \in Reviews, AgentExits(r) \/ WriteJson(r) \/ WriteMeta(r)
        PROVE  [Pool!Next]_(Pool!vars)
    <2>1. UNCHANGED <<mainVars, work, status>>
      BY <1>6 DEF AgentExits, Exits, WriteJson, WriteMeta
    <2> QED
      BY <1>1, <2>1 DEF mainVars, UnderWay, AtEnd
  <1>7. CASE UNCHANGED vars
    BY <1>1, <1>7 DEF vars, mainVars, UnderWay, AtEnd
  <1> QED
    BY <1>2, <1>3, <1>4, <1>5, <1>6, <1>7 DEF Next, Main, Ended

(* A batch keeps the promise of ReviewPool, for any number of reviews,     *)
(* workers and Ctrl+C: every review is refused or decided once, and what   *)
(* is handed to update_summary is all that was decided, unless a second    *)
(* Ctrl+C forced the end (run_batch).                                      *)
THEOREM BatchImplementsPool == Spec => ImplementsPool
  <1>1. Init => Pool!Init
    <2> SUFFICES ASSUME Init PROVE Pool!Init
      OBVIOUS
    <2>1. UnderWay = {}
      BY DEF Init, UnderWay, Busy, HasAgent
    <2> QED
      BY <2>1 DEF Init, Pool!Init
  <1>2. BInv /\ [Next]_vars => [Pool!Next]_(Pool!vars)
    BY PoolStep
  <1> QED
    BY <1>1, <1>2, BInvCorrect, PTL DEF Spec, ImplementsPool, Pool!Spec

=============================================================================
