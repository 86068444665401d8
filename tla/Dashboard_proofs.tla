--------------------------- MODULE Dashboard_proofs ---------------------------
(* Proofs about Dashboard, for any number of users, contexts and handlers, *)
(* any limit of the registry and any number of requests.                   *)
EXTENDS Dashboard, TLAPS, FiniteSetTheorems, WellFoundedInduction

(* Each lemma takes one part of the invariant over one step, action by     *)
(* action.                                                                 *)

LEMMA TypeStep ==
  ASSUME TypeOK, Lifecycle, [Next]_vars
  PROVE  TypeOK'
  <1> USE NamesAssumption, BoundsAssumption
          DEF vars, files, registry, thread, events, ending, handler, TypeOK,
          Lifecycle, Snapshots, Ops, LoopStates, HandlerStates, Holding
  <1>1. ASSUME NEW c \in Ctxs, CheckStop(c) PROVE TypeOK'
    BY <1>1 DEF CheckStop, Goto
  <1>2. ASSUME NEW c \in Ctxs, TakeWakeup(c) PROVE TypeOK'
    BY <1>2 DEF TakeWakeup, Goto
  <1>3. ASSUME NEW c \in Ctxs, Decide(c) PROVE TypeOK'
    BY <1>3 DEF Decide, Due, Goto
  <1>4. ASSUME NEW c \in Ctxs, WaitOutCap(c) PROVE TypeOK'
    BY <1>4 DEF WaitOutCap, Goto
  <1>5. ASSUME NEW c \in Ctxs, StartRefresh(c) PROVE TypeOK'
    BY <1>5 DEF StartRefresh, Goto
  <1>6. ASSUME NEW c \in Ctxs, Fetch(c) PROVE TypeOK'
    BY <1>6 DEF Fetch, Goto
  <1>7. ASSUME NEW c \in Ctxs, Enrich(c) PROVE TypeOK'
    BY <1>7 DEF Enrich, Goto
  <1>8. ASSUME NEW c \in Ctxs, SaveSnapshot(c) PROVE TypeOK'
    BY <1>8 DEF SaveSnapshot, Goto
  <1>9. ASSUME NEW c \in Ctxs, Finish(c) PROVE TypeOK'
    BY <1>9 DEF Finish, Goto
  <1>10. ASSUME NEW c \in Ctxs, FailRefresh(c) PROVE TypeOK'
    BY <1>10 DEF FailRefresh, Goto
  <1>11. ASSUME NEW c \in Ctxs, Park(c) PROVE TypeOK'
    BY <1>11 DEF Park, Goto
  <1>12. ASSUME NEW c \in Ctxs, Wake(c) PROVE TypeOK'
    BY <1>12 DEF Wake, Goto
  <1>13. ASSUME NEW h \in Handlers, Receive(h) PROVE TypeOK'
    <2>1. requests' \in 0..MaxRequests
      BY <1>13 DEF Receive
    <2>2. PICK o \in Ops, u \in Users :
            /\ op' = [op EXCEPT ![h] = o]
            /\ user' = [user EXCEPT ![h] = u]
            /\ hpc' = [hpc EXCEPT ![h] = IF o = "index" THEN "index" ELSE "lookup"]
      BY <1>13 DEF Receive, HGoto
    <2> QED
      BY <1>13, <2>1, <2>2 DEF Receive
  <1>14. ASSUME NEW h \in Handlers, Lookup(h) PROVE TypeOK'
    BY <1>14 DEF Lookup, HGoto, MostRecent, Registered
  <1>15. ASSUME NEW h \in Handlers, Build(h) PROVE TypeOK'
    BY <1>15 DEF Build, HGoto, Usable
  <1>16. ASSUME NEW h \in Handlers, Insert(h) PROVE TypeOK'
    <2>1. CASE Lose(h)
      BY <1>16, <2>1 DEF Insert, Lose, HGoto
    <2>2. CASE users[user[h]] = NoCtx /\ Register(h, {}) /\ UNCHANGED drop
      BY <1>16, <2>2 DEF Insert, Register, HGoto, MostRecent, Registered
    <2>3. ASSUME NEW v \in Users, users[user[h]] = NoCtx, users[v] # NoCtx, v # user[h],
                 Register(h, {v}), drop' = [drop EXCEPT ![h] = users[v]]
          PROVE  TypeOK'
      BY <1>16, <2>3 DEF Insert, Register, HGoto, MostRecent, Registered
    <2> QED
      BY <1>16, <2>1, <2>2, <2>3 DEF Insert, Win, Evictable, Registered
  <1>17. ASSUME NEW h \in Handlers, Start(h) PROVE TypeOK'
    BY <1>17 DEF Start, HGoto
  <1>18. ASSUME NEW h \in Handlers, TearDown(h) PROVE TypeOK'
    <2>1. \/ UNCHANGED stop
          \/ \E c \in Ctxs : stop' = [stop EXCEPT ![c] = TRUE]
      BY <1>18 DEF TearDown
    <2>2. stop' \in [Ctxs -> BOOLEAN]
      <3>1. stop \in [Ctxs -> BOOLEAN]
        OBVIOUS
      <3> HIDE DEF TypeOK, Lifecycle
      <3> QED
        BY <2>1, <3>1
    <2>3. hpc' \in [Handlers -> HandlerStates]
      BY <1>18 DEF TearDown, HGoto
    <2> QED
      BY <1>18, <2>2, <2>3 DEF TearDown
  <1>19. ASSUME NEW h \in Handlers, WakeStopped(h) PROVE TypeOK'
    BY <1>19 DEF WakeStopped, HGoto, Request
  <1>20. ASSUME NEW h \in Handlers, View(h) PROVE TypeOK'
    BY <1>20 DEF View, Answer, HGoto
  <1>21. ASSUME NEW h \in Handlers, EditList(h) PROVE TypeOK'
    BY <1>21 DEF EditList, HGoto
  <1>22. ASSUME NEW h \in Handlers, SetInterval(h) PROVE TypeOK'
    BY <1>22 DEF SetInterval, HGoto
  <1>23. ASSUME NEW h \in Handlers, SaveInterval(h) PROVE TypeOK'
    BY <1>23 DEF SaveInterval, HGoto
  <1>24. ASSUME NEW h \in Handlers, RequestRefresh(h) PROVE TypeOK'
    BY <1>24 DEF RequestRefresh, Request, Answer, HGoto
  <1>25. ASSUME NEW h \in Handlers, LoadSummary(h) PROVE TypeOK'
    <2>1. CASE summaryFile[user[h]] # "none"
      BY <1>25, <2>1 DEF LoadSummary, Answer, HGoto
    <2>2. CASE ~(summaryFile[user[h]] # "none")
      BY <1>25, <2>2 DEF LoadSummary, Answer, HGoto
    <2> QED
      BY <2>1, <2>2
  <1>26. ASSUME NEW h \in Handlers, Summarize(h) PROVE TypeOK'
    <2>1. CASE Answer(h)
      BY <1>26, <2>1 DEF Summarize, Answer, HGoto
    <2>2. CASE ~Answer(h)
      BY <1>26, <2>2 DEF Summarize, HGoto
    <2> QED
      BY <2>1, <2>2
  <1>27. ASSUME NEW h \in Handlers, WriteSummary(h) PROVE TypeOK'
    BY <1>27 DEF WriteSummary, Answer, HGoto
  <1>28. CASE UNCHANGED vars
    BY <1>28
  <1> QED
    BY <1>1, <1>2, <1>3, <1>4, <1>5, <1>6, <1>7, <1>8, <1>9, <1>10, <1>11,
       <1>12, <1>13, <1>14, <1>15, <1>16, <1>17, <1>18, <1>19, <1>20, <1>21,
       <1>22, <1>23, <1>24, <1>25, <1>26, <1>27, <1>28
    DEF Next, Refresher, Handle

(* Only take_wakeup clears the event, and it goes on to the refresh.       *)
LEMMA QueuedStep ==
  ASSUME TypeOK, Lifecycle, FreshIsPrivate, QueuedWillRun, [Next]_vars
  PROVE  QueuedWillRun'
  <1> USE NamesAssumption, BoundsAssumption
          DEF vars, files, registry, thread, events, ending, handler, TypeOK,
          QueuedWillRun
  <1>1. ASSUME NEW c \in Ctxs, CheckStop(c) PROVE QueuedWillRun'
    BY <1>1 DEF CheckStop, Goto
  <1>2. ASSUME NEW c \in Ctxs, TakeWakeup(c) PROVE QueuedWillRun'
    BY <1>2 DEF TakeWakeup, Goto
  <1>3. ASSUME NEW c \in Ctxs, Decide(c) PROVE QueuedWillRun'
    BY <1>3 DEF Decide, Due, Goto
  <1>4. ASSUME NEW c \in Ctxs, WaitOutCap(c) PROVE QueuedWillRun'
    BY <1>4 DEF WaitOutCap, Goto
  <1>5. ASSUME NEW c \in Ctxs, StartRefresh(c) PROVE QueuedWillRun'
    BY <1>5 DEF StartRefresh, Goto
  <1>6. ASSUME NEW c \in Ctxs, Fetch(c) PROVE QueuedWillRun'
    BY <1>6 DEF Fetch, Goto
  <1>7. ASSUME NEW c \in Ctxs, Enrich(c) PROVE QueuedWillRun'
    BY <1>7 DEF Enrich, Goto
  <1>8. ASSUME NEW c \in Ctxs, SaveSnapshot(c) PROVE QueuedWillRun'
    BY <1>8 DEF SaveSnapshot, Goto
  <1>9. ASSUME NEW c \in Ctxs, Finish(c) PROVE QueuedWillRun'
    BY <1>9 DEF Finish, Goto
  <1>10. ASSUME NEW c \in Ctxs, FailRefresh(c) PROVE QueuedWillRun'
    BY <1>10 DEF FailRefresh, Goto
  <1>11. ASSUME NEW c \in Ctxs, Park(c) PROVE QueuedWillRun'
    BY <1>11 DEF Park, Goto
  <1>12. ASSUME NEW c \in Ctxs, Wake(c) PROVE QueuedWillRun'
    BY <1>12 DEF Wake, Goto
  <1>13. ASSUME NEW h \in Handlers, Receive(h) PROVE QueuedWillRun'
    BY <1>13 DEF Receive, HGoto
  <1>14. ASSUME NEW h \in Handlers, Lookup(h) PROVE QueuedWillRun'
    BY <1>14 DEF Lookup, HGoto, MostRecent, Registered
  <1>15. ASSUME NEW h \in Handlers, Build(h) PROVE QueuedWillRun'
    BY <1>15 DEF Build, HGoto, Usable, Lifecycle
  <1>16. ASSUME NEW h \in Handlers, Insert(h) PROVE QueuedWillRun'
    BY <1>16 DEF Insert, Win, Lose, Register, Evictable, MostRecent, Registered, HGoto
  <1>17. ASSUME NEW h \in Handlers, Start(h) PROVE QueuedWillRun'
    BY <1>17 DEF Start, HGoto, FreshIsPrivate
  <1>18. ASSUME NEW h \in Handlers, TearDown(h) PROVE QueuedWillRun'
    BY <1>18 DEF TearDown, HGoto
  <1>19. ASSUME NEW h \in Handlers, WakeStopped(h) PROVE QueuedWillRun'
    BY <1>19 DEF WakeStopped, HGoto, Request
  <1>20. ASSUME NEW h \in Handlers, View(h) PROVE QueuedWillRun'
    BY <1>20 DEF View, Answer, HGoto
  <1>21. ASSUME NEW h \in Handlers, EditList(h) PROVE QueuedWillRun'
    BY <1>21 DEF EditList, HGoto
  <1>22. ASSUME NEW h \in Handlers, SetInterval(h) PROVE QueuedWillRun'
    BY <1>22 DEF SetInterval, HGoto
  <1>23. ASSUME NEW h \in Handlers, SaveInterval(h) PROVE QueuedWillRun'
    BY <1>23 DEF SaveInterval, HGoto
  <1>24. ASSUME NEW h \in Handlers, RequestRefresh(h) PROVE QueuedWillRun'
    BY <1>24 DEF RequestRefresh, Request, Answer, HGoto
  <1>25. ASSUME NEW h \in Handlers, LoadSummary(h) PROVE QueuedWillRun'
    BY <1>25 DEF LoadSummary, Answer, HGoto
  <1>26. ASSUME NEW h \in Handlers, Summarize(h) PROVE QueuedWillRun'
    BY <1>26 DEF Summarize, Answer, HGoto
  <1>27. ASSUME NEW h \in Handlers, WriteSummary(h) PROVE QueuedWillRun'
    BY <1>27 DEF WriteSummary, Answer, HGoto
  <1>28. CASE UNCHANGED vars
    BY <1>28
  <1> QED
    BY <1>1, <1>2, <1>3, <1>4, <1>5, <1>6, <1>7, <1>8, <1>9, <1>10, <1>11,
       <1>12, <1>13, <1>14, <1>15, <1>16, <1>17, <1>18, <1>19, <1>20, <1>21,
       <1>22, <1>23, <1>24, <1>25, <1>26, <1>27, <1>28
    DEF Next, Refresher, Handle

(* The handler that edited a list holds its context until it has asked.    *)
LEMMA EditsStep ==
  ASSUME TypeOK, Lifecycle, EditsAreFollowedUp, [Next]_vars
  PROVE  EditsAreFollowedUp'
  <1> USE NamesAssumption, BoundsAssumption
          DEF vars, files, registry, thread, events, ending, handler, TypeOK,
          Lifecycle, Holding, EditsAreFollowedUp
  <1>1. ASSUME NEW c \in Ctxs, CheckStop(c) PROVE EditsAreFollowedUp'
    BY <1>1 DEF CheckStop, Goto
  <1>2. ASSUME NEW c \in Ctxs, TakeWakeup(c) PROVE EditsAreFollowedUp'
    BY <1>2 DEF TakeWakeup, Goto
  <1>3. ASSUME NEW c \in Ctxs, Decide(c) PROVE EditsAreFollowedUp'
    BY <1>3 DEF Decide, Due, Goto
  <1>4. ASSUME NEW c \in Ctxs, WaitOutCap(c) PROVE EditsAreFollowedUp'
    BY <1>4 DEF WaitOutCap, Goto
  <1>5. ASSUME NEW c \in Ctxs, StartRefresh(c) PROVE EditsAreFollowedUp'
    BY <1>5 DEF StartRefresh, Goto
  <1>6. ASSUME NEW c \in Ctxs, Fetch(c) PROVE EditsAreFollowedUp'
    BY <1>6 DEF Fetch, Goto
  <1>7. ASSUME NEW c \in Ctxs, Enrich(c) PROVE EditsAreFollowedUp'
    BY <1>7 DEF Enrich, Goto
  <1>8. ASSUME NEW c \in Ctxs, SaveSnapshot(c) PROVE EditsAreFollowedUp'
    BY <1>8 DEF SaveSnapshot, Goto
  <1>9. ASSUME NEW c \in Ctxs, Finish(c) PROVE EditsAreFollowedUp'
    BY <1>9 DEF Finish, Goto
  <1>10. ASSUME NEW c \in Ctxs, FailRefresh(c) PROVE EditsAreFollowedUp'
    BY <1>10 DEF FailRefresh, Goto
  <1>11. ASSUME NEW c \in Ctxs, Park(c) PROVE EditsAreFollowedUp'
    BY <1>11 DEF Park, Goto
  <1>12. ASSUME NEW c \in Ctxs, Wake(c) PROVE EditsAreFollowedUp'
    BY <1>12 DEF Wake, Goto
  <1>13. ASSUME NEW h \in Handlers, Receive(h) PROVE EditsAreFollowedUp'
    BY <1>13 DEF Receive, HGoto
  <1>14. ASSUME NEW h \in Handlers, Lookup(h) PROVE EditsAreFollowedUp'
    BY <1>14 DEF Lookup, HGoto, MostRecent, Registered
  <1>15. ASSUME NEW h \in Handlers, Build(h) PROVE EditsAreFollowedUp'
    BY <1>15 DEF Build, HGoto, Usable
  <1>16. ASSUME NEW h \in Handlers, Insert(h) PROVE EditsAreFollowedUp'
    <2>1. CASE Lose(h)
      BY <1>16, <2>1 DEF Insert, Lose, HGoto
    <2>2. CASE users[user[h]] = NoCtx /\ Register(h, {}) /\ UNCHANGED drop
      BY <1>16, <2>2 DEF Insert, Register, HGoto
    <2>3. ASSUME NEW v \in Users, users[user[h]] = NoCtx, users[v] # NoCtx, v # user[h],
                 Register(h, {v}), drop' = [drop EXCEPT ![h] = users[v]]
          PROVE  EditsAreFollowedUp'
      BY <1>16, <2>3 DEF Insert, Register, HGoto
    <2> QED
      BY <1>16, <2>1, <2>2, <2>3 DEF Insert, Win, Evictable, Registered
  <1>17. ASSUME NEW h \in Handlers, Start(h) PROVE EditsAreFollowedUp'
    BY <1>17 DEF Start, HGoto
  <1>18. ASSUME NEW h \in Handlers, TearDown(h) PROVE EditsAreFollowedUp'
    BY <1>18 DEF TearDown, HGoto
  <1>19. ASSUME NEW h \in Handlers, WakeStopped(h) PROVE EditsAreFollowedUp'
    BY <1>19 DEF WakeStopped, HGoto, Request
  <1>20. ASSUME NEW h \in Handlers, View(h) PROVE EditsAreFollowedUp'
    BY <1>20 DEF View, Answer, HGoto
  <1>21. ASSUME NEW h \in Handlers, EditList(h) PROVE EditsAreFollowedUp'
    BY <1>21 DEF EditList, HGoto
  <1>22. ASSUME NEW h \in Handlers, SetInterval(h) PROVE EditsAreFollowedUp'
    BY <1>22 DEF SetInterval, HGoto
  <1>23. ASSUME NEW h \in Handlers, SaveInterval(h) PROVE EditsAreFollowedUp'
    BY <1>23 DEF SaveInterval, HGoto
  <1>24. ASSUME NEW h \in Handlers, RequestRefresh(h) PROVE EditsAreFollowedUp'
    BY <1>24 DEF RequestRefresh, Request, Answer, HGoto
  <1>25. ASSUME NEW h \in Handlers, LoadSummary(h) PROVE EditsAreFollowedUp'
    BY <1>25 DEF LoadSummary, Answer, HGoto
  <1>26. ASSUME NEW h \in Handlers, Summarize(h) PROVE EditsAreFollowedUp'
    BY <1>26 DEF Summarize, Answer, HGoto
  <1>27. ASSUME NEW h \in Handlers, WriteSummary(h) PROVE EditsAreFollowedUp'
    BY <1>27 DEF WriteSummary, Answer, HGoto
  <1>28. CASE UNCHANGED vars
    BY <1>28
  <1> QED
    BY <1>1, <1>2, <1>3, <1>4, <1>5, <1>6, <1>7, <1>8, <1>9, <1>10, <1>11,
       <1>12, <1>13, <1>14, <1>15, <1>16, <1>17, <1>18, <1>19, <1>20, <1>21,
       <1>22, <1>23, <1>24, <1>25, <1>26, <1>27, <1>28
    DEF Next, Refresher, Handle

(* The thread reads the interval when it parks; a later change is followed *)
(* by a request.                                                           *)
LEMMA AutoStep ==
  ASSUME TypeOK, Lifecycle, AutoIsArmed, [Next]_vars
  PROVE  AutoIsArmed'
  <1> USE NamesAssumption, BoundsAssumption
          DEF vars, files, registry, thread, events, ending, handler, TypeOK,
          Lifecycle, Holding, AutoIsArmed
  <1>1. ASSUME NEW c \in Ctxs, CheckStop(c) PROVE AutoIsArmed'
    BY <1>1 DEF CheckStop, Goto
  <1>2. ASSUME NEW c \in Ctxs, TakeWakeup(c) PROVE AutoIsArmed'
    BY <1>2 DEF TakeWakeup, Goto
  <1>3. ASSUME NEW c \in Ctxs, Decide(c) PROVE AutoIsArmed'
    BY <1>3 DEF Decide, Due, Goto
  <1>4. ASSUME NEW c \in Ctxs, WaitOutCap(c) PROVE AutoIsArmed'
    BY <1>4 DEF WaitOutCap, Goto
  <1>5. ASSUME NEW c \in Ctxs, StartRefresh(c) PROVE AutoIsArmed'
    BY <1>5 DEF StartRefresh, Goto
  <1>6. ASSUME NEW c \in Ctxs, Fetch(c) PROVE AutoIsArmed'
    BY <1>6 DEF Fetch, Goto
  <1>7. ASSUME NEW c \in Ctxs, Enrich(c) PROVE AutoIsArmed'
    BY <1>7 DEF Enrich, Goto
  <1>8. ASSUME NEW c \in Ctxs, SaveSnapshot(c) PROVE AutoIsArmed'
    BY <1>8 DEF SaveSnapshot, Goto
  <1>9. ASSUME NEW c \in Ctxs, Finish(c) PROVE AutoIsArmed'
    BY <1>9 DEF Finish, Goto
  <1>10. ASSUME NEW c \in Ctxs, FailRefresh(c) PROVE AutoIsArmed'
    BY <1>10 DEF FailRefresh, Goto
  <1>11. ASSUME NEW c \in Ctxs, Park(c) PROVE AutoIsArmed'
    BY <1>11 DEF Park, Goto
  <1>12. ASSUME NEW c \in Ctxs, Wake(c) PROVE AutoIsArmed'
    BY <1>12 DEF Wake, Goto
  <1>13. ASSUME NEW h \in Handlers, Receive(h) PROVE AutoIsArmed'
    BY <1>13 DEF Receive, HGoto
  <1>14. ASSUME NEW h \in Handlers, Lookup(h) PROVE AutoIsArmed'
    BY <1>14 DEF Lookup, HGoto, MostRecent, Registered
  <1>15. ASSUME NEW h \in Handlers, Build(h) PROVE AutoIsArmed'
    BY <1>15 DEF Build, HGoto, Usable
  <1>16. ASSUME NEW h \in Handlers, Insert(h) PROVE AutoIsArmed'
    <2>1. CASE Lose(h)
      BY <1>16, <2>1 DEF Insert, Lose, HGoto
    <2>2. CASE users[user[h]] = NoCtx /\ Register(h, {}) /\ UNCHANGED drop
      BY <1>16, <2>2 DEF Insert, Register, HGoto
    <2>3. ASSUME NEW v \in Users, users[user[h]] = NoCtx, users[v] # NoCtx, v # user[h],
                 Register(h, {v}), drop' = [drop EXCEPT ![h] = users[v]]
          PROVE  AutoIsArmed'
      BY <1>16, <2>3 DEF Insert, Register, HGoto
    <2> QED
      BY <1>16, <2>1, <2>2, <2>3 DEF Insert, Win, Evictable, Registered
  <1>17. ASSUME NEW h \in Handlers, Start(h) PROVE AutoIsArmed'
    BY <1>17 DEF Start, HGoto
  <1>18. ASSUME NEW h \in Handlers, TearDown(h) PROVE AutoIsArmed'
    BY <1>18 DEF TearDown, HGoto
  <1>19. ASSUME NEW h \in Handlers, WakeStopped(h) PROVE AutoIsArmed'
    BY <1>19 DEF WakeStopped, HGoto, Request
  <1>20. ASSUME NEW h \in Handlers, View(h) PROVE AutoIsArmed'
    BY <1>20 DEF View, Answer, HGoto
  <1>21. ASSUME NEW h \in Handlers, EditList(h) PROVE AutoIsArmed'
    BY <1>21 DEF EditList, HGoto
  <1>22. ASSUME NEW h \in Handlers, SetInterval(h) PROVE AutoIsArmed'
    BY <1>22 DEF SetInterval, HGoto
  <1>23. ASSUME NEW h \in Handlers, SaveInterval(h) PROVE AutoIsArmed'
    BY <1>23 DEF SaveInterval, HGoto
  <1>24. ASSUME NEW h \in Handlers, RequestRefresh(h) PROVE AutoIsArmed'
    BY <1>24 DEF RequestRefresh, Request, Answer, HGoto
  <1>25. ASSUME NEW h \in Handlers, LoadSummary(h) PROVE AutoIsArmed'
    BY <1>25 DEF LoadSummary, Answer, HGoto
  <1>26. ASSUME NEW h \in Handlers, Summarize(h) PROVE AutoIsArmed'
    BY <1>26 DEF Summarize, Answer, HGoto
  <1>27. ASSUME NEW h \in Handlers, WriteSummary(h) PROVE AutoIsArmed'
    BY <1>27 DEF WriteSummary, Answer, HGoto
  <1>28. CASE UNCHANGED vars
    BY <1>28
  <1> QED
    BY <1>1, <1>2, <1>3, <1>4, <1>5, <1>6, <1>7, <1>8, <1>9, <1>10, <1>11,
       <1>12, <1>13, <1>14, <1>15, <1>16, <1>17, <1>18, <1>19, <1>20, <1>21,
       <1>22, <1>23, <1>24, <1>25, <1>26, <1>27, <1>28
    DEF Next, Refresher, Handle

(* What handlers hold changes only as they move.                           *)
LEMMA LifecycleStep ==
  ASSUME TypeOK, Lifecycle, FreshIsPrivate, [Next]_vars
  PROVE  Lifecycle'
  <1> USE NamesAssumption, BoundsAssumption
          DEF vars, files, registry, thread, events, ending, handler, TypeOK,
          Lifecycle, Holding
  <1>1. ASSUME NEW c \in Ctxs, CheckStop(c) PROVE Lifecycle'
    BY <1>1 DEF CheckStop, Goto
  <1>2. ASSUME NEW c \in Ctxs, TakeWakeup(c) PROVE Lifecycle'
    BY <1>2 DEF TakeWakeup, Goto
  <1>3. ASSUME NEW c \in Ctxs, Decide(c) PROVE Lifecycle'
    BY <1>3 DEF Decide, Due, Goto
  <1>4. ASSUME NEW c \in Ctxs, WaitOutCap(c) PROVE Lifecycle'
    BY <1>4 DEF WaitOutCap, Goto
  <1>5. ASSUME NEW c \in Ctxs, StartRefresh(c) PROVE Lifecycle'
    BY <1>5 DEF StartRefresh, Goto
  <1>6. ASSUME NEW c \in Ctxs, Fetch(c) PROVE Lifecycle'
    BY <1>6 DEF Fetch, Goto
  <1>7. ASSUME NEW c \in Ctxs, Enrich(c) PROVE Lifecycle'
    BY <1>7 DEF Enrich, Goto
  <1>8. ASSUME NEW c \in Ctxs, SaveSnapshot(c) PROVE Lifecycle'
    BY <1>8 DEF SaveSnapshot, Goto
  <1>9. ASSUME NEW c \in Ctxs, Finish(c) PROVE Lifecycle'
    BY <1>9 DEF Finish, Goto
  <1>10. ASSUME NEW c \in Ctxs, FailRefresh(c) PROVE Lifecycle'
    BY <1>10 DEF FailRefresh, Goto
  <1>11. ASSUME NEW c \in Ctxs, Park(c) PROVE Lifecycle'
    BY <1>11 DEF Park, Goto
  <1>12. ASSUME NEW c \in Ctxs, Wake(c) PROVE Lifecycle'
    BY <1>12 DEF Wake, Goto
  <1>13. ASSUME NEW h \in Handlers, Receive(h) PROVE Lifecycle'
    BY <1>13 DEF Receive, HGoto
  <1>14. ASSUME NEW h \in Handlers, Lookup(h) PROVE Lifecycle'
    BY <1>14 DEF Lookup, HGoto, MostRecent, Registered
  <1>15. ASSUME NEW h \in Handlers, Build(h) PROVE Lifecycle'
    BY <1>15 DEF Build, HGoto, Usable
  <1>16. ASSUME NEW h \in Handlers, Insert(h) PROVE Lifecycle'
    <2> DEFINE Holds(g) ==
           /\ hpc[g] # "idle" => user[g] \in Users
           /\ hpc[g] \in Holding => ctx[g] \in Ctxs /\ owner[ctx[g]] = user[g]
           /\ hpc[g] \notin Holding => ctx[g] = NoCtx
           /\ hpc[g] \notin {"start", "drop", "wake"} => drop[g] = NoCtx
           /\ hpc[g] = "wake" => drop[g] \in Ctxs /\ stop[drop[g]]
           /\ drop[g] \in Ctxs => owner[drop[g]] \in Users
    <2>1. owner' = owner /\ loop' = loop /\ user' = user /\ stop' = stop
      BY <1>16 DEF Insert
    <2>2. /\ hpc[h] = "insert"
          /\ user[h] \in Users
          /\ ctx[h] \in Ctxs
          /\ owner[ctx[h]] = user[h]
      BY <1>16 DEF Insert
    <2>3. CASE users[user[h]] \in Ctxs /\ Lose(h)
      <3>1. owner[users[user[h]]] = user[h]
        BY <2>2, <2>3
      <3>2. ASSUME NEW g \in Handlers PROVE Holds(g)'
        BY <2>1, <2>2, <2>3, <3>1 DEF Lose, HGoto
      <3> QED
        BY <2>1, <2>3, <3>2 DEF Lose
    <2>4. ASSUME NEW gone \in SUBSET Users, Register(h, gone),
                 \/ UNCHANGED drop
                 \/ \E v \in Users : /\ users[v] # NoCtx
                                     /\ drop' = [drop EXCEPT ![h] = users[v]]
          PROVE  Lifecycle'
      <3>1. ASSUME NEW g \in Handlers PROVE Holds(g)'
        BY <2>1, <2>2, <2>4 DEF Register, HGoto
      <3>2. ASSUME NEW u \in Users, users'[u] \in Ctxs PROVE owner'[users'[u]] = u
        BY <2>1, <2>2, <2>4, <3>2 DEF Register
      <3> QED
        BY <2>1, <3>1, <3>2
    <2>5. ASSUME NEW v \in Users, users[v] # NoCtx, Register(h, {v}),
                 drop' = [drop EXCEPT ![h] = users[v]]
          PROVE  Lifecycle'
      <3>1. {v} \in SUBSET Users
        OBVIOUS
      <3> QED
        BY <2>4, <2>5, <3>1
    <2>6. CASE Register(h, {}) /\ UNCHANGED drop
      BY <2>4, <2>6
    <2> QED
      BY <1>16, <2>3, <2>5, <2>6 DEF Insert, Win, Evictable, Registered
  <1>17. ASSUME NEW h \in Handlers, Start(h) PROVE Lifecycle'
    BY <1>17 DEF Start, HGoto
  <1>18. ASSUME NEW h \in Handlers, TearDown(h) PROVE Lifecycle'
    BY <1>18 DEF TearDown, HGoto
  <1>19. ASSUME NEW h \in Handlers, WakeStopped(h) PROVE Lifecycle'
    BY <1>19 DEF WakeStopped, HGoto, Request
  <1>20. ASSUME NEW h \in Handlers, View(h) PROVE Lifecycle'
    BY <1>20 DEF View, Answer, HGoto
  <1>21. ASSUME NEW h \in Handlers, EditList(h) PROVE Lifecycle'
    BY <1>21 DEF EditList, HGoto
  <1>22. ASSUME NEW h \in Handlers, SetInterval(h) PROVE Lifecycle'
    BY <1>22 DEF SetInterval, HGoto
  <1>23. ASSUME NEW h \in Handlers, SaveInterval(h) PROVE Lifecycle'
    BY <1>23 DEF SaveInterval, HGoto
  <1>24. ASSUME NEW h \in Handlers, RequestRefresh(h) PROVE Lifecycle'
    BY <1>24 DEF RequestRefresh, Request, Answer, HGoto
  <1>25. ASSUME NEW h \in Handlers, LoadSummary(h) PROVE Lifecycle'
    BY <1>25 DEF LoadSummary, Answer, HGoto
  <1>26. ASSUME NEW h \in Handlers, Summarize(h) PROVE Lifecycle'
    BY <1>26 DEF Summarize, Answer, HGoto
  <1>27. ASSUME NEW h \in Handlers, WriteSummary(h) PROVE Lifecycle'
    BY <1>27 DEF WriteSummary, Answer, HGoto
  <1>28. CASE UNCHANGED vars
    BY <1>28
  <1> QED
    BY <1>1, <1>2, <1>3, <1>4, <1>5, <1>6, <1>7, <1>8, <1>9, <1>10, <1>11,
       <1>12, <1>13, <1>14, <1>15, <1>16, <1>17, <1>18, <1>19, <1>20, <1>21,
       <1>22, <1>23, <1>24, <1>25, <1>26, <1>27, <1>28
    DEF Next, Refresher, Handle

(* A context that no handler and no board has is built by one handler.     *)
LEMMA FreshStep ==
  ASSUME TypeOK, Lifecycle, FreshIsPrivate, [Next]_vars
  PROVE  FreshIsPrivate'
  <1> USE NamesAssumption, BoundsAssumption
          DEF vars, files, registry, thread, events, ending, handler, TypeOK,
          Lifecycle, Holding, FreshIsPrivate
  <1>1. ASSUME NEW c \in Ctxs, CheckStop(c) PROVE FreshIsPrivate'
    BY <1>1 DEF CheckStop, Goto
  <1>2. ASSUME NEW c \in Ctxs, TakeWakeup(c) PROVE FreshIsPrivate'
    BY <1>2 DEF TakeWakeup, Goto
  <1>3. ASSUME NEW c \in Ctxs, Decide(c) PROVE FreshIsPrivate'
    BY <1>3 DEF Decide, Due, Goto
  <1>4. ASSUME NEW c \in Ctxs, WaitOutCap(c) PROVE FreshIsPrivate'
    BY <1>4 DEF WaitOutCap, Goto
  <1>5. ASSUME NEW c \in Ctxs, StartRefresh(c) PROVE FreshIsPrivate'
    BY <1>5 DEF StartRefresh, Goto
  <1>6. ASSUME NEW c \in Ctxs, Fetch(c) PROVE FreshIsPrivate'
    BY <1>6 DEF Fetch, Goto
  <1>7. ASSUME NEW c \in Ctxs, Enrich(c) PROVE FreshIsPrivate'
    BY <1>7 DEF Enrich, Goto
  <1>8. ASSUME NEW c \in Ctxs, SaveSnapshot(c) PROVE FreshIsPrivate'
    BY <1>8 DEF SaveSnapshot, Goto
  <1>9. ASSUME NEW c \in Ctxs, Finish(c) PROVE FreshIsPrivate'
    BY <1>9 DEF Finish, Goto
  <1>10. ASSUME NEW c \in Ctxs, FailRefresh(c) PROVE FreshIsPrivate'
    BY <1>10 DEF FailRefresh, Goto
  <1>11. ASSUME NEW c \in Ctxs, Park(c) PROVE FreshIsPrivate'
    BY <1>11 DEF Park, Goto
  <1>12. ASSUME NEW c \in Ctxs, Wake(c) PROVE FreshIsPrivate'
    BY <1>12 DEF Wake, Goto
  <1>13. ASSUME NEW h \in Handlers, Receive(h) PROVE FreshIsPrivate'
    BY <1>13 DEF Receive, HGoto
  <1>14. ASSUME NEW h \in Handlers, Lookup(h) PROVE FreshIsPrivate'
    BY <1>14 DEF Lookup, HGoto, MostRecent, Registered
  <1>15. ASSUME NEW h \in Handlers, Build(h) PROVE FreshIsPrivate'
    BY <1>15 DEF Build, HGoto, Usable
  <1>16. ASSUME NEW h \in Handlers, Insert(h) PROVE FreshIsPrivate'
    <2>1. CASE Lose(h)
      BY <1>16, <2>1 DEF Insert, Lose, HGoto
    <2>2. CASE users[user[h]] = NoCtx /\ Register(h, {}) /\ UNCHANGED drop
      BY <1>16, <2>2 DEF Insert, Register, HGoto
    <2>3. ASSUME NEW v \in Users, users[user[h]] = NoCtx, users[v] # NoCtx, v # user[h],
                 Register(h, {v}), drop' = [drop EXCEPT ![h] = users[v]]
          PROVE  FreshIsPrivate'
      BY <1>16, <2>3 DEF Insert, Register, HGoto
    <2> QED
      BY <1>16, <2>1, <2>2, <2>3 DEF Insert, Win, Evictable, Registered
  <1>17. ASSUME NEW h \in Handlers, Start(h) PROVE FreshIsPrivate'
    BY <1>17 DEF Start, HGoto
  <1>18. ASSUME NEW h \in Handlers, TearDown(h) PROVE FreshIsPrivate'
    BY <1>18 DEF TearDown, HGoto
  <1>19. ASSUME NEW h \in Handlers, WakeStopped(h) PROVE FreshIsPrivate'
    BY <1>19 DEF WakeStopped, HGoto, Request
  <1>20. ASSUME NEW h \in Handlers, View(h) PROVE FreshIsPrivate'
    BY <1>20 DEF View, Answer, HGoto
  <1>21. ASSUME NEW h \in Handlers, EditList(h) PROVE FreshIsPrivate'
    BY <1>21 DEF EditList, HGoto
  <1>22. ASSUME NEW h \in Handlers, SetInterval(h) PROVE FreshIsPrivate'
    BY <1>22 DEF SetInterval, HGoto
  <1>23. ASSUME NEW h \in Handlers, SaveInterval(h) PROVE FreshIsPrivate'
    BY <1>23 DEF SaveInterval, HGoto
  <1>24. ASSUME NEW h \in Handlers, RequestRefresh(h) PROVE FreshIsPrivate'
    BY <1>24 DEF RequestRefresh, Request, Answer, HGoto
  <1>25. ASSUME NEW h \in Handlers, LoadSummary(h) PROVE FreshIsPrivate'
    BY <1>25 DEF LoadSummary, Answer, HGoto
  <1>26. ASSUME NEW h \in Handlers, Summarize(h) PROVE FreshIsPrivate'
    BY <1>26 DEF Summarize, Answer, HGoto
  <1>27. ASSUME NEW h \in Handlers, WriteSummary(h) PROVE FreshIsPrivate'
    BY <1>27 DEF WriteSummary, Answer, HGoto
  <1>28. CASE UNCHANGED vars
    BY <1>28
  <1> QED
    BY <1>1, <1>2, <1>3, <1>4, <1>5, <1>6, <1>7, <1>8, <1>9, <1>10, <1>11,
       <1>12, <1>13, <1>14, <1>15, <1>16, <1>17, <1>18, <1>19, <1>20, <1>21,
       <1>22, <1>23, <1>24, <1>25, <1>26, <1>27, <1>28
    DEF Next, Refresher, Handle

(* A board leaves the registry only into the hands of a handler.           *)
LEMMA TrackedStep ==
  ASSUME TypeOK, Lifecycle, FreshIsPrivate, BuiltIsTracked, [Next]_vars
  PROVE  BuiltIsTracked'
  <1> USE NamesAssumption, BoundsAssumption
          DEF vars, files, registry, thread, events, ending, handler, TypeOK,
          Lifecycle, Holding, FreshIsPrivate, BuiltIsTracked
  <1>1. ASSUME NEW c \in Ctxs, CheckStop(c) PROVE BuiltIsTracked'
    BY <1>1 DEF CheckStop, Goto
  <1>2. ASSUME NEW c \in Ctxs, TakeWakeup(c) PROVE BuiltIsTracked'
    BY <1>2 DEF TakeWakeup, Goto
  <1>3. ASSUME NEW c \in Ctxs, Decide(c) PROVE BuiltIsTracked'
    BY <1>3 DEF Decide, Due, Goto
  <1>4. ASSUME NEW c \in Ctxs, WaitOutCap(c) PROVE BuiltIsTracked'
    BY <1>4 DEF WaitOutCap, Goto
  <1>5. ASSUME NEW c \in Ctxs, StartRefresh(c) PROVE BuiltIsTracked'
    BY <1>5 DEF StartRefresh, Goto
  <1>6. ASSUME NEW c \in Ctxs, Fetch(c) PROVE BuiltIsTracked'
    BY <1>6 DEF Fetch, Goto
  <1>7. ASSUME NEW c \in Ctxs, Enrich(c) PROVE BuiltIsTracked'
    BY <1>7 DEF Enrich, Goto
  <1>8. ASSUME NEW c \in Ctxs, SaveSnapshot(c) PROVE BuiltIsTracked'
    BY <1>8 DEF SaveSnapshot, Goto
  <1>9. ASSUME NEW c \in Ctxs, Finish(c) PROVE BuiltIsTracked'
    BY <1>9 DEF Finish, Goto
  <1>10. ASSUME NEW c \in Ctxs, FailRefresh(c) PROVE BuiltIsTracked'
    BY <1>10 DEF FailRefresh, Goto
  <1>11. ASSUME NEW c \in Ctxs, Park(c) PROVE BuiltIsTracked'
    BY <1>11 DEF Park, Goto
  <1>12. ASSUME NEW c \in Ctxs, Wake(c) PROVE BuiltIsTracked'
    BY <1>12 DEF Wake, Goto
  <1>13. ASSUME NEW h \in Handlers, Receive(h) PROVE BuiltIsTracked'
    BY <1>13 DEF Receive, HGoto
  <1>14. ASSUME NEW h \in Handlers, Lookup(h) PROVE BuiltIsTracked'
    BY <1>14 DEF Lookup, HGoto, MostRecent, Registered
  <1>15. ASSUME NEW h \in Handlers, Build(h) PROVE BuiltIsTracked'
    BY <1>15 DEF Build, HGoto, Usable
  <1>16. ASSUME NEW h \in Handlers, Insert(h) PROVE BuiltIsTracked'
    <2>1. CASE Lose(h)
      BY <1>16, <2>1 DEF Insert, Lose, HGoto
    <2>2. CASE users[user[h]] = NoCtx /\ Register(h, {}) /\ UNCHANGED drop
      BY <1>16, <2>2 DEF Insert, Register, HGoto
    <2>3. ASSUME NEW v \in Users, users[user[h]] = NoCtx, users[v] # NoCtx, v # user[h],
                 Register(h, {v}), drop' = [drop EXCEPT ![h] = users[v]]
          PROVE  BuiltIsTracked'
      BY <1>16, <2>3 DEF Insert, Register, HGoto
    <2> QED
      BY <1>16, <2>1, <2>2, <2>3 DEF Insert, Win, Evictable, Registered
  <1>17. ASSUME NEW h \in Handlers, Start(h) PROVE BuiltIsTracked'
    BY <1>17 DEF Start, HGoto
  <1>18. ASSUME NEW h \in Handlers, TearDown(h) PROVE BuiltIsTracked'
    BY <1>18 DEF TearDown, HGoto
  <1>19. ASSUME NEW h \in Handlers, WakeStopped(h) PROVE BuiltIsTracked'
    BY <1>19 DEF WakeStopped, HGoto, Request
  <1>20. ASSUME NEW h \in Handlers, View(h) PROVE BuiltIsTracked'
    BY <1>20 DEF View, Answer, HGoto
  <1>21. ASSUME NEW h \in Handlers, EditList(h) PROVE BuiltIsTracked'
    BY <1>21 DEF EditList, HGoto
  <1>22. ASSUME NEW h \in Handlers, SetInterval(h) PROVE BuiltIsTracked'
    BY <1>22 DEF SetInterval, HGoto
  <1>23. ASSUME NEW h \in Handlers, SaveInterval(h) PROVE BuiltIsTracked'
    BY <1>23 DEF SaveInterval, HGoto
  <1>24. ASSUME NEW h \in Handlers, RequestRefresh(h) PROVE BuiltIsTracked'
    BY <1>24 DEF RequestRefresh, Request, Answer, HGoto
  <1>25. ASSUME NEW h \in Handlers, LoadSummary(h) PROVE BuiltIsTracked'
    BY <1>25 DEF LoadSummary, Answer, HGoto
  <1>26. ASSUME NEW h \in Handlers, Summarize(h) PROVE BuiltIsTracked'
    <2>1. CASE Answer(h)
      BY <1>26, <2>1 DEF Summarize, Answer, HGoto
    <2>2. CASE ~Answer(h)
      BY <1>26, <2>2 DEF Summarize, HGoto
    <2> QED
      BY <2>1, <2>2
  <1>27. ASSUME NEW h \in Handlers, WriteSummary(h) PROVE BuiltIsTracked'
    BY <1>27 DEF WriteSummary, Answer, HGoto
  <1>28. CASE UNCHANGED vars
    BY <1>28
  <1> QED
    BY <1>1, <1>2, <1>3, <1>4, <1>5, <1>6, <1>7, <1>8, <1>9, <1>10, <1>11,
       <1>12, <1>13, <1>14, <1>15, <1>16, <1>17, <1>18, <1>19, <1>20, <1>21,
       <1>22, <1>23, <1>24, <1>25, <1>26, <1>27, <1>28
    DEF Next, Refresher, Handle

-----------------------------------------------------------------------------
(* The registry and its order.                                             *)

(* u's board enters as context c, and those of gone leave.                 *)
Enters(u, c, gone) ==
  /\ users' = [w \in Users |-> IF w = u THEN c ELSE IF w \in gone THEN NoCtx ELSE users[w]]
  /\ older' = [w \in Users |-> IF w \in gone THEN {} ELSE MostRecent(u)[w] \ gone]

(* The steps that the registry can tell apart.                             *)
RegistryNext ==
  \/ UNCHANGED registry
  \/ \E u \in Registered : users' = users /\ older' = MostRecent(u)
  \/ \E u \in Users \ Registered, c \in Ctxs :
       \/ Evictable(u) = {} /\ Enters(u, c, {})
       \/ \E v \in Evictable(u) : Enters(u, c, {v})

LEMMA RegistrySteps ==
  ASSUME TypeOK, Lifecycle, [Next]_vars
  PROVE  RegistryNext
  <1>1. ASSUME NEW h \in Handlers, Lookup(h) PROVE RegistryNext
    <2>1. user[h] \in Users
      BY <1>1 DEF Lookup, Lifecycle
    <2>2. CASE users[user[h]] # NoCtx
      BY <1>1, <2>1, <2>2 DEF Lookup, RegistryNext, Registered
    <2>3. CASE users[user[h]] = NoCtx
      BY <1>1, <2>3 DEF Lookup, RegistryNext, registry
    <2> QED
      BY <2>2, <2>3
  <1>2. ASSUME NEW h \in Handlers, Insert(h) PROVE RegistryNext
    <2>1. user[h] \in Users /\ ctx[h] \in Ctxs
      BY <1>2 DEF Insert, Lifecycle, Holding
    <2>2. CASE users[user[h]] # NoCtx
      BY <1>2, <2>2 DEF Insert, Lose, RegistryNext
    <2>3. CASE users[user[h]] = NoCtx
      <3>1. user[h] \in Users \ Registered
        BY <2>1, <2>3 DEF Registered
      <3>2. \A gone : Register(h, gone) => Enters(user[h], ctx[h], gone)
        BY DEF Register, Enters
      <3>3. \/ Evictable(user[h]) = {} /\ Register(h, {})
            \/ \E v \in Evictable(user[h]) : Register(h, {v})
        BY <1>2, <2>3 DEF Insert, Win
      <3> QED
        BY <2>1, <3>1, <3>2, <3>3 DEF RegistryNext
    <2> QED
      BY <2>2, <2>3
  <1>3. CASE UNCHANGED registry
    BY <1>3 DEF RegistryNext
  <1>4. ASSUME NEW c \in Ctxs, Refresher(c) PROVE UNCHANGED registry
    BY <1>4 DEF Refresher, CheckStop, TakeWakeup, Decide, WaitOutCap, StartRefresh, Fetch, Enrich,
                SaveSnapshot, Finish, FailRefresh, Park, Wake
  <1>5. ASSUME NEW h \in Handlers,
               \/ Receive(h) \/ Build(h) \/ Start(h) \/ TearDown(h) \/ WakeStopped(h) \/ View(h)
               \/ EditList(h) \/ SetInterval(h) \/ SaveInterval(h) \/ RequestRefresh(h)
               \/ LoadSummary(h) \/ Summarize(h) \/ WriteSummary(h)
        PROVE  UNCHANGED registry
    BY <1>5 DEF Receive, Build, Start, TearDown, WakeStopped, View, EditList, SetInterval,
                SaveInterval, RequestRefresh, LoadSummary, Summarize, WriteSummary
  <1> QED
    BY <1>1, <1>2, <1>3, <1>4, <1>5 DEF Next, Handle, vars

(* Of any of the boards one was used least recently.                       *)
LEMMA OldestExists ==
  ASSUME IsFiniteSet(Registered), LruOrder, NEW others \in SUBSET Registered, others # {}
  PROVE  \E v \in others : older[v] \cap others = {}
  <1> DEFINE Below(v) == older[v] \cap others
             T == {Below(v) : v \in others}
             R == StrictSubsetOrdering(others)
  <1>1. IsFiniteSet(others)
    BY FS_Subset
  <1>2. IsWellFoundedOn(R, SUBSET others)
    BY <1>1, FS_StrictSubsetOrderingWellFounded, FS_FiniteSubsetsOfFinite
  <1>3. T \subseteq SUBSET others /\ T # {}
    OBVIOUS
  <1>4. PICK least \in T : \A lower \in T : <<lower, least>> \notin R
    <2> HIDE DEF T, R
    <2> QED
      BY <1>2, <1>3, WFMin
  <1>5. PICK v \in others : least = Below(v)
    OBVIOUS
  <1>6. ASSUME NEW w \in Below(v) PROVE FALSE
    <2>1. w \in others /\ w \in older[v] /\ older[w] \subseteq older[v] /\ w \notin older[w]
      BY <1>6 DEF LruOrder, Registered
    <2>2. Below(w) \subseteq Below(v) /\ Below(w) # Below(v)
      BY <1>6, <2>1
    <2>3. <<Below(w), Below(v)>> \in R
      BY <2>2 DEF StrictSubsetOrdering
    <2> QED
      BY <1>4, <1>5, <2>1, <2>3
  <1> QED
    BY <1>5, <1>6

(* A board that is used becomes the newest.                                *)
LEMMA MovedToEnd ==
  ASSUME TypeOK, LruOrder, NEW u \in Registered, users' = users, older' = MostRecent(u)
  PROVE  LruOrder'
  <1>0. /\ \A v \in Users : older[v] \subseteq Registered /\ v \notin older[v]
        /\ \A v \in Users \ Registered : older[v] = {}
        /\ \A v, w \in Registered : v # w => v \in older[w] \/ w \in older[v]
        /\ \A v, w \in Registered : v \in older[w] => older[v] \subseteq older[w]
    BY DEF LruOrder
  <1>1. Registered' = Registered /\ Registered \subseteq Users
    BY DEF Registered
  <1>2. /\ older'[u] = Registered \ {u}
        /\ \A v \in Users \ {u} : older'[v] = older[v] \ {u}
    BY <1>1 DEF MostRecent
  <1>3. ASSUME NEW v \in Users PROVE older'[v] \subseteq Registered \ {v}
    BY <1>0, <1>2, <1>3
  <1>4. ASSUME NEW v \in Users \ Registered PROVE older'[v] = {}
    BY <1>0, <1>2, <1>4
  <1>5. ASSUME NEW v \in Registered, NEW w \in Registered, v # w
        PROVE  v \in older'[w] \/ w \in older'[v]
    BY <1>0, <1>1, <1>2, <1>5
  <1>6. ASSUME NEW v \in Registered, NEW w \in Registered, v \in older'[w]
        PROVE  older'[v] \subseteq older'[w]
    <2>1. v # u
      BY <1>1, <1>2, <1>6
    <2>2. older'[v] = older[v] \ {u} /\ older[v] \subseteq Registered
      BY <1>0, <1>1, <1>2, <2>1
    <2>3. CASE w = u
      BY <1>2, <2>2, <2>3
    <2>4. CASE w # u
      BY <1>0, <1>1, <1>2, <1>6, <2>2, <2>4
    <2> QED
      BY <2>3, <2>4
  <1> QED
    BY <1>1, <1>3, <1>4, <1>5, <1>6 DEF LruOrder

(* Who is registered when a board has entered.                             *)
LEMMA RegisteredThen ==
  ASSUME NEW u \in Users \ Registered, NEW c \in Ctxs, NEW gone \in SUBSET Registered,
         Enters(u, c, gone)
  PROVE  Registered' = (Registered \ gone) \cup {u}
  <1>1. c # NoCtx /\ u \notin gone
    BY NamesAssumption
  <1>2. \A w \in Users : users'[w] = IF w = u THEN c ELSE IF w \in gone THEN NoCtx ELSE users[w]
    BY DEF Enters
  <1> QED
    BY <1>1, <1>2 DEF Registered

LEMMA EntersInOrder ==
  ASSUME TypeOK, LruOrder, NEW u \in Users \ Registered, NEW c \in Ctxs,
         NEW gone \in SUBSET Registered, Enters(u, c, gone)
  PROVE  LruOrder'
  <1>0. /\ \A v \in Users : older[v] \subseteq Registered /\ v \notin older[v]
        /\ \A v \in Users \ Registered : older[v] = {}
        /\ \A v, w \in Registered : v # w => v \in older[w] \/ w \in older[v]
        /\ \A v, w \in Registered : v \in older[w] => older[v] \subseteq older[w]
    BY DEF LruOrder
  <1>1. Registered' = (Registered \ gone) \cup {u} /\ Registered \subseteq Users /\ u \notin gone
    BY RegisteredThen DEF Registered
  <1>2. /\ older'[u] = Registered \ gone
        /\ \A v \in gone : older'[v] = {}
        /\ \A v \in Users \ (gone \cup {u}) : older'[v] = older[v] \ gone
    <2>1. \A v \in Users : older[v] \ {u} = older[v]
      BY <1>0
    <2>2. \A v \in Users : older'[v] = IF v \in gone THEN {} ELSE MostRecent(u)[v] \ gone
      BY DEF Enters
    <2>3. /\ MostRecent(u)[u] = Registered \ {u}
          /\ \A v \in Users \ {u} : MostRecent(u)[v] = older[v]
      BY <2>1 DEF MostRecent
    <2> QED
      BY <1>1, <2>2, <2>3
  <1>3. ASSUME NEW v \in Users PROVE older'[v] \subseteq Registered' \ {v}
    BY <1>0, <1>1, <1>2, <1>3
  <1>4. ASSUME NEW v \in Users \ Registered' PROVE older'[v] = {}
    BY <1>0, <1>1, <1>2, <1>4
  <1>5. ASSUME NEW v \in Registered', NEW w \in Registered', v # w
        PROVE  v \in older'[w] \/ w \in older'[v]
    BY <1>0, <1>1, <1>2, <1>5
  <1>6. ASSUME NEW v \in Registered', NEW w \in Registered', v \in older'[w]
        PROVE  older'[v] \subseteq older'[w]
    <2>1. v \in Registered \ gone
      BY <1>0, <1>1, <1>2, <1>6
    <2>2. older'[v] = older[v] \ gone /\ older[v] \subseteq Registered
      BY <1>0, <1>1, <1>2, <2>1
    <2>3. CASE w = u
      BY <1>2, <2>2, <2>3
    <2>4. CASE w # u
      BY <1>0, <1>1, <1>2, <1>6, <2>1, <2>2, <2>4
    <2> QED
      BY <2>3, <2>4
  <1> QED
    BY <1>3, <1>4, <1>5, <1>6 DEF LruOrder

(* After an insertion the loop that evicts would find nothing more to do.  *)
LEMMA EntersWithinLimit ==
  ASSUME TypeOK, RegistryInv, NEW u \in Users \ Registered, NEW c \in Ctxs,
         \/ Evictable(u) = {} /\ Enters(u, c, {})
         \/ \E v \in Evictable(u) : Enters(u, c, {v})
  PROVE  /\ IsFiniteSet(Registered')
         /\ \/ Cardinality(Registered') <= MaxUsers
            \/ Registered' \ {u, DefaultUser} = {}
  <1> DEFINE others == Registered \ {u, DefaultUser}
  <1> USE BoundsAssumption
  <1>1. /\ IsFiniteSet(Registered) /\ Cardinality(Registered) \in Nat
        /\ IsFiniteSet(Registered \cup {u})
        /\ Cardinality(Registered \cup {u}) = Cardinality(Registered) + 1
    BY FS_CardinalityType, FS_AddElement DEF RegistryInv
  <1>2. CASE Evictable(u) = {} /\ Enters(u, c, {})
    <2>1. Registered' = Registered \cup {u}
      BY <1>2, RegisteredThen
    <2>2. Cardinality(Registered \cup {u}) <= MaxUsers \/ others = {}
      BY <1>2, OldestExists DEF Evictable, RegistryInv
    <2> QED
      BY <1>1, <2>1, <2>2
  <1>3. ASSUME NEW v \in Evictable(u), Enters(u, c, {v})
        PROVE  /\ IsFiniteSet(Registered')
               /\ \/ Cardinality(Registered') <= MaxUsers
                  \/ Registered' \ {u, DefaultUser} = {}
    <2>1. v \in others
      BY DEF Evictable
    <2>2. Registered' = (Registered \ {v}) \cup {u}
      BY <1>3, <2>1, RegisteredThen
    <2>3. IsFiniteSet(Registered \ {v}) /\ Cardinality(Registered \ {v}) = Cardinality(Registered) - 1
      BY <1>1, <2>1, FS_RemoveElement
    <2>4. IsFiniteSet(Registered') /\ Cardinality(Registered') = Cardinality(Registered)
      BY <1>1, <2>2, <2>3, FS_AddElement
    <2>5. CASE Cardinality(Registered) <= MaxUsers
      BY <2>4, <2>5
    <2>6. CASE Cardinality(Registered \ {DefaultUser}) <= 1
      <3>1. IsFiniteSet(Registered \ {DefaultUser}) /\ v \in Registered \ {DefaultUser}
        BY <1>1, <2>1, FS_RemoveElement
      <3>2. IsFiniteSet((Registered \ {DefaultUser}) \ {v})
            /\ Cardinality((Registered \ {DefaultUser}) \ {v})
                 = Cardinality(Registered \ {DefaultUser}) - 1
        BY <3>1, FS_RemoveElement
      <3>3. Cardinality((Registered \ {DefaultUser}) \ {v}) = 0
        BY <2>6, <3>1, <3>2, FS_CardinalityType
      <3>4. (Registered \ {DefaultUser}) \ {v} = {}
        BY <3>2, <3>3, FS_EmptySet
      <3> QED
        BY <2>2, <2>4, <3>4
    <2> QED
      BY <2>5, <2>6 DEF RegistryInv, RegistryBounded
  <1> QED
    BY <1>2, <1>3

LEMMA RegistryStep ==
  ASSUME TypeOK, Lifecycle, RegistryInv, [Next]_vars
  PROVE  RegistryInv'
  <1>1. CASE UNCHANGED registry
    BY <1>1 DEF registry, RegistryInv, RegistryBounded, LruOrder, Registered
  <1>2. ASSUME NEW u \in Registered, users' = users, older' = MostRecent(u)
        PROVE  RegistryInv'
    <2>1. Registered' = Registered
      BY <1>2 DEF Registered
    <2> QED
      BY <1>2, <2>1, MovedToEnd DEF RegistryInv, RegistryBounded
  <1>3. ASSUME NEW u \in Users \ Registered, NEW c \in Ctxs,
               \/ Evictable(u) = {} /\ Enters(u, c, {})
               \/ \E v \in Evictable(u) : Enters(u, c, {v})
        PROVE  RegistryInv'
    <2>1. IsFiniteSet(Registered')
          /\ (Cardinality(Registered') <= MaxUsers \/ Registered' \ {u, DefaultUser} = {})
      BY <1>3, EntersWithinLimit
    <2>2. LruOrder'
      <3>1. \A v \in Evictable(u) : {v} \in SUBSET Registered
        BY DEF Evictable
      <3> QED
        BY <1>3, <3>1, EntersInOrder DEF RegistryInv
    <2>3. RegistryBounded'
      <3>1. CASE Cardinality(Registered') <= MaxUsers
        BY <3>1 DEF RegistryBounded
      <3>2. CASE Registered' \ {u, DefaultUser} = {}
        <4>1. Registered' \ {DefaultUser} \in SUBSET {u}
          BY <3>2
        <4>2. IsFiniteSet({u}) /\ Cardinality({u}) = 1
          BY FS_Singleton
        <4>3. Cardinality(Registered' \ {DefaultUser}) <= 1
          BY <4>1, <4>2, FS_Subset
        <4> QED
          BY <4>3 DEF RegistryBounded
      <3> QED
        BY <2>1, <3>1, <3>2
    <2> QED
      BY <2>1, <2>2, <2>3 DEF RegistryInv
  <1> QED
    BY <1>1, <1>2, <1>3, RegistrySteps DEF RegistryNext

-----------------------------------------------------------------------------
LEMMA IInvInit == Init => IInv
  <1> SUFFICES ASSUME Init PROVE IInv
    OBVIOUS
  <1> USE NamesAssumption, BoundsAssumption
  <1>1. summaryFile \in [Users -> Snapshots]
    BY DEF Init, Snapshots
  <1>2. /\ users \in [Users -> Ctxs \cup {NoCtx}] /\ older \in [Users -> SUBSET Users]
        /\ snapshotFile \in [Users -> Snapshots] /\ settings \in [Users -> BOOLEAN]
    BY DEF Init, Snapshots
  <1>3. requests \in 0..MaxRequests
    BY DEF Init
  <1>4. TypeOK
    BY <1>1, <1>2, <1>3 DEF Init, TypeOK, Snapshots, Ops, LoopStates, HandlerStates
  <1>5. Lifecycle
    BY DEF Init, Lifecycle, Holding
  <1>6. FreshIsPrivate /\ BuiltIsTracked /\ QueuedWillRun /\ EditsAreFollowedUp /\ AutoIsArmed
    BY DEF Init, FreshIsPrivate, BuiltIsTracked, QueuedWillRun, EditsAreFollowedUp,
           AutoIsArmed
  <1>7. RegistryInv
    <2>1. Registered = {}
      BY DEF Init, Registered
    <2>2. IsFiniteSet(Registered) /\ Cardinality(Registered) = 0
      BY <2>1, FS_EmptySet
    <2> QED
      BY <2>1, <2>2 DEF Init, RegistryInv, RegistryBounded, LruOrder
  <1> QED
    BY <1>4, <1>5, <1>6, <1>7 DEF IInv

LEMMA IInvStep == IInv /\ [Next]_vars => IInv'
  BY TypeStep, QueuedStep, EditsStep, AutoStep, LifecycleStep, FreshStep, TrackedStep,
     RegistryStep
  DEF IInv

LEMMA IInvCorrect == Spec => []IInv
  BY IInvInit, IInvStep, PTL DEF Spec

(* Every variable keeps its type; in particular a board never renders a    *)
(* snapshot of another version of the code (load_snapshot).                *)
THEOREM TypeCorrect == Spec => []TypeOK
  <1>1. IInv => TypeOK
    BY DEF IInv
  <1> QED
    BY <1>1, IInvCorrect, PTL

(* A refresh shown as queued will run (take_wakeup, pending).              *)
THEOREM QueuedRefreshesRun == Spec => []QueuedWillRun
  <1>1. IInv => QueuedWillRun
    BY DEF IInv
  <1> QED
    BY <1>1, IInvCorrect, PTL

(* An edit of a list is followed by a refresh that sees it: one has begun, *)
(* is queued, or is about to be asked for (hidden_add, watchlist_add).     *)
THEOREM EditsAreNotForgotten == Spec => []EditsAreFollowedUp
  <1>1. IInv => EditsAreFollowedUp
    BY DEF IInv
  <1> QED
    BY <1>1, IInvCorrect, PTL

(* Switching the interval on reaches a thread that sleeps without one      *)
(* (api_interval).                                                         *)
THEOREM AutoReachesSleepers == Spec => []AutoIsArmed
  <1>1. IInv => AutoIsArmed
    BY DEF IInv
  <1> QED
    BY <1>1, IInvCorrect, PTL

(* A thread that nobody stops belongs to a registered board, however       *)
(* lookups, insertions and evictions interleave (get_ctx).                 *)
THEOREM RunningThreadsAreRegistered == Spec => []RunningIsRegistered
  <1>1. IInv => RunningIsRegistered
    BY DEF IInv, TypeOK, Lifecycle, FreshIsPrivate, BuiltIsTracked, RunningIsRegistered,
           Started, Holding
  <1> QED
    BY <1>1, IInvCorrect, PTL

(* The registry keeps its limit, though the loop that evicts gives up one  *)
(* board for each that enters: the default user's board and one other are  *)
(* the only ones it ever has above it (get_ctx).                           *)
THEOREM RegistryKeepsItsLimit == Spec => []RegistryBounded
  <1>1. IInv => RegistryBounded
    BY DEF IInv, RegistryInv
  <1> QED
    BY <1>1, IInvCorrect, PTL

(* How many an image has.                                                  *)
LEMMA ImageBound ==
  ASSUME NEW S, IsFiniteSet(S), NEW f, DOMAIN f = S
  PROVE  /\ IsFiniteSet({f[x] : x \in S})
         /\ Cardinality({f[x] : x \in S}) <= Cardinality(S)
  <1> DEFINE T == {f[x] : x \in S}
             g == [x \in S |-> f[x]]
  <1>1. g \in Surjection(S, T)
    BY DEF Surjection
  <1> QED
    BY <1>1, FS_Surjection

(* However many boards are asked for, the threads that nobody has told to  *)
(* stop are at most as many as the registry's limit, one, and the requests *)
(* served at the same time (get_ctx: "cannot accumulate threads").         *)
THEOREM ThreadsDoNotPileUp == Spec => []ThreadsBounded
  <1>1. ASSUME IInv, IsFiniteSet(Handlers)
        PROVE  Cardinality({c \in Ctxs : Started(c) /\ ~stop[c]})
                 <= MaxUsers + 1 + Cardinality(Handlers)
    <2> DEFINE running    == {c \in Ctxs : Started(c) /\ ~stop[c]}
               registered == {users[u] : u \in Registered}
               kept       == [u \in Registered |-> users[u]]
               dropped    == {drop[h] : h \in Handlers}
    <2> USE BoundsAssumption
    <2>1. IsFiniteSet(Registered) /\ Cardinality(Registered) \in Nat
          /\ Cardinality(Registered) <= MaxUsers + 1
      <3>1. IsFiniteSet(Registered) /\ Cardinality(Registered) \in Nat
        BY <1>1, FS_CardinalityType DEF IInv, RegistryInv
      <3>2. Cardinality(Registered \ {DefaultUser})
              = IF DefaultUser \in Registered THEN Cardinality(Registered) - 1
                ELSE Cardinality(Registered)
        BY <3>1, FS_RemoveElement
      <3>3. Cardinality(Registered \ {DefaultUser}) \in Nat
        BY <3>1, FS_RemoveElement, FS_CardinalityType
      <3> QED
        BY <1>1, <3>1, <3>2, <3>3 DEF IInv, RegistryInv, RegistryBounded
    <2>2. IsFiniteSet(registered) /\ Cardinality(registered) <= Cardinality(Registered)
      <3>1. {kept[u] : u \in Registered} = registered /\ DOMAIN kept = Registered
        OBVIOUS
      <3>2. /\ IsFiniteSet({kept[u] : u \in Registered})
            /\ Cardinality({kept[u] : u \in Registered}) <= Cardinality(Registered)
        <4> HIDE DEF kept
        <4> QED
          BY <2>1, <3>1, ImageBound
      <3> HIDE DEF kept, registered
      <3> QED
        BY <3>1, <3>2
    <2>3. IsFiniteSet(dropped) /\ Cardinality(dropped) <= Cardinality(Handlers)
      <3>1. DOMAIN drop = Handlers
        BY <1>1 DEF IInv, TypeOK
      <3> QED
        BY <1>1, <3>1, ImageBound
    <2>4. running \subseteq registered \cup dropped
      <3>1. ASSUME NEW c \in running PROVE c \in registered \cup dropped
        <4>1. owner[c] \in Users
          BY <1>1 DEF IInv, TypeOK, Lifecycle, Started
        <4>2. users[owner[c]] = c \/ \E h \in Handlers : drop[h] = c
          BY <1>1 DEF IInv, TypeOK, Lifecycle, FreshIsPrivate, BuiltIsTracked, Started, Holding
        <4>3. c # NoCtx
          BY NamesAssumption
        <4> QED
          BY <4>1, <4>2, <4>3 DEF Registered
      <3> QED
        BY <3>1
    <2>5. IsFiniteSet(registered \cup dropped)
          /\ Cardinality(registered \cup dropped) <= Cardinality(registered) + Cardinality(dropped)
      <3>1. /\ Cardinality(registered) \in Nat /\ Cardinality(dropped) \in Nat
            /\ Cardinality(registered \cap dropped) \in Nat
        BY <2>2, <2>3, FS_CardinalityType, FS_Intersection
      <3>2. IsFiniteSet(registered \cup dropped)
            /\ Cardinality(registered \cup dropped)
                 = Cardinality(registered) + Cardinality(dropped) - Cardinality(registered \cap dropped)
        BY <2>2, <2>3, FS_Union
      <3> QED
        BY <3>1, <3>2
    <2>6. Cardinality(running) <= Cardinality(registered \cup dropped)
      BY <2>4, <2>5, FS_Subset
    <2>7. /\ Cardinality(registered) \in Nat /\ Cardinality(dropped) \in Nat
          /\ Cardinality(registered \cup dropped) \in Nat /\ Cardinality(Handlers) \in Nat
          /\ Cardinality(running) \in Nat
      BY <1>1, <2>2, <2>3, <2>4, <2>5, FS_CardinalityType, FS_Subset
    <2> HIDE DEF running, registered, dropped
    <2>8. Cardinality(running) <= MaxUsers + 1 + Cardinality(Handlers)
      BY <2>1, <2>2, <2>3, <2>5, <2>6, <2>7
    <2> QED
      BY <2>8 DEF running
  <1>2. IInv => ThreadsBounded
    BY <1>1 DEF ThreadsBounded
  <1> QED
    BY <1>2, IInvCorrect, PTL

=============================================================================
