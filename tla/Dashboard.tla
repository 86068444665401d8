------------------------------ MODULE Dashboard ------------------------------
(***************************************************************************)
(* The web process of gerrit_dashboard (app.py, store.py, fetcher.py): a   *)
(* registry of boards, at most MaxUsers of them and the least recently     *)
(* used one torn down for a new one; one refresher thread per board, which *)
(* sleeps until its interval is over or a request wakes it, waits out the  *)
(* rate cap, fetches, and saves a snapshot and its summary; and the        *)
(* request handlers that look boards up, edit the user's lists, change the *)
(* interval and ask for refreshes.                                         *)
(*                                                                         *)
(* A context is one UserCtx object with its thread; a user may have had    *)
(* several, one after the other.  What a snapshot holds is abstracted to   *)
(* whether this version of the code wrote it.                              *)
(*                                                                         *)
(* Bounds: Ctxs, the contexts ever built; MaxRequests, the requests ever   *)
(* served.                                                                 *)
(***************************************************************************)
EXTENDS Naturals, FiniteSets

CONSTANTS
  Users,        \* canonical user names
  DefaultUser,  \* the user whose context is never evicted, or NoUser
  NoUser,
  Handlers,     \* request threads of the web server
  Ctxs,         \* the UserCtx objects the process may build
  NoCtx,
  MaxUsers,     \* cfg.max_users
  OnDisk,       \* the kinds of snapshot an earlier run may have left
  MaxRequests

ASSUME NamesAssumption == /\ NoUser \notin Users
                          /\ NoCtx \notin Ctxs
                          /\ OnDisk \subseteq {"none", "old", "ok"}
                          /\ DefaultUser \in Users \cup {NoUser}
ASSUME BoundsAssumption == /\ MaxUsers \in Nat \ {0}
                           /\ MaxRequests \in Nat

(* A snapshot of this version of the code, of an older one, or none; a     *)
(* summary is made from one.                                               *)
Snapshots == {"none", "old", "ok"}

Ops == {"view", "refresh", "edit", "auto", "manual", "index"}

VARIABLES
  users,        \* the registry: the context of each user, or NoCtx
  older,        \* its order: who was used less recently than each user
  snapshotFile, \* data/users/<user>/snapshot.json
  summaryFile,  \* data/users/<user>/summary.json
  settings,     \* settings.json: is auto-refresh on?
  owner,        \* whose board a context is; NoUser before it is built
  loop,         \* where the context's refresher thread is
  wakeup,       \* AppState.wakeup
  stop,         \* AppState.stop
  pending,      \* AppState.pending
  auto,         \* AppState.interval > 0
  ran,          \* a refresh has ended, so the rate cap may be in force
  first,        \* the loop's local: no round has ended yet
  snapshot,     \* AppState.snapshot
  closed,       \* the fetcher's pool has been shut down
  unseen,       \* history: a list was edited since a refresh last began
  hpc,          \* where each handler is
  op,           \* the request it serves
  user,         \* for whom
  ctx,          \* the context it looked up or built
  drop,         \* the context it must tear down, or NoCtx
  read,         \* the summary it is about to write
  requests      \* how many requests there have been

files    == <<snapshotFile, summaryFile, settings>>
registry == <<users, older>>
thread   == <<loop, ran, first, snapshot>>
events   == <<wakeup, pending, unseen>>
ending   == <<stop, closed>>
handler  == <<hpc, op, user, ctx, drop, read, requests>>
vars     == <<files, registry, owner, thread, events, ending, auto, handler>>

LoopStates == {"unbuilt", "new", "top", "take", "asked", "unasked",
               "waiting", "refresh", "fetch", "enrich", "hung", "save",
               "summary", "park", "timed", "untimed", "ended"}

HandlerStates == {"idle", "lookup", "build", "insert", "start", "drop", "wake",
                  "act", "settings", "request", "index", "backfill", "write"}

TypeOK ==
  /\ users \in [Users -> Ctxs \cup {NoCtx}]
  /\ older \in [Users -> SUBSET Users]
  /\ snapshotFile \in [Users -> Snapshots]
  /\ summaryFile \in [Users -> Snapshots]
  /\ settings \in [Users -> BOOLEAN]
  /\ owner \in [Ctxs -> Users \cup {NoUser}]
  /\ loop \in [Ctxs -> LoopStates]
  /\ wakeup \in [Ctxs -> BOOLEAN]
  /\ stop \in [Ctxs -> BOOLEAN]
  /\ pending \in [Ctxs -> BOOLEAN]
  /\ auto \in [Ctxs -> BOOLEAN]
  /\ ran \in [Ctxs -> BOOLEAN]
  /\ first \in [Ctxs -> BOOLEAN]
  /\ snapshot \in [Ctxs -> Snapshots \ {"old"}]
  /\ closed \in [Ctxs -> BOOLEAN]
  /\ unseen \in [Ctxs -> BOOLEAN]
  /\ hpc \in [Handlers -> HandlerStates]
  /\ op \in [Handlers -> Ops]
  /\ user \in [Handlers -> Users \cup {NoUser}]
  /\ ctx \in [Handlers -> Ctxs \cup {NoCtx}]
  /\ drop \in [Handlers -> Ctxs \cup {NoCtx}]
  /\ read \in [Handlers -> Snapshots]
  /\ requests \in 0..MaxRequests

(* The files are those an earlier run of the server left: a board without  *)
(* a snapshot, one saved by another version of the code, or a saved one,   *)
(* whose summary may be missing.                                           *)
Init ==
  /\ users = [u \in Users |-> NoCtx]
  /\ older = [u \in Users |-> {}]
  /\ snapshotFile \in [Users -> OnDisk]
  /\ \E missing \in SUBSET Users :
       summaryFile = [u \in Users |->
         IF u \in missing \/ snapshotFile[u] # "ok" THEN "none" ELSE "ok"]
  /\ settings = [u \in Users |-> FALSE]
  /\ owner = [c \in Ctxs |-> NoUser]
  /\ loop = [c \in Ctxs |-> "unbuilt"]
  /\ wakeup = [c \in Ctxs |-> FALSE]
  /\ stop = [c \in Ctxs |-> FALSE]
  /\ pending = [c \in Ctxs |-> FALSE]
  /\ auto = [c \in Ctxs |-> FALSE]
  /\ ran = [c \in Ctxs |-> FALSE]
  /\ first = [c \in Ctxs |-> TRUE]
  /\ snapshot = [c \in Ctxs |-> "none"]
  /\ closed = [c \in Ctxs |-> FALSE]
  /\ unseen = [c \in Ctxs |-> FALSE]
  /\ hpc = [h \in Handlers |-> "idle"]
  /\ op = [h \in Handlers |-> "view"]
  /\ user = [h \in Handlers |-> NoUser]
  /\ ctx = [h \in Handlers |-> NoCtx]
  /\ drop = [h \in Handlers |-> NoCtx]
  /\ read = [h \in Handlers |-> "none"]
  /\ requests = 0

-----------------------------------------------------------------------------
(* The refresher thread: _refresher_loop, refresh_once, _refresh_locked.   *)

Goto(c, to) == loop' = [loop EXCEPT ![c] = to]

(* while not state.stop.is_set()                                           *)
CheckStop(c) ==
  /\ loop[c] = "top"
  /\ Goto(c, IF stop[c] THEN "ended" ELSE "take")
  /\ UNCHANGED <<files, registry, owner, ran, first, snapshot, events, ending,
                 auto, handler>>

(* take_wakeup: reads and clears the event in one step.                    *)
TakeWakeup(c) ==
  /\ loop[c] = "take"
  /\ Goto(c, IF wakeup[c] THEN "asked" ELSE "unasked")
  /\ wakeup' = [wakeup EXCEPT ![c] = FALSE]
  /\ UNCHANGED <<files, registry, owner, ran, first, snapshot, pending, unseen,
                 ending, auto, handler>>

(* A round refreshes when the interval is on, when it was asked to, and    *)
(* once when the board has no snapshot at all.                             *)
Due(c) ==
  \/ auto[c]
  \/ loop[c] = "asked"
  \/ (first[c] /\ snapshot[c] = "none")

(* Mutant: a request within the rate cap's window is dropped, not deferred. *)
DecideDropping(c) ==
  /\ loop[c] \in {"asked", "unasked"}
  /\ \/ Goto(c, "park")    /\ (Due(c) => ran[c])
     \/ Goto(c, "refresh") /\ Due(c)
  /\ UNCHANGED <<files, registry, owner, ran, first, snapshot, events, ending, auto,
                 handler>>

(* cooldown_remaining is looked at once, when a refresh is due; how much   *)
(* of the window is left is a matter of time.                              *)
Decide(c) ==
  /\ loop[c] \in {"asked", "unasked"}
  /\ \/ Goto(c, "park")    /\ ~Due(c)
     \/ Goto(c, "waiting") /\ Due(c) /\ ran[c]
     \/ Goto(c, "refresh") /\ Due(c)
  /\ UNCHANGED <<files, registry, owner, ran, first, snapshot, events, ending, auto,
                 handler>>

(* state.stop.wait(timeout=wait): a stop ends the thread, the end of the   *)
(* window lets the refresh go on.                                          *)
WaitOutCap(c) ==
  /\ loop[c] = "waiting"
  /\ Goto(c, IF stop[c] THEN "ended" ELSE "refresh")
  /\ UNCHANGED <<files, registry, owner, ran, first, snapshot, events, ending, auto,
                 handler>>

(* The refresh lock is free, as only this thread takes it.                 *)
StartRefresh(c) ==
  /\ loop[c] = "refresh"
  /\ Goto(c, "fetch")
  /\ pending' = [pending EXCEPT ![c] = FALSE]
  /\ unseen' = [unseen EXCEPT ![c] = FALSE]
  /\ UNCHANGED <<files, registry, owner, ran, first, snapshot, wakeup, ending,
                 auto, handler>>

(* fetch_bundle: the queries, the user's lists, then the comments of the   *)
(* changes that moved, which need the pool and are skipped when none did.  *)
Fetch(c) ==
  /\ loop[c] = "fetch"
  /\ \E to \in {"enrich", "save"} : /\ to = "enrich" => ~closed[c]
                                    /\ Goto(c, to)
  /\ UNCHANGED <<files, registry, owner, ran, first, snapshot, events, ending,
                 auto, handler>>

(* enrich_threads waits with as_completed: a future that the pool's        *)
(* shutdown cancelled before a worker took it is never reported.           *)
Enrich(c) ==
  /\ loop[c] = "enrich"
  /\ \E to \in {"save", "hung"} : /\ to = "hung" => closed[c]
                                  /\ Goto(c, to)
  /\ UNCHANGED <<files, registry, owner, ran, first, snapshot, events, ending,
                 auto, handler>>

(* Gerrit away, a closed pool, a disk that is full: the old snapshot       *)
(* stays, and the rate cap applies all the same.                           *)
FailRefresh(c) ==
  /\ loop[c] \in {"fetch", "enrich", "save", "summary"}
  /\ Goto(c, "park")
  /\ ran' = [ran EXCEPT ![c] = TRUE]
  /\ UNCHANGED <<files, registry, owner, first, snapshot, events, ending, auto,
                 handler>>

(* save_snapshot: two files, each written under the store's lock.          *)
SaveSnapshot(c) ==
  /\ loop[c] = "save"
  /\ Goto(c, "summary")
  /\ snapshotFile' = [snapshotFile EXCEPT ![owner[c]] = "ok"]
  /\ UNCHANGED <<summaryFile, settings, registry, owner, ran, first, snapshot,
                 events, ending, auto, handler>>

(* The summary is written and the snapshot rendered from then on.          *)
Finish(c) ==
  /\ loop[c] = "summary"
  /\ Goto(c, "park")
  /\ summaryFile' = [summaryFile EXCEPT ![owner[c]] = "ok"]
  /\ snapshot' = [snapshot EXCEPT ![c] = "ok"]
  /\ ran' = [ran EXCEPT ![c] = TRUE]
  /\ UNCHANGED <<snapshotFile, settings, registry, owner, first, events, ending, auto,
                 handler>>

(* state.wakeup.wait: its timeout is chosen here, once.                    *)
Park(c) ==
  /\ loop[c] = "park"
  /\ Goto(c, IF auto[c] THEN "timed" ELSE "untimed")
  /\ first' = [first EXCEPT ![c] = FALSE]
  /\ UNCHANGED <<files, registry, owner, ran, snapshot, events, ending, auto,
                 handler>>

Wake(c) ==
  /\ loop[c] = "timed" \/ (loop[c] = "untimed" /\ wakeup[c])
  /\ Goto(c, "top")
  /\ UNCHANGED <<files, registry, owner, ran, first, snapshot, events, ending,
                 auto, handler>>

Refresher(c) ==
  \/ CheckStop(c) \/ TakeWakeup(c) \/ Decide(c) \/ WaitOutCap(c)
  \/ StartRefresh(c) \/ Fetch(c) \/ Enrich(c) \/ SaveSnapshot(c) \/ Finish(c)
  \/ FailRefresh(c) \/ Park(c) \/ Wake(c)

-----------------------------------------------------------------------------
(* A request: canonical_user has resolved its user, get_ctx looks the      *)
(* board's context up or builds it, and the route acts on it.              *)

HGoto(h, to) == hpc' = [hpc EXCEPT ![h] = to]

(* The answer is sent, and the handler's locals are gone.                  *)
Answer(h) ==
  /\ HGoto(h, "idle")
  /\ op' = [op EXCEPT ![h] = "view"]
  /\ user' = [user EXCEPT ![h] = NoUser]
  /\ ctx' = [ctx EXCEPT ![h] = NoCtx]
  /\ read' = [read EXCEPT ![h] = "none"]

Receive(h) ==
  /\ hpc[h] = "idle"
  /\ requests < MaxRequests
  /\ \E o \in Ops, u \in Users :
       /\ op' = [op EXCEPT ![h] = o]
       /\ user' = [user EXCEPT ![h] = u]
       /\ HGoto(h, IF o = "index" THEN "index" ELSE "lookup")
  /\ requests' = requests + 1
  /\ UNCHANGED <<files, registry, owner, thread, events, ending, auto, ctx, drop,
                 read>>

Registered == {u \in Users : users[u] # NoCtx}

(* users.move_to_end, or the insertion at the end.                         *)
MostRecent(u) == [v \in Users |-> IF v = u THEN Registered \ {u} ELSE older[v] \ {u}]

Lookup(h) ==
  /\ hpc[h] = "lookup"
  /\ IF users[user[h]] # NoCtx
     THEN /\ ctx' = [ctx EXCEPT ![h] = users[user[h]]]
          /\ older' = MostRecent(user[h])
          /\ HGoto(h, "act")
     ELSE /\ HGoto(h, "build")
          /\ UNCHANGED <<ctx, older>>
  /\ UNCHANGED <<files, users, owner, thread, events, ending, auto, op, user, drop,
                 read, requests>>

(* Mutant: load_snapshot does not compare the schema.                      *)
UsableAny(s) == s

(* load_snapshot: one that another version of the code saved is unusable.  *)
Usable(s) == IF s = "ok" THEN "ok" ELSE "none"

(* UserCtx.__init__, outside the registry lock.                            *)
Build(h) ==
  /\ hpc[h] = "build"
  /\ \E c \in Ctxs :
       /\ owner[c] = NoUser
       /\ owner' = [owner EXCEPT ![c] = user[h]]
       /\ loop' = [loop EXCEPT ![c] = "new"]
       /\ snapshot' = [snapshot EXCEPT ![c] = Usable(snapshotFile[user[h]])]
       /\ auto' = [auto EXCEPT ![c] = settings[user[h]]]
       /\ ctx' = [ctx EXCEPT ![h] = c]
  /\ HGoto(h, "insert")
  /\ UNCHANGED <<files, registry, ran, first, events, ending, op, user, drop,
                 read, requests>>

(* Mutant: the limit is compared before the new board is counted.          *)
EvictableLate(u) ==
  LET others == Registered \ {u, DefaultUser}
  IN  IF Cardinality(Registered) <= MaxUsers THEN {}
      ELSE {v \in others : older[v] \cap others = {}}

(* Whose context the registry may give up for u's: the least recently used *)
(* other than u and the default user, when the registry is over its limit. *)
Evictable(u) ==
  LET others == Registered \ {u, DefaultUser}
  IN  IF Cardinality(Registered \cup {u}) <= MaxUsers THEN {}
      ELSE {v \in others : older[v] \cap others = {}}

Register(h, gone) ==
  /\ users' = [u \in Users |-> IF u = user[h] THEN ctx[h]
                               ELSE IF u \in gone THEN NoCtx
                               ELSE users[u]]
  /\ older' = [u \in Users |-> IF u \in gone THEN {} ELSE MostRecent(user[h])[u] \ gone]
  /\ HGoto(h, "start")
  /\ UNCHANGED ctx

(* The new context enters the registry.  Every insertion restores the      *)
(* limit as far as it can, so the while loop evicts one at most.           *)
Win(h) ==
  \/ Evictable(user[h]) = {} /\ Register(h, {}) /\ UNCHANGED drop
  \/ \E v \in Evictable(user[h]) :
       Register(h, {v}) /\ drop' = [drop EXCEPT ![h] = users[v]]

(* Another handler has registered the board meanwhile: its context is used *)
(* and this one is thrown away.                                            *)
Lose(h) ==
  /\ ctx' = [ctx EXCEPT ![h] = users[user[h]]]
  /\ drop' = [drop EXCEPT ![h] = ctx[h]]
  /\ HGoto(h, "drop")
  /\ UNCHANGED registry

(* Mutant: the insertion does not look again whether the board is there.   *)
InsertUnchecked(h) ==
  /\ hpc[h] = "insert"
  /\ Win(h)
  /\ UNCHANGED <<files, owner, thread, events, ending, auto, op, user, read, requests>>

(* The second section under the registry lock.                             *)
Insert(h) ==
  /\ hpc[h] = "insert"
  /\ IF users[user[h]] = NoCtx THEN Win(h) ELSE Lose(h)
  /\ UNCHANGED <<files, owner, thread, events, ending, auto, op, user, read, requests>>

(* UserCtx.start                                                           *)
Start(h) ==
  /\ hpc[h] = "start"
  /\ loop' = [loop EXCEPT ![ctx[h]] = "top"]
  /\ HGoto(h, "drop")
  /\ UNCHANGED <<files, registry, owner, ran, first, snapshot, events, ending,
                 auto, op, user, ctx, drop, read, requests>>

Request(c) ==
  /\ pending' = [pending EXCEPT ![c] = TRUE]
  /\ wakeup' = [wakeup EXCEPT ![c] = TRUE]

(* UserCtx.teardown: the stop, then the wake-up and the pool's shutdown.   *)
TearDown(h) ==
  /\ hpc[h] = "drop"
  /\ IF drop[h] = NoCtx
     THEN /\ HGoto(h, "act")
          /\ UNCHANGED stop
     ELSE /\ HGoto(h, "wake")
          /\ stop' = [stop EXCEPT ![drop[h]] = TRUE]
  /\ UNCHANGED <<files, registry, owner, thread, events, closed, auto, op, user, ctx,
                 drop, read, requests>>

WakeStopped(h) ==
  /\ hpc[h] = "wake"
  /\ Request(drop[h])
  /\ closed' = [closed EXCEPT ![drop[h]] = TRUE]
  /\ drop' = [drop EXCEPT ![h] = NoCtx]
  /\ HGoto(h, "act")
  /\ UNCHANGED <<files, registry, owner, thread, unseen, stop, auto, op, user, ctx,
                 read, requests>>

View(h) ==
  /\ hpc[h] = "act"
  /\ op[h] = "view"
  /\ Answer(h)
  /\ UNCHANGED <<files, registry, owner, thread, events, ending, auto, drop,
                 requests>>

(* Watchlist and hidden list: read, changed and written under the lock; an *)
(* edit that is refused or changes nothing answers as a view does.         *)
EditList(h) ==
  /\ hpc[h] = "act"
  /\ op[h] = "edit"
  /\ unseen' = [unseen EXCEPT ![ctx[h]] = TRUE]
  /\ HGoto(h, "request")
  /\ UNCHANGED <<files, registry, owner, thread, wakeup, pending, ending, auto, op,
                 user, ctx, drop, read, requests>>

(* api_interval: the thread's interval, then the saved one, then the       *)
(* request that makes the thread look at it.                               *)
SetInterval(h) ==
  /\ hpc[h] = "act"
  /\ op[h] \in {"auto", "manual"}
  /\ auto' = [auto EXCEPT ![ctx[h]] = (op[h] = "auto")]
  /\ HGoto(h, "settings")
  /\ UNCHANGED <<files, registry, owner, thread, events, ending, op, user, ctx, drop,
                 read, requests>>

(* Mutant: the thread is not told of its new interval.                     *)
SaveIntervalOnly(h) ==
  /\ hpc[h] = "settings"
  /\ settings' = [settings EXCEPT ![user[h]] = (op[h] = "auto")]
  /\ Answer(h)
  /\ UNCHANGED <<snapshotFile, summaryFile, registry, owner, thread, events, ending,
                 auto, drop, requests>>

SaveInterval(h) ==
  /\ hpc[h] = "settings"
  /\ settings' = [settings EXCEPT ![user[h]] = (op[h] = "auto")]
  /\ HGoto(h, "request")
  /\ UNCHANGED <<snapshotFile, summaryFile, registry, owner, thread, events, ending,
                 auto, op, user, ctx, drop, read, requests>>

(* Mutant: a request during a refresh is taken for served.                 *)
RequestUnlessRefreshing(h) ==
  /\ \/ hpc[h] = "request"
     \/ (hpc[h] = "act" /\ op[h] = "refresh")
  /\ IF loop[ctx[h]] \in {"fetch", "enrich", "save", "summary"}
     THEN UNCHANGED <<pending, wakeup>>
     ELSE Request(ctx[h])
  /\ Answer(h)
  /\ UNCHANGED <<files, registry, owner, thread, unseen, ending, auto, drop, requests>>

RequestRefresh(h) ==
  /\ \/ hpc[h] = "request"
     \/ (hpc[h] = "act" /\ op[h] = "refresh")
  /\ Request(ctx[h])
  /\ Answer(h)
  /\ UNCHANGED <<files, registry, owner, thread, unseen, ending, auto, drop,
                 requests>>

(* The landing page: load_summary, one user's.  A missing summary is made  *)
(* from the snapshot, which is read without the lock.                      *)
LoadSummary(h) ==
  /\ hpc[h] = "index"
  /\ IF summaryFile[user[h]] # "none" THEN Answer(h)
     ELSE HGoto(h, "backfill") /\ UNCHANGED <<op, user, ctx, read>>
  /\ UNCHANGED <<files, registry, owner, thread, events, ending, auto, drop,
                 requests>>

Summarize(h) ==
  /\ hpc[h] = "backfill"
  /\ IF snapshotFile[user[h]] = "none" THEN Answer(h)
     ELSE /\ HGoto(h, "write")
          /\ read' = [read EXCEPT ![h] = snapshotFile[user[h]]]
          /\ UNCHANGED <<op, user, ctx>>
  /\ UNCHANGED <<files, registry, owner, thread, events, ending, auto, drop,
                 requests>>

WriteSummary(h) ==
  /\ hpc[h] = "write"
  /\ summaryFile' = [summaryFile EXCEPT ![user[h]] = read[h]]
  /\ Answer(h)
  /\ UNCHANGED <<snapshotFile, settings, registry, owner, thread, events, ending,
                 auto, drop, requests>>

Handle(h) ==
  \/ Lookup(h) \/ Build(h) \/ Insert(h) \/ Start(h) \/ TearDown(h) \/ WakeStopped(h)
  \/ View(h) \/ EditList(h) \/ SetInterval(h) \/ SaveInterval(h) \/ RequestRefresh(h)
  \/ LoadSummary(h) \/ Summarize(h) \/ WriteSummary(h)

Next ==
  \/ \E h \in Handlers : Receive(h) \/ Handle(h)
  \/ \E c \in Ctxs : Refresher(c)

Spec == Init /\ [][Next]_vars

(* Threads run: each wait but the untimed one has a timeout, and so has    *)
(* each call to Gerrit.                                                    *)
Fairness == /\ \A c \in Ctxs : WF_vars(Refresher(c))
            /\ \A h \in Handlers : WF_vars(Handle(h))

FairSpec == Spec /\ Fairness

-----------------------------------------------------------------------------
(* Safety                                                                  *)

Started(c) == loop[c] \notin {"unbuilt", "new", "ended"}

(* A refresh that is shown as queued will run: the event is still set, or  *)
(* the thread has taken it and not yet begun (take_wakeup, pending).       *)
QueuedWillRun ==
  \A c \in Ctxs :
    pending[c] => \/ wakeup[c]
                  \/ stop[c]
                  \/ loop[c] \in {"asked", "waiting", "refresh"}

(* An edit of a list will be seen: a refresh has begun since, is queued, or *)
(* the handler that made the edit is about to ask for it.                  *)
EditsAreFollowedUp ==
  \A c \in Ctxs :
    unseen[c] => \/ pending[c]
                 \/ \E h \in Handlers : ctx[h] = c /\ hpc[h] = "request"

(* No thread runs for a board that the registry does not know: a refresher *)
(* nobody has told to stop is its user's registered one, or some handler   *)
(* is about to tear it down (get_ctx: "cannot accumulate threads").        *)
RunningIsRegistered ==
  \A c \in Ctxs :
    Started(c) /\ ~stop[c] =>
      \/ users[owner[c]] = c
      \/ \E h \in Handlers : drop[h] = c

(* The registry keeps its limit; it is over it only with the default user's*)
(* board and one other, of which the newer cannot be given up (get_ctx).   *)
RegistryBounded ==
  \/ Cardinality(Registered) <= MaxUsers
  \/ Cardinality(Registered \ {DefaultUser}) <= 1

(* So URL scanning cannot accumulate threads: those that run and were not  *)
(* told to stop are those of the registry and one for each request that is *)
(* about to tear its down.                                                 *)
ThreadsBounded ==
  IsFiniteSet(Handlers) =>
    Cardinality({c \in Ctxs : Started(c) /\ ~stop[c]}) <= MaxUsers + 1 + Cardinality(Handlers)

(* A board whose interval was switched on does not sleep for ever: a       *)
(* thread in the untimed wait has its wake-up coming (api_interval).       *)
AutoIsArmed ==
  \A c \in Ctxs :
    loop[c] = "untimed" /\ auto[c] =>
      \/ wakeup[c]
      \/ \E h \in Handlers : ctx[h] = c /\ hpc[h] \in {"settings", "request"}

-----------------------------------------------------------------------------
(* What these rest on                                                      *)

Holding == {"insert", "start", "drop", "wake", "act", "settings", "request"}

(* What a handler holds at each place.                                     *)
Lifecycle ==
  /\ \A h \in Handlers :
       /\ hpc[h] # "idle" => user[h] \in Users
       /\ hpc[h] \in Holding => ctx[h] \in Ctxs /\ owner[ctx[h]] = user[h]
       /\ hpc[h] \notin Holding => ctx[h] = NoCtx
       /\ hpc[h] \notin {"start", "drop", "wake"} => drop[h] = NoCtx
       /\ hpc[h] = "wake" => drop[h] \in Ctxs /\ stop[drop[h]]
       /\ drop[h] \in Ctxs => owner[drop[h]] \in Users
  /\ \A u \in Users : users[u] \in Ctxs => owner[users[u]] = u
  /\ \A c \in Ctxs : loop[c] = "unbuilt" <=> owner[c] = NoUser

(* A context that is being inserted is its handler's alone, and only the   *)
(* handler that inserted it starts its thread.                             *)
FreshIsPrivate ==
  \A h \in Handlers :
    /\ hpc[h] \in {"insert", "start"} => loop[ctx[h]] = "new"
    /\ hpc[h] = "insert" =>
         /\ \A u \in Users : users[u] # ctx[h]
         /\ \A g \in Handlers \ {h} : ctx[g] # ctx[h]
    /\ hpc[h] = "start" =>
         \A g \in Handlers \ {h} : hpc[g] = "start" => ctx[g] # ctx[h]

(* RunningIsRegistered speaks of started threads; a context exists before  *)
(* its thread does.                                                        *)
BuiltIsTracked ==
  \A c \in Ctxs :
    owner[c] # NoUser /\ ~stop[c] =>
      \/ users[owner[c]] = c
      \/ \E h \in Handlers : drop[h] = c
      \/ \E h \in Handlers : ctx[h] = c /\ hpc[h] = "insert"

(* The boards are in one order, the newest last, so that the least recently*)
(* used of any of them is one board (OrderedDict).                         *)
LruOrder ==
  /\ \A u \in Users : older[u] \subseteq Registered \ {u}
  /\ \A u \in Users \ Registered : older[u] = {}
  /\ \A u, v \in Registered : u # v => u \in older[v] \/ v \in older[u]
  /\ \A u, v \in Registered : u \in older[v] => older[u] \subseteq older[v]

RegistryInv ==
  /\ IsFiniteSet(Registered)
  /\ LruOrder
  /\ RegistryBounded

IInv ==
  /\ TypeOK
  /\ Lifecycle
  /\ FreshIsPrivate
  /\ BuiltIsTracked
  /\ RegistryInv
  /\ QueuedWillRun
  /\ EditsAreFollowedUp
  /\ AutoIsArmed

-----------------------------------------------------------------------------
(* What the documentation says and the code does not do                    *)

(* "least-recently-used contexts are torn down (thread stopped, pool       *)
(* closed) so URL scanning cannot accumulate threads": the thread of a     *)
(* context that was torn down ends.                                        *)
TornDownThreadsEnd ==
  \A c \in Ctxs : (Started(c) /\ stop[c]) ~> (loop[c] = "ended")

(* "Board summary for the index, derived from the last snapshot": when     *)
(* nobody is between the two files, the summary is that of the snapshot.   *)
SummaryOfLastSnapshot ==
  \A u \in Users :
    \/ summaryFile[u] \in {"none", snapshotFile[u]}
    \/ \E c \in Ctxs : owner[c] = u /\ loop[c] = "summary"
    \/ \E h \in Handlers : user[h] = u /\ hpc[h] = "write"
=============================================================================
