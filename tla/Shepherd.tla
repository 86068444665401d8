------------------------------ MODULE Shepherd ------------------------------
(***************************************************************************)
(* The patch shepherd: an hourly run checks every patch of a watched list  *)
(* in parallel, asks for retests of CI failures with a known bug, lets a   *)
(* model decide on the other ones, and writes what it found into the list. *)
(* A check that takes too long is given up, though it goes on.  The user   *)
(* edits the list meanwhile.                                               *)
(***************************************************************************)
EXTENDS Integers, Sequences, FiniteSets

CONSTANTS
  Urls,       \* the patches
  Suites,     \* the failures of a patch's test session: a suite, or a subtest of one
  Workers,    \* checks at the same time
  MaxRetests, \* cap: retests of a run
  MaxLength,  \* bound: entries of the list
  MaxRuns,    \* bound: runs
  MaxEdits    \* bound: edits of the list, checks given up, and what else happens to a patch

ASSUME ShepherdAssumption ==
  /\ Workers \in Nat \ {0} /\ MaxRetests \in Nat \ {0}
  /\ MaxLength \in Nat \ {0} /\ MaxRuns \in Nat /\ MaxEdits \in Nat

Statuses == {"active", "needs_review", "stopped", "merged", "abandoned"}
Entry    == [url : Urls, ws : Statuses]
Places   == 1..MaxLength

(* A check of a patch is at one of these steps; the last three ask for a   *)
(* retest, of which one check may ask several.                             *)
Retesting == {"count", "append", "call"}
Checks    == {"none", "todo", "info", "ci", "suite", "done"} \cup Retesting

VARIABLES
  watch,    \* the list in the file
  gerrit,   \* the status of each patch there
  pending,  \* the run that asked for the retest that is pending, 0 when none is
  phase,    \* where the run is
  runs,     \* runs so far
  edits,
  loaded,   \* the list as a writer of the file read it
  list,     \* the list as the run read it
  check,    \* where the check of each place is
  rest,     \* the suites a check still has to look at
  used,     \* the retests in each run's limit file
  slow,     \* places whose check this run gave up
  orphans,  \* those checks, as they go on
  verdict,  \* the status each place is reported with
  unknown,  \* failures to decide on, with their places
  edited,   \* the user edited the list during a run
  blamed,   \* patches that were to be stopped
  crossed,  \* patches of which a run asked for a retest while one of another run was pending
  strayed   \* patches of which a check was given up

world    == <<gerrit, pending>>
checking == <<list, check, rest, used, slow, orphans>>
findings == <<verdict, unknown>>
seen     == <<edited, blamed, crossed, strayed>>
vars     == <<watch, world, phase, runs, edits, loaded, checking, findings, seen>>

Busy   == {"info", "ci", "suite"} \cup Retesting
Orphan == [url : Urls, place : Places, at : Busy, rest : SUBSET Suites, run : 1..MaxRuns]

TypeOK ==
  /\ \A l \in {watch, loaded, list} : l \in Seq(Entry) /\ Len(l) <= MaxLength
  /\ gerrit \in [Urls -> {"NEW", "MERGED", "ABANDONED"}]
  /\ pending \in [Urls -> 0..MaxRuns]
  /\ phase \in {"off", "start", "read", "check", "block", "decide", "report", "write"}
  /\ runs \in 0..MaxRuns /\ edits \in 0..MaxEdits
  /\ check \in [Places -> Checks] /\ rest \in [Places -> SUBSET Suites]
  /\ used \in [1..MaxRuns -> Nat]
  /\ slow \subseteq Places /\ orphans \subseteq Orphan
  /\ verdict \in [Places -> Statuses \cup {"none", "skipped"}]
  /\ unknown \subseteq Places \X Suites
  /\ edited \in BOOLEAN /\ blamed \subseteq Urls
  /\ crossed \subseteq Urls /\ strayed \subseteq Urls

Nothing == [i \in Places |-> "none"]

Init ==
  /\ \E n \in Places : watch \in [1..n -> [url : Urls, ws : {"active"}]]
  /\ gerrit = [u \in Urls |-> "NEW"]
  /\ pending = [u \in Urls |-> 0]
  /\ phase = "off" /\ runs = 0 /\ edits = 0
  /\ loaded = <<>> /\ list = <<>>
  /\ check = Nothing /\ rest = [i \in Places |-> {}]
  /\ used = [r \in 1..MaxRuns |-> 0]
  /\ slow = {} /\ orphans = {}
  /\ verdict = Nothing /\ unknown = {}
  /\ edited = FALSE /\ blamed = {} /\ crossed = {} /\ strayed = {}

-----------------------------------------------------------------------------
(* The run rewrites the list with the time it was checked, and reads it.   *)
Start ==
  /\ phase = "off"
  /\ runs < MaxRuns
  /\ runs' = runs + 1
  /\ phase' = "start"
  /\ loaded' = watch
  /\ verdict' = Nothing /\ unknown' = {}
  /\ slow' = {}
  /\ UNCHANGED <<watch, world, edits, list, check, rest, used, orphans, seen>>

StampTime ==
  /\ phase = "start"
  /\ watch' = loaded
  /\ phase' = "read"
  /\ UNCHANGED <<world, runs, edits, loaded, checking, findings, seen>>

(* A run over an empty list dies: a pool of no threads cannot be made.     *)
ReadList ==
  /\ phase = "read"
  /\ list' = watch
  /\ check' = [i \in Places |-> IF i \in DOMAIN watch THEN "todo" ELSE "none"]
  /\ phase' = IF watch = <<>> THEN "off" ELSE "check"
  /\ UNCHANGED <<watch, world, runs, edits, loaded, rest, used, slow, orphans, findings, seen>>

-----------------------------------------------------------------------------
(* The checks.                                                             *)
Url(i)    == list[i].url
At(i, s)  == check' = [check EXCEPT ![i] = s]
Later(R)  == IF R = {} THEN "done" ELSE "suite"
Running   == {i \in Places : check[i] \in Busy}
Outside   == UNCHANGED <<watch, phase, runs, edits, loaded, list>>
Checked   == phase = "check"

Take(i) ==
  /\ Checked
  /\ check[i] = "todo"
  /\ Cardinality(Running) < Workers
  /\ At(i, "info")
  /\ Outside
  /\ UNCHANGED <<world, rest, used, slow, orphans, findings, seen>>

(* Mutant: the status as Gerrit writes it.                                 *)
FoundRaw(i, status) ==
  verdict' = [verdict EXCEPT ![i] = IF status = "merged" THEN gerrit[Url(i)] ELSE status]

Found(i, status) == verdict' = [verdict EXCEPT ![i] = status]

(* Patches that are merged or abandoned are reported; patches that were    *)
(* stopped, and those in review without a new patchset, are skipped; a new *)
(* review, or a call that fails, ends the check.                           *)
Info(i) ==
  /\ Checked
  /\ check[i] = "info"
  /\ \/ gerrit[Url(i)] = "MERGED" /\ Found(i, "merged") /\ At(i, "done")
     \/ gerrit[Url(i)] = "ABANDONED" /\ Found(i, "abandoned") /\ At(i, "done")
     \/ /\ gerrit[Url(i)] = "NEW"
        /\ list[i].ws \in {"stopped", "merged", "needs_review"}
        /\ At(i, "done") /\ Found(i, "skipped")
     \/ At(i, "done") /\ UNCHANGED verdict
     \/ /\ gerrit[Url(i)] = "NEW"
        /\ list[i].ws \notin {"stopped", "merged"}
        /\ \/ At(i, "ci") /\ UNCHANGED verdict
           \/ At(i, "done") /\ Found(i, "needs_review")
  /\ Outside
  /\ UNCHANGED <<world, rest, used, slow, orphans, unknown, seen>>

(* Mutant: a pending retest is not looked at.                              *)
UntestedAnyway(u) == pending[u] \in 0..MaxRuns

(* No retest of the patch is pending.                                      *)
Untested(u) == pending[u] = 0

(* CI is read once, and all failures of a patch are skipped if a retest is *)
(* pending.  What else CI and the bug tracker say of a failure may change  *)
(* from call to call, and a call may fail.                                 *)
ReadCi(i) ==
  /\ Checked
  /\ check[i] = "ci"
  /\ \E S \in SUBSET Suites :
       /\ S # {} => Untested(Url(i))
       /\ rest' = [rest EXCEPT ![i] = S]
       /\ At(i, Later(S))
  /\ Outside
  /\ UNCHANGED <<world, used, slow, orphans, findings, seen>>

(* The next failure: one with a linked bug has a retest asked for, one     *)
(* without is to be decided on; a bug without a number leaves it.          *)
NextSuite(i) ==
  /\ Checked
  /\ check[i] = "suite"
  /\ \E s \in rest[i] :
       /\ rest' = [rest EXCEPT ![i] = @ \ {s}]
       /\ \/ At(i, "count") /\ UNCHANGED unknown
          \/ /\ At(i, Later(rest[i] \ {s}))
             /\ unknown' \in {unknown, unknown \cup {<<i, s>>}}
  /\ Outside
  /\ UNCHANGED <<world, used, slow, orphans, verdict, seen>>

(* Mutant: one more than the cap.                                          *)
UpToCap(r) == used[r] <= MaxRetests

(* rate_check: the lines of the file are counted, then one is appended.    *)
UnderCap(r) == used[r] < MaxRetests

(* Maloo accepts the retest a run asks for.                                *)
Retests(u, r) ==
  /\ pending' = [pending EXCEPT ![u] = r]
  /\ crossed' = IF pending[u] \in {0, r} THEN crossed ELSE crossed \cup {u}

(* Checks ask for retests, and so do the decisions on unknown failures.    *)
Asking == phase \in {"check", "decide"}

CountRetests(i) ==
  /\ Asking
  /\ check[i] = "count"
  /\ At(i, IF UnderCap(runs) THEN "append" ELSE Later(rest[i]))
  /\ Outside
  /\ UNCHANGED <<world, rest, used, slow, orphans, findings, seen>>

AppendRetest(i) ==
  /\ Asking
  /\ check[i] = "append"
  /\ used' = [used EXCEPT ![runs] = @ + 1]
  /\ At(i, "call")
  /\ Outside
  /\ UNCHANGED <<world, rest, slow, orphans, findings, seen>>

(* The call may fail; the next failure is looked at all the same.          *)
CallRetest(i) ==
  /\ Asking
  /\ check[i] = "call"
  /\ Retests(Url(i), runs) \/ UNCHANGED <<pending, crossed>>
  /\ At(i, Later(rest[i]))
  /\ Outside
  /\ UNCHANGED <<gerrit, rest, used, slow, orphans, findings, edited, blamed, strayed>>

(* The orchestrator gives a check up after two minutes and kills the shell,*)
(* not the program the shell runs; what it had found is lost.              *)
GiveUp(i) ==
  /\ Checked
  /\ i \in Running
  /\ edits < MaxEdits
  /\ edits' = edits + 1
  /\ slow' = slow \cup {i}
  /\ orphans' = orphans \cup
       {[url |-> Url(i), place |-> i, at |-> check[i], rest |-> rest[i], run |-> runs]}
  /\ At(i, "done")
  /\ rest' = [rest EXCEPT ![i] = {}]
  /\ unknown' = {f \in unknown : f[1] # i}
  /\ strayed' = strayed \cup {Url(i)}
  /\ UNCHANGED <<watch, world, phase, runs, loaded, list, used, verdict, edited, blamed, crossed>>

OrphanGoes(o, s, R) ==
  orphans' = (orphans \ {o}) \cup
    (IF s = "done" THEN {} ELSE {[o EXCEPT !.at = s, !.rest = R]})

OrphanLooks(o) ==
  /\ \/ o.at = "info" /\ \E s \in {"ci", "done"} : OrphanGoes(o, s, {})
     \/ /\ o.at = "ci"
        /\ \E S \in SUBSET Suites : (S # {} => Untested(o.url)) /\ OrphanGoes(o, Later(S), S)
     \/ /\ o.at = "suite"
        /\ \E s \in o.rest :
             \/ OrphanGoes(o, "count", o.rest \ {s})
             \/ OrphanGoes(o, Later(o.rest \ {s}), o.rest \ {s})
     \/ /\ o.at = "count"
        /\ OrphanGoes(o, IF UnderCap(o.run) THEN "append" ELSE Later(o.rest), o.rest)
  /\ UNCHANGED <<used, pending, crossed>>

OrphanAsks(o) ==
  \/ /\ o.at = "append"
     /\ OrphanGoes(o, "call", o.rest)
     /\ used' = [used EXCEPT ![o.run] = @ + 1]
     /\ UNCHANGED <<pending, crossed>>
  \/ /\ o.at = "call"
     /\ OrphanGoes(o, Later(o.rest), o.rest)
     /\ Retests(o.url, o.run) \/ UNCHANGED <<pending, crossed>>
     /\ UNCHANGED used

OrphanProceeds(o) ==
  /\ OrphanLooks(o) \/ OrphanAsks(o)
  /\ UNCHANGED <<watch, gerrit, phase, runs, edits, loaded, list, check, rest, slow, findings,
                 edited, blamed, strayed>>

CheckedAll ==
  /\ Checked
  /\ \A i \in Places : check[i] \in {"none", "done"}
  /\ phase' = "block"
  /\ UNCHANGED <<watch, world, runs, edits, loaded, checking, findings, seen>>

-----------------------------------------------------------------------------
(* A patch under negative review stops the patches above it that were not  *)
(* skipped, those that were found merged or abandoned too.                 *)
Block ==
  /\ phase = "block"
  /\ \E S \in SUBSET {i \in DOMAIN list : verdict[i] # "skipped"} :
       /\ S # {} => \E i \in DOMAIN list \ S : verdict[i] = "needs_review"
       /\ verdict' = [i \in Places |-> IF i \in S THEN "stopped" ELSE verdict[i]]
       /\ blamed' = blamed \cup {Url(i) : i \in S}
  /\ phase' = "decide"
  /\ UNCHANGED <<watch, world, runs, edits, loaded, checking, unknown, edited, crossed, strayed>>

(* execute_decisions, one failure after the other, in the order of the     *)
(* places.                                                                 *)
First == {f \in unknown : \A g \in unknown : f[1] <= g[1]}

StopPatch ==
  /\ phase = "decide"
  /\ Running = {}
  /\ \E f \in First :
       /\ verdict' = [verdict EXCEPT ![f[1]] = "stopped"]
       /\ blamed' = blamed \cup {Url(f[1])}
       /\ unknown' = unknown \ {f}
  /\ UNCHANGED <<watch, world, phase, runs, edits, loaded, checking, edited, crossed, strayed>>

(* A bug is linked, or raised, and a retest asked for, whatever became of  *)
(* the link; not if no bug could be raised, or nothing was decided.        *)
LinkBug ==
  /\ phase = "decide"
  /\ Running = {}
  /\ \E f \in First :
       /\ unknown' = unknown \ {f}
       /\ At(f[1], "count") \/ UNCHANGED check
  /\ UNCHANGED <<watch, world, phase, runs, edits, loaded, list, rest, used, slow, orphans, verdict,
                 seen>>

DecidedAll ==
  /\ phase = "decide"
  /\ Running = {}
  /\ unknown = {}
  /\ phase' = "report"
  /\ UNCHANGED <<watch, world, runs, edits, loaded, checking, findings, seen>>

(* write-report reads the list again and sets each place's status in it.   *)
LoadReport ==
  /\ phase = "report"
  /\ loaded' = watch
  /\ phase' = "write"
  /\ UNCHANGED <<watch, world, runs, edits, checking, findings, seen>>

(* Mutant: places are counted from zero in the report.                    *)
MarkedBelow(l) ==
  [i \in DOMAIN l |-> IF i = 1 \/ verdict[i - 1] \notin Statuses THEN l[i]
                      ELSE [l[i] EXCEPT !.ws = verdict[i - 1]]]

Marked(l) ==
  [i \in DOMAIN l |-> IF verdict[i] \notin Statuses THEN l[i]
                      ELSE [l[i] EXCEPT !.ws = verdict[i]]]

(* The file is written when a status differs, or a reason to stop is given.*)
Changes(l) == Marked(l) # l \/ \E i \in DOMAIN l : verdict[i] = "stopped"

WriteReport ==
  /\ phase = "write"
  /\ watch' = IF Changes(loaded) THEN Marked(loaded) ELSE watch
  /\ phase' = "off"
  /\ check' = Nothing
  /\ UNCHANGED <<world, runs, edits, loaded, list, rest, used, slow, orphans, findings, seen>>

-----------------------------------------------------------------------------
(* The user takes an entry out, adds one, or makes one active again.       *)
Without(l, i) == [j \in 1..Len(l) - 1 |-> IF j < i THEN l[j] ELSE l[j + 1]]

Edit ==
  /\ edits < MaxEdits
  /\ edits' = edits + 1
  /\ \/ \E i \in DOMAIN watch : watch' = Without(watch, i)
     \/ /\ Len(watch) < MaxLength
        /\ \E u \in Urls : watch' = Append(watch, [url |-> u, ws |-> "active"])
     \/ \E i \in DOMAIN watch : watch' = [watch EXCEPT ![i].ws = "active"]
  /\ edited' = (edited \/ phase # "off")
  /\ UNCHANGED <<world, phase, runs, loaded, checking, findings, blamed, crossed, strayed>>

Closes(u) ==
  /\ edits < MaxEdits
  /\ edits' = edits + 1
  /\ gerrit[u] = "NEW"
  /\ \E s \in {"MERGED", "ABANDONED"} : gerrit' = [gerrit EXCEPT ![u] = s]
  /\ UNCHANGED <<watch, pending, phase, runs, loaded, checking, findings, seen>>

Tests(u) ==
  /\ pending[u] # 0
  /\ pending' = [pending EXCEPT ![u] = 0]
  /\ UNCHANGED <<watch, gerrit, phase, runs, edits, loaded, checking, findings, seen>>

Checker(i) ==
  \/ Take(i) \/ Info(i) \/ ReadCi(i) \/ NextSuite(i)
  \/ CountRetests(i) \/ AppendRetest(i) \/ CallRetest(i)

Next ==
  \/ Start \/ StampTime \/ ReadList
  \/ \E i \in Places : Checker(i) \/ GiveUp(i)
  \/ \E o \in orphans : OrphanProceeds(o)
  \/ CheckedAll \/ Block \/ StopPatch \/ LinkBug \/ DecidedAll \/ LoadReport \/ WriteReport
  \/ Edit
  \/ \E u \in Urls : Closes(u) \/ Tests(u)

Spec == Init /\ [][Next]_vars

-----------------------------------------------------------------------------
(* Properties.                                                             *)

(* The cap on a run's retests is exceeded by the checks that count at the  *)
(* same time only: one for each other worker and each check given up.      *)
RetestsBounded ==
  runs > 0 => used[runs] <= MaxRetests + Workers - 1 + Cardinality(slow)

(* The list calls a patch merged, or stopped, only if this patch is: the   *)
(* report finds its place again, unless the user edited the list during    *)
(* the run.                                                                *)
StatusIsOfItsPatch ==
  ~edited =>
    \A i \in DOMAIN watch :
      /\ watch[i].ws = "merged" => gerrit[watch[i].url] = "MERGED"
      /\ watch[i].ws = "stopped" => watch[i].url \in blamed

(* While a retest of a patch is pending no other run asks for one, unless a*)
(* check of that patch was given up, which may go on into a later run.  One*)
(* run asks as often as there are failures: it has read CI before the first*)
(* of them, and acts on that until its last decision.                      *)
RetestedByOneRun == crossed \subseteq strayed

-----------------------------------------------------------------------------
(* The parts of the inductive invariant.                                   *)

(* Which places go with which phase.                                       *)
Lifecycle ==
  /\ phase # "off" => runs > 0
  /\ \A i \in Places :
       /\ check[i] # "none" => i \in DOMAIN list
       /\ check[i] \in {"todo", "info", "ci", "suite"} => phase = "check"
       /\ check[i] \in Retesting => Asking
       /\ rest[i] # {} => check[i] \in {"suite"} \cup Retesting /\ phase = "check"
  /\ \A f \in unknown : f[1] \in DOMAIN list /\ f[1] \notin slow
  /\ unknown # {} => phase \in {"check", "block", "decide"}
  /\ phase \in {"start", "read"} => slow = {} /\ verdict = Nothing
  /\ slow \subseteq {i \in Places : check[i] = "done"} \/ phase = "off"

(* The places where somebody has counted and not yet appended.             *)
Counted       == {i \in Places : check[i] = "append"}
OrphanCounted == {i \in Places : \E o \in orphans : o.place = i /\ o.run = runs /\ o.at = "append"}

(* The retests of a run that were counted when the cap was not reached.    *)
Budget ==
  /\ \A r \in 1..MaxRuns : r > runs => used[r] = 0
  /\ \A o \in orphans : o.run <= runs /\ (o.run = runs => o.place \in slow)
  /\ \A o, q \in orphans : o.run = q.run /\ o.place = q.place => o = q
  /\ Cardinality(Running) <= Workers
  /\ runs > 0 =>
       used[runs] + Cardinality(Counted) + Cardinality(OrphanCounted)
         <= MaxRetests + Workers - 1 + Cardinality(slow)

(* Until somebody edits the list, a run finds the same one in the file.    *)
Unedited ==
  ~edited =>
    /\ phase \in {"start", "write"} => loaded = watch
    /\ phase \in {"check", "block", "decide", "report", "write"} =>
         /\ list = watch
         /\ \A i \in DOMAIN list :
              /\ verdict[i] = "merged" => gerrit[Url(i)] = "MERGED"
              /\ verdict[i] = "stopped" => Url(i) \in blamed

(* Whoever is going to ask for a retest does so for the run that goes on,  *)
(* which found none pending of an earlier one.                             *)
Asks(i) ==
  \/ check[i] \in {"suite"} \cup Retesting
  \/ \E f \in unknown : f[1] = i

RetestsOfThisRun ==
  \A u \in Urls \ strayed :
    /\ \A o \in orphans : o.url # u
    /\ \A i \in DOMAIN list : Url(i) = u /\ Asks(i) => pending[u] \in {0, runs}

IInv ==
  TypeOK /\ Lifecycle /\ Budget /\ Unedited /\ RetestsOfThisRun
    /\ StatusIsOfItsPatch /\ RetestedByOneRun

-----------------------------------------------------------------------------
(* What the code's comments say and the code does not do.                  *)

(* "If a retest is pending for this test group, skip ALL its failures."    *)
(* The check looks once, before the first failure: it asks for a retest of *)
(* the same session for each failure with a bug, in a list that has the    *)
(* patch once too.                                                         *)
RetestedOnce ==
  [][\A i \in Places :
       CallRetest(i) /\ (\A j \in DOMAIN list : Url(j) = Url(i) => j = i) /\ strayed = {}
         => pending[Url(i)] = 0]_vars
=============================================================================
