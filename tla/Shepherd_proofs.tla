--------------------------- MODULE Shepherd_proofs ---------------------------
(***************************************************************************)
(* Proofs about Shepherd, for any set of patches, any number of workers and*)
(* of runs, any cap and any length of the list.                            *)
(***************************************************************************)
EXTENDS Shepherd, TLAPS, FiniteSetTheorems

(* The lists a list is changed to.                                         *)
LEMMA Listed ==
  ASSUME NEW S, NEW n \in Nat, NEW l \in [1..n -> S]
  PROVE  l \in Seq(S) /\ Len(l) = n /\ DOMAIN l = 1..n
  OBVIOUS

LEMMA Lists ==
  ASSUME NEW S, NEW l \in Seq(S)
  PROVE  Len(l) \in Nat /\ DOMAIN l = 1..Len(l) /\ l \in [1..Len(l) -> S]
  OBVIOUS

LEMMA ListMarked ==
  ASSUME NEW l \in Seq(Entry)
  PROVE  Marked(l) \in Seq(Entry) /\ Len(Marked(l)) = Len(l)
  <1>1. l \in [1..Len(l) -> Entry] /\ Len(l) \in Nat /\ DOMAIN l = 1..Len(l)
    BY Lists
  <1>2. Marked(l) \in [1..Len(l) -> Entry]
    BY <1>1 DEF Marked, Entry
  <1> QED
    BY <1>1, <1>2, Listed

LEMMA ListWithout ==
  ASSUME NEW l \in Seq(Entry), NEW i \in DOMAIN l
  PROVE  Without(l, i) \in Seq(Entry) /\ Len(Without(l, i)) = Len(l) - 1
  <1>1. l \in [1..Len(l) -> Entry] /\ Len(l) \in Nat /\ DOMAIN l = 1..Len(l)
    BY Lists
  <1>2. Len(l) - 1 \in Nat
    BY <1>1
  <1>3. Without(l, i) \in [1..Len(l) - 1 -> Entry]
    BY <1>1 DEF Without
  <1> QED
    BY <1>2, <1>3, Listed

LEMMA ListActivated ==
  ASSUME NEW l \in Seq(Entry), NEW i \in DOMAIN l
  PROVE  /\ [l EXCEPT ![i].ws = "active"] \in Seq(Entry)
         /\ Len([l EXCEPT ![i].ws = "active"]) = Len(l)
  <1>1. l \in [1..Len(l) -> Entry] /\ Len(l) \in Nat /\ DOMAIN l = 1..Len(l)
    BY Lists
  <1>2. [l[i] EXCEPT !.ws = "active"] \in Entry
    BY <1>1 DEF Entry, Statuses
  <1>3. [l EXCEPT ![i].ws = "active"] \in [1..Len(l) -> Entry]
    BY <1>1, <1>2
  <1> QED
    BY <1>1, <1>3, Listed

LEMMA OneMore ==
  ASSUME NEW R, NEW f \in [R -> Nat], NEW r
  PROVE  [f EXCEPT ![r] = @ + 1] \in [R -> Nat]
  <1>1. r \in R => f[r] + 1 \in Nat
    OBVIOUS
  <1> QED
    BY <1>1

LEMMA ListedUrl ==
  ASSUME TypeOK, NEW i \in DOMAIN list
  PROVE  Url(i) \in Urls /\ i \in Places
  <1>1. list \in Seq(Entry) /\ Len(list) <= MaxLength
    BY DEF TypeOK
  <1>2. list \in [1..Len(list) -> Entry] /\ Len(list) \in Nat
    BY <1>1, Lists
  <1>3. list[i] \in Entry
    BY <1>2
  <1> QED
    BY <1>1, <1>2, <1>3, ShepherdAssumption DEF Url, Entry, Places

(* What an orphan's steps leave of it.                                     *)
LEMMA OrphanSteps ==
  ASSUME NEW o \in Orphan, OrphanProceeds(o)
  PROVE  \E s \in Busy \cup {"done"}, R \in SUBSET Suites : OrphanGoes(o, s, R)
  <1>1. o.rest \in SUBSET Suites /\ {} \in SUBSET Suites
    BY DEF Orphan
  <1>2. \A R : Later(R) \in Busy \cup {"done"}
    BY DEF Later, Busy
  <1>3. CASE OrphanLooks(o)
    <2>1. CASE \E s \in {"ci", "done"} : OrphanGoes(o, s, {})
      BY <1>1, <2>1 DEF Busy
    <2>2. CASE \E S \in SUBSET Suites : OrphanGoes(o, Later(S), S)
      BY <1>2, <2>2
    <2>3. CASE \E s \in o.rest : \/ OrphanGoes(o, "count", o.rest \ {s})
                                 \/ OrphanGoes(o, Later(o.rest \ {s}), o.rest \ {s})
      <3>1. PICK s \in o.rest : \/ OrphanGoes(o, "count", o.rest \ {s})
                                \/ OrphanGoes(o, Later(o.rest \ {s}), o.rest \ {s})
        BY <2>3
      <3>2. o.rest \ {s} \in SUBSET Suites /\ "count" \in Busy \cup {"done"}
        BY <1>1 DEF Busy, Retesting
      <3> QED
        BY <1>2, <3>1, <3>2
    <2>4. CASE OrphanGoes(o, IF UnderCap(o.run) THEN "append" ELSE Later(o.rest), o.rest)
      <3>1. (IF UnderCap(o.run) THEN "append" ELSE Later(o.rest)) \in Busy \cup {"done"}
        BY <1>2 DEF Busy, Retesting
      <3> QED
        BY <1>1, <2>4, <3>1
    <2> QED
      BY <1>3, <2>1, <2>2, <2>3, <2>4 DEF OrphanLooks
  <1>4. CASE OrphanAsks(o)
    <2>1. OrphanGoes(o, "call", o.rest) \/ OrphanGoes(o, Later(o.rest), o.rest)
      BY <1>4 DEF OrphanAsks
    <2> QED
      BY <1>1, <1>2, <2>1 DEF Busy, Retesting
  <1> QED
    BY <1>3, <1>4 DEF OrphanProceeds

-----------------------------------------------------------------------------
(* The types.                                                              *)

LEMMA TypeStep ==
  ASSUME TypeOK, Lifecycle, [Next]_vars
  PROVE  TypeOK'
  <1> USE ShepherdAssumption
  <1>1. CASE Start
    <2>1. runs' \in 0..MaxRuns
      BY <1>1 DEF TypeOK, Start
    <2>2. verdict' \in [Places -> Statuses \cup {"none", "skipped"}]
      BY <1>1 DEF TypeOK, Start, Nothing
    <2> QED
      BY <1>1, <2>1, <2>2 DEF TypeOK, Start, world, seen
  <1>2. CASE StampTime
    BY <1>2 DEF TypeOK, StampTime, world, checking, findings, seen
  <1>3. CASE ReadList
    BY <1>3 DEF TypeOK, ReadList, world, findings, seen, Checks
  <1>4. ASSUME NEW i \in Places, Take(i) PROVE TypeOK'
    BY <1>4 DEF TypeOK, Take, At, Outside, world, findings, seen, Checks
  <1>5. ASSUME NEW i \in Places, Info(i) PROVE TypeOK'
    <2>1. check' \in [Places -> Checks]
      BY <1>5 DEF TypeOK, Info, At, Checks
    <2>2. verdict' \in [Places -> Statuses \cup {"none", "skipped"}]
      BY <1>5 DEF TypeOK, Info, Found, Statuses
    <2> QED
      BY <1>5, <2>1, <2>2 DEF TypeOK, Info, Outside, world, seen
  <1>6. ASSUME NEW i \in Places, ReadCi(i) PROVE TypeOK'
    BY <1>6 DEF TypeOK, ReadCi, At, Later, Outside, world, findings, seen, Checks
  <1>23. ASSUME NEW i \in Places, NextSuite(i) PROVE TypeOK'
    <2>1. PICK s \in rest[i] :
            /\ rest' = [rest EXCEPT ![i] = @ \ {s}]
            /\ \E c \in {"count", "done", "suite"} : At(i, c)
            /\ unknown' \in {unknown, unknown \cup {<<i, s>>}}
      BY <1>23 DEF NextSuite, Later
    <2>2. s \in Suites /\ rest' \in [Places -> SUBSET Suites]
      BY <2>1 DEF TypeOK
    <2>3. check' \in [Places -> Checks]
      BY <2>1 DEF TypeOK, At, Checks, Retesting
    <2> QED
      BY <1>23, <2>1, <2>2, <2>3 DEF TypeOK, NextSuite, Outside, world, seen
  <1>7. ASSUME NEW i \in Places, CountRetests(i) PROVE TypeOK'
    BY <1>7 DEF TypeOK, CountRetests, At, Later, Outside, world, findings, seen, Checks, Retesting
  <1>8. ASSUME NEW i \in Places, AppendRetest(i) PROVE TypeOK'
    <2>1. used' \in [1..MaxRuns -> Nat]
      BY <1>8, OneMore DEF TypeOK, AppendRetest
    <2> QED
      BY <1>8, <2>1 DEF TypeOK, AppendRetest, At, Outside, world, findings, seen, Checks, Retesting
  <1>9. ASSUME NEW i \in Places, CallRetest(i) PROVE TypeOK'
    <2>1. i \in DOMAIN list /\ runs \in 0..MaxRuns
      BY <1>9 DEF TypeOK, Lifecycle, CallRetest
    <2>2. Url(i) \in Urls
      BY <2>1, ListedUrl
    <2>3. pending' \in [Urls -> 0..MaxRuns] /\ crossed' \subseteq Urls
      BY <1>9, <2>1, <2>2 DEF TypeOK, CallRetest, Retests
    <2> QED
      BY <1>9, <2>3 DEF TypeOK, CallRetest, At, Later, Outside, findings, Checks
  <1>10. ASSUME NEW i \in Places, GiveUp(i) PROVE TypeOK'
    <2>1. i \in DOMAIN list /\ runs \in 1..MaxRuns
      BY <1>10 DEF TypeOK, Lifecycle, GiveUp, Running, Checked, Busy, Retesting
    <2>2. Url(i) \in Urls
      BY <2>1, ListedUrl
    <2>3. orphans' \subseteq Orphan
      BY <1>10, <2>1, <2>2 DEF TypeOK, GiveUp, Running, Orphan
    <2> QED
      BY <1>10, <2>2, <2>3 DEF TypeOK, GiveUp, At, world, Checks
  <1>11. ASSUME NEW o \in orphans, OrphanProceeds(o) PROVE TypeOK'
    <2>1. o \in Orphan
      BY DEF TypeOK
    <2>2. \A s \in Busy, R \in SUBSET Suites : [o EXCEPT !.at = s, !.rest = R] \in Orphan
      BY <2>1 DEF Orphan
    <2>3. orphans' \subseteq Orphan
      <3>1. \E s \in Busy \cup {"done"}, R \in SUBSET Suites : OrphanGoes(o, s, R)
        BY <1>11, <2>1, OrphanSteps
      <3> QED
        BY <2>1, <2>2, <3>1 DEF TypeOK, OrphanGoes
    <2>4. pending' \in [Urls -> 0..MaxRuns] /\ crossed' \subseteq Urls
      <3>1. UNCHANGED <<pending, crossed>> \/ Retests(o.url, o.run)
        BY <1>11 DEF OrphanProceeds, OrphanLooks, OrphanAsks
      <3>2. o.url \in Urls /\ o.run \in 0..MaxRuns
        BY <2>1 DEF Orphan
      <3>3. pending \in [Urls -> 0..MaxRuns] /\ crossed \subseteq Urls
        BY DEF TypeOK
      <3>4. crossed' \in {crossed, crossed \cup {o.url}}
        BY <3>1 DEF Retests
      <3>5. pending' \in {pending, [pending EXCEPT ![o.url] = o.run]}
        BY <3>1 DEF Retests
      <3> QED
        BY <3>2, <3>3, <3>4, <3>5
    <2>5. used' \in [1..MaxRuns -> Nat]
      <3>1. used' = used \/ used' = [used EXCEPT ![o.run] = @ + 1]
        BY <1>11 DEF OrphanProceeds, OrphanLooks, OrphanAsks
      <3>2. used \in [1..MaxRuns -> Nat]
        BY DEF TypeOK
      <3>3. [used EXCEPT ![o.run] = @ + 1] \in [1..MaxRuns -> Nat]
        BY <3>2, OneMore
      <3> QED
        BY <3>1, <3>2, <3>3
    <2> QED
      BY <1>11, <2>3, <2>4, <2>5 DEF TypeOK, OrphanProceeds, findings
  <1>12. CASE CheckedAll
    BY <1>12 DEF TypeOK, CheckedAll, world, checking, findings, seen
  <1>13. CASE Block
    <2>1. PICK S \in SUBSET {i \in DOMAIN list : verdict[i] # "skipped"} :
            /\ verdict' = [i \in Places |-> IF i \in S THEN "stopped" ELSE verdict[i]]
            /\ blamed' = blamed \cup {Url(i) : i \in S}
      BY <1>13 DEF Block
    <2>2. \A i \in S : Url(i) \in Urls
      BY ListedUrl
    <2>3. verdict' \in [Places -> Statuses \cup {"none", "skipped"}]
      BY <2>1 DEF TypeOK, Statuses
    <2>4. blamed' \subseteq Urls
      BY <2>1, <2>2 DEF TypeOK
    <2> QED
      BY <1>13, <2>3, <2>4 DEF TypeOK, Block, world, checking
  <1>14. CASE StopPatch
    <2>1. PICK f \in First : /\ verdict' = [verdict EXCEPT ![f[1]] = "stopped"]
                             /\ blamed' = blamed \cup {Url(f[1])}
                             /\ unknown' = unknown \ {f}
      BY <1>14 DEF StopPatch
    <2>2. f \in unknown /\ f[1] \in DOMAIN list
      BY DEF First, TypeOK, Lifecycle
    <2>3. Url(f[1]) \in Urls
      BY <2>2, ListedUrl
    <2>4. verdict' \in [Places -> Statuses \cup {"none", "skipped"}]
      BY <2>1 DEF TypeOK, Statuses
    <2> QED
      BY <1>14, <2>1, <2>3, <2>4 DEF TypeOK, StopPatch, world, checking
  <1>15. CASE LinkBug
    <2>1. PICK f \in First : /\ unknown' = unknown \ {f}
                             /\ check' \in {check, [check EXCEPT ![f[1]] = "count"]}
      BY <1>15 DEF LinkBug, At
    <2>2. check' \in [Places -> Checks]
      BY <2>1 DEF TypeOK, Checks, Retesting
    <2> QED
      BY <1>15, <2>1, <2>2 DEF TypeOK, LinkBug, world, seen
  <1>16. CASE DecidedAll
    BY <1>16 DEF TypeOK, DecidedAll, world, checking, findings, seen
  <1>17. CASE LoadReport
    BY <1>17 DEF TypeOK, LoadReport, world, checking, findings, seen
  <1>18. CASE WriteReport
    <2>1. Marked(loaded) \in Seq(Entry) /\ Len(Marked(loaded)) = Len(loaded)
      BY ListMarked DEF TypeOK
    <2> QED
      BY <1>18, <2>1 DEF TypeOK, WriteReport, world, findings, seen, Nothing, Checks
  <1>19. CASE Edit
    <2>1. watch' \in Seq(Entry) /\ Len(watch') <= MaxLength
      <3>0. watch \in Seq(Entry) /\ Len(watch) <= MaxLength
        BY DEF TypeOK
      <3>1. ASSUME NEW i \in DOMAIN watch, watch' = Without(watch, i)
            PROVE  watch' \in Seq(Entry) /\ Len(watch') <= MaxLength
        BY <3>0, <3>1, ListWithout, Lists
      <3>2. ASSUME NEW u \in Urls, Len(watch) < MaxLength,
                   watch' = Append(watch, [url |-> u, ws |-> "active"])
            PROVE  watch' \in Seq(Entry) /\ Len(watch') <= MaxLength
        BY <3>0, <3>2 DEF Entry, Statuses
      <3>3. ASSUME NEW i \in DOMAIN watch, watch' = [watch EXCEPT ![i].ws = "active"]
            PROVE  watch' \in Seq(Entry) /\ Len(watch') <= MaxLength
        BY <3>0, <3>3, ListActivated
      <3> QED
        BY <1>19, <3>1, <3>2, <3>3 DEF Edit
    <2> QED
      BY <1>19, <2>1 DEF TypeOK, Edit, world, checking, findings
  <1>20. ASSUME NEW u \in Urls, Closes(u) PROVE TypeOK'
    BY <1>20 DEF TypeOK, Closes, checking, findings, seen
  <1>21. ASSUME NEW u \in Urls, Tests(u) PROVE TypeOK'
    BY <1>21 DEF TypeOK, Tests, checking, findings, seen
  <1>22. CASE UNCHANGED vars
    BY <1>22 DEF TypeOK, vars, world, checking, findings, seen
  <1> QED
    BY <1>1, <1>2, <1>3, <1>4, <1>5, <1>6, <1>7, <1>8, <1>9, <1>10, <1>11, <1>12, <1>13,
       <1>14, <1>15, <1>16, <1>17, <1>18, <1>19, <1>20, <1>21, <1>22, <1>23 DEF Next, Checker

-----------------------------------------------------------------------------
(* The phases.                                                             *)

LEMMA LifecycleStep ==
  ASSUME TypeOK, Lifecycle, [Next]_vars
  PROVE  Lifecycle'
  <1> USE ShepherdAssumption DEF Lifecycle
  <1>0. /\ check \in [Places -> Checks] /\ rest \in [Places -> SUBSET Suites]
        /\ runs \in Nat /\ slow \subseteq Places
    BY DEF TypeOK
  <1>1. CASE Start
    BY <1>0, <1>1 DEF Start, Asking
  <1>2. CASE StampTime
    BY <1>2 DEF StampTime, checking, findings, Asking
  <1>3. CASE ReadList
    BY <1>0, <1>3 DEF ReadList, findings, Retesting, Asking
  <1>4. ASSUME NEW i \in Places, Take(i) PROVE Lifecycle'
    BY <1>0, <1>4 DEF Take, At, Outside, findings, Checked, Asking, Retesting
  <1>5. ASSUME NEW i \in Places, Info(i) PROVE Lifecycle'
    <2>1. At(i, "ci") \/ At(i, "done")
      BY <1>5 DEF Info
    <2> QED
      BY <1>0, <1>5, <2>1 DEF Info, At, Outside, Checked, Asking, Retesting
  <1>6. ASSUME NEW i \in Places, ReadCi(i) PROVE Lifecycle'
    <2>1. PICK S \in SUBSET Suites : rest' = [rest EXCEPT ![i] = S] /\ At(i, Later(S))
      BY <1>6 DEF ReadCi
    <2> QED
      BY <1>0, <1>6, <2>1 DEF ReadCi, At, Later, Outside, findings, Checked, Asking, Retesting
  <1>23. ASSUME NEW i \in Places, NextSuite(i) PROVE Lifecycle'
    <2>1. PICK s \in rest[i] :
            /\ rest' = [rest EXCEPT ![i] = @ \ {s}]
            /\ At(i, "count") \/ At(i, Later(rest[i] \ {s}))
            /\ unknown' \in {unknown, unknown \cup {<<i, s>>}}
      BY <1>23 DEF NextSuite
    <2>2. i \in DOMAIN list /\ i \notin slow /\ phase = "check"
      BY <1>23 DEF NextSuite, Checked
    <2>3. <<i, s>>[1] = i
      OBVIOUS
    <2>4. UNCHANGED <<phase, runs, list, slow, verdict>>
      BY <1>23 DEF NextSuite, Outside
    <2>5. \A f \in unknown' : f[1] \in DOMAIN list' /\ f[1] \notin slow'
      BY <2>1, <2>2, <2>3, <2>4
    <2>6. check' = [check EXCEPT ![i] = "count"] \/ check' = [check EXCEPT ![i] = Later(rest[i] \ {s})]
      BY <2>1 DEF At
    <2>7. ASSUME NEW j \in Places
          PROVE  /\ check'[j] # "none" => j \in DOMAIN list
                 /\ check'[j] \in {"todo", "info", "ci", "suite"} => phase = "check"
                 /\ check'[j] \in Retesting => Asking
                 /\ rest'[j] # {} => check'[j] \in {"suite"} \cup Retesting /\ phase = "check"
                 /\ check[j] = "done" => check'[j] = "done"
      BY <1>0, <1>23, <2>1, <2>2, <2>6 DEF NextSuite, Later, Asking, Retesting
    <2> QED
      BY <2>2, <2>4, <2>5, <2>7 DEF Asking
  <1>7. ASSUME NEW i \in Places, CountRetests(i) PROVE Lifecycle'
    BY <1>0, <1>7 DEF CountRetests, At, Later, Outside, findings, Asking, Retesting
  <1>8. ASSUME NEW i \in Places, AppendRetest(i) PROVE Lifecycle'
    BY <1>0, <1>8 DEF AppendRetest, At, Outside, findings, Asking, Retesting
  <1>9. ASSUME NEW i \in Places, CallRetest(i) PROVE Lifecycle'
    BY <1>0, <1>9 DEF CallRetest, At, Later, Outside, findings, Asking, Retesting
  <1>10. ASSUME NEW i \in Places, GiveUp(i) PROVE Lifecycle'
    BY <1>0, <1>10 DEF GiveUp, At, Checked, Running, Busy, Asking, Retesting
  <1>11. ASSUME NEW o \in orphans, OrphanProceeds(o) PROVE Lifecycle'
    BY <1>11 DEF OrphanProceeds, findings, Asking
  <1>12. CASE CheckedAll
    BY <1>0, <1>12 DEF CheckedAll, checking, findings, Checked, Asking, Retesting
  <1>13. CASE Block
    BY <1>0, <1>13 DEF Block, checking, Asking
  <1>14. CASE StopPatch
    BY <1>0, <1>14 DEF StopPatch, checking, First, Asking
  <1>15. CASE LinkBug
    <2>1. PICK f \in First : unknown' = unknown \ {f} /\ (At(f[1], "count") \/ UNCHANGED check)
      BY <1>15 DEF LinkBug
    <2>2. f \in unknown /\ f[1] \in DOMAIN list /\ f[1] \notin slow
      BY DEF First
    <2> QED
      BY <1>0, <1>15, <2>1, <2>2 DEF LinkBug, At, Asking, Retesting
  <1>16. CASE DecidedAll
    BY <1>0, <1>16 DEF DecidedAll, checking, findings, Asking, Running, Busy, Retesting
  <1>17. CASE LoadReport
    BY <1>17 DEF LoadReport, checking, findings, Asking
  <1>18. CASE WriteReport
    BY <1>0, <1>18 DEF WriteReport, findings, Nothing, Asking, Retesting
  <1>19. CASE Edit
    BY <1>19 DEF Edit, checking, findings, Asking
  <1>20. ASSUME NEW u \in Urls, Closes(u) PROVE Lifecycle'
    BY <1>20 DEF Closes, checking, findings, Asking
  <1>21. ASSUME NEW u \in Urls, Tests(u) PROVE Lifecycle'
    BY <1>21 DEF Tests, checking, findings, Asking
  <1>22. CASE UNCHANGED vars
    BY <1>22 DEF vars, checking, findings, Asking
  <1> QED
    BY <1>1, <1>2, <1>3, <1>4, <1>5, <1>6, <1>7, <1>8, <1>9, <1>10, <1>11, <1>12, <1>13,
       <1>14, <1>15, <1>16, <1>17, <1>18, <1>19, <1>20, <1>21, <1>22, <1>23 DEF Next, Checker

-----------------------------------------------------------------------------
(* The status of each patch.                                               *)

(* A run that sees no edit marks the list that it read, and the list's own *)
(* entries are true.                                                       *)
LEMMA StatusStep ==
  ASSUME TypeOK, Lifecycle, Unedited, StatusIsOfItsPatch, [Next]_vars
  PROVE  Unedited' /\ StatusIsOfItsPatch'
  <1> USE ShepherdAssumption
  <1> DEFINE Read == phase \in {"check", "block", "decide", "report", "write"}
             Right(i) == /\ verdict[i] = "merged" => gerrit[Url(i)] = "MERGED"
                         /\ verdict[i] = "stopped" => Url(i) \in blamed
  <1>0. /\ verdict \in [Places -> Statuses \cup {"none", "skipped"}] /\ edited \in BOOLEAN
        /\ \A i \in DOMAIN list : Url(i) \in Urls /\ i \in Places
        /\ gerrit \in [Urls -> {"NEW", "MERGED", "ABANDONED"}]
    BY ListedUrl DEF TypeOK
  <1>1. CASE Start
    BY <1>1 DEF Start, Unedited, StatusIsOfItsPatch, world, seen
  <1>2. CASE StampTime
    BY <1>2 DEF StampTime, Unedited, StatusIsOfItsPatch, world, checking, findings, seen
  <1>3. CASE ReadList
    <2>1. \A i \in DOMAIN watch : verdict[i] = "none"
      <3>1. DOMAIN watch = 1..Len(watch) /\ Len(watch) \in Nat /\ Len(watch) <= MaxLength
        BY Lists DEF TypeOK
      <3> QED
        BY <1>3, <3>1 DEF Lifecycle, Nothing, ReadList, Places
    <2> QED
      BY <1>0, <1>3, <2>1 DEF ReadList, Unedited, StatusIsOfItsPatch, world, findings, seen, Url
  <1>4. ASSUME NEW i \in Places, Take(i) PROVE Unedited' /\ StatusIsOfItsPatch'
    BY <1>4 DEF Take, Outside, Unedited, StatusIsOfItsPatch, world, findings, seen, Url
  <1>5. ASSUME NEW i \in Places, Info(i) PROVE Unedited' /\ StatusIsOfItsPatch'
    <2>1. \/ UNCHANGED verdict
          \/ Found(i, "merged") /\ gerrit[Url(i)] = "MERGED"
          \/ \E s \in {"abandoned", "skipped", "needs_review"} : Found(i, s)
      BY <1>5 DEF Info
    <2>2. \A j \in DOMAIN list : Right(j) => Right(j)'
      BY <1>0, <1>5, <2>1 DEF Info, Found, Outside, world, seen, Url
    <2> QED
      BY <1>0, <1>5, <2>2 DEF Info, Outside, Unedited, StatusIsOfItsPatch, world, seen, Url
  <1>6. ASSUME NEW i \in Places, ReadCi(i) PROVE Unedited' /\ StatusIsOfItsPatch'
    BY <1>6 DEF ReadCi, Outside, Unedited, StatusIsOfItsPatch, world, findings, seen, Url
  <1>23. ASSUME NEW i \in Places, NextSuite(i) PROVE Unedited' /\ StatusIsOfItsPatch'
    BY <1>23 DEF NextSuite, Outside, Unedited, StatusIsOfItsPatch, world, seen, Url
  <1>7. ASSUME NEW i \in Places, CountRetests(i) PROVE Unedited' /\ StatusIsOfItsPatch'
    BY <1>7 DEF CountRetests, Outside, Unedited, StatusIsOfItsPatch, world, findings, seen, Url
  <1>8. ASSUME NEW i \in Places, AppendRetest(i) PROVE Unedited' /\ StatusIsOfItsPatch'
    BY <1>8 DEF AppendRetest, Outside, Unedited, StatusIsOfItsPatch, world, findings, seen, Url
  <1>9. ASSUME NEW i \in Places, CallRetest(i) PROVE Unedited' /\ StatusIsOfItsPatch'
    BY <1>9 DEF CallRetest, Outside, Unedited, StatusIsOfItsPatch, findings, Url
  <1>10. ASSUME NEW i \in Places, GiveUp(i) PROVE Unedited' /\ StatusIsOfItsPatch'
    BY <1>10 DEF GiveUp, Unedited, StatusIsOfItsPatch, world, Url
  <1>11. ASSUME NEW o \in orphans, OrphanProceeds(o) PROVE Unedited' /\ StatusIsOfItsPatch'
    BY <1>11 DEF OrphanProceeds, Unedited, StatusIsOfItsPatch, findings, Url
  <1>12. CASE CheckedAll
    BY <1>12 DEF CheckedAll, Checked, Unedited, StatusIsOfItsPatch, world, checking, findings, seen, Url
  <1>13. CASE Block
    <2>1. PICK S \in SUBSET {i \in DOMAIN list : verdict[i] # "skipped"} :
            /\ verdict' = [i \in Places |-> IF i \in S THEN "stopped" ELSE verdict[i]]
            /\ blamed' = blamed \cup {Url(i) : i \in S}
      BY <1>13 DEF Block
    <2>2. UNCHANGED <<list, gerrit>>
      BY <1>13 DEF Block, world, checking
    <2>3. \A j \in DOMAIN list : Right(j) => Right(j)'
      BY <1>0, <2>1, <2>2 DEF Url
    <2>4. blamed \subseteq blamed'
      BY <2>1
    <2> QED
      BY <1>0, <1>13, <2>3, <2>4 DEF Block, Unedited, StatusIsOfItsPatch, world, checking, Url
  <1>14. CASE StopPatch
    <2>1. PICK f \in First : /\ verdict' = [verdict EXCEPT ![f[1]] = "stopped"]
                             /\ blamed' = blamed \cup {Url(f[1])}
      BY <1>14 DEF StopPatch
    <2>2. UNCHANGED <<list, gerrit>>
      BY <1>14 DEF StopPatch, world, checking
    <2>3. \A j \in DOMAIN list : Right(j) => Right(j)'
      BY <1>0, <2>1, <2>2 DEF Url
    <2>4. blamed \subseteq blamed'
      BY <2>1
    <2> QED
      BY <1>0, <1>14, <2>3, <2>4 DEF StopPatch, Unedited, StatusIsOfItsPatch, world, checking, Url
  <1>15. CASE LinkBug
    BY <1>15 DEF LinkBug, Unedited, StatusIsOfItsPatch, world, seen, Url
  <1>16. CASE DecidedAll
    BY <1>16 DEF DecidedAll, Unedited, StatusIsOfItsPatch, world, checking, findings, seen, Url
  <1>17. CASE LoadReport
    BY <1>17 DEF LoadReport, Unedited, StatusIsOfItsPatch, world, checking, findings, seen, Url
  <1>18. CASE WriteReport
    <2>1. UNCHANGED <<gerrit, blamed, edited, verdict>> /\ phase' = "off"
      BY <1>18 DEF WriteReport, world, findings, seen
    <2>2. SUFFICES ASSUME ~edited, NEW i \in DOMAIN watch'
                   PROVE  /\ watch'[i].ws = "merged" => gerrit[watch'[i].url] = "MERGED"
                          /\ watch'[i].ws = "stopped" => watch'[i].url \in blamed
      BY <2>1 DEF Unedited, StatusIsOfItsPatch
    <2>3. loaded = watch /\ list = watch /\ Read
      BY <1>18, <2>2 DEF Unedited, WriteReport
    <2>4. watch' = watch \/ watch' = Marked(watch)
      BY <1>18, <2>3 DEF WriteReport
    <2>5. watch \in [1..Len(watch) -> Entry]
      BY Lists DEF TypeOK
    <2>6. i \in DOMAIN watch
      BY <2>2, <2>4 DEF Marked
    <2>7. \/ watch'[i] = watch[i]
          \/ watch'[i].url = Url(i) /\ watch'[i].ws = verdict[i]
      BY <2>3, <2>4, <2>5, <2>6 DEF Marked, Url, Entry
    <2>8. Right(i)
      BY <2>2, <2>3, <2>6 DEF Unedited
    <2> QED
      BY <2>2, <2>6, <2>7, <2>8 DEF StatusIsOfItsPatch
  <1>19. CASE Edit
    <2>1. UNCHANGED <<gerrit, blamed, phase, loaded, list, verdict>>
      BY <1>19 DEF Edit, world, checking, findings
    <2>2. edited' = (edited \/ phase # "off")
      BY <1>19 DEF Edit
    <2>3. Unedited'
      BY <2>1, <2>2 DEF Unedited
    <2>4. SUFFICES ASSUME ~edited, NEW i \in DOMAIN watch'
                   PROVE  /\ watch'[i].ws = "merged" => gerrit[watch'[i].url] = "MERGED"
                          /\ watch'[i].ws = "stopped" => watch'[i].url \in blamed
      BY <1>0, <2>1, <2>2, <2>3 DEF StatusIsOfItsPatch
    <2>5. watch \in Seq(Entry) /\ watch \in [1..Len(watch) -> Entry] /\ Len(watch) \in Nat
      BY Lists DEF TypeOK
    <2>6. watch'[i].ws = "active" \/ \E j \in DOMAIN watch : watch'[i] = watch[j]
      <3>1. ASSUME NEW k \in DOMAIN watch, watch' = Without(watch, k)
            PROVE  \E j \in DOMAIN watch : watch'[i] = watch[j]
        <4>1. i \in 1..Len(watch) - 1
          BY <2>4, <2>5, <3>1 DEF Without
        <4>2. i \in DOMAIN watch /\ i + 1 \in DOMAIN watch
          BY <2>5, <4>1
        <4> QED
          BY <3>1, <4>1, <4>2 DEF Without
      <3>2. ASSUME NEW u \in Urls, watch' = Append(watch, [url |-> u, ws |-> "active"])
            PROVE  watch'[i].ws = "active" \/ \E j \in DOMAIN watch : watch'[i] = watch[j]
        BY <2>4, <2>5, <3>2
      <3>3. ASSUME NEW k \in DOMAIN watch, watch' = [watch EXCEPT ![k].ws = "active"]
            PROVE  watch'[i].ws = "active" \/ \E j \in DOMAIN watch : watch'[i] = watch[j]
        <4>1. i \in DOMAIN watch
          BY <2>4, <3>3
        <4>2. watch[k] \in Entry
          BY <2>5
        <4>3. CASE i = k
          BY <2>5, <3>3, <4>1, <4>2, <4>3 DEF Entry
        <4>4. CASE i # k
          BY <2>5, <3>3, <4>1, <4>4
        <4> QED
          BY <4>3, <4>4
      <3> QED
        BY <1>19, <3>1, <3>2, <3>3 DEF Edit
    <2> QED
      BY <2>4, <2>6 DEF StatusIsOfItsPatch
  <1>20. ASSUME NEW u \in Urls, Closes(u) PROVE Unedited' /\ StatusIsOfItsPatch'
    <2>1. \A v \in Urls : gerrit[v] = "MERGED" => gerrit'[v] = "MERGED"
      BY <1>0, <1>20 DEF Closes
    <2>2. \A i \in DOMAIN watch : watch[i].url \in Urls
      <3>1. watch \in [1..Len(watch) -> Entry]
        BY Lists DEF TypeOK
      <3> QED
        BY <3>1 DEF Entry
    <2> QED
      BY <1>0, <1>20, <2>1, <2>2
      DEF Closes, Unedited, StatusIsOfItsPatch, checking, findings, seen, Url
  <1>21. ASSUME NEW u \in Urls, Tests(u) PROVE Unedited' /\ StatusIsOfItsPatch'
    BY <1>21 DEF Tests, Unedited, StatusIsOfItsPatch, checking, findings, seen, Url
  <1>22. CASE UNCHANGED vars
    BY <1>22 DEF vars, Unedited, StatusIsOfItsPatch, world, checking, findings, seen, Url
  <1> QED
    BY <1>1, <1>2, <1>3, <1>4, <1>5, <1>6, <1>7, <1>8, <1>9, <1>10, <1>11, <1>12, <1>13,
       <1>14, <1>15, <1>16, <1>17, <1>18, <1>19, <1>20, <1>21, <1>22, <1>23 DEF Next, Checker

-----------------------------------------------------------------------------
(* Retests of one run at a time.                                           *)

(* A place that asks for a retest finds none pending but of its own run,   *)
(* and leaves it so.                                                       *)
LEMMA RetestBySame ==
  ASSUME TypeOK, RetestsOfThisRun, RetestedByOneRun, NEW i \in DOMAIN list, Asks(i),
         Retests(Url(i), runs)
  PROVE  /\ crossed' \subseteq strayed
         /\ \A u \in Urls : pending[u] \in {0, runs} => pending'[u] \in {0, runs}
  <1>1. Url(i) \in Urls /\ pending \in [Urls -> 0..MaxRuns]
    BY ListedUrl DEF TypeOK
  <1>2. crossed' = IF pending[Url(i)] \in {0, runs} THEN crossed ELSE crossed \cup {Url(i)}
    BY DEF Retests
  <1>3. Url(i) \notin strayed => pending[Url(i)] \in {0, runs}
    BY <1>1 DEF RetestsOfThisRun
  <1>4. crossed' \subseteq strayed
    BY <1>2, <1>3 DEF RetestedByOneRun
  <1>5. \A u \in Urls : pending[u] \in {0, runs} => pending'[u] \in {0, runs}
    BY <1>1 DEF Retests
  <1> QED
    BY <1>4, <1>5

(* A step keeps to the run's own retests if no patch that nobody gave up   *)
(* gets an orphan, a place that asks or another run's retest by it.        *)
LEMMA SameAsks ==
  ASSUME RetestsOfThisRun, RetestedByOneRun, UNCHANGED <<runs, list>>,
         crossed' \subseteq strayed', strayed \subseteq strayed',
         \A u \in Urls \ strayed' : \A o \in orphans' : o.url = u => \E q \in orphans : q.url = u,
         \A i \in DOMAIN list : Url(i) \notin strayed' /\ Asks(i)' => Asks(i),
         \A u \in Urls \ strayed' : pending[u] \in {0, runs} => pending'[u] \in {0, runs}
  PROVE  RetestsOfThisRun' /\ RetestedByOneRun'
  <1>1. \A i \in DOMAIN list : Url(i)' = Url(i)
    BY DEF Url
  <1> QED
    BY <1>1 DEF RetestsOfThisRun, RetestedByOneRun

LEMMA RetestsStep ==
  ASSUME TypeOK, Lifecycle, RetestsOfThisRun, RetestedByOneRun, [Next]_vars
  PROVE  RetestsOfThisRun' /\ RetestedByOneRun'
  <1> USE ShepherdAssumption
  <1>0. /\ check \in [Places -> Checks] /\ rest \in [Places -> SUBSET Suites]
        /\ orphans \subseteq Orphan
        /\ \A i \in DOMAIN list : Url(i) \in Urls /\ i \in Places
    BY ListedUrl DEF TypeOK
  <1>1. CASE Start
    <2>1. UNCHANGED <<list, orphans, strayed, crossed, check>> /\ unknown' = {}
      BY <1>1 DEF Start, seen
    <2>2. \A i \in DOMAIN list : ~Asks(i)'
      BY <1>0, <1>1, <2>1 DEF Start, Lifecycle, Asks, Asking, Retesting
    <2> QED
      BY <2>1, <2>2 DEF RetestsOfThisRun, RetestedByOneRun
  <1>2. CASE StampTime
    BY <1>2, SameAsks DEF StampTime, RetestedByOneRun, world, checking, findings, seen, Asks
  <1>3. CASE ReadList
    <2>1. UNCHANGED <<orphans, strayed, crossed, unknown>>
      BY <1>3 DEF ReadList, findings, seen
    <2>2. DOMAIN watch = 1..Len(watch) /\ Len(watch) <= MaxLength /\ Len(watch) \in Nat
      BY Lists DEF TypeOK
    <2>3. unknown = {}
      BY <1>3 DEF Lifecycle, ReadList
    <2>4. \A i \in DOMAIN list' : ~Asks(i)'
      BY <1>3, <2>1, <2>2, <2>3 DEF ReadList, Asks, Retesting, Places
    <2> QED
      BY <2>1, <2>4 DEF RetestsOfThisRun, RetestedByOneRun
  <1>4. ASSUME NEW i \in Places, Take(i) PROVE RetestsOfThisRun' /\ RetestedByOneRun'
    <2>1. \A j \in DOMAIN list : Asks(j)' => Asks(j)
      BY <1>0, <1>4 DEF Take, At, findings, Asks, Retesting
    <2> QED
      BY <1>4, <2>1, SameAsks DEF Take, Outside, RetestedByOneRun, world, seen
  <1>5. ASSUME NEW i \in Places, Info(i) PROVE RetestsOfThisRun' /\ RetestedByOneRun'
    <2>1. At(i, "ci") \/ At(i, "done")
      BY <1>5 DEF Info
    <2>2. \A j \in DOMAIN list : Asks(j)' => Asks(j)
      BY <1>0, <1>5, <2>1 DEF Info, At, Asks, Retesting
    <2> QED
      BY <1>5, <2>2, SameAsks DEF Info, Outside, RetestedByOneRun, world, seen
  <1>6. ASSUME NEW i \in Places, ReadCi(i) PROVE RetestsOfThisRun' /\ RetestedByOneRun'
    <2>1. PICK S \in SUBSET Suites : (S # {} => Untested(Url(i))) /\ At(i, Later(S))
      BY <1>6 DEF ReadCi
    <2>2. UNCHANGED <<runs, list, orphans, pending, crossed, strayed, unknown>>
      BY <1>6 DEF ReadCi, Outside, world, findings, seen
    <2>3. \A j \in DOMAIN list : Asks(j)' => Asks(j) \/ (j = i /\ pending[Url(i)] = 0)
      BY <1>0, <2>1, <2>2 DEF At, Later, Asks, Retesting, Untested
    <2> QED
      BY <2>2, <2>3 DEF RetestsOfThisRun, RetestedByOneRun, Url
  <1>23. ASSUME NEW i \in Places, NextSuite(i) PROVE RetestsOfThisRun' /\ RetestedByOneRun'
    <2>1. PICK s \in rest[i] : unknown' \in {unknown, unknown \cup {<<i, s>>}}
      BY <1>23 DEF NextSuite
    <2>2. Asks(i) /\ <<i, s>>[1] = i
      BY <1>23 DEF NextSuite, Asks
    <2>3. \A j \in DOMAIN list : j # i => check'[j] = check[j]
      BY <1>0, <1>23 DEF NextSuite, At
    <2>4. \A j \in DOMAIN list : Asks(j)' => Asks(j)
      BY <2>1, <2>2, <2>3 DEF Asks
    <2> QED
      BY <1>23, <2>4, SameAsks DEF NextSuite, Outside, RetestedByOneRun, world, seen
  <1>7. ASSUME NEW i \in Places, CountRetests(i) PROVE RetestsOfThisRun' /\ RetestedByOneRun'
    <2>1. \A j \in DOMAIN list : Asks(j)' => Asks(j)
      BY <1>0, <1>7 DEF CountRetests, At, findings, Asks, Retesting
    <2> QED
      BY <1>7, <2>1, SameAsks DEF CountRetests, Outside, RetestedByOneRun, world, seen
  <1>8. ASSUME NEW i \in Places, AppendRetest(i) PROVE RetestsOfThisRun' /\ RetestedByOneRun'
    <2>1. \A j \in DOMAIN list : Asks(j)' => Asks(j)
      BY <1>0, <1>8 DEF AppendRetest, At, findings, Asks, Retesting
    <2> QED
      BY <1>8, <2>1, SameAsks DEF AppendRetest, Outside, RetestedByOneRun, world, seen
  <1>9. ASSUME NEW i \in Places, CallRetest(i) PROVE RetestsOfThisRun' /\ RetestedByOneRun'
    <2>1. Asks(i) /\ i \in DOMAIN list
      BY <1>9 DEF CallRetest, Asks, Retesting, Lifecycle
    <2>2. UNCHANGED <<runs, list, orphans, unknown, strayed>>
      BY <1>9 DEF CallRetest, Outside, findings
    <2>3. \A j \in DOMAIN list : j # i => check'[j] = check[j]
      BY <1>0, <1>9 DEF CallRetest, At
    <2>4. \A j \in DOMAIN list : Asks(j)' => Asks(j)
      BY <2>1, <2>2, <2>3 DEF Asks
    <2>5. /\ crossed' \subseteq strayed
          /\ \A u \in Urls : pending[u] \in {0, runs} => pending'[u] \in {0, runs}
      <3>1. CASE UNCHANGED <<pending, crossed>>
        BY <3>1 DEF RetestedByOneRun
      <3>2. CASE Retests(Url(i), runs)
        BY <2>1, <3>2, RetestBySame
      <3> QED
        BY <1>9, <3>1, <3>2 DEF CallRetest
    <2> QED
      BY <2>2, <2>4, <2>5, SameAsks
  <1>10. ASSUME NEW i \in Places, GiveUp(i) PROVE RetestsOfThisRun' /\ RetestedByOneRun'
    <2> DEFINE new == [url |-> Url(i), place |-> i, at |-> check[i], rest |-> rest[i], run |-> runs]
    <2>1. /\ UNCHANGED <<runs, list, pending, crossed>>
          /\ strayed' = strayed \cup {Url(i)} /\ orphans' = orphans \cup {new}
          /\ unknown' = {f \in unknown : f[1] # i} /\ At(i, "done")
      BY <1>10 DEF GiveUp, world
    <2>2. \A o \in orphans' : o \in orphans \/ o.url = Url(i)
      BY <2>1
    <2>3. \A j \in DOMAIN list : Asks(j)' => Asks(j)
      BY <1>0, <2>1 DEF At, Asks, Retesting
    <2> HIDE DEF new
    <2> QED
      BY <2>1, <2>2, <2>3, SameAsks DEF RetestedByOneRun
  <1>11. ASSUME NEW o \in orphans, OrphanProceeds(o) PROVE RetestsOfThisRun' /\ RetestedByOneRun'
    <2>1. UNCHANGED <<runs, list, check, unknown, strayed>>
      BY <1>11 DEF OrphanProceeds, findings
    <2>2. o \in Orphan /\ o.url \in Urls /\ o.url \in strayed
      BY <1>0 DEF Orphan, RetestsOfThisRun
    <2>3. \A q \in orphans' : q \in orphans \/ q.url = o.url
      <3>1. PICK s, R : OrphanGoes(o, s, R)
        BY <1>11, <2>2, OrphanSteps
      <3> QED
        BY <2>2, <3>1 DEF OrphanGoes, Orphan
    <2>4. UNCHANGED <<pending, crossed>> \/ Retests(o.url, o.run)
      BY <1>11 DEF OrphanProceeds, OrphanLooks, OrphanAsks
    <2>5. crossed' \subseteq strayed /\ \A u \in Urls \ strayed : pending'[u] = pending[u]
      BY <2>2, <2>4 DEF Retests, RetestedByOneRun, TypeOK
    <2> QED
      BY <2>1, <2>2, <2>3, <2>5, SameAsks DEF Asks
  <1>12. CASE CheckedAll
    BY <1>12, SameAsks DEF CheckedAll, RetestedByOneRun, world, checking, findings, seen, Asks
  <1>13. CASE Block
    BY <1>13, SameAsks DEF Block, RetestedByOneRun, world, checking, Asks
  <1>14. CASE StopPatch
    <2>1. unknown' \subseteq unknown
      BY <1>14 DEF StopPatch
    <2> QED
      BY <1>14, <2>1, SameAsks DEF StopPatch, RetestedByOneRun, world, checking, Asks
  <1>15. CASE LinkBug
    <2>1. PICK f \in First : unknown' = unknown \ {f} /\ (At(f[1], "count") \/ UNCHANGED check)
      BY <1>15 DEF LinkBug
    <2>2. f \in unknown
      BY DEF First
    <2>3. \A j \in DOMAIN list : j # f[1] => check'[j] = check[j]
      BY <1>0, <2>1 DEF At
    <2>4. \A j \in DOMAIN list : Asks(j)' => Asks(j)
      BY <2>1, <2>2, <2>3 DEF Asks
    <2> QED
      BY <1>15, <2>4, SameAsks DEF LinkBug, RetestedByOneRun, world, seen
  <1>16. CASE DecidedAll
    BY <1>16, SameAsks DEF DecidedAll, RetestedByOneRun, world, checking, findings, seen, Asks
  <1>17. CASE LoadReport
    BY <1>17, SameAsks DEF LoadReport, RetestedByOneRun, world, checking, findings, seen, Asks
  <1>18. CASE WriteReport
    <2>1. UNCHANGED <<runs, list, pending, orphans, crossed, strayed, unknown>>
      BY <1>18 DEF WriteReport, world, findings, seen
    <2>2. \A j \in DOMAIN list : Asks(j)' => Asks(j)
      BY <1>0, <1>18, <2>1 DEF WriteReport, Nothing, Asks, Retesting
    <2> QED
      BY <2>1, <2>2, SameAsks DEF RetestedByOneRun
  <1>19. CASE Edit
    BY <1>19, SameAsks DEF Edit, RetestedByOneRun, world, checking, findings, Asks
  <1>20. ASSUME NEW u \in Urls, Closes(u) PROVE RetestsOfThisRun' /\ RetestedByOneRun'
    BY <1>20, SameAsks DEF Closes, RetestedByOneRun, checking, findings, seen, Asks
  <1>21. ASSUME NEW u \in Urls, Tests(u) PROVE RetestsOfThisRun' /\ RetestedByOneRun'
    <2>1. \A v \in Urls : pending'[v] \in {0, pending[v]}
      BY <1>21 DEF Tests, TypeOK
    <2> QED
      BY <1>21, <2>1, SameAsks DEF Tests, RetestedByOneRun, checking, findings, seen, Asks
  <1>22. CASE UNCHANGED vars
    BY <1>22, SameAsks DEF vars, RetestedByOneRun, world, checking, findings, seen, Asks
  <1> QED
    BY <1>1, <1>2, <1>3, <1>4, <1>5, <1>6, <1>7, <1>8, <1>9, <1>10, <1>11, <1>12, <1>13,
       <1>14, <1>15, <1>16, <1>17, <1>18, <1>19, <1>20, <1>21, <1>22, <1>23 DEF Next, Checker

-----------------------------------------------------------------------------
(* The cap on the retests of a run.                                        *)

LEMMA Sizes ==
  ASSUME NEW S \in SUBSET Places
  PROVE  /\ IsFiniteSet(S) /\ Cardinality(S) \in Nat
         /\ \A T \in SUBSET S : Cardinality(T) <= Cardinality(S)
         /\ \A i \in S : Cardinality(S \ {i}) = Cardinality(S) - 1
         /\ \A i : i \notin S => Cardinality(S \cup {i}) = Cardinality(S) + 1
  <1>1. IsFiniteSet(Places)
    BY FS_Interval, ShepherdAssumption DEF Places
  <1>2. IsFiniteSet(S)
    BY <1>1, FS_Subset
  <1> QED
    BY <1>2, FS_CardinalityType, FS_Subset, FS_AddElement, FS_RemoveElement

(* Nobody who holds a place of the retests in a step comes to hold one.    *)
LEMMA BudgetSame ==
  ASSUME TypeOK, Budget, UNCHANGED <<runs, used, orphans, slow>>,
         Running' \subseteq Running, Counted' \subseteq Counted
  PROVE  Budget'
  <1>1. Running \in SUBSET Places /\ Counted \in SUBSET Places /\ OrphanCounted \in SUBSET Places
        /\ slow \in SUBSET Places /\ runs \in Nat /\ (runs > 0 => used[runs] \in Nat)
    BY ShepherdAssumption DEF Running, Counted, OrphanCounted, TypeOK
  <1>2. Cardinality(Running') <= Cardinality(Running) /\ Cardinality(Counted') <= Cardinality(Counted)
    BY <1>1, Sizes
  <1>3. /\ Cardinality(Running') \in Nat /\ Cardinality(Counted') \in Nat
        /\ Cardinality(Running) \in Nat /\ Cardinality(Counted) \in Nat
        /\ Cardinality(OrphanCounted) \in Nat /\ Cardinality(slow) \in Nat
    BY <1>1, Sizes
  <1>4. OrphanCounted' = OrphanCounted
    BY DEF OrphanCounted
  <1> QED
    BY <1>1, <1>2, <1>3, <1>4, ShepherdAssumption DEF Budget

(* Whoever counts below the cap leaves room for everybody else who counted *)
(* before: the running checks are no more than the workers, and the other  *)
(* ones were given up.                                                     *)
LEMMA RoomBelowCap ==
  ASSUME TypeOK, Budget, runs > 0, UnderCap(runs), NEW C \in SUBSET Running, NEW O \in SUBSET slow
  PROVE  used[runs] + Cardinality(C) + Cardinality(O)
           <= MaxRetests + Workers - 1 + Cardinality(slow)
  <1>1. Running \in SUBSET Places /\ slow \in SUBSET Places /\ used[runs] \in Nat /\ runs \in Nat
    BY ShepherdAssumption DEF Running, TypeOK
  <1>2. /\ Cardinality(C) <= Cardinality(Running) /\ Cardinality(O) <= Cardinality(slow)
        /\ Cardinality(C) \in Nat /\ Cardinality(O) \in Nat
        /\ Cardinality(Running) \in Nat /\ Cardinality(slow) \in Nat
    BY <1>1, Sizes
  <1>3. Cardinality(Running) <= Workers /\ used[runs] < MaxRetests
    BY DEF Budget, UnderCap
  <1> QED
    BY <1>1, <1>2, <1>3, ShepherdAssumption

LEMMA BudgetStep ==
  ASSUME TypeOK, Lifecycle, Budget, [Next]_vars
  PROVE  Budget'
  <1> USE ShepherdAssumption
  <1>0. /\ check \in [Places -> Checks] /\ runs \in 0..MaxRuns /\ runs \in Nat
        /\ used \in [1..MaxRuns -> Nat] /\ slow \in SUBSET Places
        /\ Running \in SUBSET Places /\ Counted \in SUBSET Running
        /\ OrphanCounted \in SUBSET slow /\ orphans \subseteq Orphan
        /\ Counted \in SUBSET Places /\ OrphanCounted \in SUBSET Places
        /\ (runs > 0 => runs \in 1..MaxRuns)
    BY DEF TypeOK, Running, Counted, OrphanCounted, Busy, Retesting, Budget
  <1>n. /\ Cardinality(Counted) \in Nat /\ Cardinality(OrphanCounted) \in Nat
        /\ Cardinality(Running) \in Nat /\ Cardinality(slow) \in Nat
    BY <1>0, Sizes
  <1>1. CASE Start
    <2>1. Running = {} /\ Counted = {}
      BY <1>0, <1>1 DEF Lifecycle, Start, Running, Busy, Retesting, Asking
    <2>2. Running' = {} /\ Counted' = {}
      BY <1>1, <2>1 DEF Start, Running, Counted
    <2>3. OrphanCounted' = {} /\ \A o \in orphans : o.run \in Nat /\ o.run < runs'
      BY <1>0, <1>1 DEF Start, OrphanCounted, Budget, Orphan
    <2>4. Cardinality({}) = 0
      BY FS_EmptySet
    <2>5. used'[runs'] = 0 /\ \A r \in 1..MaxRuns : r > runs' => used'[r] = 0
      BY <1>0, <1>1 DEF Start, Budget
    <2>6. slow' = {} /\ orphans' = orphans
      BY <1>1 DEF Start
    <2>7. used'[runs'] + Cardinality(Counted') + Cardinality(OrphanCounted')
            <= MaxRetests + Workers - 1 + Cardinality(slow')
      BY <2>2, <2>3, <2>4, <2>5, <2>6
    <2>8. Cardinality(Running') <= Workers
      BY <2>2, <2>4
    <2>9. \A o, q \in orphans' : o.run = q.run /\ o.place = q.place => o = q
      BY <2>6 DEF Budget
    <2>10. \A o \in orphans' : o.run <= runs' /\ (o.run = runs' => o.place \in slow')
      <3>1. \A o \in orphans : o.run \in Nat /\ runs' \in Nat
        BY <1>0, <1>1 DEF Start, Orphan
      <3> QED
        BY <2>3, <2>6, <3>1
    <2> QED
      BY <2>5, <2>7, <2>8, <2>9, <2>10 DEF Budget
  <1>2. CASE StampTime
    BY <1>2, BudgetSame DEF StampTime, checking, Running, Counted
  <1>3. CASE ReadList
    <2>1. Running' = {} /\ Counted' = {}
      BY <1>3 DEF ReadList, Running, Counted, Busy, Retesting
    <2> QED
      BY <1>3, <2>1, BudgetSame DEF ReadList
  <1>4. ASSUME NEW i \in Places, Take(i) PROVE Budget'
    <2>1. Running' = Running \cup {i} /\ i \notin Running /\ Counted' = Counted
      BY <1>0, <1>4 DEF Take, At, Running, Counted, Busy, Retesting
    <2>2. Cardinality(Running') = Cardinality(Running) + 1
      BY <1>0, <2>1, Sizes
    <2>3. Cardinality(Running') <= Workers
      BY <1>4, <1>n, <2>2 DEF Take
    <2>4. UNCHANGED <<runs, used, orphans, slow>>
      BY <1>4 DEF Take, Outside
    <2>5. OrphanCounted' = OrphanCounted
      BY <2>4 DEF OrphanCounted
    <2> QED
      BY <2>1, <2>3, <2>4, <2>5 DEF Budget
  <1>5. ASSUME NEW i \in Places, Info(i) PROVE Budget'
    <2>1. (At(i, "ci") \/ At(i, "done")) /\ check[i] = "info"
      BY <1>5 DEF Info
    <2>2. Running' \subseteq Running /\ Counted' \subseteq Counted
      BY <1>0, <2>1 DEF At, Running, Counted, Busy, Retesting
    <2> QED
      BY <1>5, <2>2, BudgetSame DEF Info, Outside
  <1>6. ASSUME NEW i \in Places, ReadCi(i) PROVE Budget'
    <2>1. (At(i, "suite") \/ At(i, "done")) /\ check[i] = "ci"
      BY <1>6 DEF ReadCi, Later
    <2>2. Running' \subseteq Running /\ Counted' \subseteq Counted
      BY <1>0, <2>1 DEF At, Running, Counted, Busy, Retesting
    <2> QED
      BY <1>6, <2>2, BudgetSame DEF ReadCi, Outside
  <1>23. ASSUME NEW i \in Places, NextSuite(i) PROVE Budget'
    <2>1. (At(i, "count") \/ At(i, "suite") \/ At(i, "done")) /\ check[i] = "suite"
      BY <1>23 DEF NextSuite, Later
    <2>2. Running' \subseteq Running /\ Counted' \subseteq Counted
      BY <1>0, <2>1 DEF At, Running, Counted, Busy, Retesting
    <2> QED
      BY <1>23, <2>2, BudgetSame DEF NextSuite, Outside
  <1>7. ASSUME NEW i \in Places, CountRetests(i) PROVE Budget'
    <2>1. UNCHANGED <<runs, used, orphans, slow>> /\ check[i] = "count" /\ Asking
      BY <1>7 DEF CountRetests, Outside
    <2>2. CASE ~UnderCap(runs)
      <3>1. Running' \subseteq Running /\ Counted' \subseteq Counted
        BY <1>0, <1>7, <2>1, <2>2 DEF CountRetests, At, Later, Running, Counted, Busy, Retesting
      <3> QED
        BY <2>1, <3>1, BudgetSame
    <2>3. CASE UnderCap(runs)
      <3>1. Running' = Running /\ Counted' \subseteq Running /\ OrphanCounted' = OrphanCounted
        BY <1>0, <1>7, <2>1, <2>3
        DEF CountRetests, At, Running, Counted, OrphanCounted, Busy, Retesting
      <3>2. runs > 0
        BY <1>0, <2>1 DEF Lifecycle, Asking
      <3>3. used[runs] + Cardinality(Counted') + Cardinality(OrphanCounted)
              <= MaxRetests + Workers - 1 + Cardinality(slow)
        BY <1>0, <2>3, <3>1, <3>2, RoomBelowCap
      <3> QED
        BY <2>1, <3>1, <3>3 DEF Budget
    <2> QED
      BY <2>2, <2>3
  <1>8. ASSUME NEW i \in Places, AppendRetest(i) PROVE Budget'
    <2>1. /\ UNCHANGED <<runs, orphans, slow>> /\ check[i] = "append" /\ Asking
          /\ used' = [used EXCEPT ![runs] = @ + 1]
      BY <1>8 DEF AppendRetest, Outside
    <2>2. runs \in 1..MaxRuns /\ runs > 0
      BY <1>0, <2>1 DEF Lifecycle, Asking
    <2>3. used'[runs] = used[runs] + 1 /\ \A r \in 1..MaxRuns : r > runs => used'[r] = used[r]
      BY <1>0, <2>1, <2>2
    <2>4. /\ Running' = Running /\ i \in Counted /\ Counted' = Counted \ {i}
          /\ OrphanCounted' = OrphanCounted
      BY <1>0, <1>8, <2>1 DEF AppendRetest, At, Running, Counted, OrphanCounted, Busy, Retesting
    <2>5. Cardinality(Counted') = Cardinality(Counted) - 1
      BY <1>0, <2>4, Sizes
    <2>6. used[runs] \in Nat
      BY <1>0, <2>2
    <2>7. used'[runs'] + Cardinality(Counted') + Cardinality(OrphanCounted')
            <= MaxRetests + Workers - 1 + Cardinality(slow')
      BY <1>n, <2>1, <2>2, <2>3, <2>4, <2>5, <2>6 DEF Budget
    <2> QED
      BY <1>0, <2>1, <2>3, <2>4, <2>7 DEF Budget
  <1>9. ASSUME NEW i \in Places, CallRetest(i) PROVE Budget'
    <2>1. Running' \subseteq Running /\ Counted' \subseteq Counted
      BY <1>0, <1>9 DEF CallRetest, At, Later, Running, Counted, Busy, Retesting
    <2> QED
      BY <1>9, <2>1, BudgetSame DEF CallRetest, Outside
  <1>10. ASSUME NEW i \in Places, GiveUp(i) PROVE Budget'
    <2> DEFINE new == [url |-> Url(i), place |-> i, at |-> check[i], rest |-> rest[i], run |-> runs]
    <2>1. /\ UNCHANGED <<runs, used>> /\ phase = "check" /\ i \in Running
          /\ slow' = slow \cup {i} /\ orphans' = orphans \cup {new}
          /\ check' = [check EXCEPT ![i] = "done"]
      BY <1>10 DEF GiveUp, Checked, At
    <2>2. i \notin slow
      BY <1>0, <2>1 DEF Lifecycle, Running, Busy, Retesting
    <2>3. Cardinality(slow') = Cardinality(slow) + 1
      BY <1>0, <2>1, <2>2, Sizes
    <2>4. \A o \in orphans : o.run = runs => o.place # i
      BY <2>2 DEF Budget
    <2>5. Running' \subseteq Running
      BY <1>0, <2>1 DEF Running, Busy, Retesting
    <2>6. Cardinality(Running') <= Workers
      <3>1. Cardinality(Running') <= Cardinality(Running) /\ Cardinality(Running') \in Nat
        BY <1>0, <2>5, Sizes
      <3> QED
        BY <1>n, <3>1 DEF Budget
    <2>7. new.place = i /\ new.run = runs /\ new.at = check[i]
      OBVIOUS
    <2> HIDE DEF new
    <2>8. \A o, q \in orphans' : o.run = q.run /\ o.place = q.place => o = q
      BY <2>1, <2>4, <2>7 DEF Budget
    <2>9. \A o \in orphans' : o.run <= runs' /\ (o.run = runs' => o.place \in slow')
      BY <1>0, <2>1, <2>7 DEF Budget
    <2>10. runs > 0 /\ used[runs] \in Nat
      BY <1>0, <2>1 DEF Lifecycle
    <2>11. CASE check[i] = "append"
      <3>1. i \in Counted /\ Counted' = Counted \ {i}
        BY <1>0, <2>1, <2>11 DEF Counted, Running
      <3>2. OrphanCounted' = OrphanCounted \cup {i}
        BY <1>0, <2>1, <2>7, <2>11 DEF OrphanCounted
      <3>3. i \notin OrphanCounted
        BY <1>0, <2>2
      <3>4. /\ Cardinality(Counted') = Cardinality(Counted) - 1
            /\ Cardinality(OrphanCounted') = Cardinality(OrphanCounted) + 1
        BY <1>0, <3>1, <3>2, <3>3, Sizes
      <3>5. used'[runs'] + Cardinality(Counted') + Cardinality(OrphanCounted')
              <= MaxRetests + Workers - 1 + Cardinality(slow')
        BY <1>n, <2>1, <2>3, <2>10, <3>4 DEF Budget
      <3> QED
        BY <2>1, <2>6, <2>8, <2>9, <3>5 DEF Budget
    <2>12. CASE check[i] # "append"
      <3>1. Counted' = Counted
        BY <1>0, <2>1, <2>12 DEF Counted
      <3>2. OrphanCounted' = OrphanCounted
        BY <1>0, <2>1, <2>7, <2>12 DEF OrphanCounted
      <3>3. used'[runs'] + Cardinality(Counted') + Cardinality(OrphanCounted')
              <= MaxRetests + Workers - 1 + Cardinality(slow')
        BY <1>n, <2>1, <2>3, <2>10, <3>1, <3>2 DEF Budget
      <3> QED
        BY <2>1, <2>6, <2>8, <2>9, <3>3 DEF Budget
    <2> QED
      BY <2>11, <2>12
  <1>11. ASSUME NEW o \in orphans, OrphanProceeds(o) PROVE Budget'
    <2> DEFINE moved(s, R) == [o EXCEPT !.at = s, !.rest = R]
    <2>1. UNCHANGED <<runs, check, slow>> /\ o \in Orphan /\ o.run \in 1..MaxRuns
      BY <1>0, <1>11 DEF OrphanProceeds, Orphan
    <2>2. \A s, R : moved(s, R).run = o.run /\ moved(s, R).place = o.place /\ moved(s, R).at = s
      BY <2>1 DEF Orphan
    <2>3. \/ /\ orphans' = orphans \ {o}
             /\ used' = used
          \/ \E s, R : /\ s # "append" /\ orphans' = (orphans \ {o}) \cup {moved(s, R)}
                       /\ used' = IF o.at = "append" THEN [used EXCEPT ![o.run] = @ + 1] ELSE used
          \/ \E R : /\ UnderCap(o.run) /\ used' = used
                    /\ orphans' = (orphans \ {o}) \cup {moved("append", R)}
      <3>1. \A R : Later(R) # "append"
        BY DEF Later
      <3>2. CASE OrphanLooks(o)
        <4>1. o.at # "append" /\ used' = used
          BY <3>2 DEF OrphanLooks
        <4>2. \/ \E s, R : s # "append" /\ OrphanGoes(o, s, R)
              \/ UnderCap(o.run) /\ OrphanGoes(o, "append", o.rest)
          BY <3>1, <3>2 DEF OrphanLooks
        <4> QED
          BY <4>1, <4>2 DEF OrphanGoes
      <3>3. CASE OrphanAsks(o)
        <4>1. CASE o.at = "append"
          BY <3>3, <4>1 DEF OrphanAsks, OrphanGoes
        <4>2. CASE o.at = "call"
          BY <3>1, <3>3, <4>2 DEF OrphanAsks, OrphanGoes
        <4> QED
          BY <3>3, <4>1, <4>2 DEF OrphanAsks
      <3> QED
        BY <1>11, <3>2, <3>3 DEF OrphanProceeds
    <2> HIDE DEF moved
    <2>4. \A q \in orphans' : \E p \in orphans : q.run = p.run /\ q.place = p.place /\ (q = p \/ p = o)
      BY <2>2, <2>3
    <2>5. /\ \A q \in orphans' : q.run <= runs' /\ (q.run = runs' => q.place \in slow')
          /\ \A p, q \in orphans' : p.run = q.run /\ p.place = q.place => p = q
      <3>1. \A q \in orphans' : q.run <= runs' /\ (q.run = runs' => q.place \in slow')
        BY <2>1, <2>4 DEF Budget
      <3>2. \A q \in orphans' : q \in orphans \ {o} \/ (q.run = o.run /\ q.place = o.place)
        BY <2>2, <2>3
      <3>3. \A p, q \in orphans' : p \notin orphans \ {o} /\ q \notin orphans \ {o} => p = q
        BY <2>3
      <3>4. \A p \in orphans \ {o} : ~(p.run = o.run /\ p.place = o.place)
        BY DEF Budget
      <3> QED
        BY <3>1, <3>2, <3>3, <3>4 DEF Budget
    <2>6. Running' = Running /\ Counted' = Counted
      BY <2>1 DEF Running, Counted
    <2>7. \A r \in 1..MaxRuns : r # o.run => used'[r] = used[r]
      BY <1>0, <2>3
    <2>8. \A r \in 1..MaxRuns : r > runs => used'[r] = used[r]
      <3>1. o.run <= runs
        BY DEF Budget
      <3> QED
        BY <1>0, <2>1, <2>7, <3>1
    <2>9. OrphanCounted' \in SUBSET slow
      BY <1>0, <2>1, <2>5 DEF OrphanCounted
    <2>10. SUFFICES ASSUME runs > 0
                    PROVE  used'[runs] + Cardinality(Counted) + Cardinality(OrphanCounted')
                             <= MaxRetests + Workers - 1 + Cardinality(slow)
      BY <1>0, <2>1, <2>5, <2>6, <2>8 DEF Budget
    <2>11. CASE o.run # runs
      <3>1. used'[runs] = used[runs]
        BY <1>0, <2>7, <2>10, <2>11
      <3>2. OrphanCounted' \subseteq OrphanCounted
        BY <2>1, <2>2, <2>3, <2>11 DEF OrphanCounted
      <3>3. Cardinality(OrphanCounted') <= Cardinality(OrphanCounted) /\ Cardinality(OrphanCounted') \in Nat
        BY <1>0, <3>2, Sizes
      <3>4. used[runs] \in Nat
        BY <1>0, <2>10
      <3> QED
        BY <1>n, <2>10, <3>1, <3>3, <3>4 DEF Budget
    <2>12. CASE o.run = runs /\ UnderCap(o.run) /\ used' = used
      BY <1>0, <2>9, <2>10, <2>12, RoomBelowCap
    <2>13. CASE o.run = runs /\ ~(UnderCap(o.run) /\ used' = used)
      <3>1. \A q \in orphans' : q \in orphans \ {o} \/ q.at # "append"
        BY <2>2, <2>3, <2>13
      <3>2. OrphanCounted' \subseteq OrphanCounted
        BY <2>1, <3>1 DEF OrphanCounted
      <3>3. Cardinality(OrphanCounted') <= Cardinality(OrphanCounted) /\ Cardinality(OrphanCounted') \in Nat
        BY <1>0, <3>2, Sizes
      <3>4. used[runs] \in Nat
        BY <1>0, <2>10
      <3>5. CASE used' = used
        BY <1>n, <2>10, <3>3, <3>4, <3>5 DEF Budget
      <3>6. CASE used' # used
        <4>1. o.at = "append" /\ used' = [used EXCEPT ![o.run] = @ + 1]
          BY <2>3, <3>6
        <4>2. used'[runs] = used[runs] + 1
          BY <1>0, <2>10, <2>13, <4>1
        <4>3. o.place \in OrphanCounted
          BY <1>0, <2>1, <2>13, <4>1 DEF OrphanCounted, Orphan
        <4>4. o.place \notin OrphanCounted'
          BY <2>1, <2>13, <3>1 DEF OrphanCounted, Budget
        <4>5. OrphanCounted' \in SUBSET (OrphanCounted \ {o.place})
          BY <3>2, <4>4
        <4>6. OrphanCounted \ {o.place} \in SUBSET Places
          BY <1>0
        <4>7. /\ Cardinality(OrphanCounted') <= Cardinality(OrphanCounted \ {o.place})
              /\ Cardinality(OrphanCounted \ {o.place}) = Cardinality(OrphanCounted) - 1
          BY <1>0, <4>3, <4>5, <4>6, Sizes
        <4> QED
          BY <1>n, <2>10, <3>3, <3>4, <4>2, <4>7 DEF Budget
      <3> QED
        BY <3>5, <3>6
    <2> QED
      BY <2>11, <2>12, <2>13
  <1>12. CASE CheckedAll
    BY <1>12, BudgetSame DEF CheckedAll, checking, Running, Counted
  <1>13. CASE Block
    BY <1>13, BudgetSame DEF Block, checking, Running, Counted
  <1>14. CASE StopPatch
    BY <1>14, BudgetSame DEF StopPatch, checking, Running, Counted
  <1>15. CASE LinkBug
    <2>1. PICK f \in First : unknown' = unknown \ {f} /\ (At(f[1], "count") \/ UNCHANGED check)
      BY <1>15 DEF LinkBug
    <2>2. UNCHANGED <<runs, used, orphans, slow>> /\ Running = {} /\ Counted = {}
      BY <1>0, <1>15 DEF LinkBug
    <2>3. Counted' = {} /\ Running' \subseteq {f[1]}
      BY <1>0, <2>1, <2>2 DEF At, Running, Counted, Busy, Retesting
    <2>4. Cardinality(Running') <= Workers
      <3>1. Cardinality({f[1]}) = 1 /\ IsFiniteSet({f[1]})
        BY FS_Singleton
      <3>2. Cardinality(Running') <= 1 /\ Cardinality(Running') \in Nat
        BY <2>3, <3>1, FS_Subset, FS_CardinalityType
      <3> QED
        BY <3>2
    <2>5. OrphanCounted' = OrphanCounted
      BY <2>2 DEF OrphanCounted
    <2> QED
      BY <2>2, <2>3, <2>4, <2>5 DEF Budget
  <1>16. CASE DecidedAll
    BY <1>16, BudgetSame DEF DecidedAll, checking, Running, Counted
  <1>17. CASE LoadReport
    BY <1>17, BudgetSame DEF LoadReport, checking, Running, Counted
  <1>18. CASE WriteReport
    <2>1. Running' = {} /\ Counted' = {}
      BY <1>18 DEF WriteReport, Running, Counted, Nothing, Busy, Retesting
    <2> QED
      BY <1>18, <2>1, BudgetSame DEF WriteReport
  <1>19. CASE Edit
    BY <1>19, BudgetSame DEF Edit, checking, Running, Counted
  <1>20. ASSUME NEW u \in Urls, Closes(u) PROVE Budget'
    BY <1>20, BudgetSame DEF Closes, checking, Running, Counted
  <1>21. ASSUME NEW u \in Urls, Tests(u) PROVE Budget'
    BY <1>21, BudgetSame DEF Tests, checking, Running, Counted
  <1>22. CASE UNCHANGED vars
    BY <1>22, BudgetSame DEF vars, checking, Running, Counted
  <1> QED
    BY <1>1, <1>2, <1>3, <1>4, <1>5, <1>6, <1>7, <1>8, <1>9, <1>10, <1>11, <1>12, <1>13,
       <1>14, <1>15, <1>16, <1>17, <1>18, <1>19, <1>20, <1>21, <1>22, <1>23 DEF Next, Checker

-----------------------------------------------------------------------------
(* The theorems.                                                           *)

LEMMA BudgetBounds ==
  ASSUME TypeOK, Budget
  PROVE  RetestsBounded
  <1>1. /\ Counted \in SUBSET Places /\ OrphanCounted \in SUBSET Places /\ slow \in SUBSET Places
        /\ (runs > 0 => used[runs] \in Nat)
    BY ShepherdAssumption DEF Counted, OrphanCounted, TypeOK
  <1>2. /\ Cardinality(Counted) \in Nat /\ Cardinality(OrphanCounted) \in Nat
        /\ Cardinality(slow) \in Nat
    BY <1>1, Sizes
  <1> QED
    BY <1>1, <1>2, ShepherdAssumption DEF Budget, RetestsBounded

LEMMA InitIInv ==
  ASSUME Init
  PROVE  IInv
  <1> USE ShepherdAssumption DEF Init
  <1>1. PICK n \in Places : watch \in [1..n -> [url : Urls, ws : {"active"}]]
    OBVIOUS
  <1>2. watch \in [1..n -> Entry] /\ n \in Nat /\ n <= MaxLength
    BY <1>1 DEF Entry, Statuses, Places
  <1>3. watch \in Seq(Entry) /\ Len(watch) = n /\ DOMAIN watch = 1..n
    BY <1>2, Listed
  <1>4. <<>> \in Seq(Entry) /\ Len(<<>>) = 0 /\ DOMAIN <<>> = {}
    OBVIOUS
  <1>5. Nothing \in [Places -> Checks] /\ Nothing \in [Places -> Statuses \cup {"none", "skipped"}]
    BY DEF Nothing, Checks
  <1>6. TypeOK
    <2>1. \A l \in {watch, loaded, list} : l \in Seq(Entry) /\ Len(l) <= MaxLength
      <3>1. loaded = <<>> /\ list = <<>> /\ 0 <= MaxLength
        OBVIOUS
      <3>2. Len(watch) <= MaxLength /\ Len(loaded) <= MaxLength /\ Len(list) <= MaxLength
        BY <1>2, <1>3, <1>4, <3>1
      <3>3. watch \in Seq(Entry) /\ loaded \in Seq(Entry) /\ list \in Seq(Entry)
        BY <1>3, <1>4, <3>1
      <3> QED
        BY <3>2, <3>3
    <2>2. /\ gerrit \in [Urls -> {"NEW", "MERGED", "ABANDONED"}]
          /\ pending \in [Urls -> 0..MaxRuns] /\ rest \in [Places -> SUBSET Suites]
          /\ used \in [1..MaxRuns -> Nat]
          /\ runs \in 0..MaxRuns /\ edits \in 0..MaxEdits
      OBVIOUS
    <2> QED
      BY <1>5, <2>1, <2>2 DEF TypeOK
  <1>7. Lifecycle
    BY DEF Lifecycle, Nothing, Retesting
  <1>8. Budget
    <2>1. Running = {} /\ Cardinality({}) = 0
      BY FS_EmptySet DEF Running, Nothing, Busy, Retesting
    <2> QED
      BY <2>1 DEF Budget
  <1>9. Unedited
    BY DEF Unedited
  <1>10. RetestsOfThisRun
    BY DEF RetestsOfThisRun
  <1>11. StatusIsOfItsPatch
    BY <1>1, <1>3 DEF StatusIsOfItsPatch
  <1>12. RetestedByOneRun
    BY DEF RetestedByOneRun
  <1> QED
    BY <1>6, <1>7, <1>8, <1>9, <1>10, <1>11, <1>12 DEF IInv

LEMMA StepIInv ==
  ASSUME IInv, [Next]_vars
  PROVE  IInv'
  <1>1. TypeOK'
    BY TypeStep DEF IInv
  <1>2. Lifecycle'
    BY LifecycleStep DEF IInv
  <1>3. Budget'
    BY BudgetStep DEF IInv
  <1>4. Unedited' /\ StatusIsOfItsPatch'
    BY StatusStep DEF IInv
  <1>5. RetestsOfThisRun' /\ RetestedByOneRun'
    BY RetestsStep DEF IInv
  <1> QED
    BY <1>1, <1>2, <1>3, <1>4, <1>5 DEF IInv

THEOREM InductiveInvariant == Spec => []IInv
  BY InitIInv, StepIInv, PTL DEF Spec

(* Every variable keeps its type; a list that is rewritten, cut, added to  *)
(* or marked is still a list of entries no longer than the bound.          *)
THEOREM TypeCorrect == Spec => []TypeOK
  <1>1. IInv => TypeOK
    BY DEF IInv
  <1> QED
    BY InductiveInvariant, <1>1, PTL

(* The limit on the retests of a run (rate_check) is exceeded by those that*)
(* counted together only: one for each worker besides the first and one for*)
(* each check the orchestrator gave up, which goes on.                     *)
THEOREM RetestsAreBounded == Spec => []RetestsBounded
  <1>1. IInv => RetestsBounded
    BY BudgetBounds DEF IInv
  <1> QED
    BY InductiveInvariant, <1>1, PTL

(* The report writes a status to the patch it is about (write-report counts*)
(* places), as long as nobody edits the list while a run goes on.          *)
THEOREM StatusesAreTrue == Spec => []StatusIsOfItsPatch
  <1>1. IInv => StatusIsOfItsPatch
    BY DEF IInv
  <1> QED
    BY InductiveInvariant, <1>1, PTL

(* While a retest of a patch is pending no other run asks for one, unless a*)
(* check of that patch was given up: what a run read of CI before its first*)
(* retest holds, but for its own retests, until its last decision.         *)
THEOREM RetestsAreOfOneRun == Spec => []RetestedByOneRun
  <1>1. IInv => RetestedByOneRun
    BY DEF IInv
  <1> QED
    BY InductiveInvariant, <1>1, PTL
=============================================================================
