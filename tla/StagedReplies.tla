--------------------------- MODULE StagedReplies ---------------------------
(***************************************************************************)
(* `gerrit stage` keeps replies to the comment threads of a change in a    *)
(* file, `gerrit push` posts them.  Commands load the file and write it    *)
(* without a lock.  A push whose replies are all on one patchset posts one *)
(* review; another one makes drafts and publishes them together, because   *)
(* Gerrit would make a message for each patchset.  Any call fails, or      *)
(* loses its answer, or takes effect after its caller gave up, and any     *)
(* command is killed.                                                      *)
(***************************************************************************)
EXTENDS Integers, Sequences, FiniteSets

CONSTANTS
  Procs,      \* places where a command runs
  N,          \* threads of the change, in their order
  MaxReplies, \* bound: replies staged
  MaxPushes,  \* bound: pushes
  MaxEvents   \* bound: commands killed, threads resolved, uses of the web UI

ASSUME StagedAssumption ==
  /\ N \in Nat \ {0}
  /\ MaxReplies \in Nat \ {0}
  /\ MaxPushes \in Nat
  /\ MaxEvents \in Nat

Threads == 1..N
Ids     == 1..MaxReplies

(* A staged reply names its thread, and the thread's place among those that*)
(* were unresolved when it was staged.                                     *)
Op    == [id : Ids, index : Threads, thread : Threads]
Draft == [id : Ids, by : Procs]

(* The ids of a sequence of replies or of a set of drafts.                 *)
IdsOf(ops)   == {ops[i].id : i \in DOMAIN ops}
Drafted(ds)  == {d.id : d \in ds}

VARIABLES
  open,      \* the threads that are unresolved
  patchset,  \* of each thread's comment
  staged,    \* the file, empty when there is none
  torn,      \* a command died as it wrote it: it cannot be read
  drafts,    \* what pushes have left on the change
  webDraft,  \* the user has a draft of their own there
  posted,    \* how often each reply was posted: 2 for more than once
  messages,  \* the sets of replies that were posted together
  replies,   \* replies staged so far
  pushes,    \* pushes so far
  events,    \* what happened of what MaxEvents bounds
  step,      \* where each command is
  ops,       \* what it read, or is about to write
  made,      \* the drafts of a push that it knows of
  said,      \* the report of the last push, where it ran
  late,      \* the publish call was given up and may still take effect
  gone,      \* replies the user replaced, removed or cleared
  doubt,     \* replies of a push that could not, or did not, tell its end
  raced,     \* replies that a command overwrote or unlinked without having read them
  robbed,    \* the pushes whose drafts were published by others or with others', or deleted
  slipped,   \* the user's draft was saved between a push's last look and its publish
  taken      \* a push published the user's draft

file   == <<staged, torn>>
change == <<open, patchset, drafts, webDraft, posted, messages>>
command == <<step, ops, made, said, late>>
history == <<gone, doubt, raced, robbed, slipped, taken>>
bounded == <<replies, pushes, events>>
vars   == <<file, change, bounded, command, history>>

Pushing == {"read", "post", "check", "create", "recheck", "publish", "lookup", "delete", "clear"}
Steps   == {"idle", "stage", "save"} \cup Pushing

TypeOK ==
  /\ open \subseteq Threads
  /\ patchset \in [Threads -> 1..2]
  /\ staged \in Seq(Op) /\ torn \in BOOLEAN
  /\ drafts \subseteq Draft /\ webDraft \in BOOLEAN
  /\ posted \in [Ids -> 0..2]
  /\ messages \subseteq SUBSET Ids
  /\ replies \in 0..MaxReplies
  /\ pushes \in 0..MaxPushes
  /\ events \in 0..MaxEvents
  /\ step \in [Procs -> Steps]
  /\ ops \in [Procs -> Seq(Op)]
  /\ made \in [Procs -> SUBSET Draft]
  /\ said \in [Procs -> {"none", "posted", "nothing", "uncertain"}]
  /\ late \subseteq Procs
  /\ gone \subseteq Ids /\ doubt \subseteq Ids /\ raced \subseteq Ids
  /\ robbed \subseteq Procs
  /\ slipped \in BOOLEAN /\ taken \in BOOLEAN

Init ==
  /\ open = Threads
  /\ patchset \in [Threads -> 1..2] /\ patchset[1] = 1   \* they are told apart only
  /\ staged = <<>> /\ torn = FALSE
  /\ drafts = {} /\ webDraft = FALSE
  /\ posted = [id \in Ids |-> 0] /\ messages = {}
  /\ replies = 0 /\ pushes = 0 /\ events = 0
  /\ step = [p \in Procs |-> "idle"]
  /\ ops = [p \in Procs |-> <<>>]
  /\ made = [p \in Procs |-> {}]
  /\ said = [p \in Procs |-> "none"]
  /\ late = {}
  /\ gone = {} /\ doubt = {} /\ raced = {} /\ robbed = {} /\ slipped = FALSE /\ taken = FALSE

-----------------------------------------------------------------------------
Goes(p, s) == step' = [step EXCEPT ![p] = s]
Forgets(p) == made' = [made EXCEPT ![p] = {}]
Keeps(p, x) == ops' = [ops EXCEPT ![p] = x]

Starts(p, s) ==
  /\ step[p] = "idle"
  /\ p \notin late
  /\ Goes(p, s)

Untouched == UNCHANGED <<change, bounded, late>>

-----------------------------------------------------------------------------
(* Staging.                                                                *)

Index(t) == Cardinality({u \in open : u <= t})

(* cmd_stage reads the unresolved threads and finds the one at the index.  *)
Stage(p) ==
  /\ replies < MaxReplies
  /\ \E t \in open :
       Keeps(p, <<[id |-> replies + 1, index |-> Index(t), thread |-> t]>>)
  /\ replies' = replies + 1
  /\ said' = [said EXCEPT ![p] = "none"]
  /\ Starts(p, "stage")
  /\ UNCHANGED <<file, change, pushes, events, made, late, history>>

SameIndex(op) == {i \in DOMAIN staged : staged[i].index = op.index}

(* add_operation puts the reply in place of the one with its index.        *)
Replaced(op) ==
  IF SameIndex(op) = {} THEN Append(staged, op)
  ELSE [i \in DOMAIN staged |-> IF i \in SameIndex(op) THEN op ELSE staged[i]]

StageLoad(p) ==
  /\ step[p] = "stage"
  /\ IF torn
     THEN Goes(p, "idle") /\ gone' = gone \cup IdsOf(ops[p]) /\ UNCHANGED ops
     ELSE LET op == ops[p][1]
          IN /\ Keeps(p, Replaced(op))
             /\ gone' = gone \cup {staged[i].id : i \in SameIndex(op)}
             /\ Goes(p, "save")
  /\ Untouched
  /\ UNCHANGED <<file, made, said, doubt, raced, robbed, slipped, taken>>

Without(l, i) == [j \in 1..Len(l) - 1 |-> IF j < i THEN l[j] ELSE l[j + 1]]

(* remove_operation takes one out, update_patchset none.                   *)
Load(p) ==
  /\ Starts(p, "save")
  /\ ~torn /\ staged # <<>>
  /\ \/ \E i \in DOMAIN staged :
          Keeps(p, Without(staged, i)) /\ gone' = gone \cup {staged[i].id}
     \/ Keeps(p, staged) /\ UNCHANGED gone
  /\ said' = [said EXCEPT ![p] = "none"]
  /\ Untouched
  /\ UNCHANGED <<file, made, doubt, raced, robbed, slipped, taken>>

Save(p) ==
  /\ step[p] = "save"
  /\ staged' = ops[p]
  /\ torn' = FALSE
  /\ Goes(p, "idle")
  /\ Keeps(p, <<>>)
  /\ raced' = raced \cup (IdsOf(staged) \ IdsOf(ops[p]))
  /\ doubt' = doubt \cup {id \in IdsOf(ops[p]) : posted[id] > 0}
  /\ Untouched
  /\ UNCHANGED <<made, said, gone, robbed, slipped, taken>>

(* staged clear.                                                           *)
Clear(p) ==
  /\ step[p] = "idle"
  /\ staged # <<>> \/ torn
  /\ staged' = <<>> /\ torn' = FALSE
  /\ gone' = gone \cup IdsOf(staged)
  /\ Untouched
  /\ UNCHANGED <<step, ops, made, said, doubt, raced, robbed, slipped, taken>>

-----------------------------------------------------------------------------
(* Pushing.                                                                *)

Ends(p, report) ==
  /\ Goes(p, "idle")
  /\ said' = [said EXCEPT ![p] = report]

Pushes(q) == step[q] \in Pushing

Push(p) ==
  /\ pushes < MaxPushes
  /\ pushes' = pushes + 1
  /\ Starts(p, "read")
  /\ ~torn /\ staged # <<>>
  /\ Keeps(p, staged)
  /\ said' = [q \in Procs |-> "none"]
  /\ robbed' = robbed \ {p}
  /\ doubt' = doubt \cup {id \in IdsOf(staged) : \E q \in Procs : Pushes(q) /\ id \in IdsOf(ops[q])}
  /\ UNCHANGED <<file, change, replies, events, made, late, gone, raced, slipped, taken>>

OnePatchset(p) == \A i, j \in DOMAIN ops[p] : patchset[ops[p][i].thread] = patchset[ops[p][j].thread]

(* The change and its comments are read, or cannot be.                     *)
PushRead(p) ==
  /\ step[p] = "read"
  /\ \/ Goes(p, IF OnePatchset(p) THEN "post" ELSE "check") /\ UNCHANGED said
     \/ Ends(p, "nothing")
  /\ Untouched
  /\ UNCHANGED <<file, ops, made, history>>

(* Gerrit posts replies as one message.                                    *)
Posts(ids) ==
  /\ posted' = [id \in Ids |-> IF id \in ids /\ posted[id] < 2 THEN posted[id] + 1 ELSE posted[id]]
  /\ messages' = IF ids = {} THEN messages ELSE messages \cup {ids}

(* Mutant: a review that fails counts as posted.                           *)
PostSwallowed(p) ==
  /\ step[p] = "post"
  /\ Posts(IdsOf(ops[p])) \/ UNCHANGED <<posted, messages>>
  /\ Goes(p, "clear")
  /\ UNCHANGED <<file, open, patchset, drafts, webDraft, bounded, ops, made, said, late, history>>

(* One review; when its answer is lost, nothing is said to be posted.      *)
Post(p) ==
  /\ step[p] = "post"
  /\ \/ Posts(IdsOf(ops[p])) /\ Goes(p, "clear") /\ UNCHANGED <<said, doubt>>
     \/ Posts(IdsOf(ops[p])) /\ Ends(p, "nothing") /\ doubt' = doubt \cup IdsOf(ops[p])
     \/ Ends(p, "nothing") /\ UNCHANGED <<posted, messages, doubt>>
  /\ UNCHANGED <<file, open, patchset, drafts, webDraft, bounded, ops, made, late,
                 gone, raced, robbed, slipped, taken>>

(* Drafts the account has are no business of a push: it refuses.           *)
Check(p) ==
  /\ step[p] = "check"
  /\ \/ drafts = {} /\ ~webDraft /\ Goes(p, "create") /\ UNCHANGED said
     \/ Ends(p, "nothing")
  /\ Untouched
  /\ UNCHANGED <<file, ops, made, history>>

(* Mutant: the last reply is left without a draft.                         *)
NextDraftButLast(p) == {i \in DOMAIN ops[p] : i = Cardinality(made[p]) + 1 /\ i < Len(ops[p])}

NextDraft(p) == {i \in DOMAIN ops[p] : i = Cardinality(made[p]) + 1}

CreateOne(p) ==
  /\ step[p] = "create"
  /\ \E i \in NextDraft(p) :
       LET d == [id |-> ops[p][i].id, by |-> p]
       IN \/ /\ drafts' = drafts \cup {d}
             /\ made' = [made EXCEPT ![p] = @ \cup {d}]
             /\ UNCHANGED step
          \/ /\ drafts' \in {drafts, drafts \cup {d}}
             /\ Goes(p, "delete")
             /\ UNCHANGED made
  /\ UNCHANGED <<file, open, patchset, webDraft, posted, messages, bounded, ops, said,
                 late, history>>

CreatedAll(p) ==
  /\ step[p] = "create"
  /\ NextDraft(p) = {}
  /\ Goes(p, "recheck")
  /\ Untouched
  /\ UNCHANGED <<file, ops, made, said, history>>

(* Mutant: drafts saved since the first look are not looked for.           *)
OthersUnseen(p) == FALSE

Others(p) == webDraft \/ ~(drafts \subseteq made[p])

Recheck(p) ==
  /\ step[p] = "recheck"
  /\ \/ ~Others(p) /\ Goes(p, "publish")
     \/ Goes(p, "delete")
  /\ Untouched
  /\ UNCHANGED <<file, ops, made, said, history>>

(* Publishing takes every draft of the account.                            *)
PublishAll ==
  /\ Posts(Drafted(drafts))
  /\ drafts' = {} /\ webDraft' = FALSE

(* Whose drafts are taken by one that is not theirs alone.                 *)
Owners == {d.by : d \in drafts}

Publish(p) ==
  /\ step[p] = "publish"
  /\ \/ /\ PublishAll
        /\ taken' = (taken \/ webDraft)
        /\ robbed' = IF Owners \subseteq {p} THEN robbed ELSE robbed \cup Owners \cup {p}
        /\ doubt' = doubt \cup {d.id : d \in {x \in drafts : x.by # p}}
        /\ Goes(p, "clear") \/ Goes(p, "lookup")
        /\ UNCHANGED late
     \/ /\ late' \in {late, late \cup {p}}
        /\ Goes(p, "lookup")
        /\ UNCHANGED <<drafts, webDraft, posted, messages, robbed, taken, doubt>>
  /\ UNCHANGED <<file, open, patchset, bounded, ops, made, said, gone, raced, slipped>>

(* The call takes effect after all, or never.                              *)
PublishLate(p) ==
  /\ p \in late
  /\ late' = late \ {p}
  /\ \/ /\ PublishAll
        /\ taken' = (taken \/ webDraft)
        /\ robbed' = robbed \cup Owners
        /\ doubt' = doubt \cup Drafted(drafts)
     \/ UNCHANGED <<drafts, webDraft, posted, messages, robbed, taken, doubt>>
  /\ UNCHANGED <<file, open, patchset, bounded, step, ops, made, said, gone, raced,
                 slipped>>

(* Mutant: a failed publish counts as a lost answer.                       *)
FoundAlways(p) ==
  /\ Goes(p, "clear")
  /\ UNCHANGED <<said, made, doubt>>

(* _published: drafts that are gone were published.                        *)
Found(p) ==
  /\ Goes(p, IF made[p] \cap drafts = {} THEN "clear" ELSE "delete")
  /\ UNCHANGED <<said, made, doubt>>

Lookup(p) ==
  /\ step[p] = "lookup"
  /\ \/ Found(p)
     \/ Ends(p, "uncertain") /\ Forgets(p) /\ doubt' = doubt \cup IdsOf(ops[p])
  /\ Untouched
  /\ UNCHANGED <<file, ops, gone, raced, robbed, slipped, taken>>

(* _delete_drafts, best effort.                                            *)
DeleteOne(p) ==
  /\ step[p] = "delete"
  /\ \E d \in made[p] :
       /\ made' = [made EXCEPT ![p] = @ \ {d}]
       /\ drafts' \in {drafts, drafts \ {d}}
  /\ UNCHANGED <<file, open, patchset, webDraft, posted, messages, bounded, step, ops,
                 said, late, history>>

DeletedAll(p) ==
  /\ step[p] = "delete"
  /\ made[p] = {}
  /\ Ends(p, "nothing")
  /\ Untouched
  /\ UNCHANGED <<file, ops, made, history>>

(* Mutant: a push that has posted leaves the file.                         *)
ClearsNothing == UNCHANGED file

(* Unlinks the file, whatever is in it by now.                             *)
Clears == staged' = <<>> /\ torn' = FALSE

PushClear(p) ==
  /\ step[p] = "clear"
  /\ Clears
  /\ raced' = raced \cup (IdsOf(staged) \ IdsOf(ops[p]))
  /\ Ends(p, "posted")
  /\ Forgets(p)
  /\ Untouched
  /\ UNCHANGED <<ops, gone, doubt, robbed, slipped, taken>>

-----------------------------------------------------------------------------
(* A command is killed.  One that was writing leaves half a file, and one  *)
(* that had posted the replies leaves them staged.                         *)
Crash(p) ==
  /\ step[p] # "idle"
  /\ events < MaxEvents
  /\ events' = events + 1
  /\ Goes(p, "idle")
  /\ Forgets(p)
  /\ doubt' = IF step[p] \in {"publish", "lookup", "clear"} THEN doubt \cup IdsOf(ops[p]) ELSE doubt
  /\ \/ /\ step[p] \notin {"stage", "save"}
        /\ UNCHANGED <<file, gone>>
     \/ /\ step[p] \in {"stage", "save"}
        /\ gone' = gone \cup (IdsOf(ops[p]) \ IdsOf(staged))
        /\ UNCHANGED file
     \/ /\ step[p] = "save"
        /\ staged' = <<>> /\ torn' = TRUE
        /\ gone' = gone \cup IdsOf(ops[p]) \cup IdsOf(staged)
  /\ UNCHANGED <<change, replies, pushes, ops, said, late, raced, robbed, slipped, taken>>

(* Somebody resolves a thread, or opens it again.                          *)
Resolve(t) ==
  /\ events < MaxEvents
  /\ events' = events + 1
  /\ open' = IF t \in open THEN open \ {t} ELSE open \cup {t}
  /\ UNCHANGED <<file, patchset, drafts, webDraft, posted, messages, replies, pushes, command,
                 history>>

(* In the web UI the user saves a draft, or publishes or deletes all.      *)
WebDraft ==
  /\ ~webDraft
  /\ events < MaxEvents
  /\ events' = events + 1
  /\ webDraft' = TRUE
  /\ slipped' = (slipped \/ late # {} \/ \E p \in Procs : step[p] = "publish")
  /\ UNCHANGED <<file, open, patchset, drafts, posted, messages, replies, pushes, command, gone, doubt,
                 raced, robbed, taken>>

WebPublish ==
  /\ webDraft \/ drafts # {}
  /\ events < MaxEvents
  /\ events' = events + 1
  /\ PublishAll
  /\ doubt' = doubt \cup Drafted(drafts)
  /\ robbed' = robbed \cup Owners
  /\ UNCHANGED <<file, open, patchset, replies, pushes, command, gone, raced, slipped, taken>>

WebDelete ==
  /\ webDraft \/ drafts # {}
  /\ events < MaxEvents
  /\ events' = events + 1
  /\ drafts' = {} /\ webDraft' = FALSE
  /\ robbed' = robbed \cup Owners
  /\ gone' = gone \cup Drafted(drafts)
  /\ UNCHANGED <<file, open, patchset, posted, messages, replies, pushes, command, doubt,
                 raced, slipped, taken>>

Proceeds(p) ==
  \/ StageLoad(p) \/ Save(p)
  \/ PushRead(p) \/ Post(p) \/ Check(p) \/ CreateOne(p) \/ CreatedAll(p) \/ Recheck(p)
  \/ Publish(p) \/ Lookup(p) \/ DeleteOne(p) \/ DeletedAll(p) \/ PushClear(p)

Next ==
  \/ \E p \in Procs : \/ Stage(p) \/ Load(p) \/ Clear(p) \/ Push(p)
                      \/ Proceeds(p) \/ PublishLate(p) \/ Crash(p)
  \/ \E t \in Threads : Resolve(t)
  \/ WebDraft \/ WebPublish \/ WebDelete

Spec == Init /\ [][Next]_vars

-----------------------------------------------------------------------------
(* Properties.                                                             *)

(* A reply is posted twice only when a push that had posted it could not   *)
(* tell or did not live to note it, when two pushes read it, when somebody *)
(* else published its draft, or when a save brought it back.               *)
PostedOnce == \A id \in Ids : posted[id] = 2 => id \in doubt

(* A push that says it posted made one message of all the replies it read, *)
(* and of nothing else, unless others published or deleted its drafts, or  *)
(* it published theirs; one that says it posted nothing posted none.       *)
AllOrNone ==
  \A p \in Procs :
    /\ said[p] = "posted" /\ p \notin robbed => IdsOf(ops[p]) \in messages
    /\ said[p] = "nothing" => \A id \in IdsOf(ops[p]) : posted[id] > 0 => id \in doubt

(* A staged reply stays staged until it is posted or the user takes it out,*)
(* whatever fails in between; otherwise a command that had not read it     *)
(* wrote or unlinked the file.                                             *)
NoReplyLost ==
  \A id \in 1..replies :
    \/ id \in IdsOf(staged) \cup gone \cup raced
    \/ posted[id] > 0
    \/ \E p \in Procs : step[p] \in {"stage", "save"} /\ id \in IdsOf(ops[p])

(* A push publishes no draft of the user's, except one that is saved in the*)
(* moment between its last look and the publish.                           *)
OwnDraftsOnly == taken => slipped

-----------------------------------------------------------------------------
(* What these commands promise (ReplyOutbox): the replies in the file and  *)
(* those that a command is about to write are kept, and a push has taken   *)
(* the replies it read.                                                    *)
Kept == IdsOf(staged) \cup UNION {IdsOf(ops[p]) : p \in {q \in Procs : step[q] \in {"stage", "save"}}}

Taken == [p \in Procs |-> IF Pushes(p) THEN IdsOf(ops[p]) ELSE {}]

Outbox == INSTANCE ReplyOutbox WITH
  Replies <- Ids, Pushers <- Procs, entered <- 1..replies, kept <- Kept, lost <- gone \cup raced,
  batch <- Taken

(* A push posts the replies it read together or not at all and tells which,*)
(* a reply that is not posted is kept, and one that is posted is not posted*)
(* again, but as far as the outbox lets the commands, their deaths and the *)
(* web UI interfere.                                                       *)
ImplementsOutbox == Outbox!Spec

-----------------------------------------------------------------------------
(* The parts of the inductive invariant.                                   *)

Drafting == {"create", "recheck", "publish", "lookup"}

(* What a command holds.                                                   *)
Hands ==
  \A p \in Procs :
    /\ step[p] = "stage" => Len(ops[p]) = 1
    /\ Pushes(p) => ops[p] # <<>>
    /\ step[p] # "idle" => said[p] = "none"
    /\ step[p] \notin Drafting \cup {"delete", "clear"} => made[p] = {}
    /\ \A d \in made[p] : d.by = p /\ d.id \in IdsOf(ops[p])

(* The drafts of a push, as long as it has not published or given them up. *)
DraftsAreKnown ==
  \A p \in Procs :
    /\ step[p] \in Drafting => \A d \in drafts : d.by = p => d \in made[p]
    /\ step[p] = "create" =>
         \A i \in 1..Cardinality(made[p]) : i \in DOMAIN ops[p] => ops[p][i].id \in Drafted(made[p])
    /\ step[p] \in {"recheck", "publish", "lookup"} => IdsOf(ops[p]) \subseteq Drafted(made[p])

(* No draft is lost: it was posted or deleted by somebody.                 *)
DraftsAreSafe ==
  \A p \in Procs :
    /\ \A d \in made[p] : d \in drafts \/ posted[d.id] > 0 \/ d.id \in gone
    /\ step[p] = "clear" => \A id \in IdsOf(ops[p]) : posted[id] > 0 \/ id \in gone

(* A push that is to clear the file has made its message.                  *)
MessageMade ==
  \A p \in Procs \ robbed :
    /\ step[p] \in {"create", "recheck", "publish"} => made[p] \subseteq drafts
    /\ step[p] = "lookup" => made[p] \subseteq drafts \/ IdsOf(ops[p]) \in messages
    /\ step[p] = "clear" => IdsOf(ops[p]) \in messages

Certain == Ids \ doubt

(* A reply is pushed by one push at a time, and by none once one said that *)
(* nothing was posted.                                                     *)
OnePush ==
  \A id \in Certain, p \in Procs : Pushes(p) /\ id \in IdsOf(ops[p]) =>
    \A q \in Procs \ {p} : id \in IdsOf(ops[q]) => ~Pushes(q) /\ said[q] # "nothing"

(* Once it is posted, that push is about to clear the file.                *)
PushIsOver ==
  \A id \in Certain : posted[id] > 0 =>
    /\ \A p \in Procs : Pushes(p) /\ id \in IdsOf(ops[p]) =>
         step[p] = "clear" \/ (step[p] = "lookup" /\ made[p] \cap drafts = {})
    /\ id \in IdsOf(staged) =>
         \E p \in Procs : step[p] \in {"lookup", "clear"} /\ id \in IdsOf(ops[p])

(* The user's draft is there when a push publishes only if it slipped in.  *)
LastLook ==
  webDraft /\ (late # {} \/ \E p \in Procs : step[p] = "publish") => slipped

(* Every reply anywhere was staged once.                                   *)
AllEntered ==
  /\ IdsOf(staged) \cup Drafted(drafts) \cup gone \cup raced \subseteq 1..replies
  /\ \A p \in Procs : IdsOf(ops[p]) \subseteq 1..replies

IInv ==
  /\ TypeOK /\ AllEntered /\ Hands /\ DraftsAreKnown /\ DraftsAreSafe /\ MessageMade /\ OnePush /\ PushIsOver
  /\ LastLook /\ PostedOnce /\ AllOrNone /\ NoReplyLost /\ OwnDraftsOnly

-----------------------------------------------------------------------------
(* What the documentation says.                                            *)

(* A push that says nothing was posted posted nothing.                     *)
NothingMeansNothing ==
  \A p \in Procs : said[p] = "nothing" => \A id \in IdsOf(ops[p]) : posted[id] = 0

(* A staged reply is replaced by one for its own thread only.              *)
ReplacesItsThread ==
  [][\A p \in Procs : StageLoad(p) /\ ~torn =>
       \A i \in SameIndex(ops[p][1]) : staged[i].thread = ops[p][1].thread]_vars
=============================================================================
