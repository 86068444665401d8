----------------------------- MODULE ReviewPool -----------------------------
(***************************************************************************)
(* What `lreview run` promises of a batch to somebody who sees neither its *)
(* threads nor its agents:                                                 *)
(*   - A review is refused, or begun and decided once; never more than     *)
(*     Jobs are under way.                                                 *)
(*   - What was decided is handed over together, once, at the end: all of  *)
(*     the batch if nobody interrupts it, and after one Ctrl+C all that    *)
(*     was decided, with nothing under way any more.                       *)
(*   - A second Ctrl+C costs results and leaves reviews running, but never *)
(*     has a review handed over that was not decided.                      *)
(***************************************************************************)
EXTENDS Integers, FiniteSets

CONSTANTS
  Reviews,  \* of the batch
  Jobs,     \* how many may be under way
  Statuses, \* what a review can be decided to be
  None      \* that it is not decided

VARIABLES
  verdict,  \* the status of each review
  running,  \* the reviews under way
  handed,   \* what was handed over
  over,     \* the batch is at its end
  pressed   \* Ctrl+C: none, one or more

vars == <<verdict, running, handed, over, pressed>>

Decided == {r \in Reviews : verdict[r] # None}
Waiting == Reviews \ (running \cup Decided)

Init ==
  /\ verdict = [r \in Reviews |-> None]
  /\ running = {}
  /\ handed = {}
  /\ over = FALSE
  /\ pressed = 0

(* Reviews go on after the end only if that was forced.                    *)
GoesOn == over => pressed = 2

(* A change that cannot be set up, before any review begins.               *)
Refuse(r) ==
  /\ ~over
  /\ running = {}
  /\ r \in Waiting
  /\ verdict' = [verdict EXCEPT ![r] = "failed"]
  /\ UNCHANGED <<running, handed, over, pressed>>

Begin(r) ==
  /\ GoesOn
  /\ r \in Waiting
  /\ Cardinality(running) < Jobs
  /\ running' = running \cup {r}
  /\ UNCHANGED <<verdict, handed, over, pressed>>

Decide(r) ==
  /\ GoesOn
  /\ r \in running
  /\ \E s \in Statuses : verdict' = [verdict EXCEPT ![r] = s]
  /\ running' = running \ {r}
  /\ UNCHANGED <<handed, over, pressed>>

Press == pressed' = IF pressed = 0 THEN 1 ELSE 2

Interrupt ==
  /\ ~over
  /\ Press
  /\ UNCHANGED <<verdict, running, handed, over>>

(* Interrupted before anything began, a batch ends with nothing.           *)
Abandon ==
  /\ ~over
  /\ running = {}
  /\ Press
  /\ over' = TRUE
  /\ UNCHANGED <<verdict, running, handed>>

HandOver ==
  /\ ~over
  /\ over' = TRUE
  /\ handed' \subseteq Decided
  /\ pressed < 2 => running = {} /\ handed' = Decided
  /\ pressed = 0 => Decided = Reviews
  /\ UNCHANGED <<verdict, running, pressed>>

Next ==
  \/ \E r \in Reviews : Refuse(r) \/ Begin(r) \/ Decide(r)
  \/ Interrupt \/ Abandon \/ HandOver

Spec == Init /\ [][Next]_vars

=============================================================================
