------------------------------- MODULE Inbox -------------------------------
(***************************************************************************)
(* What the inbox and the processor promise together: a delivery that is   *)
(* kept stays, it is worked on only until it has its receipt, its command  *)
(* is applied at most once and only with its source on record, nothing is  *)
(* recorded or applied once the task is over, and the receipt, given once, *)
(* says what has really happened.                                          *)
(***************************************************************************)
EXTENDS Naturals

CONSTANTS
  Deliveries,
  Ignored      \* the deliveries that are receipted without any work

VARIABLES
  kept,        \* the deliveries that survive anything
  recorded,    \* those whose source is in the journal of the task
  over,        \* the task takes nothing any more
  applied,     \* applied[d]: how often the command of d took effect
  receipt      \* receipt[d]: what its permanent receipt says, or "none"

vars == <<kept, recorded, over, applied, receipt>>

TypeOK ==
  /\ kept \subseteq Deliveries /\ recorded \subseteq Deliveries /\ over \in BOOLEAN
  /\ applied \in [Deliveries -> 0..1]
  /\ receipt \in [Deliveries -> {"none", "applied", "rejected", "observed", "refused"}]

Init ==
  /\ kept = {} /\ recorded = {} /\ over = FALSE
  /\ applied = [d \in Deliveries |-> 0]
  /\ receipt = [d \in Deliveries |-> "none"]

Open(d) == receipt[d] = "none"

Keep(d) ==
  /\ d \notin kept /\ kept' = kept \cup {d}
  /\ UNCHANGED <<recorded, over, applied, receipt>>

(* What is recorded or applied may end the task.                           *)
Record(d) ==
  /\ Open(d) /\ ~over /\ recorded' = recorded \cup {d} /\ over' \in BOOLEAN
  /\ UNCHANGED <<kept, applied, receipt>>

Apply(d) ==
  /\ Open(d) /\ ~over /\ d \in recorded
  /\ applied[d] = 0 /\ applied' = [applied EXCEPT ![d] = 1]
  /\ over' \in BOOLEAN
  /\ UNCHANGED <<kept, recorded, receipt>>

(* A delivery is refused when the task was over before it was recorded.    *)
Close(d, says) ==
  /\ Open(d)
  /\ IF says = "refused" THEN over ELSE d \in recorded \cup Ignored
  /\ says = "applied" => applied[d] = 1
  /\ receipt' = [receipt EXCEPT ![d] = says]
  /\ UNCHANGED <<kept, recorded, over, applied>>

Next ==
  \E d \in Deliveries :
    \/ Keep(d) \/ Record(d) \/ Apply(d)
    \/ \E says \in {"applied", "rejected", "observed", "refused"} : Close(d, says)

Spec == Init /\ [][Next]_vars
=============================================================================
