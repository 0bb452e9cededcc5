------------------------------- MODULE Outbox -------------------------------
(***************************************************************************)
(* What a publication promises of its effects on GitHub, however often it  *)
(* is interrupted: each is intended before it is sent, sent at most once,  *)
(* and confirmed before the next is intended; and after the publication    *)
(* was invalidated only the check is withdrawn.                            *)
(***************************************************************************)
EXTENDS Naturals

VARIABLES
  intended,   \* the effects whose intent is on record
  sent,       \* sent[e]: how often e was sent
  confirmed,  \* the effects that were seen to have happened
  void        \* the publication is invalidated

vars == <<intended, sent, confirmed, void>>

Effects == {"push", "pull", "check", "patch"}

(* What each effect rests on.                                               *)
Before == [push |-> {}, pull |-> {"push"}, check |-> {"push", "pull"}, patch |-> {}]

(* The patch withdraws the check of an invalidated publication; the others  *)
(* are of one that is not.                                                  *)
Due(e) == void = (e = "patch")

Init ==
  /\ intended = {} /\ confirmed = {}
  /\ sent = [e \in Effects |-> 0]
  /\ void = FALSE

Intend(e) ==
  /\ Due(e) /\ e \notin intended /\ sent[e] = 0
  /\ Before[e] \subseteq confirmed
  /\ e = "patch" => "check" \in intended
  /\ intended' = intended \cup {e}
  /\ UNCHANGED <<sent, confirmed, void>>

Send(e) ==
  /\ Due(e) /\ e \in intended \ confirmed /\ sent[e] = 0
  /\ sent' = [sent EXCEPT ![e] = 1]
  /\ UNCHANGED <<intended, confirmed, void>>

Confirm(e) ==
  /\ Due(e) /\ e \in intended \ confirmed /\ sent[e] = 1
  /\ confirmed' = confirmed \cup {e}
  /\ UNCHANGED <<intended, sent, void>>

Invalidate ==
  /\ ~void /\ void' = TRUE
  /\ UNCHANGED <<intended, sent, confirmed>>

Next == Invalidate \/ \E e \in Effects : Intend(e) \/ Send(e) \/ Confirm(e)

Spec == Init /\ [][Next]_vars
=============================================================================
