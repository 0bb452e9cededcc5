------------------------------- MODULE Terms -------------------------------
(***************************************************************************)
(* What becomes of the terms an agent works on, as the workflow engine     *)
(* writes them and the agent loop reads them: whether there are            *)
(* requirements, whether these are approved and the work is started, how   *)
(* far the design is, whether people have paused or ended the task, and    *)
(* the epoch.  What is granted keeps the epoch, what is taken begins a new *)
(* one, and nothing follows the end.                                       *)
(***************************************************************************)
EXTENDS Naturals

VARIABLE terms

Designs == {"none", "open", "proposed", "ready"}   \* open: with questions; proposed: to approve
TermsType ==
  [drafted : BOOLEAN, approved : BOOLEAN, design : Designs, paused : BOOLEAN, over : BOOLEAN,
   epoch : Nat]

Fresh ==
  [drafted |-> FALSE, approved |-> FALSE, design |-> "none", paused |-> FALSE, over |-> FALSE,
   epoch |-> 0]
Init == terms = Fresh

(* An approval or a start may also choose whether a design is to approve.   *)
Chosen(design) == IF design \in {"proposed", "ready"} THEN {"proposed", "ready"} ELSE {design}
Approvable(t) == t.drafted /\ ~t.approved
Approvals(t) == {[t EXCEPT !.approved = a, !.design = d] : a \in BOOLEAN, d \in Chosen(t.design)}

DesignApprovable(t) == t.approved /\ t.design = "proposed"
DesignApproved(t) == [t EXCEPT !.design = "ready"]

(* What rests on an approval that is gone goes with it.                     *)
Unapproved(design) == IF design = "ready" THEN "proposed" ELSE design
Withdrawals(t) ==
  {[t EXCEPT !.approved = FALSE, !.design = d, !.epoch = t.epoch + 1] :
     d \in {t.design, Unapproved(t.design)}}
  \cup {[t EXCEPT !.design = d, !.epoch = t.epoch + 1] : d \in {Unapproved(t.design)} \ {t.design}}

Paused(t, pause) == [t EXCEPT !.paused = pause, !.epoch = t.epoch + 1]
Ended(t) == [t EXCEPT !.over = TRUE, !.paused = FALSE, !.epoch = t.epoch + 1]

(* Another source, an amendment, another policy.                            *)
Reset(t) ==
  [t EXCEPT !.drafted = FALSE, !.approved = FALSE, !.design = "none", !.epoch = t.epoch + 1]
Draft(t) == [Reset(t) EXCEPT !.drafted = TRUE]
Propose(t, design) == [t EXCEPT !.design = design, !.epoch = t.epoch + 1]

Step(t, u) ==
  \/ Approvable(t) /\ u \in Approvals(t)
  \/ DesignApprovable(t) /\ u = DesignApproved(t)
  \/ t.drafted /\ u \in Withdrawals(t)
  \/ u = Paused(t, TRUE)
  \/ t.paused /\ u = Paused(t, FALSE)
  \/ u = Ended(t)
  \/ \E over \in BOOLEAN : u = [Reset(t) EXCEPT !.over = over]
  \/ u = Draft(t)
  \/ t.approved /\ \E d \in Designs \ {"none"} : u = Propose(t, d)

Next == ~terms.over /\ Step(terms, terms')

Spec == Init /\ [][Next]_terms
=============================================================================
