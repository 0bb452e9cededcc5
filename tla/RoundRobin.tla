----------------------------- MODULE RoundRobin -----------------------------
(***************************************************************************)
(* What the scheduler promises of the order: first in, first out within a  *)
(* repository, and the repositories take turns.  Only the one whose turn   *)
(* it is is looked at; served or passed over for want of room, it goes     *)
(* behind all others that wait.  Taking a slot never makes room, and room  *)
(* grows only when handlers have stopped.                                  *)
(***************************************************************************)
CONSTANTS Works, Repos, RepoOf

VARIABLES
  waiting,   \* the works submitted and not yet served
  arrived,   \* pairs of works of one repository: the first came before
  turns,     \* pairs of repositories: the first has its turn before
  room       \* the works there is a slot for

vars == <<waiting, arrived, turns, room>>

Line(r) == {w \in waiting : RepoOf[w] = r}
InLine == {r \in Repos : Line(r) # {}}

Oldest(w) == \A v \in Line(RepoOf[w]) : <<v, w>> \notin arrived
Turn(r) == r \in InLine /\ \A s \in InLine : <<s, r>> \notin turns

(* x is last, behind all of S.                                              *)
Behind(order, x, S) == {pair \in order : pair[1] # x} \cup ((S \ {x}) \X {x})
Without(order, x) == {pair \in order : pair[1] # x /\ pair[2] # x}

Init ==
  /\ waiting = {} /\ arrived = {} /\ turns = {}
  /\ room = Works

Submit(w) ==
  /\ w \notin waiting /\ waiting' = waiting \cup {w}
  /\ arrived' = arrived \cup (Line(RepoOf[w]) \X {w})
  /\ turns' = IF RepoOf[w] \in InLine THEN turns ELSE turns \cup (InLine \X {RepoOf[w]})
  /\ UNCHANGED room

Serve(w) ==
  /\ Turn(RepoOf[w]) /\ w \in waiting /\ Oldest(w) /\ w \in room
  /\ waiting' = waiting \ {w}
  /\ arrived' = Without(arrived, w)
  /\ turns' = IF Line(RepoOf[w]) = {w} THEN Without(turns, RepoOf[w])
              ELSE Behind(turns, RepoOf[w], InLine)
  /\ room' \subseteq room

PassOver(r) ==
  /\ Turn(r) /\ \E w \in Line(r) : Oldest(w) /\ w \notin room
  /\ turns' = Behind(turns, r, InLine)
  /\ UNCHANGED <<waiting, arrived, room>>

Release ==
  /\ room \subseteq room'
  /\ UNCHANGED <<waiting, arrived, turns>>

(* A shutdown hands back what waits.                                        *)
Dismiss ==
  /\ waiting' = {} /\ arrived' = {} /\ turns' = {}
  /\ room \subseteq room'

Next ==
  \/ \E w \in Works : Submit(w) \/ Serve(w)
  \/ \E r \in Repos : PassOver(r)
  \/ Release \/ Dismiss

Spec == Init /\ [][Next]_vars
=============================================================================
