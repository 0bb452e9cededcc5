------------------------------ MODULE TaskLog ------------------------------
(***************************************************************************)
(* What the journal promises its callers: for every task an append-only    *)
(* log of requests in which an event identifier occurs once, and an        *)
(* acknowledgement only for a request that is in the log for good.         *)
(***************************************************************************)
EXTENDS Sequences

CONSTANTS
  Tasks,      \* the tasks whose logs are kept
  Requests    \* records [id, body]: the event identifier and its content

VARIABLES
  log,        \* log[k]: the requests that survive any restart, oldest first
  acked       \* acked[k]: the requests a caller was told are committed

TypeOK ==
  /\ log \in [Tasks -> Seq(Requests)]
  /\ acked \in [Tasks -> SUBSET Requests]

Init ==
  /\ log = [k \in Tasks |-> <<>>]
  /\ acked = [k \in Tasks |-> {}]

Fresh(k, r) == \A i \in DOMAIN log[k] : log[k][i].id # r.id

(* A request becomes permanent.  It may have been in doubt for a while: the *)
(* caller of a commit that failed is told nothing.                          *)
Persist(k, r) ==
  /\ Fresh(k, r)
  /\ log' = [log EXCEPT ![k] = Append(@, r)]
  /\ UNCHANGED acked

(* A caller is told that its request is committed, by the first commit or   *)
(* by a redelivery of the same content.                                     *)
Acknowledge(k, r) ==
  /\ \E i \in DOMAIN log[k] : log[k][i] = r
  /\ acked' = [acked EXCEPT ![k] = @ \cup {r}]
  /\ UNCHANGED log

Next == \E k \in Tasks, r \in Requests : Persist(k, r) \/ Acknowledge(k, r)

Spec == Init /\ [][Next]_<<log, acked>>
=============================================================================
