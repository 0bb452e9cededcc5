--------------------------- MODULE FairScheduler ---------------------------
(***************************************************************************)
(* ai_dlc/service/scheduler.py: the bounded scheduler of one service       *)
(* process.  Methods run under the scheduler's lock; handlers run in a     *)
(* thread pool and finish at any time.  tick() is modelled one turn of its *)
(* loop at a time: while "ticking" nothing else that takes the lock runs.  *)
(*                                                                         *)
(* Time is abstract: a handler's deadline passes at some moment.  Handler  *)
(* results and reasons shown by snapshot() are left out.                   *)
(***************************************************************************)
EXTENDS Naturals, Sequences, FiniteSets

CONSTANTS
  Works,          \* work identities
  Repos,
  RepoOf,         \* RepoOf[w]: the repository queue w is put in
  Model,          \* the works of kind "model"
  Providers,
  ProviderOf,     \* ProviderOf[w], meaningful for model works
  Timed,          \* the works with active_timeout_seconds
  GlobalLimit, RepositoryLimit, ModelLimit,
  ProviderLimit   \* a function on the providers that have a limit

ASSUME WorksType ==
  /\ RepoOf \in [Works -> Repos]
  /\ ProviderOf \in [Works -> Providers]
  /\ Model \subseteq Works /\ Timed \subseteq Works
  /\ IsFiniteSet(Works)
ASSUME LimitsType ==
  /\ GlobalLimit \in Nat \ {0} /\ RepositoryLimit \in Nat \ {0} /\ ModelLimit \in Nat \ {0}
  /\ DOMAIN ProviderLimit \subseteq Providers
  /\ \A p \in DOMAIN ProviderLimit : ProviderLimit[p] \in Nat \ {0}

VARIABLES
  queue,      \* _queues: [Repos -> Seq(Works)], <<>> where there is no deque
  rotation,   \* _rotation
  active,     \* the identities in _active
  known,      \* _known
  results,    \* _results: [Works -> "none" or a status]
  accepting,  \* _accepting
  future,     \* [Works -> "none", "running", "returned", "raised"]
  late,       \* the active works whose deadline has passed
  timedOut,   \* the active works marked timed_out
  ticking,    \* tick() holds the lock
  skipped,    \* its local variable
  unfinished  \* what shutdown() returned; {} before

vars == <<queue, rotation, active, known, results, accepting, future, late,
          timedOut, ticking, skipped, unfinished>>

Elements(s) == {s[i] : i \in DOMAIN s}
Queued == UNION {Elements(queue[r]) : r \in Repos}

TypeOK ==
  /\ queue \in [Repos -> Seq(Works)]
  /\ rotation \in Seq(Repos)
  /\ active \in SUBSET Works /\ known \in SUBSET Works
  /\ results \in [Works -> {"none", "completed", "timed_out", "failed"}]
  /\ accepting \in BOOLEAN
  /\ future \in [Works -> {"none", "running", "returned", "raised"}]
  /\ late \in SUBSET Works /\ timedOut \in SUBSET Works
  /\ ticking \in BOOLEAN
  /\ skipped \in Nat
  /\ unfinished \in SUBSET Works

Init ==
  /\ queue = [r \in Repos |-> <<>>]
  /\ rotation = <<>>
  /\ active = {} /\ known = {}
  /\ results = [w \in Works |-> "none"]
  /\ accepting = TRUE
  /\ future = [w \in Works |-> "none"]
  /\ late = {} /\ timedOut = {}
  /\ ticking = FALSE
  /\ skipped = 0
  /\ unfinished = {}

-----------------------------------------------------------------------------
(* Mutant: a repository new to the rotation goes first.                     *)
SubmitFirst(w) ==
  /\ ~ticking /\ accepting
  /\ w \notin known
  /\ known' = known \cup {w}
  /\ results' = [results EXCEPT ![w] = "none"]
  /\ queue' = [queue EXCEPT ![RepoOf[w]] = Append(@, w)]
  /\ rotation' = IF RepoOf[w] \in Elements(rotation) THEN rotation
                 ELSE <<RepoOf[w]>> \o rotation
  /\ UNCHANGED <<active, accepting, future, late, timedOut, ticking, skipped, unfinished>>


Submit(w) ==
  /\ ~ticking /\ accepting
  /\ w \notin known
  /\ known' = known \cup {w}
  /\ results' = [results EXCEPT ![w] = "none"]
  /\ queue' = [queue EXCEPT ![RepoOf[w]] = Append(@, w)]
  /\ rotation' = IF RepoOf[w] \in Elements(rotation) THEN rotation
                 ELSE Append(rotation, RepoOf[w])
  /\ UNCHANGED <<active, accepting, future, late, timedOut, ticking, skipped, unfinished>>

CloseIntake ==
  /\ ~ticking /\ accepting
  /\ accepting' = FALSE
  /\ UNCHANGED <<queue, rotation, active, known, results, future, late, timedOut,
                 ticking, skipped, unfinished>>

(* The handler returns or raises in its pool thread.                        *)
Finish(w, how) ==
  /\ future[w] = "running"
  /\ future' = [future EXCEPT ![w] = how]
  /\ UNCHANGED <<queue, rotation, active, known, results, accepting, late, timedOut,
                 ticking, skipped, unfinished>>

DeadlinePasses(w) ==
  /\ w \in (active \cap Timed) \ late
  /\ late' = late \cup {w}
  /\ UNCHANGED <<queue, rotation, active, known, results, accepting, future, timedOut,
                 ticking, skipped, unfinished>>

(* Mutant: an overdue handler gives up its slot while it still runs.        *)
ReapReleasesOverdue ==
  LET done == {w \in active : future[w] # "running" \/ w \in late}
  IN /\ timedOut' = timedOut \ done
     /\ results' = [w \in Works |-> IF w \notin done THEN results[w]
                                    ELSE IF w \in late THEN "timed_out" ELSE "completed"]
     /\ active' = active \ done
     /\ late' = late \ done
     /\ UNCHANGED <<known, future>>

(* Mutant: an overdue work is forgotten while its handler still runs.       *)
ReapForgetsOverdue ==
  LET overdue == {w \in active \cap late : future[w] = "running"}
      done == {w \in active : future[w] # "running"}
  IN /\ timedOut' = (timedOut \cup overdue) \ done
     /\ results' = [w \in Works |->
                     IF w \notin done THEN results[w]
                     ELSE IF future[w] = "raised" THEN "failed"
                     ELSE IF w \in timedOut THEN "timed_out" ELSE "completed"]
     /\ known' = known \ ({w \in done : future[w] = "raised"} \cup overdue)
     /\ active' = active \ done
     /\ late' = late \ done
     /\ future' = [w \in Works |-> IF w \in done THEN "none" ELSE future[w]]


(* _reap: an overdue handler still running is marked; every handler that is *)
(* done leaves _active with a result, and a failed identity is forgotten.   *)
Reap ==
  LET overdue == {w \in active \cap late : future[w] = "running"}
      done == {w \in active : future[w] # "running"}
      failed == {w \in done : future[w] = "raised"}
  IN /\ timedOut' = (timedOut \cup overdue) \ done
     /\ results' = [w \in Works |->
                     IF w \notin done THEN results[w]
                     ELSE IF w \in failed THEN "failed"
                     ELSE IF w \in timedOut THEN "timed_out" ELSE "completed"]
     /\ known' = known \ failed
     /\ active' = active \ done
     /\ late' = late \ done
     /\ future' = [w \in Works |-> IF w \in done THEN "none" ELSE future[w]]

(* snapshot(), by the service loop, its checkpoint or a status request.     *)
Snapshot ==
  /\ ~ticking
  /\ Reap
  /\ UNCHANGED <<queue, rotation, accepting, ticking, skipped, unfinished>>

AcknowledgeCompleted ==
  /\ ~ticking
  /\ known' = known \ {w \in Works : results[w] # "none" /\ w \notin active}
  /\ results' = [w \in Works |-> "none"]
  /\ UNCHANGED <<queue, rotation, active, accepting, future, late, timedOut, ticking,
                 skipped, unfinished>>

-----------------------------------------------------------------------------
InRepo(S, r) == {v \in S : RepoOf[v] = r}
OfProvider(S, p) == {v \in S \cap Model : ProviderOf[v] = p}

(* Mutant: every limit is one too high.                                     *)
EligibleAtLimit(w) ==
  /\ Cardinality(active) <= GlobalLimit
  /\ Cardinality(InRepo(active, RepoOf[w])) <= RepositoryLimit
  /\ w \in Model => Cardinality(active \cap Model) <= ModelLimit


Eligible(w) ==
  /\ Cardinality(active) < GlobalLimit
  /\ Cardinality(InRepo(active, RepoOf[w])) < RepositoryLimit
  /\ w \in Model =>
       /\ \A p \in DOMAIN ProviderLimit :
            p = ProviderOf[w] => Cardinality(OfProvider(active, p)) < ProviderLimit[p]
       /\ Cardinality(active \cap Model) < ModelLimit

BeginTick ==
  /\ ~ticking /\ unfinished = {}
  /\ Reap
  /\ ticking' = TRUE
  /\ skipped' = 0
  /\ UNCHANGED <<queue, rotation, accepting, unfinished>>

Looping == rotation # <<>> /\ Cardinality(active) < GlobalLimit

(* Mutant: the loop stops one repository early.                             *)
SkipStopsEarly ==
  /\ ticking /\ Looping
  /\ queue[Head(rotation)] # <<>>
  /\ ~Eligible(Head(queue[Head(rotation)]))
  /\ rotation' = Append(Tail(rotation), Head(rotation))
  /\ skipped' = skipped + 1
  /\ ticking' = (skipped + 2 < Len(rotation))
  /\ UNCHANGED <<queue, active, known, results, accepting, future, late, timedOut,
                 unfinished>>

(* A turn of the loop for the repository at the head of the rotation.  The  *)
(* turn that drops a repository without a queue is never taken: RotationExact. *)
Skip ==
  /\ ticking /\ Looping
  /\ queue[Head(rotation)] # <<>>
  /\ ~Eligible(Head(queue[Head(rotation)]))
  /\ rotation' = Append(Tail(rotation), Head(rotation))
  /\ skipped' = skipped + 1
  /\ ticking' = (skipped + 1 < Len(rotation))
  /\ UNCHANGED <<queue, active, known, results, accepting, future, late, timedOut,
                 unfinished>>

(* Mutant: a repository that was served keeps its turn.                     *)
DispatchStays ==
  /\ ticking /\ Looping
  /\ LET r == Head(rotation)
         w == Head(queue[r])
     IN /\ queue[r] # <<>>
        /\ Eligible(w)
        /\ queue' = [queue EXCEPT ![r] = Tail(@)]
        /\ rotation' = IF Tail(queue[r]) = <<>> THEN Tail(rotation) ELSE rotation
        /\ active' = active \cup {w}
        /\ future' = [future EXCEPT ![w] = "running"]
  /\ skipped' = 0
  /\ UNCHANGED <<known, results, accepting, late, timedOut, ticking, unfinished>>

Dispatch ==
  /\ ticking /\ Looping
  /\ LET r == Head(rotation)
         w == Head(queue[r])
     IN /\ queue[r] # <<>>
        /\ Eligible(w)
        /\ queue' = [queue EXCEPT ![r] = Tail(@)]
        /\ rotation' = IF Tail(queue[r]) = <<>> THEN Tail(rotation)
                       ELSE Append(Tail(rotation), r)
        /\ active' = active \cup {w}
        /\ future' = [future EXCEPT ![w] = "running"]
  /\ skipped' = 0
  /\ UNCHANGED <<known, results, accepting, late, timedOut, ticking, unfinished>>

EndTick ==
  /\ ticking /\ ~Looping
  /\ ticking' = FALSE
  /\ UNCHANGED <<queue, rotation, active, known, results, accepting, future, late,
                 timedOut, skipped, unfinished>>

Tick == BeginTick \/ Skip \/ Dispatch \/ EndTick

-----------------------------------------------------------------------------
(* shutdown(): intake closed, the handlers asked to stop, and when all have *)
(* stopped or the grace is over, what is left is returned and the queues    *)
(* are dropped.  _active keeps what still runs.                             *)
Shutdown ==
  /\ ~ticking /\ unfinished = {}
  /\ Reap
  /\ accepting' = FALSE
  /\ unfinished' = active' \cup Queued
  /\ queue' = [r \in Repos |-> <<>>]
  /\ rotation' = <<>>
  /\ UNCHANGED <<ticking, skipped>>

(* The service's use of the scheduler.  A tick after shutdown does not      *)
(* happen (ServiceRuntime._stopping).                                       *)
Serve ==
  \/ \E w \in Works : Submit(w) \/ DeadlinePasses(w)
  \/ \E w \in Works, how \in {"returned", "raised"} : Finish(w, how)
  \/ Snapshot \/ AcknowledgeCompleted \/ Tick

Next == Serve \/ CloseIntake \/ Shutdown

Spec == Init /\ [][Next]_vars

(* run() ticks until it is stopped, and every handler ends, because its     *)
(* HTTP calls and commands have timeouts and cancellation is checked.       *)
Fairness ==
  /\ WF_vars(BeginTick) /\ WF_vars(Skip) /\ WF_vars(Dispatch) /\ WF_vars(EndTick)
  /\ \A w \in Works : WF_vars(\E how \in {"returned", "raised"} : Finish(w, how))

ServiceSpec == Spec /\ Fairness

-----------------------------------------------------------------------------
(* _eligible/tick: no limit is ever exceeded by the handlers that hold a    *)
(* slot, whichever work is dispatched while others are still being stopped. *)
WithinLimits ==
  /\ Cardinality(active) <= GlobalLimit
  /\ \A r \in Repos : Cardinality(InRepo(active, r)) <= RepositoryLimit
  /\ Cardinality(active \cap Model) <= ModelLimit
  /\ \A p \in DOMAIN ProviderLimit :
       Cardinality(OfProvider(active, p)) <= ProviderLimit[p]

Injective(s) == \A i, j \in DOMAIN s : s[i] = s[j] => i = j

(* submit/_reap/acknowledge_completed: an identity is in one place.  It is  *)
(* queued once or active or has a result, never two of these, so no work is *)
(* run twice at a time, and _known refuses exactly the live identities and  *)
(* the results that are not acknowledged or failed.                         *)
OnePlace ==
  /\ \A r \in Repos :
       /\ Injective(queue[r])
       /\ \A w \in Elements(queue[r]) : RepoOf[w] = r
  /\ Queued \cap active = {}
  /\ \A w \in Queued \cup active : results[w] = "none"
  /\ unfinished = {} =>
       known = Queued \cup active \cup {w \in Works : results[w] \in {"completed", "timed_out"}}

(* tick: the rotation lists the repositories with queued work, each once,   *)
(* so every queue gets its turn and the empty-queue branch is dead.         *)
RotationExact ==
  /\ Injective(rotation)
  /\ Elements(rotation) = {r \in Repos : queue[r] # <<>>}

(* FairScheduler's docstring: a timeout keeps the capacity occupied until   *)
(* the handler is observed stopped; no slot is given up before.             *)
SlotHeldUntilStopped == [][\A w \in active \ active' : future[w] # "running"]_vars

(* tick: when the loop stops, no queue has a head that could still run, in  *)
(* whatever order the rotation met the heads that could not.                *)
WorkConserving ==
  [][ticking /\ ~ticking' =>
       \A r \in Repos : queue[r] # <<>> => ~Eligible(Head(queue[r]))]_vars

(* FairScheduler's docstring: first in, first out within a repository and   *)
(* round-robin between them.  Whatever a pass skips, dispatches and appends *)
(* again, and whenever handlers stop, every step is a step of RoundRobin.   *)
Pairs(s) ==
  {pair \in Elements(s) \X Elements(s) :
     \E j \in DOMAIN s : \E i \in 1..(j - 1) : pair = <<s[i], s[j]>>}
Arrived == UNION {Pairs(queue[r]) : r \in Repos}
Turns == Pairs(rotation)
Room == {w \in Works : Eligible(w)}
Rotation == INSTANCE RoundRobin WITH
  waiting <- Queued, arrived <- Arrived, turns <- Turns, room <- Room
TakesTurns == Rotation!Spec

(* tick: the loop ends although it re-appends what it skips.                *)
TickEnds == ticking ~> ~ticking

ControlRepos == {r \in Repos : \A w \in Model : RepoOf[w] # r}

(* Work of a repository that queues no model work (the webhook deliveries   *)
(* of a repository without agent tasks) is always dispatched in the end, or *)
(* is handed back by a shutdown.                                            *)
ControlServed ==
  \A w \in Works : RepoOf[w] \in ControlRepos =>
    (w \in Queued ~> w \in active \/ w \in unfinished)

=============================================================================
