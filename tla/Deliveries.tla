---------------------------- MODULE Deliveries ----------------------------
(***************************************************************************)
(* ai_dlc/github/inbox.py, processor.py and the tick of service/runtime.py: *)
(* how the deliveries of one issue are accepted, processed and receipted   *)
(* across failing calls, kills and power losses.                           *)
(*                                                                         *)
(* Abstractions.  The journal of the task is the set of its events, as     *)
(* TaskLog promises it: an identifier once, compare-and-set, nothing lost; *)
(* a commit in doubt is a Fault just before or just after it.  What a      *)
(* command does to the task is the module Workflow; here it is applied or  *)
(* refused.  The scheduler is FIFO, since there is one repository.  The    *)
(* issue is a person's.                                                    *)
(***************************************************************************)
EXTENDS Naturals, Sequences, FiniteSets

CONSTANTS
  Deliveries,
  Kind,         \* Kind[d]: what process() does with it
  Rank,         \* Rank[d]: where its digest sorts among the others
  Slots,        \* handlers of one repository at a time
  MaxVersion,   \* bound: versions of the issue
  MaxDisturbances, \* bound: kills, power losses, failing calls, commits of others
  Nobody

Kinds == {"command", "reconcile", "closed", "ignored"}

ASSUME DeliveriesType == IsFiniteSet(Deliveries)
ASSUME KindType == Kind \in [Deliveries -> Kinds]
ASSUME RankType == Rank \in [Deliveries -> Nat]
ASSUME SlotsType == Slots \in Nat \ {0}
ASSUME BoundsType == MaxVersion \in Nat /\ MaxDisturbances \in Nat
ASSUME NobodyType == Nobody \notin Deliveries

Files == {"absent", "visible", "durable"}
Handling == {"begun", "source", "command", "reconcile", "receipt", "syncing"}
(* A mutant: the identity of a failed handler is never free again.         *)
EndedWell == {"returned"}
Ended == {"returned", "raised"}
Outcomes == {"none", "applied", "rejected", "observed", "refused"}

VARIABLES
  inbox,      \* [Deliveries -> Files]: inbox/<id>.json
  copies,     \* [Deliveries -> Nat]: how often it was written; each has a digest
  receipt,    \* [Deliveries -> Files]: inbox-processed/<id>.json
  outcome,    \* [Deliveries -> ...]: what the handler found, then the receipt says
  events,     \* the task's journal: events [id, body]
  over,       \* the task in it is cancelled, or will be: nothing is added
  up,         \* the service runs
  healthy,    \* ~FileJournal._unhealthy
  answering,  \* the delivery whose accept() holds the inbox lock
  ticking,    \* tick() has listed the pending deliveries
  listed,     \* those it has listed
  queue,      \* the scheduler's queue of the repository
  place,      \* [Deliveries -> where its work is; "none": no such identity]
  stale,      \* the handlers whose revision of the task is no longer current
  seen,       \* [Deliveries -> the version of the issue its handler has read]
  fits,       \* the service runs with the configuration the task was made with
  version,    \* GitHub: updated_at of the issue
  edited,     \* GitHub: the command comments edited or deleted
  disturbances

disk == <<inbox, copies, receipt, outcome, events, over>>
process == <<up, healthy, answering, ticking, listed, queue, place, stale, seen>>
world == <<version, edited, fits>>
vars == <<disk, process, world, disturbances>>

Event(id, body) == [id |-> id, body |-> body]
SourceId(d) == <<"source", d, copies[d]>>
ReconcileId(d) == <<"reconcile", d, copies[d]>>
(* A mutant: the command's event identifier is made from the delivery.     *)
CommandIdOfDelivery(d) == <<"comment", d, copies[d]>>
CommandId(d) == <<"comment", d>>
Known(id) == \E e \in events : e.id = id

(* Each event was made for a delivery that was written at the time.        *)
EventOf(e, d) ==
  \/ e = Event(CommandId(d), 0)
  \/ \E n \in 1..copies[d] : \/ e = Event(<<"reconcile", d, n>>, 0)
                              \/ \E v \in 0..MaxVersion : e = Event(<<"source", d, n>>, v)

(* The queue lists the queued deliveries, each once.                       *)
QueueExact ==
  /\ {queue[k] : k \in DOMAIN queue} = {d \in Deliveries : place[d] = "queued"}
  /\ \A k, l \in DOMAIN queue : queue[k] = queue[l] => k = l

TypeOK ==
  /\ inbox \in [Deliveries -> Files] /\ receipt \in [Deliveries -> Files]
  /\ copies \in [Deliveries -> Nat]
  /\ outcome \in [Deliveries -> Outcomes]
  /\ \A e \in events : \E d \in Deliveries : EventOf(e, d)
  /\ up \in BOOLEAN /\ healthy \in BOOLEAN /\ ticking \in BOOLEAN
  /\ over \in BOOLEAN /\ fits \in BOOLEAN
  /\ answering \in Deliveries \cup {Nobody}
  /\ listed \subseteq Deliveries
  /\ queue \in Seq(Deliveries) /\ QueueExact
  /\ place \in [Deliveries -> {"none", "queued"} \cup Handling \cup Ended]
  /\ stale \subseteq Deliveries /\ seen \in [Deliveries -> 0..MaxVersion]
  /\ version \in 0..MaxVersion /\ edited \subseteq Deliveries
  /\ disturbances \in 0..MaxDisturbances

Init ==
  /\ inbox = [d \in Deliveries |-> "absent"] /\ receipt = inbox
  /\ copies = [d \in Deliveries |-> 0]
  /\ outcome = [d \in Deliveries |-> "none"]
  /\ events = {} /\ over = FALSE /\ fits = TRUE /\ up = TRUE /\ healthy = TRUE
  /\ answering = Nobody /\ ticking = FALSE /\ listed = {} /\ queue = <<>>
  /\ place = [d \in Deliveries |-> "none"]
  /\ stale = {} /\ seen = [d \in Deliveries |-> 0]
  /\ version = 0 /\ edited = {} /\ disturbances = 0

-----------------------------------------------------------------------------
(* accept: one file per delivery identifier, linked and then synced under   *)
(* the inbox lock, before the answer 202.  A delivery that is there already *)
(* is answered as a duplicate, and nothing changes.                         *)
LockFree == answering = Nobody /\ \A d \in Deliveries : place[d] # "syncing"

(* The temporary file is linked; the lock is held until the sync.          *)
AcceptNew(d) ==
  /\ up /\ healthy /\ LockFree /\ inbox[d] = "absent"
  /\ inbox' = [inbox EXCEPT ![d] = "visible"]
  /\ copies' = [copies EXCEPT ![d] = @ + 1]
  /\ answering' = d
  /\ UNCHANGED <<receipt, outcome, events, over, up, healthy, ticking, listed, queue,
                 place, stale, seen, world, disturbances>>

(* The directory is synced and the request is answered.                    *)
AcceptSynced ==
  /\ up /\ answering # Nobody
  /\ inbox' = [inbox EXCEPT ![answering] = "durable"]
  /\ answering' = Nobody
  /\ UNCHANGED <<copies, receipt, outcome, events, over, up, healthy, ticking, listed,
                 queue, place, stale, seen, world, disturbances>>

(* A file call fails in a commit or between link and sync of accept or      *)
(* mark_processed: its caller gets an error, and the store refuses           *)
(* everything from then on.                                                 *)
Fault ==
  /\ up /\ healthy /\ disturbances < MaxDisturbances
  /\ healthy' = FALSE /\ disturbances' = disturbances + 1
  /\ answering' \in {answering, Nobody}
  /\ \E hit \in SUBSET {d \in Deliveries : place[d] = "syncing"} :
       place' = [d \in Deliveries |-> IF d \in hit THEN "raised" ELSE place[d]]
  /\ UNCHANGED <<disk, up, ticking, listed, queue, stale, seen, world>>

-----------------------------------------------------------------------------
(* tick: list what has no receipt; later, submit it, reap what has ended,   *)
(* dispatch, and acknowledge the results.  A failed handler's identity is   *)
(* forgotten when it is reaped, a completed one's when acknowledged.        *)
Pending == {d \in Deliveries : inbox[d] # "absent" /\ receipt[d] = "absent"}

ListPending ==
  /\ up /\ healthy /\ ~ticking /\ LockFree
  /\ ticking' = TRUE /\ listed' = Pending
  /\ UNCHANGED <<disk, up, healthy, answering, queue, place, stale, seen, world, disturbances>>

(* sorted(): the members of a set in the order of their digests.            *)
Sorted(S) == {s \in [1..Cardinality(S) -> S] :
                \A a, b \in DOMAIN s : a < b => Rank[s[a]] < Rank[s[b]]}
Running == {d \in Deliveries : place[d] \in Handling}

(* Mutant: an identity that has ended is free before the submissions.       *)
SubmittedAfterReap == {d \in listed : place[d] \in {"none"} \cup Ended}

(* submit takes the listed deliveries whose identity is not known.         *)
Submitted == {d \in listed : place[d] = "none"}

(* A status request reaps: a failed identity is free, a completed one kept. *)
Snapshot ==
  /\ up /\ \E d \in Deliveries : place[d] = "raised"
  /\ place' = [d \in Deliveries |-> IF place[d] = "raised" THEN "none" ELSE place[d]]
  /\ UNCHANGED <<disk, up, healthy, answering, ticking, listed, queue, stale, seen,
                 world, disturbances>>

Pass ==
  /\ up /\ ticking
  /\ \E new \in Sorted(Submitted) :
       LET all  == queue \o new
           busy == Cardinality(Running)
           free == IF busy < Slots THEN Slots - busy ELSE 0
           n    == IF Len(all) <= free THEN Len(all) ELSE free
           took == {all[k] : k \in 1..n}
       IN /\ queue' = SubSeq(all, n + 1, Len(all))
          /\ place' = [d \in Deliveries |->
                         CASE d \in took -> "begun"
                           [] d \in Submitted \ took -> "queued"
                           [] d \notin Submitted /\ place[d] \in Ended -> "none"
                           [] OTHER -> place[d]]
  /\ ticking' = FALSE /\ listed' = {}
  /\ UNCHANGED <<disk, up, healthy, answering, stale, seen, world, disturbances>>

-----------------------------------------------------------------------------
(* process(receipt): one handler.                                          *)
(* Its steps are the places At which it waits for a call; the work has no   *)
(* effect on what HandlerOnly lists.                                        *)
At(d, p) == up /\ place[d] = p
Goto(d, p) == place' = [place EXCEPT ![d] = p]
HandlerOnly == UNCHANGED <<inbox, copies, receipt, up, healthy, answering, ticking,
                           listed, queue, world, disturbances>>

(* The work fails with an error that is not one of                          *)
(* _DETERMINISTIC_REJECTIONS, and is offered again.                         *)
Fails(d) ==
  /\ Goto(d, "raised")
  /\ outcome' = IF receipt[d] = "absent" THEN [outcome EXCEPT ![d] = "none"] ELSE outcome
  /\ seen' = [seen EXCEPT ![d] = 0]
  /\ stale' = stale \ {d} /\ UNCHANGED <<events, over>>

(* A call to the store or to GitHub fails, this time.                      *)
Refuse(d) ==
  /\ up /\ healthy /\ place[d] \in Handling \ {"receipt", "syncing"}
  /\ disturbances < MaxDisturbances /\ disturbances' = disturbances + 1
  /\ Fails(d)
  /\ UNCHANGED <<inbox, copies, receipt, up, healthy, answering, ticking, listed,
                 queue, world>>

FindUnhealthy(d) ==
  /\ up /\ ~healthy /\ place[d] \in Handling \ {"syncing"}
  /\ Fails(d) /\ HandlerOnly

(* The revision is read, then the issue.                                   *)
Begin(d) ==
  /\ At(d, "begun") /\ healthy
  /\ Goto(d, IF Kind[d] = "ignored" THEN "receipt" ELSE "source")
  /\ seen' = [seen EXCEPT ![d] = version]
  /\ outcome' = [outcome EXCEPT ![d] = "observed"]
  /\ UNCHANGED <<events, over, stale>> /\ HandlerOnly

(* commit of the journal: a known identifier answers with the current       *)
(* revision; a new one moves the revision away from every other handler,    *)
(* and is not for a task that is over.  A closed issue or a cancel ends it. *)
Reading == {"source", "command", "reconcile"}
Duplicate(d, id, body) ==
  /\ Event(id, body) \in events
  /\ stale' = stale \ {d} /\ UNCHANGED <<events, over>>
New(d, id) == ~Known(id) /\ d \notin stale
Extend(d, id, body) ==
  /\ New(d, id) /\ ~over /\ over' \in BOOLEAN
  /\ events' = events \cup {Event(id, body)}
  /\ stale' = {h \in Deliveries : place[h] \in Reading} \ {d}
Commit(d, id, body) == Duplicate(d, id, body) \/ Extend(d, id, body)
(* EVENT_COLLISION, STATE_CONFLICT *)
Rejected(d, id, body) ==
  IF Known(id) THEN Event(id, body) \notin events ELSE d \in stale

AfterSource(d) == CASE Kind[d] = "command" -> "command"
                    [] Kind[d] = "closed" -> "receipt"
                    [] OTHER -> "reconcile"

(* _state: POLICY_CHANGED, on every retry while the configuration differs.  *)
Changed(d, id) == New(d, id) /\ ~fits

(* capture_source: the content of the event is the issue with its version.  *)
(* A task that is over takes no new source: the delivery is answered        *)
(* source_rejected, and its command is not tried.                          *)
CaptureSource(d) ==
  /\ At(d, "source") /\ healthy
  /\ \/ /\ Commit(d, SourceId(d), seen[d])
        /\ fits \/ Known(SourceId(d))
        /\ Goto(d, AfterSource(d))
        /\ seen' = [seen EXCEPT ![d] = 0] /\ UNCHANGED outcome
     \/ /\ Rejected(d, SourceId(d), seen[d]) \/ Changed(d, SourceId(d))
        /\ Fails(d)
     \/ /\ New(d, SourceId(d)) /\ fits /\ over
        /\ outcome' = [outcome EXCEPT ![d] = "refused"]
        /\ seen' = [seen EXCEPT ![d] = 0]
        /\ Goto(d, "receipt") /\ UNCHANGED <<events, over, stale>>
  /\ HandlerOnly

(* handle_comment on the comment as it is now: applied, or refused by the   *)
(* state of the task.  Only a stop or a cancel is applied under another     *)
(* configuration.                                                          *)
HandleComment(d) ==
  /\ At(d, "command") /\ healthy /\ d \notin edited
  /\ \/ /\ Commit(d, CommandId(d), 0)
        /\ outcome' = [outcome EXCEPT ![d] = "applied"]
        /\ Goto(d, "receipt") /\ UNCHANGED seen
     \/ /\ Rejected(d, CommandId(d), 0) \/ Changed(d, CommandId(d))
        /\ Fails(d)
     \/ /\ New(d, CommandId(d))
        /\ outcome' = [outcome EXCEPT ![d] = "rejected"]
        /\ Goto(d, "receipt") /\ UNCHANGED <<events, over, stale, seen>>
  /\ HandlerOnly

(* An edited or deleted comment is no command; approvals are reconciled,    *)
(* on the revision as it is now.                                            *)
RejectComment(d) ==
  /\ At(d, "command") /\ healthy /\ d \in edited
  /\ outcome' = [outcome EXCEPT ![d] = "rejected"]
  /\ stale' = stale \ {d} /\ Goto(d, "reconcile")
  /\ UNCHANGED <<events, over, seen>> /\ HandlerOnly

(* reconcile: the approvals are looked at again, or the task refuses.      *)
Reconcile(d) ==
  /\ At(d, "reconcile") /\ healthy
  /\ \/ /\ Commit(d, ReconcileId(d), 0)
        /\ fits \/ Known(ReconcileId(d))
        /\ Goto(d, "receipt") /\ UNCHANGED <<over, seen, outcome>>
     \/ /\ Rejected(d, ReconcileId(d), 0) \/ Changed(d, ReconcileId(d))
        /\ Fails(d)
     \/ /\ New(d, ReconcileId(d)) /\ fits
        /\ Goto(d, "receipt") /\ UNCHANGED <<events, over, stale, seen, outcome>>
  /\ HandlerOnly

(* mark_processed: linked, then synced, under the inbox lock.               *)
MarkProcessed(d) ==
  /\ At(d, "receipt") /\ healthy /\ LockFree
  /\ receipt' = [receipt EXCEPT ![d] = "visible"]
  /\ Goto(d, "syncing")
  /\ UNCHANGED <<inbox, copies, outcome, events, over, up, healthy, answering, ticking,
                 listed, queue, stale, seen, world, disturbances>>

SyncReceipt(d) ==
  /\ At(d, "syncing")
  /\ receipt' = [receipt EXCEPT ![d] = "durable"]
  /\ Goto(d, "returned")
  /\ UNCHANGED <<inbox, copies, outcome, events, over, up, healthy, answering, ticking,
                 listed, queue, stale, seen, world, disturbances>>

Handle(d) ==
  \/ Begin(d) \/ CaptureSource(d) \/ HandleComment(d) \/ RejectComment(d)
  \/ Reconcile(d) \/ MarkProcessed(d) \/ SyncReceipt(d)
  \/ FindUnhealthy(d)

-----------------------------------------------------------------------------
(* The process ends: tick raises on an unhealthy store, or it is killed.    *)
Ends ==
  /\ up' = FALSE /\ ticking' = FALSE
  /\ answering' = Nobody /\ listed' = {} /\ queue' = <<>>
  /\ place' = [d \in Deliveries |-> "none"]
  /\ stale' = {} /\ seen' = [d \in Deliveries |-> 0]
  /\ outcome' = [d \in Deliveries |-> IF receipt'[d] = "absent" THEN "none" ELSE outcome[d]]
  /\ UNCHANGED <<copies, events, over, healthy, world>>

Stop == up /\ ~healthy /\ UNCHANGED <<inbox, receipt, disturbances>> /\ Ends

Kill ==
  /\ up /\ disturbances < MaxDisturbances /\ disturbances' = disturbances + 1
  /\ UNCHANGED <<inbox, receipt>> /\ Ends

(* A power loss also takes files whose directory was not synced.           *)
Survivors(file) ==
  {f \in [Deliveries -> Files] : \A d \in Deliveries :
     f[d] = file[d] \/ (file[d] = "visible" /\ f[d] = "absent")}

PowerLoss ==
  /\ disturbances < MaxDisturbances /\ disturbances' = disturbances + 1
  /\ inbox' \in Survivors(inbox) /\ receipt' \in Survivors(receipt)
  /\ <<inbox', receipt'>> # <<inbox, receipt>>
  /\ Ends

(* It starts again, with the configuration as it is by then.               *)
Restart ==
  /\ ~up /\ up' = TRUE /\ healthy' = TRUE
  /\ fits' \in IF events = {} THEN {TRUE} ELSE BOOLEAN
  /\ UNCHANGED <<disk, answering, ticking, listed, queue, place, stale, seen,
                 version, edited, disturbances>>

(* GitHub: any comment, label or status comment moves the version of the issue.    *)
IssueMoves ==
  /\ version < MaxVersion /\ version' = version + 1
  /\ UNCHANGED <<disk, process, edited, fits, disturbances>>

(* GitHub: the comment of a command is edited or deleted.                  *)
CommentEdited(d) ==
  /\ Kind[d] = "command" /\ edited' = edited \cup {d} /\ d \notin edited
  /\ UNCHANGED <<disk, process, version, fits, disturbances>>

(* The agent loop and the coordinators commit to the same task.            *)
OtherCommit ==
  /\ up /\ healthy /\ disturbances < MaxDisturbances
  /\ disturbances' = disturbances + 1
  /\ events # {} /\ \E d \in Deliveries : place[d] \in Reading
  /\ stale' = {h \in Deliveries : place[h] \in Reading}
  /\ UNCHANGED <<disk, up, healthy, answering, ticking, listed, queue, place, seen,
                 world>>

Next ==
  \/ \E d \in Deliveries : AcceptNew(d) \/ CommentEdited(d)
  \/ \E d \in Deliveries : Handle(d) \/ Refuse(d)
  \/ AcceptSynced \/ Fault \/ ListPending \/ Snapshot \/ Pass
  \/ Stop \/ Kill \/ PowerLoss \/ Restart \/ IssueMoves \/ OtherCommit

Spec == Init /\ [][Next]_vars

(* run() ticks for ever, a handler's calls return, a service that has ended *)
(* is started again.                                                        *)
Fairness ==
  /\ WF_vars(ListPending) /\ WF_vars(Pass) /\ WF_vars(AcceptSynced)
  /\ WF_vars(Stop) /\ WF_vars(Restart)
  /\ \A d \in Deliveries : WF_vars(Handle(d))

FairSpec == Spec /\ Fairness
-----------------------------------------------------------------------------
(* pending/submit/acknowledge: a delivery with a receipt is not being       *)
(* processed, although the list of a tick is older than its submissions.    *)
(* (A store that is unhealthy lets no handler do anything.)                  *)
ReceiptedIdle ==
  \A d \in Deliveries : healthy /\ receipt[d] # "absent"
                          => place[d] \notin (Handling \ {"syncing"}) \cup {"queued"}

(* process: a receipt says what the journal holds: the source was recorded, *)
(* or refused by a task that is over, and a command said to be applied is    *)
(* there, whatever was retried.                                              *)
Sourced(d) == \E n \in 1..copies[d] : Known(<<"source", d, n>>)
ReceiptTrue ==
  \A d \in Deliveries : receipt[d] # "absent" /\ Kind[d] # "ignored" =>
    /\ IF outcome[d] = "refused" THEN over ELSE Sourced(d)
    /\ outcome[d] = "applied" => Known(CommandId(d))

(* handle_comment: one command is applied once, though its delivery is      *)
(* processed again after a crash, or was lost and is accepted anew.         *)
Applications(d) == {e \in events : e.id[1] = "comment" /\ e.id[2] = d}
CommandOnce == \A d \in Deliveries : Cardinality(Applications(d)) <= 1

(* accept, mark_processed: a durable delivery or receipt is never lost, and *)
(* what the receipt says does not change.                                   *)
DurableKept ==
  [][\A d \in Deliveries :
       /\ inbox[d] = "durable" => inbox'[d] = "durable"
       /\ receipt[d] = "durable" => receipt'[d] = "durable" /\ outcome'[d] = outcome[d]]_vars

(* What of this survives a power loss is the inbox a caller may rely on: a  *)
(* kept delivery stays, and is worked on until it has one true receipt and  *)
(* not after.                                                               *)
Kept == {d \in Deliveries : inbox[d] = "durable"}
OnRecord == {d \in Deliveries : Sourced(d)}
Applied == [d \in Deliveries |-> Cardinality(Applications(d))]
Receipts == [d \in Deliveries |-> IF receipt[d] = "durable" THEN outcome[d] ELSE "none"]
Served == INSTANCE Inbox WITH
  Ignored <- {d \in Deliveries : Kind[d] = "ignored"},
  kept <- Kept, recorded <- OnRecord, applied <- Applied, receipt <- Receipts
ServesInbox == Served!Spec

(* The source event of a delivery was committed for an older version of the *)
(* issue and the delivery has no receipt: every retry is a collision.       *)
Torn(d) == \E e \in events : e.id = SourceId(d) /\ e.body # version

(* tick/process: an accepted delivery gets its receipt, through failures,    *)
(* conflicts and restarts, unless it is torn, a power loss took it, or the   *)
(* service is started with another configuration than the task has.          *)
Processed ==
  \A d \in Deliveries :
    inbox[d] # "absent" ~>
      receipt[d] # "absent" \/ inbox[d] = "absent" \/ Torn(d) \/ ~fits

=============================================================================
