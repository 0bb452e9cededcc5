-------------------------- MODULE DeliveriesProofs --------------------------
(***************************************************************************)
(* What Deliveries promises for any deliveries, digests and bounds: no     *)
(* delivery with a receipt is processed, a receipt is true, a command is   *)
(* applied once, and what is durable stays.                                *)
(***************************************************************************)
EXTENDS Deliveries, FiniteSetTheorems, SequenceTheorems, TLAPS

(* A delivery in accept, listed, or known to the scheduler was written.     *)
Written ==
  \A d \in Deliveries :
    inbox[d] # "absent" \/ d = answering \/ d \in listed \/ place[d] # "none"
    => copies[d] >= 1

(* No work is left of a process that has ended.                            *)
DownIdle == ~up => listed = {} /\ \A d \in Deliveries : place[d] = "none"

(* A delivery with a receipt will not be submitted by the tick under way.   *)
Settled ==
  \A d \in Deliveries :
    /\ receipt[d] = "durable" => /\ place[d] \in {"none", "returned"}
                                 /\ d \in listed => place[d] = "returned"
    /\ healthy /\ receipt[d] # "absent" =>
         /\ place[d] \in {"syncing", "none", "returned"}
         /\ d \in listed => place[d] # "none"

(* A handler past capture_source has recorded the source, or was refused by *)
(* a task that is over; what was applied is in the journal.                 *)
Recorded ==
  \A d \in Deliveries :
    /\ /\ Kind[d] # "ignored" /\ outcome[d] # "refused"
       /\ \/ receipt[d] # "absent"
          \/ place[d] \in {"command", "reconcile", "receipt", "syncing"}
       => Sourced(d)
    /\ outcome[d] = "refused" => over /\ place[d] \notin Reading
    /\ outcome[d] = "applied" => Known(CommandId(d))

IInv == TypeOK /\ Written /\ DownIdle /\ Settled /\ Recorded

-----------------------------------------------------------------------------
(* What was recorded stays recorded while events and copies only grow.      *)
LEMMA Monotone ==
  ASSUME copies \in [Deliveries -> Nat], copies' \in [Deliveries -> Nat],
         \A h \in Deliveries : copies'[h] >= copies[h], events \subseteq events',
         NEW d \in Deliveries
  PROVE  /\ Sourced(d) => Sourced(d)'
         /\ Known(CommandId(d)) => Known(CommandId(d))'
         /\ \A e : EventOf(e, d) => EventOf(e, d)'
<1>1. copies[d] \in Nat /\ copies'[d] \in Nat /\ copies'[d] >= copies[d]
  OBVIOUS
<1>2. 1..copies[d] \subseteq 1..copies'[d]
  BY <1>1
<1>3. Sourced(d) => Sourced(d)'
  BY <1>2 DEF Sourced, Known
<1>4. Known(CommandId(d)) => Known(CommandId(d))'
  BY DEF Known, CommandId
<1>5. \A e : EventOf(e, d) => EventOf(e, d)'
  BY <1>2 DEF EventOf, CommandId
<1>6. QED BY <1>3, <1>4, <1>5

(* The queue is exact while it and the queued deliveries stay.             *)
LEMMA QueueKept ==
  ASSUME TypeOK, queue' = queue,
         \A h \in Deliveries : place'[h] = "queued" <=> place[h] = "queued"
  PROVE  QueueExact'
<1>1. {h \in Deliveries : place'[h] = "queued"} = {h \in Deliveries : place[h] = "queued"}
  OBVIOUS
<1>2. {queue'[k] : k \in DOMAIN queue'} = {queue[k] : k \in DOMAIN queue}
  OBVIOUS
<1>3. \A k, l \in DOMAIN queue' : queue'[k] = queue'[l] => k = l
  BY DEF TypeOK, QueueExact
<1>4. {queue[k] : k \in DOMAIN queue} = {h \in Deliveries : place[h] = "queued"}
  BY DEF TypeOK, QueueExact
<1>5. QED BY <1>1, <1>2, <1>3, <1>4 DEF QueueExact

(* One step of a handler that has not linked its receipt.                  *)
LEMMA HandlerStep ==
  ASSUME IInv, NEW d \in Deliveries, NEW p,
         up, place[d] \in Handling \ {"syncing"},
         p \in (Handling \ {"syncing"}) \cup {"raised"}, healthy \/ p = "raised",
         place' = [place EXCEPT ![d] = p],
         UNCHANGED <<inbox, copies, receipt, up, healthy, answering, ticking, listed,
                     queue, world>>,
         disturbances' \in 0..MaxDisturbances,
         outcome' \in [Deliveries -> Outcomes],
         \A h \in Deliveries \ {d} : outcome'[h] = outcome[h],
         stale' \in SUBSET Deliveries, seen' \in [Deliveries -> 0..MaxVersion],
         events \subseteq events', \A e \in events' \ events : EventOf(e, d),
         p \in {"command", "reconcile", "receipt"} /\ Kind[d] # "ignored"
           => outcome'[d] = "refused" \/ Sourced(d)',
         outcome'[d] = "refused" => over' /\ p \notin Reading,
         p = "raised" => receipt[d] = "absent" \/ outcome'[d] = outcome[d],
         over' \in BOOLEAN, over => over',
         outcome'[d] = "applied" => Known(CommandId(d))'
  PROVE  IInv'
<1> USE DEF IInv
<1>1. \A h \in Deliveries : place'[h] = IF h = d THEN p ELSE place[h]
  BY DEF TypeOK
<1>2. \A h \in Deliveries : /\ Sourced(h) => Sourced(h)'
                            /\ Known(CommandId(h)) => Known(CommandId(h))'
                            /\ \A e : EventOf(e, h) => EventOf(e, h)'
  BY Monotone DEF TypeOK
<1>3. QueueExact'
  BY <1>1, QueueKept DEF Handling
<1>4. \A e \in events' : \E h \in Deliveries : EventOf(e, h)'
  BY <1>2 DEF TypeOK
<1>5. TypeOK'
  <2>1. place' \in [Deliveries -> {"none", "queued"} \cup Handling \cup Ended]
    BY DEF TypeOK, Handling, Ended
  <2>2. QED BY <2>1, <1>3, <1>4 DEF TypeOK, world
<1>6. Written'
  BY <1>1 DEF Written, Handling
<1>7. DownIdle'
  BY DEF DownIdle
<1>8. Settled'
  BY <1>1 DEF Settled, Handling
<1>9. Recorded'
  <2>1. receipt[d] = "absent" \/ (p = "raised" /\ outcome'[d] = outcome[d])
    BY DEF Settled, Handling
  <2>2. QED BY <1>1, <1>2, <2>1 DEF Recorded, Handling, Reading
<1>10. QED BY <1>5, <1>6, <1>7, <1>8, <1>9

(* A handler fails.                                                        *)
LEMMA FailStep ==
  ASSUME IInv, NEW d \in Deliveries, up, place[d] \in Handling \ {"syncing"}, Fails(d),
         UNCHANGED <<inbox, copies, receipt, up, healthy, answering, ticking, listed,
                     queue, world>>,
         disturbances' \in 0..MaxDisturbances
  PROVE  IInv'
<1>1. /\ place' = [place EXCEPT ![d] = "raised"]
      /\ outcome' = outcome \/ outcome' = [outcome EXCEPT ![d] = "none"]
      /\ seen' = [seen EXCEPT ![d] = 0]
      /\ stale' = stale \ {d} /\ events' = events /\ over' = over
  BY DEF Fails, Goto
<1>2. /\ outcome' \in [Deliveries -> Outcomes]
      /\ outcome'[d] \in {"none", outcome[d]}
      /\ \A h \in Deliveries \ {d} : outcome'[h] = outcome[h]
  <2>1. CASE outcome' = outcome
    BY <2>1 DEF IInv, TypeOK
  <2>2. CASE outcome' = [outcome EXCEPT ![d] = "none"]
    BY <2>2 DEF IInv, TypeOK, Outcomes
  <2>3. QED BY <1>1, <2>1, <2>2
<1>3. seen' \in [Deliveries -> 0..MaxVersion] /\ stale' \in SUBSET Deliveries
  BY <1>1, BoundsType DEF IInv, TypeOK
<1>4. /\ outcome'[d] = "applied" => Known(CommandId(d))'
      /\ outcome'[d] = "refused" => over' /\ "raised" \notin Reading
      /\ over' \in BOOLEAN /\ (over => over')
  BY <1>1, <1>2 DEF IInv, TypeOK, Recorded, Known, CommandId, Reading
<1>5. receipt[d] = "absent" \/ outcome'[d] = outcome[d]
  BY DEF Fails
<1>6. QED BY <1>1, <1>2, <1>3, <1>4, <1>5, HandlerStep

(* A commit adds at most the event it was given, and makes it known.        *)
LEMMA CommitEffect ==
  ASSUME IInv, NEW d \in Deliveries, NEW STATE id, NEW STATE body, Commit(d, id, body)
  PROVE  /\ events \subseteq events'
         /\ \A e \in events' \ events : e = Event(id, body)
         /\ Event(id, body) \in events'
         /\ stale' \in SUBSET Deliveries
         /\ over' \in BOOLEAN /\ (over => over')
<1>1. CASE Duplicate(d, id, body)
  BY <1>1 DEF Duplicate, IInv, TypeOK
<1>2. CASE Extend(d, id, body)
  <2>1. events' = events \cup {Event(id, body)}
    BY <1>2 DEF Extend
  <2>2. stale' \in SUBSET Deliveries /\ over' \in BOOLEAN /\ ~over
    BY <1>2 DEF Extend
  <2>3. QED BY <2>1, <2>2
<1>3. QED BY <1>1, <1>2 DEF Commit

(* Each step of process keeps the invariant.                               *)
LEMMA BeginStep == ASSUME IInv, NEW d \in Deliveries, Begin(d) PROVE IInv'
<1> DEFINE p == IF Kind[d] = "ignored" THEN "receipt" ELSE "source"
<1>1. /\ up /\ healthy /\ place[d] = "begun" /\ place' = [place EXCEPT ![d] = p]
      /\ seen' = [seen EXCEPT ![d] = version]
      /\ outcome' = [outcome EXCEPT ![d] = "observed"]
      /\ events' = events /\ stale' = stale /\ over' = over
      /\ UNCHANGED <<inbox, copies, receipt, up, healthy, answering, ticking, listed,
                     queue, world, disturbances>>
  BY DEF Begin, At, Goto, HandlerOnly
<1>2. /\ outcome' \in [Deliveries -> Outcomes]
      /\ seen' \in [Deliveries -> 0..MaxVersion] /\ stale' \in SUBSET Deliveries
      /\ outcome'[d] = "observed" /\ over' \in BOOLEAN
      /\ \A h \in Deliveries \ {d} : outcome'[h] = outcome[h]
      /\ disturbances' \in 0..MaxDisturbances
  BY <1>1 DEF IInv, TypeOK, Outcomes
<1>3. /\ p \in (Handling \ {"syncing"}) \cup {"raised"}
      /\ place[d] \in Handling \ {"syncing"} /\ p # "raised"
      /\ p \in {"command", "reconcile", "receipt"} => Kind[d] = "ignored"
  BY <1>1 DEF Handling
<1> HIDE DEF p
<1>4. QED BY <1>1, <1>2, <1>3, HandlerStep

LEMMA CaptureStep == ASSUME IInv, NEW d \in Deliveries, CaptureSource(d) PROVE IInv'
<1>1. /\ up /\ healthy /\ place[d] = "source" /\ place[d] \in Handling \ {"syncing"}
      /\ UNCHANGED <<inbox, copies, receipt, up, healthy, answering, ticking, listed,
                     queue, world, disturbances>>
  BY DEF CaptureSource, At, HandlerOnly, Handling
<1>2. disturbances' \in 0..MaxDisturbances
  BY <1>1 DEF IInv, TypeOK
<1>3. CASE Fails(d)
  BY <1>1, <1>2, <1>3, FailStep
<1>4. CASE /\ Commit(d, SourceId(d), seen[d]) /\ Goto(d, AfterSource(d))
           /\ seen' = [seen EXCEPT ![d] = 0] /\ UNCHANGED outcome
  <2> DEFINE p == AfterSource(d)
  <2>1. /\ Commit(d, SourceId(d), seen[d]) /\ place' = [place EXCEPT ![d] = p]
        /\ seen' = [seen EXCEPT ![d] = 0] /\ outcome' = outcome
    BY <1>4 DEF Goto
  <2>2. /\ events \subseteq events' /\ stale' \in SUBSET Deliveries
        /\ \A e \in events' \ events : e = Event(SourceId(d), seen[d])
        /\ Event(SourceId(d), seen[d]) \in events'
        /\ over' \in BOOLEAN /\ (over => over')
    BY <2>1, CommitEffect
  <2>3. copies[d] \in Nat /\ copies[d] >= 1 /\ copies[d] \in 1..copies[d]
    BY <1>1 DEF IInv, TypeOK, Written
  <2>4. \A e \in events' \ events : EventOf(e, d)
    BY <2>2, <2>3 DEF EventOf, SourceId, IInv, TypeOK
  <2>5. Sourced(d)'
    BY <1>1, <2>2, <2>3 DEF Sourced, Known, SourceId, Event
  <2>6. /\ p \in (Handling \ {"syncing"}) \cup {"raised"}
        /\ seen' \in [Deliveries -> 0..MaxVersion]
        /\ outcome' \in [Deliveries -> Outcomes]
    BY <2>1, BoundsType DEF AfterSource, Handling, IInv, TypeOK
  <2>7. /\ outcome'[d] = "applied" => Known(CommandId(d))'
        /\ outcome'[d] # "refused"
    BY <1>1, <2>1, <2>2 DEF IInv, Recorded, Known, CommandId, Reading
  <2> HIDE DEF p
  <2>8. QED BY <1>1, <1>2, <2>1, <2>2, <2>4, <2>5, <2>6, <2>7, HandlerStep
<1>5. CASE /\ over /\ outcome' = [outcome EXCEPT ![d] = "refused"]
           /\ seen' = [seen EXCEPT ![d] = 0]
           /\ Goto(d, "receipt") /\ UNCHANGED <<events, over, stale>>
  <2>1. /\ outcome' \in [Deliveries -> Outcomes] /\ outcome'[d] = "refused"
        /\ \A h \in Deliveries \ {d} : outcome'[h] = outcome[h]
        /\ seen' \in [Deliveries -> 0..MaxVersion] /\ stale' \in SUBSET Deliveries
        /\ events' = events /\ over' = over /\ over
    BY <1>5, BoundsType DEF IInv, TypeOK, Outcomes
  <2>2. /\ place' = [place EXCEPT ![d] = "receipt"]
        /\ "receipt" \in (Handling \ {"syncing"}) \cup {"raised"}
        /\ "receipt" \notin Reading
    BY <1>5 DEF Goto, Handling, Reading
  <2>3. QED BY <1>1, <1>2, <2>1, <2>2, HandlerStep
<1>6. QED BY <1>3, <1>4, <1>5 DEF CaptureSource

LEMMA CommandStep == ASSUME IInv, NEW d \in Deliveries, HandleComment(d) PROVE IInv'
<1>1. /\ up /\ healthy /\ place[d] = "command" /\ place[d] \in Handling \ {"syncing"}
      /\ UNCHANGED <<inbox, copies, receipt, up, healthy, answering, ticking, listed,
                     queue, world, disturbances>>
  BY DEF HandleComment, At, HandlerOnly, Handling
<1>2. disturbances' \in 0..MaxDisturbances /\ seen \in [Deliveries -> 0..MaxVersion]
  BY <1>1 DEF IInv, TypeOK
<1>3. Kind[d] # "ignored" => Sourced(d)
  BY <1>1 DEF IInv, Recorded, Reading
<1>4. "receipt" \in (Handling \ {"syncing"}) \cup {"raised"}
  BY DEF Handling
<1>5. CASE Fails(d)
  BY <1>1, <1>2, <1>5, FailStep
<1>6. CASE /\ Commit(d, CommandId(d), 0)
           /\ outcome' = [outcome EXCEPT ![d] = "applied"]
           /\ Goto(d, "receipt") /\ UNCHANGED seen
  <2>1. /\ events \subseteq events' /\ stale' \in SUBSET Deliveries
        /\ \A e \in events' \ events : e = Event(CommandId(d), 0)
        /\ Event(CommandId(d), 0) \in events'
        /\ over' \in BOOLEAN /\ (over => over')
    BY <1>6, CommitEffect
  <2>2. \A e \in events' \ events : EventOf(e, d)
    BY <2>1 DEF EventOf
  <2>3. Known(CommandId(d))' /\ (Sourced(d) => Sourced(d)')
    BY <1>1, <2>1 DEF Sourced, Known, CommandId, Event
  <2>4. /\ outcome' \in [Deliveries -> Outcomes]
        /\ \A h \in Deliveries \ {d} : outcome'[h] = outcome[h]
        /\ outcome'[d] = "applied"
    BY <1>6 DEF IInv, TypeOK, Outcomes
  <2>5. place' = [place EXCEPT ![d] = "receipt"] /\ seen' = seen
    BY <1>6 DEF Goto
  <2>6. QED BY <1>1, <1>2, <1>3, <1>4, <2>1, <2>2, <2>3, <2>4, <2>5, HandlerStep
<1>7. CASE /\ outcome' = [outcome EXCEPT ![d] = "rejected"]
           /\ Goto(d, "receipt") /\ UNCHANGED <<events, over, stale, seen>>
  <2>1. /\ outcome' \in [Deliveries -> Outcomes]
        /\ \A h \in Deliveries \ {d} : outcome'[h] = outcome[h]
        /\ outcome'[d] = "rejected" /\ stale' \in SUBSET Deliveries
        /\ over' = over /\ over' \in BOOLEAN
    BY <1>7 DEF IInv, TypeOK, Outcomes
  <2>2. place' = [place EXCEPT ![d] = "receipt"] /\ events' = events /\ seen' = seen
    BY <1>7 DEF Goto
  <2>3. Sourced(d) => Sourced(d)'
    BY <1>1, <2>2 DEF Sourced, Known
  <2>4. QED BY <1>1, <1>2, <1>3, <1>4, <2>1, <2>2, <2>3, HandlerStep
<1>8. QED BY <1>5, <1>6, <1>7 DEF HandleComment

LEMMA RejectStep == ASSUME IInv, NEW d \in Deliveries, RejectComment(d) PROVE IInv'
<1>1. /\ up /\ healthy /\ place[d] = "command" /\ place[d] \in Handling \ {"syncing"}
      /\ place' = [place EXCEPT ![d] = "reconcile"] /\ stale' = stale \ {d}
      /\ outcome' = [outcome EXCEPT ![d] = "rejected"]
      /\ events' = events /\ seen' = seen /\ over' = over
      /\ UNCHANGED <<inbox, copies, receipt, up, healthy, answering, ticking, listed,
                     queue, world, disturbances>>
  BY DEF RejectComment, At, Goto, HandlerOnly, Handling
<1>2. /\ outcome' \in [Deliveries -> Outcomes]
      /\ \A h \in Deliveries \ {d} : outcome'[h] = outcome[h]
      /\ outcome'[d] = "rejected" /\ stale' \in SUBSET Deliveries
      /\ seen' \in [Deliveries -> 0..MaxVersion] /\ disturbances' \in 0..MaxDisturbances
      /\ over' \in BOOLEAN
  BY <1>1 DEF IInv, TypeOK, Outcomes
<1>3. /\ Kind[d] # "ignored" => Sourced(d)'
      /\ "reconcile" \in (Handling \ {"syncing"}) \cup {"raised"}
  BY <1>1 DEF IInv, Recorded, Sourced, Known, Handling, Reading
<1>4. QED BY <1>1, <1>2, <1>3, HandlerStep

LEMMA ReconcileStep == ASSUME IInv, NEW d \in Deliveries, Reconcile(d) PROVE IInv'
<1>1. /\ up /\ healthy /\ place[d] = "reconcile" /\ place[d] \in Handling \ {"syncing"}
      /\ UNCHANGED <<inbox, copies, receipt, up, healthy, answering, ticking, listed,
                     queue, world, disturbances>>
  BY DEF Reconcile, At, HandlerOnly, Handling
<1>2. disturbances' \in 0..MaxDisturbances
  BY <1>1 DEF IInv, TypeOK
<1>3. CASE Fails(d)
  BY <1>1, <1>2, <1>3, FailStep
<1>4. CASE ~Fails(d)
  <2>1. /\ place' = [place EXCEPT ![d] = "receipt"] /\ seen' = seen /\ outcome' = outcome
        /\ over' = over
        /\ Commit(d, ReconcileId(d), 0) \/ (events' = events /\ stale' = stale)
    BY <1>4 DEF Reconcile, Goto
  <2>2. /\ events \subseteq events' /\ stale' \in SUBSET Deliveries
        /\ \A e \in events' \ events : e = Event(ReconcileId(d), 0)
    BY <2>1, CommitEffect DEF IInv, TypeOK
  <2>3. copies[d] \in Nat /\ copies[d] >= 1 /\ copies[d] \in 1..copies[d]
    BY <1>1 DEF IInv, TypeOK, Written
  <2>4. \A e \in events' \ events : EventOf(e, d)
    BY <2>2, <2>3 DEF EventOf, ReconcileId
  <2>5. Kind[d] # "ignored" => Sourced(d)'
    BY <1>1, <2>2 DEF IInv, Recorded, Sourced, Known, Reading
  <2>6. /\ "receipt" \in (Handling \ {"syncing"}) \cup {"raised"}
        /\ seen' \in [Deliveries -> 0..MaxVersion]
        /\ outcome' \in [Deliveries -> Outcomes]
    BY <2>1 DEF Handling, IInv, TypeOK
  <2>7. /\ outcome'[d] = "applied" => Known(CommandId(d))'
        /\ outcome'[d] # "refused" /\ over' \in BOOLEAN
    BY <1>1, <2>1, <2>2 DEF IInv, TypeOK, Recorded, Known, CommandId, Reading
  <2>8. QED BY <1>1, <1>2, <2>1, <2>2, <2>4, <2>5, <2>6, <2>7, HandlerStep
<1>5. QED BY <1>3, <1>4

LEMMA FailureSteps ==
  ASSUME IInv, NEW d \in Deliveries, Refuse(d) \/ FindUnhealthy(d) PROVE IInv'
<1>1. CASE Refuse(d)
  <2>1. disturbances' \in 0..MaxDisturbances
    BY <1>1, BoundsType DEF Refuse, IInv, TypeOK
  <2>2. QED BY <1>1, <2>1, FailStep DEF Refuse, Handling
<1>2. CASE FindUnhealthy(d)
  <2>1. disturbances' \in 0..MaxDisturbances
    BY <1>2 DEF FindUnhealthy, HandlerOnly, IInv, TypeOK
  <2>2. QED BY <1>2, <2>1, FailStep DEF FindUnhealthy, HandlerOnly
<1>3. QED BY <1>1, <1>2

(* The receipt is linked, then synced.                                     *)
LEMMA ReceiptStep ==
  ASSUME IInv, NEW d \in Deliveries, MarkProcessed(d) \/ SyncReceipt(d) PROVE IInv'
<1> USE DEF IInv
<1> DEFINE p == IF place[d] = "receipt" THEN "syncing" ELSE "returned"
           f == IF place[d] = "receipt" THEN "visible" ELSE "durable"
<1>1. /\ up /\ place[d] = "receipt" => healthy
      /\ place[d] \in {"receipt", "syncing"}
      /\ place' = [place EXCEPT ![d] = p] /\ receipt' = [receipt EXCEPT ![d] = f]
      /\ UNCHANGED <<inbox, copies, outcome, events, over, up, healthy, answering, ticking,
                     listed, queue, stale, seen, world, disturbances>>
  BY DEF MarkProcessed, SyncReceipt, At, Goto
<1>2. /\ \A h \in Deliveries : place'[h] = IF h = d THEN p ELSE place[h]
      /\ \A h \in Deliveries : receipt'[h] = IF h = d THEN f ELSE receipt[h]
  BY <1>1 DEF TypeOK
<1>3. QueueExact'
  BY <1>1, <1>2, QueueKept
<1>4. /\ place' \in [Deliveries -> {"none", "queued"} \cup Handling \cup Ended]
      /\ receipt' \in [Deliveries -> Files]
  BY <1>1 DEF TypeOK, Handling, Ended, Files
<1>5. /\ \A h \in Deliveries : Sourced(h)' <=> Sourced(h)
      /\ \A h \in Deliveries : Known(CommandId(h))' <=> Known(CommandId(h))
      /\ \A h \in Deliveries : \A e : EventOf(e, h)' <=> EventOf(e, h)
  BY <1>1 DEF Sourced, Known, CommandId, EventOf
<1>6. TypeOK'
  BY <1>1, <1>3, <1>4, <1>5 DEF TypeOK, world
<1>7. Written' /\ DownIdle' /\ Settled'
  BY <1>1, <1>2 DEF Written, DownIdle, Settled
<1>8. Recorded'
  BY <1>1, <1>2, <1>5 DEF Recorded, Reading
<1>9. QED BY <1>6, <1>7, <1>8

-----------------------------------------------------------------------------
(* Steps that leave the receipts, the journal and the outcomes alone, and   *)
(* move no work into the hands of a handler.                                *)
LEMMA OutsideStep ==
  ASSUME IInv, TypeOK', Written', DownIdle',
         UNCHANGED <<receipt, events, over, outcome>>,
         \A d \in Deliveries : copies'[d] >= copies[d],
         healthy' => healthy,
         \A d \in Deliveries :
           /\ place'[d] = place[d] \/ place'[d] \in {"none", "raised"}
           /\ receipt[d] = "durable" => place'[d] = place[d] \/ d \notin listed'
           /\ place[d] \in {"none", "returned"} => place'[d] \in {"none", "returned"}
           /\ healthy' => place'[d] = place[d] \/ place[d] = "raised" \/ d \notin listed'
           /\ healthy' /\ place[d] = "syncing" => place'[d] # "raised"
           /\ d \in listed' => d \in listed \/ receipt[d] = "absent"
  PROVE  IInv'
<1>1. \A d \in Deliveries : /\ Sourced(d) => Sourced(d)'
                            /\ Known(CommandId(d)) => Known(CommandId(d))'
  BY Monotone DEF IInv, TypeOK
<1>2. Recorded'
  BY <1>1 DEF IInv, Recorded, Reading
<1>3. Settled'
  BY DEF IInv, Settled
<1>4. QED BY <1>2, <1>3 DEF IInv

LEMMA AcceptSteps ==
  ASSUME IInv, NEW d \in Deliveries, AcceptNew(d) \/ AcceptSynced
  PROVE  IInv'
<1> USE DEF IInv
<1>1. CASE AcceptNew(d)
  <2>1. /\ inbox' = [inbox EXCEPT ![d] = "visible"] /\ copies' = [copies EXCEPT ![d] = @ + 1]
        /\ answering' = d
        /\ UNCHANGED <<receipt, outcome, events, over, up, healthy, ticking, listed, queue,
                       place, stale, seen, world, disturbances>>
    BY <1>1 DEF AcceptNew
  <2>2. /\ copies' \in [Deliveries -> Nat] /\ inbox' \in [Deliveries -> Files]
        /\ \A h \in Deliveries : copies'[h] >= copies[h]
        /\ copies'[d] >= 1
    BY <2>1 DEF TypeOK, Files
  <2>3. QueueExact'
    BY <2>1, QueueKept
  <2>4. \A e \in events' : \E h \in Deliveries : EventOf(e, h)'
    BY <2>1, <2>2, Monotone DEF TypeOK
  <2>5. TypeOK'
    BY <2>1, <2>2, <2>3, <2>4 DEF TypeOK, world
  <2>6. \A h \in Deliveries \ {d} : inbox'[h] = inbox[h]
    BY <2>1 DEF TypeOK
  <2>7. \A h \in Deliveries : copies[h] \in Nat /\ copies'[h] \in Nat
    BY <2>2 DEF TypeOK
  <2>8. Written' /\ DownIdle'
    BY <2>1, <2>2, <2>6, <2>7 DEF Written, DownIdle
  <2>9. QED BY <2>1, <2>2, <2>5, <2>8, OutsideStep
<1>2. CASE AcceptSynced
  <2>1. /\ answering \in Deliveries
        /\ inbox' = [inbox EXCEPT ![answering] = "durable"]
        /\ answering' = Nobody
        /\ UNCHANGED <<copies, receipt, outcome, events, over, up, healthy, ticking, listed,
                       queue, place, stale, seen, world, disturbances>>
    BY <1>2 DEF AcceptSynced, TypeOK
  <2>2. QueueExact' /\ \A e \in events' : \E h \in Deliveries : EventOf(e, h)'
    BY <2>1, QueueKept DEF TypeOK, EventOf, CommandId
  <2>3. TypeOK'
    BY <2>1, <2>2 DEF TypeOK, Files, world
  <2>4. Written' /\ DownIdle'
    BY <2>1, NobodyType DEF Written, DownIdle, TypeOK
  <2>5. \A h \in Deliveries : copies[h] \in Nat
    BY DEF TypeOK
  <2>6. QED BY <2>1, <2>3, <2>4, <2>5, OutsideStep
<1>3. QED BY <1>1, <1>2

(* GitHub, other commits, failing calls, lists and status requests.        *)
LEMMA WorldSteps ==
  ASSUME IInv, IssueMoves \/ OtherCommit \/ \E d \in Deliveries : CommentEdited(d)
  PROVE  IInv'
<1> USE DEF IInv
<1>1. /\ UNCHANGED <<inbox, copies, receipt, outcome, events, over, up, healthy, answering,
                     ticking, listed, queue, place, seen, fits>>
      /\ stale' \in SUBSET Deliveries
      /\ version' \in 0..MaxVersion /\ edited' \in SUBSET Deliveries
      /\ disturbances' \in 0..MaxDisturbances
  <2>1. CASE IssueMoves
    BY <2>1, BoundsType DEF IssueMoves, disk, process, TypeOK
  <2>2. CASE OtherCommit
    BY <2>2, BoundsType DEF OtherCommit, disk, world, TypeOK
  <2>3. CASE \E d \in Deliveries : CommentEdited(d)
    BY <2>3 DEF CommentEdited, disk, process, TypeOK
  <2>4. QED BY <2>1, <2>2, <2>3
<1>2. QueueExact' /\ \A e \in events' : \E h \in Deliveries : EventOf(e, h)'
  BY <1>1, QueueKept DEF TypeOK, EventOf, CommandId
<1>3. TypeOK'
  BY <1>1, <1>2 DEF TypeOK
<1>4. Written' /\ DownIdle' /\ \A h \in Deliveries : copies[h] \in Nat
  BY <1>1 DEF Written, DownIdle, TypeOK
<1>5. QED BY <1>1, <1>3, <1>4, OutsideStep

LEMMA FaultStep == ASSUME IInv, Fault PROVE IInv'
<1> USE DEF IInv
<1>1. PICK hit \in SUBSET {d \in Deliveries : place[d] = "syncing"} :
        place' = [d \in Deliveries |-> IF d \in hit THEN "raised" ELSE place[d]]
  BY DEF Fault
<1>2. /\ up /\ healthy' = FALSE /\ answering' \in {answering, Nobody}
      /\ disturbances' \in 0..MaxDisturbances
      /\ UNCHANGED <<inbox, copies, receipt, outcome, events, over, up, ticking, listed, queue,
                     stale, seen, version, edited, fits>>
  BY BoundsType DEF Fault, disk, world, TypeOK
<1>3. \A d \in Deliveries :
        \/ place'[d] = place[d]
        \/ place'[d] = "raised" /\ place[d] = "syncing"
  BY <1>1
<1>4. QueueExact' /\ \A e \in events' : \E h \in Deliveries : EventOf(e, h)'
  BY <1>2, <1>3, QueueKept DEF TypeOK, EventOf, CommandId
<1>5. place' \in [Deliveries -> {"none", "queued"} \cup Handling \cup Ended]
  BY <1>1 DEF TypeOK, Ended
<1>6. TypeOK'
  BY <1>2, <1>4, <1>5 DEF TypeOK
<1>7. Written' /\ DownIdle' /\ \A h \in Deliveries : copies[h] \in Nat
  BY <1>2, <1>3, NobodyType DEF Written, DownIdle, TypeOK
<1>8. \A d \in Deliveries : receipt[d] = "durable" => place'[d] = place[d]
  BY <1>3 DEF Settled
<1>9. QED BY <1>2, <1>3, <1>6, <1>7, <1>8, OutsideStep

LEMMA ListStep == ASSUME IInv, ListPending PROVE IInv'
<1> USE DEF IInv
<1>1. /\ up /\ listed' = Pending /\ ticking' = TRUE
      /\ UNCHANGED <<inbox, copies, receipt, outcome, events, over, up, healthy, answering, queue,
                     place, stale, seen, version, edited, fits, disturbances>>
  BY DEF ListPending, disk, world
<1>2. QueueExact' /\ \A e \in events' : \E h \in Deliveries : EventOf(e, h)'
  BY <1>1, QueueKept DEF TypeOK, EventOf, CommandId
<1>3. TypeOK'
  BY <1>1, <1>2 DEF TypeOK, Pending
<1>4. Written' /\ DownIdle' /\ \A h \in Deliveries : copies[h] \in Nat
  BY <1>1 DEF Written, DownIdle, Pending, TypeOK
<1>5. QED BY <1>1, <1>3, <1>4, OutsideStep DEF Pending

LEMMA SnapshotStep == ASSUME IInv, Snapshot PROVE IInv'
<1> USE DEF IInv
<1>1. /\ up
      /\ place' = [d \in Deliveries |-> IF place[d] = "raised" THEN "none" ELSE place[d]]
      /\ UNCHANGED <<inbox, copies, receipt, outcome, events, over, up, healthy, answering, ticking,
                     listed, queue, stale, seen, version, edited, fits, disturbances>>
  BY DEF Snapshot, disk, world
<1>2. \A d \in Deliveries : \/ place'[d] = place[d]
                            \/ place'[d] = "none" /\ place[d] = "raised"
  BY <1>1
<1>3. QueueExact' /\ \A e \in events' : \E h \in Deliveries : EventOf(e, h)'
  BY <1>1, <1>2, QueueKept DEF TypeOK, EventOf, CommandId
<1>4. TypeOK'
  BY <1>1, <1>3 DEF TypeOK
<1>5. Written' /\ DownIdle' /\ \A h \in Deliveries : copies[h] \in Nat
  BY <1>1, <1>2 DEF Written, DownIdle, TypeOK
<1>6. \A d \in Deliveries : receipt[d] = "durable" => place'[d] = place[d]
  BY <1>2 DEF Settled
<1>7. QED BY <1>1, <1>2, <1>4, <1>5, <1>6, OutsideStep

-----------------------------------------------------------------------------
(* The order of a finite set lists each of its members once.               *)
LEMMA SortedLists ==
  ASSUME NEW S \in SUBSET Deliveries, NEW s \in Sorted(S)
  PROVE  /\ s \in Seq(S)
         /\ \A a, b \in DOMAIN s : s[a] = s[b] => a = b
         /\ {s[k] : k \in DOMAIN s} = S
<1>1. IsFiniteSet(S) /\ Cardinality(S) \in Nat
  BY DeliveriesType, FS_Subset, FS_CardinalityType
<1>2. s \in [1..Cardinality(S) -> S]
  BY DEF Sorted
<1>3. \A a, b \in DOMAIN s : a < b => s[a] # s[b]
  BY <1>2, RankType DEF Sorted
<1>4. \A a, b \in DOMAIN s : s[a] = s[b] => a = b
  BY <1>1, <1>2, <1>3
<1>5. s \in Injection(1..Cardinality(S), S)
  BY <1>2, <1>4 DEF Injection, IsInjective
<1>6. IsFiniteSet(1..Cardinality(S)) /\ Cardinality(1..Cardinality(S)) = Cardinality(S)
  BY <1>1, FS_Interval
<1>7. s \in Surjection(1..Cardinality(S), S)
  BY <1>1, <1>5, <1>6, FS_Injection
<1>8. s \in Seq(S)
  BY <1>1, <1>2, SeqDef
<1>9. {s[k] : k \in DOMAIN s} = S
  BY <1>2, <1>7 DEF Surjection
<1>10. QED BY <1>4, <1>8, <1>9

(* Lists without repetitions, and what is in them.                         *)
NoRepeat(s) == \A k, l \in DOMAIN s : s[k] = s[l] => k = l
Among(x, s) == \E k \in DOMAIN s : x = s[k]
InFirst(x, s, m) == \E k \in 1..m : x = s[k]

(* Two lists without repetitions and without a common member, in a row.     *)
LEMMA Joined ==
  ASSUME NEW D, NEW q \in Seq(D), NEW s \in Seq(D),
         NoRepeat(q), NoRepeat(s), \A x : ~(Among(x, q) /\ Among(x, s))
  PROVE  /\ q \o s \in Seq(D) /\ NoRepeat(q \o s)
         /\ \A x : Among(x, q \o s) <=> Among(x, q) \/ Among(x, s)
<1> USE DEF NoRepeat, Among
<1> DEFINE a == q \o s
<1>1. /\ a \in Seq(D) /\ Len(a) = Len(q) + Len(s) /\ DOMAIN a = 1..(Len(q) + Len(s))
      /\ Len(q) \in Nat /\ Len(s) \in Nat
      /\ DOMAIN q = 1..Len(q) /\ DOMAIN s = 1..Len(s)
      /\ \A i \in 1..(Len(q) + Len(s)) : a[i] = IF i <= Len(q) THEN q[i] ELSE s[i - Len(q)]
  OBVIOUS
<1> HIDE DEF a
<1>2. \A k, l \in DOMAIN a : a[k] = a[l] => k = l
  <2> SUFFICES ASSUME NEW k \in DOMAIN a, NEW l \in DOMAIN a, a[k] = a[l]
               PROVE  k = l
    OBVIOUS
  <2>1. CASE k <= Len(q) /\ l <= Len(q)
    BY <1>1, <2>1
  <2>2. CASE k > Len(q) /\ l > Len(q)
    <3>1. k - Len(q) \in DOMAIN s /\ l - Len(q) \in DOMAIN s
      BY <1>1, <2>2
    <3>2. a[k] = s[k - Len(q)] /\ a[l] = s[l - Len(q)]
      BY <1>1, <2>2
    <3>3. k - Len(q) = l - Len(q)
      BY <3>1, <3>2
    <3>4. QED BY <1>1, <3>3
  <2>3. CASE k <= Len(q) /\ l > Len(q)
    <3>1. k \in DOMAIN q /\ l - Len(q) \in DOMAIN s
      BY <1>1, <2>3
    <3>2. a[k] = q[k] /\ a[l] = s[l - Len(q)]
      BY <1>1, <2>3
    <3>3. QED BY <3>1, <3>2
  <2>4. CASE k > Len(q) /\ l <= Len(q)
    <3>1. l \in DOMAIN q /\ k - Len(q) \in DOMAIN s
      BY <1>1, <2>4
    <3>2. a[l] = q[l] /\ a[k] = s[k - Len(q)]
      BY <1>1, <2>4
    <3>3. QED BY <3>1, <3>2
  <2>5. QED BY <1>1, <2>1, <2>2, <2>3, <2>4
<1>3. \A x : (\E k \in DOMAIN a : x = a[k])
             <=> (\E k \in DOMAIN q : x = q[k]) \/ (\E k \in DOMAIN s : x = s[k])
  <2>1. \A k \in DOMAIN q : k \in DOMAIN a /\ a[k] = q[k]
    BY <1>1
  <2>2. \A k \in DOMAIN s : k + Len(q) \in DOMAIN a /\ a[k + Len(q)] = s[k]
    BY <1>1
  <2>3. \A k \in DOMAIN a : \/ k \in DOMAIN q /\ a[k] = q[k]
                            \/ k - Len(q) \in DOMAIN s /\ a[k] = s[k - Len(q)]
    BY <1>1
  <2>4. QED BY <2>1, <2>2, <2>3
<1>4. QED BY <1>1, <1>2, <1>3 DEF a

(* What SubSeq leaves of a list.                                           *)
LEMMA Suffix ==
  ASSUME NEW D, NEW a \in Seq(D), NEW m \in 0..Len(a), NEW q, q = SubSeq(a, m + 1, Len(a))
  PROVE  /\ q \in Seq(D) /\ Len(q) = Len(a) - m
         /\ \A i \in 1..(Len(a) - m) : q[i] = a[m + i]
<1>1. Len(a) \in Nat /\ DOMAIN a = 1..Len(a) /\ m \in Nat /\ m <= Len(a)
  OBVIOUS
<1>2. /\ m + 1 \in Int /\ Len(a) \in Int
      /\ \A i \in (m + 1)..Len(a) : a[i] \in D
  BY <1>1
<1>3. /\ q \in Seq(D)
      /\ Len(q) = IF m + 1 <= Len(a) THEN Len(a) - (m + 1) + 1 ELSE 0
      /\ \A i \in 1..(Len(a) - (m + 1) + 1) : q[i] = a[(m + 1) + i - 1]
  BY <1>2, SubSeqProperties
<1>4. \A L, j \in Nat : j <= L => /\ L - (j + 1) + 1 = L - j
                                  /\ (j + 1 <= L \/ L - j = 0)
  OBVIOUS
<1>5. (\A i \in Int : (m + 1) + i - 1 = m + i) /\ 1..(Len(a) - m) \subseteq Int
  BY <1>1
<1>6. Len(a) - (m + 1) + 1 = Len(a) - m /\ (m + 1 <= Len(a) \/ Len(a) - m = 0)
  BY <1>1, <1>4
<1>7. \A i \in 1..(Len(a) - m) : q[i] = a[m + i]
  BY <1>3, <1>5, <1>6, Zenon
<1>8. Len(q) = Len(a) - m
  BY <1>3, <1>6, Zenon
<1>9. QED BY <1>3, <1>7, <1>8

(* A list without repetitions cut in two.                                  *)
LEMMA Cut ==
  ASSUME NEW D, NEW a \in Seq(D), NEW m \in 0..Len(a), NEW q \in Seq(D),
         Len(q) = Len(a) - m, \A i \in 1..(Len(a) - m) : q[i] = a[m + i],
         NoRepeat(a)
  PROVE  /\ NoRepeat(q)
         /\ \A x : Among(x, q) <=> Among(x, a) /\ ~InFirst(x, a, m)
<1> USE DEF NoRepeat, Among, InFirst
<1>1. Len(a) \in Nat /\ DOMAIN a = 1..Len(a) /\ m \in Nat /\ m <= Len(a)
  OBVIOUS
<1>2. \A i \in 1..(Len(a) - m) : q[i] = a[m + i]
  OBVIOUS
<1>3. DOMAIN q = 1..(Len(a) - m)
  OBVIOUS
<1>4. \A k, l \in DOMAIN q : q[k] = q[l] => k = l
  <2> SUFFICES ASSUME NEW k \in DOMAIN q, NEW l \in DOMAIN q, q[k] = q[l]
               PROVE  k = l
    OBVIOUS
  <2>1. m + k \in DOMAIN a /\ m + l \in DOMAIN a
    BY <1>1, <1>3
  <2>2. q[k] = a[m + k] /\ q[l] = a[m + l]
    BY <1>2, <1>3
  <2>3. m + k = m + l
    BY <2>1, <2>2
  <2>4. QED BY <1>1, <1>3, <2>3
<1>5. \A k \in DOMAIN q : /\ m + k \in DOMAIN a /\ q[k] = a[m + k]
                          /\ \A l \in 1..m : l \in DOMAIN a /\ a[l] # a[m + k]
  <2> SUFFICES ASSUME NEW k \in DOMAIN q
               PROVE  /\ m + k \in DOMAIN a /\ q[k] = a[m + k]
                      /\ \A l \in 1..m : l \in DOMAIN a /\ a[l] # a[m + k]
    OBVIOUS
  <2>1. m + k \in DOMAIN a /\ \A l \in 1..m : l \in DOMAIN a /\ l # m + k
    BY <1>1, <1>3
  <2>2. QED BY <1>2, <1>3, <2>1
<1>6. \A k \in DOMAIN a \ 1..m : k - m \in DOMAIN q /\ q[k - m] = a[k]
  <2> SUFFICES ASSUME NEW k \in DOMAIN a \ 1..m
               PROVE  k - m \in DOMAIN q /\ q[k - m] = a[k]
    OBVIOUS
  <2>1. k - m \in DOMAIN q /\ m + (k - m) = k
    BY <1>1, <1>3
  <2>2. q[k - m] = a[m + (k - m)]
    BY <1>2, <1>3, <2>1
  <2>3. QED BY <2>1, <2>2
<1>7. \A x : (\E k \in DOMAIN q : x = q[k])
             => (\E k \in DOMAIN a : x = a[k]) /\ ~(\E k \in 1..m : x = a[k])
  BY <1>5
<1>8. \A x : (\E k \in DOMAIN a : x = a[k]) /\ ~(\E k \in 1..m : x = a[k])
             => \E k \in DOMAIN q : x = q[k]
  BY <1>6, Zenon
<1>9. QED BY <1>2, <1>4, <1>7, <1>8, Zenon

(* A pass of the scheduler: what is queued or dispatched was queued or is   *)
(* newly submitted, so it has no receipt.                                   *)
LEMMA PassStep == ASSUME IInv, Pass PROVE IInv'
<1> USE DEF IInv
<1> DEFINE all(s) == queue \o s
           busy == Cardinality(Running)
           free == IF busy < Slots THEN Slots - busy ELSE 0
           n(s) == IF Len(all(s)) <= free THEN Len(all(s)) ELSE free
           took(s) == {all(s)[k] : k \in 1..n(s)}
<1>1. PICK new \in Sorted(Submitted) :
        /\ queue' = SubSeq(all(new), n(new) + 1, Len(all(new)))
        /\ place' = [d \in Deliveries |->
                       CASE d \in took(new) -> "begun"
                         [] d \in Submitted \ took(new) -> "queued"
                         [] d \notin Submitted /\ place[d] \in Ended -> "none"
                         [] OTHER -> place[d]]
  BY DEF Pass
<1>2. /\ up /\ listed' = {} /\ ticking' = FALSE
      /\ UNCHANGED <<inbox, copies, receipt, outcome, events, over, up, healthy, answering, stale,
                     seen, version, edited, fits, disturbances>>
  BY DEF Pass, disk, world
<1>3. /\ Submitted \in SUBSET Deliveries
      /\ \A d \in Submitted : place[d] = "none" /\ d \in listed
  BY DEF Submitted, TypeOK
<1>4. /\ new \in Seq(Submitted) /\ new \in Seq(Deliveries)
      /\ \A k, l \in DOMAIN new : new[k] = new[l] => k = l
      /\ {new[k] : k \in DOMAIN new} = Submitted
  BY <1>1, <1>3, SortedLists
<1> DEFINE a == all(new)
           m == n(new)
           T == took(new)
           Waits(x) == x \in Submitted \/ (x \in Deliveries /\ place[x] = "queued")
<1>5. /\ \A x : Among(x, queue) <=> x \in Deliveries /\ place[x] = "queued"
      /\ \A x : Among(x, new) <=> x \in Submitted
      /\ NoRepeat(queue) /\ NoRepeat(new) /\ queue \in Seq(Deliveries)
  BY <1>4 DEF TypeOK, QueueExact, NoRepeat, Among
<1>6. \A x : ~(Among(x, queue) /\ Among(x, new))
  BY <1>3, <1>5
<1>7. a \in Seq(Deliveries) /\ NoRepeat(a) /\ \A x : Among(x, a) <=> Waits(x)
  <2>1. /\ a \in Seq(Deliveries) /\ NoRepeat(a)
        /\ \A x : Among(x, a) <=> Among(x, queue) \/ Among(x, new)
    BY <1>4, <1>5, <1>6, Joined
  <2> HIDE DEF a
  <2>2. QED BY <1>5, <2>1
<1>8. free \in Nat
  <2>1. Running \in SUBSET Deliveries
    BY DEF Running
  <2>2. busy \in Nat
    BY <2>1, DeliveriesType, FS_Subset, FS_CardinalityType
  <2> HIDE DEF busy
  <2>3. QED BY <2>2, SlotsType
<1>9. m \in 0..Len(a)
  <2>1. Len(a) \in Nat
    BY <1>7
  <2> HIDE DEF free, all
  <2>2. QED BY <1>8, <2>1
<1>10. /\ queue' = SubSeq(a, m + 1, Len(a)) /\ \A x : x \in T <=> InFirst(x, a, m)
       /\ place' = [d \in Deliveries |->
                       CASE d \in T -> "begun"
                         [] d \in Submitted \ T -> "queued"
                         [] d \notin Submitted /\ place[d] \in Ended -> "none"
                         [] OTHER -> place[d]]
  BY <1>1 DEF InFirst
<1> HIDE DEF a, m, T, all, n, took, free, busy
<1>11. /\ queue' \in Seq(Deliveries) /\ NoRepeat(queue')
       /\ \A x : Among(x, queue') <=> Waits(x) /\ x \notin T
  <2>1. /\ queue' \in Seq(Deliveries) /\ Len(queue') = Len(a) - m
        /\ \A i \in 1..(Len(a) - m) : queue'[i] = a[m + i]
    BY <1>7, <1>9, <1>10, Suffix
  <2>2. /\ NoRepeat(queue')
        /\ \A x : Among(x, queue') <=> Among(x, a) /\ ~InFirst(x, a, m)
    BY <1>7, <1>9, <2>1, Cut
  <2>3. QED BY <1>7, <1>10, <2>1, <2>2
<1>12. \A x \in T : Waits(x)
  <2>1. 1..m \subseteq DOMAIN a
    BY <1>7, <1>9
  <2>2. QED BY <1>7, <1>10, <2>1 DEF Among, InFirst
<1>13. \A d \in Deliveries :
         /\ d \in T => place'[d] = "begun"
         /\ d \in Submitted \ T => place'[d] = "queued"
         /\ d \notin T /\ d \notin Submitted =>
              place'[d] = IF place[d] \in Ended THEN "none" ELSE place[d]
  <2> TAKE d \in Deliveries
  <2>1. place'[d] = CASE d \in T -> "begun"
                      [] d \in Submitted \ T -> "queued"
                      [] d \notin Submitted /\ place[d] \in Ended -> "none"
                      [] OTHER -> place[d]
    BY <1>10
  <2>2. CASE d \in T
    <3>1. ~(d \in Submitted \ T) /\ ~(d \notin Submitted /\ place[d] \in Ended)
      BY <1>12, <2>2 DEF Ended
    <3>2. QED BY <2>1, <2>2, <3>1
  <2>3. CASE d \in Submitted \ T
    BY <2>1, <2>3
  <2>4. CASE d \notin T /\ d \notin Submitted
    BY <2>1, <2>4
  <2>5. QED BY <2>2, <2>3, <2>4
<1>14. QueueExact'
  <2>1. \A d \in Deliveries : place'[d] = "queued" <=> Waits(d) /\ d \notin T
    <3> TAKE d \in Deliveries
    <3>1. CASE d \in T
      BY <1>13, <3>1
    <3>2. CASE d \in Submitted \ T
      BY <1>13, <3>2
    <3>3. CASE d \notin T /\ d \notin Submitted
      BY <1>13, <3>3 DEF Ended
    <3>4. QED BY <3>1, <3>2, <3>3
  <2>2. {queue'[k] : k \in DOMAIN queue'} = {d \in Deliveries : place'[d] = "queued"}
    BY <1>3, <1>11, <2>1 DEF Among
  <2>3. QED BY <1>11, <2>2 DEF QueueExact, NoRepeat
<1>15. \A e \in events' : \E h \in Deliveries : EventOf(e, h)'
  BY <1>2 DEF TypeOK, EventOf, CommandId
<1>16. TypeOK'
  <2>1. \A d \in Deliveries : place'[d] \in {"none", "queued"} \cup Handling \cup Ended
    BY <1>13 DEF TypeOK, Handling, Ended
  <2>2. place' = [d \in Deliveries |-> place'[d]]
    BY <1>10
  <2>3. place' \in [Deliveries -> {"none", "queued"} \cup Handling \cup Ended]
    BY <2>1, <2>2
  <2>4. QED BY <1>2, <1>11, <1>14, <1>15, <2>3 DEF TypeOK
<1>17. Written'
  BY <1>2, <1>3, <1>12, <1>13 DEF Written
<1>18. DownIdle'
  BY <1>2 DEF DownIdle
<1>19. Settled'
  BY <1>2, <1>3, <1>12, <1>13 DEF Settled, Ended
<1>20. Recorded'
  <2>1. \A h \in Deliveries : /\ Sourced(h) => Sourced(h)'
                              /\ Known(CommandId(h)) => Known(CommandId(h))'
    BY <1>2, Monotone DEF TypeOK
  <2>2. QED BY <1>2, <1>3, <1>12, <1>13, <2>1 DEF Recorded, Ended, Reading
<1>21. QED BY <1>16, <1>17, <1>18, <1>19, <1>20

(* The process ends: a power loss may take files, the journal stays.       *)
LEMMA EndsStep == ASSUME IInv, Stop \/ Kill \/ PowerLoss PROVE IInv'
<1> USE DEF IInv
<1>1. /\ Ends /\ disturbances' \in 0..MaxDisturbances
      /\ inbox' \in [Deliveries -> Files] /\ receipt' \in [Deliveries -> Files]
      /\ \A d \in Deliveries : /\ inbox'[d] # "absent" => inbox[d] # "absent"
                               /\ receipt'[d] # "absent" => receipt[d] # "absent"
  <2>1. CASE Stop
    BY <2>1 DEF Stop, TypeOK
  <2>2. CASE Kill
    BY <2>2, BoundsType DEF Kill, TypeOK
  <2>3. CASE PowerLoss
    BY <2>3, BoundsType DEF PowerLoss, Survivors, TypeOK
  <2>4. QED BY <2>1, <2>2, <2>3
<1>2. /\ up' = FALSE /\ ticking' = FALSE /\ answering' = Nobody /\ listed' = {}
      /\ queue' = <<>> /\ place' = [d \in Deliveries |-> "none"]
      /\ stale' = {} /\ seen' = [d \in Deliveries |-> 0]
      /\ outcome' = [d \in Deliveries |-> IF receipt'[d] = "absent" THEN "none" ELSE outcome[d]]
      /\ UNCHANGED <<copies, events, over, healthy, version, edited, fits>>
  BY <1>1 DEF Ends, world
<1>3. QueueExact'
  BY <1>2 DEF QueueExact
<1>4. \A e \in events' : \E h \in Deliveries : EventOf(e, h)'
  BY <1>2 DEF TypeOK, EventOf, CommandId
<1>5. TypeOK'
  <2>1. /\ place' \in [Deliveries -> {"none", "queued"} \cup Handling \cup Ended]
        /\ seen' \in [Deliveries -> 0..MaxVersion]
        /\ outcome' \in [Deliveries -> Outcomes]
    BY <1>2, BoundsType DEF TypeOK, Outcomes
  <2>2. queue' \in Seq(Deliveries)
    BY <1>2, EmptySeq
  <2>3. /\ answering' \in Deliveries \cup {Nobody} /\ stale' \subseteq Deliveries
        /\ listed' \subseteq Deliveries
        /\ copies' \in [Deliveries -> Nat] /\ up' \in BOOLEAN /\ healthy' \in BOOLEAN
        /\ ticking' \in BOOLEAN
        /\ over' \in BOOLEAN /\ fits' \in BOOLEAN /\ version' \in 0..MaxVersion /\ edited' \subseteq Deliveries
    BY <1>2 DEF TypeOK
  <2>4. QED BY <1>1, <1>3, <1>4, <2>1, <2>2, <2>3 DEF TypeOK
<1>6. Written' /\ DownIdle' /\ Settled'
  BY <1>1, <1>2, NobodyType DEF Written, DownIdle, Settled
<1>7. Recorded'
  <2>1. \A h \in Deliveries : /\ Sourced(h) => Sourced(h)'
                              /\ Known(CommandId(h)) => Known(CommandId(h))'
    BY <1>2, Monotone DEF TypeOK
  <2>2. QED BY <1>1, <1>2, <2>1 DEF Recorded, Reading
<1>8. QED BY <1>5, <1>6, <1>7

(* A service starts with nothing in hand.                                  *)
LEMMA RestartStep == ASSUME IInv, Restart PROVE IInv'
<1> USE DEF IInv
<1>1. /\ ~up /\ up' = TRUE /\ healthy' = TRUE /\ fits' \in BOOLEAN
      /\ UNCHANGED <<inbox, copies, receipt, outcome, events, over, answering, ticking, listed,
                     queue, place, stale, seen, version, edited, disturbances>>
  BY DEF Restart, disk
<1>2. QueueExact' /\ \A e \in events' : \E h \in Deliveries : EventOf(e, h)'
  BY <1>1, QueueKept DEF TypeOK, EventOf, CommandId
<1>3. TypeOK'
  BY <1>1, <1>2 DEF TypeOK
<1>4. Written' /\ DownIdle'
  BY <1>1 DEF Written, DownIdle
<1>5. Settled'
  BY <1>1 DEF Settled, DownIdle
<1>6. Recorded'
  BY <1>1 DEF Recorded, Sourced, Known, CommandId
<1>7. QED BY <1>3, <1>4, <1>5, <1>6

-----------------------------------------------------------------------------
LEMMA InitInductive == Init => IInv
<1> SUFFICES ASSUME Init PROVE IInv
  OBVIOUS
<1>1. QueueExact
  BY DEF Init, QueueExact
<1>2. TypeOK
  <2>1. queue \in Seq(Deliveries)
    BY EmptySeq DEF Init
  <2>2. /\ seen \in [Deliveries -> 0..MaxVersion] /\ version \in 0..MaxVersion
        /\ disturbances \in 0..MaxDisturbances /\ copies \in [Deliveries -> Nat]
    BY BoundsType DEF Init
  <2>3. /\ inbox \in [Deliveries -> Files] /\ receipt \in [Deliveries -> Files]
        /\ outcome \in [Deliveries -> Outcomes]
        /\ place \in [Deliveries -> {"none", "queued"} \cup Handling \cup Ended]
        /\ events = {} /\ listed = {} /\ stale = {} /\ edited = {}
        /\ up \in BOOLEAN /\ healthy \in BOOLEAN /\ ticking \in BOOLEAN
        /\ answering = Nobody /\ over = FALSE /\ fits = TRUE
    BY DEF Init, Files, Outcomes
  <2>4. QED BY <1>1, <2>1, <2>2, <2>3 DEF TypeOK
<1>3. Written /\ DownIdle /\ Settled /\ Recorded
  BY NobodyType DEF Init, Written, DownIdle, Settled, Recorded
<1>4. QED BY <1>2, <1>3 DEF IInv

LEMMA InductiveStep == IInv /\ [Next]_vars => IInv'
<1> SUFFICES ASSUME IInv, [Next]_vars PROVE IInv'
  OBVIOUS
<1>1. CASE \E d \in Deliveries : AcceptNew(d) \/ CommentEdited(d)
  BY <1>1, AcceptSteps, WorldSteps
<1>2. CASE \E d \in Deliveries : Handle(d) \/ Refuse(d)
  BY <1>2, BeginStep, CaptureStep, CommandStep, RejectStep, ReconcileStep, ReceiptStep,
     FailureSteps DEF Handle
<1>3. CASE AcceptSynced
  <2>1. \E d \in Deliveries : TRUE
    BY <1>3 DEF AcceptSynced, IInv, TypeOK
  <2>2. QED BY <1>3, <2>1, AcceptSteps
<1>4. CASE Fault
  BY <1>4, FaultStep
<1>5. CASE ListPending
  BY <1>5, ListStep
<1>6. CASE Snapshot
  BY <1>6, SnapshotStep
<1>7. CASE Pass
  BY <1>7, PassStep
<1>8. CASE Stop \/ Kill \/ PowerLoss
  BY <1>8, EndsStep
<1>9. CASE Restart
  BY <1>9, RestartStep
<1>10. CASE IssueMoves \/ OtherCommit
  BY <1>10, WorldSteps
<1>11. CASE UNCHANGED vars
  <2>1. UNCHANGED <<inbox, copies, receipt, outcome, events, over, up, healthy, answering, ticking,
                    listed, queue, place, stale, seen, version, edited, fits, disturbances>>
    BY <1>11 DEF vars, disk, process, world
  <2>2. QueueExact' /\ \A e \in events' : \E h \in Deliveries : EventOf(e, h)'
    BY <2>1, QueueKept DEF IInv, TypeOK, EventOf, CommandId
  <2>3. TypeOK'
    BY <2>1, <2>2 DEF IInv, TypeOK
  <2>4. Written' /\ DownIdle' /\ Settled' /\ Recorded'
    BY <2>1 DEF IInv, Written, DownIdle, Settled, Recorded, Sourced, Known, CommandId
  <2>5. QED BY <2>3, <2>4 DEF IInv
<1>12. QED
  BY <1>1, <1>2, <1>3, <1>4, <1>5, <1>6, <1>7, <1>8, <1>9, <1>10, <1>11 DEF Next

LEMMA Inductive == Spec => []IInv
<1>1. QED BY InitInductive, InductiveStep, PTL DEF Spec

(* Every state has its types: in particular the scheduler's queue lists    *)
(* exactly the deliveries it holds, each once, whatever is retried.         *)
THEOREM TypeCorrect == Spec => []TypeOK
<1>1. IInv => TypeOK
  BY DEF IInv
<1>2. QED BY <1>1, Inductive, PTL

(* A delivery with a receipt is not being processed, although the list of a *)
(* tick is older than its submissions.                                     *)
THEOREM ReceiptedNotProcessed == Spec => []ReceiptedIdle
<1>1. IInv => ReceiptedIdle
  BY DEF IInv, Settled, ReceiptedIdle, Handling
<1>2. QED BY <1>1, Inductive, PTL

(* A receipt says what the journal holds.                                  *)
THEOREM ReceiptsTrue == Spec => []ReceiptTrue
<1>1. IInv => ReceiptTrue
  BY DEF IInv, Recorded, Sourced, ReceiptTrue
<1>2. QED BY <1>1, Inductive, PTL

(* The journal holds the command of a delivery once, if at all.            *)
LEMMA AppliedAs ==
  ASSUME IInv, NEW d \in Deliveries
  PROVE  Applications(d) = IF Known(CommandId(d)) THEN {Event(CommandId(d), 0)} ELSE {}
<1>1. ASSUME NEW e \in Applications(d) PROVE e = Event(CommandId(d), 0)
  <2>1. PICK h \in Deliveries : EventOf(e, h)
    BY <1>1 DEF IInv, TypeOK, Applications
  <2>2. CASE e = Event(CommandId(h), 0)
    BY <1>1, <2>2 DEF Event, CommandId, Applications
  <2>3. CASE \E n \in 1..copies[h] : e = Event(<<"reconcile", h, n>>, 0)
    BY <1>1, <2>3 DEF Event, Applications
  <2>4. CASE \E n \in 1..copies[h] : \E v \in 0..MaxVersion : e = Event(<<"source", h, n>>, v)
    BY <1>1, <2>4 DEF Event, Applications
  <2>5. QED BY <2>1, <2>2, <2>3, <2>4 DEF EventOf
<1>2. ASSUME NEW e \in events, e.id = CommandId(d) PROVE e \in Applications(d)
  BY <1>2 DEF Applications, CommandId
<1>3. ASSUME NEW e \in Applications(d) PROVE Known(CommandId(d))
  BY <1>1, <1>3 DEF Known, Applications, Event
<1>4. CASE Known(CommandId(d))
  <2>1. PICK e \in events : e.id = CommandId(d)
    BY <1>4 DEF Known
  <2>2. e \in Applications(d)
    BY <1>2, <2>1
  <2>3. QED BY <1>1, <1>4, <2>2
<1>5. CASE ~Known(CommandId(d))
  BY <1>3, <1>5
<1>6. QED BY <1>4, <1>5

LEMMA AppliedCount ==
  ASSUME IInv, NEW d \in Deliveries
  PROVE  Cardinality(Applications(d)) = IF Known(CommandId(d)) THEN 1 ELSE 0
BY AppliedAs, FS_EmptySet, FS_Singleton

(* One command is applied once, however often its delivery is processed.   *)
THEOREM CommandsOnce == Spec => []CommandOnce
<1>1. IInv => CommandOnce
  BY AppliedCount DEF CommandOnce
<1>2. QED BY <1>1, Inductive, PTL

(* What is durable stays: no step takes a durable delivery or receipt, or   *)
(* changes what a durable receipt says.                                    *)
THEOREM NothingDurableLost == Spec => DurableKept
<1> DEFINE Stays == \A d \in Deliveries :
             /\ inbox[d] = "durable" => inbox'[d] = "durable"
             /\ receipt[d] = "durable" => receipt'[d] = "durable" /\ outcome'[d] = outcome[d]
<1>1. IInv /\ [Next]_vars => [Stays]_vars
  <2> SUFFICES ASSUME IInv, Next PROVE Stays
    BY DEF vars
  <2> USE DEF IInv
  <2>1. CASE \E d \in Deliveries : AcceptNew(d)
    BY <2>1 DEF AcceptNew, TypeOK, Stays
  <2>2. CASE \E d \in Deliveries : CommentEdited(d)
    BY <2>2 DEF CommentEdited, disk, Stays
  <2>3. CASE \E d \in Deliveries :
               \/ Begin(d) \/ CaptureSource(d) \/ HandleComment(d) \/ RejectComment(d)
               \/ Reconcile(d) \/ FindUnhealthy(d) \/ Refuse(d)
    <3>1. PICK d \in Deliveries :
               \/ Begin(d) \/ CaptureSource(d) \/ HandleComment(d) \/ RejectComment(d)
               \/ Reconcile(d) \/ FindUnhealthy(d) \/ Refuse(d)
      BY <2>3
    <3>2. place[d] \in Handling \ {"receipt", "syncing"} \/ place[d] = "receipt"
      BY <3>1 DEF Begin, CaptureSource, HandleComment, RejectComment, Reconcile,
                  FindUnhealthy, Refuse, At, Handling
    <3>3. receipt[d] # "durable"
      BY <3>2 DEF Settled, Handling
    <3>4. inbox' = inbox /\ receipt' = receipt
      BY <3>1 DEF Begin, CaptureSource, HandleComment, RejectComment, Reconcile,
                  FindUnhealthy, Refuse, HandlerOnly
    <3>5. \A h \in Deliveries \ {d} : outcome'[h] = outcome[h]
      BY <3>1 DEF Begin, CaptureSource, HandleComment, RejectComment, Reconcile,
                  FindUnhealthy, Refuse, Fails, TypeOK
    <3>6. QED BY <3>3, <3>4, <3>5
  <2>4. CASE \E d \in Deliveries : MarkProcessed(d) \/ SyncReceipt(d)
    <3>1. PICK d \in Deliveries : MarkProcessed(d) \/ SyncReceipt(d)
      BY <2>4
    <3>2. receipt[d] # "durable"
      BY <3>1 DEF MarkProcessed, SyncReceipt, At, Settled
    <3>3. /\ inbox' = inbox /\ outcome' = outcome
          /\ \A h \in Deliveries \ {d} : receipt'[h] = receipt[h]
      BY <3>1 DEF MarkProcessed, SyncReceipt, TypeOK
    <3>4. QED BY <3>2, <3>3
  <2>5. CASE AcceptSynced
    BY <2>5 DEF AcceptSynced, TypeOK
  <2>6. CASE Fault \/ ListPending \/ Snapshot \/ Restart \/ IssueMoves \/ OtherCommit
    BY <2>6 DEF Fault, ListPending, Snapshot, Restart, IssueMoves, OtherCommit, disk
  <2>7. CASE Pass
    BY <2>7 DEF Pass, disk
  <2>8. CASE Stop \/ Kill
    BY <2>8 DEF Stop, Kill, Ends, Files
  <2>9. CASE PowerLoss
    BY <2>9 DEF PowerLoss, Survivors, Ends
  <2>10. QED
    BY <2>1, <2>2, <2>3, <2>4, <2>5, <2>6, <2>7, <2>8, <2>9 DEF Next, Handle
<1>2. QED BY <1>1, Inductive, PTL DEF Spec, DurableKept
-----------------------------------------------------------------------------
(* What of the journal the inbox shows stays, when no event is added.      *)
LEMMA SourcedKept ==
  ASSUME IInv, UNCHANGED events, copies' \in [Deliveries -> Nat],
         \A h \in Deliveries : copies'[h] >= copies[h]
  PROVE  UNCHANGED <<OnRecord, Applied>>
<1>1. ASSUME NEW d \in Deliveries PROVE Sourced(d)' <=> Sourced(d)
  <2>1. Sourced(d) => Sourced(d)'
    BY Monotone DEF IInv, TypeOK
  <2>2. ASSUME Sourced(d)' PROVE Sourced(d)
    <3>1. PICK n \in 1..copies'[d] : \E e \in events : e.id = <<"source", d, n>>
      BY <2>2 DEF Sourced, Known
    <3>2. PICK e \in events : e.id = <<"source", d, n>>
      BY <3>1
    <3>3. PICK h \in Deliveries : EventOf(e, h)
      BY DEF IInv, TypeOK
    <3>4. h = d /\ n \in 1..copies[d]
      BY <3>2, <3>3 DEF EventOf, Event, CommandId
    <3>5. QED BY <3>2, <3>4 DEF Sourced, Known
  <2>3. QED BY <2>1, <2>2
<1>2. OnRecord' = OnRecord
  BY <1>1 DEF OnRecord
<1>3. \A d \in Deliveries : Applications(d)' = Applications(d)
  BY DEF Applications
<1>4. Applied' = Applied
  BY <1>3 DEF Applied
<1>5. QED BY <1>2, <1>4

(* A commit that is not of a command leaves what was applied.              *)
LEMMA AppliedKept ==
  ASSUME IInv, events \subseteq events',
         \A e \in events' \ events : e.id[1] # "comment"
  PROVE  UNCHANGED Applied
<1>1. \A d \in Deliveries : Applications(d)' = Applications(d)
  BY DEF Applications
<1>2. QED BY <1>1 DEF Applied

(* Only a source event puts a delivery on record.                          *)
LEMMA RecordKept ==
  ASSUME IInv, events \subseteq events', UNCHANGED copies,
         \A e \in events' \ events : e.id[1] # "source"
  PROVE  UNCHANGED OnRecord
<1>1. ASSUME NEW d \in Deliveries PROVE Sourced(d)' <=> Sourced(d)
  <2>1. Sourced(d) => Sourced(d)'
    BY DEF Sourced, Known
  <2>2. ASSUME Sourced(d)' PROVE Sourced(d)
    <3>1. PICK n \in 1..copies[d] : \E e \in events' : e.id = <<"source", d, n>>
      BY <2>2 DEF Sourced, Known
    <3>2. PICK e \in events' : e.id = <<"source", d, n>>
      BY <3>1
    <3>3. e \in events
      BY <3>2
    <3>4. QED BY <3>2, <3>3 DEF Sourced, Known
  <2>3. QED BY <2>1, <2>2
<1>2. QED BY <1>1 DEF OnRecord

(* A delivery that a handler works on is not receipted for good.           *)
LEMMA WorkedOpen ==
  ASSUME IInv, NEW d \in Deliveries, place[d] \in Handling
  PROVE  receipt[d] # "durable" /\ Receipts[d] = "none"
BY DEF IInv, Settled, Handling, Receipts

(* Receipts read the same when nothing durable appears or changes.         *)
LEMMA ReceiptsKept ==
  ASSUME \A d \in Deliveries :
           /\ receipt'[d] = "durable" <=> receipt[d] = "durable"
           /\ receipt[d] = "durable" => outcome'[d] = outcome[d]
  PROVE  UNCHANGED Receipts
BY DEF Receipts

(* A handler that has begun has found something, and one that reads works   *)
(* on a delivery that is not ignored.                                      *)
Found ==
  \A d \in Deliveries :
    /\ place[d] \in Handling \ {"begun"} => outcome[d] # "none"
    /\ place[d] \in Reading => Kind[d] # "ignored"

(* Nothing but a handler takes a delivery further than to its beginning.    *)
LEMMA FoundKept ==
  ASSUME Found,
         \A d \in Deliveries :
           place'[d] \in Handling \ {"begun"} => place'[d] = place[d] /\ outcome'[d] = outcome[d]
  PROVE  Found'
BY DEF Found, Handling, Reading

LEMMA FoundHandler ==
  ASSUME IInv, Found, NEW d \in Deliveries, NEW p, NEW o,
         place' = [place EXCEPT ![d] = p],
         outcome' = outcome \/ outcome' = [outcome EXCEPT ![d] = o],
         p \in Handling \ {"begun"} => outcome'[d] # "none",
         p \in Reading => Kind[d] # "ignored"
  PROVE  Found'
<1>1. \A h \in Deliveries : /\ place'[h] = IF h = d THEN p ELSE place[h]
                            /\ h # d => outcome'[h] = outcome[h]
  BY DEF IInv, TypeOK
<1>2. QED BY <1>1 DEF Found

LEMMA FoundStep == IInv /\ Found /\ [Next]_vars => Found'
<1> SUFFICES ASSUME IInv, Found, [Next]_vars PROVE Found'
  OBVIOUS
<1>1. ASSUME NEW d \in Deliveries, Begin(d) PROVE Found'
  <2>1. /\ place' = [place EXCEPT ![d] = IF Kind[d] = "ignored" THEN "receipt" ELSE "source"]
        /\ outcome' = [outcome EXCEPT ![d] = "observed"]
    BY <1>1 DEF Begin, Goto
  <2>2. outcome'[d] # "none"
    BY <2>1 DEF IInv, TypeOK
  <2>3. QED BY <2>1, <2>2, FoundHandler DEF Reading
<1>2. ASSUME NEW d \in Deliveries, NEW p \in {"command", "reconcile", "receipt"}, Goto(d, p),
             place[d] \in Reading,
             outcome' = outcome \/ (\E o \in {"applied", "rejected", "refused"} : outcome' = [outcome EXCEPT ![d] = o])
      PROVE  Found'
  <2>1. place' = [place EXCEPT ![d] = p] /\ Kind[d] # "ignored" /\ outcome[d] # "none"
    BY <1>2 DEF Goto, Found, Reading, Handling
  <2>2. PICK o \in {"applied", "rejected", "refused"} : outcome' = outcome \/ outcome' = [outcome EXCEPT ![d] = o]
    BY <1>2
  <2>3. outcome'[d] # "none"
    BY <2>1, <2>2 DEF IInv, TypeOK, Outcomes
  <2>4. QED BY <2>1, <2>2, <2>3, FoundHandler
<1>3. ASSUME NEW d \in Deliveries, Fails(d) PROVE Found'
  <2>1. place' = [place EXCEPT ![d] = "raised"]
        /\ (outcome' = outcome \/ outcome' = [outcome EXCEPT ![d] = "none"])
    BY <1>3 DEF Fails, Goto
  <2>2. QED BY <2>1, FoundHandler DEF Handling, Reading
<1>4. ASSUME NEW d \in Deliveries, MarkProcessed(d) \/ SyncReceipt(d) PROVE Found'
  <2>1. PICK p \in {"syncing", "returned"} : place' = [place EXCEPT ![d] = p]
    BY <1>4 DEF MarkProcessed, SyncReceipt, Goto
  <2>2. outcome' = outcome /\ outcome[d] # "none"
    BY <1>4 DEF MarkProcessed, SyncReceipt, At, Found, Handling
  <2>3. QED BY <2>1, <2>2, FoundHandler DEF Reading
<1>5. ASSUME NEW d \in Deliveries, AcceptNew(d) \/ CommentEdited(d) PROVE Found'
  BY <1>5, FoundKept DEF AcceptNew, CommentEdited, disk, process
<1>6. CASE AcceptSynced \/ ListPending \/ Restart \/ IssueMoves \/ OtherCommit \/ UNCHANGED vars
  BY <1>6, FoundKept DEF AcceptSynced, ListPending, Restart, IssueMoves, OtherCommit, disk,
                         process, vars
<1>7. CASE Fault
  BY <1>7, FoundKept DEF Fault, disk, Handling
<1>8. CASE Snapshot
  BY <1>8, FoundKept DEF Snapshot, disk, Handling
<1>9. CASE Pass
  <2>1. /\ \A d \in Deliveries : place'[d] \in {"begun", "queued", "none", place[d]}
        /\ outcome' = outcome
    BY <1>9 DEF Pass, disk
  <2>2. QED BY <2>1, FoundKept DEF Handling
<1>10. CASE Stop \/ Kill \/ PowerLoss
  <2>1. \A d \in Deliveries : place'[d] = "none"
    BY <1>10 DEF Stop, Kill, PowerLoss, Ends
  <2>2. QED BY <2>1, FoundKept DEF Handling
<1>11. ASSUME NEW d \in Deliveries, CaptureSource(d) PROVE Found'
  BY <1>2, <1>3, <1>11 DEF CaptureSource, AfterSource, At, Reading
<1>12. ASSUME NEW d \in Deliveries, HandleComment(d) PROVE Found'
  BY <1>2, <1>3, <1>12 DEF HandleComment, At, Reading
<1>13. ASSUME NEW d \in Deliveries, RejectComment(d) \/ Reconcile(d) PROVE Found'
  BY <1>2, <1>3, <1>13 DEF RejectComment, Reconcile, At, Reading
<1>14. ASSUME NEW d \in Deliveries, Refuse(d) \/ FindUnhealthy(d) PROVE Found'
  BY <1>3, <1>14 DEF Refuse, FindUnhealthy
<1>15. QED
  BY <1>1, <1>4, <1>5, <1>6, <1>7, <1>8, <1>9, <1>10, <1>11, <1>12, <1>13, <1>14
     DEF Next, Handle

LEMMA FoundAlways == Spec => []Found
<1>1. Init => Found
  BY DEF Init, Found, Handling, Reading
<1>2. QED BY <1>1, Inductive, FoundStep, PTL DEF Spec

-----------------------------------------------------------------------------
(* Each step is one of the abstract inbox, or shows nothing there.         *)
Mapped == <<Kept, OnRecord, over, Applied, Receipts>>

(* What a handler does before the sync of its receipt shows only by the     *)
(* events it commits.                                                      *)
LEMMA HandlerShows ==
  ASSUME IInv, NEW d \in Deliveries, place[d] \in Handling,
         UNCHANGED <<inbox, receipt>>,
         outcome' = outcome \/ (\E o : outcome' = [outcome EXCEPT ![d] = o])
  PROVE  UNCHANGED <<Kept, Receipts>>
<1>1. receipt[d] # "durable"
  BY WorkedOpen
<1>2. \A h \in Deliveries \ {d} : outcome'[h] = outcome[h]
  BY DEF IInv, TypeOK
<1>3. QED BY <1>1, <1>2, ReceiptsKept DEF Kept

LEMMA Unshown ==
  ASSUME IInv, NEW d \in Deliveries, place[d] \in Handling,
         UNCHANGED <<inbox, receipt, copies, events, over>>,
         outcome' = outcome \/ (\E o : outcome' = [outcome EXCEPT ![d] = o])
  PROVE  UNCHANGED Mapped
<1>1. copies' \in [Deliveries -> Nat] /\ \A h \in Deliveries : copies'[h] >= copies[h]
  BY DEF IInv, TypeOK
<1>2. QED BY <1>1, HandlerShows, SourcedKept DEF Mapped

LEMMA FailsUnshown ==
  ASSUME IInv, NEW d \in Deliveries, place[d] \in Handling, Fails(d),
         UNCHANGED <<inbox, receipt, copies>>
  PROVE  UNCHANGED Mapped
BY Unshown DEF Fails

(* capture_source puts the delivery on record.                             *)
LEMMA CaptureServes ==
  ASSUME IInv, NEW d \in Deliveries, CaptureSource(d)
  PROVE  [Served!Next]_Mapped
<1>1. /\ place[d] \in Handling /\ place[d] = "source"
      /\ UNCHANGED <<inbox, receipt, copies>>
  BY DEF CaptureSource, At, HandlerOnly, Handling
<1>2. CASE Fails(d)
  BY <1>1, <1>2, FailsUnshown
<1>3. CASE Commit(d, SourceId(d), seen[d]) /\ UNCHANGED outcome
  <2> DEFINE e == Event(SourceId(d), seen[d])
  <2>1. /\ events' = events \/ events' = events \cup {e}
        /\ (events' = events /\ over' = over) \/ (~over /\ over' \in BOOLEAN)
    BY <1>3 DEF Commit, Duplicate, Extend
  <2>2. e \in events'
    BY <1>3, CommitEffect
  <2>3. e.id = <<"source", d, copies[d]>> /\ e.id[1] = "source"
    BY DEF Event, SourceId
  <2>4. copies[d] \in 1..copies[d]
    BY <1>1 DEF IInv, TypeOK, Written
  <2> HIDE DEF e
  <2>5. UNCHANGED <<Kept, Receipts>>
    BY <1>1, <1>3, HandlerShows
  <2>6. UNCHANGED Applied
    BY <2>1, <2>3, AppliedKept
  <2>7. OnRecord' = OnRecord \cup {d}
    <3>1. Sourced(d)'
      BY <1>1, <2>2, <2>3, <2>4 DEF Sourced, Known
    <3>2. ASSUME NEW h \in Deliveries, h # d PROVE Sourced(h)' <=> Sourced(h)
      BY <1>1, <2>1, <2>3, <3>2 DEF Sourced, Known
    <3>3. QED BY <3>1, <3>2 DEF OnRecord
  <2>8. Receipts[d] = "none"
    BY <1>1, WorkedOpen
  <2>9. ~over /\ over' \in BOOLEAN => Served!Record(d)
    BY <2>5, <2>6, <2>7, <2>8 DEF Served!Record, Served!Open
  <2>10. CASE events' = events /\ over' = over
    BY <1>1, <1>3, <2>10, Unshown
  <2>11. QED BY <2>1, <2>9, <2>10 DEF Served!Next
<1>4. CASE UNCHANGED <<events, over>> /\ outcome' = [outcome EXCEPT ![d] = "refused"]
  BY <1>1, <1>4, Unshown
<1>5. QED BY <1>2, <1>3, <1>4 DEF CaptureSource

(* handle_comment applies the command, with its source on record.          *)
LEMMA CommandServes ==
  ASSUME IInv, Found, NEW d \in Deliveries, HandleComment(d)
  PROVE  [Served!Next]_Mapped
<1>1. /\ place[d] \in Handling /\ place[d] = "command"
      /\ UNCHANGED <<inbox, receipt, copies>>
  BY DEF HandleComment, At, HandlerOnly, Handling
<1>2. CASE Fails(d)
  BY <1>1, <1>2, FailsUnshown
<1>3. CASE events' = events /\ over' = over /\ \E o : outcome' = [outcome EXCEPT ![d] = o]
  BY <1>1, <1>3, Unshown
<1>4. CASE Extend(d, CommandId(d), 0) /\ outcome' = [outcome EXCEPT ![d] = "applied"]
  <2> DEFINE e == Event(CommandId(d), 0)
  <2>1. /\ events' = events \cup {e} /\ ~Known(CommandId(d))
        /\ ~over /\ over' \in BOOLEAN
    BY <1>4 DEF Extend, New
  <2>2. e.id = <<"comment", d>>
    BY DEF Event, CommandId
  <2>3. e.id[1] = "comment" /\ e.id[2] = d
    BY <2>2
  <2> HIDE DEF e
  <2>4. UNCHANGED <<Kept, Receipts>>
    BY <1>1, <1>4, HandlerShows
  <2>5. UNCHANGED OnRecord
    BY <1>1, <2>1, <2>3, RecordKept
  <2>6. Applications(d) = {}
    BY <2>1, AppliedAs
  <2>7. Applications(d)' = {e}
    BY <2>1, <2>3, <2>6 DEF Applications
  <2>8. \A h \in Deliveries : h # d => Applications(h)' = Applications(h)
    BY <2>1, <2>3 DEF Applications
  <2>9. Cardinality(Applications(d)) = 0 /\ Cardinality(Applications(d)') = 1
    BY <2>6, <2>7, FS_EmptySet, FS_Singleton
  <2>10. Applied[d] = 0 /\ Applied' = [Applied EXCEPT ![d] = 1]
    BY <2>8, <2>9 DEF Applied
  <2>11. d \in OnRecord
    BY <1>1 DEF Found, Reading, IInv, Recorded, OnRecord
  <2>12. Receipts[d] = "none"
    BY <1>1, WorkedOpen
  <2>13. Served!Apply(d)
    BY <2>1, <2>4, <2>5, <2>10, <2>11, <2>12 DEF Served!Apply, Served!Open
  <2>14. QED BY <2>13 DEF Served!Next
<1>5. QED BY <1>2, <1>3, <1>4 DEF HandleComment, Commit, Duplicate

(* A reconciliation shows nothing: its event is neither source nor command. *)
LEMMA ReconcileServes ==
  ASSUME IInv, NEW d \in Deliveries, Reconcile(d)
  PROVE  UNCHANGED Mapped
<1>1. /\ place[d] \in Handling /\ UNCHANGED <<inbox, receipt, copies>>
  BY DEF Reconcile, At, HandlerOnly, Handling
<1>2. CASE Fails(d)
  BY <1>1, <1>2, FailsUnshown
<1>3. CASE UNCHANGED <<events, over, outcome>>
  BY <1>1, <1>3, Unshown
<1>4. CASE Extend(d, ReconcileId(d), 0) /\ UNCHANGED <<over, outcome>>
  <2>1. events' = events \cup {Event(ReconcileId(d), 0)}
    BY <1>4 DEF Extend
  <2>2. Event(ReconcileId(d), 0).id[1] = "reconcile"
    BY DEF Event, ReconcileId
  <2>3. UNCHANGED <<Kept, Receipts>>
    BY <1>1, <1>4, HandlerShows
  <2>4. UNCHANGED <<OnRecord, Applied>>
    BY <1>1, <2>1, <2>2, RecordKept, AppliedKept
  <2>5. QED BY <1>4, <2>3, <2>4 DEF Mapped
<1>5. QED BY <1>2, <1>3, <1>4 DEF Reconcile, Commit, Duplicate

(* The sync of a receipt closes the delivery with what was found.          *)
LEMMA ReceiptServes ==
  ASSUME IInv, Found, NEW d \in Deliveries, SyncReceipt(d)
  PROVE  [Served!Next]_Mapped
<1>1. /\ place[d] = "syncing" /\ place[d] \in Handling \ {"begun"}
      /\ receipt' = [receipt EXCEPT ![d] = "durable"]
      /\ UNCHANGED <<inbox, copies, outcome, events, over>>
  BY DEF SyncReceipt, At, Handling
<1>2. copies' \in [Deliveries -> Nat] /\ \A h \in Deliveries : copies'[h] >= copies[h]
  BY <1>1 DEF IInv, TypeOK
<1>3. UNCHANGED <<Kept, OnRecord, Applied>>
  BY <1>1, <1>2, SourcedKept DEF Kept
<1>4. Receipts[d] = "none" /\ receipt[d] # "durable"
  BY <1>1, WorkedOpen
<1>5. Receipts' = [Receipts EXCEPT ![d] = outcome[d]]
  BY <1>1, <1>4 DEF Receipts, IInv, TypeOK
<1>6. outcome[d] \in {"applied", "rejected", "observed", "refused"}
  BY <1>1 DEF Found, IInv, TypeOK, Outcomes
<1>7. IF outcome[d] = "refused" THEN over
      ELSE d \in OnRecord \cup {h \in Deliveries : Kind[h] = "ignored"}
  BY <1>1 DEF IInv, Recorded, OnRecord
<1>8. outcome[d] = "applied" => Applied[d] = 1
  BY AppliedCount DEF IInv, Recorded, Applied
<1>9. Served!Close(d, outcome[d])
  BY <1>1, <1>3, <1>4, <1>5, <1>7, <1>8 DEF Served!Close, Served!Open
<1>10. QED BY <1>6, <1>9 DEF Served!Next

(* Steps outside the handlers that keep what is durable.                   *)
LEMMA OutsideServes ==
  ASSUME IInv, UNCHANGED <<events, over>>, copies' \in [Deliveries -> Nat],
         \A d \in Deliveries :
           /\ copies'[d] >= copies[d]
           /\ inbox'[d] = "durable" <=> inbox[d] = "durable"
           /\ receipt'[d] = "durable" <=> receipt[d] = "durable"
           /\ receipt[d] = "durable" => outcome'[d] = outcome[d]
  PROVE  UNCHANGED Mapped
BY SourcedKept, ReceiptsKept DEF Kept, Mapped

(* What survives a power loss is an inbox in which a kept delivery stays    *)
(* and is worked on until it has one true receipt, and not after.           *)
THEOREM ImplementsInbox == Spec => ServesInbox
<1>1. Init => Served!Init
  <2> SUFFICES ASSUME Init PROVE Served!Init
    OBVIOUS
  <2>1. Kept = {} /\ OnRecord = {} /\ over = FALSE /\ Receipts = [d \in Deliveries |-> "none"]
    BY DEF Init, Kept, OnRecord, Sourced, Known, Receipts
  <2>2. \A d \in Deliveries : Cardinality(Applications(d)) = 0
    BY FS_EmptySet DEF Init, Applications
  <2>3. QED BY <2>1, <2>2 DEF Served!Init, Applied
<1>2. IInv /\ Found /\ [Next]_vars => [Served!Next]_Mapped
  <2> SUFFICES ASSUME IInv, Found, [Next]_vars PROVE [Served!Next]_Mapped
    OBVIOUS
  <2>0. copies \in [Deliveries -> Nat] /\ \A d \in Deliveries : copies[d] >= copies[d]
    BY DEF IInv, TypeOK
  <2>1. ASSUME NEW d \in Deliveries, AcceptNew(d) PROVE UNCHANGED Mapped
    <3>1. /\ copies' = [copies EXCEPT ![d] = @ + 1] /\ inbox' = [inbox EXCEPT ![d] = "visible"]
          /\ inbox[d] = "absent" /\ UNCHANGED <<receipt, outcome, events, over>>
      BY <2>1 DEF AcceptNew
    <3>2. /\ copies' \in [Deliveries -> Nat] /\ \A h \in Deliveries : copies'[h] >= copies[h]
          /\ \A h \in Deliveries : inbox'[h] = "durable" <=> inbox[h] = "durable"
      BY <2>0, <3>1 DEF IInv, TypeOK
    <3>3. QED BY <3>1, <3>2, OutsideServes
  <2>2. CASE AcceptSynced
    <3>1. /\ answering \in Deliveries /\ inbox' = [inbox EXCEPT ![answering] = "durable"]
          /\ UNCHANGED <<copies, receipt, outcome, events, over>>
      BY <2>2 DEF AcceptSynced, IInv, TypeOK
    <3>2. UNCHANGED <<OnRecord, Applied, Receipts>>
      BY <2>0, <3>1, SourcedKept, ReceiptsKept
    <3>3. Kept' = Kept \cup {answering}
      BY <3>1 DEF Kept, IInv, TypeOK
    <3>4. answering \notin Kept => Served!Keep(answering)
      BY <3>1, <3>2, <3>3 DEF Served!Keep
    <3>5. answering \in Kept => UNCHANGED Mapped
      BY <3>1, <3>2, <3>3 DEF Mapped
    <3>6. QED BY <3>1, <3>4, <3>5 DEF Served!Next
  <2>3. ASSUME NEW d \in Deliveries, CommentEdited(d) PROVE UNCHANGED Mapped
    BY <2>0, <2>3, OutsideServes DEF CommentEdited, disk
  <2>4. CASE Fault \/ ListPending \/ Snapshot \/ Restart \/ IssueMoves \/ OtherCommit
    BY <2>0, <2>4, OutsideServes DEF Fault, ListPending, Snapshot, Restart, IssueMoves,
                                     OtherCommit, disk
  <2>5. CASE Pass \/ UNCHANGED vars
    BY <2>0, <2>5, OutsideServes DEF Pass, disk, vars
  <2>6. CASE Stop \/ Kill
    <3>1. /\ UNCHANGED <<inbox, receipt, copies, events, over>>
          /\ \A d \in Deliveries : receipt[d] # "absent" => outcome'[d] = outcome[d]
      BY <2>6 DEF Stop, Kill, Ends
    <3>2. QED BY <2>0, <3>1, OutsideServes
  <2>7. CASE PowerLoss
    <3>1. /\ UNCHANGED <<copies, events, over>>
          /\ \A d \in Deliveries : receipt'[d] # "absent" => outcome'[d] = outcome[d]
          /\ inbox' \in Survivors(inbox) /\ receipt' \in Survivors(receipt)
      BY <2>7 DEF PowerLoss, Ends
    <3>2. \A d \in Deliveries :
             /\ inbox'[d] = "durable" <=> inbox[d] = "durable"
             /\ receipt'[d] = "durable" <=> receipt[d] = "durable"
      BY <3>1 DEF Survivors
    <3>3. QED BY <2>0, <3>1, <3>2, OutsideServes
  <2>8. ASSUME NEW d \in Deliveries, Begin(d) PROVE UNCHANGED Mapped
    BY <2>8, Unshown DEF Begin, At, HandlerOnly, Handling
  <2>9. ASSUME NEW d \in Deliveries, RejectComment(d) PROVE UNCHANGED Mapped
    BY <2>9, Unshown DEF RejectComment, At, HandlerOnly, Handling
  <2>10. ASSUME NEW d \in Deliveries, Refuse(d) \/ FindUnhealthy(d) PROVE UNCHANGED Mapped
    BY <2>10, FailsUnshown DEF Refuse, FindUnhealthy, HandlerOnly
  <2>11. ASSUME NEW d \in Deliveries, MarkProcessed(d) PROVE UNCHANGED Mapped
    <3>1. /\ place[d] \in Handling /\ receipt' = [receipt EXCEPT ![d] = "visible"]
          /\ UNCHANGED <<inbox, copies, outcome, events, over>>
      BY <2>11 DEF MarkProcessed, At, Handling
    <3>2. receipt[d] # "durable"
      BY <3>1, WorkedOpen
    <3>3. \A h \in Deliveries : receipt'[h] = "durable" <=> receipt[h] = "durable"
      BY <3>1, <3>2 DEF IInv, TypeOK
    <3>4. QED BY <2>0, <3>1, <3>3, OutsideServes
  <2>12. QED
    BY <2>1, <2>2, <2>3, <2>4, <2>5, <2>6, <2>7, <2>8, <2>9, <2>10, <2>11, CaptureServes,
       CommandServes, ReconcileServes, ReceiptServes DEF Next, Handle
<1>3. QED
  BY <1>1, <1>2, Inductive, FoundAlways, PTL DEF Spec, ServesInbox, Served!Spec, Served!vars, Mapped
=============================================================================
