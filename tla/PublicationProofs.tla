-------------------------- MODULE PublicationProofs --------------------------
(***************************************************************************)
(* What holds of the publisher for any contents of the workspace and any   *)
(* number of decisions, changes by others and faults.                      *)
(***************************************************************************)
EXTENDS Publication, TLAPS

Stages == {"none", "candidate_pending", "candidate_confirmed", "push_pending", "push_confirmed",
           "pr_pending", "pr_confirmed", "check_pending", "complete"}

(* The order of the stages.                                                 *)
LEMMA Ranks ==
  /\ DOMAIN Rank = Stages
  /\ Rank["none"] = 0 /\ Rank["candidate_pending"] = 1 /\ Rank["candidate_confirmed"] = 2
  /\ Rank["push_pending"] = 3 /\ Rank["push_confirmed"] = 4 /\ Rank["pr_pending"] = 5
  /\ Rank["pr_confirmed"] = 6 /\ Rank["check_pending"] = 7 /\ Rank["complete"] = 8
  /\ \A s \in Stages : Rank[s] \in Nat
BY DEF Rank, Stages

(* The fields of the record.                                                *)
LEMMA PubFields ==
  ASSUME NEW p \in PubType
  PROVE  /\ p.stage \in Stages /\ p.status \in {"none", "running", "blocked", "published"}
         /\ p.basis \in BasisType /\ p.candidate \in Digests \cup {"none"}
         /\ p.checked \in BOOLEAN /\ p.invalidated \in BOOLEAN
         /\ p.invalidation \in {"none", "pending", "confirmed"}
BY Ranks DEF PubType

(* The record at another stage.                                             *)
LEMMA AtFields ==
  ASSUME pub \in PubType, NEW s \in Stages
  PROVE  /\ At(s) \in PubType
         /\ At(s).stage = s /\ At(s).status = pub.status
         /\ At(s).invalidated = pub.invalidated /\ At(s).invalidation = pub.invalidation
BY Ranks DEF PubType, At

(* The record with its candidate.                                           *)
LEMMA CandidateFields ==
  ASSUME pub \in PubType, plan.digest \in Digests
  PROVE  /\ Candidate \in PubType
         /\ Candidate.stage = "candidate_confirmed" /\ Candidate.status = pub.status
         /\ Candidate.invalidated = pub.invalidated /\ Candidate.invalidation = pub.invalidation
BY Ranks DEF PubType, Candidate, Stages

(* No record, and the first one.                                            *)
LEMMA FirstFields ==
  ASSUME NEW b \in BasisType
  PROVE  LET p == [NoPub EXCEPT !.stage = "candidate_pending", !.status = "running", !.basis = b] IN
           /\ NoPub \in PubType /\ NoPub.stage = "none" /\ NoPub.status = "none"
           /\ ~NoPub.invalidated /\ NoPub.invalidation = "none"
           /\ p \in PubType /\ p.stage = "candidate_pending" /\ p.status = "running"
           /\ ~p.invalidated /\ p.invalidation = "none"
BY Ranks DEF PubType, NoPub, Stages, BasisType

(* The record of a complete publication.                                    *)
LEMMA CompleteFields ==
  ASSUME pub \in PubType
  PROVE  LET p == [pub EXCEPT !.stage = "complete", !.status = "published", !.checked = TRUE] IN
           /\ p \in PubType /\ p.stage = "complete" /\ p.status = "published"
           /\ p.invalidated = pub.invalidated /\ p.invalidation = pub.invalidation
BY Ranks DEF PubType, Stages

(* A record that is blocked.                                                *)
LEMMA BlockFields ==
  ASSUME pub \in PubType, NEW b \in BOOLEAN
  PROVE  LET p == [pub EXCEPT !.status = "blocked", !.invalidated = pub.invalidated \/ b] IN
           /\ p \in PubType /\ p.stage = pub.stage /\ p.status = "blocked"
           /\ p.invalidation = pub.invalidation
BY DEF PubType

(* A record with its check, and a withdrawal that goes on.                  *)
LEMMA WithdrawFields ==
  ASSUME pub \in PubType, NEW i \in {"none", "pending", "confirmed"}
  PROVE  /\ LET p == [pub EXCEPT !.checked = TRUE] IN
              /\ p \in PubType /\ p.stage = pub.stage /\ p.status = pub.status
              /\ p.invalidated = pub.invalidated /\ p.invalidation = pub.invalidation
         /\ LET p == [pub EXCEPT !.invalidation = i] IN
              /\ p \in PubType /\ p.stage = pub.stage /\ p.status = pub.status
              /\ p.invalidated = pub.invalidated /\ p.invalidation = i
BY DEF PubType

(* What others and GitHub make of the repository.                           *)
LEMMA RemoteFields ==
  ASSUME NEW r \in RemoteType
  PROVE  /\ r.base \in {"same", "moved"} /\ r.head \in {"none", "candidate", "foreign"}
         /\ r.pull \in {"none", "ours", "edited", "closed", "foreign"}
         /\ r.check \in {"none", "success", "required"}
BY DEF RemoteType

(* The base moves.                                                          *)
LEMMA BaseMoves ==
  ASSUME NEW r \in RemoteType, NEW b \in {"same", "moved"}, NEW q, q = [r EXCEPT !.base = b]
  PROVE  q \in RemoteType /\ q.base = b /\ q.head = r.head /\ q.pull = r.pull /\ q.check = r.check
BY DEF RemoteType

(* The branch moves.                                                        *)
LEMMA HeadMoves ==
  ASSUME NEW r \in RemoteType, NEW h \in {"none", "candidate", "foreign"}, NEW q,
         q = [r EXCEPT !.head = h]
  PROVE  q \in RemoteType /\ q.base = r.base /\ q.head = h /\ q.pull = r.pull /\ q.check = r.check
BY DEF RemoteType

(* The pull request changes.                                                *)
LEMMA PullMoves ==
  ASSUME NEW r \in RemoteType, NEW p \in {"none", "ours", "edited", "closed", "foreign"}, NEW q,
         q = [r EXCEPT !.pull = p]
  PROVE  q \in RemoteType /\ q.base = r.base /\ q.head = r.head /\ q.pull = p /\ q.check = r.check
BY DEF RemoteType

(* The check changes.                                                       *)
LEMMA CheckMoves ==
  ASSUME NEW r \in RemoteType, NEW c \in {"none", "success", "required"}, NEW q,
         q = [r EXCEPT !.check = c]
  PROVE  q \in RemoteType /\ q.base = r.base /\ q.head = r.head /\ q.pull = r.pull /\ q.check = c
BY DEF RemoteType

(* The fields of the task, and what people, the agent and the publisher     *)
(* make of it.                                                              *)
LEMMA TaskFields ==
  ASSUME task \in TaskType
  PROVE  /\ task.standing \in Standing /\ task.verified \in Digests
         /\ task.epoch \in Nat /\ task.grant \in Nat
         /\ [task EXCEPT !.agent = "rework"] \in TaskType
BY DEF TaskType

(* A decision of people, and an invalidation.                               *)
LEMMA TaskUpdates ==
  ASSUME task \in TaskType, NEW n \in Nat, NEW b \in BOOLEAN
  PROVE  /\ [task EXCEPT !.paused = b] \in TaskType
         /\ \A x \in Standing : [task EXCEPT !.standing = x] \in TaskType
         /\ [task EXCEPT !.paused = b, !.epoch = n] \in TaskType
         /\ [task EXCEPT !.granted = b, !.epoch = n] \in TaskType
         /\ \A x \in Standing : [task EXCEPT !.granted = b, !.grant = n, !.standing = x] \in TaskType
         /\ [task EXCEPT !.granted = b, !.epoch = n, !.agent = "blocked"] \in TaskType
BY DEF TaskType

(* The agent is ready with what it verified.                                *)
LEMMA ReadyUpdate ==
  ASSUME task \in TaskType, NEW d \in Digests
  PROVE  [task EXCEPT !.agent = "ready", !.verified = d] \in TaskType
BY DEF TaskType

-----------------------------------------------------------------------------
(* The invariant.                                                           *)

(* A request that was sent, and is not on its way any more.                 *)
Landed(effect) == made[effect] = 1 /\ effect \notin flight

(* What is seen on GitHub as ours was sent, and has arrived.                *)
Shown ==
  /\ remote.head = "candidate" => Landed("push")
  /\ remote.pull \in {"ours", "edited", "closed"} => Landed("pull")
  /\ remote.check # "none" => Landed("check")

(* What the record calls confirmed was seen.                                *)
Confirmed ==
  /\ Rank[pub.stage] >= 4 => Landed("push") /\ remote.head # "none"
  /\ Rank[pub.stage] >= 6 => Landed("pull") /\ remote.pull # "none"
  /\ pub.status = "published" =>
       ~pub.invalidated /\ Rank[pub.stage] >= 7 /\ remote.check # "none"

Flying == \A e \in flight : made[e] = 1

Recorded == Shown /\ Confirmed /\ Flying /\ IntentFirst /\ EffectOnce

(* What the publisher knows at a place.                                     *)
Publishing == (Reading \ {"begin"}) \cup {"pr_send", "check_send"}
Knows ==
  /\ pub.stage = "none" => pub = NoPub
  /\ pc = "failed" => pub # NoPub
  /\ pc = "first" => pub = NoPub
  /\ pc = "build" => pub.stage = "candidate_pending"
  /\ pc \in {"gate", "remote"} => Rank[pub.stage] >= 2
  /\ pc \in {"push_gate", "push"} => pub.stage = "push_pending" /\ made["push"] = 0
  /\ pc \in {"pr_gate", "pr_remote"} => pub.stage = "push_confirmed"
  /\ pc \in {"pr_gate2", "pr_send"} => pub.stage = "pr_pending" /\ made["pull"] = 0
  /\ pc \in {"check_gate", "check_remote", "check_pull"} => pub.stage = "pr_confirmed"
  /\ pc \in {"check_absent", "check_gate2", "check_send"} =>
       pub.stage = "check_pending" /\ made["check"] = 0
  /\ pc \in {"fin_gate", "fin_remote", "fin_pull"} => remote.check # "none"
  /\ pc = "patch_send" => pub.invalidation # "none" /\ made["patch"] = 0
  /\ pc = "sent" => made[answer.to] = 1
  /\ pc \in Publishing \cup {"begin"} => ~pub.invalidated
  /\ pc = "sent" /\ answer.to # "patch" => ~pub.invalidated

(* Between two requests the gate was asked.                                 *)
Asked == late <= 1 /\ (pc \in {"push", "pr_send", "check_send"} => late = 0)

IInv == TypeOK /\ Recorded /\ Knows /\ Asked

-----------------------------------------------------------------------------
(* The types.                                                               *)

(* The first state has the types.                                           *)
LEMMA TypeInit == Init => TypeOK
BY Ranks DEF Init, TypeOK, TaskType, Standing, PubType, RemoteType, NoPub, BasisType, Steps, Reading, Sending, Effects,
  Basis, Stages

(* Looking keeps the types of what it does not touch.                       *)
LEMMA TypeLooks ==
  ASSUME TypeOK, Observing, pub' \in PubType, pc' \in Steps, code' \in {"none", "invalid", "other"},
         plan' \in [basis : BasisType, digest : Digests], late' \in Nat
  PROVE  TypeOK'
BY DEF TypeOK, Observing

(* Going on with a record, or raising, keeps them.                          *)
LEMMA TypeProceeds ==
  ASSUME TypeOK, NEW v \in {"pass", "invalid", "other"}, NEW p \in Steps, NEW r \in PubType,
         Proceed(v, p, r)
  PROVE  pc' \in Steps /\ code' \in {"none", "invalid", "other"} /\ pub' \in PubType
BY DEF TypeOK, Proceed, Raise, Steps

(* The gate passes, invalidates or refuses.                                 *)
LEMMA GateVerdict == Gate \in {"pass", "invalid", "other"}
BY DEF Gate

(* Sending keeps them.                                                      *)
LEMMA TypeSends ==
  ASSUME TypeOK, NEW e \in Effects, Send(e), late' \in Nat
  PROVE  TypeOK'
BY DEF TypeOK, Send, Steps

(* What others do keeps the types.                                          *)
LEMMA TypeOthers ==
  ASSUME TypeOK, Others, late' \in Nat
  PROVE  TypeOK'
<1> USE DEF durable
<1>1. spent \in [people : Nat, outside : Nat, faults : Nat] /\ task \in TaskType /\ files \in Digests
      /\ remote \in RemoteType
  BY DEF TypeOK
<1>2. /\ Person => spent' \in [people : Nat, outside : Nat, faults : Nat]
      /\ Outside => spent' \in [people : Nat, outside : Nat, faults : Nat]
  BY <1>1 DEF Person, Outside
<1>3. task.epoch + 1 \in Nat /\ task.grant + 1 \in Nat
  BY <1>1, TaskFields
<1>4. ASSUME NEW t \in TaskType, Decide(t) PROVE TypeOK'
  BY <1>2, <1>4 DEF Decide, TypeOK
<1>a. CASE Stop \/ Resume \/ Amend
  BY <1>1, <1>3, <1>4, <1>a, TaskFields, TaskUpdates DEF Stop, Resume, Amend
<1>b. CASE Approve
  <2>1. (IF task.standing = "edited" THEN "yes" ELSE task.standing) \in Standing
    BY <1>1, TaskFields DEF Standing
  <2>2. [task EXCEPT !.granted = TRUE, !.grant = task.grant + 1,
                     !.standing = IF @ = "edited" THEN "yes" ELSE @] \in TaskType
    BY <1>1, <1>3, <2>1, TaskUpdates
  <2>3. QED BY <1>4, <1>b, <2>2 DEF Approve
<1>c. CASE Stand \/ Edit
  <2>1. (IF task.standing = "no" THEN "yes" ELSE "no") \in Standing /\ "edited" \in Standing
    BY DEF Standing
  <2>2. QED BY <1>1, <1>3, <1>4, <1>c, <2>1, TaskUpdates DEF Stand, Edit
<1>5. CASE Stop \/ Resume \/ Amend \/ Approve \/ Stand \/ Edit
  BY <1>5, <1>a, <1>b, <1>c
<1>6. CASE TakeUp \/ ReadyAgain
  BY <1>1, <1>2, <1>6, TaskFields, ReadyUpdate DEF TakeUp, ReadyAgain, TypeOK
<1>7. CASE Tamper
  BY <1>2, <1>7 DEF Tamper, Outside, TypeOK
<1>8. CASE MoveBase \/ MoveHead \/ TouchPull
  <2>1. remote' \in RemoteType
    BY <1>1, <1>8, BaseMoves, HeadMoves, PullMoves DEF MoveBase, MoveHead, TouchPull
  <2>2. QED BY <1>2, <1>8, <2>1 DEF MoveBase, MoveHead, TouchPull, Outside, TypeOK
<1>9. QED BY <1>5, <1>6, <1>7, <1>8 DEF Others

(* So does what becomes of a request.                                       *)
LEMMA TypeRequests ==
  ASSUME TypeOK, NEW e \in Effects, Happen(e) \/ Vanish(e) \/ Answered \/ Unanswered, late' \in Nat
  PROVE  TypeOK'
<1> USE DEF durable
<1>1. remote \in RemoteType /\ flight \ {e} \in SUBSET Effects
  BY DEF TypeOK
<1>2. Fault => spent' \in [people : Nat, outside : Nat, faults : Nat]
  BY DEF Fault, TypeOK
<1>3. CASE Happen(e)
  <2>1. Outcome(e) \in RemoteType
    BY <1>1, HeadMoves, PullMoves, CheckMoves DEF Outcome, Effects
  <2>2. answer' \in [to : Effects, is : {"none", "ok", "refused"}]
    BY <1>3 DEF Happen, TypeOK
  <2>3. QED BY <1>1, <1>3, <2>1, <2>2 DEF Happen, TypeOK
<1>4. CASE Vanish(e)
  BY <1>1, <1>2, <1>4 DEF Vanish, TypeOK
<1>5. CASE Answered
  BY <1>5 DEF Answered, AfterAnswer, Effects, TypeOK, Steps, Reading
<1>6. CASE Unanswered
  BY <1>2, <1>6 DEF Unanswered, TypeOK, Steps
<1>7. QED BY <1>3, <1>4, <1>5, <1>6

(* Every step keeps the types.                                              *)
LEMMA TypeStep ==
  ASSUME TypeOK, [Next]_vars
  PROVE  TypeOK'
<1> USE DEF durable
<1>1. CASE UNCHANGED vars
  BY <1>1 DEF vars, TypeOK
<1> SUFFICES ASSUME Step, History PROVE TypeOK'
  BY <1>1 DEF Next
<1>2. /\ late' \in Nat /\ pub \in PubType /\ Basis \in BasisType /\ plan.digest \in Digests
      /\ plan.basis \in BasisType /\ task.verified \in Digests /\ pc \in Steps
      /\ pub \in PubType /\ plan \in [basis : BasisType, digest : Digests]
      /\ pub.invalidation \in {"none", "pending", "confirmed"} /\ task \in TaskType
      /\ code \in {"none", "invalid", "other"}
  BY PubFields DEF TypeOK, History, Basis, BasisType, TaskType
<1>3. /\ \A c \in BOOLEAN, k \in {"invalid", "other"} : Verdict(c, k) \in {"pass", "invalid", "other"}
      /\ \A s \in Stages : At(s) \in PubType
  BY <1>2, AtFields DEF Verdict
<1>4. ASSUME NEW v \in {"pass", "invalid", "other"}, NEW s \in Steps, NEW r \in PubType,
             Proceed(v, s, r), Observing, plan' \in [basis : BasisType, digest : Digests]
      PROVE  TypeOK'
  BY <1>2, <1>4, TypeLooks, TypeProceeds
<1>5. CASE Poll
  BY <1>2, <1>5, TypeLooks DEF Poll, Steps, Reading
<1>6. CASE Begin
  BY <1>2, <1>4, <1>6, GateVerdict DEF Begin, Steps, Reading
<1>7. CASE First
  BY <1>2, <1>3, <1>4, <1>7, FirstFields DEF First, Steps, Reading
<1>8. CASE Build
  <2>1. CASE Unrenderable /\ pc' = "idle" /\ UNCHANGED <<pub, code>>
    BY <1>2, <1>8, <2>1, TypeLooks DEF Build, Steps
  <2>2. QED BY <1>2, <1>3, <1>4, <1>8, <2>1, CandidateFields DEF Build, Steps, Reading
<1>9. CASE Regate
  BY <1>2, <1>4, <1>9, GateVerdict DEF Regate, AfterGate, Steps, Reading, Sending
<1>10. CASE Remote
  BY <1>2, <1>3, <1>4, <1>10 DEF Remote, Refs, Steps, Reading, Stages
<1>11. CASE Look
  BY <1>2, <1>3, <1>4, <1>11 DEF Look, PullAbsent, PullOurs, Steps, Reading, Stages
<1>12. CASE RemoteAgain
  <2>1. /\ (IF pc = "pr_remote" THEN At("pr_pending") ELSE pub) \in PubType
        /\ AfterRemote[pc] \in Steps
    BY <1>2, <1>3, <1>12 DEF RemoteAgain, AfterRemote, Steps, Reading, Sending, Stages
  <2>2. QED BY <1>2, <1>3, <1>4, <1>12, <2>1 DEF RemoteAgain, Refs
<1>13. CASE CheckPull \/ CheckAbsent
  BY <1>2, <1>3, <1>4, <1>13 DEF CheckPull, CheckAbsent, PullOurs, CheckMissing, Steps, Reading, Stages
<1>14. CASE Find
  BY <1>2, <1>3, <1>4, <1>14 DEF Find, CheckMissing, CheckReads, Steps, Reading
<1>15. CASE Finish
  BY <1>2, <1>3, <1>4, <1>15, CompleteFields DEF Finish, PullAbsent, PullOurs, Steps
<1>16. CASE Push
  <2>1. CASE Raise("invalid") /\ Observing /\ UNCHANGED plan
    BY <1>2, <2>1, TypeLooks DEF Raise, Steps
  <2>2. QED BY <1>2, <1>16, <2>1, TypeSends DEF Push, Effects
<1>17. CASE SendPull \/ SendCheck \/ SendPatch
  BY <1>2, <1>17, TypeSends DEF SendPull, SendCheck, SendPatch, Effects
<1>18. CASE Answered \/ Unanswered
  BY <1>2, <1>18, TypeRequests DEF Effects
<1>19. CASE Block
  <2>1. task.epoch + 1 \in Nat
    BY <1>2, TaskFields
  <2>2. task' \in TaskType /\ pub' \in PubType /\ pc' \in Steps
    BY <1>2, <1>19, <2>1, TaskUpdates, BlockFields DEF Block, Steps
  <2>3. QED BY <1>2, <1>19, <2>2 DEF Block, TypeOK
<1>20. CASE Invalidate
  BY <1>2, <1>20, TypeLooks, WithdrawFields DEF Invalidate, Steps, Sending
<1>21. CASE ReadFails \/ Crash
  <2>1. spent' \in [people : Nat, outside : Nat, faults : Nat]
    BY <1>21 DEF ReadFails, Crash, Fault, TypeOK
  <2>2. pc' \in Steps /\ code' \in {"none", "invalid", "other"} /\ pub' = pub
    BY <1>2, <1>21 DEF ReadFails, Crash, Raise, Steps
  <2>3. QED BY <1>2, <1>21, <2>1, <2>2 DEF ReadFails, Crash, TypeOK
<1>22. CASE \E e \in Effects : Happen(e) \/ Vanish(e)
  BY <1>2, <1>22, TypeRequests
<1>23. CASE Others
  BY <1>2, <1>23, TypeOthers
<1>24. QED
  BY <1>5, <1>6, <1>7, <1>8, <1>9, <1>10, <1>11, <1>12, <1>13, <1>14, <1>15, <1>16, <1>17, <1>18, <1>19,
     <1>20, <1>21, <1>22, <1>23
  DEF Step, Publisher

-----------------------------------------------------------------------------
(* What the record says and what was sent.                                  *)

(* Nothing of it moves.                                                     *)
LEMMA RecordedKept ==
  ASSUME Recorded, UNCHANGED <<pub, remote, made, flight>>
  PROVE  Recorded'
BY DEF Recorded, Shown, Confirmed, Flying, IntentFirst, EffectOnce, Landed

(* The record advances over what was seen.                                  *)
LEMMA RecordedAdvances ==
  ASSUME TypeOK, Recorded, UNCHANGED <<remote, made, flight>>, pub' \in PubType,
         Rank[pub'.stage] >= Rank[pub.stage],
         pub'.invalidation = pub.invalidation \/ pub'.invalidation # "none",
         Rank[pub'.stage] >= 4 => Rank[pub.stage] >= 4 \/ remote.head = "candidate",
         Rank[pub'.stage] >= 6 => Rank[pub.stage] >= 6 \/ remote.pull = "ours",
         pub'.status = "published" =>
           \/ pub.status = "published" /\ pub'.invalidated = pub.invalidated
           \/ ~pub'.invalidated /\ Rank[pub'.stage] >= 7 /\ remote.check # "none"
  PROVE  Recorded'
<1>1. Rank[pub.stage] \in Nat /\ Rank[pub'.stage] \in Nat
  BY PubFields, Ranks DEF TypeOK
<1>2. Shown' /\ Flying' /\ EffectOnce'
  BY DEF Recorded, Shown, Landed, Flying, EffectOnce
<1>3. IntentFirst'
  <2>1. Rank["push_pending"] = 3 /\ Rank["pr_pending"] = 5 /\ Rank["check_pending"] = 7
    BY Ranks
  <2>2. QED BY <1>1, <2>1 DEF Recorded, IntentFirst
<1>4. Confirmed'
  BY <1>1 DEF Recorded, Shown, Confirmed, Landed
<1>5. QED BY <1>2, <1>3, <1>4 DEF Recorded

(* A request leaves whose intent is on record and that never left before.   *)
LEMMA RecordedSends ==
  ASSUME TypeOK, Recorded, NEW e \in Effects, Send(e), made[e] = 0,
         e = "push" => pub.stage = "push_pending",
         e = "pull" => pub.stage = "pr_pending",
         e = "check" => pub.stage = "check_pending" /\ ~pub.invalidated,
         e = "patch" => pub.invalidation # "none"
  PROVE  Recorded' /\ made'[e] = 1
<1>1. /\ Effects = {"push", "pull", "check", "patch"}
      /\ Rank["push_pending"] = 3 /\ Rank["pr_pending"] = 5 /\ Rank["check_pending"] = 7
      /\ Rank[pub.stage] \in Nat
  BY PubFields, Ranks DEF Effects, TypeOK
<1>2. /\ made'[e] = 1 /\ flight' = flight \cup {e} /\ UNCHANGED <<pub, remote>>
      /\ \A f \in Effects : f # e => made'[f] = made[f]
      /\ flight \in SUBSET Effects
  BY DEF Send, TypeOK
<1>3. \A f \in Effects : Landed(f) => Landed(f)'
  BY <1>2 DEF Landed
<1>4. Shown'
  BY <1>1, <1>2, <1>3 DEF Shown, Recorded
<1>5. Confirmed'
  BY <1>1, <1>2, <1>3 DEF Confirmed, Recorded
<1>6. Flying'
  BY <1>2 DEF Flying, Recorded
<1>7. IntentFirst'
  BY <1>1, <1>2 DEF IntentFirst, Recorded
<1>8. EffectOnce'
  BY <1>2 DEF EffectOnce, Recorded
<1>9. QED BY <1>2, <1>4, <1>5, <1>6, <1>7, <1>8 DEF Recorded

(* GitHub does what it was asked, or never.                                 *)
LEMMA RecordedHappens ==
  ASSUME TypeOK, Recorded, NEW e \in Effects, Happen(e) \/ Vanish(e)
  PROVE  Recorded' /\ (remote.check # "none" => remote'.check # "none")
<1> USE DEF durable
<1>1. /\ Effects = {"push", "pull", "check", "patch"} /\ remote \in RemoteType
      /\ Rank[pub.stage] \in Nat
  BY PubFields, Ranks DEF Effects, TypeOK
<1>2. /\ flight' = flight \ {e} /\ UNCHANGED <<pub, made>> /\ e \in flight /\ made[e] = 1
      /\ remote' = remote \/ (Accepted(e) /\ remote' = Outcome(e))
  BY DEF Happen, Vanish, Recorded, Flying
<1>3. (\A f \in Effects : Landed(f) => Landed(f)') /\ Landed(e)' /\ ~Landed(e)
  BY <1>2 DEF Landed
<1>4. Flying' /\ IntentFirst' /\ EffectOnce'
  BY <1>2 DEF Flying, IntentFirst, EffectOnce, Recorded
<1>5. \/ remote' = remote
      \/ /\ e = "push" /\ remote'.head = "candidate"
         /\ remote'.pull = remote.pull /\ remote'.check = remote.check
      \/ /\ e = "pull" /\ remote'.pull = "ours"
         /\ remote'.head = remote.head /\ remote'.check = remote.check
      \/ /\ e = "check" /\ remote'.check = "success"
         /\ remote'.head = remote.head /\ remote'.pull = remote.pull
      \/ /\ e = "patch" /\ remote'.check = "required" /\ remote.check # "none"
         /\ remote'.head = remote.head /\ remote'.pull = remote.pull
  <2>1. CASE e = "push"
    BY <1>1, <1>2, <2>1, HeadMoves DEF Outcome
  <2>2. CASE e = "pull"
    BY <1>1, <1>2, <2>2, PullMoves DEF Outcome
  <2>3. CASE e = "check"
    BY <1>1, <1>2, <2>3, CheckMoves DEF Outcome
  <2>4. CASE e = "patch"
    BY <1>1, <1>2, <2>4, CheckMoves DEF Accepted, Outcome
  <2>5. QED BY <1>1, <2>1, <2>2, <2>3, <2>4
<1>6. Shown'
  BY <1>1, <1>3, <1>5 DEF Shown, Recorded
<1>7. Confirmed'
  BY <1>1, <1>2, <1>3, <1>5 DEF Confirmed, Recorded
<1>8. QED BY <1>4, <1>5, <1>6, <1>7 DEF Recorded

(* Others only take away what is ours, and add what is not.                 *)
LEMMA RecordedOthers ==
  ASSUME TypeOK, Recorded, Others
  PROVE  /\ Recorded' /\ UNCHANGED <<pub, pc, code, made, answer>>
         /\ remote.check # "none" => remote'.check # "none"
<1>1. CASE UNCHANGED remote
  BY <1>1, RecordedKept
  DEF Others, Stop, Resume, Amend, Approve, Stand, Edit, TakeUp, ReadyAgain, Decide, Tamper, MoveBase, MoveHead,
    TouchPull, Outside
<1>2. CASE MoveBase \/ MoveHead \/ TouchPull
  <2>1. remote \in RemoteType /\ UNCHANGED <<pub, pc, code, made, flight, answer>>
    BY <1>2 DEF MoveBase, MoveHead, TouchPull, Outside, TypeOK
  <2>2. /\ remote'.check = remote.check
        /\ remote'.head \in {remote.head, "foreign"}
        /\ remote'.pull # "none" \/ remote.pull = "none"
        /\ remote'.pull \in {"ours", "edited", "closed"} => remote.pull \in {"ours", "edited", "closed"}
    BY <1>2, <2>1, BaseMoves, HeadMoves, PullMoves DEF MoveBase, MoveHead, TouchPull
  <2>3. Shown' /\ Confirmed'
    BY <2>1, <2>2 DEF Recorded, Shown, Confirmed, Landed
  <2>4. Flying' /\ IntentFirst' /\ EffectOnce'
    BY <2>1 DEF Recorded, Flying, IntentFirst, EffectOnce
  <2>5. QED BY <2>1, <2>2, <2>3, <2>4 DEF Recorded
<1>3. QED
  BY <1>1, <1>2 DEF Others, Stop, Resume, Amend, Approve, Stand, Edit, TakeUp, ReadyAgain, Decide, Tamper

(* The publisher looks, decides on what it saw and goes on.                 *)
LEMMA Looks ==
  ASSUME TypeOK, Recorded, Knows,
         \/ Poll \/ Begin \/ First \/ Build \/ Regate \/ Remote \/ Look \/ RemoteAgain
         \/ CheckPull \/ CheckAbsent \/ Find \/ Finish
  PROVE  Recorded' /\ Knows'
<1> USE DEF Publishing, Reading, Observing
<1>1. pub \in PubType /\ pub.stage \in Stages /\ plan.basis \in BasisType /\ plan.digest \in Digests
  BY PubFields DEF TypeOK
<1>2. \A s \in Stages : /\ At(s) \in PubType /\ At(s).stage = s /\ At(s).status = pub.status
                        /\ At(s).invalidated = pub.invalidated
                        /\ At(s).invalidation = pub.invalidation
  BY <1>1, AtFields
<1>3. Stages = {"none", "candidate_pending", "candidate_confirmed", "push_pending", "push_confirmed",
                "pr_pending", "pr_confirmed", "check_pending", "complete"}
  BY DEF Stages
<1>4. IntentFirst /\ Shown /\ made["push"] \in Nat /\ made["pull"] \in Nat /\ made["check"] \in Nat
  BY DEF Recorded, TypeOK, Effects
<1>5. ASSUME NEW k, Raise(k), Observing PROVE Recorded' /\ Knows'
  BY <1>5, RecordedKept DEF Raise, Knows
<1>6. CASE Poll
  BY <1>6, RecordedKept DEF Poll, Knows
<1>7. CASE Begin
  <2>1. CASE pub' = pub /\ Gate = "pass" /\ pc' = (IF pub = NoPub THEN "first" ELSE "gate")
             /\ ~(Gate = "pass" /\ pub.stage = "candidate_pending")
    BY <1>1, <1>3, <1>7, <2>1, Ranks, RecordedKept DEF Begin, Knows
  <2>2. QED BY <1>5, <1>7, <2>1 DEF Begin, Proceed
<1>8. CASE First
  <2>1. CASE pc' = "build" /\ pub' = [NoPub EXCEPT !.stage = "candidate_pending", !.status = "running",
                                                   !.basis = plan.basis]
    <3>1. /\ pub' \in PubType /\ pub'.stage = "candidate_pending" /\ pub'.status = "running"
          /\ ~pub'.invalidated /\ pub'.invalidation = "none" /\ pub.stage = "none"
          /\ pub.invalidation = "none"
      BY <1>1, <1>8, <2>1, FirstFields DEF First, Knows
    <3>2. Recorded'
      BY <1>8, <3>1, Ranks, RecordedAdvances DEF First
    <3>3. Knows'
      BY <1>8, <2>1, <3>1 DEF First, Knows
    <3>4. QED BY <3>2, <3>3
  <2>2. QED BY <1>5, <1>8, <2>1 DEF First, Proceed
<1>9. CASE Build
  <2>1. CASE pc' = "gate" /\ pub' = Candidate
    <3>1. /\ pub' \in PubType /\ pub'.stage = "candidate_confirmed" /\ pub'.status = pub.status
          /\ pub'.invalidated = pub.invalidated /\ pub'.invalidation = pub.invalidation
          /\ pub.stage = "candidate_pending"
      BY <1>1, <1>9, <2>1, CandidateFields DEF Build, Knows
    <3>2. Recorded'
      BY <1>9, <3>1, Ranks, RecordedAdvances DEF Build
    <3>3. Knows'
      BY <1>9, <2>1, <3>1, Ranks DEF Build, Knows
    <3>4. QED BY <3>2, <3>3
  <2>2. CASE pc' = "idle" /\ pub' = pub
    BY <1>9, <2>2, RecordedKept DEF Build, Knows
  <2>3. QED BY <1>5, <1>9, <2>1, <2>2 DEF Build, Proceed
<1>10. CASE Regate
  <2>1. CASE pub' = pub /\ pc' = AfterGate[pc]
    BY <1>1, <1>10, <2>1, RecordedKept DEF Regate, AfterGate, Knows
  <2>2. QED BY <1>5, <1>10, <2>1 DEF Regate, Proceed
<1>11. ASSUME NEW s \in Stages, pub' = At(s), UNCHANGED <<remote, made, flight>>,
              Rank[s] >= Rank[pub.stage],
              Rank[s] >= 4 => Rank[pub.stage] >= 4 \/ remote.head = "candidate",
              Rank[s] >= 6 => Rank[pub.stage] >= 6 \/ remote.pull = "ours"
       PROVE  Recorded'
  BY <1>1, <1>2, <1>11, RecordedAdvances
<1>12. CASE Remote
  <2>1. CASE pub.stage = "candidate_confirmed" /\ pub' = At("push_pending") /\ pc' = "push_gate"
    <3>1. Recorded'
      BY <1>3, <1>11, <1>12, <2>1, Ranks DEF Remote
    <3>2. Knows'
      BY <1>2, <1>3, <1>4, <1>12, <2>1, Ranks DEF Remote, Knows, IntentFirst
    <3>3. QED BY <3>1, <3>2
  <2>2. CASE pub.stage = "push_pending" /\ Refs("candidate") /\ pub' = At("push_confirmed") /\ pc' = "look"
    <3>1. Recorded'
      BY <1>3, <1>11, <1>12, <2>2, Ranks DEF Remote, Refs
    <3>2. Knows'
      BY <1>2, <1>3, <1>12, <2>2 DEF Remote, Knows
    <3>3. QED BY <3>1, <3>2
  <2>3. CASE pub' = pub /\ pc' = "look"
    BY <1>12, <2>3, RecordedKept DEF Remote, Knows
  <2>4. QED BY <1>5, <1>12, <2>1, <2>2, <2>3 DEF Remote, Proceed, Verdict
<1>13. CASE Look
  <2>1. CASE pub.stage = "push_confirmed" /\ pub' = pub /\ pc' = "pr_gate"
    BY <1>13, <2>1, RecordedKept DEF Look, Knows
  <2>2. CASE pub.stage = "pr_pending" /\ PullOurs /\ pub' = At("pr_confirmed") /\ pc' = "check_gate"
    <3>1. Recorded'
      BY <1>3, <1>11, <1>13, <2>2, Ranks DEF Look, PullOurs
    <3>2. Knows'
      BY <1>2, <1>3, <1>13, <2>2 DEF Look, Knows
    <3>3. QED BY <3>1, <3>2
  <2>3. CASE pub.stage = "pr_confirmed" /\ pub' = pub /\ pc' = "check_gate"
    BY <1>13, <2>3, RecordedKept DEF Look, Knows
  <2>4. CASE pub' = pub /\ pc' = "find"
    BY <1>13, <2>4, RecordedKept DEF Look, Knows
  <2>5. QED BY <1>5, <1>13, <2>1, <2>2, <2>3, <2>4 DEF Look, Proceed, Verdict
<1>14. CASE RemoteAgain
  <2>1. CASE pc = "pr_remote" /\ pub' = At("pr_pending") /\ pc' = "pr_gate2"
    <3>1. pub.stage = "push_confirmed" /\ ~pub.invalidated
      BY <2>1 DEF Knows
    <3>2. Recorded'
      BY <1>3, <1>11, <1>14, <2>1, <3>1, Ranks DEF RemoteAgain
    <3>3. Knows'
      BY <1>2, <1>3, <1>4, <1>14, <2>1, <3>1, Ranks DEF RemoteAgain, Knows, IntentFirst
    <3>4. QED BY <3>2, <3>3
  <2>2. CASE pc # "pr_remote" /\ pub' = pub /\ pc' = AfterRemote[pc]
    BY <1>14, <2>2, RecordedKept DEF RemoteAgain, AfterRemote, Knows
  <2>3. QED BY <1>5, <1>14, <2>1, <2>2 DEF RemoteAgain, Proceed, AfterRemote
<1>15. CASE CheckPull
  <2>1. CASE pub' = At("check_pending") /\ pc' = "check_absent"
    <3>1. pub.stage = "pr_confirmed" /\ ~pub.invalidated
      BY <1>15 DEF Knows, CheckPull
    <3>2. Recorded'
      BY <1>3, <1>11, <1>15, <2>1, <3>1, Ranks DEF CheckPull
    <3>3. Knows'
      BY <1>2, <1>3, <1>4, <1>15, <2>1, <3>1, Ranks DEF CheckPull, Knows, IntentFirst
    <3>4. QED BY <3>2, <3>3
  <2>2. QED BY <1>5, <1>15, <2>1 DEF CheckPull, Proceed
<1>16. CASE CheckAbsent
  <2>1. CASE pub' = pub /\ pc' = "check_gate2"
    BY <1>16, <2>1, RecordedKept DEF CheckAbsent, Knows
  <2>2. QED BY <1>5, <1>16, <2>1 DEF CheckAbsent, Proceed
<1>17. CASE Find
  <2>1. CASE pub' = pub /\ pc' = "fin_gate" /\ CheckReads("success")
    BY <1>17, <2>1, RecordedKept DEF Find, CheckReads, Knows
  <2>2. QED BY <1>5, <1>17, <2>1 DEF Find, Proceed, Verdict
<1>18. CASE Finish
  <2>1. CASE pc' = "idle" /\ pub' = [pub EXCEPT !.stage = "complete", !.status = "published",
                                                !.checked = TRUE]
    <3>1. /\ pub' \in PubType /\ pub'.stage = "complete" /\ pub'.status = "published"
          /\ pub'.invalidated = pub.invalidated /\ pub'.invalidation = pub.invalidation
          /\ ~pub.invalidated /\ remote.check # "none"
      BY <1>1, <1>18, <2>1, CompleteFields DEF Finish, Knows
    <3>2. Rank[pub.stage] >= 7 /\ Rank[pub.stage] \in Nat /\ Rank[pub.stage] <= 8
      BY <1>1, <1>3, <1>4, <3>1, Ranks DEF Shown, Landed, IntentFirst
    <3>3. Recorded'
      BY <1>18, <3>1, <3>2, Ranks, RecordedAdvances DEF Finish
    <3>4. Knows'
      BY <1>18, <2>1, <3>1 DEF Finish, Knows
    <3>5. QED BY <3>3, <3>4
  <2>2. QED BY <1>5, <1>18, <2>1 DEF Finish, Proceed
<1>19. QED
  BY <1>6, <1>7, <1>8, <1>9, <1>10, <1>12, <1>13, <1>14, <1>15, <1>16, <1>17, <1>18

(* A request is sent, answered, lost, and an error is recorded.             *)
LEMMA Requests ==
  ASSUME TypeOK, Recorded, Knows,
         \/ Push \/ SendPull \/ SendCheck \/ SendPatch \/ Answered \/ Unanswered
         \/ Block \/ Invalidate \/ ReadFails \/ Crash
         \/ \E e \in Effects : Happen(e) \/ Vanish(e)
  PROVE  Recorded' /\ Knows'
<1> USE DEF Publishing, Reading, Observing, durable
<1>1. pub \in PubType /\ pub.stage \in Stages /\ answer.to \in Effects
  BY PubFields DEF TypeOK
<1>2. /\ Effects = {"push", "pull", "check", "patch"} /\ IntentFirst /\ Shown
      /\ pub.invalidated \in BOOLEAN /\ \A e \in Effects : made[e] \in Nat
      /\ \A i \in {"pending", "confirmed"} : i # "none"
  BY <1>1, PubFields DEF Recorded, TypeOK, Effects
<1>3. made["push"] > 0 \/ made["pull"] > 0 \/ made["check"] > 0 \/ made["patch"] > 0 => pub # NoPub
  <2>1. NoPub.stage = "none" /\ NoPub.invalidation = "none"
    BY DEF NoPub
  <2>2. QED BY <1>2, <2>1, Ranks DEF IntentFirst
<1>4. pc = "sent" => pub # NoPub
  BY <1>1, <1>2, <1>3 DEF Knows
<1>5. ASSUME NEW e \in Effects, Send(e), made[e] = 0,
             e = "push" => pub.stage = "push_pending",
             e = "pull" => pub.stage = "pr_pending",
             e = "check" => pub.stage = "check_pending" /\ ~pub.invalidated,
             e = "patch" => pub.invalidation # "none",
             e # "patch" => ~pub.invalidated
      PROVE  Recorded' /\ Knows'
  <2>1. Recorded' /\ made'[e] = 1
    BY <1>5, RecordedSends
  <2>2. Knows'
    BY <1>5, <2>1 DEF Send, Knows
  <2>3. QED BY <2>1, <2>2
<1>6. CASE Push
  <2>1. CASE Raise("invalid") /\ Observing
    BY <2>1, RecordedKept DEF Raise, Knows
  <2>2. QED BY <1>2, <1>5, <1>6, <2>1 DEF Push, Knows
<1>7. CASE SendPull \/ SendCheck \/ SendPatch
  BY <1>2, <1>5, <1>7 DEF SendPull, SendCheck, SendPatch, Knows
<1>8. CASE Answered
  <2>1. Recorded' /\ UNCHANGED <<pub, remote, made, answer>>
    BY <1>8, RecordedKept DEF Answered
  <2>2. answer.to = "push" /\ pc = "sent" => Rank[pub.stage] >= 3
    BY <1>2, Ranks DEF Knows, IntentFirst
  <2>3. Rank[pub.stage] \in Nat
    BY <1>1, Ranks
  <2>4. Knows'
    <3>1. CASE pc' = "failed"
      BY <1>4, <1>8, <2>1, <3>1 DEF Answered, Knows
    <3>2. CASE pc' = AfterAnswer[answer.to]
      BY <1>1, <1>2, <1>8, <2>1, <2>2, <2>3, <3>2 DEF Answered, AfterAnswer, Knows
    <3>3. QED BY <1>8, <3>1, <3>2 DEF Answered
  <2>5. QED BY <2>1, <2>4
<1>9. CASE Unanswered
  BY <1>4, <1>9, RecordedKept DEF Unanswered, Knows
<1>10. CASE Block
  <2>1. /\ pub' \in PubType /\ pub'.stage = pub.stage /\ pub'.status = "blocked"
        /\ pub'.invalidation = pub.invalidation
    BY <1>1, <1>10, BlockFields DEF Block
  <2>2. Recorded'
    BY <1>1, <1>10, <2>1, Ranks, RecordedAdvances DEF Block
  <2>3. pub.stage # "none"
    BY <1>10 DEF Block, Knows
  <2>4. Knows'
    BY <1>10, <2>1, <2>3 DEF Block, Knows
  <2>5. QED BY <2>2, <2>4
<1>11. CASE Invalidate
  <2>1. CASE pub' = pub
    <3>1. pc' \in {"idle", "invalidate"}
      BY <1>1, <1>11, <2>1, WithdrawFields DEF Invalidate
    <3>2. QED BY <1>11, <2>1, <3>1, RecordedKept DEF Invalidate, Knows
  <2>2. CASE pub' # pub
    <3>1. /\ pub' \in PubType /\ pub'.stage = pub.stage /\ pub'.status = pub.status
          /\ pub'.invalidated = pub.invalidated
          /\ pub'.invalidation = pub.invalidation \/ pub'.invalidation # "none"
          /\ pc' = "patch_send" => pub.invalidation = "none" /\ pub'.invalidation = "pending"
          /\ pc' \in {"idle", "invalidate", "patch_send"}
          /\ Rank[pub.stage] >= 7 /\ UNCHANGED <<remote, made, flight, answer>>
      BY <1>1, <1>2, <1>11, <2>2, WithdrawFields, Ranks DEF Invalidate
    <3>2. Recorded'
      BY <1>1, <3>1, Ranks, RecordedAdvances
    <3>3. Knows'
      BY <1>2, <3>1, Ranks DEF Knows, IntentFirst
    <3>4. QED BY <3>2, <3>3
  <2>3. QED BY <2>1, <2>2
<1>12. CASE ReadFails \/ Crash
  BY <1>12, RecordedKept DEF ReadFails, Crash, Raise, Knows
<1>13. CASE \E e \in Effects : Happen(e) \/ Vanish(e)
  <2>1. PICK e \in Effects : Happen(e) \/ Vanish(e)
    BY <1>13
  <2>2. Recorded' /\ (remote.check # "none" => remote'.check # "none")
    BY <2>1, RecordedHappens
  <2>3. UNCHANGED <<pub, pc, made>> /\ answer'.to = answer.to
    <3>1. [answer EXCEPT !.is = IF Accepted(e) THEN "ok" ELSE "refused"].to = answer.to
      BY DEF TypeOK
    <3>2. QED BY <2>1, <3>1 DEF Happen, Vanish
  <2>4. Knows'
    BY <2>2, <2>3 DEF Knows
  <2>5. QED BY <2>2, <2>4
<1>14. QED
  BY <1>6, <1>7, <1>8, <1>9, <1>10, <1>11, <1>12, <1>13

(* Between two requests the publisher asks the gate again, which passes only*)
(* where everything they rest on is as it was.                              *)
LEMMA GateAuthorises ==
  ASSUME Gate = "pass", task \in TaskType
  PROVE  Authorised
<1>1. NoPub.stage = "none" /\ NoPub.candidate = "none"
  BY DEF NoPub
<1>2. task.standing = "yes"
  BY TaskFields DEF Gate, Standing
<1>3. QED BY <1>1, <1>2 DEF Gate, Authorised

(* So nothing leaves twice without asking.                                  *)
LEMMA AskedStep ==
  ASSUME TypeOK, Knows, Asked, Step, History
  PROVE  Asked'
<1> USE DEF Observing, durable, Sent
<1>1. CASE Regate
  <2>1. CASE Gate = "pass" /\ UNCHANGED pub
    <3>1. Authorised
      BY <2>1, GateAuthorises DEF TypeOK
    <3>2. Authorised'
      BY <1>1, <2>1, <3>1 DEF Regate, Authorised, Basis
    <3>3. QED BY <3>2 DEF History, Asked
  <2>2. CASE Raise(Gate)
    BY <1>1, <2>2 DEF Regate, Raise, History, Asked
  <2>3. QED BY <1>1, <2>1, <2>2 DEF Regate, Proceed
<1>2. CASE Push \/ SendPull \/ SendCheck
  BY <1>2 DEF Push, SendPull, SendCheck, Send, Raise, History, Asked
<1>3. CASE SendPatch
  <2>1. Sent = {}
    BY <1>3 DEF SendPatch, Send, TypeOK, Effects
  <2>2. QED BY <1>3, <2>1 DEF SendPatch, Send, History, Asked
<1>4. CASE UNCHANGED made /\ pc' \notin {"push", "pr_send", "check_send"}
  BY <1>4 DEF History, Asked
<1>5. CASE UNCHANGED <<made, pc>>
  BY <1>5 DEF History, Asked
<1>6. CASE Poll \/ Begin \/ First \/ Build \/ Remote \/ Look
  BY <1>4, <1>6 DEF Poll, Begin, First, Build, Remote, Look, Proceed, Raise
<1>7. CASE RemoteAgain \/ CheckPull \/ CheckAbsent \/ Find \/ Finish
  BY <1>4, <1>7 DEF RemoteAgain, AfterRemote, CheckPull, CheckAbsent, Find, Finish, Proceed, Raise
<1>8. CASE Answered \/ Unanswered \/ Block \/ Invalidate \/ ReadFails \/ Crash
  BY <1>4, <1>8
  DEF Answered, AfterAnswer, Unanswered, Block, Invalidate, ReadFails, Crash, Raise, TypeOK, Effects
<1>9. CASE (\E e \in Effects : Happen(e) \/ Vanish(e)) \/ Others
  BY <1>5, <1>9 DEF Happen, Vanish, Others, Stop, Resume, Amend, Approve, Stand, Edit, TakeUp, ReadyAgain, Decide,
    Tamper, MoveBase, MoveHead, TouchPull, Outside
<1>10. QED
  BY <1>1, <1>2, <1>3, <1>6, <1>7, <1>8, <1>9 DEF Step, Publisher

(* The first state satisfies the invariant.                                 *)
LEMMA InitInvariant == Init => IInv
<1> SUFFICES ASSUME Init PROVE IInv
  OBVIOUS
<1>1. /\ pub.stage = "none" /\ pub.status = "none" /\ pub = NoPub /\ pc = "idle" /\ late = 0 /\ flight = {}
      /\ remote.head = "none" /\ remote.pull = "none" /\ remote.check = "none"
      /\ \A e \in Effects : made[e] = 0
  BY DEF Init, NoPub
<1>2. Recorded
  BY <1>1, Ranks DEF Recorded, Shown, Confirmed, Flying, IntentFirst, EffectOnce, Effects
<1>3. Knows /\ Asked
  BY <1>1 DEF Knows, Asked, Publishing, Reading
<1>4. QED BY <1>2, <1>3, TypeInit DEF IInv

(* What every reachable state satisfies.                                    *)
THEOREM Invariant == Spec => []IInv
<1>1. IInv /\ [Next]_vars => IInv'
  <2> SUFFICES ASSUME IInv, [Next]_vars PROVE IInv'
    OBVIOUS
  <2>1. TypeOK /\ Recorded /\ Knows /\ Asked
    BY DEF IInv
  <2>2. TypeOK'
    BY <2>1, TypeStep
  <2>3. CASE UNCHANGED vars
    BY <2>1, <2>2, <2>3, RecordedKept DEF vars, durable, Knows, Asked, IInv
  <2>4. CASE Step /\ History
    <3>1. Recorded' /\ Knows'
      <4>1. CASE Others
        BY <2>1, <4>1, RecordedOthers DEF Knows
      <4>2. CASE ~Others
        BY <2>1, <2>4, <4>2, Looks, Requests DEF Step, Publisher
      <4>3. QED BY <4>1, <4>2
    <3>2. Asked'
      BY <2>1, <2>4, AskedStep
    <3>3. QED BY <2>2, <3>1, <3>2 DEF IInv
  <2>5. QED BY <2>3, <2>4 DEF Next
<1>2. QED BY InitInvariant, <1>1, PTL DEF Spec

(* The record, the repository and the publisher keep their types            *)
(* (publishing/document.py, Publication).                                   *)
THEOREM TypeCorrect == Spec => []TypeOK
<1>1. IInv => TypeOK
  BY DEF IInv
<1>2. QED BY Invariant, <1>1, PTL

(* Each of the four requests is sent at most once, however often the        *)
(* service stops, answers are lost and others interfere (_run, _publish,    *)
(* _invalidate_check).                                                      *)
THEOREM EffectsHappenOnce == Spec => []EffectOnce
<1>1. IInv => EffectOnce
  BY DEF IInv, Recorded
<1>2. QED BY Invariant, <1>1, PTL

(* A restart always finds the intent of what may have been sent (_run).     *)
THEOREM IntentsComeFirst == Spec => []IntentFirst
<1>1. IInv => IntentFirst
  BY DEF IInv, Recorded
<1>2. QED BY Invariant, <1>1, PTL

(* At most one request leaves after what it rests on was withdrawn or       *)
(* changed, whoever moves whenever (_run, _gate).                           *)
THEOREM StopsBind == Spec => []StopBinds
<1>1. IInv => StopBinds
  BY DEF IInv, Asked, StopBinds
<1>2. QED BY Invariant, <1>1, PTL

(* A task called published has its branch, pull request and check on GitHub,*)
(* each sent once and arrived (_run).                                       *)
THEOREM PublicationIsTrue == Spec => []PublishedTrue
<1>1. IInv => PublishedTrue
  <2> SUFFICES ASSUME IInv, pub.status = "published"
               PROVE  /\ ~pub.invalidated
                      /\ \A e \in {"push", "pull", "check"} : made[e] = 1 /\ e \notin flight
                      /\ remote.head # "none" /\ remote.pull # "none" /\ remote.check # "none"
    BY DEF PublishedTrue
  <2>1. Rank[pub.stage] \in Nat
    BY PubFields, Ranks DEF IInv, TypeOK
  <2>2. QED BY <2>1 DEF IInv, Recorded, Confirmed, Shown, Landed
<1>2. QED BY Invariant, <1>1, PTL

(* Nothing the publisher does or has done changes what others pushed,       *)
(* edited or closed (git.py, push; github/publishing.py).                   *)
THEOREM ForeignWorkKept == Spec => ForeignKept
<1>1. IInv /\ [Next]_vars =>
        [/\ remote.base = "moved" => remote'.base = "moved"
         /\ remote.head = "foreign" => remote'.head = "foreign"
         /\ remote.pull \in {"edited", "closed", "foreign"} => remote'.pull = remote.pull]_vars
  <2> SUFFICES ASSUME IInv, Step, History, remote' # remote
               PROVE  /\ remote.base = "moved" => remote'.base = "moved"
                      /\ remote.head = "foreign" => remote'.head = "foreign"
                      /\ remote.pull \in {"edited", "closed", "foreign"} => remote'.pull = remote.pull
    BY DEF Next
  <2> USE DEF durable, Observing
  <2>1. remote \in RemoteType
    BY DEF IInv, TypeOK
  <2>2. CASE MoveBase \/ MoveHead \/ TouchPull
    BY <2>1, <2>2, BaseMoves, HeadMoves, PullMoves DEF MoveBase, MoveHead, TouchPull
  <2>3. CASE \E e \in Effects : Happen(e)
    <3>1. PICK e \in Effects : Happen(e)
      BY <2>3
    <3>2. Accepted(e) /\ remote' = Outcome(e)
      BY <3>1 DEF Happen
    <3>3. CASE e = "push"
      BY <2>1, <3>2, <3>3, HeadMoves DEF Accepted, Outcome, LeaseHolds
    <3>4. CASE e = "pull"
      BY <2>1, <3>2, <3>4, PullMoves DEF Accepted, Outcome
    <3>5. CASE e \in {"check", "patch"}
      BY <2>1, <3>2, <3>5, CheckMoves DEF Outcome
    <3>6. QED BY <3>3, <3>4, <3>5 DEF Effects
  <2>4. CASE Poll \/ Publisher \/ Unanswered \/ ReadFails \/ Crash
    BY <2>4 DEF Poll, Publisher, Unanswered, ReadFails, Crash, Begin, First, Build, Regate, Remote, Look,
      RemoteAgain, CheckPull, CheckAbsent, Find, Finish, Push, SendPull, SendCheck, SendPatch, Send,
      Answered, Block, Invalidate
  <2>5. QED
    BY <2>2, <2>3, <2>4
    DEF Step, Others, Vanish, Stop, Resume, Amend, Approve, Stand, Edit, TakeUp, ReadyAgain, Decide, Tamper
<1>2. QED BY Invariant, <1>1, PTL DEF Spec, ForeignKept

-----------------------------------------------------------------------------
(* The outbox.  What a record shows of it.                                  *)
LEMMA RecordShows ==
  ASSUME NEW p \in PubType
  PROVE  /\ "push" \in Intents(p) <=> Rank[p.stage] >= 3
         /\ "pull" \in Intents(p) <=> Rank[p.stage] >= 5
         /\ "check" \in Intents(p) <=> Rank[p.stage] >= 7
         /\ "patch" \in Intents(p) <=> p.invalidation # "none"
         /\ "push" \in Seen(p) <=> Rank[p.stage] >= 4
         /\ "pull" \in Seen(p) <=> Rank[p.stage] >= 6
         /\ "check" \in Seen(p) <=> Rank[p.stage] >= 8
         /\ "patch" \in Seen(p) <=> p.invalidation = "confirmed"
         /\ Intents(p) \subseteq Effects /\ Seen(p) \subseteq Effects
<1>1. /\ IntentAt["push"] = "push_pending" /\ IntentAt["pull"] = "pr_pending"
      /\ IntentAt["check"] = "check_pending" /\ SeenAt["push"] = "push_confirmed"
      /\ SeenAt["pull"] = "pr_confirmed" /\ SeenAt["check"] = "complete"
  BY DEF IntentAt, SeenAt
<1>2. /\ Rank[IntentAt["push"]] = 3 /\ Rank[IntentAt["pull"]] = 5 /\ Rank[IntentAt["check"]] = 7
      /\ Rank[SeenAt["push"]] = 4 /\ Rank[SeenAt["pull"]] = 6 /\ Rank[SeenAt["check"]] = 8
  BY <1>1, Ranks
<1>3. {"push", "pull", "check", "patch"} = Effects
  BY DEF Effects
<1>4. /\ "push" \in Intents(p) <=> Rank[p.stage] >= 3
      /\ "pull" \in Intents(p) <=> Rank[p.stage] >= 5
      /\ "check" \in Intents(p) <=> Rank[p.stage] >= 7
      /\ "patch" \in Intents(p) <=> p.invalidation # "none"
  BY <1>2, <1>3 DEF Intents
<1>5. /\ "push" \in Seen(p) <=> Rank[p.stage] >= 4
      /\ "pull" \in Seen(p) <=> Rank[p.stage] >= 6
      /\ "check" \in Seen(p) <=> Rank[p.stage] >= 8
      /\ "patch" \in Seen(p) <=> p.invalidation = "confirmed"
  BY <1>2, <1>3 DEF Seen
<1>6. QED BY <1>4, <1>5 DEF Intents, Seen

(* What the record shows changes with the stage and the invalidation alone. *)
LEMMA ShowsSame ==
  ASSUME NEW p \in PubType, NEW q \in PubType, q.invalidation = p.invalidation,
         q.stage = p.stage \/ (Rank[p.stage] <= 2 /\ Rank[q.stage] <= 2)
  PROVE  Intents(q) = Intents(p) /\ Seen(q) = Seen(p)
<1>1. Rank[p.stage] \in Nat /\ Rank[q.stage] \in Nat
  BY PubFields, Ranks
<1>2. /\ Intents(p) \in SUBSET Effects /\ Intents(q) \in SUBSET Effects
      /\ Seen(p) \in SUBSET Effects /\ Seen(q) \in SUBSET Effects
  BY RecordShows
<1>3. \A e \in Effects : (e \in Intents(p) <=> e \in Intents(q)) /\ (e \in Seen(p) <=> e \in Seen(q))
  BY <1>1, RecordShows DEF Effects
<1>4. QED BY <1>2, <1>3

(* A stage that records an intent.                                          *)
LEMMA ShowsIntent ==
  ASSUME NEW p \in PubType, NEW q \in PubType, q.invalidation = p.invalidation, NEW e,
         \/ e = "push" /\ Rank[p.stage] = 2 /\ Rank[q.stage] = 3
         \/ e = "pull" /\ Rank[p.stage] = 4 /\ Rank[q.stage] = 5
         \/ e = "check" /\ Rank[p.stage] = 6 /\ Rank[q.stage] = 7
  PROVE  Intents(q) = Intents(p) \cup {e} /\ e \notin Intents(p) /\ Seen(q) = Seen(p)
<1>1. /\ Intents(p) \in SUBSET Effects /\ Intents(q) \in SUBSET Effects
      /\ Seen(p) \in SUBSET Effects /\ Seen(q) \in SUBSET Effects
      /\ Intents(p) \cup {e} \in SUBSET Effects
  BY RecordShows DEF Effects
<1>2. \A f \in Effects : /\ f \in Intents(q) <=> f \in Intents(p) \/ f = e
                         /\ f \in Seen(p) <=> f \in Seen(q)
  BY RecordShows DEF Effects
<1>3. e \notin Intents(p)
  BY RecordShows
<1>4. QED BY <1>1, <1>2, <1>3

(* A stage that confirms an effect.                                         *)
LEMMA ShowsConfirmed ==
  ASSUME NEW p \in PubType, NEW q \in PubType, q.invalidation = p.invalidation, NEW e,
         \/ e = "push" /\ Rank[p.stage] = 3 /\ Rank[q.stage] = 4
         \/ e = "pull" /\ Rank[p.stage] = 5 /\ Rank[q.stage] = 6
         \/ e = "check" /\ Rank[p.stage] = 7 /\ Rank[q.stage] = 8
  PROVE  Seen(q) = Seen(p) \cup {e} /\ e \in Intents(p) \ Seen(p) /\ Intents(q) = Intents(p)
<1>1. /\ Intents(p) \in SUBSET Effects /\ Intents(q) \in SUBSET Effects
      /\ Seen(p) \in SUBSET Effects /\ Seen(q) \in SUBSET Effects
      /\ Seen(p) \cup {e} \in SUBSET Effects
  BY RecordShows DEF Effects
<1>2. \A f \in Effects : /\ f \in Seen(q) <=> f \in Seen(p) \/ f = e
                         /\ f \in Intents(p) <=> f \in Intents(q)
  BY RecordShows DEF Effects
<1>3. e \in Intents(p) \ Seen(p)
  BY RecordShows
<1>4. QED BY <1>1, <1>2, <1>3

(* The withdrawal is intended, and confirmed.                               *)
LEMMA ShowsWithdrawal ==
  ASSUME NEW p \in PubType, NEW q \in PubType, q.stage = p.stage
  PROVE  /\ p.invalidation = "none" /\ q.invalidation = "pending" =>
              Intents(q) = Intents(p) \cup {"patch"} /\ "patch" \notin Intents(p) /\ Seen(q) = Seen(p)
         /\ p.invalidation = "pending" /\ q.invalidation = "confirmed" =>
              /\ Seen(q) = Seen(p) \cup {"patch"} /\ "patch" \in Intents(p) \ Seen(p)
              /\ Intents(q) = Intents(p)
<1>1. /\ Intents(p) \in SUBSET Effects /\ Intents(q) \in SUBSET Effects
      /\ Seen(p) \in SUBSET Effects /\ Seen(q) \in SUBSET Effects
      /\ "patch" \in Effects
  BY RecordShows DEF Effects
<1>2. ASSUME p.invalidation = "none", q.invalidation = "pending"
      PROVE  Intents(q) = Intents(p) \cup {"patch"} /\ "patch" \notin Intents(p) /\ Seen(q) = Seen(p)
  <2>1. \A f \in Effects : /\ f \in Intents(q) <=> f \in Intents(p) \/ f = "patch"
                           /\ f \in Seen(p) <=> f \in Seen(q)
    BY <1>2, RecordShows DEF Effects
  <2>2. "patch" \notin Intents(p)
    BY <1>2, RecordShows
  <2>3. QED BY <1>1, <2>1, <2>2
<1>3. ASSUME p.invalidation = "pending", q.invalidation = "confirmed"
      PROVE  /\ Seen(q) = Seen(p) \cup {"patch"} /\ "patch" \in Intents(p) \ Seen(p)
             /\ Intents(q) = Intents(p)
  <2>1. \A f \in Effects : /\ f \in Seen(q) <=> f \in Seen(p) \/ f = "patch"
                           /\ f \in Intents(p) <=> f \in Intents(q)
    BY <1>3, RecordShows DEF Effects
  <2>2. "patch" \in Intents(p) \ Seen(p)
    BY <1>3, RecordShows
  <2>3. QED BY <1>1, <2>1, <2>2
<1>4. QED BY <1>2, <1>3

(* Which places belong to the withdrawal, and what a withdrawn check shows. *)
Voided ==
  /\ pc \in {"invalidate", "patch_send"} => pub.invalidated
  /\ pc = "sent" /\ answer.to = "patch" => pub.invalidated
  /\ pc = "patch_send" => pub.invalidation = "pending"
  /\ remote.check = "required" => made["patch"] = 1

(* The publisher looks, and is not withdrawing.                             *)
LEMMA VoidedLooks ==
  ASSUME IInv, Voided,
         \/ Poll \/ Begin \/ First \/ Build \/ Regate \/ Remote \/ Look \/ RemoteAgain
         \/ CheckPull \/ CheckAbsent \/ Find \/ Finish
  PROVE  Voided'
<1> USE DEF Observing
<1>1. pc' \notin {"sent", "patch_send"} /\ (pc' = "invalidate" => pub'.invalidated)
  BY DEF Poll, Begin, First, Build, Regate, AfterGate, Remote, Look, RemoteAgain, AfterRemote, CheckPull,
     CheckAbsent, Find, Finish, Proceed, Raise
<1>2. UNCHANGED <<remote, made>>
  BY DEF Poll, Begin, First, Build, Regate, Remote, Look, RemoteAgain, CheckPull, CheckAbsent, Find, Finish
<1>3. QED BY <1>1, <1>2 DEF Voided

(* Every step keeps that.                                                   *)
LEMMA VoidedStep ==
  ASSUME IInv, Voided, Step
  PROVE  Voided'
<1> USE DEF Observing, durable
<1>1. /\ pub \in PubType /\ remote \in RemoteType /\ answer.to \in Effects
      /\ \A e \in Effects : made[e] \in Nat /\ (e \in flight => made[e] = 1)
      /\ pub.invalidated \in BOOLEAN
  BY PubFields DEF IInv, TypeOK, Recorded, Flying
<1>2. CASE \/ Poll \/ Begin \/ First \/ Build \/ Regate \/ Remote \/ Look \/ RemoteAgain
           \/ CheckPull \/ CheckAbsent \/ Find \/ Finish
  BY <1>2, VoidedLooks
<1>3. CASE Push \/ SendPull \/ SendCheck
  BY <1>3 DEF Push, SendPull, SendCheck, Send, Raise, Effects, IInv, TypeOK, Voided
<1>4. CASE SendPatch
  <2>1. made["patch"] = 0 /\ pub.invalidated
    BY <1>4 DEF SendPatch, IInv, Knows, Voided
  <2>2. made'["patch"] = 1
    BY <1>4, <2>1 DEF SendPatch, Send, IInv, TypeOK, Effects
  <2>3. QED BY <1>4, <2>1, <2>2 DEF SendPatch, Send, Voided
<1>5. CASE Answered \/ Unanswered
  BY <1>1, <1>5 DEF Answered, AfterAnswer, Unanswered, Effects, Voided
<1>6. CASE Block
  <2>1. pc' = "invalidate" => pub'.invalidated
    BY <1>1, <1>6 DEF Block, PubType
  <2>2. QED BY <1>6, <2>1 DEF Block, Voided
<1>7. CASE Invalidate
  <2>1. /\ pub'.invalidated = pub.invalidated
        /\ pc' = "patch_send" => pub'.invalidation = "pending"
        /\ pc' # "sent" /\ UNCHANGED <<remote, made>>
    BY <1>1, <1>7, WithdrawFields DEF Invalidate
  <2>2. QED BY <1>7, <2>1 DEF Invalidate, Voided
<1>8. CASE ReadFails \/ Crash
  BY <1>8 DEF ReadFails, Crash, Raise, Voided
<1>9. CASE \E e \in Effects : Happen(e) \/ Vanish(e)
  <2>1. PICK e \in Effects : Happen(e) \/ Vanish(e)
    BY <1>9
  <2>2. UNCHANGED <<pub, pc, made>> /\ answer'.to = answer.to
    <3>1. [answer EXCEPT !.is = IF Accepted(e) THEN "ok" ELSE "refused"].to = answer.to
      BY DEF IInv, TypeOK
    <3>2. QED BY <2>1, <3>1 DEF Happen, Vanish
  <2>3. remote'.check = "required" => remote.check = "required" \/ (e = "patch" /\ e \in flight)
    <3>1. remote' = remote \/ (remote' = Outcome(e) /\ e \in flight)
      BY <2>1 DEF Happen, Vanish
    <3>2. CASE remote' = Outcome(e) /\ e \in flight
      BY <1>1, <3>2, HeadMoves, PullMoves, CheckMoves DEF Outcome, Effects
    <3>3. QED BY <3>1, <3>2
  <2>4. QED BY <1>1, <2>2, <2>3 DEF Voided, Effects
<1>10. CASE Others
  <2>1. UNCHANGED <<pub, pc, made, answer>>
    BY <1>10, RecordedOthers DEF IInv
  <2>2. remote'.check = remote.check
    BY <1>1, <1>10, BaseMoves, HeadMoves, PullMoves
    DEF Others, Stop, Resume, Amend, Approve, Stand, Edit, TakeUp, ReadyAgain, Decide, Tamper, MoveBase, MoveHead,
      TouchPull
  <2>3. QED BY <2>1, <2>2 DEF Voided
<1>11. QED
  BY <1>2, <1>3, <1>4, <1>5, <1>6, <1>7, <1>8, <1>9, <1>10 DEF Step, Publisher

(* The withdrawal holds in every reachable state.                           *)
LEMMA VoidedAlways == Spec => []Voided
<1>1. Init => Voided
  BY DEF Init, Voided
<1>2. IInv /\ Voided /\ [Next]_vars => Voided'
  <2>1. CASE UNCHANGED vars
    BY <2>1 DEF vars, durable, Voided
  <2>2. QED BY <2>1, VoidedStep DEF Next
<1>3. QED BY Invariant, <1>1, <1>2, PTL DEF Spec

(* The record advances by a stage, or over stages that show nothing.        *)
LEMMA BoxAdvances ==
  ASSUME IInv, pub' \in PubType, ~pub.invalidated, UNCHANGED made,
         pub'.invalidated = pub.invalidated, pub'.invalidation = pub.invalidation,
         \/ pub'.stage = pub.stage
         \/ Rank[pub.stage] <= 2 /\ Rank[pub'.stage] <= 2
         \/ Rank[pub.stage] = 2 /\ Rank[pub'.stage] = 3
         \/ Rank[pub.stage] = 4 /\ Rank[pub'.stage] = 5
         \/ Rank[pub.stage] = 6 /\ Rank[pub'.stage] = 7
         \/ Rank[pub.stage] = 3 /\ Rank[pub'.stage] = 4 /\ remote.head = "candidate"
         \/ Rank[pub.stage] = 5 /\ Rank[pub'.stage] = 6 /\ remote.pull = "ours"
         \/ Rank[pub.stage] = 7 /\ Rank[pub'.stage] = 8 /\ remote.check # "none"
  PROVE  [Box!Next]_Box!vars
<1>1. /\ pub \in PubType /\ Rank[pub.stage] \in Nat /\ Rank[pub'.stage] \in Nat
      /\ Rank["push_pending"] = 3 /\ Rank["pr_pending"] = 5 /\ Rank["check_pending"] = 7
      /\ IntentFirst /\ Shown /\ \A e \in Effects : made[e] \in Nat
      /\ Box!Effects = Effects /\ Effects = {"push", "pull", "check", "patch"}
      /\ pub.invalidated = FALSE
  BY PubFields, Ranks DEF IInv, TypeOK, Recorded, Effects, Box!Effects
<1>2. ASSUME Intents(pub') = Intents(pub), Seen(pub') = Seen(pub)
      PROVE  [Box!Next]_Box!vars
  BY <1>2 DEF Box!vars
<1>3. ASSUME NEW e \in {"push", "pull", "check"}, Intents(pub') = Intents(pub) \cup {e}, e \notin Intents(pub),
             Seen(pub') = Seen(pub), made[e] = 0, Box!Before[e] \subseteq Seen(pub)
      PROVE  [Box!Next]_Box!vars
  <2>1. Box!Due(e)
    BY <1>1 DEF Box!Due
  <2>2. Box!Intend(e)
    BY <1>3, <2>1 DEF Box!Intend
  <2>3. QED BY <1>1, <1>3, <2>2 DEF Box!Next
<1>4. ASSUME NEW e \in {"push", "pull", "check"}, Seen(pub') = Seen(pub) \cup {e}, e \in Intents(pub) \ Seen(pub),
             Intents(pub') = Intents(pub), made[e] = 1
      PROVE  [Box!Next]_Box!vars
  <2>1. Box!Due(e)
    BY <1>1 DEF Box!Due
  <2>2. Box!Confirm(e)
    BY <1>4, <2>1 DEF Box!Confirm
  <2>3. QED BY <1>1, <1>4, <2>2 DEF Box!Next
<1>5. CASE pub'.stage = pub.stage \/ (Rank[pub.stage] <= 2 /\ Rank[pub'.stage] <= 2)
  BY <1>1, <1>2, <1>5, ShowsSame
<1>6. CASE Rank[pub.stage] = 2 /\ Rank[pub'.stage] = 3
  <2>1. made["push"] = 0 /\ Box!Before["push"] = {}
    BY <1>1, <1>6 DEF IntentFirst, Box!Before
  <2>2. /\ Intents(pub') = Intents(pub) \cup {"push"} /\ "push" \notin Intents(pub)
        /\ Seen(pub') = Seen(pub)
    BY <1>1, <1>6, ShowsIntent
  <2>3. QED BY <1>3, <2>1, <2>2
<1>7. CASE Rank[pub.stage] = 4 /\ Rank[pub'.stage] = 5
  <2>1. made["pull"] = 0 /\ Box!Before["pull"] = {"push"} /\ "push" \in Seen(pub)
    BY <1>1, <1>7, RecordShows DEF IntentFirst, Box!Before
  <2>2. /\ Intents(pub') = Intents(pub) \cup {"pull"} /\ "pull" \notin Intents(pub)
        /\ Seen(pub') = Seen(pub)
    BY <1>1, <1>7, ShowsIntent
  <2>3. QED BY <1>3, <2>1, <2>2
<1>8. CASE Rank[pub.stage] = 6 /\ Rank[pub'.stage] = 7
  <2>1. /\ made["check"] = 0 /\ Box!Before["check"] = {"push", "pull"}
        /\ "push" \in Seen(pub) /\ "pull" \in Seen(pub)
    BY <1>1, <1>8, RecordShows DEF IntentFirst, Box!Before
  <2>2. /\ Intents(pub') = Intents(pub) \cup {"check"} /\ "check" \notin Intents(pub)
        /\ Seen(pub') = Seen(pub)
    BY <1>1, <1>8, ShowsIntent
  <2>3. QED BY <1>3, <2>1, <2>2
<1>9. CASE Rank[pub.stage] = 3 /\ Rank[pub'.stage] = 4 /\ remote.head = "candidate"
  <2>1. made["push"] = 1
    BY <1>1, <1>9 DEF Shown, Landed
  <2>2. /\ Seen(pub') = Seen(pub) \cup {"push"} /\ "push" \in Intents(pub) \ Seen(pub)
        /\ Intents(pub') = Intents(pub)
    BY <1>1, <1>9, ShowsConfirmed
  <2>3. QED BY <1>4, <2>1, <2>2
<1>10. CASE Rank[pub.stage] = 5 /\ Rank[pub'.stage] = 6 /\ remote.pull = "ours"
  <2>1. made["pull"] = 1
    BY <1>1, <1>10 DEF Shown, Landed
  <2>2. /\ Seen(pub') = Seen(pub) \cup {"pull"} /\ "pull" \in Intents(pub) \ Seen(pub)
        /\ Intents(pub') = Intents(pub)
    BY <1>1, <1>10, ShowsConfirmed
  <2>3. QED BY <1>4, <2>1, <2>2
<1>11. CASE Rank[pub.stage] = 7 /\ Rank[pub'.stage] = 8 /\ remote.check # "none"
  <2>1. made["check"] = 1
    BY <1>1, <1>11 DEF Shown, Landed
  <2>2. /\ Seen(pub') = Seen(pub) \cup {"check"} /\ "check" \in Intents(pub) \ Seen(pub)
        /\ Intents(pub') = Intents(pub)
    BY <1>1, <1>11, ShowsConfirmed
  <2>3. QED BY <1>4, <2>1, <2>2
<1>12. QED BY <1>5, <1>6, <1>7, <1>8, <1>9, <1>10, <1>11

(* Where the record does not move and nothing leaves, the outbox stands.    *)
LEMMA BoxStands ==
  ASSUME UNCHANGED <<pub, made>>
  PROVE  [Box!Next]_Box!vars
BY DEF Box!vars

(* What the publisher makes of what it sees.                                *)
LEMMA LooksKeepOutbox ==
  ASSUME IInv,
         \/ Begin \/ First \/ Build \/ Regate \/ Remote \/ Look \/ RemoteAgain
         \/ CheckPull \/ CheckAbsent \/ Find \/ Finish
  PROVE  [Box!Next]_Box!vars
<1> USE DEF Observing, Publishing, Reading
<1>1. /\ pub \in PubType /\ pub.stage \in Stages /\ plan.basis \in BasisType /\ plan.digest \in Digests
      /\ Knows /\ Shown /\ IntentFirst
  BY PubFields DEF IInv, TypeOK, Recorded
<1>2. \A s \in Stages : /\ At(s) \in PubType /\ At(s).stage = s
                        /\ At(s).invalidated = pub.invalidated
                        /\ At(s).invalidation = pub.invalidation
  BY <1>1, AtFields
<1>3. {"push_pending", "push_confirmed", "pr_pending", "pr_confirmed", "check_pending"} \subseteq Stages
  BY DEF Stages
<1>4. UNCHANGED made
  BY DEF Begin, First, Build, Regate, Remote, Look, RemoteAgain, CheckPull, CheckAbsent, Find, Finish
<1>5. CASE pub' = pub
  BY <1>4, <1>5, BoxStands
<1>6. CASE First /\ pub' # pub
  <2>1. /\ pub' \in PubType /\ pub'.stage = "candidate_pending" /\ ~pub'.invalidated
        /\ pub'.invalidation = "none" /\ pub.stage = "none" /\ ~pub.invalidated
        /\ pub.invalidation = "none"
    BY <1>1, <1>6, FirstFields DEF First, Proceed, Raise, Knows
  <2>2. pub'.invalidated = pub.invalidated
    BY <1>1, <2>1, PubFields
  <2>3. QED BY <1>4, <2>1, <2>2, Ranks, BoxAdvances
<1>7. CASE Build /\ pub' # pub
  <2>1. /\ pub' \in PubType /\ pub'.stage = "candidate_confirmed" /\ pub'.invalidated = pub.invalidated
        /\ pub'.invalidation = pub.invalidation /\ pub.stage = "candidate_pending" /\ ~pub.invalidated
    BY <1>1, <1>7, CandidateFields DEF Build, Proceed, Raise, Knows
  <2>2. QED BY <1>4, <2>1, Ranks, BoxAdvances
<1>8. ASSUME NEW s \in Stages, pub' = At(s), ~pub.invalidated,
             \/ pub.stage = "candidate_confirmed" /\ s = "push_pending"
             \/ pub.stage = "push_pending" /\ s = "push_confirmed" /\ remote.head = "candidate"
             \/ pub.stage = "push_confirmed" /\ s = "pr_pending"
             \/ pub.stage = "pr_pending" /\ s = "pr_confirmed" /\ remote.pull = "ours"
             \/ pub.stage = "pr_confirmed" /\ s = "check_pending"
      PROVE  [Box!Next]_Box!vars
  <2>1. /\ pub' \in PubType /\ pub'.stage = s /\ pub'.invalidated = pub.invalidated
        /\ pub'.invalidation = pub.invalidation
    BY <1>2, <1>8
  <2>2. QED BY <1>4, <1>8, <2>1, Ranks, BoxAdvances
<1>9. CASE Remote /\ pub' # pub
  <2>1. ~pub.invalidated
    BY <1>1, <1>9 DEF Remote, Knows
  <2>2. \/ pub.stage = "candidate_confirmed" /\ pub' = At("push_pending")
        \/ pub.stage = "push_pending" /\ pub' = At("push_confirmed") /\ remote.head = "candidate"
    BY <1>9 DEF Remote, Proceed, Raise, Verdict, Refs
  <2>3. QED BY <1>3, <1>8, <2>1, <2>2
<1>10. CASE Look /\ pub' # pub
  <2>1. ~pub.invalidated
    BY <1>1, <1>10 DEF Look, Knows
  <2>2. pub.stage = "pr_pending" /\ pub' = At("pr_confirmed") /\ remote.pull = "ours"
    BY <1>10 DEF Look, Proceed, Raise, Verdict, PullOurs
  <2>3. QED BY <1>3, <1>8, <2>1, <2>2
<1>11. CASE RemoteAgain /\ pub' # pub
  <2>1. pub' = At("pr_pending") /\ pc = "pr_remote"
    BY <1>11 DEF RemoteAgain, Proceed, Raise
  <2>2. ~pub.invalidated /\ pub.stage = "push_confirmed"
    BY <1>1, <2>1 DEF Knows
  <2>3. QED BY <1>3, <1>8, <2>1, <2>2
<1>12. CASE CheckPull /\ pub' # pub
  <2>1. pub' = At("check_pending")
    BY <1>12 DEF CheckPull, Proceed, Raise
  <2>2. ~pub.invalidated /\ pub.stage = "pr_confirmed"
    BY <1>1, <1>12 DEF CheckPull, Knows
  <2>3. QED BY <1>3, <1>8, <2>1, <2>2
<1>13. CASE Finish /\ pub' # pub
  <2>1. /\ pub' \in PubType /\ pub'.stage = "complete" /\ pub'.invalidated = pub.invalidated
        /\ pub'.invalidation = pub.invalidation /\ ~pub.invalidated /\ remote.check # "none"
    BY <1>1, <1>13, CompleteFields DEF Finish, Proceed, Raise, Knows
  <2>2. pub.stage = "check_pending" \/ pub.stage = "complete"
    <3>1. Rank[pub.stage] >= 7
      BY <1>1, <2>1, Ranks DEF Shown, Landed, IntentFirst
    <3>2. QED BY <1>1, <3>1, Ranks DEF Stages
  <2>3. QED BY <1>4, <2>1, <2>2, Ranks, BoxAdvances
<1>14. pub' # pub => First \/ Build \/ Remote \/ Look \/ RemoteAgain \/ CheckPull \/ Finish
  BY DEF Begin, Regate, CheckAbsent, Find, Proceed, Raise
<1>15. QED BY <1>5, <1>6, <1>7, <1>9, <1>10, <1>11, <1>12, <1>13, <1>14

(* A request leaves.                                                        *)
LEMMA SendsKeepOutbox ==
  ASSUME IInv, Voided, Push \/ SendPull \/ SendCheck \/ SendPatch
  PROVE  [Box!Next]_Box!vars
<1>1. /\ pub \in PubType /\ pub.invalidated \in BOOLEAN /\ Knows /\ made \in [Effects -> Nat]
      /\ Box!Effects = Effects /\ Effects = {"push", "pull", "check", "patch"}
  BY PubFields DEF IInv, TypeOK, Effects, Box!Effects
<1>2. CASE Push /\ Raise("invalid") /\ Observing
  BY <1>2, BoxStands DEF Raise, Observing
<1>3. ASSUME NEW e \in Effects, Send(e), made[e] = 0, e \in Intents(pub) \ Seen(pub),
             pub.invalidated = (e = "patch")
      PROVE  [Box!Next]_Box!vars
  <2>1. made' = [made EXCEPT ![e] = 1] /\ UNCHANGED pub
    BY <1>3 DEF Send
  <2>2. Box!Send(e)
    BY <1>3, <2>1 DEF Box!Send, Box!Due
  <2>3. QED BY <1>1, <2>2 DEF Box!Next
<1>4. CASE Push /\ Send("push")
  <2>1. made["push"] = 0 /\ pub.stage = "push_pending" /\ ~pub.invalidated
    BY <1>1, <1>4 DEF Push, Knows, Publishing, Reading
  <2>2. "push" \in Intents(pub) \ Seen(pub)
    BY <1>1, <2>1, RecordShows, Ranks
  <2>3. QED BY <1>1, <1>3, <1>4, <2>1, <2>2
<1>5. CASE SendPull
  <2>1. made["pull"] = 0 /\ pub.stage = "pr_pending" /\ ~pub.invalidated
    BY <1>1, <1>5 DEF SendPull, Knows, Publishing
  <2>2. "pull" \in Intents(pub) \ Seen(pub)
    BY <1>1, <2>1, RecordShows, Ranks
  <2>3. QED BY <1>1, <1>3, <1>5, <2>1, <2>2 DEF SendPull
<1>6. CASE SendCheck
  <2>1. made["check"] = 0 /\ pub.stage = "check_pending" /\ ~pub.invalidated
    BY <1>1, <1>6 DEF SendCheck, Knows, Publishing
  <2>2. "check" \in Intents(pub) \ Seen(pub)
    BY <1>1, <2>1, RecordShows, Ranks
  <2>3. QED BY <1>1, <1>3, <1>6, <2>1, <2>2 DEF SendCheck
<1>7. CASE SendPatch
  <2>1. made["patch"] = 0 /\ pub.invalidated /\ pub.invalidation = "pending"
    BY <1>1, <1>7 DEF SendPatch, Knows, Voided
  <2>2. "patch" \in Intents(pub) \ Seen(pub)
    BY <1>1, <2>1, RecordShows
  <2>3. QED BY <1>1, <1>3, <1>7, <2>1, <2>2 DEF SendPatch
<1>8. QED BY <1>2, <1>4, <1>5, <1>6, <1>7 DEF Push

(* The publication is invalidated, and its check withdrawn.                 *)
LEMMA WithdrawalKeepsOutbox ==
  ASSUME IInv, Voided, Block \/ Invalidate
  PROVE  [Box!Next]_Box!vars
<1>1. /\ pub \in PubType /\ pub.invalidated \in BOOLEAN /\ IntentFirst
      /\ pub.invalidation \in {"none", "pending", "confirmed"} /\ made \in [Effects -> Nat]
      /\ "patch" \in Effects /\ Box!Effects = Effects /\ Rank["check_pending"] = 7
      /\ UNCHANGED made
  BY PubFields, Ranks DEF IInv, TypeOK, Recorded, Effects, Box!Effects, Block, Invalidate, Observing
<1>2. CASE Block
  <2>1. /\ pub' \in PubType /\ pub'.stage = pub.stage /\ pub'.invalidation = pub.invalidation
        /\ pub'.invalidated \in BOOLEAN /\ (pub.invalidated => pub'.invalidated)
    <3>1. pub' = [pub EXCEPT !.status = "blocked", !.invalidated = pub.invalidated \/ code = "invalid"]
      BY <1>2 DEF Block
    <3>2. /\ pub' \in PubType /\ pub'.stage = pub.stage /\ pub'.invalidation = pub.invalidation
      BY <1>1, <3>1, BlockFields
    <3>3. pub'.invalidated = (pub.invalidated \/ code = "invalid")
      BY <1>1, <3>1, Zenon DEF PubType
    <3>4. QED BY <1>1, <3>2, <3>3
  <2>2. Intents(pub') = Intents(pub) /\ Seen(pub') = Seen(pub)
    BY <1>1, <2>1, ShowsSame
  <2>3. CASE pub'.invalidated = pub.invalidated
    BY <1>1, <2>2, <2>3 DEF Box!vars
  <2>4. CASE ~pub.invalidated /\ pub'.invalidated
    <3>1. Box!Invalidate
      BY <1>1, <2>1, <2>2, <2>4 DEF Box!Invalidate
    <3>2. QED BY <3>1 DEF Box!Next
  <2>5. QED BY <1>1, <2>1, <2>3, <2>4
<1>3. CASE Invalidate
  <2>1. pub.invalidated
    BY <1>3 DEF Invalidate, Voided
  <2>2. \/ pub' = pub
        \/ pub' = [pub EXCEPT !.checked = TRUE]
        \/ /\ pub.invalidation = "none" /\ Rank[pub.stage] >= 7
           /\ pub' = [pub EXCEPT !.invalidation = "pending"]
        \/ /\ pub.invalidation = "pending" /\ remote.check = "required"
           /\ pub' = [pub EXCEPT !.invalidation = "confirmed"]
    BY <1>1, <1>3 DEF Invalidate, CheckReads
  <2>3. CASE pub' = pub
    BY <1>1, <2>3, BoxStands
  <2>4. CASE pub' = [pub EXCEPT !.checked = TRUE]
    <3>1. /\ pub' \in PubType /\ pub'.stage = pub.stage /\ pub'.invalidation = pub.invalidation
          /\ pub'.invalidated = pub.invalidated
      BY <1>1, <2>4, WithdrawFields
    <3>2. Intents(pub') = Intents(pub) /\ Seen(pub') = Seen(pub)
      BY <1>1, <3>1, ShowsSame
    <3>3. QED BY <1>1, <3>1, <3>2 DEF Box!vars
  <2>5. CASE /\ pub.invalidation = "none" /\ Rank[pub.stage] >= 7
             /\ pub' = [pub EXCEPT !.invalidation = "pending"]
    <3>1. /\ pub' \in PubType /\ pub'.stage = pub.stage /\ pub'.invalidation = "pending"
          /\ pub'.invalidated = pub.invalidated
      BY <1>1, <2>5, WithdrawFields
    <3>2. /\ Intents(pub') = Intents(pub) \cup {"patch"} /\ "patch" \notin Intents(pub)
          /\ Seen(pub') = Seen(pub)
      BY <1>1, <2>5, <3>1, ShowsWithdrawal
    <3>3. made["patch"] = 0 /\ "check" \in Intents(pub)
      BY <1>1, <2>5, RecordShows DEF IntentFirst
    <3>4. Box!Intend("patch")
      BY <1>1, <2>1, <3>1, <3>2, <3>3 DEF Box!Intend, Box!Due, Box!Before
    <3>5. QED BY <1>1, <3>4 DEF Box!Next
  <2>6. CASE /\ pub.invalidation = "pending" /\ remote.check = "required"
             /\ pub' = [pub EXCEPT !.invalidation = "confirmed"]
    <3>1. /\ pub' \in PubType /\ pub'.stage = pub.stage /\ pub'.invalidation = "confirmed"
          /\ pub'.invalidated = pub.invalidated
      BY <1>1, <2>6, WithdrawFields
    <3>2. /\ Seen(pub') = Seen(pub) \cup {"patch"} /\ "patch" \in Intents(pub) \ Seen(pub)
          /\ Intents(pub') = Intents(pub)
      BY <1>1, <2>6, <3>1, ShowsWithdrawal
    <3>3. made["patch"] = 1
      BY <2>6 DEF Voided
    <3>4. Box!Confirm("patch")
      BY <1>1, <2>1, <3>1, <3>2, <3>3 DEF Box!Confirm, Box!Due
    <3>5. QED BY <1>1, <3>4 DEF Box!Next
  <2>7. QED BY <2>2, <2>3, <2>4, <2>5, <2>6
<1>4. QED BY <1>2, <1>3

(* On record and on GitHub the publication is an outbox that sends each     *)
(* effect once, after its intent and after what it rests on was seen, and   *)
(* nothing but the withdrawal once it is invalidated (_run, _publish,       *)
(* _block, _invalidate_check).                                              *)
THEOREM ImplementsOutbox == Spec => KeepsOutbox
<1>1. Init => Box!Init
  <2> SUFFICES ASSUME Init PROVE Box!Init
    OBVIOUS
  <2>1. pub \in PubType /\ pub.stage = "none" /\ pub.invalidation = "none" /\ ~pub.invalidated
        /\ pub.invalidated \in BOOLEAN
    BY TypeInit DEF TypeOK, Init, NoPub
  <2>2. Intents(pub) = {} /\ Seen(pub) = {}
    BY <2>1, RecordShows, Ranks DEF Effects
  <2>3. QED BY <2>1, <2>2 DEF Init, Box!Init, Box!Effects, Effects
<1>2. IInv /\ Voided /\ [Next]_vars => [Box!Next]_Box!vars
  <2> SUFFICES ASSUME IInv, Voided, [Next]_vars PROVE [Box!Next]_Box!vars
    OBVIOUS
  <2>1. CASE UNCHANGED vars
    BY <2>1, BoxStands DEF vars, durable
  <2>2. CASE Poll \/ Answered \/ Unanswered \/ ReadFails \/ Crash
    BY <2>2, BoxStands DEF Poll, Observing, Answered, Unanswered, ReadFails, Raise, Crash, durable
  <2>3. CASE (\E e \in Effects : Happen(e) \/ Vanish(e))
    BY <2>3, BoxStands DEF Happen, Vanish, durable
  <2>4. CASE Others
    BY <2>4, BoxStands, RecordedOthers DEF IInv
  <2>5. QED
    BY <2>1, <2>2, <2>3, <2>4, LooksKeepOutbox, SendsKeepOutbox, WithdrawalKeepsOutbox
    DEF Next, Step, Publisher
<1>3. QED BY Invariant, VoidedAlways, <1>1, <1>2, PTL DEF Spec, KeepsOutbox, Box!Spec
=============================================================================
