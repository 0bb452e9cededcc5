----------------------------- MODULE Publication -----------------------------
(***************************************************************************)
(* ai_dlc/publishing/ and github/publishing.py: one verified task becomes  *)
(* a branch, a draft pull request and a check on GitHub.  The publisher of *)
(* a task runs under a lock of its own, so that people, the agent and      *)
(* everybody with access to the repository move between any two of its     *)
(* steps.  Each remote effect is preceded by the commit of its intent; the *)
(* service may stop anywhere, and an answer may be lost while its effect   *)
(* happens, happens later or never does.                                   *)
(*                                                                         *)
(* A step is one observation (the gate, the refs, the pull request, the    *)
(* check) with the commit that follows it, or one request.  What the gate  *)
(* asks of the agent's records (review, runs, plans) is their result here: *)
(* the digest the agent verified.                                          *)
(***************************************************************************)
EXTENDS Naturals

CONSTANTS
  Digests,                           \* contents of the workspace
  MaxPeople, MaxOutside, MaxFaults   \* bounds, in the guards

ASSUME BoundsType == MaxPeople \in Nat /\ MaxOutside \in Nat /\ MaxFaults \in Nat
ASSUME DigestsType == Digests # {} /\ "none" \notin Digests

VARIABLES
  task,     \* what the gate reads of the task
  files,    \* the digest of the workspace
  pub,      \* the durable publication record; NoPub before the first
  remote,   \* the repository on GitHub
  pc, code, \* the publisher's next step, and why it failed
  plan,     \* the basis and digest the first gate of a publication saw
  flight,   \* requests that may still take effect
  answer,   \* the answer to the request the publisher waits for
  made,     \* how often each request was sent
  late,     \* requests sent since they were last authorised
  spent     \* disturbances so far

durable == <<task, files, pub, remote, made>>
vars == <<durable, pc, code, plan, flight, answer, late, spent>>

Effects == {"push", "pull", "check", "patch"}
Rank == [none |-> 0, candidate_pending |-> 1, candidate_confirmed |-> 2, push_pending |-> 3,
         push_confirmed |-> 4, pr_pending |-> 5, pr_confirmed |-> 6, check_pending |-> 7,
         complete |-> 8]

BasisType == [grant : Nat, epoch : Nat]
(* What GitHub shows of the evidence: all of it, a comment edited since it  *)
(* was accepted, or something of it gone.                                   *)
Standing == {"yes", "edited", "no"}

TaskType ==
  [granted : BOOLEAN, standing : Standing, paused : BOOLEAN, grant : Nat, epoch : Nat,
   agent : {"ready", "rework", "blocked"}, verified : Digests]
PubType ==
  [stage : DOMAIN Rank, status : {"none", "running", "blocked", "published"}, basis : BasisType,
   candidate : Digests \cup {"none"}, checked : BOOLEAN, invalidated : BOOLEAN,
   invalidation : {"none", "pending", "confirmed"}]
RemoteType ==
  [base : {"same", "moved"}, head : {"none", "candidate", "foreign"},
   pull : {"none", "ours", "edited", "closed", "foreign"}, check : {"none", "success", "required"}]
NoPub ==
  [stage |-> "none", status |-> "none", basis |-> [grant |-> 0, epoch |-> 0],
   candidate |-> "none", checked |-> FALSE, invalidated |-> FALSE, invalidation |-> "none"]

Reading == {"begin", "first", "build", "gate", "remote", "push_gate", "push", "look",
            "pr_gate", "pr_remote", "pr_gate2", "check_gate", "check_remote", "check_pull",
            "check_absent", "check_gate2", "find", "fin_gate", "fin_remote", "fin_pull"}
Sending == {"pr_send", "check_send", "patch_send"}
Steps == Reading \cup Sending \cup {"idle", "sent", "failed", "invalidate"}

TypeOK ==
  /\ task \in TaskType
  /\ files \in Digests
  /\ pub \in PubType
  /\ remote \in RemoteType
  /\ pc \in Steps
  /\ code \in {"none", "invalid", "other"}
  /\ plan \in [basis : BasisType, digest : Digests]
  /\ flight \in SUBSET Effects
  /\ answer \in [to : Effects, is : {"none", "ok", "refused"}]
  /\ made \in [Effects -> Nat]
  /\ late \in Nat
  /\ spent \in [people : Nat, outside : Nat, faults : Nat]

Basis == [grant |-> task.grant, epoch |-> task.epoch]

Init ==
  /\ files \in Digests
  /\ task = [granted |-> TRUE, standing |-> "yes", paused |-> FALSE, grant |-> 0, epoch |-> 0,
             agent |-> "ready", verified |-> files]
  /\ pub = NoPub
  /\ remote = [base |-> "same", head |-> "none", pull |-> "none", check |-> "none"]
  /\ pc = "idle" /\ code = "none"
  /\ plan = [basis |-> Basis, digest |-> files]
  /\ flight = {} /\ answer = [to |-> "push", is |-> "none"]
  /\ made = [e \in Effects |-> 0]
  /\ late = 0
  /\ spent = [people |-> 0, outside |-> 0, faults |-> 0]

-----------------------------------------------------------------------------
(* Observations.  A verdict is "pass", or the kind of code that is raised:  *)
(* "invalid" for one of INVALIDATING, "other" for the rest.                 *)
(* Mutant: the approvals are not compared with those of the publication.    *)
GateWithoutBasis ==
  IF ~task.granted \/ task.standing = "no" \/ task.paused THEN "invalid"
  ELSE IF task.standing = "edited" \/ task.agent # "ready" THEN "other"
  ELSE IF files # task.verified \/ pub.candidate \notin {"none", files} THEN "invalid"
  ELSE "pass"

(* _gate                                                                    *)
Gate ==
  IF ~task.granted \/ task.standing = "no" \/ task.paused THEN "invalid"
  ELSE IF task.standing = "edited" \/ task.agent # "ready" THEN "other"
  ELSE IF files # task.verified THEN "invalid"
  ELSE IF pub # NoPub /\ (pub.candidate \notin {"none", files} \/ pub.basis # Basis) THEN "invalid"
  ELSE "pass"

Verdict(condition, kind) == IF condition THEN "pass" ELSE kind

Refs(head) == remote.base = "same" /\ remote.head = head

(* The pull request of the task, by its marker or its branch.               *)
PullAbsent == remote.pull = "none"
PullOurs == remote.pull = "ours" /\ remote.head = "candidate"

(* The check of the candidate, and whether it reads as it was written.      *)
CheckMissing == remote.check = "none"
CheckReads(conclusion) == remote.check = conclusion

(* The publisher goes on, or raises: without a record the error leaves run. *)
Raise(kind) ==
  /\ pc' = IF pub = NoPub THEN "idle" ELSE "failed"
  /\ code' = kind
  /\ UNCHANGED pub

Proceed(verdict, step, record) ==
  \/ verdict = "pass" /\ pc' = step /\ pub' = record /\ UNCHANGED code
  \/ verdict # "pass" /\ Raise(verdict)

Observing == UNCHANGED <<task, files, remote, made, flight, answer, spent>>

At(stage) == [pub EXCEPT !.stage = stage]

-----------------------------------------------------------------------------
(* The driver submits a task that is ready or has been published.           *)
Poll ==
  /\ pc = "idle"
  /\ pub # NoPub \/ task.agent = "ready"
  /\ pc' = IF pub.invalidated THEN "invalidate" ELSE "begin"
  /\ code' = "none"
  /\ UNCHANGED <<pub, plan>> /\ Observing

Begin ==
  /\ pc = "begin"
  /\ plan' = [basis |-> Basis, digest |-> task.verified]
  /\ Proceed(IF Gate = "pass" /\ pub.stage = "candidate_pending" THEN "other" ELSE Gate,
             IF pub = NoPub THEN "first" ELSE "gate", pub)
  /\ Observing

First ==
  /\ pc = "first"
  /\ Proceed(Verdict(Refs("none") /\ PullAbsent, "invalid"), "build",
             [NoPub EXCEPT !.stage = "candidate_pending", !.status = "running",
                           !.basis = plan.basis])
  /\ Observing /\ UNCHANGED plan

(* Without requirements to render, an error that is no AgentError leaves    *)
(* run: the record stays as it is.                                          *)
Unrenderable == ~task.granted
Candidate == [pub EXCEPT !.candidate = plan.digest, !.stage = "candidate_confirmed"]
Build ==
  /\ pc = "build"
  /\ \/ Proceed(Verdict(Refs("none") /\ files = plan.digest, "invalid"), "gate", Candidate)
     \/ Unrenderable /\ pc' = "idle" /\ UNCHANGED <<pub, code>>
  /\ Observing /\ UNCHANGED plan

AfterGate ==
  [gate |-> "remote", push_gate |-> "push", pr_gate |-> "pr_remote", pr_gate2 |-> "pr_send",
   check_gate |-> "check_remote", check_gate2 |-> "check_send", fin_gate |-> "fin_remote"]

Regate ==
  /\ pc \in DOMAIN AfterGate
  /\ Proceed(Gate, AfterGate[pc], pub)
  /\ Observing /\ UNCHANGED plan

(* Mutant: a push that left nothing behind is tried again.                  *)
RemoteRetrying ==
  /\ pc = "remote"
  /\ \/ /\ pub.stage \in {"candidate_confirmed", "push_pending"} /\ ~Refs("candidate")
        /\ Proceed(Verdict(Refs("none"), "invalid"), "push_gate", At("push_pending"))
     \/ /\ Refs("candidate")
        /\ Proceed("pass", "look", IF pub.stage = "push_pending" THEN At("push_confirmed") ELSE pub)
  /\ Observing /\ UNCHANGED plan

(* The refs before and after the push: an absent head after the intent says *)
(* nothing of whether the push will still happen.                           *)
Remote ==
  /\ pc = "remote"
  /\ \/ /\ pub.stage = "candidate_confirmed"
        /\ Proceed(Verdict(Refs("none"), "invalid"), "push_gate", At("push_pending"))
     \/ /\ pub.stage = "push_pending"
        /\ Proceed(IF Refs("none") THEN "other" ELSE Verdict(Refs("candidate"), "invalid"),
                   "look", At("push_confirmed"))
     \/ /\ pub.stage \notin {"candidate_confirmed", "push_pending"}
        /\ Proceed(Verdict(Refs("candidate"), "invalid"), "look", pub)
  /\ Observing /\ UNCHANGED plan

(* Mutant: a pull request that is there already is a conflict.              *)
LookForConflict ==
  /\ pc = "look"
  /\ \/ /\ pub.stage \in {"push_confirmed", "pr_pending"}
        /\ Proceed(IF PullOurs THEN "other" ELSE Verdict(PullAbsent, "invalid"), "pr_gate", pub)
     \/ /\ pub.stage = "pr_confirmed"
        /\ Proceed(Verdict(PullOurs, "invalid"), "check_gate", pub)
     \/ /\ pub.stage \in {"check_pending", "complete"}
        /\ Proceed(Verdict(PullOurs, "invalid"), "find", pub)
  /\ Observing /\ UNCHANGED plan

Look ==
  /\ pc = "look"
  /\ \/ /\ pub.stage = "push_confirmed"
        /\ Proceed(IF PullOurs THEN "other" ELSE Verdict(PullAbsent, "invalid"), "pr_gate", pub)
     \/ /\ pub.stage = "pr_pending"
        /\ Proceed(IF PullAbsent THEN "other" ELSE Verdict(PullOurs, "invalid"),
                   "check_gate", At("pr_confirmed"))
     \/ /\ pub.stage = "pr_confirmed"
        /\ Proceed(Verdict(PullOurs, "invalid"), "check_gate", pub)
     \/ /\ pub.stage \in {"check_pending", "complete"}
        /\ Proceed(Verdict(PullOurs, "invalid"), "find", pub)
  /\ Observing /\ UNCHANGED plan

AfterRemote == [pr_remote |-> "pr_gate2", check_remote |-> "check_pull", fin_remote |-> "fin_pull"]

RemoteAgain ==
  /\ pc \in DOMAIN AfterRemote
  /\ Proceed(Verdict(Refs("candidate"), "invalid"), AfterRemote[pc],
             IF pc = "pr_remote" THEN At("pr_pending") ELSE pub)
  /\ Observing /\ UNCHANGED plan

CheckPull ==
  /\ pc = "check_pull"
  /\ Proceed(Verdict(PullOurs, "invalid"), "check_absent", At("check_pending"))
  /\ Observing /\ UNCHANGED plan

CheckAbsent ==
  /\ pc = "check_absent"
  /\ Proceed(Verdict(CheckMissing, "other"), "check_gate2", pub)
  /\ Observing /\ UNCHANGED plan

(* Mutant: a check that does not show is taken to be there.                 *)
FindAnyway ==
  /\ pc = "find"
  /\ Proceed(Verdict(CheckMissing \/ CheckReads("success"), "invalid"), "fin_gate", pub)
  /\ Observing /\ UNCHANGED plan

Find ==
  /\ pc = "find"
  /\ Proceed(IF CheckMissing THEN "other" ELSE Verdict(CheckReads("success"), "invalid"),
             "fin_gate", pub)
  /\ Observing /\ UNCHANGED plan

Finish ==
  /\ pc = "fin_pull"
  /\ Proceed(Verdict(PullAbsent \/ PullOurs, "invalid"), "idle",
             [pub EXCEPT !.stage = "complete", !.status = "published", !.checked = TRUE])
  /\ Observing /\ UNCHANGED plan

-----------------------------------------------------------------------------
(* Requests.  Each leaves once its intent is in the journal.                *)
Send(effect) ==
  /\ pc' = "sent"
  /\ flight' = flight \cup {effect}
  /\ answer' = [to |-> effect, is |-> "none"]
  /\ made' = [made EXCEPT ![effect] = @ + 1]
  /\ UNCHANGED <<task, files, pub, remote, code, plan, spent>>

(* The refs are read once more before the push.                             *)
Push ==
  /\ pc = "push"
  /\ \/ Refs("none") /\ Send("push")
     \/ ~Refs("none") /\ Raise("invalid") /\ Observing /\ UNCHANGED plan

SendPull == pc = "pr_send" /\ Send("pull")
SendCheck == pc = "check_send" /\ Send("check")
SendPatch == pc = "patch_send" /\ Send("patch")

(* Mutant: the push goes over whatever the branch is.                       *)
Forced == TRUE

(* The push is leased to the branch being absent.                           *)
LeaseHolds == remote.head = "none"

(* GitHub.  A pull request needs a branch that has none.                    *)
Accepted(effect) ==
  CASE effect = "push" -> LeaseHolds
    [] effect = "pull" -> remote.head # "none" /\ remote.pull = "none"
    [] effect = "check" -> TRUE
    [] effect = "patch" -> remote.check # "none"

Outcome(effect) ==
  CASE effect = "push" -> [remote EXCEPT !.head = "candidate"]
    [] effect = "pull" -> [remote EXCEPT !.pull = "ours"]
    [] effect = "check" -> [remote EXCEPT !.check = "success"]
    [] effect = "patch" -> [remote EXCEPT !.check = "required"]

Happen(effect) ==
  /\ effect \in flight
  /\ flight' = flight \ {effect}
  /\ remote' = IF Accepted(effect) THEN Outcome(effect) ELSE remote
  /\ answer' = IF pc = "sent" /\ answer.to = effect
               THEN [answer EXCEPT !.is = IF Accepted(effect) THEN "ok" ELSE "refused"]
               ELSE answer
  /\ UNCHANGED <<task, files, pub, pc, code, plan, made, spent>>

Fault == spent.faults < MaxFaults /\ spent' = [spent EXCEPT !.faults = @ + 1]

Vanish(effect) ==
  /\ effect \in flight /\ Fault
  /\ flight' = flight \ {effect}
  /\ UNCHANGED <<durable, pc, code, plan, answer>>

AfterAnswer == [push |-> "remote", pull |-> "look", check |-> "find", patch |-> "invalidate"]

Answered ==
  /\ pc = "sent"
  /\ \/ answer.is = "ok" /\ pc' = AfterAnswer[answer.to] /\ UNCHANGED code
     \/ answer.is = "refused" /\ pc' = "failed" /\ code' = "other"
  /\ UNCHANGED <<durable, plan, flight, answer, spent>>

(* The answer is lost: the request may have happened, or may happen yet.    *)
Unanswered ==
  /\ pc = "sent"
  /\ \/ Fault
     \/ answer.to \notin flight /\ answer.is = "none" /\ UNCHANGED spent
  /\ pc' = "failed" /\ code' = "other"
  /\ UNCHANGED <<durable, plan, flight, answer>>

-----------------------------------------------------------------------------
(* What follows an error.  One that invalidates withdraws the approvals and *)
(* the published check.                                                     *)
Block ==
  /\ pc = "failed"
  /\ LET invalid == code = "invalid" IN
       /\ pub' = [pub EXCEPT !.status = "blocked", !.invalidated = pub.invalidated \/ invalid]
       /\ task' = IF ~invalid THEN task
                  ELSE [task EXCEPT !.granted = FALSE, !.epoch = task.epoch + 1, !.agent = "blocked"]
       /\ pc' = IF invalid THEN "invalidate" ELSE "idle"
  /\ UNCHANGED <<files, remote, made, code, plan, flight, answer, spent>>

(* Mutant: where there is no check to be seen, there is nothing to withdraw.*)
InvalidateOnce ==
  /\ pc = "invalidate"
  /\ \/ /\ pub.invalidation = "confirmed" \/ Rank[pub.stage] < Rank["check_pending"]
        /\ pc' = "idle" /\ UNCHANGED pub
     \/ /\ pub.invalidation # "confirmed" /\ Rank[pub.stage] >= Rank["check_pending"]
        /\ \/ /\ CheckMissing
              /\ pub' = [pub EXCEPT !.invalidation = "confirmed"] /\ pc' = "idle"
           \/ /\ pub.invalidation = "none" /\ CheckReads("success")
              /\ pub' = [pub EXCEPT !.checked = TRUE, !.invalidation = "pending"]
              /\ pc' = "patch_send"
           \/ /\ pub.invalidation = "pending" /\ CheckReads("required")
              /\ pub' = [pub EXCEPT !.invalidation = "confirmed"] /\ pc' = "idle"
  /\ Observing /\ UNCHANGED <<code, plan>>

(* _invalidate_check: otherwise it stops, or raises, until the next poll.   *)
Invalidate ==
  /\ pc = "invalidate"
  /\ \/ /\ pub.invalidation = "confirmed" \/ Rank[pub.stage] < Rank["check_pending"]
        /\ pc' = "idle" /\ UNCHANGED pub
     \/ /\ pub.invalidation # "confirmed" /\ Rank[pub.stage] >= Rank["check_pending"]
        /\ \/ /\ ~pub.checked /\ CheckReads("success")
              /\ pub' = [pub EXCEPT !.checked = TRUE] /\ UNCHANGED pc
           \/ /\ pub.checked /\ pub.invalidation = "none" /\ CheckReads("success")
              /\ pub' = [pub EXCEPT !.invalidation = "pending"] /\ pc' = "patch_send"
           \/ /\ pub.checked /\ pub.invalidation = "pending" /\ CheckReads("required")
              /\ pub' = [pub EXCEPT !.invalidation = "confirmed"] /\ pc' = "idle"
           \/ /\ ~CheckReads(IF pub.invalidation = "pending" THEN "required" ELSE "success")
              /\ pc' = "idle" /\ UNCHANGED pub
  /\ Observing /\ UNCHANGED <<code, plan>>

(* A read that fails, a cancellation that is noticed.                       *)
ReadFails ==
  /\ pc \in Reading \cup {"invalidate"} /\ Fault
  /\ \/ pc = "invalidate" /\ pc' = "idle" /\ UNCHANGED <<pub, code>>
     \/ pc # "invalidate" /\ Raise("other")
  /\ UNCHANGED <<task, files, remote, made, plan, flight, answer>>

Crash ==
  /\ pc # "idle" /\ Fault
  /\ pc' = "idle"
  /\ UNCHANGED <<durable, code, plan, flight, answer>>

-----------------------------------------------------------------------------
(* People and the agent commit to the task while the publisher works.       *)
Person == spent.people < MaxPeople /\ spent' = [spent EXCEPT !.people = @ + 1]

Decide(new) ==
  /\ Person /\ task' = new
  /\ UNCHANGED <<files, pub, remote, made, pc, code, plan, flight, answer>>

Stop == ~task.paused /\ Decide([task EXCEPT !.paused = TRUE, !.epoch = task.epoch + 1])
Resume == task.paused /\ Decide([task EXCEPT !.paused = FALSE])
Amend == task.granted /\ Decide([task EXCEPT !.granted = FALSE, !.epoch = task.epoch + 1])
Approve ==
  /\ ~task.granted \/ task.standing = "edited"
  /\ Decide([task EXCEPT !.granted = TRUE, !.grant = task.grant + 1,
                         !.standing = IF @ = "edited" THEN "yes" ELSE @])

(* A comment deleted, a permission withdrawn and given back, an issue       *)
(* closed and reopened: seen on GitHub, and nowhere in the task.            *)
Stand == Decide([task EXCEPT !.standing = IF task.standing = "no" THEN "yes" ELSE "no"])

(* A comment the task rests on is edited: COMMAND_EDITED blocks, and is not *)
(* one of INVALIDATING.                                                     *)
Edit == task.standing = "yes" /\ Decide([task EXCEPT !.standing = "edited"])

(* The agent takes an amended task up again, and is ready once more.        *)
TakeUp ==
  /\ task.agent = "blocked" \/ (task.agent = "ready" /\ ~task.granted)
  /\ task' = [task EXCEPT !.agent = "rework"]
  /\ UNCHANGED <<files, pub, remote, made, pc, code, plan, flight, answer, spent>>

ReadyAgain ==
  /\ Person
  /\ task.agent = "rework" /\ task.granted /\ ~task.paused
  /\ files' \in Digests
  /\ task' = [task EXCEPT !.agent = "ready", !.verified = files']
  /\ UNCHANGED <<pub, remote, made, pc, code, plan, flight, answer>>

(* Everybody else: the workspace, the base, the branch, the pull request.   *)
Outside ==
  /\ spent.outside < MaxOutside /\ spent' = [spent EXCEPT !.outside = @ + 1]
  /\ UNCHANGED <<task, pub, made, pc, code, plan, flight, answer>>

Tamper == Outside /\ files' \in Digests \ {files} /\ UNCHANGED remote
MoveBase ==
  Outside /\ remote.base = "same" /\ remote' = [remote EXCEPT !.base = "moved"] /\ UNCHANGED files
MoveHead ==
  Outside /\ remote.head # "foreign" /\ remote' = [remote EXCEPT !.head = "foreign"] /\ UNCHANGED files
TouchPull ==
  /\ Outside /\ UNCHANGED files
  /\ \/ /\ remote.pull = "none" /\ remote.head # "none"
        /\ remote' = [remote EXCEPT !.pull = "foreign"]
     \/ /\ remote.pull = "ours"
        /\ \E how \in {"edited", "closed"} : remote' = [remote EXCEPT !.pull = how]

-----------------------------------------------------------------------------
Publisher ==
  \/ Begin \/ First \/ Build \/ Regate \/ Remote \/ Look \/ RemoteAgain
  \/ CheckPull \/ CheckAbsent \/ Find \/ Finish
  \/ Push \/ SendPull \/ SendCheck \/ SendPatch
  \/ Answered \/ Block \/ Invalidate

Others == Stop \/ Resume \/ Amend \/ Approve \/ Stand \/ Edit \/ TakeUp \/ ReadyAgain
          \/ Tamper \/ MoveBase \/ MoveHead \/ TouchPull

Step ==
  \/ Poll \/ Publisher \/ Unanswered \/ ReadFails \/ Crash
  \/ \E e \in Effects : Happen(e) \/ Vanish(e)
  \/ Others

(* late is a history: the requests that left after what they rest on was    *)
(* withdrawn or changed.                                                    *)
Authorised ==
  /\ task.granted /\ task.standing = "yes" /\ ~task.paused
  /\ pub.stage # "none" => pub.basis = Basis
  /\ pub.candidate \in {"none", files}
Sent == {e \in Effects \ {"patch"} : made'[e] # made[e]}
History == late' = IF Authorised' THEN 0 ELSE IF Sent # {} THEN late + 1 ELSE late
Next == Step /\ History

Fairness ==
  /\ WF_vars(Poll /\ History)
  /\ WF_vars(Publisher /\ History)
  /\ WF_vars(Unanswered /\ History)
  /\ \A e \in Effects : WF_vars((Happen(e) \/ Vanish(e)) /\ History)

Spec == Init /\ [][Next]_vars
FairSpec == Spec /\ Fairness

-----------------------------------------------------------------------------
(* However often the service stops and answers are lost, each of the four   *)
(* requests (git.py push, github/publishing.py create_pull, create_check,   *)
(* invalidate_check) is sent at most once.                                  *)
EffectOnce == \A e \in Effects : made[e] <= 1

(* A request is never sent before its intent is in the journal, so that a   *)
(* restart always knows what may have happened (_run, push_intent,          *)
(* pr_intent, check_intent; _invalidate_check, check_invalidation_intent).  *)
IntentFirst ==
  /\ made["push"] > 0 => Rank[pub.stage] >= Rank["push_pending"]
  /\ made["pull"] > 0 => Rank[pub.stage] >= Rank["pr_pending"]
  /\ made["check"] > 0 => Rank[pub.stage] >= Rank["check_pending"]
  /\ made["patch"] > 0 => pub.invalidation # "none"

(* On record and on GitHub this is an outbox: intended, sent once,          *)
(* confirmed, one effect after the other, and nothing but the withdrawal    *)
(* once it is invalidated.                                                 *)
IntentAt == [push |-> "push_pending", pull |-> "pr_pending", check |-> "check_pending"]
SeenAt == [push |-> "push_confirmed", pull |-> "pr_confirmed", check |-> "complete"]
Intents(p) ==
  {e \in Effects : IF e = "patch" THEN p.invalidation # "none"
                   ELSE Rank[p.stage] >= Rank[IntentAt[e]]}
Seen(p) ==
  {e \in Effects : IF e = "patch" THEN p.invalidation = "confirmed"
                   ELSE Rank[p.stage] >= Rank[SeenAt[e]]}
Box == INSTANCE Outbox WITH
  intended <- Intents(pub), sent <- made, confirmed <- Seen(pub), void <- pub.invalidated
KeepsOutbox == Box!Spec

(* What others pushed, edited or closed stays as they left it: the lease of *)
(* push and the rule that a changed pull request is never written again.    *)
ForeignKept ==
  [][/\ remote.base = "moved" => remote'.base = "moved"
     /\ remote.head = "foreign" => remote'.head = "foreign"
     /\ remote.pull \in {"edited", "closed", "foreign"} => remote'.pull = remote.pull]_vars

(* A stop, an amendment, an approval that is withdrawn or edited, or a      *)
(* changed workspace lets at most the one request leave that the publisher  *)
(* was about to send when it came (_run asks the gate again after every     *)
(* intent).                                                                 *)
StopBinds == late <= 1

(* Published means that the branch, the pull request and the check of this  *)
(* candidate were each seen on GitHub, and the task is not invalidated.     *)
PublishedTrue ==
  pub.status = "published" =>
    /\ ~pub.invalidated
    /\ \A e \in {"push", "pull", "check"} : made[e] = 1 /\ e \notin flight
    /\ remote.head # "none" /\ remote.pull # "none" /\ remote.check # "none"

(* The successful check of an invalidated task, even one that appears after *)
(* the invalidation, is withdrawn, or its withdrawal is on record as        *)
(* unconfirmed (_invalidate_check).  An edited comment invalidates nothing. *)
CheckWithdrawn ==
  (pub.invalidated /\ remote.check = "success")
    ~> (remote.check = "required" \/ pub.invalidation = "pending")

(* A request whose answer was lost, or whose service died, is found by what *)
(* it left on GitHub, as long as nobody interferes.                         *)
Left(stage) ==
  CASE stage = "push_pending" -> remote.head = "candidate"
    [] stage = "pr_pending" -> remote.pull = "ours"
    [] stage = "check_pending" -> remote.check = "success"
Calm == Gate = "pass" /\ Refs("candidate") /\ (PullAbsent \/ PullOurs)
LostAnswerFound ==
  LET Waits == pub.stage \in {"push_pending", "pr_pending", "check_pending"} /\ Calm
  IN  (Waits /\ Left(pub.stage)) ~> ~Waits
=============================================================================
