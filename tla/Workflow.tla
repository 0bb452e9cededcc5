------------------------------ MODULE Workflow ------------------------------
(***************************************************************************)
(* ai_dlc/workflow/engine.py: the approvals of one task, and the GitHub    *)
(* issue, comments and permissions they are observed from.  People change  *)
(* GitHub at any time; the engine reads it again whenever it decides.      *)
(*                                                                         *)
(* Every operation commits against the revision its caller read.  A commit *)
(* makes every operation in flight stale, so an operation in flight is     *)
(* remembered (seen, sourceSeen) only until the next commit: after it, the *)
(* operation can only raise STATE_CONFLICT.  The gateway is read outside   *)
(* the lock for the comment or source to be handled, inside for the rest.  *)
(*                                                                         *)
(* A run of a command is abstract here: it is reserved through the gate,   *)
(* and then moves and ends as Execution.tla details.  The lock is the      *)
(* task's and not GitHub's: what is recorded of a run rests on what was    *)
(* read under the same lock, and GitHub may have changed since.  Documents *)
(* are their revision and whether they have open questions; amendments     *)
(* only reset.                                                             *)
(***************************************************************************)
EXTENDS Naturals, FiniteSets

CONSTANTS
  Comments,        \* comment identities
  Actors,          \* GitHub users
  Contents,        \* issue titles and bodies
  Policies,        \* repository configurations: records of PolicyType
  Commands,        \* the commands people write: records of CommandType
  NoOne, Nobody,   \* no comment; no user
  MaxRequirements, MaxDesigns, MaxEpoch, MaxChanges  \* bounds, in the guards

RoleNames == {"requirement_approver", "starter", "design_approver", "operator"}
StartPolicies == {"on_approval", "explicit"}
DesignModes == {"automatic", "collaborative"}
CommandNames == {"approve_requirements", "start", "approve_design", "amend",
                 "stop", "resume", "cancel"}

PolicyType ==
  [start : StartPolicies, design : DesignModes,
   startOverrides : SUBSET StartPolicies, designOverrides : SUBSET DesignModes,
   roles : [RoleNames -> SUBSET Actors]]

(* "same": the option is not given.  revision is 0 where it is not named.   *)
CommandType ==
  [name : CommandNames, revision : Nat,
   start : StartPolicies \cup {"same"}, design : DesignModes \cup {"same"}]

ASSUME PoliciesType == Policies \subseteq PolicyType
ASSUME CommandsType == Commands \subseteq CommandType
ASSUME NoOneType == NoOne \notin Comments /\ Nobody \notin Actors
ASSUME BoundsType ==
  MaxRequirements \in Nat /\ MaxDesigns \in Nat /\ MaxEpoch \in Nat /\ MaxChanges \in Nat

VARIABLES
  issue,      \* [content, open]
  comments,   \* [Comments -> what was written, by whom, and whether it stands]
  writers,    \* the users with write permission
  policy,     \* the configuration the service runs with
  changes,    \* disturbances so far, bounded by MaxChanges
  task,       \* the task's state; NoTask before the first capture
  handled,    \* the comments whose event is in the journal
  seen,       \* the comments observed at the current revision
  sourceSeen, \* the issue observed at the current revision, or NoSource
  looked      \* what GitHub was read for under the lock that is held, and,
              \* for the property alone, whether people stood behind it then

world == <<issue, comments, writers, policy, changes>>
vars == <<world, task, handled, seen, sourceSeen, looked>>

NoTask == [config |-> "none"]
NoSource == [content |-> "none", open |-> FALSE]
NoLook == [for |-> "none", authorised |-> FALSE]
NoProof == [by |-> NoOne, roles |-> {}]
NoRun == [status |-> "none", epoch |-> 0, req |-> 0, design |-> 0, repairable |-> FALSE]
Unwritten == [status |-> "unwritten", actor |-> Nobody,
              cmd |-> [name |-> "amend", revision |-> 0, start |-> "same", design |-> "same"]]

ActiveStatuses == {"reserved", "dispatching", "running", "uncertain"}
RunStatuses == ActiveStatuses \cup {"none", "succeeded", "failed", "stale"}

IssueType == [content : Contents, open : BOOLEAN]
CommentType ==
  [status : {"unwritten", "posted", "edited", "deleted"}, actor : Actors \cup {Nobody},
   cmd : CommandType]
LookType == [for : {"none", "reserved", "dispatching", "ended"}, authorised : BOOLEAN]
ProofType == [by : Comments \cup {NoOne}, roles : SUBSET RoleNames]
RunType == [status : RunStatuses, epoch : Nat, req : Nat, design : Nat, repairable : BOOLEAN]
TaskType ==
  [config : Policies, source : IssueType,
   req : Nat, reqOpen : BOOLEAN, reqApproval : ProofType, requirementsCount : Nat,
   started : BOOLEAN, startApproval : ProofType, startPolicy : StartPolicies,
   design : Nat, designReq : Nat, designOpen : BOOLEAN, designApproval : ProofType,
   designMode : DesignModes, designCount : Nat,
   paused : BOOLEAN, cancelled : BOOLEAN, cancelRequested : BOOLEAN,
   epoch : Nat, run : RunType]

TypeOK ==
  /\ issue \in IssueType
  /\ comments \in [Comments -> CommentType]
  /\ writers \in SUBSET Actors
  /\ policy \in Policies
  /\ changes \in Nat
  /\ task \in TaskType \cup {NoTask}
  /\ handled \in SUBSET Comments
  /\ seen \in SUBSET Comments
  /\ sourceSeen \in IssueType \cup {NoSource}
  /\ looked \in LookType

Init ==
  /\ issue \in [content : Contents, open : {TRUE}]
  /\ comments = [c \in Comments |-> Unwritten]
  /\ writers = Actors
  /\ policy \in Policies
  /\ changes = 0
  /\ task = NoTask
  /\ handled = {} /\ seen = {}
  /\ sourceSeen = NoSource
  /\ looked = NoLook

-----------------------------------------------------------------------------
(* People.  A comment is written once; editing or deleting it is for good.  *)
Write(c, cmd, a) ==
  /\ comments[c].status = "unwritten"
  /\ comments' = [comments EXCEPT ![c] = [status |-> "posted", actor |-> a, cmd |-> cmd]]
  /\ UNCHANGED <<issue, writers, policy, changes, task, handled, seen, sourceSeen, looked>>

Disturb ==
  /\ changes < MaxChanges
  /\ changes' = changes + 1
  /\ UNCHANGED <<task, handled, looked>>

Spoil(c, how) ==
  /\ Disturb
  /\ comments[c].status = "posted"
  /\ comments' = [comments EXCEPT ![c].status = how]
  /\ UNCHANGED <<issue, writers, policy, seen, sourceSeen>>

ChangeIssue(new) ==
  /\ Disturb /\ new # issue
  /\ issue' = new
  /\ UNCHANGED <<comments, writers, policy, seen, sourceSeen>>

ChangeWriters(new) ==
  /\ Disturb /\ new # writers
  /\ writers' = new
  /\ UNCHANGED <<issue, comments, policy, seen, sourceSeen>>

(* The service stops and starts again, perhaps with another configuration.  *)
Restart(p) ==
  /\ p # policy => changes < MaxChanges
  /\ changes' = IF p = policy THEN changes ELSE changes + 1
  /\ policy' = p
  /\ seen' = {} /\ sourceSeen' = NoSource /\ looked' = NoLook
  /\ UNCHANGED <<issue, comments, writers, task, handled>>

World ==
  \/ \E c \in Comments, cmd \in Commands, a \in Actors : Write(c, cmd, a)
  \/ \E c \in Comments, how \in {"edited", "deleted"} : Spoil(c, how)
  \/ \E new \in IssueType : ChangeIssue(new)
  \/ \E new \in SUBSET Actors : ChangeWriters(new)

-----------------------------------------------------------------------------
(* What the engine reads again from GitHub: _comment, _role, _proof,        *)
(* _proof_current, _source_current and _basis.                              *)
Standing(c) == comments[c].status = "posted"

(* Every role needs write permission; a contributor needs nothing else.     *)
MayAct(c, roles) ==
  /\ comments[c].actor \in writers
  /\ \A role \in roles : comments[c].actor \in policy.roles[role]

Proof(c, roles) == [by |-> c, roles |-> roles]

ProofCurrent(p) == p # NoProof /\ Standing(p.by) /\ MayAct(p.by, p.roles)

(* Mutant: the text of the issue is not compared again.                     *)
SourceCurrentIfOpen(t) == issue.open

SourceCurrent(t) == issue.open /\ t.source = issue

Basis(t, withDesign) ==
  /\ SourceCurrent(t)
  /\ ProofCurrent(t.reqApproval)
  /\ t.started
  /\ t.startApproval # NoProof => ProofCurrent(t.startApproval)
  /\ withDesign /\ t.designMode = "collaborative" => ProofCurrent(t.designApproval)

(* Mutant: a requested cancellation is not final until it is confirmed.     *)
LiveUntilCancelled(t) == t # NoTask /\ ~t.cancelled

(* _state: without the policy check for stop and cancel.                    *)
Live(t) == t # NoTask /\ ~t.cancelled /\ ~t.cancelRequested
Accepting(t) == Live(t) /\ t.config = policy

-----------------------------------------------------------------------------
(* _settle and _commit.                                                     *)
Active(t) == t.run.status \in ActiveStatuses

Settle(t) ==
  IF Active(t) THEN t
  ELSE [t EXCEPT !.cancelled = @ \/ t.cancelRequested, !.cancelRequested = FALSE]

Commit(t) ==
  /\ t.requirementsCount <= MaxRequirements /\ t.designCount <= MaxDesigns
  /\ t.epoch <= MaxEpoch
  /\ task' = Settle(t)
  /\ seen' = {} /\ sourceSeen' = NoSource /\ looked' = NoLook
  /\ UNCHANGED world

NextEpoch(t) == [t EXCEPT !.epoch = @ + 1]

(* Mutant: the approval survives the document it was given for.             *)
ResetScopeKeepsApproval(t) ==
  [NextEpoch(t) EXCEPT !.req = 0, !.reqOpen = FALSE,
                       !.started = FALSE, !.startApproval = NoProof,
                       !.design = 0, !.designReq = 0, !.designOpen = FALSE,
                       !.designApproval = NoProof]

ResetScope(t) ==
  [NextEpoch(t) EXCEPT !.req = 0, !.reqOpen = FALSE, !.reqApproval = NoProof,
                       !.started = FALSE, !.startApproval = NoProof,
                       !.design = 0, !.designReq = 0, !.designOpen = FALSE,
                       !.designApproval = NoProof]

NewTask(source) ==
  [config |-> policy, source |-> source,
   req |-> 0, reqOpen |-> FALSE, reqApproval |-> NoProof, requirementsCount |-> 0,
   started |-> FALSE, startApproval |-> NoProof, startPolicy |-> policy.start,
   design |-> 0, designReq |-> 0, designOpen |-> FALSE, designApproval |-> NoProof,
   designMode |-> policy.design, designCount |-> 0,
   paused |-> FALSE, cancelled |-> FALSE, cancelRequested |-> FALSE,
   epoch |-> 1, run |-> NoRun]

ObserveSource ==
  /\ sourceSeen' = issue
  /\ UNCHANGED <<world, task, handled, seen, looked>>

(* capture_source: whether the issue is open is part of what is compared.   *)
CaptureSource ==
  /\ sourceSeen # NoSource
  /\ task # NoTask => Accepting(task)
  /\ LET t == IF task = NoTask THEN NewTask(sourceSeen)
              ELSE IF task.source = sourceSeen THEN task
              ELSE [ResetScope(task) EXCEPT !.source = sourceSeen]
     IN Commit(IF sourceSeen.open THEN t
               ELSE [t EXCEPT !.cancelRequested = Active(t), !.cancelled = ~Active(t)])
  /\ UNCHANGED handled

(* normalize: a new requirements document, with or without open questions.  *)
Normalize(questions) ==
  /\ Accepting(task) /\ SourceCurrent(task)
  /\ Commit([ResetScope(task) EXCEPT !.req = task.requirementsCount + 1,
                                     !.requirementsCount = @ + 1,
                                     !.reqOpen = questions])
  /\ UNCHANGED handled

ProposeDesign(questions) ==
  /\ Accepting(task) /\ Basis(task, FALSE)
  /\ Commit([NextEpoch(task) EXCEPT !.design = task.designCount + 1,
                                    !.designCount = @ + 1,
                                    !.designReq = task.req,
                                    !.designOpen = questions,
                                    !.designApproval = NoProof])
  /\ UNCHANGED handled

-----------------------------------------------------------------------------
(* handle_comment: the comment is fetched, then committed under its own     *)
(* event identifier, so that a comment is applied once.                     *)
ObserveComment(c) ==
  /\ Standing(c)
  /\ seen' = seen \cup {c}
  /\ UNCHANGED <<world, task, handled, sourceSeen, looked>>

(* Mutant: the event identifier is not the comment's.                       *)
HandlingAgain(c, name) ==
  /\ c \in seen
  /\ comments[c].cmd.name = name
  /\ handled' = handled \cup {c}

Handling(c, name) ==
  /\ c \in seen \ handled
  /\ comments[c].cmd.name = name
  /\ handled' = handled \cup {c}

(* _override: the value in force, or one the repository permits.            *)
Chosen(option, current) == IF option = "same" THEN current ELSE option
Permitted(option, current, overrides) == Chosen(option, current) \in overrides \cup {current}

(* Mutant: choosing on_approval does not take the starter role.             *)
ApproveRequirementsAlone(c) ==
  LET cmd == comments[c].cmd
      start == Chosen(cmd.start, task.startPolicy)
      roles == {"requirement_approver"}
  IN /\ Handling(c, "approve_requirements")
     /\ Accepting(task) /\ SourceCurrent(task)
     /\ task.req # 0 /\ cmd.revision = task.req /\ ~task.reqOpen
     /\ task.reqApproval = NoProof
     /\ MayAct(c, roles)
     /\ Permitted(cmd.start, task.startPolicy, policy.startOverrides)
     /\ Permitted(cmd.design, task.designMode, policy.designOverrides)
     /\ Commit([task EXCEPT !.reqApproval = Proof(c, roles),
                            !.startPolicy = start,
                            !.designMode = Chosen(cmd.design, @),
                            !.started = (start = "on_approval")])

ApproveRequirements(c) ==
  LET cmd == comments[c].cmd
      start == Chosen(cmd.start, task.startPolicy)
      roles == {"requirement_approver"} \cup
               (IF start = "on_approval" /\ policy.start # "on_approval" THEN {"starter"} ELSE {})
  IN /\ Handling(c, "approve_requirements")
     /\ Accepting(task) /\ SourceCurrent(task)
     /\ task.req # 0 /\ cmd.revision = task.req /\ ~task.reqOpen
     /\ task.reqApproval = NoProof
     /\ MayAct(c, roles)
     /\ Permitted(cmd.start, task.startPolicy, policy.startOverrides)
     /\ Permitted(cmd.design, task.designMode, policy.designOverrides)
     /\ Commit([task EXCEPT !.reqApproval = Proof(c, roles),
                            !.startPolicy = start,
                            !.designMode = Chosen(cmd.design, @),
                            !.started = (start = "on_approval")])

Start(c) ==
  LET cmd == comments[c].cmd
  IN /\ Handling(c, "start")
     /\ Accepting(task) /\ SourceCurrent(task)
     /\ ProofCurrent(task.reqApproval)
     /\ cmd.revision = task.req /\ ~task.started
     /\ MayAct(c, {"starter"})
     /\ Permitted(cmd.design, task.designMode, policy.designOverrides)
     /\ Commit([task EXCEPT !.startApproval = Proof(c, {"starter"}),
                            !.designMode = Chosen(cmd.design, @),
                            !.started = TRUE])

ApproveDesign(c) ==
  /\ Handling(c, "approve_design")
  /\ Accepting(task) /\ Basis(task, FALSE)
  /\ task.design # 0 /\ comments[c].cmd.revision = task.design /\ ~task.designOpen
  /\ task.designMode = "collaborative"
  /\ MayAct(c, {"design_approver"})
  /\ Commit([task EXCEPT !.designApproval = Proof(c, {"design_approver"})])

(* Mutant: the agent's run is not told that the requirements are withdrawn. *)
AmendInEpoch(c) ==
  /\ Handling(c, "amend")
  /\ Accepting(task) /\ SourceCurrent(task)
  /\ MayAct(c, {})
  /\ task.req # 0 /\ comments[c].cmd.revision = task.req
  /\ Commit([ResetScope(task) EXCEPT !.epoch = task.epoch])

Amend(c) ==
  /\ Handling(c, "amend")
  /\ Accepting(task) /\ SourceCurrent(task)
  /\ MayAct(c, {})
  /\ task.req # 0 /\ comments[c].cmd.revision = task.req
  /\ Commit(ResetScope(task))

Resume(c) ==
  /\ Handling(c, "resume")
  /\ Accepting(task) /\ SourceCurrent(task)
  /\ MayAct(c, {"operator"})
  /\ task.paused
  /\ \A p \in {task.reqApproval, task.startApproval, task.designApproval} \ {NoProof} :
       ProofCurrent(p)
  /\ Commit([NextEpoch(task) EXCEPT !.paused = FALSE])

(* stop and cancel look neither at the source nor at the policy.            *)
Stop(c) ==
  /\ Handling(c, "stop")
  /\ Live(task) /\ MayAct(c, {"operator"})
  /\ Commit([NextEpoch(task) EXCEPT !.paused = TRUE,
                                    !.cancelRequested = FALSE, !.cancelled = FALSE])

Cancel(c) ==
  /\ Handling(c, "cancel")
  /\ Live(task) /\ MayAct(c, {"operator"})
  /\ Commit([NextEpoch(task) EXCEPT !.paused = FALSE,
                                    !.cancelRequested = Active(task),
                                    !.cancelled = ~Active(task)])

HandleComment(c) ==
  \/ ApproveRequirements(c) \/ Start(c) \/ ApproveDesign(c)
  \/ Amend(c) \/ Resume(c) \/ Stop(c) \/ Cancel(c)

-----------------------------------------------------------------------------
Revoked(p) == p # NoProof /\ ~ProofCurrent(p)

(* Mutant: a lost start leaves the design approval that rests on it.        *)
ReconcileKeepsDesign ==
  /\ Accepting(task) /\ SourceCurrent(task)
  /\ LET noReq == Revoked(task.reqApproval)
         noStart == noReq \/ Revoked(task.startApproval)
         noDesign == Revoked(task.designApproval)
         t == IF noStart \/ noDesign THEN NextEpoch(task) ELSE task
     IN Commit([t EXCEPT !.reqApproval = IF noReq THEN NoProof ELSE @,
                         !.startApproval = IF noStart THEN NoProof ELSE @,
                         !.started = @ /\ ~noStart,
                         !.designApproval = IF noDesign THEN NoProof ELSE @])
  /\ UNCHANGED handled

(* reconcile: approvals whose evidence or permission is gone are dropped,   *)
(* with those that rest on them.                                            *)
Reconcile ==
  /\ Accepting(task) /\ SourceCurrent(task)
  /\ LET noReq == Revoked(task.reqApproval)
         noStart == noReq \/ Revoked(task.startApproval)
         noDesign == noStart \/ Revoked(task.designApproval)
         t == IF noDesign THEN NextEpoch(task) ELSE task
     IN Commit([t EXCEPT !.reqApproval = IF noReq THEN NoProof ELSE @,
                         !.startApproval = IF noStart THEN NoProof ELSE @,
                         !.started = @ /\ ~noStart,
                         !.designApproval = IF noDesign THEN NoProof ELSE @])
  /\ UNCHANGED handled

RefreshPolicy ==
  /\ Live(task)
  /\ Commit(IF task.config = policy THEN task
            ELSE [ResetScope(task) EXCEPT !.config = policy,
                                          !.startPolicy = policy.start,
                                          !.designMode = policy.design])
  /\ UNCHANGED handled

-----------------------------------------------------------------------------
(* implementation_gate.                                                     *)
InImplementation(t) ==
  /\ t.req # 0 /\ t.reqApproval # NoProof /\ t.started
  /\ t.design # 0 /\ ~t.designOpen
  /\ t.designMode = "collaborative" => t.designApproval # NoProof

GateOpen(t) ==
  /\ Accepting(t) /\ ~Active(t) /\ ~t.paused
  /\ InImplementation(t)
  /\ ~(t.run.status \in {"failed", "stale"} /\ t.run.epoch = t.epoch)
  /\ Basis(t, TRUE)

(* The basis a run was reserved on is still there.                          *)
RunBasis(t) ==
  /\ Accepting(t) /\ ~t.paused
  /\ t.run.epoch = t.epoch /\ t.run.req = t.req /\ t.run.design = t.design
  /\ Basis(t, TRUE)

(* A person in the named role with write permission stands behind the       *)
(* command: the comment is there and unedited.                              *)
Asks(a, role, name, revision) ==
  /\ a \in writers \cap policy.roles[role]
  /\ \E c \in Comments : /\ Standing(c) /\ comments[c].actor = a
                        /\ comments[c].cmd.name = name /\ comments[c].cmd.revision = revision

Authorised ==
  /\ issue.open /\ task.source = issue /\ task.config = policy
  /\ \E a \in Actors : Asks(a, "requirement_approver", "approve_requirements", task.req)
  /\ \/ policy.start = "on_approval"
     \/ \E a \in Actors : \/ Asks(a, "starter", "start", task.req)
                         \/ Asks(a, "starter", "approve_requirements", task.req)
  /\ \/ task.designMode = "automatic"
       /\ "automatic" \in {policy.design} \cup policy.designOverrides
     \/ \E a \in Actors : Asks(a, "design_approver", "approve_design", task.design)

(* GitHub is read, and the task lock kept until what was read for is        *)
(* recorded: the runner's preflight and the workspace's check are between.  *)
Look(what) ==
  /\ looked' = [for |-> what, authorised |-> Authorised]
  /\ UNCHANGED <<world, task, handled, seen, sourceSeen>>

Gate == looked = NoLook /\ GateOpen(task) /\ Look("reserved")

CheckRun ==
  /\ looked = NoLook
  /\ task # NoTask /\ Active(task) /\ RunBasis(task)
  /\ Look(IF task.run.status = "reserved" THEN "dispatching" ELSE "ended")

(* The runtime or the workspace is not fit for a reservation.               *)
Release ==
  /\ looked.for = "reserved"
  /\ looked' = NoLook
  /\ UNCHANGED <<world, task, handled, seen, sourceSeen>>

Looks == Gate \/ CheckRun \/ Release

Reserve ==
  /\ looked.for = "reserved"
  /\ Commit([task EXCEPT !.run = [status |-> "reserved", epoch |-> task.epoch,
                                  req |-> task.req, design |-> task.design,
                                  repairable |-> FALSE]])
  /\ UNCHANGED handled

(* coordinator._commit compares the record with nothing.                    *)
Record(status, repairable) ==
  /\ Commit([task EXCEPT !.run = [@ EXCEPT !.status = status, !.repairable = repairable]])
  /\ UNCHANGED handled

(* What the coordinator may record of an active run: Execution.tla.         *)
RunMoves(status) ==
  /\ task # NoTask
  /\ <<task.run.status, status>> \in
       {<<"reserved", "dispatching">>, <<"dispatching", "running">>,
        <<"dispatching", "uncertain">>, <<"running", "uncertain">>}
  /\ looked.for = (IF status = "dispatching" THEN "dispatching" ELSE "none")
  /\ Record(status, FALSE)

(* A run that is not dispatched only fails; a result counts on the basis.   *)
RunEnds(status, repairable) ==
  /\ task # NoTask /\ Active(task)
  /\ IF task.run.status = "reserved" THEN status = "failed" /\ ~repairable
     ELSE looked.for = (IF status = "stale" THEN "none" ELSE "ended")
  /\ Record(status, repairable)

PrepareRepair ==
  /\ Accepting(task) /\ Basis(task, TRUE) /\ ~task.paused
  /\ task.run.status = "failed" /\ task.run.repairable /\ task.run.epoch = task.epoch
  /\ Commit([task EXCEPT !.run = NoRun])
  /\ UNCHANGED handled

Run ==
  \/ Reserve \/ (looked = NoLook /\ PrepareRepair)
  \/ \E status \in {"dispatching", "running", "uncertain"} : RunMoves(status)
  \/ RunEnds("succeeded", FALSE) \/ RunEnds("stale", FALSE)
  \/ \E repairable \in BOOLEAN : RunEnds("failed", repairable)

Observe == ObserveSource \/ \E c \in Comments : ObserveComment(c)

Operation ==
  \/ CaptureSource
  \/ \E questions \in BOOLEAN : Normalize(questions) \/ ProposeDesign(questions)
  \/ \E c \in Comments : HandleComment(c)
  \/ Reconcile \/ RefreshPolicy

(* Every operation takes the task lock; what it handles is observed before. *)
Engine == Observe \/ (looked = NoLook /\ Operation)

Next == World \/ Engine \/ Looks \/ Run \/ \E p \in Policies : Restart(p)

Spec == Init /\ [][Next]_vars

-----------------------------------------------------------------------------
Proofs(t) == IF t = NoTask THEN {}
             ELSE {t.reqApproval.by, t.startApproval.by, t.designApproval.by} \ {NoOne}

Says(p, name, revision) ==
  comments[p.by].cmd.name = name /\ comments[p.by].cmd.revision = revision

(* WORKFLOW_IMPLEMENTATION.md 1: approvals and starts hold for the current  *)
(* revision only.  Through every revision of the source, the requirements,  *)
(* the design and the policy, an approval the task carries was written for  *)
(* the very revision it carries, which had no open questions, and what      *)
(* rests on an approval goes with it.                                       *)
ApprovalsCurrent ==
  task # NoTask =>
    /\ task.reqApproval # NoProof =>
         task.req # 0 /\ ~task.reqOpen /\ Says(task.reqApproval, "approve_requirements", task.req)
    /\ task.startApproval # NoProof =>
         task.started /\ Says(task.startApproval, "start", task.req)
    /\ task.started =>
         /\ task.reqApproval # NoProof
         /\ \/ task.startApproval # NoProof
            \/ task.config.start = "on_approval"
            \/ "starter" \in task.reqApproval.roles
    /\ task.designApproval # NoProof =>
         /\ task.started /\ task.design # 0 /\ ~task.designOpen
         /\ Says(task.designApproval, "approve_design", task.design)
    /\ task.design # 0 => task.designReq = task.req /\ task.req # 0
    /\ Proofs(task) \subseteq handled

(* WORKFLOW_IMPLEMENTATION.md 2: a run is reserved, dispatched or succeeds  *)
(* only if, when GitHub was read for it under the same lock, people with    *)
(* the permission of that moment stood behind the requirements, the start   *)
(* and the design it is reserved for.  That GitHub changes between the read *)
(* and the record is not excluded (AGENT_IMPLEMENTATION.md, stop and start  *)
(* again): the task's record, which the lock guards, does not.              *)
RunsAuthorised ==
  [][task # NoTask /\ task' # task
       /\ task'.run.status \in {"reserved", "dispatching", "succeeded"}
       /\ task'.run.status # task.run.status => looked.authorised]_vars

(* A redelivered comment changes nothing: an approval that was dropped does *)
(* not come back by the comment that once gave it.                          *)
CommentUsedOnce ==
  [][\A c \in handled : c \in Proofs(task') => c \in Proofs(task)]_vars

(* What a task t still has of what s rests on.                              *)
Holds(t, s) ==
  /\ t.source = s.source /\ t.config = s.config /\ t.paused = s.paused
  /\ t.req = s.req /\ t.reqOpen = s.reqOpen /\ t.design = s.design /\ t.designOpen = s.designOpen
  /\ s.reqApproval # NoProof => t.reqApproval = s.reqApproval
  /\ s.startApproval # NoProof => t.startApproval = s.startApproval
  /\ s.started => t.started /\ t.designMode = s.designMode
  /\ s.designApproval # NoProof => t.designApproval # NoProof

(* Every operation that takes something away from what a run may rest on    *)
(* begins a new epoch, and no epoch comes back: what runs, tools and        *)
(* publications compare instead of the whole record (cancellation_epoch).   *)
LossBumpsEpoch ==
  [][task # NoTask => /\ task.epoch <= task'.epoch
                      /\ task'.epoch = task.epoch => Holds(task', task)]_vars

(* So the epoch of a run tells all that its record is compared with: while  *)
(* it is the epoch of the task, the run is of the current requirements and  *)
(* design, these are approved and started, and nobody has stopped the task. *)
EpochTells ==
  task # NoTask /\ task.run.status # "none" =>
    /\ task.run.epoch <= task.epoch
    /\ task.run.epoch = task.epoch =>
         /\ task.run.req = task.req /\ task.run.design = task.design
         /\ ~task.paused /\ InImplementation(task)

(* The terms an agent works on, of which it keeps no other account: the     *)
(* operations change them as the agent loop is prepared for.                *)
DesignOf(t) ==
  IF t.design = 0 THEN "none" ELSE IF t.designOpen THEN "open"
  ELSE IF t.designMode = "collaborative" /\ t.designApproval = NoProof THEN "proposed" ELSE "ready"
TermsOf(t) ==
  IF t = NoTask
  THEN [drafted |-> FALSE, approved |-> FALSE, design |-> "none", paused |-> FALSE, over |-> FALSE,
        epoch |-> 0]
  ELSE [drafted |-> t.req # 0, approved |-> t.started, design |-> DesignOf(t), paused |-> t.paused,
        over |-> t.cancelled \/ t.cancelRequested, epoch |-> t.epoch]
Shared == INSTANCE Terms WITH terms <- TermsOf(task)
SetsTerms == Shared!Spec

(* WORKFLOW_IMPLEMENTATION.md 2: a cancellation is never undone and grants  *)
(* no new work, and with a run active it is recorded when the run has ended. *)
CancelSticks ==
  [][task # NoTask /\ (task.cancelled \/ task.cancelRequested) =>
       /\ task'.cancelled \/ task'.cancelRequested
       /\ ~Active(task) => task'.cancelled /\ ~Active(task')]_vars
=============================================================================
