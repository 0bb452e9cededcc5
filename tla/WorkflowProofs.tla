-------------------------- MODULE WorkflowProofs ---------------------------
(***************************************************************************)
(* Workflow for any comments, users, issues, configurations and commands.  *)
(* The inductive invariant adds to ApprovalsCurrent that what was handled  *)
(* was written (so that nobody can still choose its author and command),   *)
(* that an approval is a handled comment, that it took the role it stands  *)
(* for, and that the lock keeps the task as it was when GitHub was read.   *)
(***************************************************************************)
EXTENDS Workflow, TLAPS

(* The approvals of a task t, when the comments in h were handled.          *)
Evidenced(p, h) == p = NoProof \/ p.by \in h

Good(t, h) ==
  /\ Evidenced(t.reqApproval, h)
  /\ Evidenced(t.startApproval, h)
  /\ Evidenced(t.designApproval, h)
  /\ t.reqApproval # NoProof =>
       /\ t.req # 0 /\ ~t.reqOpen /\ Says(t.reqApproval, "approve_requirements", t.req)
       /\ "requirement_approver" \in t.reqApproval.roles
  /\ t.startApproval # NoProof =>
       /\ t.started /\ Says(t.startApproval, "start", t.req)
       /\ "starter" \in t.startApproval.roles
  /\ t.started =>
       /\ t.reqApproval # NoProof
       /\ \/ t.startApproval # NoProof
          \/ t.config.start = "on_approval"
          \/ "starter" \in t.reqApproval.roles
  /\ t.designApproval # NoProof =>
       /\ t.started /\ t.design # 0 /\ ~t.designOpen
       /\ Says(t.designApproval, "approve_design", t.design)
       /\ "design_approver" \in t.designApproval.roles
  /\ t.design # 0 => t.designReq = t.req /\ t.req # 0
  /\ t.designMode \in {t.config.design} \cup t.config.designOverrides

HandledWritten == \A c \in handled \cup seen : comments[c].status # "unwritten"

GoodTask == task # NoTask => Good(task, handled)

(* What was seen of the task when GitHub was read, while the lock is held.  *)
LockKeeps ==
  /\ looked.for = "none" => looked = NoLook
  /\ looked.for = "reserved" =>
       Accepting(task) /\ ~Active(task) /\ ~task.paused /\ InImplementation(task)
  /\ looked.for = "dispatching" =>
       /\ Accepting(task) /\ ~task.paused /\ task.run.epoch = task.epoch
       /\ task.run.status = "reserved"
  /\ looked.for = "ended" =>
       task # NoTask /\ task.run.status \in ActiveStatuses \ {"reserved"}

IInv == TypeOK /\ HandledWritten /\ GoodTask /\ LockKeeps

-----------------------------------------------------------------------------
(* A record of a task is no NoTask, and a proof by a comment no NoProof.    *)
LEMMA Distinct ==
  /\ NoTask \notin TaskType
  /\ \A c \in Comments : \A roles : Proof(c, roles) # NoProof
<1>1. NoTask \notin TaskType
  BY SMT DEF NoTask, TaskType
<1>2. \A c \in Comments : \A roles : Proof(c, roles) # NoProof
  BY NoOneType DEF Proof, NoProof
<1> QED BY <1>1, <1>2

(* The small changes of a task's record keep its type.                      *)
LEMMA RecordTypes ==
  ASSUME NEW t \in TaskType
  PROVE  /\ Settle(t) \in TaskType
         /\ NextEpoch(t) \in TaskType
         /\ ResetScope(t) \in TaskType
<1>1. NextEpoch(t) \in TaskType
  BY SMT DEF NextEpoch, TaskType
<1>2. Settle(t) \in TaskType
  <2>1. ASSUME NEW b \in BOOLEAN
        PROVE  [t EXCEPT !.cancelled = b, !.cancelRequested = FALSE] \in TaskType
    BY Zenon DEF TaskType
  <2>2. (t.cancelled \/ t.cancelRequested) \in BOOLEAN
    OBVIOUS
  <2> QED BY <2>1, <2>2, Zenon DEF Settle
<1>3. ResetScope(t) \in TaskType
  <2>1. NoProof \in ProofType
    BY DEF NoProof, ProofType
  <2>2. ASSUME NEW n \in TaskType
        PROVE  [n EXCEPT !.req = 0, !.reqOpen = FALSE, !.reqApproval = NoProof,
                         !.started = FALSE, !.startApproval = NoProof,
                         !.design = 0, !.designReq = 0, !.designOpen = FALSE,
                         !.designApproval = NoProof] \in TaskType
    BY <2>1, ZenonT(30) DEF TaskType
  <2> QED BY <1>1, <2>2, Zenon DEF ResetScope
<1> QED BY <1>1, <1>2, <1>3

(* Two records with the same documents and approvals.                       *)
Same(s, t) ==
  /\ s.config = t.config /\ s.designMode = t.designMode
  /\ s.req = t.req /\ s.reqOpen = t.reqOpen /\ s.reqApproval = t.reqApproval
  /\ s.started = t.started /\ s.startApproval = t.startApproval
  /\ s.design = t.design /\ s.designReq = t.designReq /\ s.designOpen = t.designOpen
  /\ s.designApproval = t.designApproval

LEMMA SameGood ==
  ASSUME NEW s, NEW t, NEW h, NEW g, Same(s, t), Good(t, h), h \subseteq g
  PROVE  Good(s, g)
<1>1. \A p : Evidenced(p, h) => Evidenced(p, g)
  BY DEF Evidenced
<1> QED BY <1>1 DEF Same, Good

LEMMA SettleSame ==
  ASSUME NEW t \in TaskType
  PROVE  Same(Settle(t), t) /\ Same(NextEpoch(t), t)
<1>1. Same(NextEpoch(t), t)
  BY SMT DEF NextEpoch, Same, TaskType
<1>2. ASSUME NEW b
      PROVE  Same([t EXCEPT !.cancelled = b, !.cancelRequested = FALSE], t)
  BY SMT DEF Same, TaskType
<1>3. Same(t, t)
  BY DEF Same
<1> QED BY <1>1, <1>2, <1>3, Zenon DEF Settle

(* Nothing is left of the documents and the approvals.                      *)
Cleared(s) ==
  /\ s.req = 0 /\ s.reqApproval = NoProof
  /\ s.started = FALSE /\ s.startApproval = NoProof
  /\ s.design = 0 /\ s.designApproval = NoProof

LEMMA ResetClears ==
  ASSUME NEW t \in TaskType
  PROVE  /\ Cleared(ResetScope(t))
         /\ ResetScope(t).config = t.config
         /\ ResetScope(t).designMode = t.designMode
<1>1. NextEpoch(t) \in TaskType
  BY RecordTypes
<1>2. NextEpoch(t).config = t.config /\ NextEpoch(t).designMode = t.designMode
  BY SettleSame DEF Same
<1>3. ASSUME NEW n \in TaskType
      PROVE  LET r == [n EXCEPT !.req = 0, !.reqOpen = FALSE, !.reqApproval = NoProof,
                         !.started = FALSE, !.startApproval = NoProof,
                         !.design = 0, !.designReq = 0, !.designOpen = FALSE,
                         !.designApproval = NoProof]
             IN Cleared(r) /\ r.config = n.config /\ r.designMode = n.designMode
  BY SMTT(30) DEF TaskType, Cleared
<1> QED BY <1>1, <1>2, <1>3, Zenon DEF ResetScope

LEMMA ClearedGood ==
  ASSUME NEW s, NEW h, Cleared(s),
         s.designMode \in {s.config.design} \cup s.config.designOverrides
  PROVE  Good(s, h)
BY DEF Cleared, Good, Evidenced

-----------------------------------------------------------------------------
(* Nothing is kept when the lock is given back, and all while nobody        *)
(* changes what was seen.                                                   *)
LEMMA LockStep ==
  /\ looked' = NoLook => LockKeeps'
  /\ LockKeeps /\ looked' = looked /\ task' = task /\ policy' = policy => LockKeeps'
<1>1. looked' = NoLook => LockKeeps'
  BY DEF LockKeeps, NoLook
<1>2. LockKeeps /\ looked' = looked /\ task' = task /\ policy' = policy => LockKeeps'
  BY DEF LockKeeps, Accepting, Live, Active, InImplementation
<1> QED BY <1>1, <1>2

(* A commit keeps the invariant when its record has the type and the new    *)
(* record's approvals are good; an operation handles nothing, or a comment  *)
(* that was seen.                                                           *)
LEMMA CommitStep ==
  ASSUME IInv, NEW t \in TaskType, Commit(t),
         handled' \subseteq Comments, handled' \subseteq handled \cup seen,
         Good(t, handled')
  PROVE  IInv'
<1>1. TypeOK'
  BY RecordTypes DEF IInv, TypeOK, Commit, world, NoLook, LookType
<1>2. HandledWritten' /\ LockKeeps'
  BY LockStep DEF IInv, HandledWritten, Commit, world
<1>3. Good(Settle(t), handled')
  BY SettleSame, SameGood
<1>4. \A x : Good(x, handled') => Good(x, handled)'
  <2>1. comments' = comments
    BY DEF Commit, world
  <2>2. ASSUME NEW x
        PROVE  Good(x, handled') => Good(x, handled)'
    BY <2>1 DEF Good, Evidenced, Says
  <2> QED BY <2>2
<1>5. GoodTask'
  BY <1>3, <1>4 DEF GoodTask, Commit
<1> QED BY <1>1, <1>2, <1>5 DEF IInv

(* What every operation on a captured task starts from.                     *)
LEMMA Captured ==
  ASSUME IInv, task # NoTask
  PROVE  /\ task \in TaskType /\ Good(task, handled)
         /\ task.config \in PolicyType
         /\ handled \subseteq Comments
BY PoliciesType DEF IInv, TypeOK, GoodTask, TaskType

(* The commands of handled comments are all that Good looks at outside.     *)
LEMMA GoodUnaffected ==
  ASSUME IInv, task' = task, handled' = handled,
         \A c \in handled : comments'[c].cmd = comments[c].cmd
  PROVE  GoodTask'
<1> SUFFICES ASSUME task # NoTask
             PROVE  Good(task, handled)'
  BY DEF GoodTask
<1>1. Good(task, handled)
  BY DEF IInv, GoodTask
<1>2. \A p, name, revision : p # NoProof /\ Evidenced(p, handled) /\ Says(p, name, revision)
        => (Says(p, name, revision))'
  BY DEF Evidenced, Says
<1>3. Evidenced(task.reqApproval, handled) /\ Evidenced(task.startApproval, handled)
      /\ Evidenced(task.designApproval, handled)
  BY <1>1 DEF Good
<1> QED BY <1>1, <1>2, <1>3 DEF Good, Evidenced, Says

LEMMA WorldStep ==
  ASSUME IInv, World
  PROVE  IInv'
<1>1. ASSUME NEW c \in Comments, NEW cmd \in Commands, NEW a \in Actors, Write(c, cmd, a)
      PROVE  IInv'
  <2>1. comments'[c] \in CommentType /\ comments' \in [Comments -> CommentType]
    <3>1. [status |-> "posted", actor |-> a, cmd |-> cmd] \in CommentType
      BY CommandsType DEF CommentType
    <3> QED BY <1>1, <3>1 DEF Write, IInv, TypeOK
  <2>2. \A d \in Comments : d # c => comments'[d] = comments[d]
    BY <1>1 DEF Write, IInv, TypeOK
  <2>3. c \notin handled /\ c \notin seen
    BY <1>1 DEF Write, IInv, HandledWritten
  <2>4. TypeOK'
    BY <1>1, <2>1 DEF Write, IInv, TypeOK
  <2>5. HandledWritten' /\ LockKeeps'
    BY <1>1, <2>2, <2>3, LockStep DEF Write, IInv, TypeOK, HandledWritten
  <2>6. GoodTask'
    BY <1>1, <2>2, <2>3, GoodUnaffected DEF Write, IInv, TypeOK
  <2> QED BY <2>4, <2>5, <2>6 DEF IInv
<1>2. ASSUME NEW c \in Comments, NEW how \in {"edited", "deleted"}, Spoil(c, how)
      PROVE  IInv'
  <2>1. comments[c] \in CommentType
    BY DEF IInv, TypeOK
  <2>2. /\ [comments[c] EXCEPT !.status = how] \in CommentType
        /\ [comments[c] EXCEPT !.status = how].cmd = comments[c].cmd
        /\ [comments[c] EXCEPT !.status = how].status # "unwritten"
    BY <2>1 DEF CommentType
  <2>3. comments' = [comments EXCEPT ![c] = [comments[c] EXCEPT !.status = how]]
    BY <1>2 DEF Spoil
  <2>4. comments' \in [Comments -> CommentType]
    BY <2>2, <2>3 DEF IInv, TypeOK
  <2>5. \A d \in Comments : /\ comments'[d].cmd = comments[d].cmd
                            /\ comments[d].status # "unwritten" => comments'[d].status # "unwritten"
    BY <2>2, <2>3 DEF IInv, TypeOK
  <2>6. TypeOK'
    BY <1>2, <2>4 DEF Spoil, Disturb, IInv, TypeOK
  <2>7. HandledWritten' /\ LockKeeps'
    BY <1>2, <2>5, LockStep DEF Spoil, Disturb, IInv, TypeOK, HandledWritten
  <2>8. GoodTask'
    BY <1>2, <2>5, GoodUnaffected DEF Spoil, Disturb, IInv, TypeOK
  <2> QED BY <2>6, <2>7, <2>8 DEF IInv
<1>3. ASSUME UNCHANGED <<comments, task, handled, seen, policy, looked>>, TypeOK'
      PROVE  IInv'
  <2>1. GoodTask'
    BY <1>3, GoodUnaffected
  <2>2. LockKeeps'
    BY <1>3, LockStep DEF IInv
  <2> QED BY <1>3, <2>1, <2>2 DEF IInv, HandledWritten
<1>4. ASSUME NEW new \in IssueType, ChangeIssue(new)
      PROVE  IInv'
  BY <1>3, <1>4 DEF ChangeIssue, Disturb, IInv, TypeOK
<1>5. ASSUME NEW new \in SUBSET Actors, ChangeWriters(new)
      PROVE  IInv'
  BY <1>3, <1>5 DEF ChangeWriters, Disturb, IInv, TypeOK
<1> QED BY <1>1, <1>2, <1>4, <1>5 DEF World

LEMMA RestartStep ==
  ASSUME IInv, NEW p \in Policies, Restart(p)
  PROVE  IInv'
<1>1. TypeOK'
  BY DEF Restart, IInv, TypeOK, NoLook, LookType
<1>2. HandledWritten' /\ LockKeeps'
  BY LockStep DEF Restart, IInv, HandledWritten
<1>3. GoodTask'
  BY GoodUnaffected DEF Restart
<1> QED BY <1>1, <1>2, <1>3 DEF IInv

LEMMA ObserveStep ==
  ASSUME IInv, Observe
  PROVE  IInv'
<1> USE DEF Observe
<1>1. TypeOK'
  BY DEF ObserveSource, ObserveComment, IInv, TypeOK, world
<1>2. HandledWritten' /\ LockKeeps'
  BY LockStep DEF ObserveSource, ObserveComment, Standing, IInv, HandledWritten, world
<1>3. GoodTask'
  BY GoodUnaffected DEF ObserveSource, ObserveComment, world
<1> QED BY <1>1, <1>2, <1>3 DEF IInv

(* Reading GitHub for a run changes nothing but what was read.              *)
LEMMA LooksAside ==
  ASSUME Looks
  PROVE  UNCHANGED <<world, task, handled, seen, sourceSeen>>
BY DEF Looks, Gate, CheckRun, Release, Look

LEMMA LooksStep ==
  ASSUME IInv, Looks
  PROVE  IInv'
<1>1. UNCHANGED <<issue, comments, writers, policy, changes, task, handled, seen, sourceSeen>>
  BY LooksAside DEF world
<1>2. Authorised \in BOOLEAN
  BY DEF Authorised
<1>3. looked' \in LookType /\ LockKeeps'
  <2>1. CASE Gate
    <3>1. looked' = [for |-> "reserved", authorised |-> Authorised]
      BY <2>1 DEF Gate, Look
    <3>2. GateOpen(task)
      BY <2>1 DEF Gate
    <3> HIDE DEF Authorised
    <3> QED BY <1>1, <1>2, <3>1, <3>2
            DEF LookType, LockKeeps, GateOpen, Accepting, Live, Active, InImplementation
  <2>2. CASE CheckRun
    <3> DEFINE what == IF task.run.status = "reserved" THEN "dispatching" ELSE "ended"
    <3>1. looked' = [for |-> what, authorised |-> Authorised]
      BY <2>2 DEF CheckRun, Look
    <3>2. task # NoTask /\ Active(task) /\ RunBasis(task)
      BY <2>2 DEF CheckRun
    <3> HIDE DEF Authorised
    <3> QED BY <1>1, <1>2, <3>1, <3>2
            DEF LookType, LockKeeps, RunBasis, Accepting, Live, Active, ActiveStatuses
  <2>3. CASE Release
    BY <2>3, LockStep DEF Release, NoLook, LookType
  <2> QED BY <2>1, <2>2, <2>3 DEF Looks
<1>4. GoodTask'
  BY <1>1, GoodUnaffected
<1>5. TypeOK' /\ HandledWritten'
  BY <1>1, <1>3 DEF IInv, TypeOK, HandledWritten
<1> QED BY <1>3, <1>4, <1>5 DEF IInv

-----------------------------------------------------------------------------
(* Operations on the task that no comment asks for.                         *)
LEMMA NewTaskGood ==
  ASSUME IInv, sourceSeen \in IssueType, NEW h
  PROVE  NewTask(sourceSeen) \in TaskType /\ Good(NewTask(sourceSeen), h)
<1>1. policy \in Policies /\ policy \in PolicyType
  BY PoliciesType DEF IInv, TypeOK
<1>2. NoProof \in ProofType /\ NoRun \in RunType
  BY DEF NoProof, ProofType, NoRun, RunType, RunStatuses
<1>3. policy.start \in StartPolicies /\ policy.design \in DesignModes
  BY <1>1 DEF PolicyType
<1>4. NewTask(sourceSeen) \in TaskType
  BY <1>1, <1>2, <1>3, SMTT(30) DEF NewTask, TaskType
<1>5. Cleared(NewTask(sourceSeen))
  BY DEF NewTask, Cleared
<1>6. NewTask(sourceSeen).designMode = NewTask(sourceSeen).config.design
  BY DEF NewTask
<1> QED BY <1>4, <1>5, <1>6, ClearedGood

LEMMA ResetGood ==
  ASSUME IInv, task # NoTask, NEW h
  PROVE  ResetScope(task) \in TaskType /\ Good(ResetScope(task), h)
BY Captured, RecordTypes, ResetClears, ClearedGood DEF Good

LEMMA CaptureSourceStep ==
  ASSUME IInv, CaptureSource
  PROVE  IInv'
<1> DEFINE t == IF task = NoTask THEN NewTask(sourceSeen)
                ELSE IF task.source = sourceSeen THEN task
                ELSE [ResetScope(task) EXCEPT !.source = sourceSeen]
           n == IF sourceSeen.open THEN t
                ELSE [t EXCEPT !.cancelRequested = Active(t), !.cancelled = ~Active(t)]
<1>1. sourceSeen \in IssueType
  BY DEF CaptureSource, IInv, TypeOK
<1>2. t \in TaskType /\ Good(t, handled)
  <2>1. CASE task = NoTask
    BY <1>1, <2>1, NewTaskGood
  <2>2. CASE task # NoTask /\ task.source = sourceSeen
    BY <2>2, Captured
  <2>3. CASE task # NoTask /\ task.source # sourceSeen
    <3>1. ASSUME NEW r \in TaskType
          PROVE  /\ [r EXCEPT !.source = sourceSeen] \in TaskType
                 /\ Same([r EXCEPT !.source = sourceSeen], r)
      BY <1>1, SMT DEF TaskType, Same
    <3> QED BY <2>3, <3>1, ResetGood, SameGood
  <2> QED BY <2>1, <2>2, <2>3
<1>3. n \in TaskType /\ Good(n, handled)
  <2>1. ASSUME NEW r \in TaskType, NEW a \in BOOLEAN, NEW b \in BOOLEAN
        PROVE  [r EXCEPT !.cancelRequested = a, !.cancelled = b] \in TaskType
    BY Zenon DEF TaskType
  <2>2. ASSUME NEW r \in TaskType, NEW a, NEW b
        PROVE  Same([r EXCEPT !.cancelRequested = a, !.cancelled = b], r)
    BY SMT DEF TaskType, Same
  <2>3. Active(t) \in BOOLEAN /\ (~Active(t)) \in BOOLEAN
    BY DEF Active
  <2>4. [t EXCEPT !.cancelRequested = Active(t), !.cancelled = ~Active(t)] \in TaskType
    BY <1>2, <2>1, <2>3, Zenon
  <2>5. Same([t EXCEPT !.cancelRequested = Active(t), !.cancelled = ~Active(t)], t)
    BY <1>2, <2>2, Zenon
  <2> HIDE DEF t
  <2>6. Good([t EXCEPT !.cancelRequested = Active(t), !.cancelled = ~Active(t)], handled)
    BY <1>2, <2>5, SameGood
  <2> QED BY <1>2, <2>4, <2>6
<1>4. Commit(n) /\ handled' = handled
  BY DEF CaptureSource
<1> HIDE DEF n
<1> QED BY <1>3, <1>4, CommitStep DEF IInv, TypeOK

LEMMA NormalizeStep ==
  ASSUME IInv, NEW questions \in BOOLEAN, Normalize(questions)
  PROVE  IInv'
<1> DEFINE r == ResetScope(task)
           n == [r EXCEPT !.req = task.requirementsCount + 1,
                          !.requirementsCount = @ + 1,
                          !.reqOpen = questions]
<1>1. task # NoTask
  BY DEF Normalize, Accepting, Live
<1>2. r \in TaskType /\ task \in TaskType
  BY <1>1, RecordTypes, Captured
<1>3. Cleared(r) /\ r.designMode \in {r.config.design} \cup r.config.designOverrides
  BY <1>1, Captured, ResetClears DEF Good
<1>4. task.requirementsCount + 1 \in Nat /\ r.requirementsCount + 1 \in Nat
  BY <1>2 DEF TaskType
<1> HIDE DEF r
<1>5. n \in TaskType
  BY <1>2, <1>4, Zenon DEF TaskType
<1>6. /\ n.reqApproval = r.reqApproval /\ n.started = r.started
      /\ n.startApproval = r.startApproval /\ n.design = r.design
      /\ n.designApproval = r.designApproval
      /\ n.config = r.config /\ n.designMode = r.designMode
  BY <1>2, SMT DEF TaskType
<1>7. Commit(n) /\ handled' = handled
  BY DEF Normalize, r
<1> HIDE DEF n
<1>8. Good(n, handled)
  BY <1>3, <1>6 DEF Good, Cleared, Evidenced
<1> QED BY <1>5, <1>7, <1>8, CommitStep DEF IInv, TypeOK

LEMMA ProposeDesignStep ==
  ASSUME IInv, NEW questions \in BOOLEAN, ProposeDesign(questions)
  PROVE  IInv'
<1> DEFINE r == NextEpoch(task)
           n == [r EXCEPT !.design = task.designCount + 1,
                          !.designCount = @ + 1,
                          !.designReq = task.req,
                          !.designOpen = questions,
                          !.designApproval = NoProof]
<1>1. task # NoTask
  BY DEF ProposeDesign, Accepting, Live
<1>2. r \in TaskType /\ task \in TaskType /\ Same(r, task) /\ Good(task, handled)
  BY <1>1, RecordTypes, Captured, SettleSame
<1>3. Good(r, handled)
  BY <1>2, SameGood
<1>4. task.reqApproval # NoProof
  BY DEF ProposeDesign, Basis, ProofCurrent
<1>5. r.req = task.req /\ r.reqApproval = task.reqApproval /\ r.req # 0
  BY <1>2, <1>4 DEF Same, Good
<1>6. /\ task.designCount + 1 \in Nat /\ r.designCount + 1 \in Nat
      /\ task.req \in Nat /\ NoProof \in ProofType
  BY <1>2 DEF TaskType, NoProof, ProofType
<1> HIDE DEF r
<1>7. n \in TaskType
  BY <1>2, <1>6, Zenon DEF TaskType
<1>8. /\ n.req = r.req /\ n.reqOpen = r.reqOpen
      /\ n.reqApproval = r.reqApproval /\ n.started = r.started
      /\ n.startApproval = r.startApproval
      /\ n.designReq = task.req /\ n.designApproval = NoProof
      /\ n.config = r.config /\ n.designMode = r.designMode
  BY <1>2, SMT DEF TaskType
<1>9. Commit(n) /\ handled' = handled
  BY DEF ProposeDesign, r
<1> HIDE DEF n
<1>10. Good(n, handled)
  BY <1>3, <1>5, <1>8 DEF Good, Evidenced
<1> QED BY <1>7, <1>9, <1>10, CommitStep DEF IInv, TypeOK

LEMMA RefreshPolicyStep ==
  ASSUME IInv, RefreshPolicy
  PROVE  IInv'
<1> DEFINE r == ResetScope(task)
           n == [r EXCEPT !.config = policy,
                          !.startPolicy = policy.start,
                          !.designMode = policy.design]
<1>1. task # NoTask
  BY DEF RefreshPolicy, Live
<1>2. r \in TaskType /\ Cleared(r) /\ task \in TaskType /\ Good(task, handled)
  BY <1>1, RecordTypes, Captured, ResetClears
<1>3. /\ policy \in Policies /\ policy.start \in StartPolicies
      /\ policy.design \in DesignModes
  BY PoliciesType DEF IInv, TypeOK, PolicyType
<1> HIDE DEF r
<1>4. n \in TaskType
  BY <1>2, <1>3, Zenon DEF TaskType
<1>5. /\ n.req = r.req /\ n.reqApproval = r.reqApproval /\ n.started = r.started
      /\ n.startApproval = r.startApproval /\ n.design = r.design
      /\ n.designApproval = r.designApproval
      /\ n.config = policy /\ n.designMode = policy.design
  BY <1>2, SMT DEF TaskType
<1>6. Commit(IF task.config = policy THEN task ELSE n) /\ handled' = handled
  BY DEF RefreshPolicy, r
<1> HIDE DEF n
<1>7. Good(n, handled)
  BY <1>2, <1>5, ClearedGood DEF Cleared
<1> QED BY <1>2, <1>4, <1>6, <1>7, CommitStep DEF IInv, TypeOK

LEMMA ReconcileStep ==
  ASSUME IInv, Reconcile
  PROVE  IInv'
<1> DEFINE noReq == Revoked(task.reqApproval)
           noStart == noReq \/ Revoked(task.startApproval)
           noDesign == noStart \/ Revoked(task.designApproval)
           r == IF noDesign THEN NextEpoch(task) ELSE task
           reqApproval == IF noReq THEN NoProof ELSE r.reqApproval
           startApproval == IF noStart THEN NoProof ELSE r.startApproval
           started == r.started /\ ~noStart
           designApproval == IF noDesign THEN NoProof ELSE r.designApproval
           n == [r EXCEPT !.reqApproval = reqApproval,
                          !.startApproval = startApproval,
                          !.started = started,
                          !.designApproval = designApproval]
<1>1. task # NoTask
  BY DEF Reconcile, Accepting, Live
<1>2. task \in TaskType /\ Good(task, handled)
  BY <1>1, Captured
<1>3. r \in TaskType /\ Good(r, handled)
  BY <1>2, RecordTypes, SettleSame, SameGood
<1>4. Commit(n) /\ handled' = handled
  BY Zenon DEF Reconcile
<1> HIDE DEF r
<1>5. /\ reqApproval \in ProofType /\ startApproval \in ProofType
      /\ designApproval \in ProofType
  BY <1>3 DEF TaskType, NoProof, ProofType
<1>6. started \in BOOLEAN
  BY <1>3 DEF TaskType
<1> HIDE DEF reqApproval, startApproval, started, designApproval
<1>7. n \in TaskType
  BY <1>3, <1>5, <1>6, Zenon DEF TaskType
<1>8. /\ n.req = r.req /\ n.reqOpen = r.reqOpen
      /\ n.design = r.design /\ n.designReq = r.designReq /\ n.designOpen = r.designOpen
      /\ n.config = r.config /\ n.designMode = r.designMode
      /\ n.reqApproval = reqApproval /\ n.startApproval = startApproval
      /\ n.started = started /\ n.designApproval = designApproval
  BY <1>3, SMT DEF TaskType
<1> HIDE DEF n
<1>9. Good(n, handled)
  <2> USE DEF Good
  <2>1. /\ Evidenced(n.reqApproval, handled) /\ Evidenced(n.startApproval, handled)
        /\ Evidenced(n.designApproval, handled)
    BY <1>3, <1>8 DEF Evidenced, reqApproval, startApproval, designApproval
  <2>2. n.reqApproval # NoProof => n.reqApproval = r.reqApproval
    BY <1>8 DEF reqApproval
  <2>3. n.startApproval # NoProof => n.startApproval = r.startApproval /\ n.started
    BY <1>3, <1>8 DEF startApproval, started
  <2>4. n.started => /\ r.started /\ n.reqApproval = r.reqApproval
                     /\ n.startApproval = r.startApproval
    BY <1>8 DEF started, reqApproval, startApproval
  <2>5. n.designApproval # NoProof => n.designApproval = r.designApproval /\ n.started
    BY <1>3, <1>8 DEF designApproval, started
  <2> QED BY <1>3, <1>8, <2>1, <2>2, <2>3, <2>4, <2>5
<1> QED BY <1>4, <1>7, <1>9, CommitStep DEF IInv, TypeOK

-----------------------------------------------------------------------------
(* Commands.  The comment that is handled was seen, so it was written.      *)
LEMMA HandledComment ==
  ASSUME IInv, NEW c \in Comments, NEW name, Handling(c, name)
  PROVE  /\ handled' \subseteq Comments /\ handled' \subseteq handled \cup seen
         /\ handled \subseteq handled' /\ c \in handled'
         /\ \A roles \in SUBSET RoleNames : /\ Proof(c, roles) \in ProofType
                                          /\ Proof(c, roles).roles = roles
                                          /\ Proof(c, roles).by = c
                                          /\ Proof(c, roles) # NoProof
                                          /\ Evidenced(Proof(c, roles), handled')
         /\ comments[c].cmd \in CommandType
<1>1. comments[c].cmd \in CommandType
  BY DEF IInv, TypeOK, CommentType
<1> QED BY <1>1, Distinct DEF Handling, IInv, TypeOK, Proof, ProofType, Evidenced

LEMMA ApproveRequirementsStep ==
  ASSUME IInv, NEW c \in Comments, ApproveRequirements(c)
  PROVE  IInv'
<1> DEFINE cmd == comments[c].cmd
           start == Chosen(cmd.start, task.startPolicy)
           design == Chosen(cmd.design, task.designMode)
           starter == start = "on_approval" /\ policy.start # "on_approval"
           roles == {"requirement_approver"} \cup (IF starter THEN {"starter"} ELSE {})
           p == Proof(c, roles)
           started == start = "on_approval"
           n == [task EXCEPT !.reqApproval = p, !.startPolicy = start,
                             !.designMode = design, !.started = started]
<1>1. task # NoTask
  BY DEF ApproveRequirements, Accepting, Live
<1>2. task \in TaskType /\ Good(task, handled)
  BY <1>1, Captured
<1>3. Handling(c, "approve_requirements")
  BY DEF ApproveRequirements
<1>4. roles \in SUBSET RoleNames /\ "requirement_approver" \in roles
      /\ (starter => "starter" \in roles)
  BY DEF RoleNames
<1>5. p \in ProofType /\ p.roles = roles /\ p.by = c /\ p # NoProof
      /\ Evidenced(p, handled')
  BY <1>3, <1>4, HandledComment
<1>6. cmd \in CommandType
  BY <1>3, HandledComment
<1>7. start \in StartPolicies /\ design \in DesignModes /\ started \in BOOLEAN
  BY <1>2, <1>6, Zenon DEF Chosen, CommandType, TaskType
<1>8. /\ cmd.name = "approve_requirements" /\ task.req # 0 /\ cmd.revision = task.req
      /\ ~task.reqOpen /\ task.reqApproval = NoProof
      /\ task.config = policy
      /\ design \in policy.designOverrides \cup {task.designMode}
  BY DEF ApproveRequirements, Handling, Accepting, Permitted
<1>9. Commit(n)
  BY Zenon DEF ApproveRequirements
<1> HIDE DEF cmd, start, design, roles, p, started, starter
<1>10. n \in TaskType
  BY <1>2, <1>5, <1>7, Zenon DEF TaskType
<1>11. /\ n.req = task.req /\ n.reqOpen = task.reqOpen
       /\ n.startApproval = task.startApproval
       /\ n.design = task.design /\ n.designReq = task.designReq
       /\ n.designApproval = task.designApproval /\ n.config = task.config
       /\ n.reqApproval = p /\ n.started = started /\ n.designMode = design
  BY <1>2, SMT DEF TaskType
<1> HIDE DEF n
<1>12. task.startApproval = NoProof /\ task.designApproval = NoProof
  BY <1>2, <1>8 DEF Good
<1>13. n.started => n.config.start = "on_approval" \/ "starter" \in p.roles
  BY <1>4, <1>5, <1>8, <1>11 DEF started, starter
<1>14. Good(n, handled')
  <2>1. Evidenced(NoProof, handled')
    BY DEF Evidenced
  <2>2. Says(n.reqApproval, "approve_requirements", n.req)
    BY <1>5, <1>8, <1>11 DEF Says, cmd
  <2>3. n.designMode \in {n.config.design} \cup n.config.designOverrides
    BY <1>2, <1>8, <1>11 DEF Good
  <2>4. n.design # 0 => n.designReq = n.req /\ n.req # 0
    BY <1>2, <1>8, <1>11 DEF Good
  <2> QED BY <1>4, <1>5, <1>8, <1>11, <1>12, <1>13, <2>1, <2>2, <2>3, <2>4 DEF Good
<1> QED BY <1>3, <1>9, <1>10, <1>14, HandledComment, CommitStep

LEMMA StartStep ==
  ASSUME IInv, NEW c \in Comments, Start(c)
  PROVE  IInv'
<1> DEFINE cmd == comments[c].cmd
           design == Chosen(cmd.design, task.designMode)
           p == Proof(c, {"starter"})
           n == [task EXCEPT !.startApproval = p, !.designMode = design, !.started = TRUE]
<1>1. task # NoTask
  BY DEF Start, Accepting, Live
<1>2. task \in TaskType /\ Good(task, handled)
  BY <1>1, Captured
<1>3. Handling(c, "start")
  BY DEF Start
<1>4. p \in ProofType /\ p.roles = {"starter"} /\ p.by = c /\ p # NoProof
      /\ Evidenced(p, handled')
  BY <1>3, HandledComment DEF RoleNames
<1>5. cmd \in CommandType
  BY <1>3, HandledComment
<1>6. design \in DesignModes
  BY <1>2, <1>5, Zenon DEF Chosen, CommandType, TaskType
<1>7. /\ cmd.name = "start" /\ cmd.revision = task.req
      /\ task.reqApproval # NoProof /\ ~task.started
      /\ task.config = policy
      /\ design \in policy.designOverrides \cup {task.designMode}
  BY DEF Start, Handling, Accepting, Permitted, ProofCurrent
<1>8. Commit(n)
  BY Zenon DEF Start
<1> HIDE DEF cmd, design, p
<1>9. n \in TaskType
  BY <1>2, <1>4, <1>6, Zenon DEF TaskType
<1>10. /\ n.req = task.req /\ n.reqOpen = task.reqOpen
       /\ n.reqApproval = task.reqApproval
       /\ n.design = task.design /\ n.designReq = task.designReq
       /\ n.designApproval = task.designApproval /\ n.config = task.config
       /\ n.startApproval = p /\ n.started = TRUE /\ n.designMode = design
  BY <1>2, SMT DEF TaskType
<1> HIDE DEF n
<1>11. Good(task, handled')
  BY <1>2, <1>3, HandledComment, SameGood DEF Same
<1>12. Good(n, handled')
  <2>1. Says(n.startApproval, "start", n.req)
    BY <1>4, <1>7, <1>10 DEF Says, cmd
  <2>2. n.designMode \in {n.config.design} \cup n.config.designOverrides
    BY <1>2, <1>7, <1>10 DEF Good
  <2>3. task.designApproval = NoProof
    BY <1>2, <1>7 DEF Good
  <2> QED BY <1>4, <1>7, <1>10, <1>11, <2>1, <2>2, <2>3 DEF Good
<1> QED BY <1>3, <1>8, <1>9, <1>12, HandledComment, CommitStep

LEMMA ApproveDesignStep ==
  ASSUME IInv, NEW c \in Comments, ApproveDesign(c)
  PROVE  IInv'
<1> DEFINE cmd == comments[c].cmd
           p == Proof(c, {"design_approver"})
           n == [task EXCEPT !.designApproval = p]
<1>1. task # NoTask
  BY DEF ApproveDesign, Accepting, Live
<1>2. task \in TaskType /\ Good(task, handled)
  BY <1>1, Captured
<1>3. Handling(c, "approve_design")
  BY DEF ApproveDesign
<1>4. p \in ProofType /\ p.roles = {"design_approver"} /\ p.by = c /\ p # NoProof
      /\ Evidenced(p, handled')
  BY <1>3, HandledComment DEF RoleNames
<1>5. /\ cmd.name = "approve_design" /\ cmd.revision = task.design
      /\ task.started /\ task.design # 0 /\ ~task.designOpen
  BY DEF ApproveDesign, Handling, Basis
<1>6. Commit(n)
  BY Zenon DEF ApproveDesign
<1> HIDE DEF cmd, p
<1>7. n \in TaskType
  BY <1>2, <1>4, Zenon DEF TaskType
<1>8. /\ n.req = task.req /\ n.reqOpen = task.reqOpen
      /\ n.reqApproval = task.reqApproval /\ n.startApproval = task.startApproval
      /\ n.started = task.started /\ n.design = task.design
      /\ n.designReq = task.designReq /\ n.designOpen = task.designOpen
      /\ n.designApproval = p /\ n.config = task.config /\ n.designMode = task.designMode
  BY <1>2, SMT DEF TaskType
<1> HIDE DEF n
<1>9. Good(task, handled')
  BY <1>2, <1>3, HandledComment, SameGood DEF Same
<1>10. Says(n.designApproval, "approve_design", n.design)
  BY <1>4, <1>5, <1>8 DEF Says, cmd
<1>11. Good(n, handled')
  BY <1>4, <1>5, <1>8, <1>9, <1>10 DEF Good
<1> QED BY <1>3, <1>6, <1>7, <1>11, HandledComment, CommitStep

LEMMA AmendStep ==
  ASSUME IInv, NEW c \in Comments, Amend(c)
  PROVE  IInv'
<1>1. task # NoTask /\ Handling(c, "amend") /\ Commit(ResetScope(task))
  BY DEF Amend, Accepting, Live
<1> QED BY <1>1, HandledComment, ResetGood, CommitStep

(* Stop, resume and cancel, and all that a run records, leave documents and *)
(* approvals alone.                                                         *)
LEMMA SameStep ==
  ASSUME IInv, task # NoTask, NEW t \in TaskType, Same(t, task), Commit(t),
         \/ handled' = handled
         \/ \E c \in Comments : \E name : Handling(c, name)
  PROVE  IInv'
<1>1. /\ handled' \subseteq Comments /\ handled' \subseteq handled \cup seen
      /\ handled \subseteq handled'
  BY HandledComment DEF IInv, TypeOK
<1>2. Good(task, handled)
  BY Captured
<1>3. Good(t, handled')
  BY <1>1, <1>2, SameGood
<1> QED BY <1>1, <1>3, CommitStep

LEMMA ControlStep ==
  ASSUME IInv, NEW c \in Comments, Resume(c) \/ Stop(c) \/ Cancel(c)
  PROVE  IInv'
<1> DEFINE r == NextEpoch(task)
<1>1. task # NoTask
  BY DEF Resume, Stop, Cancel, Accepting, Live
<1>2. r \in TaskType /\ Same(r, task)
  BY <1>1, Captured, RecordTypes, SettleSame
<1>3. ASSUME NEW a \in BOOLEAN, NEW b \in BOOLEAN, NEW d \in BOOLEAN
      PROVE  [r EXCEPT !.paused = a, !.cancelRequested = b, !.cancelled = d] \in TaskType
  <2> HIDE DEF r
  <2> QED BY <1>2, Zenon DEF TaskType
<1>4. ASSUME NEW a, NEW b, NEW d
      PROVE  Same([r EXCEPT !.paused = a, !.cancelRequested = b, !.cancelled = d], task)
  <2> HIDE DEF r
  <2> QED BY <1>2, SMT DEF TaskType, Same
<1>5. CASE Resume(c)
  <2>1. [r EXCEPT !.paused = FALSE] \in TaskType
    <3> HIDE DEF r
    <3> QED BY <1>2, Zenon DEF TaskType
  <2>2. Same([r EXCEPT !.paused = FALSE], task)
    <3> HIDE DEF r
    <3> QED BY <1>2, SMT DEF TaskType, Same
  <2>3. Commit([r EXCEPT !.paused = FALSE]) /\ Handling(c, "resume")
    BY <1>5 DEF Resume
  <2> HIDE DEF r
  <2> QED BY <1>1, <2>1, <2>2, <2>3, SameStep
<1>6. CASE Stop(c)
  <2> DEFINE n == [r EXCEPT !.paused = TRUE, !.cancelRequested = FALSE, !.cancelled = FALSE]
  <2>1. Commit(n) /\ Handling(c, "stop")
    BY <1>6 DEF Stop
  <2>2. n \in TaskType /\ Same(n, task)
    BY <1>3, <1>4, Zenon
  <2> HIDE DEF n
  <2> QED BY <1>1, <2>1, <2>2, SameStep
<1>7. CASE Cancel(c)
  <2> DEFINE n == [r EXCEPT !.paused = FALSE, !.cancelRequested = Active(task),
                            !.cancelled = ~Active(task)]
  <2>1. Commit(n) /\ Handling(c, "cancel")
    BY <1>7 DEF Cancel
  <2>2. Active(task) \in BOOLEAN /\ (~Active(task)) \in BOOLEAN
    BY DEF Active
  <2>3. n \in TaskType /\ Same(n, task)
    BY <1>3, <1>4, <2>2, Zenon
  <2> HIDE DEF n
  <2> QED BY <1>1, <2>1, <2>3, SameStep
<1> QED BY <1>5, <1>6, <1>7

LEMMA RunRecord ==
  ASSUME IInv, task # NoTask, NEW r \in RunType, Commit([task EXCEPT !.run = r]),
         handled' = handled
  PROVE  IInv'
<1>1. task \in TaskType
  BY Captured
<1>2. [task EXCEPT !.run = r] \in TaskType
  BY <1>1, Zenon DEF TaskType
<1>3. Same([task EXCEPT !.run = r], task)
  BY <1>1, SMT DEF TaskType, Same
<1> QED BY <1>2, <1>3, SameStep

LEMMA RunStep ==
  ASSUME IInv, Run
  PROVE  IInv'
<1>1. CASE Reserve
  <2>1. task # NoTask /\ task \in TaskType
    BY <1>1, Captured DEF Reserve, IInv, LockKeeps, Accepting, Live
  <2>2. [status |-> "reserved", epoch |-> task.epoch, req |-> task.req,
         design |-> task.design, repairable |-> FALSE] \in RunType
    BY <2>1 DEF TaskType, RunType, RunStatuses, ActiveStatuses
  <2> QED BY <1>1, <2>1, <2>2, RunRecord DEF Reserve
<1>2. CASE PrepareRepair
  <2>1. task # NoTask
    BY <1>2 DEF PrepareRepair, Accepting, Live
  <2>2. NoRun \in RunType
    BY DEF NoRun, RunType, RunStatuses
  <2> QED BY <1>2, <2>1, <2>2, RunRecord DEF PrepareRepair
<1>3. ASSUME NEW status \in {"dispatching", "running", "uncertain"}, RunMoves(status)
      PROVE  IInv'
  <2> DEFINE r == [task.run EXCEPT !.status = status, !.repairable = FALSE]
  <2>1. task # NoTask /\ task.run \in RunType
    BY <1>3, Captured DEF RunMoves, Record, TaskType
  <2>2. r \in RunType
    BY <2>1 DEF RunType, RunStatuses, ActiveStatuses
  <2>3. Commit([task EXCEPT !.run = r]) /\ handled' = handled
    BY <1>3, Zenon DEF RunMoves, Record
  <2> HIDE DEF r
  <2> QED BY <2>1, <2>2, <2>3, RunRecord
<1>4. ASSUME NEW status \in {"succeeded", "stale", "failed"}, NEW repairable \in BOOLEAN,
             RunEnds(status, repairable)
      PROVE  IInv'
  <2> DEFINE r == [task.run EXCEPT !.status = status, !.repairable = repairable]
  <2>1. task # NoTask /\ task.run \in RunType /\ task \in TaskType
    BY <1>4, Captured DEF RunEnds, TaskType
  <2>2. r \in RunType
    BY <2>1 DEF RunType, RunStatuses
  <2>3. Commit([task EXCEPT !.run = r]) /\ handled' = handled
    BY <1>4, Zenon DEF RunEnds, Record
  <2> HIDE DEF r
  <2> QED BY <2>1, <2>2, <2>3, RunRecord
<1> QED BY <1>1, <1>2, <1>3, <1>4 DEF Run

-----------------------------------------------------------------------------
LEMMA InitIInv == Init => IInv
<1> SUFFICES ASSUME Init PROVE IInv
  OBVIOUS
<1>1. Unwritten \in CommentType
  BY DEF Unwritten, CommentType, CommandType, CommandNames
<1>2. TypeOK
  BY <1>1 DEF Init, TypeOK, IssueType, NoLook, LookType
<1> QED BY <1>2 DEF Init, IInv, HandledWritten, GoodTask, LockKeeps, NoLook

LEMMA NextIInv ==
  ASSUME IInv, [Next]_vars
  PROVE  IInv'
<1>1. CASE UNCHANGED vars
  <2>1. TypeOK' /\ HandledWritten' /\ LockKeeps'
    BY <1>1, LockStep DEF vars, world, IInv, TypeOK, HandledWritten
  <2>2. GoodTask'
    BY <1>1, GoodUnaffected DEF vars, world
  <2> QED BY <2>1, <2>2 DEF IInv
<1>2. CASE Engine
  BY <1>2, ObserveStep, CaptureSourceStep, NormalizeStep, ProposeDesignStep,
     ReconcileStep, RefreshPolicyStep, ApproveRequirementsStep, StartStep,
     ApproveDesignStep, AmendStep, ControlStep DEF Engine, Operation, HandleComment
<1> QED BY <1>1, <1>2, WorldStep, LooksStep, RunStep, RestartStep DEF Next

LEMMA Inductive == Spec => []IInv
BY InitIInv, NextIInv, PTL DEF Spec

(* The types hold for any comments, users, issues and configurations.       *)
THEOREM TypeCorrect == Spec => []TypeOK
<1>1. IInv => TypeOK
  BY DEF IInv
<1> QED BY <1>1, Inductive, PTL

(* Approvals are for the current revisions, through every sequence of       *)
(* commands, revisions, revocations, configurations and runs.               *)
THEOREM ApprovalsAreCurrent == Spec => []ApprovalsCurrent
<1>1. IInv => ApprovalsCurrent
  <2> SUFFICES ASSUME IInv, task # NoTask
               PROVE  ApprovalsCurrent
    BY DEF ApprovalsCurrent
  <2>1. Good(task, handled)
    BY Captured
  <2>2. Proofs(task) \subseteq handled
    BY <2>1 DEF Good, Evidenced, Proofs, NoProof
  <2> QED BY <2>1, <2>2 DEF Good, ApprovalsCurrent
<1> QED BY <1>1, Inductive, PTL

-----------------------------------------------------------------------------
(* Cancellation.  Every commit settles, so a requested cancellation waits   *)
(* for an active run and for nothing else.                                  *)
Settled == task # NoTask /\ task.cancelRequested => Active(task)

LEMMA CommitSettles ==
  ASSUME NEW t, Commit(t), TypeOK'
  PROVE  Settled'
<1> DEFINE b == t.cancelled \/ t.cancelRequested
           n == [t EXCEPT !.cancelled = b, !.cancelRequested = FALSE]
<1>1. task' = IF Active(t) THEN t ELSE n
  BY Zenon DEF Commit, Settle
<1>2. n \in TaskType => n.cancelRequested = FALSE
  <2> HIDE DEF b
  <2> QED BY SMT DEF TaskType
<1>3. task' \in TaskType \cup {NoTask}
  BY DEF TypeOK
<1> HIDE DEF n
<1> QED BY <1>1, <1>2, <1>3 DEF Settled, Active

(* Every operation, and every record of a run, is a commit.                 *)
LEMMA StepsCommit ==
  ASSUME Operation \/ Run
  PROVE  \E t : Commit(t)
<1>1. CaptureSource => \E t : Commit(t)
  BY Zenon DEF CaptureSource
<1>2. ASSUME NEW q \in BOOLEAN, Normalize(q) \/ ProposeDesign(q)
      PROVE  \E t : Commit(t)
  BY <1>2, Zenon DEF Normalize, ProposeDesign
<1>3. ASSUME NEW c \in Comments, HandleComment(c)
      PROVE  \E t : Commit(t)
  BY <1>3, Zenon DEF HandleComment, ApproveRequirements, Start, ApproveDesign, Amend,
                Resume, Stop, Cancel
<1>4. Reconcile \/ RefreshPolicy => \E t : Commit(t)
  BY Zenon DEF Reconcile, RefreshPolicy
<1>5. Run => \E t : Commit(t)
  BY Zenon DEF Run, Reserve, PrepareRepair, RunMoves, Record, RunEnds
<1> QED BY <1>1, <1>2, <1>3, <1>4, <1>5 DEF Operation

(* Only commits change the task.                                            *)
LEMMA ChangesAreCommits ==
  ASSUME [Next]_vars, task' # task
  PROVE  \E t : Commit(t)
<1>1. /\ ~World /\ ~Observe /\ ~Looks
      /\ \A p \in Policies : ~Restart(p)
  BY LooksAside DEF World, Write, Disturb, Spoil, ChangeIssue, ChangeWriters, Restart,
                    Observe, ObserveSource, ObserveComment
<1> QED BY <1>1, StepsCommit DEF Next, Engine, vars

LEMMA AlwaysSettled == Spec => []Settled
<1>1. Init => Settled
  BY DEF Init, Settled
<1>2. IInv' /\ Settled /\ [Next]_vars => Settled'
  <2>1. task' = task /\ Settled => Settled'
    BY DEF Settled, Active
  <2> QED BY <2>1, ChangesAreCommits, CommitSettles DEF IInv
<1> QED BY <1>1, <1>2, Inductive, PTL DEF Spec

(* A cancelled task admits nothing but the records of its active run.       *)
LEMMA CancelledAdmits ==
  ASSUME IInv, [Next]_vars, task # NoTask, task.cancelled \/ task.cancelRequested, task' # task
  PROVE  Active(task) /\ \E r : Commit([task EXCEPT !.run = r])
<1>1. ~Live(task) /\ ~Accepting(task)
  BY DEF Live, Accepting
<1>2. ~Engine
  BY <1>1 DEF Engine, Operation, Observe, HandleComment, CaptureSource, Normalize, ProposeDesign, Reconcile,
              RefreshPolicy, ApproveRequirements, Start, ApproveDesign, Amend, Resume,
              Stop, Cancel, ObserveSource, ObserveComment
<1>3. /\ ~World /\ ~Looks /\ \A p \in Policies : ~Restart(p)
  BY LooksAside DEF World, Write, Disturb, Spoil, ChangeIssue, ChangeWriters, Restart
<1>4. ~Reserve /\ ~PrepareRepair
  BY <1>1 DEF Reserve, PrepareRepair, IInv, LockKeeps
<1>5. ASSUME NEW status, RunMoves(status)
      PROVE  Active(task) /\ \E r : Commit([task EXCEPT !.run = r])
  BY <1>5, Zenon DEF RunMoves, Record, Active, ActiveStatuses
<1>6. ASSUME NEW status, NEW repairable, RunEnds(status, repairable)
      PROVE  Active(task) /\ \E r : Commit([task EXCEPT !.run = r])
  BY <1>6, Zenon DEF RunEnds, Record
<1> QED BY <1>2, <1>3, <1>4, <1>5, <1>6 DEF Next, Run, vars

(* A cancellation is never undone, and with no run active it is recorded as *)
(* done and admits no new run.                                              *)
THEOREM CancellationSticks == Spec => CancelSticks
<1>1. IInv /\ Settled /\ [Next]_vars =>
        (task # NoTask /\ (task.cancelled \/ task.cancelRequested) =>
           /\ task'.cancelled \/ task'.cancelRequested
           /\ ~Active(task) => task'.cancelled /\ ~Active(task'))
  <2> SUFFICES ASSUME IInv, Settled, [Next]_vars,
                      task # NoTask, task.cancelled \/ task.cancelRequested
               PROVE  /\ task'.cancelled \/ task'.cancelRequested
                      /\ ~Active(task) => task'.cancelled /\ ~Active(task')
    OBVIOUS
  <2>1. CASE task' = task
    BY <2>1 DEF Settled, Active
  <2>2. CASE task' # task
    <3>1. Active(task) /\ \E r : Commit([task EXCEPT !.run = r])
      BY <2>2, CancelledAdmits
    <3>2. PICK r : Commit([task EXCEPT !.run = r])
      BY <3>1
    <3> DEFINE t == [task EXCEPT !.run = r]
               b == t.cancelled \/ t.cancelRequested
    <3>3. t.cancelled = task.cancelled /\ t.cancelRequested = task.cancelRequested
          /\ DOMAIN t = DOMAIN task
      BY Captured, SMT DEF TaskType
    <3>4. task' = IF Active(t) THEN t
                  ELSE [t EXCEPT !.cancelled = b, !.cancelRequested = FALSE]
      BY <3>2, Zenon DEF Commit, Settle
    <3>5. "cancelled" \in DOMAIN task
      BY Captured DEF TaskType
    <3> HIDE DEF t
    <3>6. [t EXCEPT !.cancelled = b, !.cancelRequested = FALSE].cancelled = b
      BY <3>3, <3>5
    <3> QED BY <3>1, <3>3, <3>4, <3>6
  <2> QED BY <2>1, <2>2
<1> QED BY <1>1, Inductive, AlwaysSettled, PTL DEF CancelSticks, Spec

-----------------------------------------------------------------------------
(* The engine leaves the record of the run to the coordinator.              *)
HasRun(t, r) == t.run = r /\ "run" \in DOMAIN t

LEMMA SettleHasRun ==
  ASSUME NEW t, NEW r, HasRun(t, r)
  PROVE  HasRun(Settle(t), r)
<1>1. ASSUME NEW b
      PROVE  HasRun([t EXCEPT !.cancelled = b, !.cancelRequested = FALSE], r)
  BY SMT DEF HasRun
<1> QED BY <1>1, Zenon DEF Settle

(* A cancelled task has no active run.                                      *)
Uncancelled == task # NoTask /\ Active(task) => task.cancelled = FALSE

RunsOn(t, r) ==
  /\ t.run = r /\ "run" \in DOMAIN t /\ "cancelled" \in DOMAIN t
  /\ r.status \in ActiveStatuses => t.cancelled = FALSE

LEMMA SettleRunsOn ==
  ASSUME NEW t, NEW r, RunsOn(t, r)
  PROVE  RunsOn(Settle(t), r)
<1>1. ASSUME NEW b, r.status \notin ActiveStatuses
      PROVE  RunsOn([t EXCEPT !.cancelled = b, !.cancelRequested = FALSE], r)
  BY <1>1, SMT DEF RunsOn
<1>2. Active(t) <=> r.status \in ActiveStatuses
  BY DEF RunsOn, Active
<1> QED BY <1>1, <1>2, Zenon DEF Settle

LEMMA EpochRunsOn ==
  ASSUME NEW t \in TaskType, Active(t) => t.cancelled = FALSE
  PROVE  RunsOn(NextEpoch(t), t.run) /\ RunsOn(ResetScope(t), t.run)
<1>1. NextEpoch(t) \in TaskType /\ ResetScope(t) \in TaskType
  BY RecordTypes
<1>2. NextEpoch(t).run = t.run /\ NextEpoch(t).cancelled = t.cancelled
  BY SMT DEF NextEpoch, TaskType
<1>3. ASSUME NEW n \in TaskType
      PROVE  LET m == [n EXCEPT !.req = 0, !.reqOpen = FALSE, !.reqApproval = NoProof,
                       !.started = FALSE, !.startApproval = NoProof,
                       !.design = 0, !.designReq = 0, !.designOpen = FALSE,
                       !.designApproval = NoProof]
             IN m.run = n.run /\ m.cancelled = n.cancelled
  BY SMTT(30) DEF TaskType
<1>4. ResetScope(t).run = t.run /\ ResetScope(t).cancelled = t.cancelled
  BY <1>1, <1>2, <1>3, Zenon DEF ResetScope
<1>5. \A n \in TaskType : "run" \in DOMAIN n /\ "cancelled" \in DOMAIN n
  BY DEF TaskType
<1> QED BY <1>1, <1>2, <1>4, <1>5 DEF RunsOn, Active

LEMMA EngineKeepsRun ==
  ASSUME IInv, Uncancelled, task # NoTask, Engine
  PROVE  task'.run = task.run /\ Uncancelled' /\ RunsOn(task', task.run)
<1> DEFINE e == NextEpoch(task)
           r == ResetScope(task)
<1>1. RunsOn(task, task.run) /\ RunsOn(e, task.run) /\ RunsOn(r, task.run)
  <2>1. RunsOn(task, task.run)
    BY Captured DEF RunsOn, TaskType, Uncancelled, Active
  <2> QED BY <2>1, EpochRunsOn, Captured DEF Uncancelled
<1> HIDE DEF e, r
<1>2. ASSUME NEW t, RunsOn(t, task.run), Commit(t)
      PROVE  RunsOn(task', task.run)
  BY <1>2, SettleRunsOn DEF Commit, RunsOn
<1>3. ASSUME CaptureSource
      PROVE  RunsOn(task', task.run)
  <2> DEFINE t == IF task.source = sourceSeen THEN task ELSE [r EXCEPT !.source = sourceSeen]
             n == [t EXCEPT !.cancelRequested = Active(t), !.cancelled = ~Active(t)]
  <2>1. Commit(IF sourceSeen.open THEN t ELSE n)
    BY <1>3, Zenon DEF CaptureSource, r
  <2>2. RunsOn(t, task.run)
    BY <1>1, SMT DEF RunsOn
  <2>3. ASSUME NEW a, NEW b, Active(task) => b = FALSE
        PROVE  RunsOn([t EXCEPT !.cancelRequested = a, !.cancelled = b], task.run)
    <3> HIDE DEF t
    <3> QED BY <2>2, <2>3, SMT DEF RunsOn, Active
  <2>4. RunsOn(n, task.run)
    <3>1. Active(t) <=> Active(task)
      BY <2>2 DEF RunsOn, Active
    <3> QED BY <2>3, <3>1, Zenon
  <2> HIDE DEF t, n
  <2> QED BY <1>2, <2>1, <2>2, <2>4
<1>4. ASSUME NEW q, Normalize(q)
      PROVE  RunsOn(task', task.run)
  <2> DEFINE n == [r EXCEPT !.req = task.requirementsCount + 1,
                            !.requirementsCount = @ + 1, !.reqOpen = q]
  <2>1. Commit(n)
    BY <1>4 DEF Normalize, r
  <2>2. RunsOn(n, task.run)
    BY <1>1, SMT DEF RunsOn
  <2> HIDE DEF n
  <2> QED BY <1>2, <2>1, <2>2
<1>5. ASSUME NEW q, ProposeDesign(q)
      PROVE  RunsOn(task', task.run)
  <2> DEFINE n == [e EXCEPT !.design = task.designCount + 1, !.designCount = @ + 1,
                            !.designReq = task.req, !.designOpen = q,
                            !.designApproval = NoProof]
  <2>1. Commit(n)
    BY <1>5 DEF ProposeDesign, e
  <2>2. RunsOn(n, task.run)
    BY <1>1, SMT DEF RunsOn
  <2> HIDE DEF n
  <2> QED BY <1>2, <2>1, <2>2
<1>6. ASSUME NEW v1, NEW v2, NEW v3, NEW v4
      PROVE  /\ RunsOn([task EXCEPT !.reqApproval = v1, !.startPolicy = v2,
                                    !.designMode = v3, !.started = v4], task.run)
             /\ RunsOn([task EXCEPT !.startApproval = v1, !.designMode = v2,
                                    !.started = v3], task.run)
             /\ RunsOn([task EXCEPT !.designApproval = v1], task.run)
  BY <1>1, SMT DEF RunsOn
<1>7. ASSUME NEW c, ApproveRequirements(c) \/ Start(c) \/ ApproveDesign(c)
      PROVE  RunsOn(task', task.run)
  <2>1. CASE ApproveRequirements(c)
    BY <1>2, <1>6, <2>1, Zenon DEF ApproveRequirements
  <2>2. CASE Start(c)
    BY <1>2, <1>6, <2>2, Zenon DEF Start
  <2>3. CASE ApproveDesign(c)
    BY <1>2, <1>6, <2>3, Zenon DEF ApproveDesign
  <2> QED BY <1>7, <2>1, <2>2, <2>3
<1>8. ASSUME NEW c, Amend(c)
      PROVE  RunsOn(task', task.run)
  BY <1>1, <1>2, <1>8 DEF Amend, r
<1>9. ASSUME NEW v1, NEW v2, NEW v3, Active(task) => v3 = FALSE
      PROVE  /\ RunsOn([e EXCEPT !.paused = v1], task.run)
             /\ RunsOn([e EXCEPT !.paused = v1, !.cancelRequested = v2,
                                 !.cancelled = v3], task.run)
  BY <1>1, <1>9, SMT DEF RunsOn, Active
<1>10. ASSUME NEW c, Resume(c) \/ Stop(c) \/ Cancel(c)
      PROVE  RunsOn(task', task.run)
  BY <1>2, <1>9, <1>10, Zenon DEF Resume, Stop, Cancel, e
<1>11. ASSUME Reconcile
      PROVE  RunsOn(task', task.run)
  <2>1. ASSUME NEW t, RunsOn(t, task.run), NEW v1, NEW v2, NEW v3, NEW v4
        PROVE  RunsOn([t EXCEPT !.reqApproval = v1, !.startApproval = v2,
                                !.started = v3, !.designApproval = v4], task.run)
    BY <2>1, SMT DEF RunsOn
  <2>2. \E t, v1, v2, v3, v4 :
          /\ t = e \/ t = task
          /\ Commit([t EXCEPT !.reqApproval = v1, !.startApproval = v2,
                              !.started = v3, !.designApproval = v4])
    <3> DEFINE noReq == Revoked(task.reqApproval)
               noStart == noReq \/ Revoked(task.startApproval)
               noDesign == noStart \/ Revoked(task.designApproval)
               t == IF noDesign THEN NextEpoch(task) ELSE task
    <3>1. Commit([t EXCEPT !.reqApproval = IF noReq THEN NoProof ELSE @,
                           !.startApproval = IF noStart THEN NoProof ELSE @,
                           !.started = @ /\ ~noStart,
                           !.designApproval = IF noDesign THEN NoProof ELSE @])
      BY <1>11, Zenon DEF Reconcile
    <3>2. t = e \/ t = task
      BY DEF e
    <3> HIDE DEF t
    <3> QED BY <3>1, <3>2, Zenon
  <2> QED BY <1>1, <1>2, <2>1, <2>2
<1>12. ASSUME RefreshPolicy
      PROVE  RunsOn(task', task.run)
  <2>1. RunsOn([r EXCEPT !.config = policy, !.startPolicy = policy.start,
                         !.designMode = policy.design], task.run)
    BY <1>1, SMT DEF RunsOn
  <2> QED BY <1>1, <1>2, <1>12, <2>1 DEF RefreshPolicy, r
<1>13. Observe => task' = task
  BY DEF Observe, ObserveSource, ObserveComment
<1>14. RunsOn(task', task.run)
  BY <1>1, <1>3, <1>4, <1>5, <1>7, <1>8, <1>10, <1>11, <1>12, <1>13 DEF Engine, Operation,
     HandleComment
<1> QED BY <1>14 DEF RunsOn, Uncancelled, Active

-----------------------------------------------------------------------------
(* What the engine reads again amounts to the authority of people.          *)
LEMMA ProofAsks ==
  ASSUME IInv, NEW p, ProofCurrent(p), Evidenced(p, handled),
         NEW role \in RoleNames, role \in p.roles,
         NEW name, NEW revision, Says(p, name, revision)
  PROVE  \E a \in Actors : Asks(a, role, name, revision)
<1>1. p.by \in Comments /\ Standing(p.by)
  BY DEF ProofCurrent, Evidenced, IInv, TypeOK
<1>2. comments[p.by].actor \in writers \cap policy.roles[role]
  BY DEF ProofCurrent, MayAct
<1>3. comments[p.by].actor \in Actors
  BY <1>2 DEF IInv, TypeOK
<1> QED BY <1>1, <1>2, <1>3 DEF Asks, Says

LEMMA BasisAuthorises ==
  ASSUME IInv, task # NoTask, Accepting(task), Basis(task, TRUE)
  PROVE  Authorised
<1>1. Good(task, handled) /\ task \in TaskType
  BY Captured
<1>2. issue.open /\ task.source = issue /\ task.config = policy
  BY DEF Basis, SourceCurrent, Accepting
<1>3. ProofCurrent(task.reqApproval) /\ task.reqApproval # NoProof /\ task.started
  BY DEF Basis, ProofCurrent
<1>4. \E a \in Actors : Asks(a, "requirement_approver", "approve_requirements", task.req)
  BY <1>1, <1>3, ProofAsks DEF Good, RoleNames
<1>5. \/ policy.start = "on_approval"
      \/ \E a \in Actors : \/ Asks(a, "starter", "start", task.req)
                          \/ Asks(a, "starter", "approve_requirements", task.req)
  <2>1. CASE task.startApproval # NoProof
    <3>1. ProofCurrent(task.startApproval)
      BY <2>1 DEF Basis
    <3> QED BY <1>1, <2>1, <3>1, ProofAsks DEF Good, RoleNames
  <2>2. CASE "starter" \in task.reqApproval.roles
    BY <1>1, <1>3, <2>2, ProofAsks DEF Good, RoleNames
  <2>3. CASE task.config.start = "on_approval"
    BY <1>2, <2>3
  <2> QED BY <1>1, <1>3, <2>1, <2>2, <2>3 DEF Good
<1>6. \/ task.designMode = "automatic"
        /\ "automatic" \in {policy.design} \cup policy.designOverrides
      \/ \E a \in Actors : Asks(a, "design_approver", "approve_design", task.design)
  <2>1. CASE task.designMode = "automatic"
    BY <1>1, <1>2, <2>1 DEF Good
  <2>2. CASE task.designMode = "collaborative"
    <3>1. ProofCurrent(task.designApproval) /\ task.designApproval # NoProof
      BY <2>2 DEF Basis, ProofCurrent
    <3> QED BY <1>1, <3>1, ProofAsks DEF Good, RoleNames
  <2> QED BY <1>1, <2>1, <2>2 DEF TaskType, DesignModes
<1> QED BY <1>2, <1>4, <1>5, <1>6 DEF Authorised

(* What the coordinator records: another value of the run, and no more.     *)
LEMMA RunsAreRecorded ==
  ASSUME IInv, Run
  PROVE  /\ task # NoTask
         /\ Active(task) \/ Live(task)
         /\ \E r : Commit([task EXCEPT !.run = r])
<1>1. Reserve \/ PrepareRepair => Live(task) /\ \E r : Commit([task EXCEPT !.run = r])
  BY Zenon DEF Reserve, PrepareRepair, IInv, LockKeeps, Accepting
<1>2. ASSUME NEW status, RunMoves(status)
      PROVE  /\ task # NoTask /\ Active(task)
             /\ \E r : Commit([task EXCEPT !.run = r])
  BY <1>2, Zenon DEF RunMoves, Record, Active, ActiveStatuses
<1>3. ASSUME NEW status, NEW repairable, RunEnds(status, repairable)
      PROVE  /\ task # NoTask /\ Active(task)
             /\ \E r : Commit([task EXCEPT !.run = r])
  BY <1>3, Zenon DEF RunEnds, Record
<1> QED BY <1>1, <1>2, <1>3 DEF Run, Live

(* The first capture of an issue starts without a run.                      *)
LEMMA FirstCapture ==
  ASSUME IInv, task = NoTask, Engine, task' # task
  PROVE  RunsOn(task', NoRun)
<1>1. CaptureSource \/ task' = task
  BY DEF Engine, Operation, HandleComment, Normalize, ProposeDesign, Reconcile, RefreshPolicy,
     ApproveRequirements, Start, ApproveDesign, Amend, Resume, Stop, Cancel,
     Observe, ObserveSource, ObserveComment, Accepting, Live
<1> DEFINE t == NewTask(sourceSeen)
           n == [t EXCEPT !.cancelRequested = Active(t), !.cancelled = ~Active(t)]
<1>2. CASE CaptureSource
  <2>1. Commit(IF sourceSeen.open THEN t ELSE n)
    BY <1>2, Zenon DEF CaptureSource
  <2>2. RunsOn(t, NoRun)
    BY DEF RunsOn, NewTask, NoRun, ActiveStatuses
  <2>3. RunsOn(n, NoRun)
    <3>1. NoRun.status \notin ActiveStatuses
      BY DEF NoRun, ActiveStatuses
    <3>2. ASSUME NEW a, NEW b
          PROVE  RunsOn([t EXCEPT !.cancelRequested = a, !.cancelled = b], NoRun)
      <4> HIDE DEF t
      <4> QED BY <2>2, <3>1, SMT DEF RunsOn
    <3> QED BY <3>2, Zenon
  <2> HIDE DEF t, n
  <2> QED BY <2>1, <2>2, <2>3, SettleRunsOn DEF Commit
<1> QED BY <1>1, <1>2

LEMMA UncancelledStep ==
  ASSUME IInv, Uncancelled, [Next]_vars
  PROVE  Uncancelled'
<1>1. ASSUME task' = task
      PROVE  Uncancelled'
  BY <1>1 DEF Uncancelled, Active
<1>2. CASE World \/ Looks \/ \E p \in Policies : Restart(p)
  BY <1>1, <1>2, LooksAside DEF World, Write, Disturb, Spoil, ChangeIssue, ChangeWriters, Restart
<1>3. CASE Engine /\ task = NoTask
  BY <1>1, <1>3, FirstCapture DEF RunsOn, Uncancelled, Active
<1>4. CASE Run
  <2>1. PICK r : Commit([task EXCEPT !.run = r])
    BY <1>4, RunsAreRecorded
  <2>2. task \in TaskType /\ task.cancelled = FALSE
    BY <1>4, RunsAreRecorded, Captured DEF Live, Uncancelled, TaskType
  <2> DEFINE t == [task EXCEPT !.run = r]
  <2>3. RunsOn(t, r)
    BY <2>2 DEF RunsOn, TaskType
  <2> HIDE DEF t
  <2> QED BY <2>1, <2>3, SettleRunsOn DEF Commit, RunsOn, Uncancelled, Active, t
<1> QED BY <1>1, <1>2, <1>3, <1>4, EngineKeepsRun DEF Next, vars

LEMMA AlwaysUncancelled == Spec => []Uncancelled
<1>1. Init => Uncancelled
  BY DEF Init, Uncancelled
<1> QED BY <1>1, UncancelledStep, Inductive, PTL DEF Spec

(* What was read of GitHub amounts to the authority of people.              *)
ReadAuthorised == looked.for # "none" => looked.authorised

LEMMA AlwaysReadAuthorised == Spec => []ReadAuthorised
<1>1. Init => ReadAuthorised
  BY DEF Init, ReadAuthorised, NoLook
<1>2. IInv /\ ReadAuthorised /\ [Next]_vars => ReadAuthorised'
  <2> SUFFICES ASSUME IInv, ReadAuthorised, [Next]_vars
               PROVE  ReadAuthorised'
    OBVIOUS
  <2>1. looked' = looked \/ looked' = NoLook => ReadAuthorised'
    BY DEF ReadAuthorised, NoLook
  <2>2. CASE Looks
    <3>1. ASSUME NEW what, Look(what), Authorised
          PROVE  ReadAuthorised'
      BY <3>1 DEF Look, ReadAuthorised
    <3>2. CASE Gate
      <4>1. Accepting(task) => task # NoTask
        BY DEF Accepting, Live
      <4> QED BY <3>1, <3>2, <4>1, BasisAuthorises DEF Gate, GateOpen
    <3>3. CASE CheckRun
      BY <3>1, <3>3, BasisAuthorises DEF CheckRun, RunBasis
    <3> QED BY <2>1, <2>2, <3>2, <3>3 DEF Looks, Release
  <2>3. ASSUME NEW t, Commit(t)
        PROVE  looked' = NoLook
    BY <2>3 DEF Commit
  <2>4. World \/ Observe \/ UNCHANGED vars => looked' = looked
    BY DEF World, Write, Disturb, Spoil, ChangeIssue, ChangeWriters, Observe, ObserveSource,
           ObserveComment, vars
  <2>5. ASSUME NEW p \in Policies, Restart(p)
        PROVE  looked' = NoLook
    BY <2>5 DEF Restart
  <2> QED BY <2>1, <2>2, <2>3, <2>4, <2>5, StepsCommit DEF Next, Engine
<1> QED BY <1>1, <1>2, Inductive, PTL DEF Spec

(* A run is reserved, dispatched or succeeds only with the standing         *)
(* commands of people who had the permission when GitHub was read for it,   *)
(* under the lock that keeps the task as it was.                            *)
THEOREM RunsAreAuthorised == Spec => RunsAuthorised
<1> DEFINE Starts == /\ task # NoTask /\ task' # task
                     /\ task'.run.status \in {"reserved", "dispatching", "succeeded"}
                     /\ task'.run.status # task.run.status
<1>1. IInv /\ Uncancelled /\ ReadAuthorised /\ [Next]_vars => (Starts => looked.authorised)
  <2> SUFFICES ASSUME IInv, Uncancelled, ReadAuthorised, [Next]_vars, Starts
               PROVE  looked.authorised
    OBVIOUS
  <2>1. ~Engine
    BY EngineKeepsRun
  <2>2. /\ ~World /\ ~Looks /\ \A p \in Policies : ~Restart(p)
    BY LooksAside DEF World, Write, Disturb, Spoil, ChangeIssue, ChangeWriters, Restart
  <2>3. Run
    BY <2>1, <2>2 DEF Next, vars
  <2>4. task \in TaskType /\ HasRun(task, task.run) /\ task.run \in RunType
    BY Captured DEF HasRun, TaskType
  <2>5. ASSUME NEW r, Commit([task EXCEPT !.run = r])
        PROVE  task'.run = r
    <3>1. HasRun([task EXCEPT !.run = r], r)
      BY <2>4 DEF HasRun
    <3> QED BY <2>5, <3>1, SettleHasRun DEF Commit, HasRun
  <2>6. CASE Reserve
    BY <2>6 DEF Reserve, ReadAuthorised
  <2>7. CASE PrepareRepair
    BY <2>5, <2>7 DEF PrepareRepair, NoRun
  <2>8. ASSUME NEW status, RunMoves(status)
        PROVE  looked.authorised
    <3> DEFINE r == [task.run EXCEPT !.status = status, !.repairable = FALSE]
    <3>1. Commit([task EXCEPT !.run = r])
      BY <2>8, Zenon DEF RunMoves, Record
    <3>2. task'.run = r
      BY <2>5, <3>1
    <3>3. r.status = status
      BY <2>4, SMT DEF RunType
    <3>4. status = "dispatching"
      BY <2>8, <3>2, <3>3 DEF RunMoves, Record
    <3> QED BY <2>8, <3>4 DEF RunMoves, Record, ReadAuthorised
  <2>9. ASSUME NEW status \in {"succeeded", "stale", "failed"}, NEW repairable,
               RunEnds(status, repairable)
        PROVE  looked.authorised
    <3> DEFINE r == [task.run EXCEPT !.status = status, !.repairable = repairable]
    <3>1. Commit([task EXCEPT !.run = r])
      BY <2>9, Zenon DEF RunEnds, Record
    <3>2. task'.run = r
      BY <2>5, <3>1
    <3>3. r.status = status
      BY <2>4, SMT DEF RunType
    <3>4. status = "succeeded"
      BY <3>2, <3>3
    <3> QED BY <2>9, <3>4 DEF RunEnds, ReadAuthorised
  <2> QED BY <2>3, <2>6, <2>7, <2>8, <2>9 DEF Run
<1> QED BY <1>1, Inductive, AlwaysUncancelled, AlwaysReadAuthorised, PTL DEF RunsAuthorised, Spec

-----------------------------------------------------------------------------
(* A comment is used once.  What an operation writes are the approvals the  *)
(* task had, none, or the comment it handles.                               *)
Unused(p) == p.by \in handled => p.by \in Proofs(task)

Earned(t) ==
  /\ {"reqApproval", "startApproval", "designApproval"} \subseteq DOMAIN t
  /\ Unused(t.reqApproval) /\ Unused(t.startApproval) /\ Unused(t.designApproval)

(* Settling and dropping approvals use no comment.                          *)
LEMMA SettleEarned ==
  ASSUME NEW t, Earned(t)
  PROVE  Earned(Settle(t))
<1>1. ASSUME NEW b
      PROVE  Earned([t EXCEPT !.cancelled = b, !.cancelRequested = FALSE])
  BY SMT DEF Earned
<1> QED BY <1>1, Zenon DEF Settle

(* Nor does a revision.                                                     *)
LEMMA ResetEarned ==
  ASSUME IInv, NEW t \in TaskType, Earned(t)
  PROVE  Unused(NoProof) /\ Earned(NextEpoch(t)) /\ Earned(ResetScope(t))
<1>1. Unused(NoProof)
  BY NoOneType DEF Unused, NoProof, IInv, TypeOK
<1>2. NextEpoch(t) \in TaskType /\ ResetScope(t) \in TaskType
  BY RecordTypes
<1>3. \A n \in TaskType : {"reqApproval", "startApproval", "designApproval"} \subseteq DOMAIN n
  BY DEF TaskType
<1>4. Earned(NextEpoch(t))
  BY <1>2, <1>3, SettleSame DEF Same, Earned
<1>5. Earned(ResetScope(t))
  BY <1>1, <1>2, <1>3, ResetClears DEF Earned, Cleared
<1> QED BY <1>1, <1>4, <1>5

(* Every change of the task.                                                *)
LEMMA ChangesEarned ==
  ASSUME IInv, [Next]_vars
  PROVE  task' = task \/ Earned(task')
<1> DEFINE e == NextEpoch(task)
           r == ResetScope(task)
<1>1. Unused(NoProof)
  BY NoOneType DEF Unused, NoProof, IInv, TypeOK
<1>2. task # NoTask => Earned(task) /\ Earned(e) /\ Earned(r)
  <2> SUFFICES ASSUME task # NoTask PROVE Earned(task) /\ Earned(e) /\ Earned(r)
    OBVIOUS
  <2>1. task \in TaskType
    BY Captured
  <2>2. Earned(task)
    BY <1>1, <2>1 DEF Earned, Unused, Proofs, NoProof, TaskType, ProofType
  <2>3. QED BY <2>1, <2>2, ResetEarned
<1> HIDE DEF e, r
<1>3. ASSUME NEW t, Earned(t), Commit(t)
      PROVE  Earned(task')
  BY <1>3, SettleEarned DEF Commit
<1>4. ASSUME CaptureSource
      PROVE  Earned(task')
  <2> DEFINE t == IF task = NoTask THEN NewTask(sourceSeen)
                  ELSE IF task.source = sourceSeen THEN task
                  ELSE [r EXCEPT !.source = sourceSeen]
             n == [t EXCEPT !.cancelRequested = Active(t), !.cancelled = ~Active(t)]
  <2>1. Commit(IF sourceSeen.open THEN t ELSE n)
    BY <1>4, Zenon DEF CaptureSource, r
  <2>2. Earned(NewTask(sourceSeen))
    BY <1>1 DEF NewTask, Earned
  <2>3. ASSUME Earned(r) PROVE Earned([r EXCEPT !.source = sourceSeen])
    BY <2>3, SMT DEF Earned
  <2>4. Earned(t)
    BY <1>2, <2>2, <2>3
  <2>5. ASSUME NEW a, NEW b
        PROVE  Earned([t EXCEPT !.cancelRequested = a, !.cancelled = b])
    <3> HIDE DEF t
    <3> QED BY <2>4, SMT DEF Earned
  <2> HIDE DEF t
  <2> QED BY <1>3, <2>1, <2>4, <2>5
<1>5. ASSUME NEW q, Normalize(q)
      PROVE  Earned(task')
  <2> DEFINE n == [r EXCEPT !.req = task.requirementsCount + 1,
                            !.requirementsCount = @ + 1, !.reqOpen = q]
  <2>1. Commit(n) /\ task # NoTask
    BY <1>5 DEF Normalize, r, Accepting, Live
  <2>2. Earned(n)
    BY <1>2, <2>1, SMT DEF Earned
  <2> HIDE DEF n
  <2> QED BY <1>3, <2>1, <2>2
<1>6. ASSUME NEW q, ProposeDesign(q)
      PROVE  Earned(task')
  <2> DEFINE n == [e EXCEPT !.design = task.designCount + 1, !.designCount = @ + 1,
                            !.designReq = task.req, !.designOpen = q,
                            !.designApproval = NoProof]
  <2>1. Commit(n) /\ task # NoTask
    BY <1>6 DEF ProposeDesign, e, Accepting, Live
  <2>2. Earned(n)
    BY <1>1, <1>2, <2>1, SMT DEF Earned
  <2> HIDE DEF n
  <2> QED BY <1>3, <2>1, <2>2
<1>7. ASSUME NEW p, Unused(p), NEW v2, NEW v3, NEW v4, Earned(task)
      PROVE  /\ Earned([task EXCEPT !.reqApproval = p, !.startPolicy = v2,
                                    !.designMode = v3, !.started = v4])
             /\ Earned([task EXCEPT !.startApproval = p, !.designMode = v2, !.started = v3])
             /\ Earned([task EXCEPT !.designApproval = p])
  BY <1>7, SMT DEF Earned
<1>8. ASSUME NEW c, ApproveRequirements(c) \/ Start(c) \/ ApproveDesign(c)
      PROVE  Earned(task')
  <2>1. task # NoTask
    BY <1>8, Zenon DEF ApproveRequirements, Start, ApproveDesign, Accepting, Live
  <2>2. c \notin handled
    BY <1>8, Zenon DEF ApproveRequirements, Start, ApproveDesign, Handling
  <2>3. \A roles : Unused(Proof(c, roles))
    BY <2>2 DEF Unused, Proof
  <2>4. CASE ApproveRequirements(c)
    BY <1>2, <1>3, <1>7, <2>1, <2>3, <2>4, Zenon DEF ApproveRequirements
  <2>5. CASE Start(c)
    BY <1>2, <1>3, <1>7, <2>1, <2>3, <2>5, Zenon DEF Start
  <2>6. CASE ApproveDesign(c)
    BY <1>2, <1>3, <1>7, <2>1, <2>3, <2>6, Zenon DEF ApproveDesign
  <2> QED BY <1>8, <2>4, <2>5, <2>6
<1>9. ASSUME NEW c, Amend(c)
      PROVE  Earned(task')
  BY <1>2, <1>3, <1>9 DEF Amend, r, Accepting, Live
<1>10. ASSUME NEW v1, NEW v2, NEW v3, Earned(e)
       PROVE  /\ Earned([e EXCEPT !.paused = v1])
              /\ Earned([e EXCEPT !.paused = v1, !.cancelRequested = v2, !.cancelled = v3])
  BY <1>10, SMT DEF Earned
<1>11. ASSUME NEW c, Resume(c) \/ Stop(c) \/ Cancel(c)
       PROVE  Earned(task')
  BY <1>2, <1>3, <1>10, <1>11, Zenon DEF Resume, Stop, Cancel, e, Accepting, Live
<1>12. ASSUME Reconcile
       PROVE  Earned(task')
  <2> DEFINE noReq == Revoked(task.reqApproval)
             noStart == noReq \/ Revoked(task.startApproval)
             noDesign == noStart \/ Revoked(task.designApproval)
             t == IF noDesign THEN NextEpoch(task) ELSE task
  <2>1. Commit([t EXCEPT !.reqApproval = IF noReq THEN NoProof ELSE t.reqApproval,
                         !.startApproval = IF noStart THEN NoProof ELSE t.startApproval,
                         !.started = t.started /\ ~noStart,
                         !.designApproval = IF noDesign THEN NoProof ELSE t.designApproval])
        /\ task # NoTask
    BY <1>12, Zenon DEF Reconcile, Accepting, Live
  <2>2. Earned(t)
    BY <1>2, <2>1 DEF e
  <2> HIDE DEF t, noReq, noStart, noDesign
  <2>3. ASSUME NEW p1, NEW p2, NEW v, NEW p3, Unused(p1), Unused(p2), Unused(p3)
        PROVE  Earned([t EXCEPT !.reqApproval = p1, !.startApproval = p2, !.started = v,
                                !.designApproval = p3])
    BY <2>2, <2>3, SMT DEF Earned
  <2>4. /\ Unused(IF noReq THEN NoProof ELSE t.reqApproval)
        /\ Unused(IF noStart THEN NoProof ELSE t.startApproval)
        /\ Unused(IF noDesign THEN NoProof ELSE t.designApproval)
    BY <1>1, <2>2 DEF Earned
  <2> QED BY <1>3, <2>1, <2>3, <2>4
<1>13. ASSUME RefreshPolicy
       PROVE  Earned(task')
  <2>1. task # NoTask
    BY <1>13 DEF RefreshPolicy, Live
  <2>2. Earned([r EXCEPT !.config = policy, !.startPolicy = policy.start,
                         !.designMode = policy.design])
    BY <1>2, <2>1, SMT DEF Earned
  <2> QED BY <1>2, <1>3, <1>13, <2>1, <2>2 DEF RefreshPolicy, r
<1>14. ASSUME Run
       PROVE  Earned(task')
  <2>1. task # NoTask
    BY <1>14, RunsAreRecorded
  <2>2. \E v : Commit([task EXCEPT !.run = v])
    BY <1>14, RunsAreRecorded
  <2>3. \A v : Earned([task EXCEPT !.run = v])
    BY <1>2, <2>1, SMT DEF Earned
  <2> QED BY <1>3, <2>2, <2>3
<1>15. World \/ Observe \/ Looks \/ (\E p \in Policies : Restart(p)) \/ UNCHANGED vars =>
         task' = task
  BY LooksAside DEF World, Write, Disturb, Spoil, ChangeIssue, ChangeWriters, Restart, Observe,
                    ObserveSource, ObserveComment, vars
<1> QED
  BY <1>4, <1>5, <1>6, <1>8, <1>9, <1>11, <1>12, <1>13, <1>14, <1>15
  DEF Next, Engine, Operation, HandleComment

(* A redelivered comment gives no approval again, whatever was dropped, for *)
(* any comments (handle_comment, _commit).                                  *)
THEOREM CommentsUsedOnce == Spec => CommentUsedOnce
<1>1. IInv /\ [Next]_vars =>
        [\A c \in handled : c \in Proofs(task') => c \in Proofs(task)]_vars
  <2> SUFFICES ASSUME IInv, [Next]_vars, NEW c \in handled, c \in Proofs(task')
               PROVE  c \in Proofs(task)
    OBVIOUS
  <2>1. task' = task \/ Earned(task')
    BY ChangesEarned
  <2> QED BY <2>1 DEF Earned, Unused, Proofs
<1> QED BY <1>1, Inductive, PTL DEF CommentUsedOnce, Spec

-----------------------------------------------------------------------------
(* Epochs.  What an operation writes keeps all a run rests on, or is of the *)
(* next epoch.                                                              *)
Bearing == {"source", "config", "paused", "req", "reqOpen", "design", "designOpen", "reqApproval",
            "startApproval", "started", "designMode", "designApproval", "epoch"}

Later(t) == Bearing \subseteq DOMAIN t /\ t.epoch = task.epoch + 1
Level(t) == Bearing \subseteq DOMAIN t /\ t.epoch = task.epoch /\ Holds(t, task)
Onward(t) == Later(t) \/ Level(t)

(* Settling takes nothing away.                                             *)
LEMMA SettleOnward ==
  ASSUME NEW t
  PROVE  /\ Later(t) => Later(Settle(t))
         /\ Level(t) => Level(Settle(t))
<1>1. ASSUME NEW b, Later(t)
      PROVE  Later([t EXCEPT !.cancelled = b, !.cancelRequested = FALSE])
  BY <1>1, SMT DEF Later, Bearing
<1>2. ASSUME NEW b, Level(t)
      PROVE  Level([t EXCEPT !.cancelled = b, !.cancelRequested = FALSE])
  BY <1>2, SMT DEF Level, Bearing, Holds
<1> QED BY <1>1, <1>2, Zenon DEF Settle

(* A task is level with itself, and what begins an epoch is later.          *)
LEMMA StartsOnward ==
  ASSUME IInv, task # NoTask
  PROVE  Level(task) /\ Later(NextEpoch(task)) /\ Later(ResetScope(task))
<1>1. task \in TaskType /\ NextEpoch(task) \in TaskType /\ ResetScope(task) \in TaskType
  BY Captured, RecordTypes
<1>2. \A n \in TaskType : Bearing \subseteq DOMAIN n
  BY DEF TaskType, Bearing
<1>3. NextEpoch(task).epoch = task.epoch + 1
  BY <1>1, SMT DEF NextEpoch, TaskType
<1>4. ASSUME NEW n \in TaskType
      PROVE  [n EXCEPT !.req = 0, !.reqOpen = FALSE, !.reqApproval = NoProof,
                       !.started = FALSE, !.startApproval = NoProof,
                       !.design = 0, !.designReq = 0, !.designOpen = FALSE,
                       !.designApproval = NoProof].epoch = n.epoch
  BY SMTT(30) DEF TaskType
<1>5. ResetScope(task).epoch = task.epoch + 1
  BY <1>1, <1>3, <1>4, Zenon DEF ResetScope
<1>6. Level(task)
  BY <1>1, <1>2 DEF Level, Holds
<1> QED BY <1>1, <1>2, <1>3, <1>5, <1>6 DEF Later

(* Every change of the task.                                                *)
LEMMA ChangesOnward ==
  ASSUME IInv, task # NoTask, [Next]_vars
  PROVE  task' = task \/ Onward(task')
<1> DEFINE e == NextEpoch(task)
           r == ResetScope(task)
<1>1. Level(task) /\ Later(e) /\ Later(r) /\ task \in TaskType /\ Good(task, handled)
  BY StartsOnward, Captured
<1> HIDE DEF e, r
<1>2. ASSUME NEW t, Onward(t), Commit(t)
      PROVE  Onward(task')
  BY <1>2, SettleOnward DEF Commit, Onward
<1>3. ASSUME CaptureSource
      PROVE  Onward(task')
  <2> DEFINE t == IF task.source = sourceSeen THEN task ELSE [r EXCEPT !.source = sourceSeen]
             n == [t EXCEPT !.cancelRequested = Active(t), !.cancelled = ~Active(t)]
  <2>1. Commit(IF sourceSeen.open THEN t ELSE n)
    BY <1>3, Zenon DEF CaptureSource, r
  <2>2. Later([r EXCEPT !.source = sourceSeen])
    BY <1>1, SMT DEF Later, Bearing
  <2>3. Onward(t)
    BY <1>1, <2>2 DEF Onward
  <2>4. ASSUME NEW a, NEW b
        PROVE  Onward([t EXCEPT !.cancelRequested = a, !.cancelled = b])
    <3> HIDE DEF t
    <3>1. Later(t) => Later([t EXCEPT !.cancelRequested = a, !.cancelled = b])
      BY SMT DEF Later, Bearing
    <3>2. Level(t) => Level([t EXCEPT !.cancelRequested = a, !.cancelled = b])
      BY SMT DEF Level, Bearing, Holds
    <3> QED BY <2>3, <3>1, <3>2 DEF Onward
  <2> HIDE DEF t
  <2> QED BY <1>2, <2>1, <2>3, <2>4
<1>4. ASSUME NEW q, Normalize(q)
      PROVE  Onward(task')
  <2> DEFINE n == [r EXCEPT !.req = task.requirementsCount + 1,
                            !.requirementsCount = @ + 1, !.reqOpen = q]
  <2>1. Commit(n)
    BY <1>4 DEF Normalize, r
  <2>2. Later(n)
    BY <1>1, SMT DEF Later, Bearing
  <2> HIDE DEF n
  <2> QED BY <1>2, <2>1, <2>2 DEF Onward
<1>5. ASSUME NEW q, ProposeDesign(q)
      PROVE  Onward(task')
  <2> DEFINE n == [e EXCEPT !.design = task.designCount + 1, !.designCount = @ + 1,
                            !.designReq = task.req, !.designOpen = q,
                            !.designApproval = NoProof]
  <2>1. Commit(n)
    BY <1>5 DEF ProposeDesign, e
  <2>2. Later(n)
    BY <1>1, SMT DEF Later, Bearing
  <2> HIDE DEF n
  <2> QED BY <1>2, <2>1, <2>2 DEF Onward
<1>6. ASSUME NEW p, NEW v2, NEW v3, NEW v4
      PROVE  /\ task.reqApproval = NoProof =>
                  Level([task EXCEPT !.reqApproval = p, !.startPolicy = v2,
                                     !.designMode = v3, !.started = v4])
             /\ ~task.started =>
                  Level([task EXCEPT !.startApproval = p, !.designMode = v2, !.started = v3])
             /\ p # NoProof => Level([task EXCEPT !.designApproval = p])
  <2>1. task.reqApproval = NoProof => ~task.started /\ task.startApproval = NoProof
    BY <1>1 DEF Good
  <2>2. ~task.started => task.startApproval = NoProof
    BY <1>1 DEF Good
  <2>3. task.reqApproval = NoProof =>
          Level([task EXCEPT !.reqApproval = p, !.startPolicy = v2, !.designMode = v3, !.started = v4])
    BY <1>1, <2>1, SMT DEF Level, Holds, Bearing
  <2>4. ~task.started =>
          Level([task EXCEPT !.startApproval = p, !.designMode = v2, !.started = v3])
    BY <1>1, <2>2, SMT DEF Level, Holds, Bearing
  <2>5. p # NoProof => Level([task EXCEPT !.designApproval = p])
    BY <1>1, SMT DEF Level, Holds, Bearing
  <2> QED BY <2>3, <2>4, <2>5
<1>7. ASSUME NEW c \in Comments, ApproveRequirements(c) \/ Start(c) \/ ApproveDesign(c)
      PROVE  Onward(task')
  <2>1. \A roles : Proof(c, roles) # NoProof
    BY Distinct
  <2>2. CASE ApproveRequirements(c)
    BY <1>2, <1>6, <2>2, Zenon DEF ApproveRequirements, Onward
  <2>3. CASE Start(c)
    BY <1>2, <1>6, <2>3, Zenon DEF Start, Onward
  <2>4. CASE ApproveDesign(c)
    BY <1>2, <1>6, <2>1, <2>4, Zenon DEF ApproveDesign, Onward
  <2> QED BY <1>7, <2>2, <2>3, <2>4
<1>8. ASSUME NEW c, Amend(c)
      PROVE  Onward(task')
  BY <1>1, <1>2, <1>8 DEF Amend, r, Onward
<1>9. ASSUME NEW v1, NEW v2, NEW v3
      PROVE  /\ Later([e EXCEPT !.paused = v1])
             /\ Later([e EXCEPT !.paused = v1, !.cancelRequested = v2, !.cancelled = v3])
  BY <1>1, SMT DEF Later, Bearing
<1>10. ASSUME NEW c, Resume(c) \/ Stop(c) \/ Cancel(c)
       PROVE  Onward(task')
  BY <1>2, <1>9, <1>10, Zenon DEF Resume, Stop, Cancel, e, Onward
<1>11. ASSUME Reconcile
       PROVE  Onward(task')
  <2> DEFINE noReq == Revoked(task.reqApproval)
             noStart == noReq \/ Revoked(task.startApproval)
             noDesign == noStart \/ Revoked(task.designApproval)
             t == IF noDesign THEN NextEpoch(task) ELSE task
             n == [t EXCEPT !.reqApproval = IF noReq THEN NoProof ELSE t.reqApproval,
                            !.startApproval = IF noStart THEN NoProof ELSE t.startApproval,
                            !.started = t.started /\ ~noStart,
                            !.designApproval = IF noDesign THEN NoProof ELSE t.designApproval]
  <2>1. Commit(n)
    BY <1>11, Zenon DEF Reconcile
  <2>2. /\ noDesign => t = e
        /\ ~noDesign => t = task /\ ~noReq /\ ~noStart
    BY DEF e
  <2> HIDE DEF t, noReq, noStart, noDesign
  <2>3. CASE noDesign
    <3>1. \A p1, p2, v, p3 : Later([e EXCEPT !.reqApproval = p1, !.startApproval = p2, !.started = v,
                                            !.designApproval = p3])
      BY <1>1, SMT DEF Later, Bearing
    <3>2. Later(n)
      BY <2>2, <2>3, <3>1, Zenon
    <3> QED BY <1>2, <2>1, <3>2 DEF Onward
  <2>4. CASE ~noDesign
    <3>1. task.started \in BOOLEAN
      BY <1>1 DEF TaskType
    <3>2. (t.started /\ ~noStart) = task.started
      BY <2>2, <2>4, <3>1
    <3>3. n = [task EXCEPT !.reqApproval = task.reqApproval, !.startApproval = task.startApproval,
                           !.started = task.started, !.designApproval = task.designApproval]
      BY <2>2, <2>4, <3>2, Zenon
    <3>4. Level([task EXCEPT !.reqApproval = task.reqApproval,
                             !.startApproval = task.startApproval, !.started = task.started,
                             !.designApproval = task.designApproval])
      BY <1>1, SMT DEF Level, Holds, Bearing
    <3>5. Level(n)
      BY <3>3, <3>4, Zenon
    <3> QED BY <1>2, <2>1, <3>5 DEF Onward
  <2> QED BY <2>3, <2>4
<1>12. ASSUME RefreshPolicy
       PROVE  Onward(task')
  <2>1. Later([r EXCEPT !.config = policy, !.startPolicy = policy.start,
                        !.designMode = policy.design])
    BY <1>1, SMT DEF Later, Bearing
  <2> QED BY <1>1, <1>2, <1>12, <2>1 DEF RefreshPolicy, r, Onward
<1>13. ASSUME Run
       PROVE  Onward(task')
  <2>1. \E v : Commit([task EXCEPT !.run = v])
    BY <1>13, RunsAreRecorded
  <2>2. \A v : Level([task EXCEPT !.run = v])
    BY <1>1, SMT DEF Level, Holds, Bearing
  <2> QED BY <1>2, <2>1, <2>2 DEF Onward
<1>14. World \/ Observe \/ Looks \/ (\E p \in Policies : Restart(p)) \/ UNCHANGED vars =>
         task' = task
  BY LooksAside DEF World, Write, Disturb, Spoil, ChangeIssue, ChangeWriters, Restart, Observe,
                    ObserveSource, ObserveComment, vars
<1> QED
  BY <1>3, <1>4, <1>5, <1>7, <1>8, <1>10, <1>11, <1>12, <1>13, <1>14
  DEF Next, Engine, Operation, HandleComment

(* No operation takes an approval, a revision or the permission to go on    *)
(* from a task without a new epoch, and epochs only grow.                   *)
THEOREM LossesBumpTheEpoch == Spec => LossBumpsEpoch
<1>1. IInv /\ [Next]_vars =>
        [task # NoTask => /\ task.epoch <= task'.epoch
                          /\ task'.epoch = task.epoch => Holds(task', task)]_vars
  <2> SUFFICES ASSUME IInv, [Next]_vars, task # NoTask
               PROVE  /\ task.epoch <= task'.epoch
                      /\ task'.epoch = task.epoch => Holds(task', task)
    OBVIOUS
  <2>1. task.epoch \in Nat /\ Level(task)
    BY Captured, StartsOnward DEF TaskType
  <2>2. task' = task \/ Onward(task')
    BY ChangesOnward
  <2> QED BY <2>1, <2>2 DEF Onward, Later, Level
<1> QED BY <1>1, Inductive, PTL DEF LossBumpsEpoch, Spec

(* What the record of the run moves to, and that the rest stays.            *)
LEMMA RunHolds ==
  ASSUME IInv, task # NoTask, NEW v, Commit([task EXCEPT !.run = v])
  PROVE  task' # NoTask /\ task'.run = v /\ task'.epoch = task.epoch /\ Holds(task', task)
<1>1. Level([task EXCEPT !.run = v])
  BY StartsOnward, SMT DEF Level, Holds, Bearing
<1>2. HasRun([task EXCEPT !.run = v], v)
  BY Captured DEF HasRun, TaskType
<1>3. Level(task') /\ HasRun(task', v)
  BY <1>1, <1>2, SettleOnward, SettleHasRun DEF Commit
<1>4. task' # NoTask
  BY <1>3 DEF HasRun, NoTask
<1> QED BY <1>3, <1>4 DEF Level, HasRun

(* The gate opens only where all a run rests on is there.                   *)
LEMMA HoldsOn ==
  ASSUME NEW s, NEW t, Holds(t, s), s.started \in BOOLEAN, t.started \in BOOLEAN, InImplementation(s)
  PROVE  InImplementation(t) /\ t.req = s.req /\ t.design = s.design /\ t.paused = s.paused
BY DEF Holds, InImplementation

(* Every step keeps what the epoch of the run tells.                        *)
LEMMA EpochTellsStep ==
  ASSUME IInv, Uncancelled, EpochTells, [Next]_vars, IInv'
  PROVE  EpochTells'
<1>1. CASE task' = task
  BY <1>1 DEF EpochTells, InImplementation
<1>2. CASE task = NoTask /\ task' # task
  <2>1. Engine
    BY <1>2, RunsAreRecorded, LooksAside
       DEF Next, World, Write, Disturb, Spoil, ChangeIssue, ChangeWriters, Restart, vars
  <2>2. task'.run = NoRun
    BY <1>2, <2>1, FirstCapture DEF RunsOn
  <2> QED BY <2>2 DEF EpochTells, NoRun
<1> SUFFICES ASSUME task # NoTask, task' # task PROVE EpochTells'
  BY <1>1, <1>2
<1>3. /\ task \in TaskType /\ task.run \in RunType /\ task.epoch \in Nat /\ task.run.epoch \in Nat
      /\ task.started \in BOOLEAN
  BY Captured DEF TaskType, RunType
<1>4. task' # NoTask => task'.started \in BOOLEAN
  BY DEF IInv, TypeOK, TaskType
<1>5. ASSUME task' # NoTask, task.run.status # "none", task'.run.epoch = task.run.epoch,
             task'.run.req = task.run.req, task'.run.design = task.run.design, Onward(task')
      PROVE  EpochTells'
  <2>1. task.run.epoch <= task.epoch
    BY <1>5 DEF EpochTells
  <2>2. CASE Later(task')
    BY <1>3, <1>5, <2>1, <2>2 DEF Later, EpochTells
  <2>3. CASE Level(task')
    <3>1. CASE task.run.epoch = task.epoch
      <4>1. task.run.req = task.req /\ task.run.design = task.design /\ ~task.paused /\ InImplementation(task)
        BY <1>5, <3>1 DEF EpochTells
      <4>2. /\ InImplementation(task') /\ task'.req = task.req /\ task'.design = task.design
            /\ task'.paused = task.paused
        BY <1>3, <1>4, <1>5, <2>3, <4>1, HoldsOn DEF Level
      <4> QED BY <1>3, <1>5, <2>1, <2>3, <4>1, <4>2 DEF Level, EpochTells, InImplementation
    <3>2. CASE task.run.epoch # task.epoch
      BY <1>3, <1>5, <2>1, <2>3, <3>2 DEF Level, EpochTells
    <3> QED BY <3>1, <3>2
  <2> QED BY <1>5, <2>2, <2>3 DEF Onward
<1>6. CASE Engine
  <2>1. task'.run = task.run /\ RunsOn(task', task.run)
    BY <1>6, EngineKeepsRun
  <2>2. task' # NoTask
    BY <2>1 DEF RunsOn, NoTask
  <2>3. Onward(task')
    BY ChangesOnward
  <2>4. task.run.status = "none" => EpochTells'
    BY <2>1 DEF EpochTells
  <2> QED BY <1>5, <2>1, <2>2, <2>3, <2>4
<1>7. CASE Reserve
  <2> DEFINE r == [status |-> "reserved", epoch |-> task.epoch, req |-> task.req,
                   design |-> task.design, repairable |-> FALSE]
  <2>1. Commit([task EXCEPT !.run = r]) /\ ~task.paused /\ InImplementation(task)
    BY <1>7 DEF Reserve, IInv, LockKeeps
  <2>2. r.epoch = task.epoch /\ r.req = task.req /\ r.design = task.design
    OBVIOUS
  <2> HIDE DEF r
  <2>3. task' # NoTask /\ task'.run = r /\ task'.epoch = task.epoch /\ Holds(task', task)
    BY <2>1, RunHolds
  <2>4. /\ InImplementation(task') /\ task'.req = task.req /\ task'.design = task.design
        /\ task'.paused = task.paused
    BY <1>3, <1>4, <2>1, <2>3, HoldsOn
  <2> QED BY <1>3, <2>1, <2>2, <2>3, <2>4 DEF EpochTells, InImplementation
<1>8. CASE PrepareRepair
  <2>1. task'.run = NoRun
    BY <1>8, RunHolds DEF PrepareRepair
  <2> QED BY <2>1 DEF EpochTells, NoRun
<1>9. ASSUME NEW status, RunMoves(status)
      PROVE  EpochTells'
  <2> DEFINE r == [task.run EXCEPT !.status = status, !.repairable = FALSE]
  <2>1. Commit([task EXCEPT !.run = r]) /\ task.run.status # "none"
    BY <1>9, Zenon DEF RunMoves, Record
  <2>2. r.epoch = task.run.epoch /\ r.req = task.run.req /\ r.design = task.run.design
    BY <1>3, SMT DEF RunType
  <2> HIDE DEF r
  <2>3. task' # NoTask /\ task'.run = r
    BY <2>1, RunHolds
  <2> QED BY <1>5, <2>1, <2>2, <2>3, ChangesOnward
<1>10. ASSUME NEW status, NEW repairable, RunEnds(status, repairable)
       PROVE  EpochTells'
  <2> DEFINE r == [task.run EXCEPT !.status = status, !.repairable = repairable]
  <2>1. Commit([task EXCEPT !.run = r])
    BY <1>10, Zenon DEF RunEnds, Record
  <2>2. task.run.status # "none"
    BY <1>10 DEF RunEnds, Active, ActiveStatuses
  <2>3. r.epoch = task.run.epoch /\ r.req = task.run.req /\ r.design = task.run.design
    BY <1>3, SMT DEF RunType
  <2> HIDE DEF r
  <2>4. task' # NoTask /\ task'.run = r
    BY <2>1, RunHolds
  <2> QED BY <1>5, <2>2, <2>3, <2>4, ChangesOnward
<1>11. Engine \/ Run
  BY LooksAside DEF Next, World, Write, Disturb, Spoil, ChangeIssue, ChangeWriters, Restart, vars
<1> QED BY <1>6, <1>7, <1>8, <1>9, <1>10, <1>11 DEF Run

(* While the epoch of a run is the task's, the run is of the current and    *)
(* approved documents of a task nobody has stopped (cancellation_epoch).    *)
THEOREM EpochsTell == Spec => []EpochTells
<1>1. Init => EpochTells
  BY DEF Init, EpochTells
<1>2. IInv /\ IInv' /\ Uncancelled /\ EpochTells /\ [Next]_vars => EpochTells'
  BY EpochTellsStep
<1> QED BY <1>1, <1>2, Inductive, AlwaysUncancelled, PTL DEF Spec

-----------------------------------------------------------------------------
(* Terms.  A design is approved only where one is asked for, and what was   *)
(* captured closed is over.                                                 *)
Meant(t) ==
  /\ t.designApproval # NoProof => t.designMode = "collaborative"
  /\ t.source.open \/ t.cancelled \/ t.cancelRequested

(* The record t is that of a task, and its terms are v.                     *)
Viewed == {"source", "req", "started", "paused", "cancelled", "cancelRequested", "epoch", "design",
           "designOpen", "designMode", "designApproval"}
Shows(t, v) ==
  /\ Viewed \subseteq DOMAIN t /\ Meant(t) /\ v \in Shared!TermsType
  /\ v.drafted = (t.req # 0) /\ v.approved = t.started /\ v.design = DesignOf(t)
  /\ v.paused = t.paused /\ v.over = (t.cancelled \/ t.cancelRequested) /\ v.epoch = t.epoch

(* Terms are known by their six parts.                                      *)
LEMMA SameTerms ==
  ASSUME NEW v \in Shared!TermsType, NEW u \in Shared!TermsType,
         u.drafted = v.drafted, u.approved = v.approved, u.design = v.design,
         u.paused = v.paused, u.over = v.over, u.epoch = v.epoch
  PROVE  u = v
BY SMTT(60) DEF Shared!TermsType

(* A task has the terms it shows.                                           *)
LEMMA ShownTerms ==
  ASSUME NEW t, NEW v, Shows(t, v)
  PROVE  t # NoTask /\ TermsOf(t) = v
<1>1. t # NoTask
  BY DEF Shows, Viewed, NoTask
<1> DEFINE u == TermsOf(t)
<1>2. u = [drafted |-> t.req # 0, approved |-> t.started, design |-> DesignOf(t),
           paused |-> t.paused, over |-> t.cancelled \/ t.cancelRequested, epoch |-> t.epoch]
  BY <1>1, Zenon DEF TermsOf
<1>3. u = [drafted |-> v.drafted, approved |-> v.approved, design |-> v.design,
           paused |-> v.paused, over |-> v.over, epoch |-> v.epoch]
  BY <1>2, Zenon DEF Shows
<1>4. u \in Shared!TermsType
  BY <1>3, SMT DEF Shows, Shared!TermsType
<1> HIDE DEF u
<1>5. u = v
  BY <1>3, <1>4, SameTerms DEF Shows
<1> QED BY <1>1, <1>5 DEF u

(* What the changes of the terms make of their parts.                       *)
Parts(n, drafted, approved, design, paused, over, epoch) ==
  /\ n \in Shared!TermsType
  /\ n.drafted = drafted /\ n.approved = approved /\ n.design = design
  /\ n.paused = paused /\ n.over = over /\ n.epoch = epoch

(* The changes, part by part.                                               *)
LEMMA TermsParts ==
  ASSUME NEW v \in Shared!TermsType, NEW b \in BOOLEAN, NEW d \in Shared!Designs
  PROVE
    /\ Parts(Shared!Reset(v), FALSE, FALSE, "none", v.paused, v.over, v.epoch + 1)
    /\ Parts(Shared!Draft(v), TRUE, FALSE, "none", v.paused, v.over, v.epoch + 1)
    /\ Parts([Shared!Reset(v) EXCEPT !.over = b], FALSE, FALSE, "none", v.paused, b, v.epoch + 1)
    /\ Parts(Shared!Ended(v), v.drafted, v.approved, v.design, FALSE, TRUE, v.epoch + 1)
    /\ Parts(Shared!Paused(v, b), v.drafted, v.approved, v.design, b, v.over, v.epoch + 1)
    /\ Parts(Shared!DesignApproved(v), v.drafted, v.approved, "ready", v.paused, v.over, v.epoch)
    /\ Parts(Shared!Propose(v, d), v.drafted, v.approved, d, v.paused, v.over, v.epoch + 1)
    /\ Parts([v EXCEPT !.approved = b, !.design = d], v.drafted, b, d, v.paused, v.over, v.epoch)
    /\ Parts([v EXCEPT !.approved = FALSE, !.design = d, !.epoch = v.epoch + 1], v.drafted, FALSE, d, v.paused, v.over, v.epoch + 1)
    /\ Parts([v EXCEPT !.design = d, !.epoch = v.epoch + 1], v.drafted, v.approved, d, v.paused, v.over, v.epoch + 1)
<1>1. /\ "none" \in Shared!Designs /\ "ready" \in Shared!Designs
      /\ v.epoch \in Nat /\ v.epoch + 1 \in Nat
  BY DEF Shared!Designs, Shared!TermsType
<1>2. Parts(Shared!Reset(v), FALSE, FALSE, "none", v.paused, v.over, v.epoch + 1)
  BY <1>1, ZenonT(60) DEF Parts, Shared!TermsType, Shared!Reset
<1>3. Parts(Shared!Draft(v), TRUE, FALSE, "none", v.paused, v.over, v.epoch + 1)
  BY <1>1, ZenonT(60) DEF Parts, Shared!TermsType, Shared!Reset, Shared!Draft
<1>4. Parts([Shared!Reset(v) EXCEPT !.over = b], FALSE, FALSE, "none", v.paused, b, v.epoch + 1)
  BY <1>1, ZenonT(60) DEF Parts, Shared!TermsType, Shared!Reset
<1>5. Parts(Shared!Ended(v), v.drafted, v.approved, v.design, FALSE, TRUE, v.epoch + 1)
  BY <1>1, ZenonT(60) DEF Parts, Shared!TermsType, Shared!Ended
<1>6. Parts(Shared!Paused(v, b), v.drafted, v.approved, v.design, b, v.over, v.epoch + 1)
  BY <1>1, ZenonT(60) DEF Parts, Shared!TermsType, Shared!Paused
<1>7. Parts(Shared!DesignApproved(v), v.drafted, v.approved, "ready", v.paused, v.over, v.epoch)
  BY <1>1, ZenonT(60) DEF Parts, Shared!TermsType, Shared!DesignApproved
<1>8. Parts(Shared!Propose(v, d), v.drafted, v.approved, d, v.paused, v.over, v.epoch + 1)
  BY <1>1, ZenonT(60) DEF Parts, Shared!TermsType, Shared!Propose
<1>9. Parts([v EXCEPT !.approved = b, !.design = d], v.drafted, b, d, v.paused, v.over, v.epoch)
  BY <1>1, ZenonT(60) DEF Parts, Shared!TermsType
<1>10. Parts([v EXCEPT !.approved = FALSE, !.design = d, !.epoch = v.epoch + 1], v.drafted, FALSE, d, v.paused, v.over, v.epoch + 1)
  BY <1>1, ZenonT(60) DEF Parts, Shared!TermsType
<1>11. Parts([v EXCEPT !.design = d, !.epoch = v.epoch + 1], v.drafted, v.approved, d, v.paused, v.over, v.epoch + 1)
  BY <1>1, ZenonT(60) DEF Parts, Shared!TermsType
<1> QED BY <1>2, <1>3, <1>4, <1>5, <1>6, <1>7, <1>8, <1>9, <1>10, <1>11

(* Settling does not show.                                                  *)
LEMMA SettleShows ==
  ASSUME NEW t, NEW v, Shows(t, v)
  PROVE  Shows(Settle(t), v)
<1>1. ASSUME NEW b, b = (t.cancelled \/ t.cancelRequested)
      PROVE  Shows([t EXCEPT !.cancelled = b, !.cancelRequested = FALSE], v)
  <2> DEFINE n == [t EXCEPT !.cancelled = b, !.cancelRequested = FALSE]
  <2>1. /\ Viewed \subseteq DOMAIN n /\ n.source = t.source /\ n.req = t.req /\ n.started = t.started
        /\ n.paused = t.paused /\ n.cancelled = b /\ n.cancelRequested = FALSE
        /\ n.epoch = t.epoch /\ n.design = t.design /\ n.designOpen = t.designOpen
        /\ n.designMode = t.designMode /\ n.designApproval = t.designApproval
    BY SMT DEF Shows, Viewed
  <2> HIDE DEF n
  <2>2. (n.cancelled \/ n.cancelRequested) = (t.cancelled \/ t.cancelRequested)
    BY <1>1, <2>1
  <2>3. DesignOf(n) = DesignOf(t)
    BY <2>1, Zenon DEF DesignOf
  <2>4. Meant(n)
    BY <2>1, <2>2 DEF Shows, Meant
  <2> QED BY <2>1, <2>2, <2>3, <2>4 DEF Shows, n
<1> QED BY <1>1, Zenon DEF Settle

(* What a task shows, and what a new epoch and a reset do to it.            *)
LEMMA StartsShown ==
  ASSUME NEW t \in TaskType, Meant(t)
  PROVE  /\ Shows(t, TermsOf(t))
         /\ Shows(NextEpoch(t), [TermsOf(t) EXCEPT !.epoch = t.epoch + 1])
         /\ Shows(ResetScope(t), Shared!Reset(TermsOf(t)))
<1>1. t # NoTask /\ NextEpoch(t) \in TaskType /\ ResetScope(t) \in TaskType
  BY Distinct, RecordTypes
<1>2. \A n \in TaskType : Viewed \subseteq DOMAIN n
  BY DEF TaskType, Viewed
<1> DEFINE e == NextEpoch(t)
           r == ResetScope(t)
           v == TermsOf(t)
<1>3. /\ e.source = t.source /\ e.req = t.req /\ e.started = t.started
      /\ e.paused = t.paused /\ e.cancelled = t.cancelled
      /\ e.cancelRequested = t.cancelRequested /\ e.epoch = t.epoch + 1
      /\ e.design = t.design /\ e.designOpen = t.designOpen
      /\ e.designMode = t.designMode /\ e.designApproval = t.designApproval
  BY SMT DEF NextEpoch, TaskType
<1>4. ASSUME NEW n \in TaskType
      PROVE  LET s == [n EXCEPT !.req = 0, !.reqOpen = FALSE, !.reqApproval = NoProof,
                         !.started = FALSE, !.startApproval = NoProof,
                         !.design = 0, !.designReq = 0, !.designOpen = FALSE,
                         !.designApproval = NoProof]
             IN /\ s.source = n.source /\ s.req = 0 /\ s.started = FALSE
                /\ s.paused = n.paused /\ s.cancelled = n.cancelled
                /\ s.cancelRequested = n.cancelRequested /\ s.epoch = n.epoch
                /\ s.design = 0 /\ s.designApproval = NoProof
  BY SMTT(30) DEF TaskType
<1>5. /\ r.source = e.source /\ r.req = 0 /\ r.started = FALSE
      /\ r.paused = e.paused /\ r.cancelled = e.cancelled
      /\ r.cancelRequested = e.cancelRequested /\ r.epoch = e.epoch
      /\ r.design = 0 /\ r.designApproval = NoProof
  BY <1>1, <1>4, Zenon DEF ResetScope
<1>6. v = [drafted |-> t.req # 0, approved |-> t.started, design |-> DesignOf(t),
           paused |-> t.paused, over |-> t.cancelled \/ t.cancelRequested, epoch |-> t.epoch]
  BY <1>1, Zenon DEF TermsOf
<1>7. DesignOf(t) \in Shared!Designs /\ DesignOf(r) = "none"
  BY <1>5 DEF DesignOf, Shared!Designs
<1>8. t.started \in BOOLEAN /\ t.paused \in BOOLEAN /\ t.epoch \in Nat
  BY DEF TaskType
<1>9. v \in Shared!TermsType
  BY <1>6, <1>7, <1>8, SMT DEF Shared!TermsType
<1>10. DesignOf(e) = DesignOf(t)
  BY <1>3, Zenon DEF DesignOf
<1>11. Shows(t, v)
  <2>1. /\ v.drafted = (t.req # 0) /\ v.approved = t.started /\ v.design = DesignOf(t)
        /\ v.paused = t.paused /\ v.over = (t.cancelled \/ t.cancelRequested)
        /\ v.epoch = t.epoch
    <3> HIDE DEF v
    <3> QED BY <1>6
  <2> QED BY <1>2, <1>9, <2>1, Zenon DEF Shows
<1> HIDE DEF e, r, v
<1>12. /\ Meant(e) /\ Viewed \subseteq DOMAIN e
       /\ Meant(r) /\ Viewed \subseteq DOMAIN r
  BY <1>1, <1>2, <1>3, <1>5 DEF Meant, e, r
<1>13. /\ (e.cancelled \/ e.cancelRequested) = (t.cancelled \/ t.cancelRequested)
       /\ (r.cancelled \/ r.cancelRequested) = (t.cancelled \/ t.cancelRequested)
       /\ (e.req # 0) = (t.req # 0) /\ (r.req # 0) = FALSE
  BY <1>3, <1>5
<1>14. Shows(e, [v EXCEPT !.epoch = t.epoch + 1])
  <2> DEFINE n == [v EXCEPT !.epoch = t.epoch + 1]
  <2>1. /\ n \in Shared!TermsType /\ n.drafted = v.drafted /\ n.approved = v.approved
        /\ n.design = v.design /\ n.paused = v.paused /\ n.over = v.over /\ n.epoch = t.epoch + 1
    BY <1>8, <1>9 DEF Shared!TermsType
  <2> HIDE DEF n
  <2>2. /\ v.drafted = (t.req # 0) /\ v.approved = t.started /\ v.design = DesignOf(t)
        /\ v.paused = t.paused /\ v.over = (t.cancelled \/ t.cancelRequested)
    BY <1>11, Zenon DEF Shows
  <2>3. Shows(e, n)
    BY <1>3, <1>10, <1>12, <1>13, <2>1, <2>2, Zenon DEF Shows
  <2> QED BY <2>3 DEF n
<1>15. Shows(r, Shared!Reset(v))
  <2> DEFINE n == Shared!Reset(v)
  <2>1. Parts(n, FALSE, FALSE, "none", v.paused, v.over, v.epoch + 1)
    BY <1>9, <1>7, TermsParts
  <2> HIDE DEF n
  <2>2. v.paused = t.paused /\ v.over = (t.cancelled \/ t.cancelRequested) /\ v.epoch = t.epoch
    BY <1>11, Zenon DEF Shows
  <2>3. Shows(r, n)
    BY <1>3, <1>5, <1>7, <1>12, <1>13, <2>1, <2>2, Zenon DEF Shows, Parts
  <2> QED BY <2>3 DEF n
<1> QED BY <1>11, <1>14, <1>15 DEF e, r, v

(* What a commit does to the terms of the task.                             *)
Advances ==
  /\ task' # NoTask /\ Meant(task')
  /\ \/ TermsOf(task') = TermsOf(task)
     \/ ~TermsOf(task).over /\ Shared!Step(TermsOf(task), TermsOf(task'))

(* What is committed shows.                                                 *)
LEMMA CommitAdvances ==
  ASSUME NEW t, NEW v, Commit(t), Shows(t, v),
         v = TermsOf(task) \/ (~TermsOf(task).over /\ Shared!Step(TermsOf(task), v))
  PROVE  Advances
<1>1. Shows(task', v)
  BY SettleShows DEF Commit
<1>2. Meant(task')
  BY <1>1 DEF Shows
<1> QED BY <1>1, <1>2, ShownTerms DEF Advances

(* The fields that show of a task that accepts an operation.                *)
LEMMA AcceptingShows ==
  ASSUME IInv, task # NoTask, Meant(task), Live(task)
  PROVE  LET v == TermsOf(task) IN
         /\ task \in TaskType /\ Good(task, handled)
         /\ v \in Shared!TermsType /\ v.over = FALSE
         /\ v.drafted = (task.req # 0) /\ v.approved = task.started
         /\ v.design = DesignOf(task) /\ v.paused = task.paused /\ v.epoch = task.epoch
         /\ task.source.open
<1>1. task \in TaskType /\ Good(task, handled)
  BY Captured
<1>2. task.cancelled = FALSE /\ task.cancelRequested = FALSE
  BY <1>1 DEF Live, TaskType
<1>3. Shows(task, TermsOf(task))
  BY <1>1, StartsShown
<1>4. task.source.open
  BY <1>2 DEF Meant
<1> QED BY <1>1, <1>2, <1>3, <1>4 DEF Shows

(* The first capture: the terms are those of a task that was reset.         *)
LEMMA FirstAdvances ==
  ASSUME IInv, task = NoTask, CaptureSource
  PROVE  Advances
<1> DEFINE t == NewTask(sourceSeen)
           n == [t EXCEPT !.cancelRequested = Active(t), !.cancelled = ~Active(t)]
           v == TermsOf(task)
<1>1. Commit(IF sourceSeen.open THEN t ELSE n)
  BY Zenon DEF CaptureSource
<1>2. v = Shared!Fresh
  BY Zenon DEF TermsOf, Shared!Fresh
<1>3. v \in Shared!TermsType /\ v.over = FALSE /\ v.paused = FALSE /\ v.epoch = 0
  BY <1>2 DEF Shared!Fresh, Shared!TermsType, Shared!Designs
<1>4. /\ Viewed \subseteq DOMAIN t /\ t.source = sourceSeen /\ t.req = 0 /\ t.started = FALSE
      /\ t.paused = FALSE /\ t.cancelled = FALSE /\ t.cancelRequested = FALSE
      /\ t.epoch = 1 /\ t.design = 0 /\ t.designApproval = NoProof
  BY DEF NewTask, Viewed
<1> HIDE DEF t, v
<1>5. ASSUME NEW a \in BOOLEAN
      PROVE  LET m == [t EXCEPT !.cancelRequested = a, !.cancelled = ~a] IN
             /\ Viewed \subseteq DOMAIN m /\ m.source = sourceSeen /\ m.req = 0 /\ m.started = FALSE
             /\ m.paused = FALSE /\ m.cancelled = ~a /\ m.cancelRequested = a
             /\ m.epoch = 1 /\ m.design = 0 /\ m.designApproval = NoProof
  BY <1>4, SMT DEF Viewed
<1>6. Active(t) \in BOOLEAN
  BY DEF Active
<1>7. /\ Viewed \subseteq DOMAIN n /\ n.source = sourceSeen /\ n.req = 0 /\ n.started = FALSE
      /\ n.paused = FALSE /\ n.cancelled = ~Active(t) /\ n.cancelRequested = Active(t)
      /\ n.epoch = 1 /\ n.design = 0 /\ n.designApproval = NoProof
  BY <1>5, <1>6, Zenon
<1> HIDE DEF n
<1>8. ASSUME NEW b \in BOOLEAN
      PROVE  /\ ~v.over /\ Shared!Step(v, [Shared!Reset(v) EXCEPT !.over = b])
             /\ Parts([Shared!Reset(v) EXCEPT !.over = b], FALSE, FALSE, "none", FALSE, b, 1)
  <2>1. Parts([Shared!Reset(v) EXCEPT !.over = b], FALSE, FALSE, "none", v.paused, b, v.epoch + 1)
    BY <1>3, TermsParts DEF Shared!Designs
  <2>2. Shared!Step(v, [Shared!Reset(v) EXCEPT !.over = b])
    BY Zenon DEF Shared!Step
  <2>3. v.epoch + 1 = 1
    BY <1>3
  <2> QED BY <1>3, <2>1, <2>2, <2>3
<1>9. CASE sourceSeen.open
  <2>1. DesignOf(t) = "none" /\ Meant(t)
    BY <1>4, <1>9 DEF DesignOf, Meant
  <2>2. Shows(t, [Shared!Reset(v) EXCEPT !.over = FALSE])
    BY <1>4, <1>8, <2>1 DEF Shows, Parts
  <2> QED BY <1>1, <1>8, <1>9, <2>2, CommitAdvances DEF v
<1>10. CASE ~sourceSeen.open
  <2>1. DesignOf(n) = "none" /\ Meant(n) /\ (n.cancelled \/ n.cancelRequested) = TRUE
    BY <1>7 DEF DesignOf, Meant
  <2>2. Shows(n, [Shared!Reset(v) EXCEPT !.over = TRUE])
    BY <1>7, <1>8, <2>1 DEF Shows, Parts
  <2> QED BY <1>1, <1>8, <1>10, <2>2, CommitAdvances DEF v
<1> QED BY <1>9, <1>10

(* A reset task, as its operations finish it.                               *)
LEMMA ResetShown ==
  ASSUME IInv, task # NoTask, Meant(task), Live(task)
  PROVE  LET v == TermsOf(task)
             r == ResetScope(task)
         IN /\ Viewed \subseteq DOMAIN r /\ r.source = task.source
            /\ r.req = 0 /\ r.started = FALSE /\ r.paused = task.paused
            /\ r.cancelled = FALSE /\ r.cancelRequested = FALSE /\ r.epoch = task.epoch + 1
            /\ r.design = 0 /\ r.designApproval = NoProof
            /\ \A b \in BOOLEAN :
                 Parts([Shared!Reset(v) EXCEPT !.over = b], FALSE, FALSE, "none", task.paused, b,
                       task.epoch + 1)
            /\ Parts(Shared!Draft(v), TRUE, FALSE, "none", task.paused, FALSE, task.epoch + 1)
            /\ \A b \in BOOLEAN : Shared!Step(v, [Shared!Reset(v) EXCEPT !.over = b])
            /\ Shared!Step(v, Shared!Draft(v)) /\ ~v.over
<1> DEFINE v == TermsOf(task)
           r == ResetScope(task)
<1>1. /\ task \in TaskType /\ v \in Shared!TermsType /\ v.over = FALSE
      /\ v.paused = task.paused /\ v.epoch = task.epoch
  BY AcceptingShows
<1>2. NextEpoch(task) \in TaskType /\ r \in TaskType
  BY <1>1, RecordTypes
<1> DEFINE e == NextEpoch(task)
<1>3. /\ e.source = task.source /\ e.paused = task.paused
      /\ e.cancelled = task.cancelled /\ e.cancelRequested = task.cancelRequested
      /\ e.epoch = task.epoch + 1
  BY <1>1, SMT DEF NextEpoch, TaskType
<1>4. ASSUME NEW n \in TaskType
      PROVE  LET s == [n EXCEPT !.req = 0, !.reqOpen = FALSE, !.reqApproval = NoProof,
                         !.started = FALSE, !.startApproval = NoProof,
                         !.design = 0, !.designReq = 0, !.designOpen = FALSE,
                         !.designApproval = NoProof]
             IN /\ s.source = n.source /\ s.req = 0 /\ s.started = FALSE
                /\ s.paused = n.paused /\ s.cancelled = n.cancelled
                /\ s.cancelRequested = n.cancelRequested /\ s.epoch = n.epoch
                /\ s.design = 0 /\ s.designApproval = NoProof
  BY SMTT(30) DEF TaskType
<1>5. /\ r.source = e.source /\ r.req = 0 /\ r.started = FALSE
      /\ r.paused = e.paused /\ r.cancelled = e.cancelled
      /\ r.cancelRequested = e.cancelRequested /\ r.epoch = e.epoch
      /\ r.design = 0 /\ r.designApproval = NoProof
  BY <1>2, <1>4, Zenon DEF ResetScope
<1>6. Viewed \subseteq DOMAIN r
  <2> HIDE DEF r
  <2> QED BY <1>2 DEF TaskType, Viewed
<1>7. task.cancelled = FALSE /\ task.cancelRequested = FALSE
  BY <1>1 DEF Live, TaskType
<1> HIDE DEF r, e, v
<1>8. /\ \A b \in BOOLEAN :
           Parts([Shared!Reset(v) EXCEPT !.over = b], FALSE, FALSE, "none", task.paused, b,
                 task.epoch + 1)
      /\ Parts(Shared!Draft(v), TRUE, FALSE, "none", task.paused, FALSE, task.epoch + 1)
  <2>1. "none" \in Shared!Designs
    BY DEF Shared!Designs
  <2>2. ASSUME NEW b \in BOOLEAN
        PROVE  Parts([Shared!Reset(v) EXCEPT !.over = b], FALSE, FALSE, "none", v.paused, b,
                     v.epoch + 1)
               /\ Parts(Shared!Draft(v), TRUE, FALSE, "none", v.paused, v.over, v.epoch + 1)
    BY <1>1, <2>1, TermsParts
  <2> QED BY <1>1, <2>2
<1>9. /\ \A b \in BOOLEAN : Shared!Step(v, [Shared!Reset(v) EXCEPT !.over = b])
      /\ Shared!Step(v, Shared!Draft(v))
  BY Zenon DEF Shared!Step
<1> QED BY <1>1, <1>3, <1>5, <1>6, <1>7, <1>8, <1>9 DEF r, v

(* Another capture: a new source, perhaps closed.                           *)
LEMMA CaptureAdvances ==
  ASSUME IInv, task # NoTask, Meant(task), CaptureSource
  PROVE  Advances
<1> DEFINE v == TermsOf(task)
           r == ResetScope(task)
           t == IF task.source = sourceSeen THEN task ELSE [r EXCEPT !.source = sourceSeen]
           n == [t EXCEPT !.cancelRequested = Active(t), !.cancelled = ~Active(t)]
<1>1. Commit(IF sourceSeen.open THEN t ELSE n) /\ Live(task)
  BY Zenon DEF CaptureSource, Accepting
<1>2. task.source.open /\ task \in TaskType
  BY <1>1, AcceptingShows
<1>3. CASE task.source = sourceSeen
  <2>1. Commit(task)
    BY <1>1, <1>2, <1>3
  <2> QED BY <1>2, <2>1, StartsShown, CommitAdvances
<1>4. CASE task.source # sourceSeen
  <2> DEFINE m == [r EXCEPT !.source = sourceSeen]
  <2>1. /\ Viewed \subseteq DOMAIN r
        /\ r.req = 0 /\ r.started = FALSE /\ r.paused = task.paused
        /\ r.cancelled = FALSE /\ r.cancelRequested = FALSE /\ r.epoch = task.epoch + 1
        /\ r.design = 0 /\ r.designApproval = NoProof
        /\ \A b \in BOOLEAN :
             /\ Parts([Shared!Reset(v) EXCEPT !.over = b], FALSE, FALSE, "none", task.paused, b,
                      task.epoch + 1)
             /\ ~v.over /\ Shared!Step(v, [Shared!Reset(v) EXCEPT !.over = b])
    BY <1>1, ResetShown
  <2>2. Commit(IF sourceSeen.open THEN m
               ELSE [m EXCEPT !.cancelRequested = Active(m), !.cancelled = ~Active(m)])
    BY <1>1, <1>4, Zenon
  <2> HIDE DEF r, v
  <2>3. /\ Viewed \subseteq DOMAIN m /\ m.source = sourceSeen
        /\ m.req = 0 /\ m.started = FALSE /\ m.paused = task.paused
        /\ m.cancelled = FALSE /\ m.cancelRequested = FALSE /\ m.epoch = task.epoch + 1
        /\ m.design = 0 /\ m.designApproval = NoProof
    BY <2>1, SMT DEF Viewed
  <2> HIDE DEF m
  <2>4. ASSUME NEW a \in BOOLEAN
        PROVE  LET k == [m EXCEPT !.cancelRequested = a, !.cancelled = ~a] IN
               /\ Viewed \subseteq DOMAIN k
               /\ k.req = 0 /\ k.started = FALSE /\ k.paused = task.paused
               /\ k.cancelled = ~a /\ k.cancelRequested = a /\ k.epoch = task.epoch + 1
               /\ k.design = 0 /\ k.designApproval = NoProof
    BY <2>3, SMT DEF Viewed
  <2>5. CASE sourceSeen.open
    <3>1. DesignOf(m) = "none" /\ Meant(m)
      BY <2>3, <2>5 DEF DesignOf, Meant
    <3>2. Shows(m, [Shared!Reset(v) EXCEPT !.over = FALSE])
      BY <2>1, <2>3, <3>1 DEF Shows, Parts
    <3> QED BY <2>1, <2>2, <2>5, <3>2, CommitAdvances DEF v
  <2>6. CASE ~sourceSeen.open
    <3> DEFINE k == [m EXCEPT !.cancelRequested = Active(m), !.cancelled = ~Active(m)]
    <3>1. Active(m) \in BOOLEAN
      BY DEF Active
    <3>2. /\ Viewed \subseteq DOMAIN k
          /\ k.req = 0 /\ k.started = FALSE /\ k.paused = task.paused
          /\ k.cancelled = ~Active(m) /\ k.cancelRequested = Active(m) /\ k.epoch = task.epoch + 1
          /\ k.design = 0 /\ k.designApproval = NoProof
      BY <2>4, <3>1, Zenon
    <3> HIDE DEF k
    <3>3. DesignOf(k) = "none" /\ Meant(k) /\ (k.cancelled \/ k.cancelRequested) = TRUE
      BY <3>2 DEF DesignOf, Meant
    <3>4. Shows(k, [Shared!Reset(v) EXCEPT !.over = TRUE])
      BY <2>1, <3>2, <3>3 DEF Shows, Parts
    <3> QED BY <2>1, <2>2, <2>6, <3>4, CommitAdvances DEF v, k
  <2> QED BY <2>5, <2>6
<1> QED BY <1>3, <1>4

(* New requirements, an amendment, another policy.                          *)
LEMMA RewrittenAdvances ==
  ASSUME IInv, task # NoTask, Meant(task),
         \/ \E q \in BOOLEAN : Normalize(q)
         \/ \E c \in Comments : Amend(c)
         \/ RefreshPolicy
  PROVE  Advances
<1> DEFINE v == TermsOf(task)
           r == ResetScope(task)
           w == [Shared!Reset(v) EXCEPT !.over = FALSE]
<1>1. Live(task)
  BY DEF Normalize, Amend, RefreshPolicy, Accepting
<1>2. /\ Viewed \subseteq DOMAIN r /\ r.source = task.source
      /\ r.req = 0 /\ r.started = FALSE /\ r.paused = task.paused
      /\ r.cancelled = FALSE /\ r.cancelRequested = FALSE /\ r.epoch = task.epoch + 1
      /\ r.design = 0 /\ r.designApproval = NoProof
      /\ Parts(w, FALSE, FALSE, "none", task.paused, FALSE, task.epoch + 1)
      /\ Parts(Shared!Draft(v), TRUE, FALSE, "none", task.paused, FALSE, task.epoch + 1)
      /\ Shared!Step(v, w)
      /\ Shared!Step(v, Shared!Draft(v)) /\ ~v.over
  BY <1>1, ResetShown
<1>3. task.source.open /\ task \in TaskType
  BY <1>1, AcceptingShows
<1> HIDE DEF r, v, w
<1>4. ASSUME NEW q \in BOOLEAN, Normalize(q)
      PROVE  Advances
  <2> DEFINE n == [r EXCEPT !.req = task.requirementsCount + 1, !.requirementsCount = @ + 1,
                            !.reqOpen = q]
  <2>1. Commit(n)
    BY <1>4 DEF Normalize, r
  <2>2. /\ Viewed \subseteq DOMAIN n /\ n.source = task.source
        /\ n.req = task.requirementsCount + 1 /\ n.started = FALSE /\ n.paused = task.paused
        /\ n.cancelled = FALSE /\ n.cancelRequested = FALSE /\ n.epoch = task.epoch + 1
        /\ n.design = 0 /\ n.designApproval = NoProof
    BY <1>2, SMT DEF Viewed
  <2> HIDE DEF n
  <2>3. n.req # 0
    BY <1>3, <2>2 DEF TaskType
  <2>4. DesignOf(n) = "none" /\ Meant(n)
    BY <1>3, <2>2 DEF DesignOf, Meant
  <2>5. Shows(n, Shared!Draft(v))
    BY <1>2, <2>2, <2>3, <2>4 DEF Shows, Parts
  <2> QED BY <1>2, <2>1, <2>5, CommitAdvances DEF v
<1>5. DesignOf(r) = "none" /\ Meant(r)
  BY <1>2, <1>3 DEF DesignOf, Meant
<1>6. ASSUME NEW c \in Comments, Amend(c)
      PROVE  Advances
  <2>1. Commit(r)
    BY <1>6 DEF Amend, r
  <2>2. Shows(r, w)
    BY <1>2, <1>5 DEF Shows, Parts
  <2> QED BY <1>2, <2>1, <2>2, CommitAdvances DEF v
<1>7. ASSUME RefreshPolicy
      PROVE  Advances
  <2> DEFINE n == [r EXCEPT !.config = policy, !.startPolicy = policy.start,
                            !.designMode = policy.design]
  <2>1. Commit(IF task.config = policy THEN task ELSE n)
    BY <1>7 DEF RefreshPolicy, r
  <2>2. /\ Viewed \subseteq DOMAIN n /\ n.source = task.source
        /\ n.req = 0 /\ n.started = FALSE /\ n.paused = task.paused
        /\ n.cancelled = FALSE /\ n.cancelRequested = FALSE /\ n.epoch = task.epoch + 1
        /\ n.design = 0 /\ n.designApproval = NoProof
    BY <1>2, SMT DEF Viewed
  <2> HIDE DEF n
  <2>3. DesignOf(n) = "none" /\ Meant(n)
    BY <1>3, <2>2 DEF DesignOf, Meant
  <2>4. Shows(n, w)
    BY <1>2, <2>2, <2>3 DEF Shows, Parts
  <2>5. Shows(task, v)
    BY <1>3, StartsShown DEF v
  <2>6. CASE task.config = policy
    BY <2>1, <2>5, <2>6, CommitAdvances DEF v
  <2>7. CASE task.config # policy
    BY <1>2, <2>1, <2>4, <2>7, CommitAdvances DEF v
  <2> QED BY <2>6, <2>7
<1> QED BY <1>4, <1>6, <1>7

(* A design, of approved requirements.                                      *)
LEMMA ProposeAdvances ==
  ASSUME IInv, task # NoTask, Meant(task), NEW q \in BOOLEAN, ProposeDesign(q)
  PROVE  Advances
<1> DEFINE v == TermsOf(task)
           e == NextEpoch(task)
           n == [e EXCEPT !.design = task.designCount + 1, !.designCount = @ + 1,
                          !.designReq = task.req, !.designOpen = q, !.designApproval = NoProof]
           d == DesignOf(n)
           w == Shared!Propose(v, d)
<1>1. Commit(n) /\ Live(task) /\ task.started
  BY DEF ProposeDesign, Accepting, Basis
<1>2. /\ task \in TaskType /\ v \in Shared!TermsType /\ v.over = FALSE
      /\ v.drafted = (task.req # 0) /\ v.approved = task.started
      /\ v.paused = task.paused /\ v.epoch = task.epoch /\ task.source.open
  BY <1>1, AcceptingShows
<1>3. /\ Viewed \subseteq DOMAIN e /\ e.source = task.source /\ e.req = task.req
      /\ e.started = task.started /\ e.paused = task.paused /\ e.cancelled = task.cancelled
      /\ e.cancelRequested = task.cancelRequested /\ e.epoch = task.epoch + 1
      /\ "designCount" \in DOMAIN e
  <2>1. e \in TaskType
    BY <1>2, RecordTypes
  <2>2. Viewed \subseteq DOMAIN e /\ "designCount" \in DOMAIN e
    <3> HIDE DEF e
    <3> QED BY <2>1 DEF TaskType, Viewed
  <2> QED BY <1>2, <2>2, SMT DEF NextEpoch, TaskType
<1> HIDE DEF e, v
<1>4. /\ Viewed \subseteq DOMAIN n /\ n.source = task.source /\ n.req = task.req
      /\ n.started = task.started /\ n.paused = task.paused /\ n.cancelled = task.cancelled
      /\ n.cancelRequested = task.cancelRequested /\ n.epoch = task.epoch + 1
      /\ n.design = task.designCount + 1 /\ n.designApproval = NoProof
  BY <1>3, SMT DEF Viewed
<1>5. /\ task.cancelled = FALSE /\ task.cancelRequested = FALSE /\ task.designCount \in Nat
  BY <1>1, <1>2 DEF Live, TaskType
<1> HIDE DEF n
<1>6. d \in Shared!Designs \ {"none"}
  <2>1. n.design # 0
    BY <1>4, <1>5
  <2> QED BY <2>1 DEF DesignOf, Shared!Designs
<1> HIDE DEF d
<1>7. Parts(w, v.drafted, v.approved, d, v.paused, v.over, v.epoch + 1)
  BY <1>2, <1>6, TermsParts
<1>8. Shared!Step(v, w)
  BY <1>1, <1>2, <1>6, Zenon DEF Shared!Step
<1> HIDE DEF w
<1>9. Meant(n) /\ (n.cancelled \/ n.cancelRequested) = FALSE
  BY <1>2, <1>4, <1>5 DEF Meant
<1>10. Shows(n, w)
  BY <1>2, <1>4, <1>7, <1>9 DEF Shows, Parts, d
<1> QED BY <1>1, <1>2, <1>8, <1>10, CommitAdvances DEF v

(* What an approval may make of the design.                                 *)
LEMMA ChosenDesigns ==
  ASSUME NEW s, NEW t, s.design = t.design, s.designOpen = t.designOpen,
         s.designApproval = NoProof, t.designApproval = NoProof
  PROVE  /\ DesignOf(s) \in Shared!Chosen(DesignOf(t))
         /\ DesignOf(s) \in Shared!Designs
BY DEF DesignOf, Shared!Chosen, Shared!Designs

(* An approval of the requirements, or a start.                             *)
LEMMA ApprovalAdvances ==
  ASSUME IInv, task # NoTask, Meant(task), Live(task), task.req # 0, ~task.started,
         NEW n, Commit(n),
         /\ Viewed \subseteq DOMAIN n /\ n.source = task.source /\ n.req = task.req
         /\ n.started \in BOOLEAN /\ n.paused = task.paused /\ n.cancelled = task.cancelled
         /\ n.cancelRequested = task.cancelRequested /\ n.epoch = task.epoch
         /\ n.design = task.design /\ n.designOpen = task.designOpen
         /\ n.designApproval = task.designApproval
  PROVE  Advances
<1> DEFINE v == TermsOf(task)
           d == DesignOf(n)
           b == n.started
           w == [v EXCEPT !.approved = b, !.design = d]
<1>1. /\ task \in TaskType /\ Good(task, handled) /\ v \in Shared!TermsType /\ v.over = FALSE
      /\ v.drafted = (task.req # 0) /\ v.approved = task.started /\ v.design = DesignOf(task)
      /\ v.paused = task.paused /\ v.epoch = task.epoch /\ task.source.open
  BY AcceptingShows
<1>2. task.designApproval = NoProof
  BY <1>1 DEF Good
<1>3. d \in Shared!Chosen(v.design) /\ d \in Shared!Designs
  BY <1>1, <1>2, ChosenDesigns
<1>4. task.cancelled = FALSE /\ task.cancelRequested = FALSE
  BY <1>1 DEF Live, TaskType
<1> HIDE DEF d, b, v
<1>5. b \in BOOLEAN
  BY DEF b
<1>6. Parts(w, v.drafted, b, d, v.paused, v.over, v.epoch)
  BY <1>1, <1>3, <1>5, TermsParts
<1>7. Shared!Step(v, w)
  <2>1. w \in Shared!Approvals(v)
    <3> DEFINE G(a, e) == [v EXCEPT !.approved = a, !.design = e]
    <3>1. Shared!Approvals(v) = {G(a, e) : a \in BOOLEAN, e \in Shared!Chosen(v.design)}
      BY DEF Shared!Approvals
    <3>2. w = G(b, d)
      OBVIOUS
    <3> HIDE DEF G, w
    <3> QED BY <1>3, <1>5, <3>1, <3>2
  <2>2. Shared!Approvable(v)
    BY <1>1 DEF Shared!Approvable
  <2> QED BY <2>1, <2>2, Zenon DEF Shared!Step
<1> HIDE DEF w
<1>8. Meant(n) /\ (n.cancelled \/ n.cancelRequested) = FALSE
  BY <1>1, <1>2, <1>4 DEF Meant
<1>9. Shows(n, w)
  BY <1>1, <1>6, <1>8 DEF Shows, Parts, d, b
<1> QED BY <1>1, <1>7, <1>9, CommitAdvances DEF v

(* The two commands that do so.                                             *)
LEMMA ApproveAdvances ==
  ASSUME IInv, task # NoTask, Meant(task), NEW c \in Comments,
         ApproveRequirements(c) \/ Start(c)
  PROVE  Advances
<1>1. Live(task)
  BY DEF ApproveRequirements, Start, Accepting
<1>2. task \in TaskType /\ Good(task, handled) /\ Viewed \subseteq DOMAIN task
      /\ "reqApproval" \in DOMAIN task /\ "startApproval" \in DOMAIN task
      /\ "startPolicy" \in DOMAIN task
  BY Captured DEF TaskType, Viewed
<1>3. ASSUME ApproveRequirements(c)
      PROVE  Advances
  <2>1. task.req # 0 /\ ~task.started
    BY <1>2, <1>3, Zenon DEF ApproveRequirements, Good
  <2>2. PICK p, v2, v3 : \E v4 \in BOOLEAN :
          Commit([task EXCEPT !.reqApproval = p, !.startPolicy = v2, !.designMode = v3,
                              !.started = v4])
    BY <1>3, Zenon DEF ApproveRequirements
  <2>3. PICK v4 \in BOOLEAN :
          Commit([task EXCEPT !.reqApproval = p, !.startPolicy = v2, !.designMode = v3,
                              !.started = v4])
    BY <2>2
  <2> DEFINE n == [task EXCEPT !.reqApproval = p, !.startPolicy = v2, !.designMode = v3,
                               !.started = v4]
  <2>4. /\ Viewed \subseteq DOMAIN n /\ n.source = task.source /\ n.req = task.req
        /\ n.started \in BOOLEAN /\ n.paused = task.paused /\ n.cancelled = task.cancelled
        /\ n.cancelRequested = task.cancelRequested /\ n.epoch = task.epoch
        /\ n.design = task.design /\ n.designOpen = task.designOpen
        /\ n.designApproval = task.designApproval
    BY <1>2, SMT DEF Viewed
  <2>5. Commit(n)
    BY <2>3
  <2> HIDE DEF n
  <2> QED BY <1>1, <2>1, <2>4, <2>5, ApprovalAdvances
<1>4. ASSUME Start(c)
      PROVE  Advances
  <2>1. task.req # 0 /\ ~task.started
    BY <1>2, <1>4 DEF Start, ProofCurrent, Good
  <2>2. PICK p, v2 : \E v4 \in BOOLEAN :
          Commit([task EXCEPT !.startApproval = p, !.designMode = v2, !.started = v4])
    BY <1>4, Zenon DEF Start
  <2>3. PICK v4 \in BOOLEAN :
          Commit([task EXCEPT !.startApproval = p, !.designMode = v2, !.started = v4])
    BY <2>2
  <2> DEFINE n == [task EXCEPT !.startApproval = p, !.designMode = v2, !.started = v4]
  <2>4. /\ Viewed \subseteq DOMAIN n /\ n.source = task.source /\ n.req = task.req
        /\ n.started \in BOOLEAN /\ n.paused = task.paused /\ n.cancelled = task.cancelled
        /\ n.cancelRequested = task.cancelRequested /\ n.epoch = task.epoch
        /\ n.design = task.design /\ n.designOpen = task.designOpen
        /\ n.designApproval = task.designApproval
    BY <1>2, SMT DEF Viewed
  <2>5. Commit(n)
    BY <2>3
  <2> HIDE DEF n
  <2> QED BY <1>1, <2>1, <2>4, <2>5, ApprovalAdvances
<1> QED BY <1>3, <1>4

(* The approval of a design that is to be approved.                         *)
LEMMA DesignAdvances ==
  ASSUME IInv, task # NoTask, Meant(task), NEW c \in Comments, ApproveDesign(c)
  PROVE  Advances
<1> DEFINE v == TermsOf(task)
           w == Shared!DesignApproved(v)
<1>1. /\ Live(task) /\ task.started /\ task.design # 0 /\ ~task.designOpen
      /\ task.designMode = "collaborative"
  BY DEF ApproveDesign, Accepting, Basis
<1>2. PICK p : p # NoProof /\ Commit([task EXCEPT !.designApproval = p])
  BY Distinct, Zenon DEF ApproveDesign
<1>3. /\ task \in TaskType /\ v \in Shared!TermsType /\ v.over = FALSE
      /\ v.drafted = (task.req # 0) /\ v.approved = task.started /\ v.design = DesignOf(task)
      /\ v.paused = task.paused /\ v.epoch = task.epoch /\ task.source.open
  BY <1>1, AcceptingShows
<1>4. Viewed \subseteq DOMAIN task /\ task.cancelled = FALSE /\ task.cancelRequested = FALSE
  BY <1>1, <1>3 DEF TaskType, Viewed, Live
<1> DEFINE n == [task EXCEPT !.designApproval = p]
<1>5. /\ Viewed \subseteq DOMAIN n /\ n.source = task.source /\ n.req = task.req
      /\ n.started = task.started /\ n.paused = task.paused /\ n.cancelled = task.cancelled
      /\ n.cancelRequested = task.cancelRequested /\ n.epoch = task.epoch
      /\ n.design = task.design /\ n.designOpen = task.designOpen
      /\ n.designMode = task.designMode /\ n.designApproval = p
  BY <1>4, SMT DEF Viewed
<1>6. Commit(n)
  BY <1>2
<1> HIDE DEF n, v
<1>7. DesignOf(n) = "ready"
  BY <1>1, <1>2, <1>5 DEF DesignOf
<1>8. DesignOf(task) \in {"proposed", "ready"}
  BY <1>1 DEF DesignOf
<1>9. Meant(n) /\ (n.cancelled \/ n.cancelRequested) = FALSE
  BY <1>1, <1>3, <1>4, <1>5 DEF Meant
<1>10. Parts(w, v.drafted, v.approved, "ready", v.paused, v.over, v.epoch)
  BY <1>3, TermsParts DEF Shared!Designs
<1> HIDE DEF w
<1>11. Shows(n, w)
  BY <1>3, <1>5, <1>7, <1>9, <1>10 DEF Shows, Parts
<1>12. v = w \/ Shared!Step(v, w)
  <2>1. CASE v.design = "proposed"
    BY <1>1, <1>3, <2>1, Zenon DEF Shared!Step, Shared!DesignApprovable, w
  <2>2. CASE v.design = "ready"
    <3>1. w = v
      BY <1>3, <1>10, <2>2, SameTerms DEF Parts
    <3> QED BY <3>1
  <2> QED BY <1>3, <1>8, <2>1, <2>2
<1> QED BY <1>3, <1>6, <1>11, <1>12, CommitAdvances DEF v

(* A pause, its end, and the end.                                           *)
LEMMA ControlAdvances ==
  ASSUME IInv, task # NoTask, Meant(task), NEW c \in Comments,
         Resume(c) \/ Stop(c) \/ Cancel(c)
  PROVE  Advances
<1> DEFINE v == TermsOf(task)
           e == NextEpoch(task)
<1>1. Live(task)
  BY DEF Resume, Stop, Cancel, Accepting
<1>2. /\ task \in TaskType /\ v \in Shared!TermsType /\ v.over = FALSE
      /\ v.drafted = (task.req # 0) /\ v.approved = task.started /\ v.design = DesignOf(task)
      /\ v.paused = task.paused /\ v.epoch = task.epoch /\ task.source.open
  BY <1>1, AcceptingShows
<1>3. /\ Viewed \subseteq DOMAIN e /\ e.source = task.source /\ e.req = task.req
      /\ e.started = task.started /\ e.cancelled = FALSE
      /\ e.cancelRequested = FALSE /\ e.epoch = task.epoch + 1
      /\ e.design = task.design /\ e.designOpen = task.designOpen
      /\ e.designMode = task.designMode /\ e.designApproval = task.designApproval
  <2>1. e \in TaskType
    BY <1>2, RecordTypes
  <2>2. Viewed \subseteq DOMAIN e
    <3> HIDE DEF e
    <3> QED BY <2>1 DEF TaskType, Viewed
  <2>3. task.cancelled = FALSE /\ task.cancelRequested = FALSE
    BY <1>1, <1>2 DEF Live, TaskType
  <2> QED BY <1>2, <2>2, <2>3, SMT DEF NextEpoch, TaskType
<1>4. Meant(task)
  OBVIOUS
<1>5. TRUE \in BOOLEAN /\ FALSE \in BOOLEAN /\ "none" \in Shared!Designs
  BY DEF Shared!Designs
<1>6. /\ Parts(Shared!Paused(v, TRUE), v.drafted, v.approved, v.design, TRUE, v.over, v.epoch + 1)
      /\ Parts(Shared!Paused(v, FALSE), v.drafted, v.approved, v.design, FALSE, v.over, v.epoch + 1)
      /\ Parts(Shared!Ended(v), v.drafted, v.approved, v.design, FALSE, TRUE, v.epoch + 1)
  BY <1>2, <1>5, TermsParts
<1> HIDE DEF e, v
<1>7. ASSUME NEW a \in BOOLEAN, NEW b1 \in BOOLEAN, NEW b2 \in BOOLEAN
      PROVE  /\ LET n == [e EXCEPT !.paused = a]
                IN /\ Viewed \subseteq DOMAIN n /\ n.source = task.source /\ n.req = task.req
                   /\ n.started = task.started /\ n.paused = a
                   /\ n.cancelled = FALSE /\ n.cancelRequested = FALSE
                   /\ n.epoch = task.epoch + 1
                   /\ n.design = task.design /\ n.designOpen = task.designOpen
                   /\ n.designMode = task.designMode /\ n.designApproval = task.designApproval
             /\ LET n == [e EXCEPT !.paused = a, !.cancelRequested = b1, !.cancelled = b2]
                IN /\ Viewed \subseteq DOMAIN n /\ n.source = task.source /\ n.req = task.req
                   /\ n.started = task.started /\ n.paused = a
                   /\ n.cancelled = b2 /\ n.cancelRequested = b1 /\ n.epoch = task.epoch + 1
                   /\ n.design = task.design /\ n.designOpen = task.designOpen
                   /\ n.designMode = task.designMode /\ n.designApproval = task.designApproval
  BY <1>3, SMT DEF Viewed
<1>8. ASSUME Resume(c)
      PROVE  Advances
  <2> DEFINE n == [e EXCEPT !.paused = FALSE]
             w == Shared!Paused(v, FALSE)
  <2>1. Commit(n) /\ task.paused
    BY <1>8 DEF Resume, e
  <2>2. /\ Viewed \subseteq DOMAIN n /\ n.source = task.source /\ n.req = task.req
        /\ n.started = task.started /\ n.paused = FALSE /\ n.cancelled = FALSE
        /\ n.cancelRequested = FALSE /\ n.epoch = task.epoch + 1
        /\ n.design = task.design /\ n.designOpen = task.designOpen
        /\ n.designMode = task.designMode /\ n.designApproval = task.designApproval
    BY <1>7
  <2> HIDE DEF n
  <2>3. /\ DesignOf(n) = DesignOf(task) /\ Meant(n)
        /\ (n.cancelled \/ n.cancelRequested) = FALSE
    BY <1>2, <1>4, <2>2 DEF DesignOf, Meant
  <2>4. Shared!Step(v, w)
    BY <1>2, <2>1, Zenon DEF Shared!Step
  <2>5. Parts(w, v.drafted, v.approved, v.design, FALSE, v.over, v.epoch + 1)
    BY <1>6
  <2> HIDE DEF w
  <2>6. Shows(n, w)
    BY <1>2, <2>2, <2>3, <2>5 DEF Shows, Parts
  <2> QED BY <1>2, <2>1, <2>4, <2>6, CommitAdvances DEF v
<1>9. ASSUME Stop(c)
      PROVE  Advances
  <2> DEFINE n == [e EXCEPT !.paused = TRUE, !.cancelRequested = FALSE, !.cancelled = FALSE]
             w == Shared!Paused(v, TRUE)
  <2>1. Commit(n)
    BY <1>9, Zenon DEF Stop, e
  <2>2. /\ Viewed \subseteq DOMAIN n /\ n.source = task.source /\ n.req = task.req
        /\ n.started = task.started /\ n.paused = TRUE /\ n.cancelled = FALSE
        /\ n.cancelRequested = FALSE /\ n.epoch = task.epoch + 1
        /\ n.design = task.design /\ n.designOpen = task.designOpen
        /\ n.designMode = task.designMode /\ n.designApproval = task.designApproval
    BY <1>7
  <2> HIDE DEF n
  <2>3. /\ DesignOf(n) = DesignOf(task) /\ Meant(n)
        /\ (n.cancelled \/ n.cancelRequested) = FALSE
    BY <1>2, <1>4, <2>2 DEF DesignOf, Meant
  <2>4. Shared!Step(v, w)
    BY Zenon DEF Shared!Step
  <2>5. Parts(w, v.drafted, v.approved, v.design, TRUE, v.over, v.epoch + 1)
    BY <1>6
  <2> HIDE DEF w
  <2>6. Shows(n, w)
    BY <1>2, <2>2, <2>3, <2>5 DEF Shows, Parts
  <2> QED BY <1>2, <2>1, <2>4, <2>6, CommitAdvances DEF v
<1>10. ASSUME Cancel(c)
       PROVE  Advances
  <2> DEFINE a == Active(task)
             n == [e EXCEPT !.paused = FALSE, !.cancelRequested = a, !.cancelled = ~a]
             w == Shared!Ended(v)
  <2>1. Commit(n)
    BY <1>10, Zenon DEF Cancel, e
  <2>2. a \in BOOLEAN /\ (~a) \in BOOLEAN
    BY DEF Active
  <2> HIDE DEF a
  <2>3. /\ Viewed \subseteq DOMAIN n /\ n.source = task.source /\ n.req = task.req
        /\ n.started = task.started /\ n.paused = FALSE /\ n.cancelled = ~a
        /\ n.cancelRequested = a /\ n.epoch = task.epoch + 1
        /\ n.design = task.design /\ n.designOpen = task.designOpen
        /\ n.designMode = task.designMode /\ n.designApproval = task.designApproval
    BY <1>3, <2>2, SMT DEF Viewed
  <2> HIDE DEF n
  <2>4. /\ DesignOf(n) = DesignOf(task) /\ Meant(n)
        /\ (n.cancelled \/ n.cancelRequested) = TRUE
    BY <1>2, <1>4, <2>2, <2>3 DEF DesignOf, Meant
  <2>5. Shared!Step(v, w)
    BY Zenon DEF Shared!Step
  <2>6. Parts(w, v.drafted, v.approved, v.design, FALSE, TRUE, v.epoch + 1)
    BY <1>6
  <2> HIDE DEF w
  <2>7. Shows(n, w)
    BY <1>2, <2>3, <2>4, <2>6 DEF Shows, Parts
  <2> QED BY <1>2, <2>1, <2>5, <2>7, CommitAdvances DEF v
<1> QED BY <1>8, <1>9, <1>10

(* The record of the run does not show.                                     *)
LEMMA RunAdvances ==
  ASSUME IInv, Meant(task), Run
  PROVE  Advances
<1>1. task # NoTask /\ \E r : Commit([task EXCEPT !.run = r])
  BY RunsAreRecorded
<1>2. task \in TaskType
  BY <1>1, Captured
<1>3. PICK r : Commit([task EXCEPT !.run = r])
  BY <1>1
<1> DEFINE n == [task EXCEPT !.run = r]
           v == TermsOf(task)
<1>4. /\ Viewed \subseteq DOMAIN n /\ n.source = task.source /\ n.req = task.req
      /\ n.started = task.started /\ n.paused = task.paused /\ n.cancelled = task.cancelled
      /\ n.cancelRequested = task.cancelRequested /\ n.epoch = task.epoch
      /\ n.design = task.design /\ n.designOpen = task.designOpen
      /\ n.designMode = task.designMode /\ n.designApproval = task.designApproval
  <2>1. Viewed \subseteq DOMAIN task
    BY <1>2 DEF TaskType, Viewed
  <2> QED BY <2>1, SMT DEF Viewed
<1>5. Commit(n)
  BY <1>3
<1>6. Shows(task, v)
  BY <1>2, StartsShown
<1> HIDE DEF n, v
<1>7. /\ DesignOf(n) = DesignOf(task) /\ Meant(n)
      /\ (n.cancelled \/ n.cancelRequested) = (task.cancelled \/ task.cancelRequested)
  BY <1>4 DEF DesignOf, Meant
<1>8. Shows(n, v)
  BY <1>4, <1>6, <1>7, Zenon DEF Shows
<1> QED BY <1>5, <1>8, CommitAdvances DEF v

(* Approvals withdrawn, and those that rest on them.                        *)
LEMMA ReconcileAdvances ==
  ASSUME IInv, task # NoTask, Meant(task), Reconcile
  PROVE  Advances
<1> DEFINE v == TermsOf(task)
           e == NextEpoch(task)
           noReq == Revoked(task.reqApproval)
           noStart == noReq \/ Revoked(task.startApproval)
           noDesign == noStart \/ Revoked(task.designApproval)
           t == IF noDesign THEN NextEpoch(task) ELSE task
           n == [t EXCEPT !.reqApproval = IF noReq THEN NoProof ELSE t.reqApproval,
                          !.startApproval = IF noStart THEN NoProof ELSE t.startApproval,
                          !.started = t.started /\ ~noStart,
                          !.designApproval = IF noDesign THEN NoProof ELSE t.designApproval]
<1>1. Live(task) /\ Commit(n)
  BY Zenon DEF Reconcile, Accepting
<1>2. /\ task \in TaskType /\ Good(task, handled) /\ v \in Shared!TermsType /\ v.over = FALSE
      /\ v.drafted = (task.req # 0) /\ v.approved = task.started /\ v.design = DesignOf(task)
      /\ v.paused = task.paused /\ v.epoch = task.epoch /\ task.source.open
  BY <1>1, AcceptingShows
<1>3. /\ Viewed \subseteq DOMAIN e /\ e.source = task.source /\ e.req = task.req
      /\ e.started = task.started /\ e.paused = task.paused /\ e.cancelled = FALSE
      /\ e.cancelRequested = FALSE /\ e.epoch = task.epoch + 1
      /\ e.design = task.design /\ e.designOpen = task.designOpen
      /\ e.designMode = task.designMode /\ e.designApproval = task.designApproval
      /\ "reqApproval" \in DOMAIN e /\ "startApproval" \in DOMAIN e
  <2>1. e \in TaskType
    BY <1>2, RecordTypes
  <2>2. /\ Viewed \subseteq DOMAIN e
        /\ "reqApproval" \in DOMAIN e /\ "startApproval" \in DOMAIN e
    <3> HIDE DEF e
    <3> QED BY <2>1 DEF TaskType, Viewed
  <2>3. task.cancelled = FALSE /\ task.cancelRequested = FALSE
    BY <1>1, <1>2 DEF Live, TaskType
  <2> QED BY <1>2, <2>2, <2>3, SMT DEF NextEpoch, TaskType
<1>4. noDesign => task.req # 0 /\ v.drafted
  BY <1>2 DEF Revoked, Good
<1>5. /\ noDesign => t = e
      /\ ~noDesign => t = task /\ ~noReq /\ ~noStart
  OBVIOUS
<1>6. Shows(task, v)
  BY <1>2, StartsShown
<1>7. task.designApproval # NoProof => task.started /\ task.design # 0 /\ ~task.designOpen
  BY <1>2 DEF Good
<1>8. noDesign /\ ~noStart => task.designApproval # NoProof
  BY DEF Revoked
<1>9. noStart \in BOOLEAN /\ task.started \in BOOLEAN
  BY <1>2 DEF TaskType, Revoked
<1> HIDE DEF e, v, t, noReq, noStart, noDesign
<1>10. CASE ~noDesign
  <2>1. (t.started /\ ~noStart) = task.started
    BY <1>5, <1>9, <1>10
  <2>2. n = [task EXCEPT !.reqApproval = task.reqApproval, !.startApproval = task.startApproval,
                         !.started = task.started, !.designApproval = task.designApproval]
    BY <1>5, <1>10, <2>1, Zenon
  <2> DEFINE m == [task EXCEPT !.reqApproval = task.reqApproval,
                               !.startApproval = task.startApproval,
                               !.started = task.started, !.designApproval = task.designApproval]
  <2>3. /\ Viewed \subseteq DOMAIN m /\ m.source = task.source /\ m.req = task.req
        /\ m.started = task.started /\ m.paused = task.paused /\ m.cancelled = task.cancelled
        /\ m.cancelRequested = task.cancelRequested /\ m.epoch = task.epoch
        /\ m.design = task.design /\ m.designOpen = task.designOpen
        /\ m.designMode = task.designMode /\ m.designApproval = task.designApproval
    BY <1>2, SMT DEF Viewed, TaskType
  <2>4. Commit(m)
    BY <1>1, <2>2, Zenon
  <2> HIDE DEF m
  <2>5. /\ DesignOf(m) = DesignOf(task) /\ Meant(m)
        /\ (m.cancelled \/ m.cancelRequested) = (task.cancelled \/ task.cancelRequested)
    BY <2>3 DEF DesignOf, Meant
  <2>6. Shows(m, v)
    BY <1>6, <2>3, <2>5, Zenon DEF Shows
  <2> QED BY <2>4, <2>6, CommitAdvances DEF v
<1>11. CASE noDesign
  <2> DEFINE d == DesignOf(n)
             b == t.started /\ ~noStart
             p1 == IF noReq THEN NoProof ELSE t.reqApproval
             p2 == IF noStart THEN NoProof ELSE t.startApproval
             m == [e EXCEPT !.reqApproval = p1, !.startApproval = p2, !.started = b,
                            !.designApproval = NoProof]
  <2>1. n = m
    BY <1>5, <1>11, Zenon
  <2> HIDE DEF b, p1, p2, n
  <2>2. /\ Viewed \subseteq DOMAIN m /\ m.source = task.source /\ m.req = task.req
        /\ m.started = b /\ m.paused = task.paused
        /\ m.cancelled = FALSE /\ m.cancelRequested = FALSE /\ m.epoch = task.epoch + 1
        /\ m.design = task.design /\ m.designOpen = task.designOpen
        /\ m.designMode = task.designMode /\ m.designApproval = NoProof
    BY <1>3, SMT DEF Viewed
  <2> HIDE DEF m
  <2>3. /\ Viewed \subseteq DOMAIN n /\ n.source = task.source /\ n.req = task.req
        /\ n.started = b /\ n.paused = task.paused
        /\ n.cancelled = FALSE /\ n.cancelRequested = FALSE /\ n.epoch = task.epoch + 1
        /\ n.design = task.design /\ n.designOpen = task.designOpen
        /\ n.designMode = task.designMode /\ n.designApproval = NoProof
    BY <2>1, <2>2, Zenon
  <2>4. t.started = task.started
    BY <1>3, <1>5, <1>11
  <2>5. Meant(n) /\ (n.cancelled \/ n.cancelRequested) = FALSE
    BY <1>2, <2>3 DEF Meant
  <2>6. /\ d \in Shared!Designs /\ d \in {v.design, Shared!Unapproved(v.design)}
    BY <1>2, <2>3 DEF DesignOf, Shared!Designs, Shared!Unapproved
  <2>7. ~noStart => d = Shared!Unapproved(v.design) /\ d # v.design
    BY <1>2, <1>7, <1>8, <1>11, <2>3 DEF DesignOf, Shared!Unapproved, Meant
  <2> HIDE DEF d
  <2>8. CASE noStart
    <3> DEFINE w == [v EXCEPT !.approved = FALSE, !.design = d, !.epoch = v.epoch + 1]
    <3>1. Parts(w, v.drafted, FALSE, d, v.paused, v.over, v.epoch + 1)
      BY <1>2, <2>6, TermsParts
    <3>2. w \in Shared!Withdrawals(v)
      BY <2>6, Zenon DEF Shared!Withdrawals
    <3> HIDE DEF w
    <3>3. Shared!Step(v, w)
      BY <1>4, <1>11, <3>2, Zenon DEF Shared!Step
    <3>4. n.started = FALSE
      BY <2>3, <2>8 DEF b
    <3>5. Shows(n, w)
      BY <1>2, <2>3, <2>5, <3>1, <3>4 DEF Shows, Parts, d
    <3> QED BY <1>1, <1>2, <3>3, <3>5, CommitAdvances DEF v
  <2>9. CASE ~noStart
    <3> DEFINE w == [v EXCEPT !.design = d, !.epoch = v.epoch + 1]
    <3>1. Parts(w, v.drafted, v.approved, d, v.paused, v.over, v.epoch + 1)
      BY <1>2, <2>6, TermsParts
    <3>2. w \in Shared!Withdrawals(v)
      BY <2>7, <2>9, Zenon DEF Shared!Withdrawals
    <3> HIDE DEF w
    <3>3. Shared!Step(v, w)
      BY <1>4, <1>11, <3>2, Zenon DEF Shared!Step
    <3>4. n.started = task.started
      BY <1>9, <2>3, <2>4, <2>9 DEF b
    <3>5. Shows(n, w)
      BY <1>2, <2>3, <2>5, <3>1, <3>4 DEF Shows, Parts, d
    <3> QED BY <1>1, <1>2, <3>3, <3>5, CommitAdvances DEF v
  <2> QED BY <2>8, <2>9
<1> QED BY <1>10, <1>11

-----------------------------------------------------------------------------
(* What every operation does to the terms.                                  *)
AlwaysMeant == task # NoTask => Meant(task)

LEMMA ChangesAdvance ==
  ASSUME IInv, AlwaysMeant, [Next]_vars, task' # task
  PROVE  Advances
<1>1. Engine \/ Run
  BY LooksAside DEF Next, World, Write, Disturb, Spoil, ChangeIssue, ChangeWriters, Restart, vars
<1>2. ~Observe
  BY DEF Observe, ObserveSource, ObserveComment
<1>3. CASE task = NoTask
  <2>1. CaptureSource
    BY <1>1, <1>2, <1>3, RunsAreRecorded
       DEF Engine, Operation, HandleComment, Normalize, ProposeDesign, Reconcile, RefreshPolicy,
           ApproveRequirements, Start, ApproveDesign, Amend, Resume, Stop, Cancel, Accepting, Live
  <2> QED BY <1>3, <2>1, FirstAdvances
<1>4. CASE task # NoTask
  <2>1. Meant(task)
    BY <1>4 DEF AlwaysMeant
  <2>2. ASSUME NEW c \in Comments, HandleComment(c)
        PROVE  Advances
    BY <1>4, <2>1, <2>2, ApproveAdvances, DesignAdvances, ControlAdvances, RewrittenAdvances
       DEF HandleComment
  <2> QED BY <1>1, <1>2, <1>4, <2>1, <2>2, CaptureAdvances, RewrittenAdvances, ProposeAdvances,
             ReconcileAdvances, RunAdvances DEF Engine, Operation
<1> QED BY <1>3, <1>4

(* The terms of a task change as the agent loop is prepared for, whoever    *)
(* comments, edits and configures what.                                     *)
THEOREM ImplementsTerms == Spec => SetsTerms
<1>1. Init => Shared!Init /\ AlwaysMeant
  BY DEF Init, Shared!Init, Shared!Fresh, TermsOf, AlwaysMeant
<1>2. IInv /\ AlwaysMeant /\ [Next]_vars => AlwaysMeant' /\ [Shared!Next]_(TermsOf(task))
  <2> SUFFICES ASSUME IInv, AlwaysMeant, [Next]_vars
               PROVE  AlwaysMeant' /\ [Shared!Next]_(TermsOf(task))
    OBVIOUS
  <2>1. CASE task' = task
    BY <2>1 DEF AlwaysMeant, Meant, TermsOf, DesignOf
  <2>2. CASE task' # task
    <3>1. Advances
      BY <2>2, ChangesAdvance
    <3>2. AlwaysMeant'
      BY <3>1 DEF Advances, AlwaysMeant
    <3>3. [Shared!Next]_(TermsOf(task))
      BY <3>1 DEF Advances, Shared!Next
    <3> QED BY <3>2, <3>3
  <2> QED BY <2>1, <2>2
<1> QED BY <1>1, <1>2, Inductive, PTL DEF Spec, SetsTerms, Shared!Spec
=============================================================================
