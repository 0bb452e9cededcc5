--------------------------- MODULE AgentLoopProofs ---------------------------
(***************************************************************************)
(* What holds of the agent loop for all workspaces, budgets and numbers of *)
(* disturbances.                                                           *)
(***************************************************************************)
EXTENDS AgentLoop, TLAPS

Statuses == {"queued", "running", "waiting_human", "blocked", "ready_for_pr"}

(* An agent that is blocked.                                                *)
LEMMA BlockedType ==
  ASSUME NEW a \in AgentType, NEW r \in Reasons
  PROVE  Blocked(a, r) \in AgentType
BY DEF Blocked, AgentType

(* An agent at another stage.                                               *)
LEMMA MovedType ==
  ASSUME NEW a \in AgentType, NEW g \in Stages
  PROVE  Moved(a, g) \in AgentType
BY DEF Moved, AgentType, Reasons

(* Another status.                                                          *)
LEMMA StatusType ==
  ASSUME NEW a \in AgentType, NEW s \in Statuses
  PROVE  [a EXCEPT !.status = s] \in AgentType
BY DEF AgentType, Statuses

(* Another status with its reason.                                          *)
LEMMA ReasonType ==
  ASSUME NEW a \in AgentType, NEW s \in Statuses, NEW r \in Reasons
  PROVE  [a EXCEPT !.status = s, !.reason = r] \in AgentType
BY DEF AgentType, Statuses

(* A step settled.                                                          *)
LEMMA ProgressType ==
  ASSUME NEW a \in AgentType, NEW g \in StepType \cup {None}, NEW i \in Int
  PROVE  [a EXCEPT !.progress = g, !.seconds = i] \in AgentType
BY DEF AgentType

(* A step begun.                                                            *)
LEMMA ReservedType ==
  ASSUME NEW a \in AgentType, NEW g \in StepType, NEW i \in Int
  PROVE  [a EXCEPT !.progress = g, !.seconds = i, !.status = "running", !.reason = "none"]
           \in AgentType
BY DEF AgentType, Reasons

(* A session with its amendments.                                           *)
LEMMA ContextType ==
  ASSUME NEW a \in AgentType, NEW c \in Nat \cup {None}
  PROVE  [a EXCEPT !.context = c] \in AgentType
BY DEF AgentType

(* A repair counted.                                                        *)
LEMMA RepairsType ==
  ASSUME NEW a \in AgentType, NEW n \in Nat
  PROVE  [a EXCEPT !.repairs = n] \in AgentType
BY DEF AgentType

(* The basis of the requirements noted.                                     *)
LEMMA AmendedType ==
  ASSUME NEW a \in AgentType, NEW n \in Nat
  PROVE  [a EXCEPT !.amended = n] \in AgentType
BY DEF AgentType

(* A workspace verified.                                                    *)
LEMMA VerifiedType ==
  ASSUME NEW a \in AgentType, NEW w \in Workspaces
  PROVE  [a EXCEPT !.verified = w] \in AgentType
BY DEF AgentType

(* The fields of the agent.                                                 *)
LEMMA AgentFields ==
  ASSUME NEW a \in AgentType
  PROVE  /\ a.stage \in Stages /\ a.status \in Statuses /\ a.reason \in Reasons
         /\ a.context \in Nat \cup {None} /\ a.progress \in StepType \cup {None}
         /\ a.repairs \in Nat /\ a.seconds \in Int /\ a.amended \in Nat
         /\ a.verified \in Workspaces \cup {None}
BY DEF AgentType, Statuses

(* The fields of the task.                                                  *)
LEMMA TaskFields ==
  ASSUME NEW t \in TaskType
  PROVE  /\ t.drafted \in BOOLEAN /\ t.asked \in Nat /\ t.approved \in BOOLEAN /\ t.paused \in BOOLEAN
         /\ t.over \in BOOLEAN /\ t.epoch \in Nat /\ t.amended \in Nat /\ t.design \in Shared!Designs
         /\ t.fit \in Fits
BY DEF TaskType, Shared!Designs

(* A task n shows the terms v; the rest of it is that of t.                 *)
Shows(n, v) ==
  /\ n \in TaskType /\ v \in Shared!TermsType
  /\ n.drafted = v.drafted /\ n.approved = v.approved /\ n.design = v.design
  /\ n.paused = v.paused /\ n.over = v.over /\ n.epoch = v.epoch
Rest(n, t) == n.asked = t.asked /\ n.amended = t.amended /\ n.fit = t.fit

(* A task has the terms it shows.                                           *)
LEMMA ShownTerms ==
  ASSUME NEW n, NEW v, Shows(n, v)
  PROVE  TermsOf(n) = v
BY SMTT(30) DEF Shows, TermsOf, Shared!TermsType

(* It shows its own.                                                        *)
LEMMA OwnTerms ==
  ASSUME NEW t \in TaskType
  PROVE  Shows(t, TermsOf(t))
BY TaskFields, SMT DEF Shows, TermsOf, Shared!TermsType

(* A change of the task is one of its terms, and leaves the rest.           *)
LEMMA Changes ==
  ASSUME NEW t, NEW v, Shows(t, v), NEW b \in BOOLEAN, NEW d \in Shared!Designs
  PROVE
    /\ Shows(Shared!Reset(t), Shared!Reset(v)) /\ Rest(Shared!Reset(t), t)
    /\ Shows(Shared!Draft(t), Shared!Draft(v)) /\ Rest(Shared!Draft(t), t)
    /\ Shows(Shared!Ended(t), Shared!Ended(v)) /\ Rest(Shared!Ended(t), t)
    /\ Shows(Shared!Paused(t, b), Shared!Paused(v, b)) /\ Rest(Shared!Paused(t, b), t)
    /\ Shows(Shared!DesignApproved(t), Shared!DesignApproved(v)) /\ Rest(Shared!DesignApproved(t), t)
    /\ Shows(Shared!Propose(t, d), Shared!Propose(v, d)) /\ Rest(Shared!Propose(t, d), t)
    /\ Shows([t EXCEPT !.approved = b, !.design = d], [v EXCEPT !.approved = b, !.design = d])
    /\ Rest([t EXCEPT !.approved = b, !.design = d], t)
    /\ Shows([t EXCEPT !.approved = FALSE, !.design = d, !.epoch = t.epoch + 1],
             [v EXCEPT !.approved = FALSE, !.design = d, !.epoch = v.epoch + 1])
    /\ Rest([t EXCEPT !.approved = FALSE, !.design = d, !.epoch = t.epoch + 1], t)
    /\ Shows([t EXCEPT !.design = d, !.epoch = t.epoch + 1], [v EXCEPT !.design = d, !.epoch = v.epoch + 1])
    /\ Rest([t EXCEPT !.design = d, !.epoch = t.epoch + 1], t)
<1>1. /\ "none" \in Shared!Designs /\ "ready" \in Shared!Designs /\ t.epoch = v.epoch
      /\ t.epoch \in Nat /\ t.epoch + 1 \in Nat
  BY TaskFields DEF Shared!Designs, Shows
<1>2. TaskType =
        [drafted : BOOLEAN, asked : Nat, approved : BOOLEAN, paused : BOOLEAN, over : BOOLEAN, epoch : Nat,
         amended : Nat, design : Shared!Designs, fit : Fits]
  BY DEF TaskType, Shared!Designs
<1> USE <1>1, <1>2 DEF Shows, Rest, Shared!TermsType
<1>3. Shows(Shared!Reset(t), Shared!Reset(v)) /\ Rest(Shared!Reset(t), t)
  BY ZenonT(60) DEF Shared!Reset
<1>4. Shows(Shared!Draft(t), Shared!Draft(v)) /\ Rest(Shared!Draft(t), t)
  BY ZenonT(60) DEF Shared!Reset, Shared!Draft
<1>5. Shows(Shared!Ended(t), Shared!Ended(v)) /\ Rest(Shared!Ended(t), t)
  BY ZenonT(60) DEF Shared!Ended
<1>6. Shows(Shared!Paused(t, b), Shared!Paused(v, b)) /\ Rest(Shared!Paused(t, b), t)
  BY ZenonT(60) DEF Shared!Paused
<1>7. Shows(Shared!DesignApproved(t), Shared!DesignApproved(v)) /\ Rest(Shared!DesignApproved(t), t)
  BY ZenonT(60) DEF Shared!DesignApproved
<1>8. Shows(Shared!Propose(t, d), Shared!Propose(v, d)) /\ Rest(Shared!Propose(t, d), t)
  BY ZenonT(60) DEF Shared!Propose
<1>9. /\ Shows([t EXCEPT !.approved = b, !.design = d], [v EXCEPT !.approved = b, !.design = d])
      /\ Rest([t EXCEPT !.approved = b, !.design = d], t)
  BY ZenonT(60)
<1>10. /\ Shows([t EXCEPT !.approved = FALSE, !.design = d, !.epoch = t.epoch + 1],
                [v EXCEPT !.approved = FALSE, !.design = d, !.epoch = v.epoch + 1])
       /\ Rest([t EXCEPT !.approved = FALSE, !.design = d, !.epoch = t.epoch + 1], t)
  BY ZenonT(60)
<1>11. /\ Shows([t EXCEPT !.design = d, !.epoch = t.epoch + 1], [v EXCEPT !.design = d, !.epoch = v.epoch + 1])
       /\ Rest([t EXCEPT !.design = d, !.epoch = t.epoch + 1], t)
  BY ZenonT(60)
<1> QED BY <1>3, <1>4, <1>5, <1>6, <1>7, <1>8, <1>9, <1>10, <1>11, Zenon

(* What is recorded of the task beside its terms: the amendments that were  *)
(* asked for and are there, ...                                             *)
LEMMA Notes ==
  ASSUME NEW t, NEW v, Shows(t, v), NEW k \in Nat
  PROVE
    /\ LET n == [t EXCEPT !.asked = k] IN
       Shows(n, v) /\ n.asked = k /\ n.amended = t.amended /\ n.fit = t.fit
    /\ LET n == [t EXCEPT !.amended = k] IN
       Shows(n, v) /\ n.asked = t.asked /\ n.amended = k /\ n.fit = t.fit
<1> USE DEF Shows, TaskType, Shared!TermsType
<1>1. LET n == [t EXCEPT !.asked = k] IN
      Shows(n, v) /\ n.asked = k /\ n.amended = t.amended /\ n.fit = t.fit
  BY ZenonT(60)
<1>2. LET n == [t EXCEPT !.amended = k] IN
      Shows(n, v) /\ n.asked = t.asked /\ n.amended = k /\ n.fit = t.fit
  BY ZenonT(60)
<1> QED BY <1>1, <1>2, Zenon

(* ... and what fits it, ...                                                *)
LEMMA Refitted ==
  ASSUME NEW t, NEW v, Shows(t, v), NEW f \in Fits
  PROVE  LET n == [t EXCEPT !.fit = f] IN
         Shows(n, v) /\ n.asked = t.asked /\ n.amended = t.amended /\ n.fit = f
BY ZenonT(60) DEF Shows, TaskType, Shared!TermsType

(* ... and a new source, which may be closed.                               *)
LEMMA Recaptured ==
  ASSUME NEW t, NEW v, Shows(t, v), NEW b \in BOOLEAN
  PROVE  LET n == [t EXCEPT !.over = b, !.amended = 0, !.fit = "moved"] IN
         Shows(n, [v EXCEPT !.over = b]) /\ n.asked = t.asked /\ n.amended = 0 /\ n.fit = "moved"
<1>1. 0 \in Nat /\ "moved" \in Fits
  BY DEF Fits
<1> QED BY <1>1, ZenonT(60) DEF Shows, TaskType, Shared!TermsType

(* A disturbance counted.                                                   *)
LEMMA SpentUpdates ==
  ASSUME NEW s \in [people : Nat, outside : Nat, faults : Nat]
  PROVE  /\ [s EXCEPT !.people = @ + 1] \in [people : Nat, outside : Nat, faults : Nat]
         /\ [s EXCEPT !.outside = @ + 1] \in [people : Nat, outside : Nat, faults : Nat]
         /\ [s EXCEPT !.faults = @ + 1] \in [people : Nat, outside : Nat, faults : Nat]
         /\ s.outside \in Nat /\ [s EXCEPT !.people = @ + 1].outside = s.outside
         /\ [s EXCEPT !.outside = @ + 1].outside = s.outside + 1
         /\ [s EXCEPT !.faults = @ + 1].outside = s.outside
OBVIOUS

(* What the guards raise is a reason.                                       *)
LEMMA GuardTypes ==
  ASSUME NEW g, NEW n
  PROVE  Guard(g) \in Reasons /\ GuardSince(g, n) \in Reasons
BY DEF Guard, GuardSince, Reasons, Waiting

(* So is what a place raises.                                               *)
LEMMA VerdictType ==
  ASSUME revoked \in Reasons, pc \in Guarded
  PROVE  Verdict \in Reasons
<1>1. "AGENT_CANCELLED" \in Reasons /\ "none" \in Reasons /\ Cancelled \in Reasons
  BY DEF Reasons, Cancelled
<1>2. \A g, n : Guard(g) \in Reasons /\ GuardSince(g, n) \in Reasons
  BY GuardTypes
<1>3. QED BY <1>1, <1>2 DEF Verdict, Guarded, Or

(* The empty workspace.                                                     *)
LEMMA EmptyType == Empty \in Workspaces /\ {} \in SUBSET Paths
BY WorkspaceType DEF Empty, Workspaces

(* What the checks return.                                                  *)
LEMMA ResultsType ==
  ASSUME NEW ok \in BOOLEAN, NEW v \in Workspaces, NEW w \in Workspaces
  PROVE  [ok |-> ok, digest |-> v, snapshot |-> w] \in CheckType
BY DEF CheckType

(* What is forgotten keeps its type, ...                                    *)
LEMMA ForgetType ==
  ASSUME Forget
  PROVE  /\ seen' \in Workspaces /\ copy' \in Workspaces /\ todo' \in SUBSET Paths
         /\ runEpoch' \in Nat /\ overtaken' \in BOOLEAN
<1>1. seen' = Empty /\ copy' = Empty /\ todo' = {} /\ runEpoch' = 0 /\ overtaken' = FALSE
  BY DEF Forget
<1>2. QED BY <1>1, EmptyType

(* ... at the end of a step as well, ...                                    *)
LEMMA OverType ==
  ASSUME NEW place \in Places, Over(place)
  PROVE  /\ seen' \in Workspaces /\ copy' \in Workspaces /\ todo' \in SUBSET Paths
         /\ runEpoch' \in Nat /\ overtaken' \in BOOLEAN /\ results' \in CheckType \cup {None}
         /\ pc' \in Places /\ left' \in Int
         /\ revoked' \in Reasons /\ ran' \in BOOLEAN
<1>1. /\ results' = None /\ pc' = place /\ revoked' = "none" /\ ran' = FALSE /\ left' = 0 /\ Forget
  BY DEF Over
<1>2. "none" \in Reasons
  BY DEF Reasons
<1>3. ran' \in BOOLEAN
  BY <1>1
<1>4. left' \in Int
  BY <1>1
<1>5. /\ seen' \in Workspaces /\ copy' \in Workspaces /\ todo' \in SUBSET Paths
      /\ runEpoch' \in Nat /\ overtaken' \in BOOLEAN
  BY <1>1, ForgetType
<1>6. results' \in CheckType \cup {None} /\ pc' \in Places /\ revoked' \in Reasons
  BY <1>1, <1>2
<1>7. QED BY <1>3, <1>4, <1>5, <1>6

(* ... and of a tool.                                                       *)
LEMMA ToolDoneType ==
  ASSUME TypeOK, ToolDone
  PROVE  /\ seen' \in Workspaces /\ copy' \in Workspaces /\ todo' \in SUBSET Paths
         /\ runEpoch' \in Nat /\ overtaken' \in BOOLEAN /\ results' \in CheckType \cup {None}
         /\ pc' \in Places /\ left' \in Int /\ owing' \in BOOLEAN
         /\ revoked' \in Reasons /\ ran' \in BOOLEAN
<1>1. pc' \in Places /\ left' \in Int
  BY DEF TypeOK, ToolDone, NextCall, Places
<1>2. owing' = (left # 1)
  BY DEF ToolDone
<1>3. owing' \in BOOLEAN
  BY <1>2
<1>4. results' = None /\ UNCHANGED <<revoked, ran>> /\ Forget
  BY DEF ToolDone
<1>5. revoked' \in Reasons /\ ran' \in BOOLEAN
  BY <1>4 DEF TypeOK
<1>6. QED BY <1>1, <1>3, <1>4, <1>5, ForgetType

(* The end of the command, in the verification or in a tool.                *)
LEMMA ChecksDoneType ==
  ASSUME TypeOK, NEW ok \in BOOLEAN, ChecksDone(ok), agent' \in AgentType, Elsewhere
  PROVE  TypeOK'
<1>1. CASE Stage = "verification"
  <2>1. [ok |-> ok, digest |-> seen, snapshot |-> copy] \in CheckType
    BY ResultsType DEF TypeOK
  <2>2. /\ pc' = "checked" /\ Forget /\ UNCHANGED <<owing, revoked, ran, left>>
        /\ results' = [ok |-> ok, digest |-> seen, snapshot |-> copy]
    BY <1>1 DEF ChecksDone
  <2>3. pc' \in Places /\ results' \in CheckType
    BY <2>1, <2>2 DEF Places
  <2>4. QED BY <2>2, <2>3, ForgetType DEF TypeOK, Elsewhere, history
<1>2. CASE Stage # "verification"
  BY <1>2, ToolDoneType DEF ChecksDone, TypeOK, Elsewhere, history
<1>3. QED BY <1>1, <1>2

-----------------------------------------------------------------------------
(* The invariant.                                                           *)

(* What a step in progress knows of itself.                                 *)
RunPlaces == {"checks", "leased", "copying", "running", "failed", "released"}
Stepping ==
  /\ pc # "idle" => agent.progress # None
  /\ pc \notin {"idle", "down", "done", "settling"} => agent.progress.stage = agent.stage
  /\ pc = "checked" => results # None /\ agent.stage = "verification"
  /\ pc \in {"asked", "text"} => agent.context # None
  /\ pc \in {"normalized", "noted"} => agent.stage = "requirements"
  /\ pc = "reviewed" => agent.stage = "review"

(* Nothing starts again from here without an operator, and resume does not  *)
(* know these reasons.                                                      *)
Lost ==
  \/ pc = "down"
  \/ pc = "idle" /\ agent.progress # None
  \/ pc \in {"idle", "settling"} /\ agent.status = "blocked"
     /\ agent.reason \in {"OTHER", "AGENT_ACTIVE_BUDGET"}

TornLost == torn => Lost

(* Where a request or a tool may be unsettled.                              *)
OwingKept ==
  owing =>
    \/ pc \in {"asked", "calls", "patching"}
    \/ pc \in RunPlaces /\ agent.stage # "verification"
    \/ pc \in {"idle", "settling"} /\ agent.status = "blocked"
    \/ Lost

RepairsCounted ==
  /\ agent.repairs <= Repairs
  /\ released <= agent.repairs + 1
  /\ released > agent.repairs => Lost \/ pc = "released"

(* The lock of the task keeps what the patch was granted for.               *)
PatchInForce ==
  pc = "patching" =>
    task.approved /\ ~task.paused /\ ~task.over /\ agent.progress.epoch = task.epoch

(* So it keeps what the review was granted for; the files it has looked at  *)
(* are the verified ones, unless somebody has changed them since.           *)
ReviewInForce ==
  pc = "reviewed" =>
    /\ looked <= spent.outside /\ (spent.outside = looked => files = agent.verified)
    /\ task.approved /\ agent.progress.epoch = task.epoch

(* A session of the requirements was opened with the amendments there are,  *)
(* of the source the agent was started for.                                 *)
Drafting ==
  agent.stage = "requirements" /\ ~Lost /\ pc \notin {"normalized", "noted"} =>
    /\ ~task.drafted
    /\ agent.context # None /\ task.fit # "moved" => agent.context = task.amended

(* What was observed, what was copied and what is there, as long as nobody  *)
(* can have changed the workspace and changed it back.                      *)
Snapshot ==
  /\ pc \in {"running", "failed", "released"} => todo = {}
  /\ pc \in RunPlaces \ {"checks"} => (spent.outside = 0 => files = seen)
  /\ pc \in RunPlaces \ {"checks", "leased"} /\ spent.outside < 2 /\ files = seen =>
       \A p \in Paths \ todo : copy[p] = seen[p]
  /\ pc = "checked" /\ spent.outside < 2 /\ files = results.digest => results.snapshot = results.digest
  /\ pc = "checked" /\ spent.outside = 0 => files = results.digest
  /\ spent.outside < 2 => tested = agent.verified

IInv ==
  TypeOK /\ Stepping /\ TornLost /\ OwingKept /\ RepairsCounted /\ PatchInForce /\ ReviewInForce
  /\ Drafting /\ RequirementsComplete /\ Snapshot

-----------------------------------------------------------------------------
(* What the guard has seen when it raises nothing.                          *)
LEMMA GuardHolds ==
  ASSUME NEW g, NEW n, GuardSince(g, n) = "none"
  PROVE  /\ ~task.over /\ ~task.paused /\ task.fit = "current" /\ n = task.epoch
         /\ g # "requirements" => task.approved
BY DEF GuardSince, Guard, Approved, Accepting

(* What becomes of the task: its terms take a step, ...                     *)
Advances == ~task.over /\ Shared!Step(TermsOf(task), TermsOf(task'))

(* ... and the requirements stay, ...                                       *)
Held == task' \in TaskType /\ Rest(task', task) /\ task'.drafted = task.drafted

(* ... or go, and with them the amendments they were written from, of which *)
(* a new source has none.                                                   *)
Cleared ==
  /\ task' \in TaskType /\ ~task'.drafted
  /\ task.fit = "moved" => task'.fit = "moved"
  /\ task.drafted \/ task'.fit = "moved" \/ task'.amended = task.amended

(* Approvals are withdrawn where there may be some.                         *)
Revocable == github = "revoked" => task.drafted

(* People grant and take.                                                   *)
LEMMA HeldTask ==
  ASSUME TypeOK, Approve \/ ApproveDesign \/ Stop \/ Unpause \/ End \/ Reconcile
  PROVE  Held /\ (Revocable => Advances)
<1> DEFINE v == TermsOf(task)
<1>1. Shows(task, v)
  BY OwnTerms DEF TypeOK
<1>2. ~task.over
  BY DEF Approve, ApproveDesign, Stop, Unpause, End, Reconcile
<1> HIDE DEF v
<1>3. ASSUME NEW u, Shows(task', u), Rest(task', task), Revocable => Shared!Step(v, u), u.drafted = v.drafted
      PROVE  Held /\ (Revocable => Advances)
  BY <1>1, <1>2, <1>3, ShownTerms DEF Held, Advances, Shows, v
<1>4. CASE Approve
  <2>1. task' \in Shared!Approvals(task) /\ Shared!Approvable(task)
    BY <1>4 DEF Approve, Commit
  <2>2. PICK a \in BOOLEAN, d \in Shared!Chosen(task.design) :
          task' = [task EXCEPT !.approved = a, !.design = d]
    <3> DEFINE G(b, e) == [task EXCEPT !.approved = b, !.design = e]
    <3>1. Shared!Approvals(task) = {G(b, e) : b \in BOOLEAN, e \in Shared!Chosen(task.design)}
      BY DEF Shared!Approvals
    <3> HIDE DEF G
    <3>2. \E b \in BOOLEAN, e \in Shared!Chosen(task.design) : task' = G(b, e)
      BY <2>1, <3>1
    <3> QED BY <3>2 DEF G
  <2>3. d \in Shared!Designs
    BY <2>2, TaskFields DEF Shared!Chosen, Shared!Designs, TypeOK
  <2> DEFINE u == [v EXCEPT !.approved = a, !.design = d]
  <2>4. Shows(task', u) /\ Rest(task', task)
    BY <1>1, <2>2, <2>3, Changes
  <2>5. Shared!Step(v, u) /\ u.drafted = v.drafted
    <3>1. u \in Shared!Approvals(v)
      <4> DEFINE G(b, e) == [v EXCEPT !.approved = b, !.design = e]
      <4>1. Shared!Approvals(v) = {G(b, e) : b \in BOOLEAN, e \in Shared!Chosen(v.design)}
        BY DEF Shared!Approvals
      <4>2. u = G(a, d) /\ task.design = v.design
        BY <1>1 DEF Shows
      <4> HIDE DEF G, u
      <4> QED BY <2>2, <4>1, <4>2
    <3>2. u.drafted = v.drafted
      BY <1>1, Zenon DEF Shows, Shared!TermsType
    <3> HIDE DEF u
    <3> QED BY <1>1, <2>1, <3>1, <3>2 DEF Shared!Step, Shared!Approvable, Shows
  <2> HIDE DEF u
  <2> QED BY <1>3, <2>4, <2>5
<1>5. CASE ApproveDesign
  <2> DEFINE u == Shared!DesignApproved(v)
  <2>1. task' = Shared!DesignApproved(task) /\ Shared!DesignApprovable(task)
    BY <1>5 DEF ApproveDesign, Commit
  <2>2. Shows(task', u) /\ Rest(task', task)
    BY <1>1, <2>1, Changes DEF Shared!Designs
  <2>3. Shared!Step(v, u) /\ u.drafted = v.drafted
    BY <1>1, <2>1, Zenon DEF Shared!Step, Shared!DesignApprovable, Shared!DesignApproved, Shows, Shared!TermsType
  <2> HIDE DEF u
  <2> QED BY <1>3, <2>2, <2>3
<1>6. CASE Stop \/ Unpause
  <2>1. PICK b \in BOOLEAN : task' = Shared!Paused(task, b) /\ (b = TRUE \/ (b = FALSE /\ task.paused))
    BY <1>6 DEF Stop, Unpause, Commit
  <2> DEFINE u == Shared!Paused(v, b)
  <2>2. Shows(task', u) /\ Rest(task', task)
    BY <1>1, <2>1, Changes DEF Shared!Designs
  <2>3. Shared!Step(v, u)
    BY <1>1, <2>1 DEF Shared!Step, Shows
  <2>4. u.drafted = v.drafted
    BY <1>1, Zenon DEF Shared!Paused, Shows, Shared!TermsType
  <2> HIDE DEF u
  <2> QED BY <1>3, <2>2, <2>3, <2>4
<1>7. CASE End
  <2> DEFINE u == Shared!Ended(v)
  <2>1. task' = Shared!Ended(task)
    BY <1>7 DEF End, Commit
  <2>2. Shows(task', u) /\ Rest(task', task)
    BY <1>1, <2>1, Changes DEF Shared!Designs
  <2>3. Shared!Step(v, u)
    BY DEF Shared!Step
  <2>4. u.drafted = v.drafted
    BY <1>1, Zenon DEF Shared!Ended, Shows, Shared!TermsType
  <2> HIDE DEF u
  <2> QED BY <1>3, <2>2, <2>3, <2>4
<1>8. CASE Reconcile
  <2>1. task' \in Shared!Withdrawals(task)
    BY <1>8 DEF Reconcile, Commit
  <2>2. task.design \in Shared!Designs /\ Shared!Unapproved(task.design) \in Shared!Designs
    BY TaskFields DEF TypeOK, Shared!Designs, Shared!Unapproved
  <2>3. CASE task' \in {[task EXCEPT !.approved = FALSE, !.design = d, !.epoch = task.epoch + 1] :
                          d \in {task.design, Shared!Unapproved(task.design)}}
    <3>1. PICK d \in {task.design, Shared!Unapproved(task.design)} :
            task' = [task EXCEPT !.approved = FALSE, !.design = d, !.epoch = task.epoch + 1]
      BY <2>3
    <3> DEFINE u == [v EXCEPT !.approved = FALSE, !.design = d, !.epoch = v.epoch + 1]
    <3>2. Shows(task', u) /\ Rest(task', task)
      BY <1>1, <2>2, <3>1, Changes
    <3>3. u \in Shared!Withdrawals(v)
      BY <1>1, <3>1 DEF Shared!Withdrawals, Shows
    <3>4. u.drafted = v.drafted
      BY <1>1, Zenon DEF Shows, Shared!TermsType
    <3> HIDE DEF u
    <3>5. Revocable => Shared!Step(v, u)
      BY <1>1, <1>8, <3>3 DEF Shared!Step, Shows, Revocable, Reconcile
    <3> QED BY <1>3, <3>2, <3>4, <3>5
  <2>4. CASE task' \in {[task EXCEPT !.design = d, !.epoch = task.epoch + 1] :
                          d \in {Shared!Unapproved(task.design)} \ {task.design}}
    <3>1. PICK d \in {Shared!Unapproved(task.design)} \ {task.design} :
            task' = [task EXCEPT !.design = d, !.epoch = task.epoch + 1]
      BY <2>4
    <3> DEFINE u == [v EXCEPT !.design = d, !.epoch = v.epoch + 1]
    <3>2. Shows(task', u) /\ Rest(task', task)
      BY <1>1, <2>2, <3>1, Changes
    <3>3. u \in Shared!Withdrawals(v)
      BY <1>1, <3>1 DEF Shared!Withdrawals, Shows
    <3>4. u.drafted = v.drafted
      BY <1>1, Zenon DEF Shows, Shared!TermsType
    <3> HIDE DEF u
    <3>5. Revocable => Shared!Step(v, u)
      BY <1>1, <1>8, <3>3 DEF Shared!Step, Shows, Revocable, Reconcile
    <3> QED BY <1>3, <3>2, <3>4, <3>5
  <2> QED BY <2>1, <2>3, <2>4, Zenon DEF Shared!Withdrawals
<1> QED BY <1>4, <1>5, <1>6, <1>7, <1>8

(* Amendments, another source and another policy begin from nothing.        *)
LEMMA ClearedTask ==
  ASSUME TypeOK, Amend \/ Recapture \/ Refresh
  PROVE  Cleared /\ Advances
<1> DEFINE v == TermsOf(task)
           r == Shared!Reset(task)
           w == Shared!Reset(v)
<1>1. Shows(task, v) /\ Shows(r, w) /\ Rest(r, task)
  BY OwnTerms, Changes DEF TypeOK, Shared!Designs
<1>2. ~task.over
  BY DEF Amend, Accepting, Recapture, Refresh
<1>3. /\ w \in Shared!TermsType /\ w.over = v.over /\ w.drafted = FALSE
      /\ [w EXCEPT !.over = w.over] = w
  <2>1. w \in Shared!TermsType
    BY <1>1 DEF Shows
  <2>2. w.over = v.over /\ w.drafted = FALSE
    BY <1>1, Zenon DEF Shows, Shared!TermsType, Shared!Reset
  <2>3. ASSUME NEW x \in Shared!TermsType PROVE [x EXCEPT !.over = x.over] = x
    BY SMT DEF Shared!TermsType
  <2> QED BY <2>1, <2>2, <2>3
<1>4. \A b \in BOOLEAN : Shared!Step(v, [w EXCEPT !.over = b])
  BY DEF Shared!Step
<1>5. \A b \in BOOLEAN : [w EXCEPT !.over = b].drafted = FALSE
  BY <1>3, SMT DEF Shared!TermsType
<1>6. v.over \in BOOLEAN
  BY <1>1 DEF Shows, Shared!TermsType
<1>7. Shared!Step(v, w)
  BY <1>3, <1>4, <1>6
<1> HIDE DEF r, w
<1>8. ASSUME NEW u, Shows(task', u), Shared!Step(v, u), u.drafted = FALSE,
             task.fit = "moved" => task'.fit = "moved",
             task.drafted \/ task'.fit = "moved" \/ task'.amended = task.amended
      PROVE  Cleared /\ Advances
  BY <1>2, <1>8, ShownTerms DEF Cleared, Advances, Shows
<1> HIDE DEF v
<1>9. CASE Amend
  <2>1. task' = [r EXCEPT !.amended = task.amended + 1] /\ task.drafted
    BY <1>9 DEF Amend, Commit, r
  <2>2. task.amended + 1 \in Nat
    BY TaskFields DEF TypeOK
  <2> DEFINE n == [r EXCEPT !.amended = task.amended + 1]
  <2>3. Shows(n, w) /\ n.fit = r.fit
    BY <1>1, <2>2, Notes
  <2> HIDE DEF n
  <2>4. Shows(task', w) /\ task'.fit = task.fit
    BY <1>1, <2>1, <2>3 DEF Rest, n
  <2> QED BY <1>3, <1>7, <1>8, <2>1, <2>4
<1>10. CASE Recapture
  <2>1. PICK b \in BOOLEAN : task' = [r EXCEPT !.over = b, !.amended = 0, !.fit = "moved"]
    BY <1>10 DEF Recapture, Commit, r
  <2> DEFINE n == [r EXCEPT !.over = b, !.amended = 0, !.fit = "moved"]
  <2>2. Shows(n, [w EXCEPT !.over = b]) /\ n.fit = "moved"
    BY <1>1, Recaptured
  <2> HIDE DEF n
  <2>3. Shows(task', [w EXCEPT !.over = b]) /\ task'.fit = "moved"
    BY <2>1, <2>2 DEF n
  <2> QED BY <1>4, <1>5, <1>8, <2>3
<1>11. CASE Refresh
  <2>1. PICK f \in Fits : task' = [r EXCEPT !.fit = f] /\ ((f = "moved") = (task.fit = "moved"))
    BY <1>11 DEF Refresh, Commit, r
  <2> DEFINE n == [r EXCEPT !.fit = f]
  <2>2. Shows(n, w) /\ n.fit = f /\ n.amended = r.amended
    BY <1>1, Refitted
  <2> HIDE DEF n
  <2>3. Shows(task', w) /\ task'.fit = f /\ task'.amended = task.amended
    BY <1>1, <2>1, <2>2 DEF Rest, n
  <2> QED BY <1>3, <1>7, <1>8, <2>1, <2>3
<1> QED BY <1>9, <1>10, <1>11

(* Whatever people do, the task is kept, granted to or taken back.          *)
LEMMA PeopleTask ==
  ASSUME TypeOK, People
  PROVE  \/ Held /\ (Revocable => Advances)
         \/ Cleared /\ Advances
         \/ UNCHANGED task
<1>1. CASE OtherCommit \/ Stand
  BY <1>1 DEF OtherCommit, Stand, Commit
<1> QED BY <1>1, HeldTask, ClearedTask DEF People

(* The step of the agent writes what it was asked for while it is in force. *)
LEMMA WrittenTask ==
  ASSUME TypeOK, Stepping
  PROVE  /\ ProposeDesign => Held /\ Advances
         /\ Normalize =>
              /\ task' \in TaskType /\ Advances /\ task'.drafted
              /\ task'.asked = agent.context /\ task'.amended = task.amended
              /\ task.fit = "current" /\ task'.fit = "current"
<1> DEFINE v == TermsOf(task)
<1>1. Shows(task, v)
  BY OwnTerms DEF TypeOK
<1> HIDE DEF v
<1>2. ASSUME NEW g, Granted("text"), Stage = g
      PROVE  ~task.over /\ task.fit = "current" /\ (g # "requirements" => task.approved)
  <2>1. GuardSince(g, agent.progress.epoch) = "none"
    BY <1>2 DEF Granted, Verdict, Stage
  <2> QED BY <2>1, GuardHolds
<1>3. ASSUME ProposeDesign PROVE Held /\ Advances
  <2>1. PICK d \in {"open", "proposed", "ready"} : task' = Shared!Propose(task, d)
    BY <1>3 DEF ProposeDesign
  <2>2. ~task.over /\ task.approved
    BY <1>2, <1>3 DEF ProposeDesign
  <2>3. d \in Shared!Designs \ {"none"}
    BY DEF Shared!Designs
  <2> DEFINE u == Shared!Propose(v, d)
  <2>4. Shows(task', u) /\ Rest(task', task)
    BY <1>1, <2>1, <2>3, Changes
  <2>5. Shared!Step(v, u)
    BY <1>1, <2>2, <2>3 DEF Shared!Step, Shows
  <2>6. u.drafted = v.drafted
    BY <1>1, Zenon DEF Shared!Propose, Shows, Shared!TermsType
  <2> HIDE DEF u
  <2> QED BY <1>1, <2>2, <2>4, <2>5, <2>6, ShownTerms DEF Held, Advances, Shows, v
<1>4. ASSUME Normalize
      PROVE  /\ task' \in TaskType /\ Advances /\ task'.drafted
             /\ task'.asked = agent.context /\ task'.amended = task.amended
             /\ task.fit = "current" /\ task'.fit = "current"
  <2> DEFINE r == Shared!Draft(task)
             w == Shared!Draft(v)
             n == [r EXCEPT !.asked = agent.context]
  <2>1. agent.context \in Nat
    BY <1>4, AgentFields DEF Normalize, Granted, Stepping, TypeOK
  <2>2. ~task.over /\ task.fit = "current"
    BY <1>2, <1>4 DEF Normalize
  <2>3. Shows(r, w) /\ Rest(r, task)
    BY <1>1, Changes DEF Shared!Designs
  <2>4. /\ Shared!Step(v, w) /\ task' = n
        /\ w.drafted = TRUE
    <3>1. w.drafted = TRUE
      BY <1>1, Zenon DEF Shared!Draft, Shared!Reset, Shows, Shared!TermsType
    <3> QED BY <1>4, <3>1 DEF Shared!Step, Normalize
  <2> HIDE DEF r, w
  <2>5. Shows(n, w) /\ n.asked = agent.context /\ n.amended = r.amended /\ n.fit = r.fit
    BY <2>1, <2>3, Notes
  <2> HIDE DEF n
  <2>6. TermsOf(task') = w /\ task' \in TaskType /\ task'.drafted = TRUE
    BY <2>4, <2>5, ShownTerms DEF Shows
  <2> QED BY <2>2, <2>3, <2>4, <2>5, <2>6 DEF Advances, Rest, v
<1> QED BY <1>3, <1>4

(* Every step keeps the types.                                              *)
LEMMA TypeStep ==
  ASSUME TypeOK, Stepping, [Next]_vars
  PROVE  TypeOK'
<1> USE DEF vars, loop, memory, history
<1>1. /\ agent.repairs \in Nat /\ agent.seconds \in Int /\ agent.stage \in Stages /\ agent.reason \in Reasons
      /\ agent.status \in Statuses /\ agent.progress \in StepType \cup {None}
      /\ task.epoch \in Nat /\ task.amended \in Nat
  BY AgentFields, TaskFields DEF TypeOK
<1>2. /\ "none" \in Reasons /\ "OTHER" \in Reasons /\ "AGENT_ACTIVE_BUDGET" \in Reasons
      /\ "AGENT_CANCELLED" \in Reasons /\ "AGENT_RECOVERY_REQUIRED" \in Reasons /\ "RUN_STOPPED" \in Reasons
  BY DEF Reasons
<1>3. Statuses = {"queued", "running", "waiting_human", "blocked", "ready_for_pr"} /\ None \in StepType \cup {None}
  BY DEF Statuses
<1>4. /\ Stages = {"requirements", "design", "implementation", "test_generation", "verification", "review"}
      /\ Writing = {"implementation", "test_generation"}
  BY DEF Stages, Writing
<1>5. Taken \in AgentType
  BY MovedType, <1>4 DEF Taken, TypeOK
<1>6. Taken.stage \in Stages /\ Taken.seconds \in Int
  BY <1>5, AgentFields
<1>7. /\ task.epoch + 1 \in Nat /\ task.amended + 1 \in Nat /\ agent.repairs + 1 \in Nat
      /\ released + 1 \in Nat /\ left - 1 \in Int /\ \A g : Reserved(g) \in Int
  BY <1>1 DEF TypeOK, Reserved
<1>8. CASE RefuseRefresh
  BY <1>8, <1>2, BlockedType, GuardTypes
  DEF RefuseRefresh, TypeOK, Elsewhere, Or
<1>9. CASE Wait
  BY <1>9, <1>1, <1>2, <1>3, <1>4, <1>5, <1>6, <1>7, ReasonType, GuardTypes
  DEF Wait, TypeOK, Elsewhere
<1>10. CASE Exhaust
  BY <1>10, <1>2, <1>5, BlockedType
  DEF Exhaust, TypeOK, Elsewhere
<1>11. CASE Reserve
  <2>1. [stage |-> Taken.stage, epoch |-> task.epoch] \in StepType
    BY <1>1, <1>6 DEF StepType
  <2>2. Taken.seconds + Reserved(Taken.stage) \in Int
    BY <1>6, <1>7
  <2>3. agent' \in AgentType
    BY <1>11, <1>5, <2>1, <2>2, ReservedType DEF Reserve
  <2>4. QED BY <1>11, <2>3 DEF Reserve, TypeOK, Elsewhere, Place, Places
<1>12. CASE Refused
  BY <1>12, BlockedType, VerdictType
  DEF Refused, TypeOK, Elsewhere, Place, Fail, Places
<1>13. CASE Breaks
  BY <1>13, <1>2, BlockedType
  DEF Breaks, TypeOK, Place, Fail, Or, Cancelled, Places
<1>14. CASE Ask
  BY <1>14, <1>1, ContextType, AgentFields
  DEF Ask, TypeOK, Elsewhere, Place, Places
<1>15. CASE Answer
  <2>1. left' \in Int /\ pc' \in Places
    BY <1>15, LimitsType DEF Answer, TypeOK, Places
  <2>2. owing' \in BOOLEAN
    BY <1>15 DEF Answer, TypeOK
  <2>3. QED BY <1>15, <2>1, <2>2 DEF Answer, TypeOK, Elsewhere
<1>16. CASE Read
  BY <1>16, <1>7, EmptyType
  DEF Read, TypeOK, Elsewhere, ToolDone, Forget, NextCall, Places
<1>17. CASE Patch
  BY <1>17
  DEF Patch, TypeOK, Elsewhere, Places
<1>18. CASE Patched
  BY <1>18, <1>7, EmptyType
  DEF Patched, TypeOK, Elsewhere, ToolDone, Forget, NextCall, Places
<1>19. CASE RunChecks
  BY <1>19
  DEF RunChecks, TypeOK, Elsewhere, Place, Places
<1>20. CASE Lease
  BY <1>20, <1>1
  DEF Lease, TypeOK, Elsewhere, Places
<1>21. CASE Prepare
  BY <1>21, EmptyType
  DEF Prepare, TypeOK, Elsewhere, Places, Present
<1>22. CASE ReserveRun
  BY <1>22
  DEF ReserveRun, TypeOK, Elsewhere, Places
<1>23. CASE RunEnds
  <2>1. CASE files # seen /\ Fail("OTHER") /\ UNCHANGED owing /\ Place
    BY <1>23, <1>2, <2>1, BlockedType DEF RunEnds, TypeOK, Elsewhere, Place, Fail, Places
  <2>2. CASE Stopped /\ Fail(StoppedFor) /\ UNCHANGED owing /\ Place
    <3>1. StoppedFor \in Reasons
      BY <1>2 DEF StoppedFor
    <3>2. QED BY <1>23, <2>2, <3>1, BlockedType DEF RunEnds, TypeOK, Elsewhere, Place, Fail, Places
  <2>3. CASE RunSucceeds
    BY <1>23, <2>3, ChecksDoneType DEF RunEnds, RunSucceeds, TypeOK
  <2>4. CASE RunFails
    BY <1>23, <2>4 DEF RunEnds, RunFails, TypeOK, Elsewhere, Place, Places
  <2>5. QED BY <1>23, <2>1, <2>2, <2>3, <2>4 DEF RunEnds
<1>24. CASE PrepareRepair
  BY <1>24
  DEF PrepareRepair, TypeOK, Place, Places
<1>25. CASE ConsumeRepair
  <2>1. CASE agent' = [agent EXCEPT !.repairs = @ + 1] /\ ChecksDone(FALSE)
    <3>1. agent' \in AgentType
      BY <1>7, <2>1, RepairsType DEF TypeOK
    <3>2. QED BY <1>25, <2>1, <3>1, ChecksDoneType DEF ConsumeRepair
  <2>2. CASE Fail("OTHER") /\ UNCHANGED owing /\ Place
    BY <1>25, <1>2, <2>2, BlockedType DEF ConsumeRepair, TypeOK, Elsewhere, Place, Fail, Places
  <2>3. QED BY <1>25, <2>1, <2>2 DEF ConsumeRepair
<1>26. CASE Checked
  <2>1. agent' \in AgentType /\ tested' \in Workspaces \cup {None}
    <3>1. CASE agent' = Moved(agent, "implementation") /\ UNCHANGED tested
      BY <1>4, <3>1, MovedType DEF TypeOK
    <3>2. CASE /\ agent' = Moved([agent EXCEPT !.verified = files], "review") /\ tested' = results.snapshot
               /\ results \in CheckType
      <4>1. [agent EXCEPT !.verified = files] \in AgentType
        BY VerifiedType DEF TypeOK
      <4>2. QED BY <1>4, <3>2, <4>1, MovedType DEF CheckType
    <3>3. QED BY <1>26, <3>1, <3>2 DEF Checked, Granted, Stepping, TypeOK
  <2>2. QED BY <1>26, <2>1 DEF Checked, TypeOK, Place, Places
<1>27. CASE Normalize
  <2>1. task' \in TaskType
    BY <1>27, WrittenTask
  <2>2. QED BY <1>27, <2>1 DEF Normalize, TypeOK, Place, Places
<1>28. CASE NoteBasis
  BY <1>28, <1>1, AmendedType
  DEF NoteBasis, TypeOK, Elsewhere, Place, Places
<1>29. CASE LeaveRequirements
  BY <1>29, <1>4, MovedType
  DEF LeaveRequirements, TypeOK, Elsewhere, Place, Places
<1>30. CASE ProposeDesign
  <2>1. task' \in TaskType
    BY <1>30, WrittenTask DEF Held
  <2>2. agent' \in AgentType
    BY <1>4, <1>30, MovedType DEF ProposeDesign, TypeOK
  <2>3. QED BY <1>30, <2>1, <2>2 DEF ProposeDesign, TypeOK, Place, Places
<1>31. CASE Implemented
  BY <1>31, <1>4, MovedType
  DEF Implemented, TypeOK, Elsewhere, Place, Places
<1>32. CASE Review \/ Ready \/ CountFindings \/ RepairFindings
  <2>1. CASE Review
    BY <2>1 DEF Review, TypeOK, Place, Places
  <2>2. CASE Ready
    BY <2>2, <1>3, StatusType DEF Ready, TypeOK, Elsewhere, Place, Places
  <2>3. CASE CountFindings
    BY <2>3, <1>7, RepairsType DEF CountFindings, TypeOK, Elsewhere, Place, Places
  <2>4. CASE RepairFindings
    BY <2>4, <1>4, MovedType DEF RepairFindings, TypeOK, Elsewhere, Place, Places
  <2> QED BY <1>32, <2>1, <2>2, <2>3, <2>4
<1>33. CASE Complete
  BY <1>33, <1>1, <1>3, StatusType
  DEF Complete, TypeOK, Elsewhere, Place, Places
<1>34. CASE Settle
  <2>1. PICK elapsed \in {1, ActiveSeconds + 1} :
          LET used == agent.seconds + elapsed - Reserved(Stage)
              settled == [agent EXCEPT !.progress = None, !.seconds = used]
          IN agent' = IF used > ActiveSeconds THEN Blocked(settled, "AGENT_ACTIVE_BUDGET") ELSE settled
    BY <1>34 DEF Settle
  <2> DEFINE used == agent.seconds + elapsed - Reserved(Stage)
             settled == [agent EXCEPT !.progress = None, !.seconds = used]
  <2>2. used \in Int
    BY <1>1, <1>7, LimitsType
  <2>3. settled \in AgentType
    BY <1>3, <2>2, ProgressType DEF TypeOK
  <2>4. agent' \in AgentType
    <3>1. Blocked(settled, "AGENT_ACTIVE_BUDGET") \in AgentType
      BY <1>2, <2>3, BlockedType
    <3> HIDE DEF settled, used
    <3>2. agent' = IF used > ActiveSeconds THEN Blocked(settled, "AGENT_ACTIVE_BUDGET") ELSE settled
      BY <2>1 DEF settled, used
    <3>3. QED BY <2>3, <3>1, <3>2
  <2>5. Over("idle") /\ "idle" \in Places /\ UNCHANGED owing /\ Elsewhere
    BY <1>34 DEF Settle, Places
  <2>6. QED BY <2>4, <2>5, OverType DEF TypeOK, Elsewhere
<1>35. CASE Watch
  BY <1>35, GuardTypes
  DEF Watch, TypeOK, Revoke
<1>36. CASE Cancel \/ Expire
  BY <1>36, <1>2, SpentUpdates
  DEF Cancel, Expire, TypeOK, Revoke, Fault
<1>37. CASE Crash
  <2>1. spent' \in [people : Nat, outside : Nat, faults : Nat]
    BY <1>37 DEF Crash, Fault, TypeOK
  <2>2. torn' \in BOOLEAN
    <3>1. torn' = (torn \/ pc = "patching")
      BY <1>37 DEF Crash
    <3>2. QED BY <3>1
  <2>3. /\ Over("down") /\ "down" \in Places
        /\ UNCHANGED <<task, github, agent, owing, files, released, tested, looked>>
    BY <1>37 DEF Crash, Places
  <2>4. QED BY <2>1, <2>2, <2>3, OverType DEF TypeOK
<1>38. CASE Recover
  BY <1>38, <1>2, BlockedType
  DEF Recover, TypeOK, Elsewhere, Place, Places
<1>39. CASE ResumeStep
  BY <1>39, <1>1, <1>2, <1>3, <1>4, <1>5, <1>6, <1>7, ReasonType
  DEF ResumeStep, TypeOK, Elsewhere
<1>40. CASE People
  <2>1. task' \in TaskType
    BY <1>40, PeopleTask DEF Held, Cleared, TypeOK
  <2>2. spent' \in [people : Nat, outside : Nat, faults : Nat]
    BY <1>40, SpentUpdates
    DEF People, Approve, ApproveDesign, Amend, Stop, Unpause, End, OtherCommit, Stand, Reconcile, Recapture,
        Refresh, Person, TypeOK
  <2>3. github' \in Agreements
    BY <1>40
    DEF People, Approve, ApproveDesign, Amend, Stop, Unpause, End, OtherCommit, Stand, Reconcile, Recapture,
        Refresh, Commit, Agreements, TypeOK
  <2>4. /\ overtaken' \in BOOLEAN
        /\ UNCHANGED <<agent, owing, files, pc, revoked, seen, copy, todo, runEpoch, results, ran, left, history>>
    BY <1>40
    DEF People, Approve, ApproveDesign, Amend, Stop, Unpause, End, OtherCommit, Stand, Reconcile, Recapture,
        Refresh, Commit, TypeOK
  <2>5. QED BY <2>1, <2>2, <2>3, <2>4 DEF TypeOK
<1>48. CASE Tamper
  BY <1>48, SpentUpdates
  DEF Tamper, TypeOK, Workspaces
<1>49. CASE \E p \in Paths : Write(p)
  BY <1>49 DEF Write, TypeOK, Workspaces
<1>50. CASE \E p \in Paths : Copy(p)
  BY <1>50 DEF Copy, TypeOK, Workspaces, Elsewhere
<1>51. CASE UNCHANGED vars
  BY <1>51 DEF TypeOK
<1>52. QED
  BY <1>8, <1>9, <1>10, <1>11, <1>12, <1>13, <1>14, <1>15, <1>16, <1>17, <1>18, <1>19, <1>20,
     <1>21, <1>22, <1>23, <1>24, <1>25, <1>26, <1>27, <1>28, <1>29, <1>30, <1>31, <1>32, <1>33,
     <1>34, <1>35, <1>36, <1>37, <1>38, <1>39, <1>40, <1>48, <1>49, <1>50, <1>51
  DEF Next, Driver, Step

-----------------------------------------------------------------------------
(* What the steps do to the agent, field by field.                          *)
LEMMA BlockedFields ==
  ASSUME NEW a \in AgentType, NEW r \in Reasons
  PROVE  /\ Blocked(a, r).status = "blocked" /\ Blocked(a, r).reason = r
         /\ Blocked(a, r).stage = a.stage /\ Blocked(a, r).context = a.context
         /\ Blocked(a, r).progress = a.progress /\ Blocked(a, r).repairs = a.repairs
         /\ Blocked(a, r).verified = a.verified
BY DEF Blocked, AgentType

(* Another stage has no session yet.                                        *)
LEMMA MovedFields ==
  ASSUME NEW a \in AgentType, NEW g \in Stages
  PROVE  /\ Moved(a, g).status = "queued" /\ Moved(a, g).reason = "none"
         /\ Moved(a, g).stage = g /\ Moved(a, g).context = None
         /\ Moved(a, g).progress = a.progress /\ Moved(a, g).repairs = a.repairs
         /\ Moved(a, g).verified = a.verified
BY DEF Moved, AgentType

(* An agent taken back to its requirements loses nothing else.              *)
LEMMA TakenFields ==
  ASSUME TypeOK
  PROVE  /\ Taken \in AgentType /\ Taken.progress = agent.progress /\ Taken.repairs = agent.repairs
         /\ Taken.verified = agent.verified
         /\ NeedsRefresh => Taken.stage = "requirements" /\ Taken.context = None
         /\ ~NeedsRefresh => Taken = agent
<1>1. "requirements" \in Stages /\ agent \in AgentType
  BY DEF Stages, TypeOK
<1>2. QED BY <1>1, MovedType, MovedFields DEF Taken

(* A place of a step raises.                                                *)
Failing ==
  /\ pc \in Breakable \cup {"released"}
  /\ \E r \in Reasons :
       /\ agent' = Blocked(agent, r)
       /\ pc \in {"patching", "released"} => r = "OTHER"
  /\ pc' = "settling"
  /\ pc # "patching" => UNCHANGED torn
  /\ UNCHANGED <<memory, task, github, files, released, tested, spent>>

(* What raises an error blocks the agent and ends the step.                 *)
LEMMA FailCases ==
  ASSUME TypeOK
  PROVE  /\ Refused \/ Breaks => Failing
         /\ RunEnds => \/ Failing
                       \/ pc = "running" /\ files = seen /\ (RunSucceeds \/ RunFails) /\ Elsewhere
         /\ ConsumeRepair =>
              \/ Failing
              \/ /\ pc = "released" /\ agent.repairs < Repairs /\ Elsewhere
                 /\ agent' = [agent EXCEPT !.repairs = @ + 1] /\ ChecksDone(FALSE)
<1> USE DEF history, memory
<1>1. "OTHER" \in Reasons /\ Cancelled \in Reasons /\ StoppedFor \in Reasons
  BY DEF Reasons, Cancelled, StoppedFor
<1>2. ASSUME Refused PROVE Failing
  <2>1. Verdict \in Reasons
    BY <1>2, VerdictType DEF Refused, TypeOK
  <2>2. pc \in Breakable /\ pc \notin {"patching", "released"}
    BY <1>2 DEF Refused, Guarded, Breakable, Places
  <2>3. /\ agent' = Blocked(agent, Verdict) /\ pc' = "settling"
        /\ UNCHANGED <<memory, task, github, files, history, spent>>
    BY <1>2 DEF Refused, Fail, Place, Elsewhere
  <2>4. \E r \in Reasons : agent' = Blocked(agent, r) /\ (pc \in {"patching", "released"} => r = "OTHER")
    BY <2>1, <2>2, <2>3
  <2>5. UNCHANGED torn /\ UNCHANGED <<memory, task, github, files, released, tested, spent>>
    BY <2>3
  <2>6. QED BY <2>2, <2>3, <2>4, <2>5 DEF Failing
<1>3. ASSUME Breaks PROVE Failing
  <2>1. Or(Cancelled, "OTHER") \in Reasons
    BY <1>1 DEF Or
  <2>2. pc # "patching" => UNCHANGED torn
    <3>1. torn' = (torn \/ pc = "patching")
      BY <1>3 DEF Breaks
    <3>2. QED BY <3>1 DEF TypeOK
  <2>3. pc \in Breakable /\ pc' = "settling"
        /\ UNCHANGED <<memory, task, github, files, released, tested, spent>>
    BY <1>3 DEF Breaks, Fail, Place
  <2>4. \E r \in Reasons : /\ agent' = Blocked(agent, r)
                           /\ pc \in {"patching", "released"} => r = "OTHER"
    BY <1>1, <1>3, <2>1 DEF Breaks, Fail
  <2>5. QED BY <2>2, <2>3, <2>4 DEF Failing
<1>4. ASSUME RunEnds
      PROVE  \/ Failing
             \/ pc = "running" /\ files = seen /\ (RunSucceeds \/ RunFails) /\ Elsewhere
  <2>1. pc = "running" /\ pc \in Breakable
    BY <1>4 DEF RunEnds, Breakable, Places
  <2>2. QED BY <1>1, <1>4, <2>1 DEF RunEnds, Failing, Fail, Place, Elsewhere
<1>5. ASSUME ConsumeRepair
      PROVE  \/ Failing
             \/ /\ pc = "released" /\ agent.repairs < Repairs /\ Elsewhere
                /\ agent' = [agent EXCEPT !.repairs = @ + 1] /\ ChecksDone(FALSE)
  BY <1>1, <1>5 DEF ConsumeRepair, Failing, Fail, Place, Elsewhere
<1>6. QED BY <1>2, <1>3, <1>4, <1>5

(* What a failed step leaves of the agent.                                  *)
LEMMA FailFields ==
  ASSUME TypeOK, Failing
  PROVE  /\ agent'.status = "blocked" /\ agent'.stage = agent.stage /\ agent'.context = agent.context
         /\ agent'.progress = agent.progress /\ agent'.repairs = agent.repairs
         /\ agent'.verified = agent.verified
         /\ pc \in {"patching", "released"} => agent'.reason = "OTHER"
BY BlockedFields DEF Failing, TypeOK

(* The command has ended: the verification, or a tool.                      *)
Ended ==
  /\ pc \in {"running", "released"}
  /\ agent'.stage = agent.stage /\ agent'.progress = agent.progress /\ agent'.context = agent.context
  /\ agent'.verified = agent.verified /\ agent'.status = agent.status /\ agent'.reason = agent.reason
  /\ pc = "running" => files = seen /\ agent'.repairs = agent.repairs
  /\ pc = "released" => agent.repairs < Repairs /\ agent'.repairs = agent.repairs + 1
  /\ \/ /\ Stage = "verification" /\ pc' = "checked" /\ UNCHANGED owing
        /\ results' # None /\ results'.digest = seen /\ results'.snapshot = copy
     \/ Stage # "verification" /\ ToolDone
  /\ Elsewhere

(* What the end of the command returns.                                     *)
LEMMA EndedCases ==
  ASSUME TypeOK,
         \/ pc = "running" /\ files = seen /\ RunSucceeds /\ Elsewhere
         \/ /\ pc = "released" /\ agent.repairs < Repairs /\ Elsewhere
            /\ agent' = [agent EXCEPT !.repairs = @ + 1] /\ ChecksDone(FALSE)
  PROVE  Ended
<1>1. ASSUME NEW ok \in BOOLEAN, ChecksDone(ok), Elsewhere
      PROVE  \/ /\ Stage = "verification" /\ pc' = "checked" /\ UNCHANGED owing
                /\ results' # None /\ results'.digest = seen /\ results'.snapshot = copy
             \/ Stage # "verification" /\ ToolDone
  <2>1. [ok |-> ok, digest |-> seen, snapshot |-> copy] # None
    BY ResultsType, NoneType DEF TypeOK
  <2>2. QED BY <1>1, <2>1 DEF ChecksDone
<1>2. CASE pc = "running" /\ files = seen /\ RunSucceeds /\ Elsewhere
  BY <1>1, <1>2 DEF Ended, RunSucceeds
<1>3. CASE /\ pc = "released" /\ agent.repairs < Repairs /\ Elsewhere
           /\ agent' = [agent EXCEPT !.repairs = @ + 1] /\ ChecksDone(FALSE)
  <2>1. /\ agent'.stage = agent.stage /\ agent'.progress = agent.progress /\ agent'.context = agent.context
        /\ agent'.verified = agent.verified /\ agent'.status = agent.status /\ agent'.reason = agent.reason
        /\ agent'.repairs = agent.repairs + 1
    BY <1>3 DEF TypeOK, AgentType
  <2>2. QED BY <1>1, <1>3, <2>1 DEF Ended
<1>4. QED BY <1>2, <1>3

-----------------------------------------------------------------------------
(* What each step does, as far as the invariant reads it.                   *)
Same ==
  /\ agent'.stage = agent.stage /\ agent'.progress = agent.progress /\ agent'.context = agent.context
  /\ agent'.repairs = agent.repairs /\ agent'.verified = agent.verified

(* The model is asked, with a session of its own or the one there is.       *)
Asking ==
  /\ pc = "begin" /\ pc' = "asked" /\ Place /\ Elsewhere
  /\ agent'.stage = agent.stage /\ agent'.progress = agent.progress
  /\ agent'.repairs = agent.repairs /\ agent'.verified = agent.verified
  /\ agent'.status = agent.status
  /\ agent'.context # None
  /\ agent'.context \in {agent.context, task.amended}

(* A new session notes the amendments there are.                            *)
LEMMA AskFields ==
  ASSUME TypeOK, Ask
  PROVE  Asking
<1>1. agent' = [agent EXCEPT !.context = IF agent.context = None THEN task.amended ELSE agent.context]
  BY DEF Ask
<1>2. task.amended # None
  BY NoneType, TaskFields DEF TypeOK
<1>3. QED BY <1>1, <1>2 DEF Asking, Ask, Granted, TypeOK, AgentType

(* A step begins.                                                           *)
Starting ==
  /\ Scheduled /\ ~RefreshRefused /\ pc' = "begin" /\ UNCHANGED owing /\ Place /\ Elsewhere
  /\ agent'.stage = Taken.stage /\ agent'.context = Taken.context
  /\ agent'.progress # None /\ agent'.progress.stage = agent'.stage
  /\ agent'.repairs = agent.repairs /\ agent'.verified = agent.verified
  /\ agent'.status = "running"

(* A step begins at the stage that is taken.                                *)
LEMMA ReserveFields ==
  ASSUME TypeOK, Reserve
  PROVE  Starting
<1> DEFINE step == [stage |-> Taken.stage, epoch |-> task.epoch]
<1>1. Taken \in AgentType /\ Taken.repairs = agent.repairs /\ Taken.verified = agent.verified
  BY TakenFields
<1>2. step \in StepType
  BY <1>1, AgentFields, TaskFields DEF StepType, TypeOK
<1>3. step # None /\ step.stage = Taken.stage
  BY <1>2, NoneType
<1> HIDE DEF step
<1>4. agent' = [Taken EXCEPT !.progress = step, !.seconds = Taken.seconds + Reserved(Taken.stage),
                             !.status = "running", !.reason = "none"]
  BY DEF Reserve, step
<1>5. /\ agent'.stage = Taken.stage /\ agent'.context = Taken.context /\ agent'.progress = step
      /\ agent'.repairs = Taken.repairs /\ agent'.verified = Taken.verified
      /\ agent'.status = "running"
  BY <1>1, <1>4 DEF AgentType
<1>6. QED BY <1>1, <1>3, <1>5 DEF Reserve, Starting

(* The driver blocks, waits or gives up.                                    *)
Idling ==
  /\ Scheduled /\ UNCHANGED <<owing, loop>> /\ Elsewhere
  /\ agent'.progress = agent.progress /\ agent'.repairs = agent.repairs
  /\ agent'.verified = agent.verified /\ agent'.status # "ready_for_pr"
  /\ \/ agent'.stage = agent.stage /\ agent'.context = agent.context
     \/ NeedsRefresh /\ agent'.stage = "requirements" /\ agent'.context = None
  /\ agent'.status = "blocked" \/ ~RefreshRefused

(* What the driver does without a step.                                     *)
LEMMA DriverFields ==
  ASSUME TypeOK, RefuseRefresh \/ Wait \/ Exhaust
  PROVE  Idling
<1>1. /\ Taken \in AgentType /\ Taken.progress = agent.progress /\ Taken.repairs = agent.repairs
      /\ Taken.verified = agent.verified
      /\ NeedsRefresh => Taken.stage = "requirements" /\ Taken.context = None
      /\ ~NeedsRefresh => Taken = agent
  BY TakenFields
<1>2. "OTHER" \in Reasons /\ "AGENT_ACTIVE_BUDGET" \in Reasons
  BY DEF Reasons
<1>3. CASE RefuseRefresh
  <2>1. Or(Guard("requirements"), "OTHER") \in Reasons
    BY <1>2, GuardTypes DEF Or
  <2>2. QED BY <1>3, <2>1, BlockedFields DEF RefuseRefresh, TypeOK, Idling
<1>4. CASE Wait
  <2>1. PICK st \in {"waiting_human", "blocked"} :
          \E reason : agent' = [Taken EXCEPT !.status = st, !.reason = reason]
    BY <1>4 DEF Wait
  <2>2. /\ agent'.stage = Taken.stage /\ agent'.context = Taken.context /\ agent'.progress = Taken.progress
        /\ agent'.repairs = Taken.repairs /\ agent'.verified = Taken.verified
        /\ agent'.status \in {"waiting_human", "blocked"}
    BY <1>1, <2>1 DEF AgentType
  <2>3. QED BY <1>1, <1>4, <2>2 DEF Wait, Idling
<1>5. CASE Exhaust
  <2>1. agent' = Blocked(Taken, "AGENT_ACTIVE_BUDGET")
    BY <1>5 DEF Exhaust
  <2>2. /\ agent'.stage = Taken.stage /\ agent'.context = Taken.context /\ agent'.progress = Taken.progress
        /\ agent'.repairs = Taken.repairs /\ agent'.verified = Taken.verified
        /\ agent'.status = "blocked"
    BY <1>1, <1>2, <2>1, BlockedFields
  <2>3. QED BY <1>1, <1>5, <2>2 DEF Exhaust, Idling
<1>6. QED BY <1>3, <1>4, <1>5

(* The step goes on from one place to the next.                             *)
Inside ==
  \/ Answer \/ Read \/ Patch \/ Patched \/ (\E p \in Paths : Write(p)) \/ (\E p \in Paths : Copy(p))
  \/ RunChecks \/ Lease \/ Prepare \/ ReserveRun
  \/ pc = "running" /\ files = seen /\ RunFails /\ Elsewhere
  \/ PrepareRepair

Within ==
  /\ UNCHANGED <<agent, task, github, torn, tested, spent>>
  /\ pc \in {"begin", "asked", "calls", "patching"} \cup RunPlaces
  /\ pc' \in {"calls", "patching", "text", "done"} \cup RunPlaces
  /\ pc' = "text" => pc = "asked"
  /\ pc' = "patching" => pc = "patching" \/
       (agent.progress.stage \in Writing /\ GuardSince(agent.progress.stage, agent.progress.epoch) = "none")

(* Nothing but places changes inside a step.                                *)
LEMMA InsideFields ==
  ASSUME Inside
  PROVE  Within
<1> USE DEF RunPlaces, history
<1>1. CASE Answer \/ Read \/ Patched
  BY <1>1 DEF Answer, Read, Patched, ToolDone, NextCall, Granted, Elsewhere, Within
<1>2. CASE Patch
  <2>1. pc = "calls" /\ Verdict = "none" /\ Stage \in Writing
    BY <1>2 DEF Patch, Granted
  <2>2. GuardSince(agent.progress.stage, agent.progress.epoch) = "none"
    BY <2>1 DEF Verdict, Or
  <2>3. QED BY <1>2, <2>1, <2>2 DEF Patch, Elsewhere, Within, Stage
<1>3. CASE (\E p \in Paths : Write(p)) \/ (\E p \in Paths : Copy(p))
  BY <1>3 DEF Write, Copy, Elsewhere, Within
<1>4. CASE RunChecks \/ Lease \/ Prepare \/ ReserveRun \/ PrepareRepair
  BY <1>4 DEF RunChecks, Lease, Prepare, ReserveRun, PrepareRepair, Granted, Elsewhere, Within
<1>5. CASE pc = "running" /\ files = seen /\ RunFails /\ Elsewhere
  BY <1>5 DEF RunFails, Elsewhere, Within
<1>6. QED BY <1>1, <1>2, <1>3, <1>4, <1>5 DEF Inside

(* The review looks at the files; its findings are counted.                 *)
Looking ==
  /\ pc = "text" /\ pc' = "reviewed" /\ looked' = spent.outside /\ agent.stage = "review"
  /\ files = agent.verified /\ task.approved /\ agent.progress.epoch = task.epoch
  /\ UNCHANGED <<task, github, agent, owing, files, released, torn, tested, spent>> /\ Place
Counting ==
  /\ pc = "reviewed" /\ pc' = "counted" /\ agent.repairs < Repairs
  /\ agent'.repairs = agent.repairs + 1 /\ agent'.status = agent.status
  /\ agent'.stage = agent.stage /\ agent'.progress = agent.progress
  /\ agent'.context = agent.context /\ agent'.verified = agent.verified
  /\ UNCHANGED owing /\ Place /\ Elsewhere

(* A review was granted its look.                                           *)
LEMMA ReviewFields ==
  ASSUME TypeOK, Stepping
  PROVE  (Review => Looking) /\ (CountFindings => Counting)
<1>1. ASSUME Review PROVE Looking
  <2>1. pc = "text" /\ Verdict = "none" /\ agent.progress.stage = "review"
    BY <1>1 DEF Review, Granted, Stage
  <2>2. agent.stage = "review"
    BY <2>1 DEF Stepping
  <2>3. GuardSince("review", agent.progress.epoch) = "none"
    BY <2>1 DEF Verdict
  <2>4. task.approved /\ agent.progress.epoch = task.epoch
    BY <2>3, GuardHolds
  <2> QED BY <1>1, <2>1, <2>2, <2>4 DEF Review, Looking
<1>2. ASSUME CountFindings PROVE Counting
  <2>1. /\ agent'.repairs = agent.repairs + 1 /\ agent'.status = agent.status
        /\ agent'.stage = agent.stage /\ agent'.progress = agent.progress
        /\ agent'.context = agent.context /\ agent'.verified = agent.verified
    BY <1>2 DEF CountFindings, TypeOK, AgentType
  <2> QED BY <1>2, <2>1 DEF CountFindings, Counting
<1> QED BY <1>1, <1>2

(* A stage ends.                                                            *)
StageEnds ==
  /\ pc \in {"checked", "text", "noted", "reviewed", "counted"} /\ pc' = "done"
  /\ UNCHANGED owing /\ Place
  /\ agent'.progress = agent.progress /\ agent'.stage # "requirements"
  /\ agent'.repairs = agent.repairs
  /\ Held
  /\ UNCHANGED <<files, released, torn, spent>>
  /\ \/ agent'.verified = agent.verified /\ UNCHANGED tested
     \/ /\ pc = "checked" /\ files = results.digest
        /\ agent'.verified = files /\ tested' = results.snapshot
  /\ agent'.status = "ready_for_pr" => pc = "reviewed"

(* What the end of a stage rests on.                                        *)
LEMMA StageFields ==
  ASSUME TypeOK, Stepping, agent.repairs <= Repairs,
         Checked \/ LeaveRequirements \/ ProposeDesign \/ Implemented \/ Ready \/ RepairFindings
  PROVE  StageEnds
<1> USE DEF history
<1>1. agent.repairs \in Nat /\ Repairs \in Nat /\ agent \in AgentType
  BY AgentFields, LimitsType DEF TypeOK
<1>2. /\ "requirements" # "implementation" /\ "review" \in Stages /\ "design" \in Stages
      /\ "implementation" \in Stages /\ "test_generation" \in Stages /\ "verification" \in Stages
  BY DEF Stages
<1>3. \A g \in Stages \ {"requirements"} :
        agent' = Moved(agent, g) =>
          /\ agent'.progress = agent.progress /\ agent'.stage # "requirements"
          /\ agent'.repairs = agent.repairs /\ agent'.verified = agent.verified
          /\ agent'.status # "ready_for_pr"
  BY <1>1, MovedFields
<1>4. UNCHANGED task => Held
  BY DEF Held, Rest, TypeOK
<1>5. CASE Checked
  <2>1. CASE agent' = Moved(agent, "implementation") /\ UNCHANGED tested
    BY <1>1, <1>2, <1>3, <1>4, <1>5, <2>1 DEF Checked, Granted, StageEnds
  <2>2. CASE /\ agent' = Moved([agent EXCEPT !.verified = files], "review") /\ files = results.digest
             /\ tested' = results.snapshot
    <3> DEFINE a == [agent EXCEPT !.verified = files]
    <3>1. a \in AgentType
      BY VerifiedType DEF TypeOK
    <3>2. a.progress = agent.progress /\ a.repairs = agent.repairs /\ a.verified = files
      BY <1>1 DEF AgentType
    <3>3. agent' = Moved(a, "review")
      BY <2>2
    <3> HIDE DEF a
    <3>4. /\ agent'.progress = agent.progress /\ agent'.stage = "review"
          /\ agent'.repairs = agent.repairs /\ agent'.verified = files /\ agent'.status = "queued"
      BY <1>2, <3>1, <3>2, <3>3, MovedFields
    <3>5. QED BY <1>1, <1>4, <1>5, <2>2, <3>4 DEF Checked, Granted, StageEnds
  <2>3. QED BY <1>5, <2>1, <2>2 DEF Checked
<1>6. CASE LeaveRequirements
  BY <1>1, <1>2, <1>3, <1>4, <1>6 DEF LeaveRequirements, StageEnds, Elsewhere
<1>7. CASE ProposeDesign
  <2>1. Held
    BY <1>7, WrittenTask
  <2>2. QED BY <1>1, <1>2, <1>3, <1>7, <2>1 DEF ProposeDesign, Granted, StageEnds
<1>8. CASE Implemented
  <2>1. PICK g \in Stages \ {"requirements"} : agent' = Moved(agent, g)
    BY <1>2, <1>8 DEF Implemented
  <2>2. QED BY <1>1, <1>3, <1>4, <1>8, <2>1 DEF Implemented, Granted, StageEnds, Elsewhere
<1>9. CASE Ready
  <2>1. /\ agent'.progress = agent.progress /\ agent'.stage = agent.stage
        /\ agent'.repairs = agent.repairs /\ agent'.verified = agent.verified
    BY <1>1, <1>9 DEF Ready, AgentType
  <2>2. agent.stage = "review"
    BY <1>9 DEF Ready, Stepping
  <2> QED BY <1>4, <1>9, <2>1, <2>2 DEF Ready, StageEnds, Elsewhere
<1>10. CASE RepairFindings
  BY <1>2, <1>3, <1>4, <1>10 DEF RepairFindings, StageEnds, Elsewhere
<1>11. QED BY <1>5, <1>6, <1>7, <1>8, <1>9, <1>10

(* The requirements are written.                                            *)
Drafted ==
  /\ pc = "text" /\ pc' = "normalized" /\ agent.progress.stage = "requirements"
  /\ task'.asked = agent.context /\ task'.amended = task.amended
  /\ task.fit = "current" /\ task'.fit = "current"
  /\ UNCHANGED <<github, agent, owing, files, history, spent>>

(* The requirements name the amendments of their session.                   *)
LEMMA DraftFields ==
  ASSUME TypeOK, Stepping, Normalize
  PROVE  Drafted
BY WrittenTask DEF Normalize, Granted, Stage, Drafted

(* The step ends; its reservation is settled; it is left to the operator;   *)
(* he goes on.                                                              *)
Noting == pc = "normalized" /\ pc' = "noted" /\ UNCHANGED owing /\ Elsewhere /\ Same
          /\ agent'.status = agent.status
Completing ==
  /\ pc = "done" /\ pc' = "settling" /\ UNCHANGED owing /\ Elsewhere /\ Same
  /\ agent'.status \in {agent.status, "queued"}
Settling ==
  /\ pc = "settling" /\ pc' = "idle" /\ UNCHANGED owing /\ Elsewhere
  /\ agent'.stage = agent.stage /\ agent'.context = agent.context
  /\ agent'.repairs = agent.repairs /\ agent'.verified = agent.verified
  /\ agent'.progress = None
  /\ \/ agent'.status = agent.status /\ agent'.reason = agent.reason
     \/ agent'.status = "blocked" /\ agent'.reason = "AGENT_ACTIVE_BUDGET"
Recovering ==
  /\ pc = "down" /\ pc' = "idle" /\ UNCHANGED owing /\ Elsewhere /\ Same
  /\ agent'.status = "blocked"
Resuming ==
  /\ pc = "idle" /\ agent.progress = None /\ ~owing
  /\ agent.reason \in {"AGENT_PAUSED", "AGENT_BASIS_CHANGED", "AGENT_CANCELLED"}
  /\ UNCHANGED <<owing, loop>> /\ Elsewhere /\ Same /\ agent'.status = "queued"
Crashing ==
  /\ pc \notin {"idle", "down"} /\ pc' = "down"
  /\ UNCHANGED <<task, github, agent, owing, files, released, tested>>
  /\ spent'.outside = spent.outside

(* What happens around a step.                                              *)
LEMMA AroundFields ==
  ASSUME TypeOK
  PROVE  /\ NoteBasis => Noting
         /\ Complete => Completing
         /\ Settle => Settling
         /\ Recover => Recovering
         /\ ResumeStep => Resuming
         /\ Crash => Crashing
<1>1. agent \in AgentType /\ "AGENT_RECOVERY_REQUIRED" \in Reasons /\ "AGENT_ACTIVE_BUDGET" \in Reasons
  BY DEF TypeOK, Reasons
<1>2. ASSUME NoteBasis PROVE Noting
  BY <1>1, <1>2 DEF NoteBasis, Noting, Same, AgentType
<1>3. ASSUME Complete PROVE Completing
  <2>1. Same /\ agent'.status \in {agent.status, "queued"}
    BY <1>1, <1>3 DEF Complete, Same, AgentType
  <2>2. QED BY <1>3, <2>1 DEF Complete, Completing
<1>4. ASSUME Settle PROVE Settling
  <2>1. PICK elapsed \in {1, ActiveSeconds + 1} :
          LET used == agent.seconds + elapsed - Reserved(Stage)
              settled == [agent EXCEPT !.progress = None, !.seconds = used]
          IN agent' = IF used > ActiveSeconds THEN Blocked(settled, "AGENT_ACTIVE_BUDGET") ELSE settled
    BY <1>4 DEF Settle
  <2> DEFINE used == agent.seconds + elapsed - Reserved(Stage)
             settled == [agent EXCEPT !.progress = None, !.seconds = used]
  <2>2. /\ settled.progress = None /\ settled.stage = agent.stage /\ settled.context = agent.context
        /\ settled.repairs = agent.repairs /\ settled.verified = agent.verified
        /\ settled.status = agent.status /\ settled.reason = agent.reason
    BY <1>1 DEF AgentType
  <2>3. used \in Int
    BY <1>1, AgentFields, LimitsType DEF Reserved
  <2>4. settled \in AgentType
    BY <1>1, <2>3, ProgressType
  <2>5. agent' = IF used > ActiveSeconds THEN Blocked(settled, "AGENT_ACTIVE_BUDGET") ELSE settled
    BY <2>1
  <2> HIDE DEF used, settled
  <2>6. CASE agent' = settled
    BY <1>4, <2>2, <2>6 DEF Settle, Settling, Over
  <2>7. CASE agent' = Blocked(settled, "AGENT_ACTIVE_BUDGET")
    <3>1. /\ agent'.status = "blocked" /\ agent'.reason = "AGENT_ACTIVE_BUDGET"
          /\ agent'.stage = settled.stage /\ agent'.context = settled.context
          /\ agent'.progress = settled.progress /\ agent'.repairs = settled.repairs
          /\ agent'.verified = settled.verified
      BY <1>1, <2>4, <2>7, BlockedFields
    <3>2. QED BY <1>4, <2>2, <3>1 DEF Settle, Settling, Over
  <2>8. QED BY <2>5, <2>6, <2>7
<1>5. ASSUME Recover PROVE Recovering
  BY <1>1, <1>5, BlockedFields DEF Recover, Recovering, Same
<1>6. ASSUME ResumeStep PROVE Resuming
  <2>1. Same /\ agent'.status = "queued"
    BY <1>1, <1>6 DEF ResumeStep, Same, AgentType
  <2>2. QED BY <1>6, <2>1 DEF ResumeStep, Resuming, Idle
<1>7. ASSUME Crash PROVE Crashing
  BY <1>7, SpentUpdates DEF Crash, Fault, Over, Crashing, TypeOK
<1>8. QED BY <1>2, <1>3, <1>4, <1>5, <1>6, <1>7

(* People, the monitor and time.                                            *)
World ==
  /\ UNCHANGED <<agent, owing, files, pc, seen, copy, todo, results, history>>
  /\ pc \in {"patching", "reviewed"} => UNCHANGED task
  /\ Held \/ (Cleared /\ pc \notin {"normalized", "noted"})
  /\ spent'.outside = spent.outside
Tampering ==
  /\ UNCHANGED <<task, github, agent, owing, loop, history>>
  /\ spent'.outside = spent.outside + 1

(* What happens beside it.                                                  *)
LEMMA WorldFields ==
  ASSUME TypeOK
  PROVE  /\ Watch \/ Cancel \/ Expire \/ People \/ UNCHANGED vars => World
         /\ Tamper => Tampering
<1> USE DEF history, loop, memory
<1>1. spent \in [people : Nat, outside : Nat, faults : Nat]
  BY DEF TypeOK
<1>2. Person => spent'.outside = spent.outside
  BY <1>1, SpentUpdates DEF Person
<1>3. UNCHANGED task => Held
  BY DEF Held, Rest, TypeOK
<1>4. ASSUME Watch \/ Cancel \/ Expire \/ UNCHANGED vars PROVE World
  BY <1>1, <1>4, <1>3, SpentUpdates DEF Watch, Cancel, Expire, Fault, Revoke, World, vars
<1>5. ASSUME People PROVE World
  <2>1. spent'.outside = spent.outside
    BY <1>2, <1>5
    DEF People, Approve, ApproveDesign, Amend, Stop, Unpause, End, OtherCommit, Stand, Reconcile, Recapture,
        Refresh
  <2>2. CASE Stand
    BY <1>3, <2>1, <2>2 DEF Stand, World
  <2>3. CASE ~Stand
    <3>1. PICK new, agreement : Commit(new, agreement)
      BY <1>5, <2>3
      DEF People, Approve, ApproveDesign, Amend, Stop, Unpause, End, OtherCommit, Reconcile, Recapture, Refresh
    <3>2. Held \/ Cleared
      BY <1>5, <1>3, PeopleTask
    <3> QED BY <2>1, <3>1, <3>2 DEF Commit, Locked, World
  <2> QED BY <2>2, <2>3
<1>6. ASSUME Tamper PROVE Tampering
  BY <1>1, <1>6, SpentUpdates DEF Tamper, Tampering
<1> QED BY <1>4, <1>5, <1>6

(* The step cases every invariant is proved by.                             *)
LEMMA StepCases ==
  ASSUME TypeOK, Stepping, agent.repairs <= Repairs, [Next]_vars
  PROVE  \/ Idling \/ Starting \/ Failing \/ Asking \/ (Inside /\ Within) \/ Ended \/ StageEnds
         \/ Looking \/ Counting \/ Drafted \/ Noting \/ Completing \/ Settling \/ Recovering \/ Resuming \/ Crashing
         \/ World \/ Tampering
<1>1. CASE Driver
  BY <1>1, DriverFields, ReserveFields DEF Driver
<1>2. CASE Step
  <2>1. CASE Refused \/ Breaks
    BY <2>1, FailCases
  <2>2. CASE Ask
    BY <2>2, AskFields
  <2>3. CASE Inside
    BY <2>3, InsideFields
  <2>4. CASE RunEnds
    BY <2>4, FailCases, EndedCases, InsideFields DEF Inside
  <2>5. CASE ConsumeRepair
    BY <2>5, FailCases, EndedCases
  <2>6. CASE \/ Checked \/ LeaveRequirements \/ ProposeDesign \/ Implemented
             \/ Review \/ Ready \/ CountFindings \/ RepairFindings
    BY <2>6, StageFields, ReviewFields
  <2>7. CASE Normalize
    BY <2>7, DraftFields
  <2>8. CASE NoteBasis \/ Complete \/ Settle
    BY <2>8, AroundFields
  <2>9. QED
    BY <1>2, <2>1, <2>2, <2>3, <2>4, <2>5, <2>6, <2>7, <2>8 DEF Step, Inside
<1>3. CASE Watch \/ Cancel \/ Expire \/ People \/ UNCHANGED vars \/ Tamper
  BY <1>3, WorldFields
<1>4. CASE Crash \/ Recover \/ ResumeStep
  BY <1>4, AroundFields
<1>5. QED BY <1>1, <1>2, <1>3, <1>4 DEF Next

(* What is lost stays lost.                                                 *)
LEMMA LostKept ==
  ASSUME TypeOK, Stepping, agent.repairs <= Repairs, [Next]_vars, Lost
  PROVE  Lost'
<1>1. CASE Idling
  BY <1>1 DEF Idling, Scheduled, Elsewhere, loop, memory, history, Lost, NeedsRefresh
<1>2. CASE Starting
  BY <1>2 DEF Starting, Scheduled, Elsewhere, history, Lost, NeedsRefresh
<1>3. CASE Failing
  BY <1>3 DEF Failing, Breakable, Places, Lost
<1>4. CASE Asking
  BY <1>4 DEF Asking, Elsewhere, history, Lost
<1>5. CASE Inside /\ Within
  BY <1>5 DEF Within, RunPlaces, Lost, Lost
<1>6. CASE Ended
  BY <1>6 DEF Ended, Elsewhere, history, Lost, Lost
<1>7. CASE StageEnds
  BY <1>7 DEF StageEnds, Lost
<1>8. CASE Drafted
  BY <1>8 DEF Drafted, history, Lost
<1>9. CASE Noting
  BY <1>9 DEF Noting, Same, Elsewhere, history, Lost
<1>10. CASE Completing
  BY <1>10 DEF Completing, Same, Elsewhere, history, Lost
<1>11. CASE Settling
  BY <1>11 DEF Settling, Elsewhere, history, Lost
<1>12. CASE Recovering
  BY <1>12 DEF Recovering, Same, Elsewhere, history, Lost, Stepping
<1>13. CASE Resuming
  BY <1>13 DEF Resuming, Same, Elsewhere, loop, memory, history, Lost
<1>14. CASE Crashing
  BY <1>14 DEF Crashing, Lost
<1>15. CASE World
  BY <1>15 DEF World, history, Lost
<1>16. CASE Tampering
  BY <1>16 DEF Tampering, loop, memory, history, Lost
<1>17. CASE Looking
  BY <1>17 DEF Looking, Lost
<1>18. CASE Counting
  BY <1>18 DEF Counting, Elsewhere, history, Lost
<1>19. QED
  BY StepCases, <1>1, <1>2, <1>3, <1>4, <1>5, <1>6, <1>7, <1>8,
     <1>9, <1>10, <1>11, <1>12, <1>13, <1>14, <1>15, <1>16, <1>17, <1>18

(* The step that runs knows its stage and its session.                      *)
LEMMA SteppingStep ==
  ASSUME TypeOK, Stepping, agent.repairs <= Repairs, [Next]_vars
  PROVE  Stepping'
<1>1. CASE Idling
  BY <1>1 DEF Idling, Scheduled, Elsewhere, loop, memory, history, Stepping, RunPlaces
<1>2. CASE Starting
  BY <1>2 DEF Starting, Scheduled, Elsewhere, history, Stepping, RunPlaces
<1>3. CASE Failing
  BY <1>3, FailFields DEF Failing, Breakable, Places, Stepping, RunPlaces
<1>4. CASE Asking
  BY <1>4 DEF Asking, Elsewhere, history, Stepping, RunPlaces
<1>5. CASE Inside /\ Within
  BY <1>5 DEF Within, RunPlaces, Stepping, RunPlaces
<1>6. CASE Ended
  BY <1>6 DEF Ended, Elsewhere, history, Stepping, RunPlaces, ToolDone, NextCall, Stage
<1>7. CASE StageEnds
  BY <1>7 DEF StageEnds, Stepping, RunPlaces
<1>8. CASE Drafted
  BY <1>8 DEF Drafted, history, Stepping, RunPlaces
<1>9. CASE Noting
  BY <1>9 DEF Noting, Same, Elsewhere, history, Stepping, RunPlaces
<1>10. CASE Completing
  BY <1>10 DEF Completing, Same, Elsewhere, history, Stepping, RunPlaces
<1>11. CASE Settling
  BY <1>11 DEF Settling, Elsewhere, history, Stepping, RunPlaces
<1>12. CASE Recovering
  BY <1>12 DEF Recovering, Same, Elsewhere, history, Stepping, RunPlaces
<1>13. CASE Resuming
  BY <1>13 DEF Resuming, Same, Elsewhere, loop, memory, history, Stepping, RunPlaces
<1>14. CASE Crashing
  BY <1>14 DEF Crashing, Stepping, RunPlaces
<1>15. CASE World
  BY <1>15 DEF World, history, Stepping, RunPlaces
<1>16. CASE Tampering
  BY <1>16 DEF Tampering, loop, memory, history, Stepping, RunPlaces
<1>17. CASE Looking
  BY <1>17 DEF Looking, Stepping, RunPlaces
<1>18. CASE Counting
  BY <1>18 DEF Counting, Elsewhere, history, Stepping, RunPlaces
<1>19. QED
  BY StepCases, <1>1, <1>2, <1>3, <1>4, <1>5, <1>6, <1>7, <1>8,
     <1>9, <1>10, <1>11, <1>12, <1>13, <1>14, <1>15, <1>16, <1>17, <1>18

(* A patch is torn only where the step is given up.                         *)
LEMMA TornStep ==
  ASSUME TypeOK, Stepping, agent.repairs <= Repairs, [Next]_vars, TornLost
  PROVE  TornLost'
<1>1. CASE Idling
  BY <1>1, LostKept DEF Idling, Scheduled, Elsewhere, loop, memory, history, TornLost
<1>2. CASE Starting
  BY <1>2, LostKept DEF Starting, Scheduled, Elsewhere, history, TornLost
<1>3. CASE Failing
  BY <1>3, LostKept, FailFields DEF Failing, Breakable, Places, TornLost, Lost
<1>4. CASE Asking
  BY <1>4, LostKept DEF Asking, Elsewhere, history, TornLost
<1>5. CASE Inside /\ Within
  BY <1>5, LostKept DEF Within, RunPlaces, TornLost
<1>6. CASE Ended
  BY <1>6, LostKept DEF Ended, Elsewhere, history, TornLost
<1>7. CASE StageEnds
  BY <1>7, LostKept DEF StageEnds, TornLost
<1>8. CASE Drafted
  BY <1>8, LostKept DEF Drafted, history, TornLost
<1>9. CASE Noting
  BY <1>9, LostKept DEF Noting, Same, Elsewhere, history, TornLost
<1>10. CASE Completing
  BY <1>10, LostKept DEF Completing, Same, Elsewhere, history, TornLost
<1>11. CASE Settling
  BY <1>11, LostKept DEF Settling, Elsewhere, history, TornLost
<1>12. CASE Recovering
  BY <1>12, LostKept DEF Recovering, Same, Elsewhere, history, TornLost
<1>13. CASE Resuming
  BY <1>13, LostKept DEF Resuming, Same, Elsewhere, loop, memory, history, TornLost
<1>14. CASE Crashing
  BY <1>14, LostKept DEF Crashing, TornLost, Lost
<1>15. CASE World
  BY <1>15, LostKept DEF World, history, TornLost
<1>16. CASE Tampering
  BY <1>16, LostKept DEF Tampering, loop, memory, history, TornLost
<1>17. CASE Looking
  BY <1>17, LostKept DEF Looking, TornLost
<1>18. CASE Counting
  BY <1>18, LostKept DEF Counting, Elsewhere, history, TornLost
<1>19. QED
  BY StepCases, <1>1, <1>2, <1>3, <1>4, <1>5, <1>6, <1>7, <1>8,
     <1>9, <1>10, <1>11, <1>12, <1>13, <1>14, <1>15, <1>16, <1>17, <1>18

(* What is owing is settled, or left where no step starts.                  *)
LEMMA OwingStep ==
  ASSUME TypeOK, Stepping, agent.repairs <= Repairs, [Next]_vars, OwingKept
  PROVE  OwingKept'
<1>1. CASE Idling
  BY <1>1, LostKept DEF Idling, Scheduled, Elsewhere, loop, memory, history, OwingKept, Lost, RunPlaces, RefreshRefused, Idle, NeedsRefresh
<1>2. CASE Starting
  BY <1>2, LostKept DEF Starting, Scheduled, Elsewhere, history, OwingKept, Lost, RunPlaces, RefreshRefused, Idle, NeedsRefresh
<1>3. CASE Failing
  BY <1>3, LostKept, FailFields DEF Failing, Breakable, Places, OwingKept
<1>4. CASE Asking
  BY <1>4, LostKept DEF Asking, Elsewhere, history, OwingKept
<1>5. CASE Inside /\ Within
  <2> USE DEF Lost, RunPlaces
  <2>1. CASE Answer
    BY <2>1 DEF Answer, OwingKept
  <2>2. CASE Read \/ Patched
    BY <2>2 DEF Read, Patched, ToolDone, NextCall, OwingKept
  <2>3. CASE Patch \/ \E p \in Paths : Write(p)
    BY <2>3 DEF Patch, Write, Granted, OwingKept
  <2>4. CASE RunChecks
    BY <2>4 DEF RunChecks, Granted, Stepping, Writing, Stage, OwingKept
  <2>5. CASE (\E p \in Paths : Copy(p)) \/ Lease \/ Prepare \/ ReserveRun \/ PrepareRepair
    BY <2>5 DEF Copy, Lease, Prepare, ReserveRun, PrepareRepair, Granted, OwingKept
  <2>6. CASE pc = "running" /\ files = seen /\ RunFails /\ Elsewhere
    BY <2>6 DEF RunFails, OwingKept
  <2>7. QED BY <1>5, <2>1, <2>2, <2>3, <2>4, <2>5, <2>6 DEF Inside
<1>6. CASE Ended
  BY <1>6, AgentFields DEF Ended, Elsewhere, history, OwingKept, Lost, RunPlaces, ToolDone, NextCall, Stage, Stepping
<1>7. CASE StageEnds
  BY <1>7, LostKept DEF StageEnds, OwingKept, Lost, RunPlaces
<1>8. CASE Drafted
  BY <1>8, LostKept DEF Drafted, history, OwingKept, Lost, RunPlaces
<1>9. CASE Noting
  BY <1>9, LostKept DEF Noting, Same, Elsewhere, history, OwingKept, Lost, RunPlaces
<1>10. CASE Completing
  BY <1>10, LostKept DEF Completing, Same, Elsewhere, history, OwingKept, Lost, RunPlaces
<1>11. CASE Settling
  BY <1>11, LostKept DEF Settling, Elsewhere, history, OwingKept, Lost, RunPlaces
<1>12. CASE Recovering
  BY <1>12, LostKept DEF Recovering, Same, Elsewhere, history, OwingKept, Lost, Stepping
<1>13. CASE Resuming
  BY <1>13, LostKept DEF Resuming, Same, Elsewhere, loop, memory, history, OwingKept
<1>14. CASE Crashing
  BY <1>14, LostKept DEF Crashing, OwingKept, Lost
<1>15. CASE World
  BY <1>15, LostKept DEF World, history, OwingKept
<1>16. CASE Tampering
  BY <1>16, LostKept DEF Tampering, loop, memory, history, OwingKept
<1>17. CASE Looking
  BY <1>17, LostKept DEF Looking, OwingKept, Lost, RunPlaces
<1>18. CASE Counting
  BY <1>18, LostKept DEF Counting, Elsewhere, history, OwingKept, Lost, RunPlaces
<1>19. QED
  BY StepCases, <1>1, <1>2, <1>3, <1>4, <1>5, <1>6, <1>7, <1>8,
     <1>9, <1>10, <1>11, <1>12, <1>13, <1>14, <1>15, <1>16, <1>17, <1>18

(* A run is released only after a repair was counted, but for the last one. *)
LEMMA RepairsStep ==
  ASSUME TypeOK, Stepping, agent.repairs <= Repairs, [Next]_vars, RepairsCounted
  PROVE  RepairsCounted'
<1>0. agent.repairs \in Nat /\ released \in Nat /\ Repairs \in Nat
  BY AgentFields, LimitsType DEF TypeOK
<1>1. CASE Idling
  BY <1>1, <1>0, LostKept DEF Idling, Scheduled, Elsewhere, loop, memory, history, RepairsCounted
<1>2. CASE Starting
  BY <1>2, <1>0, LostKept DEF Starting, Scheduled, Elsewhere, history, RepairsCounted
<1>3. CASE Failing
  BY <1>3, <1>0, LostKept, FailFields DEF Failing, Breakable, Places, RepairsCounted, Lost
<1>4. CASE Asking
  BY <1>4, <1>0, LostKept DEF Asking, Elsewhere, history, RepairsCounted
<1>5. CASE Inside /\ Within
  <2>1. CASE PrepareRepair
    BY <1>0, <2>1 DEF PrepareRepair, RepairsCounted, Lost
  <2>2. CASE ~PrepareRepair
    <3>1. UNCHANGED released /\ pc # "released"
      BY <1>5, <2>2 DEF Inside, Within, Answer, Read, Patch, Patched, Write, Copy, RunChecks, Lease, Prepare,
                     ReserveRun, Elsewhere, history, Granted
    <3>2. QED BY <1>5, <1>0, <3>1, LostKept DEF Within, RepairsCounted
  <2>3. QED BY <2>1, <2>2
<1>6. CASE Ended
  BY <1>6, <1>0, LostKept DEF Ended, Elsewhere, history, RepairsCounted, Lost
<1>7. CASE StageEnds
  BY <1>7, <1>0, LostKept DEF StageEnds, RepairsCounted, Lost
<1>8. CASE Drafted
  BY <1>8, <1>0, LostKept DEF Drafted, history, RepairsCounted
<1>9. CASE Noting
  BY <1>9, <1>0, LostKept DEF Noting, Same, Elsewhere, history, RepairsCounted
<1>10. CASE Completing
  BY <1>10, <1>0, LostKept DEF Completing, Same, Elsewhere, history, RepairsCounted
<1>11. CASE Settling
  BY <1>11, <1>0, LostKept DEF Settling, Elsewhere, history, RepairsCounted
<1>12. CASE Recovering
  BY <1>12, <1>0, LostKept DEF Recovering, Same, Elsewhere, history, RepairsCounted
<1>13. CASE Resuming
  BY <1>13, <1>0, LostKept DEF Resuming, Same, Elsewhere, loop, memory, history, RepairsCounted
<1>14. CASE Crashing
  BY <1>14, <1>0, LostKept DEF Crashing, RepairsCounted, Lost
<1>15. CASE World
  BY <1>15, <1>0, LostKept DEF World, history, RepairsCounted
<1>16. CASE Tampering
  BY <1>16, <1>0, LostKept DEF Tampering, loop, memory, history, RepairsCounted
<1>17. CASE Looking
  BY <1>17, <1>0, LostKept DEF Looking, RepairsCounted
<1>18. CASE Counting
  BY <1>18, <1>0, LostKept DEF Counting, Elsewhere, history, RepairsCounted
<1>19. QED
  BY StepCases, <1>1, <1>2, <1>3, <1>4, <1>5, <1>6, <1>7, <1>8,
     <1>9, <1>10, <1>11, <1>12, <1>13, <1>14, <1>15, <1>16, <1>17, <1>18

(* The lock keeps what a patch was granted for.                             *)
LEMMA PatchStep ==
  ASSUME TypeOK, Stepping, agent.repairs <= Repairs, [Next]_vars, PatchInForce
  PROVE  PatchInForce'
<1>1. CASE Idling
  BY <1>1 DEF Idling, Scheduled, Elsewhere, loop, memory, history, PatchInForce
<1>2. CASE Starting
  BY <1>2 DEF Starting, Scheduled, Elsewhere, history, PatchInForce
<1>3. CASE Failing
  BY <1>3 DEF Failing, Breakable, Places, PatchInForce
<1>4. CASE Asking
  BY <1>4 DEF Asking, Elsewhere, history, PatchInForce
<1>5. CASE Inside /\ Within
  <2>1. CASE pc = "patching"
    BY <1>5, <2>1 DEF Within, PatchInForce
  <2>2. CASE pc # "patching" /\ pc' = "patching"
    <3>1. agent.progress.stage # "requirements"
      BY <1>5, <2>2 DEF Within, Writing
    <3>2. task.approved /\ ~task.paused /\ ~task.over /\ agent.progress.epoch = task.epoch
      BY <1>5, <2>2, <3>1, GuardHolds DEF Within
    <3>3. QED BY <1>5, <3>2 DEF Within, PatchInForce
  <2>3. QED BY <2>1, <2>2 DEF PatchInForce
<1>6. CASE Ended
  BY <1>6 DEF Ended, Elsewhere, history, PatchInForce, ToolDone, NextCall
<1>7. CASE StageEnds
  BY <1>7 DEF StageEnds, PatchInForce
<1>8. CASE Drafted
  BY <1>8 DEF Drafted, history, PatchInForce
<1>9. CASE Noting
  BY <1>9 DEF Noting, Same, Elsewhere, history, PatchInForce
<1>10. CASE Completing
  BY <1>10 DEF Completing, Same, Elsewhere, history, PatchInForce
<1>11. CASE Settling
  BY <1>11 DEF Settling, Elsewhere, history, PatchInForce
<1>12. CASE Recovering
  BY <1>12 DEF Recovering, Same, Elsewhere, history, PatchInForce
<1>13. CASE Resuming
  BY <1>13 DEF Resuming, Same, Elsewhere, loop, memory, history, PatchInForce
<1>14. CASE Crashing
  BY <1>14 DEF Crashing, PatchInForce
<1>15. CASE World
  BY <1>15 DEF World, history, PatchInForce
<1>16. CASE Tampering
  BY <1>16 DEF Tampering, loop, memory, history, PatchInForce
<1>17. CASE Looking
  BY <1>17 DEF Looking, PatchInForce
<1>18. CASE Counting
  BY <1>18 DEF Counting, Elsewhere, history, PatchInForce
<1>19. QED
  BY StepCases, <1>1, <1>2, <1>3, <1>4, <1>5, <1>6, <1>7, <1>8,
     <1>9, <1>10, <1>11, <1>12, <1>13, <1>14, <1>15, <1>16, <1>17, <1>18

(* The lock keeps what a review was granted for, and whoever changes the    *)
(* files behind it is counted.                                              *)
LEMMA ReviewStep ==
  ASSUME TypeOK, Stepping, agent.repairs <= Repairs, [Next]_vars, ReviewInForce
  PROVE  ReviewInForce'
<1>0. spent.outside \in Nat /\ looked \in Nat
  BY SpentUpdates DEF TypeOK
<1>1. CASE Idling
  BY <1>1 DEF Idling, Scheduled, Elsewhere, loop, memory, history, ReviewInForce
<1>2. CASE Starting
  BY <1>2 DEF Starting, ReviewInForce
<1>3. CASE Failing
  BY <1>3 DEF Failing, ReviewInForce
<1>4. CASE Asking
  BY <1>4 DEF Asking, ReviewInForce
<1>5. CASE Inside /\ Within
  BY <1>5 DEF Within, RunPlaces, ReviewInForce
<1>6. CASE Ended
  BY <1>6 DEF Ended, ToolDone, NextCall, ReviewInForce
<1>7. CASE StageEnds
  BY <1>7 DEF StageEnds, ReviewInForce
<1>8. CASE Drafted
  BY <1>8 DEF Drafted, ReviewInForce
<1>9. CASE Noting
  BY <1>9 DEF Noting, ReviewInForce
<1>10. CASE Completing
  BY <1>10 DEF Completing, ReviewInForce
<1>11. CASE Settling
  BY <1>11 DEF Settling, ReviewInForce
<1>12. CASE Recovering
  BY <1>12 DEF Recovering, ReviewInForce
<1>13. CASE Resuming
  BY <1>13 DEF Resuming, loop, ReviewInForce
<1>14. CASE Crashing
  BY <1>14 DEF Crashing, ReviewInForce
<1>15. CASE World
  BY <1>15, <1>0 DEF World, history, ReviewInForce
<1>16. CASE Tampering
  BY <1>16, <1>0 DEF Tampering, loop, memory, history, ReviewInForce
<1>17. CASE Looking
  BY <1>17, <1>0 DEF Looking, ReviewInForce
<1>18. CASE Counting
  BY <1>18 DEF Counting, ReviewInForce
<1>19. QED
  BY StepCases, <1>1, <1>2, <1>3, <1>4, <1>5, <1>6, <1>7, <1>8,
     <1>9, <1>10, <1>11, <1>12, <1>13, <1>14, <1>15, <1>16, <1>17, <1>18

(* Requirements are written from the amendments there are.                  *)
LEMMA DraftingStep ==
  ASSUME TypeOK, Stepping, agent.repairs <= Repairs, [Next]_vars, Drafting
  PROVE  Drafting'
<1>1. CASE Idling
  BY <1>1, LostKept DEF Idling, Scheduled, Elsewhere, loop, memory, history, Drafting, NeedsRefresh
<1>2. CASE Starting
  BY <1>2, LostKept, TakenFields DEF Starting, Scheduled, Elsewhere, history, Drafting, NeedsRefresh
<1>3. CASE Failing
  BY <1>3, LostKept, FailFields DEF Failing, Breakable, Places, Drafting, Lost
<1>4. CASE Asking
  BY <1>4, LostKept DEF Asking, Elsewhere, history, Drafting
<1>5. CASE Inside /\ Within
  BY <1>5, LostKept DEF Within, RunPlaces, Drafting
<1>6. CASE Ended
  BY <1>6, LostKept DEF Ended, Elsewhere, history, Drafting, Lost, ToolDone, NextCall
<1>7. CASE StageEnds
  BY <1>7, LostKept DEF StageEnds, Held, Rest, Drafting, Lost
<1>8. CASE Drafted
  BY <1>8, LostKept DEF Drafted, history, Drafting
<1>9. CASE Noting
  BY <1>9, LostKept DEF Noting, Same, Elsewhere, history, Drafting
<1>10. CASE Completing
  BY <1>10, LostKept DEF Completing, Same, Elsewhere, history, Drafting
<1>11. CASE Settling
  BY <1>11, LostKept DEF Settling, Elsewhere, history, Drafting
<1>12. CASE Recovering
  BY <1>12, LostKept DEF Recovering, Same, Elsewhere, history, Drafting, Lost, Stepping
<1>13. CASE Resuming
  BY <1>13, LostKept DEF Resuming, Same, Elsewhere, loop, memory, history, Drafting
<1>14. CASE Crashing
  BY <1>14, LostKept DEF Crashing, Drafting, Lost
<1>15. CASE World
  BY <1>15, LostKept DEF World, Held, Rest, Cleared, history, Drafting
<1>16. CASE Tampering
  BY <1>16, LostKept DEF Tampering, loop, memory, history, Drafting
<1>17. CASE Looking
  BY <1>17, LostKept DEF Looking, Drafting
<1>18. CASE Counting
  BY <1>18, LostKept DEF Counting, Elsewhere, history, Drafting
<1>19. QED
  BY StepCases, <1>1, <1>2, <1>3, <1>4, <1>5, <1>6, <1>7, <1>8,
     <1>9, <1>10, <1>11, <1>12, <1>13, <1>14, <1>15, <1>16, <1>17, <1>18

(* Whatever is drafted rests on every amendment.                            *)
LEMMA CompleteStep ==
  ASSUME TypeOK, Stepping, agent.repairs <= Repairs, [Next]_vars, Drafting, RequirementsComplete
  PROVE  RequirementsComplete'
<1>1. CASE Idling
  BY <1>1 DEF Idling, Scheduled, Elsewhere, loop, memory, history, RequirementsComplete
<1>2. CASE Starting
  BY <1>2 DEF Starting, Scheduled, Elsewhere, history, RequirementsComplete
<1>3. CASE Failing
  BY <1>3 DEF Failing, Breakable, Places, RequirementsComplete
<1>4. CASE Asking
  BY <1>4 DEF Asking, Elsewhere, history, RequirementsComplete
<1>5. CASE Inside /\ Within
  BY <1>5 DEF Within, RunPlaces, RequirementsComplete
<1>6. CASE Ended
  BY <1>6 DEF Ended, Elsewhere, history, RequirementsComplete
<1>7. CASE StageEnds
  BY <1>7 DEF StageEnds, Held, Rest, RequirementsComplete
<1>8. CASE Drafted
  BY <1>8 DEF Drafted, history, RequirementsComplete, Drafting, Stepping, Lost
<1>9. CASE Noting
  BY <1>9 DEF Noting, Same, Elsewhere, history, RequirementsComplete
<1>10. CASE Completing
  BY <1>10 DEF Completing, Same, Elsewhere, history, RequirementsComplete
<1>11. CASE Settling
  BY <1>11 DEF Settling, Elsewhere, history, RequirementsComplete
<1>12. CASE Recovering
  BY <1>12 DEF Recovering, Same, Elsewhere, history, RequirementsComplete
<1>13. CASE Resuming
  BY <1>13 DEF Resuming, Same, Elsewhere, loop, memory, history, RequirementsComplete
<1>14. CASE Crashing
  BY <1>14 DEF Crashing, RequirementsComplete
<1>15. CASE World
  BY <1>15 DEF World, Held, Rest, Cleared, history, RequirementsComplete
<1>16. CASE Tampering
  BY <1>16 DEF Tampering, loop, memory, history, RequirementsComplete
<1>17. CASE Looking
  BY <1>17 DEF Looking, RequirementsComplete
<1>18. CASE Counting
  BY <1>18 DEF Counting, Elsewhere, history, RequirementsComplete
<1>19. QED
  BY StepCases, <1>1, <1>2, <1>3, <1>4, <1>5, <1>6, <1>7, <1>8,
     <1>9, <1>10, <1>11, <1>12, <1>13, <1>14, <1>15, <1>16, <1>17, <1>18

(* What is tested is what was observed, while nobody can have changed it.   *)
LEMMA SnapshotStep ==
  ASSUME TypeOK, Stepping, agent.repairs <= Repairs, [Next]_vars, Snapshot
  PROVE  Snapshot'
<1>0. spent.outside \in Nat
  BY SpentUpdates DEF TypeOK
<1>1. CASE Idling
  BY <1>1, <1>0 DEF Idling, Scheduled, Elsewhere, loop, memory, history, Snapshot, RunPlaces
<1>2. CASE Starting
  BY <1>2, <1>0 DEF Starting, Scheduled, Elsewhere, history, Snapshot, RunPlaces
<1>3. CASE Failing
  BY <1>3, <1>0, FailFields DEF Failing, Breakable, Places, Snapshot, RunPlaces
<1>4. CASE Asking
  BY <1>4, <1>0 DEF Asking, Elsewhere, history, Snapshot, RunPlaces
<1>5. CASE Inside /\ Within
  <2>0. UNCHANGED <<agent, tested, spent>>
    BY <1>5 DEF Within
  <2>1. CASE pc' \notin RunPlaces
    BY <1>5, <2>0, <2>1 DEF Within, RunPlaces, Snapshot
  <2>2. CASE Lease \/ RunChecks
    BY <2>0, <2>2 DEF Lease, RunChecks, Elsewhere, RunPlaces, Snapshot
  <2>3. CASE Prepare
    BY <2>0, <2>3 DEF Prepare, Present, Empty, Granted, Elsewhere, RunPlaces, Snapshot
  <2>4. ASSUME NEW p \in Paths, Copy(p) PROVE Snapshot'
    <3>1. copy' = [copy EXCEPT ![p] = files[p]] /\ todo' = todo \ {p} /\ copy \in [Paths -> Contents]
      BY <2>4 DEF Copy, TypeOK, Workspaces
    <3>2. \A o \in Paths : copy'[o] = IF o = p THEN files[p] ELSE copy[o]
      BY <3>1
    <3>3. pc = "copying" /\ UNCHANGED <<pc, files, seen>>
      BY <2>4 DEF Copy, Elsewhere
    <3>4. ASSUME spent.outside < 2, files = seen PROVE \A o \in Paths \ todo' : copy'[o] = seen[o]
      BY <3>1, <3>2, <3>3, <3>4 DEF Snapshot, RunPlaces
    <3>5. QED BY <2>0, <3>3, <3>4 DEF Snapshot, RunPlaces
  <2>5. CASE ReserveRun \/ PrepareRepair
    BY <2>0, <2>5 DEF ReserveRun, PrepareRepair, Place, memory, Elsewhere, RunPlaces, Snapshot
  <2>6. CASE pc = "running" /\ files = seen /\ RunFails /\ Elsewhere
    BY <2>0, <2>6 DEF RunFails, Place, memory, Elsewhere, RunPlaces, Snapshot
  <2>7. pc' \in RunPlaces => ~(Answer \/ Read \/ Patch \/ Patched \/ \E p \in Paths : Write(p))
    BY DEF Answer, Read, Patch, Patched, Write, ToolDone, NextCall, RunPlaces
  <2>8. QED BY <1>5, <2>1, <2>2, <2>3, <2>4, <2>5, <2>6, <2>7 DEF Inside
<1>6. CASE Ended
  <2>1. CASE Stage # "verification"
    <3>1. pc' \in {"calls", "done"}
      BY <1>6, <2>1 DEF Ended, ToolDone, NextCall
    <3>2. QED BY <1>6, <3>1 DEF Ended, Elsewhere, history, RunPlaces, Snapshot
  <2>2. CASE Stage = "verification"
    <3>1. /\ pc' = "checked" /\ results'.digest = seen /\ results'.snapshot = copy
          /\ pc \in {"running", "released"} /\ UNCHANGED <<files, spent, history>>
          /\ agent'.verified = agent.verified
      BY <1>6, <2>2 DEF Ended, Elsewhere
    <3>2. ASSUME spent.outside < 2, files = seen PROVE copy = seen
      <4>1. copy \in [Paths -> Contents] /\ seen \in [Paths -> Contents]
        BY DEF TypeOK, Workspaces
      <4>2. \A p \in Paths : copy[p] = seen[p]
        BY <3>1, <3>2 DEF Snapshot, RunPlaces
      <4>3. QED BY <4>1, <4>2
    <3>3. spent.outside = 0 => files = seen
      BY <3>1 DEF Snapshot, RunPlaces
    <3>4. QED BY <3>1, <3>2, <3>3 DEF history, RunPlaces, Snapshot
  <2>3. QED BY <2>1, <2>2
<1>7. CASE StageEnds
  BY <1>7, <1>0 DEF StageEnds, Snapshot, RunPlaces
<1>8. CASE Drafted
  BY <1>8, <1>0 DEF Drafted, history, Snapshot, RunPlaces
<1>9. CASE Noting
  BY <1>9, <1>0 DEF Noting, Same, Elsewhere, history, Snapshot, RunPlaces
<1>10. CASE Completing
  BY <1>10, <1>0 DEF Completing, Same, Elsewhere, history, Snapshot, RunPlaces
<1>11. CASE Settling
  BY <1>11, <1>0 DEF Settling, Elsewhere, history, Snapshot, RunPlaces
<1>12. CASE Recovering
  BY <1>12, <1>0 DEF Recovering, Same, Elsewhere, history, Snapshot, RunPlaces
<1>13. CASE Resuming
  BY <1>13, <1>0 DEF Resuming, Same, Elsewhere, loop, memory, history, Snapshot, RunPlaces
<1>14. CASE Crashing
  BY <1>14, <1>0 DEF Crashing, Snapshot, RunPlaces
<1>15. CASE World
  BY <1>15, <1>0 DEF World, history, Snapshot, RunPlaces
<1>16. CASE Tampering
  BY <1>16, <1>0 DEF Tampering, loop, memory, history, Snapshot, RunPlaces
<1>17. CASE Looking
  BY <1>17, <1>0 DEF Looking, Snapshot, RunPlaces
<1>18. CASE Counting
  BY <1>18, <1>0 DEF Counting, Elsewhere, history, Snapshot, RunPlaces
<1>19. QED
  BY StepCases, <1>1, <1>2, <1>3, <1>4, <1>5, <1>6, <1>7, <1>8,
     <1>9, <1>10, <1>11, <1>12, <1>13, <1>14, <1>15, <1>16, <1>17, <1>18

-----------------------------------------------------------------------------
(* The first state satisfies the invariant.                                 *)
LEMMA InitInvariant == Init => IInv
<1> SUFFICES ASSUME Init PROVE IInv
  OBVIOUS
<1> USE DEF Init
<1>1. TypeOK
  <2>1. task \in TaskType /\ agent \in AgentType
    BY DEF TaskType, AgentType, Stages, Reasons, Fits
  <2>2. seen \in Workspaces /\ copy \in Workspaces /\ todo \in SUBSET Paths
    BY EmptyType
  <2>3. /\ pc \in Places /\ revoked \in Reasons
        /\ spent \in [people : Nat, outside : Nat, faults : Nat]
    BY DEF Places, Reasons
  <2>4. github \in Agreements /\ owing \in BOOLEAN /\ overtaken \in BOOLEAN /\ ran \in BOOLEAN /\ torn \in BOOLEAN
    BY DEF Agreements
  <2>5. /\ files \in Workspaces /\ runEpoch \in Nat /\ results \in CheckType \cup {None} /\ left \in Int
        /\ released \in Nat /\ tested \in Workspaces \cup {None} /\ looked \in Nat
    OBVIOUS
  <2>6. QED BY <2>1, <2>2, <2>3, <2>4, <2>5 DEF TypeOK
<1>2. Stepping /\ TornLost /\ OwingKept /\ PatchInForce /\ ReviewInForce /\ Drafting /\ RequirementsComplete
  BY DEF Stepping, TornLost, OwingKept, PatchInForce, ReviewInForce, Drafting, RequirementsComplete
<1>3. RepairsCounted
  BY LimitsType DEF RepairsCounted
<1>4. Snapshot
  BY DEF Snapshot, RunPlaces
<1>5. QED BY <1>1, <1>2, <1>3, <1>4 DEF IInv

(* What every reachable state satisfies.                                    *)
THEOREM Invariant == Spec => []IInv
<1>1. IInv /\ [Next]_vars => IInv'
  <2> SUFFICES ASSUME IInv, [Next]_vars PROVE IInv'
    OBVIOUS
  <2>1. TypeOK /\ Stepping /\ agent.repairs <= Repairs
    BY DEF IInv, RepairsCounted
  <2>2. TypeOK' /\ Stepping'
    BY <2>1, TypeStep, SteppingStep
  <2>3. TornLost' /\ OwingKept' /\ RepairsCounted'
    BY <2>1, TornStep, OwingStep, RepairsStep DEF IInv
  <2>4. PatchInForce' /\ ReviewInForce' /\ Drafting' /\ RequirementsComplete' /\ Snapshot'
    BY <2>1, PatchStep, ReviewStep, DraftingStep, CompleteStep, SnapshotStep DEF IInv
  <2>5. QED BY <2>2, <2>3, <2>4 DEF IInv
<1>2. QED BY InitInvariant, <1>1, PTL DEF Spec

(* The task, the record of the agent, the workspace and the step that runs  *)
(* keep their types (engine.py, _transition, _settle).                      *)
THEOREM TypeCorrect == Spec => []TypeOK
<1>1. IInv => TypeOK
  BY DEF IInv
<1>2. QED BY Invariant, <1>1, PTL

(* For any number of repairs, at most one run more is released than they    *)
(* allow (_checks, _consume_repair, _model_round).                          *)
THEOREM RepairsBounded == Spec => []RepairBudget
<1>1. IInv => RepairBudget
  <2>1. TypeOK => agent.repairs \in Nat /\ released \in Nat
    BY AgentFields DEF TypeOK
  <2>2. QED BY <2>1, LimitsType DEF IInv, RepairsCounted, RepairBudget
<1>2. QED BY Invariant, <1>1, PTL

(* Requirements rest on every amendment there is, whoever amends whenever   *)
(* (_context, _transition, needs_requirements_refresh).                     *)
THEOREM RequirementsAreComplete == Spec => []RequirementsComplete
<1>1. IInv => RequirementsComplete
  BY DEF IInv
<1>2. QED BY Invariant, <1>1, PTL

(* A patch changes files only under the approvals its step began with       *)
(* (_tool, apply_patch).                                                    *)
THEOREM PatchesAuthorised == Spec => PatchAuthorised
<1>1. IInv /\ [Next]_vars =>
        [\A p \in Paths : Write(p) =>
           /\ task.approved /\ ~task.paused /\ ~task.over
           /\ agent.progress.epoch = task.epoch]_vars
  BY DEF IInv, PatchInForce, Write
<1>2. QED BY Invariant, <1>1, PTL DEF Spec, PatchAuthorised

(* A step begins from a settled session and a whole workspace (step, resume,*)
(* recover, needs_requirements_refresh).                                    *)
THEOREM StepsStartSettled == Spec => StartsSettled
<1>1. IInv /\ [Next]_vars =>
        [agent.progress = None /\ agent'.progress # None => ~owing /\ ~torn]_vars
  <2> SUFFICES ASSUME IInv, [Next]_vars, agent.progress = None, agent'.progress # None
               PROVE  ~owing /\ ~torn
    OBVIOUS
  <2>1. TypeOK /\ Stepping /\ agent.repairs <= Repairs /\ TornLost /\ OwingKept
    BY DEF IInv, RepairsCounted
  <2>2. pc = "idle"
    BY <2>1 DEF Stepping
  <2>3. Starting
    BY <2>1, <2>2, StepCases
    DEF Idling, Failing, Breakable, Asking, Within, RunPlaces, Ended, StageEnds, Looking, Counting, Drafted,
        Noting, Completing, Settling, Recovering, Resuming, Same, Crashing, World, Tampering
  <2>4. ~Lost
    BY <2>3 DEF Lost, Starting, Scheduled, NeedsRefresh
  <2>5. QED
    BY <2>1, <2>2, <2>3, <2>4 DEF TornLost, OwingKept, Starting, Scheduled, RefreshRefused, Idle, RunPlaces
<1>2. QED BY Invariant, <1>1, PTL DEF Spec, StartsSettled

(* What is called ready is what was run, reviewed and approved, for all     *)
(* workspaces and budgets: its copy was tested unless two outside changes   *)
(* came, and it is still what the review looked at unless one came after    *)
(* the look (_checks, step, _model_round).                                  *)
THEOREM ReadyIsTested == Spec => ReadyTested
<1>1. IInv /\ [Next]_vars =>
        [agent'.status = "ready_for_pr" /\ agent.status # "ready_for_pr" =>
           /\ spent.outside = looked => files = agent.verified
           /\ spent.outside < 2 => tested = agent.verified
           /\ task.approved /\ agent.progress.epoch = task.epoch]_vars
  <2> SUFFICES ASSUME IInv, [Next]_vars, agent'.status = "ready_for_pr", agent.status # "ready_for_pr"
               PROVE  /\ spent.outside = looked => files = agent.verified
                      /\ spent.outside < 2 => tested = agent.verified
                      /\ task.approved /\ agent.progress.epoch = task.epoch
    OBVIOUS
  <2>1. TypeOK /\ Stepping /\ agent.repairs <= Repairs /\ Snapshot /\ ReviewInForce
    BY DEF IInv, RepairsCounted
  <2>2. StageEnds
    BY <2>1, StepCases, FailFields
    DEF Idling, Starting, Asking, Within, Ended, Looking, Counting, Drafted, Noting, Completing,
        Settling, Recovering, Resuming, Same, Crashing, World, Tampering
  <2>3. QED BY <2>1, <2>2 DEF StageEnds, Snapshot, ReviewInForce
<1>2. QED BY Invariant, <1>1, PTL DEF Spec, ReadyTested

-----------------------------------------------------------------------------
(* Nothing but people, the requirements and the design changes the task.    *)
LEMMA OtherSteps ==
  ASSUME [Next]_vars, ~People, ~Normalize, ~ProposeDesign
  PROVE  UNCHANGED <<task, github>>
<1> USE DEF Elsewhere
<1>1. CASE Driver
  BY <1>1 DEF Driver, RefuseRefresh, Wait, Exhaust, Reserve
<1>2. CASE Refused \/ Breaks \/ Ask \/ Answer \/ Read \/ Patch \/ Patched \/ \E p \in Paths : Write(p) \/ Copy(p)
  BY <1>2 DEF Refused, Breaks, Ask, Answer, Read, Patch, Patched, Write, Copy
<1>3. CASE RunChecks \/ Lease \/ Prepare \/ ReserveRun \/ RunEnds \/ PrepareRepair \/ ConsumeRepair
  BY <1>3 DEF RunChecks, Lease, Prepare, ReserveRun, RunEnds, PrepareRepair, ConsumeRepair
<1>4. CASE Checked \/ NoteBasis \/ LeaveRequirements \/ Implemented \/ Review \/ Ready \/ CountFindings
         \/ RepairFindings \/ Complete \/ Settle
  BY <1>4 DEF Checked, NoteBasis, LeaveRequirements, Implemented, Review, Ready, CountFindings,
              RepairFindings, Complete, Settle
<1>5. CASE Watch \/ Cancel \/ Expire \/ Crash \/ Recover \/ ResumeStep \/ Tamper \/ UNCHANGED vars
  BY <1>5 DEF Watch, Cancel, Expire, Revoke, Crash, Recover, ResumeStep, Tamper, vars
<1> QED BY <1>1, <1>2, <1>3, <1>4, <1>5 DEF Next, Step

(* Whatever changes the task advances its terms.                            *)
LEMMA TermsStep ==
  ASSUME TypeOK, Stepping, Revocable, [Next]_vars
  PROVE  Revocable' /\ (Advances \/ UNCHANGED task)
<1>1. CASE People
  <2>1. Advances \/ UNCHANGED task
    BY <1>1, PeopleTask
  <2>2. CASE Amend \/ Reconcile \/ Recapture \/ Refresh \/ Stand \/ OtherCommit
    <3>1. Revocable'
      BY <2>2 DEF Amend, Reconcile, Recapture, Refresh, Stand, OtherCommit, Commit, Revocable
    <3> QED BY <2>1, <3>1
  <2>3. CASE Approve \/ ApproveDesign \/ Stop \/ Unpause \/ End
    <3>1. github' = github
      BY <2>3 DEF Approve, ApproveDesign, Stop, Unpause, End, Commit
    <3>2. task'.drafted = task.drafted
      BY <2>3, HeldTask DEF Held
    <3> QED BY <2>1, <3>1, <3>2 DEF Revocable
  <2> QED BY <1>1, <2>2, <2>3 DEF People
<1>2. CASE Normalize
  BY <1>2, WrittenTask DEF Revocable
<1>3. CASE ProposeDesign
  <2>1. Held /\ Advances /\ github' = github
    BY <1>3, WrittenTask DEF ProposeDesign
  <2> QED BY <2>1 DEF Held, Revocable
<1>4. CASE UNCHANGED <<task, github>>
  BY <1>4 DEF Revocable
<1> QED BY <1>1, <1>2, <1>3, <1>4, OtherSteps

(* The task an agent works on changes as the workflow engine changes it,    *)
(* whoever approves, amends, stops or ends it between any two places of a   *)
(* step (_guard, _transition; workflow/engine.py).                          *)
THEOREM ImplementsTerms == Spec => KeepsTerms
<1>1. Init => Shared!Init /\ Revocable
  BY DEF Init, Shared!Init, Shared!Fresh, TermsOf, Revocable
<1>2. IInv /\ Revocable /\ [Next]_vars => Revocable' /\ [Shared!Next]_(TermsOf(task))
  <2> SUFFICES ASSUME IInv, Revocable, [Next]_vars
               PROVE  Revocable' /\ [Shared!Next]_(TermsOf(task))
    OBVIOUS
  <2>1. Revocable' /\ (Advances \/ UNCHANGED task)
    BY TermsStep DEF IInv
  <2>2. CASE UNCHANGED task
    BY <2>1, <2>2 DEF TermsOf
  <2>3. CASE Advances
    BY <2>1, <2>3 DEF Advances, Shared!Next, TermsOf
  <2> QED BY <2>1, <2>2, <2>3
<1> QED BY <1>1, <1>2, Invariant, PTL DEF Spec, KeepsTerms, Shared!Spec
=============================================================================
