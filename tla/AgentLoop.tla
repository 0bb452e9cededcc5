------------------------------ MODULE AgentLoop ------------------------------
(***************************************************************************)
(* ai_dlc/agents/: the agent of one task goes from requirements to a       *)
(* verified and reviewed workspace, one step at a time.  A step is one     *)
(* answer of a model with the tools it calls, or the verification; it runs *)
(* outside the task lock except where a file is patched or a document is   *)
(* recorded, so that people, the repository and other writers of the       *)
(* workspace move between any two of its places.  The service may die      *)
(* anywhere.  What a step may do is asked again at each place (_guard) and *)
(* watched in between (_monitor).                                          *)
(*                                                                         *)
(* A workspace is the content of its paths and is its own digest.  One     *)
(* command stands for the configured ones: the first that does not succeed *)
(* ends them.  A reason that nothing reacts to is OTHER; a task that is    *)
(* not started waits as for an approval (START_REQUIRED).                  *)
(***************************************************************************)
EXTENDS Integers, FiniteSets

CONSTANTS
  None,
  Paths, Contents,                   \* Contents has "none", the absent file
  Repairs, ActiveSeconds,            \* AgentLimits
  MaxCalls,                          \* tool calls in one answer
  MaxPeople, MaxOutside, MaxFaults,  \* bounds, in the guards: of each kind of disturbance,
  MaxDisturbed                       \* of all of them

ASSUME WorkspaceType == Paths # {} /\ IsFiniteSet(Paths) /\ "none" \in Contents
ASSUME LimitsType == Repairs \in Nat /\ ActiveSeconds \in Nat /\ MaxCalls \in Nat
ASSUME BoundsType ==
  MaxPeople \in Nat /\ MaxOutside \in Nat /\ MaxFaults \in Nat /\ MaxDisturbed \in Nat

VARIABLES
  task,      \* what the guards read of the task
  github,    \* how GitHub and the configuration agree with what is recorded
  agent,     \* the durable record of the agent
  owing,     \* a request or a tool of the session is not settled
  files,     \* the workspace
  pc,        \* the place of the step that runs
  revoked,   \* what the monitor, or a cancellation, found
  seen, copy, todo, \* before and after of a patch; observed workspace and its snapshot
  runEpoch,  \* the epoch the checks read
  overtaken, \* another commit came after it
  results,   \* what _checks returns: whether the command succeeded, on which workspace
  ran, left, \* the step has reserved its run; its tool calls to come
  released,  \* history: failed runs released for repair
  torn,      \* history: a patch stopped between two files
  tested,    \* history: the snapshot behind the verified digest
  looked,    \* history: the outside changes before the review looked at the files
  spent

memory == <<seen, copy, todo, runEpoch, overtaken, results>>
loop == <<pc, revoked, memory, ran, left>>
history == <<released, torn, tested, looked>>
vars == <<task, github, agent, owing, files, loop, history, spent>>

Workspaces == [Paths -> Contents]
Empty == [p \in Paths |-> "none"]
Stages == {"requirements", "design", "implementation", "test_generation", "verification", "review"}
Writing == {"implementation", "test_generation"}
Waiting == {"APPROVAL_REQUIRED", "GATE_CLOSED", "AGENT_PAUSED"}
Reasons == Waiting \cup {"none", "AGENT_BASIS_CHANGED", "AGENT_CANCELLED", "RUN_STOPPED",
                         "AGENT_RECOVERY_REQUIRED", "AGENT_ACTIVE_BUDGET", "OTHER"}
Places == {"idle", "down", "begin", "asked", "calls", "patching", "checks", "leased", "copying",
           "running", "failed", "released", "checked", "text", "normalized", "noted", "reviewed", "counted",
           "done", "settling"}
(* "revoked": what an approval rests on is gone.  "differs": the source is, *)
(* or the configuration the service runs with.                              *)
Agreements == {"agrees", "revoked", "differs"}
(* The source and the configuration the agent was started for.              *)
Fits == {"current", "reconfigured", "moved"}
TaskType ==
  [drafted : BOOLEAN, asked : Nat, approved : BOOLEAN, paused : BOOLEAN, over : BOOLEAN, epoch : Nat,
   amended : Nat, design : {"none", "open", "proposed", "ready"}, fit : Fits]
StepType == [stage : Stages, epoch : Nat]
CheckType == [ok : BOOLEAN, digest : Workspaces, snapshot : Workspaces]
AgentType ==
  [stage : Stages, status : {"queued", "running", "waiting_human", "blocked", "ready_for_pr"},
   reason : Reasons, context : Nat \cup {None}, progress : StepType \cup {None}, repairs : Nat,
   seconds : Int, amended : Nat, verified : Workspaces \cup {None}]

ASSUME NoneType == None \notin Nat /\ None \notin StepType /\ None \notin CheckType

TypeOK ==
  /\ task \in TaskType /\ github \in Agreements
  /\ agent \in AgentType /\ owing \in BOOLEAN
  /\ files \in Workspaces
  /\ pc \in Places /\ revoked \in Reasons
  /\ seen \in Workspaces /\ copy \in Workspaces /\ todo \in SUBSET Paths
  /\ runEpoch \in Nat /\ overtaken \in BOOLEAN /\ results \in CheckType \cup {None}
  /\ ran \in BOOLEAN /\ left \in Int
  /\ released \in Nat /\ torn \in BOOLEAN /\ tested \in Workspaces \cup {None}
  /\ looked \in Nat
  /\ spent \in [people : Nat, outside : Nat, faults : Nat]

(* A captured source, a prepared workspace, and start().                    *)
Init ==
  /\ task = [drafted |-> FALSE, asked |-> 0, approved |-> FALSE, paused |-> FALSE, over |-> FALSE,
             epoch |-> 0, amended |-> 0, design |-> "none", fit |-> "current"]
  /\ github = "agrees"
  /\ agent = [stage |-> "requirements", status |-> "queued", reason |-> "none", context |-> None,
              progress |-> None, repairs |-> 0, seconds |-> 0, amended |-> 0, verified |-> None]
  /\ owing = FALSE
  /\ files \in Workspaces /\ \A p \in Paths : files[p] # "none"
  /\ pc = "idle" /\ revoked = "none" /\ seen = Empty /\ copy = Empty /\ todo = {}
  /\ runEpoch = 0 /\ overtaken = FALSE /\ results = None /\ ran = FALSE /\ left = 0
  /\ released = 0 /\ torn = FALSE /\ tested = None /\ looked = 0
  /\ spent = [people |-> 0, outside |-> 0, faults |-> 0]

-----------------------------------------------------------------------------
(* What the workflow engine makes of the task.                              *)
TermsOf(t) ==
  [drafted |-> t.drafted, approved |-> t.approved, design |-> t.design, paused |-> t.paused,
   over |-> t.over, epoch |-> t.epoch]
Shared == INSTANCE Terms WITH terms <- TermsOf(task)

Approved(stage) ==
  stage = "requirements" \/ (task.approved /\ (stage = "design" \/ task.design # "proposed"))
Designed(stage) == stage \in {"requirements", "design"} \/ task.design \in {"ready", "proposed"}

Accepting == ~task.over /\ github # "differs"

(* _guard: the reason it raises, or none.                                   *)
Guard(stage) ==
  IF ~Accepting THEN "OTHER"
  ELSE IF task.paused THEN "AGENT_PAUSED"
  ELSE IF task.fit # "current" \/ (stage # "requirements" /\ github = "revoked") THEN "OTHER"
  ELSE IF ~Approved(stage) THEN "APPROVAL_REQUIRED"
  ELSE IF ~Designed(stage) THEN "GATE_CLOSED"
  ELSE "none"

(* Mutant: the epoch is not compared.                                       *)
GuardAnyEpoch(stage, epoch) == Guard(stage)

GuardSince(stage, epoch) ==
  IF Accepting /\ ~task.paused /\ task.fit = "current" /\ epoch # task.epoch
  THEN "AGENT_BASIS_CHANGED" ELSE Guard(stage)

Or(first, second) == IF first # "none" THEN first ELSE second
Cancelled == IF revoked # "none" THEN "AGENT_CANCELLED" ELSE "none"

(* What the guards of a place raise.                                        *)
Verdict ==
  LET step == agent.progress IN
  CASE pc = "begin" -> Cancelled
    [] pc \in {"asked", "checked"} -> Or(revoked, GuardSince(step.stage, step.epoch))
    [] pc = "calls" -> Or(GuardSince(step.stage, step.epoch), Cancelled)
    [] pc = "text" -> GuardSince(step.stage, step.epoch)
    [] pc = "checks" -> Guard("verification")
    [] pc = "leased" -> Or(Cancelled, GuardSince("verification", runEpoch))

Guarded == {"begin", "asked", "checked", "calls", "text", "checks", "leased"}
Granted(place) == pc = place /\ Verdict = "none"

(* _transition.  Mutant: the session of the former stage goes on.           *)
MovedInSession(a, stage) == [a EXCEPT !.stage = stage, !.status = "queued", !.reason = "none"]
Moved(a, stage) ==
  [a EXCEPT !.stage = stage, !.context = None, !.status = "queued", !.reason = "none"]

Blocked(a, reason) == [a EXCEPT !.status = "blocked", !.reason = reason]

(* Seconds: an answer, the command.                                         *)
Reserved(stage) == IF stage \in Writing THEN 2 ELSE 1

-----------------------------------------------------------------------------
(* step, from the driver.  needs_requirements_refresh: an amendment takes   *)
(* the task back to its requirements, if the last step ended cleanly.       *)
NeedsRefresh ==
  /\ ~task.drafted /\ task.amended # agent.amended
  /\ agent.stage # "requirements" /\ agent.progress = None
  /\ agent.reason \in {"none", "APPROVAL_REQUIRED", "GATE_CLOSED", "AGENT_BASIS_CHANGED",
                       "AGENT_CANCELLED"}

Scheduled ==
  /\ pc = "idle" /\ agent.progress = None
  /\ agent.status \notin {"blocked", "ready_for_pr"} \/ NeedsRefresh

Idle == ~owing
RefreshRefused == NeedsRefresh /\ (Guard("requirements") # "none" \/ ~Idle)
Taken == IF NeedsRefresh THEN Moved(agent, "requirements") ELSE agent

Elsewhere == UNCHANGED <<task, github, files, history, spent>>
Place == UNCHANGED <<revoked, memory, ran, left>>

(* What a patch, the checks or a step kept in memory is gone with them.     *)
Forget ==
  seen' = Empty /\ copy' = Empty /\ todo' = {} /\ runEpoch' = 0 /\ overtaken' = FALSE
Over(place) ==
  Forget /\ results' = None /\ pc' = place /\ revoked' = "none" /\ ran' = FALSE /\ left' = 0

RefuseRefresh ==
  /\ Scheduled /\ RefreshRefused
  /\ agent' = Blocked(agent, Or(Guard("requirements"), "OTHER"))
  /\ UNCHANGED <<owing, loop>> /\ Elsewhere

Wait ==
  /\ Scheduled /\ ~RefreshRefused
  /\ LET reason == Guard(Taken.stage) IN
       /\ reason # "none"
       /\ agent' = [Taken EXCEPT !.status = IF reason \in Waiting THEN "waiting_human" ELSE "blocked",
                                 !.reason = reason]
  /\ UNCHANGED <<owing, loop>> /\ Elsewhere

Affordable == Taken.seconds + Reserved(Taken.stage) <= ActiveSeconds

Exhaust ==
  /\ Scheduled /\ ~RefreshRefused /\ Guard(Taken.stage) = "none" /\ ~Affordable
  /\ agent' = Blocked(Taken, "AGENT_ACTIVE_BUDGET")
  /\ UNCHANGED <<owing, loop>> /\ Elsewhere

Reserve ==
  /\ Scheduled /\ ~RefreshRefused /\ Guard(Taken.stage) = "none" /\ Affordable
  /\ agent' = [Taken EXCEPT !.progress = [stage |-> Taken.stage, epoch |-> task.epoch],
                            !.seconds = Taken.seconds + Reserved(Taken.stage),
                            !.status = "running", !.reason = "none"]
  /\ pc' = "begin"
  /\ UNCHANGED owing /\ Place /\ Elsewhere

-----------------------------------------------------------------------------
(* A step.  What raises an AgentError blocks the agent.                     *)
Fail(reason) == agent' = Blocked(agent, reason) /\ pc' = "settling"

Stage == agent.progress.stage

Refused ==
  /\ pc \in Guarded /\ Verdict # "none" /\ Fail(Verdict)
  /\ owing' \in (IF pc = "asked" THEN BOOLEAN ELSE {owing})
  /\ Place /\ Elsewhere

(* Any call in a step may raise: a request, a file, a document, the run.    *)
Breakable == Places \ {"idle", "down", "released", "normalized", "noted", "done", "settling"}
Breaks ==
  /\ pc \in Breakable
  /\ Fail(IF pc = "asked" THEN Or(Cancelled, "OTHER") ELSE "OTHER")
  /\ torn' = (torn \/ pc = "patching")
  /\ owing' \in (IF pc = "asked" THEN BOOLEAN ELSE {owing})
  /\ Place /\ UNCHANGED <<task, github, files, released, tested, looked, spent>>

Ask ==
  /\ Granted("begin") /\ Stage # "verification"
  /\ agent' = [agent EXCEPT !.context = IF @ = None THEN task.amended ELSE @]
  /\ owing' = TRUE /\ pc' = "asked"
  /\ Place /\ Elsewhere

Answer ==
  /\ Granted("asked")
  /\ \/ owing' = FALSE /\ pc' = "text" /\ UNCHANGED left
     \/ left' \in 1..MaxCalls /\ pc' = "calls" /\ UNCHANGED owing
  /\ UNCHANGED <<agent, revoked, memory, ran>> /\ Elsewhere

(* The tools.  Each is claimed before and recorded after its effect; the    *)
(* last one settles the session.                                            *)
NextCall == IF left = 1 THEN "done" ELSE "calls"
ToolDone ==
  /\ pc' = NextCall /\ left' = left - 1
  /\ owing' = (left # 1)
  /\ Forget /\ results' = None /\ UNCHANGED <<revoked, ran>>

Read == Granted("calls") /\ ToolDone /\ UNCHANGED agent /\ Elsewhere

Patch ==
  /\ Granted("calls") /\ Stage \in Writing
  /\ copy' \in Workspaces \ {files}
  /\ seen' = files /\ todo' = {p \in Paths : copy'[p] # files[p]}
  /\ pc' = "patching"
  /\ UNCHANGED <<agent, owing, revoked, runEpoch, overtaken, results, ran, left>> /\ Elsewhere

(* apply_patch reads a file once more before it replaces it; a new one it   *)
(* does not.                                                                *)
Write(p) ==
  /\ pc = "patching" /\ p \in todo
  /\ files[p] = seen[p] \/ seen[p] = "none"
  /\ files' = [files EXCEPT ![p] = copy[p]]
  /\ todo' = todo \ {p}
  /\ UNCHANGED <<task, github, agent, owing, pc, revoked, seen, copy, runEpoch, overtaken,
                 results, ran, left, history, spent>>

Patched == pc = "patching" /\ todo = {} /\ ToolDone /\ UNCHANGED agent /\ Elsewhere

-----------------------------------------------------------------------------
(* _checks, as the verification or as a tool.                               *)
RunChecks ==
  /\ \/ Granted("begin") /\ Stage = "verification"
     \/ Granted("calls") /\ Stage \in Writing
  /\ pc' = "checks"
  /\ UNCHANGED <<agent, owing>> /\ Place /\ Elsewhere

Lease ==
  /\ Granted("checks")
  /\ runEpoch' = task.epoch /\ seen' = files /\ pc' = "leased"
  /\ UNCHANGED <<agent, owing, revoked, copy, todo, overtaken, results, ran, left>> /\ Elsewhere

Present == {p \in Paths : seen[p] # "none"}
Prepare ==
  /\ Granted("leased") /\ Present # {}
  /\ overtaken' = FALSE /\ copy' = Empty /\ todo' = Present /\ pc' = "copying"
  /\ UNCHANGED <<agent, owing, revoked, seen, runEpoch, results, ran, left>> /\ Elsewhere

Copy(p) ==
  /\ pc = "copying" /\ p \in todo /\ files[p] # "none"
  /\ copy' = [copy EXCEPT ![p] = files[p]] /\ todo' = todo \ {p}
  /\ UNCHANGED <<agent, owing, pc, revoked, seen, runEpoch, overtaken, results, ran,
                 left>> /\ Elsewhere

(* The gate wants the revision the checks read, the run an identity of its  *)
(* own: the second of a step has that of the first.                         *)
ReserveRun ==
  /\ pc = "copying" /\ todo = {}
  /\ ~overtaken /\ ~ran /\ Guard("verification") = "none"
  /\ ran' = TRUE /\ pc' = "running"
  /\ UNCHANGED <<agent, owing, revoked, memory, left>> /\ Elsewhere

RunBasis == GuardSince("verification", runEpoch) = "none"

ChecksDone(ok) ==
  IF Stage = "verification"
  THEN /\ pc' = "checked" /\ Forget
       /\ results' = [ok |-> ok, digest |-> seen, snapshot |-> copy]
       /\ UNCHANGED <<owing, revoked, ran, left>>
  ELSE ToolDone

RunSucceeds == ChecksDone(TRUE) /\ UNCHANGED agent
RunFails == pc' = "failed" /\ UNCHANGED <<agent, owing>> /\ Place

Stopped == ~RunBasis \/ revoked # "none"
StoppedFor == IF revoked = "none" /\ task.epoch = runEpoch THEN "OTHER" ELSE "RUN_STOPPED"

(* The command has ended; what changed meanwhile is looked for first.       *)
RunEnds ==
  /\ pc = "running"
  /\ \/ files # seen /\ Fail("OTHER") /\ UNCHANGED owing /\ Place
     \/ files = seen /\ Stopped /\ Fail(StoppedFor) /\ UNCHANGED owing /\ Place
     \/ files = seen /\ ~Stopped /\ (RunSucceeds \/ RunFails)
  /\ Elsewhere

(* prepare_repair, and in a commit of its own the count.                    *)
PrepareRepair ==
  /\ pc = "failed" /\ RunBasis
  /\ released' = released + 1 /\ pc' = "released"
  /\ UNCHANGED <<task, github, agent, owing, files, torn, tested, looked, spent>> /\ Place

(* Mutant: the repairs of a tool are free.                                  *)
CountInVerification ==
  /\ pc = "released"
  /\ \/ /\ agent.repairs < Repairs
        /\ agent' = [agent EXCEPT !.repairs = IF Stage = "verification" THEN @ + 1 ELSE @]
        /\ ChecksDone(FALSE)
     \/ agent.repairs >= Repairs /\ Fail("OTHER") /\ UNCHANGED owing /\ Place
  /\ Elsewhere

ConsumeRepair ==
  /\ pc = "released"
  /\ \/ /\ agent.repairs < Repairs
        /\ agent' = [agent EXCEPT !.repairs = @ + 1]
        /\ ChecksDone(FALSE)
     \/ agent.repairs >= Repairs /\ Fail("OTHER") /\ UNCHANGED owing /\ Place
  /\ Elsewhere

Checked ==
  /\ Granted("checked")
  /\ \/ ~results.ok /\ agent' = Moved(agent, "implementation") /\ UNCHANGED tested
     \/ /\ results.ok /\ files = results.digest
        /\ agent' = Moved([agent EXCEPT !.verified = files], "review")
        /\ tested' = results.snapshot
  /\ pc' = "done" /\ UNCHANGED <<task, github, owing, files, released, torn, looked, spent>> /\ Place

-----------------------------------------------------------------------------
(* A text ends its stage.  The document of the requirements, the amendments *)
(* they rest on and the next stage are three commits under one lock.        *)
(* Mutant: in the epoch of the former ones.                                 *)
NormalizeInEpoch ==
  /\ Granted("text") /\ Stage = "requirements"
  /\ task' = [Shared!Draft(task) EXCEPT !.asked = agent.context, !.epoch = task.epoch]
  /\ pc' = "normalized"
  /\ UNCHANGED <<github, agent, owing, files, history, spent>> /\ Place

Normalize ==
  /\ Granted("text") /\ Stage = "requirements"
  /\ task' = [Shared!Draft(task) EXCEPT !.asked = agent.context]
  /\ pc' = "normalized"
  /\ UNCHANGED <<github, agent, owing, files, history, spent>> /\ Place

NoteBasis ==
  /\ pc = "normalized" /\ agent' = [agent EXCEPT !.amended = task.amended] /\ pc' = "noted"
  /\ UNCHANGED owing /\ Place /\ Elsewhere

LeaveRequirements ==
  /\ pc = "noted" /\ agent' = Moved(agent, "design") /\ pc' = "done"
  /\ UNCHANGED owing /\ Place /\ Elsewhere

ProposeDesign ==
  /\ Granted("text") /\ Stage = "design"
  /\ \E design \in {"open", "proposed", "ready"} :
       task' = Shared!Propose(task, design)
  /\ agent' = Moved(agent, "implementation") /\ pc' = "done"
  /\ UNCHANGED <<github, owing, files, history, spent>> /\ Place

Implemented ==
  /\ Granted("text") /\ Stage \in Writing
  /\ agent' = Moved(agent, IF Stage = "implementation" THEN "test_generation" ELSE "verification")
  /\ pc' = "done" /\ UNCHANGED owing /\ Place /\ Elsewhere

(* The files are looked at, the review is recorded, and then either the     *)
(* repair is counted and the stage goes back, or the agent is ready.        *)
(* Mutant: they are not looked at.                                          *)
ReviewAnyway ==
  /\ Granted("text") /\ Stage = "review"
  /\ pc' = "reviewed" /\ looked' = spent.outside
  /\ UNCHANGED <<task, github, agent, owing, files, released, torn, tested, spent>> /\ Place

Review ==
  /\ Granted("text") /\ Stage = "review" /\ files = agent.verified
  /\ pc' = "reviewed" /\ looked' = spent.outside
  /\ UNCHANGED <<task, github, agent, owing, files, released, torn, tested, spent>> /\ Place

Ready ==
  /\ pc = "reviewed" /\ agent' = [agent EXCEPT !.status = "ready_for_pr"]
  /\ pc' = "done" /\ UNCHANGED owing /\ Place /\ Elsewhere

CountFindings ==
  /\ pc = "reviewed" /\ agent.repairs < Repairs
  /\ agent' = [agent EXCEPT !.repairs = @ + 1]
  /\ pc' = "counted" /\ UNCHANGED owing /\ Place /\ Elsewhere

RepairFindings ==
  /\ pc = "counted" /\ agent' = Moved(agent, "implementation")
  /\ pc' = "done" /\ UNCHANGED owing /\ Place /\ Elsewhere

Complete ==
  /\ pc = "done" /\ pc' = "settling"
  /\ agent' = [agent EXCEPT !.status = IF @ = "running" THEN "queued" ELSE @]
  /\ UNCHANGED owing /\ Place /\ Elsewhere

(* The reservation becomes the time that was used.  Mutant: a step over the *)
(* budget stays unfinished.                                                 *)
SettleWithin ==
  /\ pc = "settling"
  /\ \E elapsed \in {1, ActiveSeconds + 1} :
       LET used == agent.seconds + elapsed - Reserved(Stage) IN
       agent' = IF used > ActiveSeconds THEN agent
                ELSE [agent EXCEPT !.progress = None, !.seconds = used]
  /\ Over("idle") /\ UNCHANGED owing /\ Elsewhere

Settle ==
  /\ pc = "settling"
  /\ \E elapsed \in {1, ActiveSeconds + 1} :
       LET used == agent.seconds + elapsed - Reserved(Stage)
           settled == [agent EXCEPT !.progress = None, !.seconds = used]
       IN agent' = IF used > ActiveSeconds THEN Blocked(settled, "AGENT_ACTIVE_BUDGET") ELSE settled
  /\ Over("idle") /\ UNCHANGED owing /\ Elsewhere

-----------------------------------------------------------------------------
Calm == spent.people + spent.outside + spent.faults < MaxDisturbed

(* The monitor, and the cancellation of the handler by the service.         *)
Watched == {"asked", "calls", "patching", "checks", "leased", "copying", "running", "failed",
            "released", "checked"}
Revoke(reason) ==
  /\ revoked = "none" /\ reason # "none"
  /\ revoked' = reason
  /\ UNCHANGED <<task, github, agent, owing, files, pc, memory, ran, left, history>>

Watch ==
  pc \in Watched /\ Revoke(GuardSince(Stage, agent.progress.epoch)) /\ UNCHANGED spent

Fault == Calm /\ spent.faults < MaxFaults /\ spent' = [spent EXCEPT !.faults = @ + 1]
Cancel == pc \in Watched \cup {"begin"} /\ Fault /\ Revoke("AGENT_CANCELLED")
(* The monitor finds the time of the agent used up.                        *)
Expire == pc \in Watched /\ Fault /\ Revoke("AGENT_ACTIVE_BUDGET")

Crash ==
  /\ Fault /\ pc \notin {"idle", "down"}
  /\ torn' = (torn \/ pc = "patching")
  /\ Over("down")
  /\ UNCHANGED <<task, github, agent, owing, files, released, tested, looked>>

(* recover, when the service starts again.  Mutant: it finishes the step.   *)
RecoverAndGoOn ==
  /\ pc = "down" /\ pc' = "idle"
  /\ agent' = [agent EXCEPT !.progress = None, !.status = "queued"]
  /\ UNCHANGED owing /\ Place /\ Elsewhere

Recover ==
  /\ pc = "down" /\ pc' = "idle"
  /\ agent' = Blocked(agent, "AGENT_RECOVERY_REQUIRED")
  /\ UNCHANGED owing /\ Place /\ Elsewhere

(* resume, by the operator.                                                 *)
ResumeStep ==
  /\ pc = "idle" /\ agent.progress = None
  /\ agent.reason \in {"AGENT_PAUSED", "AGENT_BASIS_CHANGED", "AGENT_CANCELLED"}
  /\ Guard(agent.stage) = "none" /\ Idle
  /\ agent' = [agent EXCEPT !.status = "queued", !.reason = "none"]
  /\ UNCHANGED <<owing, loop>> /\ Elsewhere

-----------------------------------------------------------------------------
(* A bound: nobody goes on once the agent is blocked for good.              *)
Final ==
  /\ pc = "idle" /\ agent.status = "blocked"
  /\ agent.reason \in {"OTHER", "AGENT_ACTIVE_BUDGET", "AGENT_RECOVERY_REQUIRED"}

(* People, when the step does not hold the task lock.                       *)
Locked == pc \in {"patching", "normalized", "noted", "reviewed", "counted"}
Commit(new, agreement) ==
  /\ ~Locked /\ ~Final
  /\ task' = new /\ github' = agreement /\ overtaken' = (overtaken \/ pc = "copying")
  /\ UNCHANGED <<agent, owing, files, pc, revoked, seen, copy, todo, runEpoch, results, ran, left,
                 history>>
Person == Calm /\ spent.people < MaxPeople /\ spent' = [spent EXCEPT !.people = @ + 1]

(* The requirements, the start, or both.                                    *)
Approve ==
  /\ ~task.over /\ github = "agrees" /\ Shared!Approvable(task)
  /\ \E new \in Shared!Approvals(task) : Commit(new, github)
  /\ UNCHANGED spent
ApproveDesign ==
  /\ ~task.over /\ github = "agrees" /\ Shared!DesignApprovable(task)
  /\ Commit(Shared!DesignApproved(task), github) /\ UNCHANGED spent
Amend ==
  /\ Person /\ Accepting /\ task.drafted
  /\ Commit([Shared!Reset(task) EXCEPT !.amended = task.amended + 1], "agrees")
Stop == Person /\ ~task.over /\ Commit(Shared!Paused(task, TRUE), github)
Unpause ==
  /\ ~task.over /\ github = "agrees" /\ task.paused
  /\ Commit(Shared!Paused(task, FALSE), github) /\ UNCHANGED spent
End == Person /\ ~task.over /\ Commit(Shared!Ended(task), github)
OtherCommit == pc = "copying" /\ Commit(task, github) /\ UNCHANGED spent

(* An approval edited, a permission; an issue changed or closed, a service  *)
(* started again with another configuration.                                *)
Stand ==
  /\ ~Final /\ github' \in Agreements \ {github}
  /\ github' = "revoked" => task.drafted
  /\ IF github' = "agrees" THEN UNCHANGED spent ELSE Person
  /\ UNCHANGED <<task, agent, owing, files, loop, history>>

(* The engine takes note: approvals dropped, a new source, which forgets    *)
(* the amendments, a new policy, with which the agent may have begun.       *)
Reconcile ==
  /\ ~task.over /\ github = "revoked"
  /\ \E new \in Shared!Withdrawals(task) : Commit(new, "agrees")
  /\ UNCHANGED spent

Recapture ==
  /\ ~task.over /\ github = "differs"
  /\ \E closed \in BOOLEAN :
       Commit([Shared!Reset(task) EXCEPT !.over = closed, !.amended = 0, !.fit = "moved"], "agrees")
  /\ UNCHANGED spent

Refresh ==
  /\ ~task.over /\ github = "differs" /\ pc \in {"idle", "down"}
  /\ \E fit \in Fits :
       /\ (fit = "moved") = (task.fit = "moved")
       /\ fit = "current" => task.fit = "reconfigured"
       /\ Commit([Shared!Reset(task) EXCEPT !.fit = fit], "agrees")
  /\ UNCHANGED spent

(* Another writer of the workspace.                                         *)
Tamper ==
  /\ ~Final /\ Calm /\ spent.outside < MaxOutside
  /\ spent' = [spent EXCEPT !.outside = @ + 1]
  /\ \E p \in Paths : \E c \in Contents \ {files[p]} : files' = [files EXCEPT ![p] = c]
  /\ UNCHANGED <<task, github, agent, owing, loop, history>>

-----------------------------------------------------------------------------
Driver == RefuseRefresh \/ Wait \/ Exhaust \/ Reserve

Step ==
  \/ Refused \/ Breaks \/ Ask \/ Answer \/ Read \/ Patch \/ Patched
  \/ \E p \in Paths : Write(p) \/ Copy(p)
  \/ RunChecks \/ Lease \/ Prepare \/ ReserveRun \/ RunEnds \/ PrepareRepair \/ ConsumeRepair
  \/ Checked \/ Normalize \/ NoteBasis \/ LeaveRequirements \/ ProposeDesign \/ Implemented
  \/ Review \/ Ready \/ CountFindings \/ RepairFindings \/ Complete \/ Settle

People ==
  \/ Approve \/ ApproveDesign \/ Amend \/ Stop \/ Unpause \/ End \/ OtherCommit
  \/ Stand \/ Reconcile \/ Recapture \/ Refresh

Next == Driver \/ Step \/ Watch \/ Cancel \/ Expire \/ Crash \/ Recover \/ ResumeStep \/ People \/ Tamper

(* The service schedules every tick and recovers at every start; a call of  *)
(* a step returns, or raises at its time limit.                             *)
Fairness == WF_vars(Driver \/ Step \/ Recover)

Spec == Init /\ [][Next]_vars
FairSpec == Spec /\ Fairness

-----------------------------------------------------------------------------
(* What is called ready is what was run and reviewed: the command succeeded *)
(* on a copy of the very workspace that is verified, unless somebody changed *)
(* it behind the agent and changed it back, the files were that workspace    *)
(* when the review looked and are unless somebody changed them since, and    *)
(* the approvals are those the step began with (_checks, step,               *)
(* _model_round).                                                            *)
ReadyTested ==
  [][agent'.status = "ready_for_pr" /\ agent.status # "ready_for_pr" =>
       /\ spent.outside = looked => files = agent.verified
       /\ spent.outside < 2 => tested = agent.verified
       /\ task.approved /\ agent.progress.epoch = task.epoch]_vars

(* The agent changes a file only while the approvals and the epoch its step *)
(* began with are in force: a stop, an amendment or a withdrawal ends it    *)
(* for that step, even when it is taken back at once (_tool).               *)
PatchAuthorised ==
  [][\A p \in Paths : Write(p) =>
       /\ task.approved /\ ~task.paused /\ ~task.over
       /\ agent.progress.epoch = task.epoch]_vars

(* A step begins only where the last one left nothing unsettled: no request *)
(* in doubt, no claimed tool, no half-applied patch (step, resume, recover, *)
(* needs_requirements_refresh).                                             *)
StartsSettled ==
  [][agent.progress = None /\ agent'.progress # None => ~owing /\ ~torn]_vars

(* However failing runs, reviews and crashes alternate, at most one run     *)
(* more is released for repair than the budget has (_checks,                *)
(* _consume_repair).                                                        *)
RepairBudget == released <= Repairs + 1

(* The requirements people approve were written from every amendment        *)
(* (_context, _transition, needs_requirements_refresh).                     *)
RequirementsComplete == task.drafted => task.asked = task.amended

(* The task an agent works on changes as the workflow engine changes it.    *)
KeepsTerms == Shared!Spec

(* A step ends, or is left to the operator.                                 *)
StepSettles ==
  []<>(agent.progress = None \/ agent.reason = "AGENT_RECOVERY_REQUIRED")

(* An amendment after which the last step has settled is taken up           *)
(* (needs_requirements_refresh).                                            *)
Amended ==
  /\ task.amended # agent.amended /\ agent.stage # "requirements"
  /\ Guard("requirements") = "none" /\ agent.progress = None /\ Idle
  /\ agent.reason \notin {"OTHER", "AGENT_ACTIVE_BUDGET"}
AmendmentTakenUp == Amended ~> ~Amended
=============================================================================
