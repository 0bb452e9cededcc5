----------------------------- MODULE Execution -----------------------------
(***************************************************************************)
(* ai_dlc/execution/coordinator.py: one run of a command, from its durable *)
(* intent to its confirmed end, over the approvals of Workflow.tla and the *)
(* process that the runner's helper starts, inspects and cancels.          *)
(*                                                                         *)
(* The coordinator records what it finds: no table of transitions is in    *)
(* the code, and none is here.  Where execute is and what the process has  *)
(* come to decide; Workflow.tla says what the records may be.              *)
(*                                                                         *)
(* A reservation, the launch and an end each hold the task lock from what  *)
(* they read of GitHub to what they record, so that no other operation     *)
(* commits in between; people do not wait for the lock.  The poll holds no *)
(* lock.  The service may die at any point: the process does not, and at   *)
(* its next start the service inspects the run.  A failing journal         *)
(* (FileJournal.tla) refuses every commit until such a restart, so it is a *)
(* restart here.                                                           *)
(***************************************************************************)
EXTENDS Workflow

VARIABLES
  pc,        \* where the coordinator is; "idle" when nobody is at the run
  process,   \* what the helper has of the current run
  launches   \* how often the runner was asked to start the current run

execVars == <<vars, pc, process, launches>>

(* gated, checked, finishing: GitHub was read for a reservation, for the    *)
(* launch, for an end; the preflight, the workspace and the reports follow. *)
Locked == {"gated", "checked", "starting", "launching", "finishing"}
Places == Locked \cup {"idle", "watching", "stopping"}
Processes == {"none", "launching", "running", "straggling", "completed", "killed"}

RunStatus == IF task = NoTask THEN "none" ELSE task.run.status

(* A process, or a part of its tree, may be there or come.                  *)
Alive == process \in {"launching", "running", "straggling"}

ExecInit == Init /\ pc = "idle" /\ process = "none" /\ launches = 0

-----------------------------------------------------------------------------
(* The helper, outside the service: a request to start may be refused, or   *)
(* be carried out after its answer was given up; a tree ends in its time.   *)
Becomes(from, to) ==
  /\ process \in from
  /\ process' \in to
  /\ UNCHANGED <<vars, pc, launches>>

Helper ==
  \/ Becomes({"launching"}, {"running", "none"})
  \/ Becomes({"running"}, {"straggling", "completed", "killed"})
  \/ Becomes({"straggling"}, {"completed", "killed"})

-----------------------------------------------------------------------------
(* reserve, up to the end of implementation_gate.                           *)
ReadGate ==
  /\ pc = "idle" /\ GateOpen(task)
  /\ Look("reserved")
  /\ pc' = "gated"
  /\ UNCHANGED <<process, launches>>

ReserveRun ==
  /\ pc = "gated"
  /\ Commit([task EXCEPT !.run = [status |-> "reserved", epoch |-> task.epoch,
                                  req |-> task.req, design |-> task.design,
                                  repairable |-> FALSE]])
  /\ pc' = "idle" /\ process' = "none" /\ launches' = 0
  /\ UNCHANGED handled

(* The preflight, the workspace or its reports refuse the reservation.      *)
RefuseReservation ==
  /\ pc = "gated"
  /\ pc' = "idle" /\ looked' = NoLook
  /\ UNCHANGED <<world, task, handled, seen, sourceSeen, process, launches>>

(* Mutant: a run found dispatching after a restart is dispatched again.     *)
CheckAgain ==
  /\ pc = "idle" /\ RunStatus \in {"reserved", "dispatching"}
  /\ RunBasis(task) /\ Look("dispatching")
  /\ pc' = "checked"
  /\ UNCHANGED <<process, launches>>

(* execute, up to the basis of the run.                                     *)
Check ==
  /\ pc = "idle" /\ RunStatus = "reserved"
  /\ RunBasis(task) /\ Look("dispatching")
  /\ pc' = "checked"
  /\ UNCHANGED <<process, launches>>

(* The caller has cancelled or the basis is gone; or, after the check, the  *)
(* runtime has changed or the workspace or its reports have.                *)
RefuseDispatch ==
  /\ pc = "checked" \/ (pc = "idle" /\ RunStatus = "reserved")
  /\ Record("failed", FALSE)
  /\ pc' = "idle"
  /\ UNCHANGED <<process, launches>>

Dispatch ==
  /\ pc = "checked"
  /\ Record("dispatching", FALSE)
  /\ pc' = "starting"
  /\ UNCHANGED <<process, launches>>

RequestStart ==
  /\ pc = "starting"
  /\ process' = "launching" /\ launches' = launches + 1
  /\ pc' = "launching"
  /\ UNCHANGED vars

ConfirmStart ==
  /\ pc = "launching" /\ process \notin {"launching", "none"}
  /\ Record("running", FALSE)
  /\ pc' = "watching"
  /\ UNCHANGED <<process, launches>>

(* The start raised, was not answered, or its identity does not match.      *)
LoseStart ==
  /\ pc = "launching"
  /\ Record("uncertain", FALSE)
  /\ pc' = "idle"
  /\ UNCHANGED <<process, launches>>

-----------------------------------------------------------------------------
MarkUncertain ==
  /\ IF RunStatus = "uncertain" THEN UNCHANGED vars ELSE Record("uncertain", FALSE)
  /\ pc' = "idle"

(* Mutant: only the approvals are read again; a stop is forgotten.          *)
ReadApprovals ==
  /\ process \in {"completed", "killed"}
  /\ Accepting(task) /\ Basis(task, TRUE)
  /\ Look("ended")
  /\ pc' = "finishing"

(* _finish, with a result whose process tree is known to have stopped, up   *)
(* to the basis of the run: it is still there, or the run is stale.         *)
ReadBasis ==
  /\ process \in {"completed", "killed"}
  /\ RunBasis(task) /\ Look("ended")
  /\ pc' = "finishing"

RecordStale ==
  /\ process \in {"completed", "killed"}
  /\ Record("stale", FALSE)
  /\ pc' = "idle"

(* A tree that has not stopped is no result.                                *)
Finish ==
  /\ ReadBasis \/ RecordStale \/ (process = "straggling" /\ MarkUncertain)
  /\ UNCHANGED <<process, launches>>

(* The exit code, the workspace and the reports decide what a completed run *)
(* is worth.                                                                *)
RecordResult ==
  /\ pc = "finishing"
  /\ \/ process = "completed" /\ Record("succeeded", FALSE)
     \/ process = "completed" /\ Record("failed", TRUE)
     \/ Record("failed", FALSE)
  /\ pc' = "idle"
  /\ UNCHANGED <<process, launches>>

Watching == pc \in {"watching", "stopping"}

PollEnded == Watching /\ Finish

(* The poll raises, or the journal is read in vain.                         *)
PollFails ==
  /\ Watching
  /\ MarkUncertain
  /\ UNCHANGED <<process, launches>>

(* The basis is gone, the caller cancels, or the time is over.  The request *)
(* to cancel is no evidence that anything stopped.                          *)
RequestCancel ==
  /\ pc = "watching" /\ Alive
  /\ pc' = "stopping"
  /\ UNCHANGED <<vars, process, launches>>

(* Mutant: no limit to how long a cancelled process is waited for.          *)
GiveUpWhenStopped ==
  /\ pc = "stopping" /\ ~Alive
  /\ Record("uncertain", FALSE)
  /\ pc' = "idle"
  /\ UNCHANGED <<process, launches>>

GiveUp ==
  /\ pc = "stopping"
  /\ Record("uncertain", FALSE)
  /\ pc' = "idle"
  /\ UNCHANGED <<process, launches>>

-----------------------------------------------------------------------------
(* The service dies, here or in another task; a failing journal included.   *)
Crash ==
  /\ \E p \in Policies : Restart(p)
  /\ pc' = "idle"
  /\ UNCHANGED <<process, launches>>

Recoverable == pc = "idle" /\ RunStatus \in {"dispatching", "running", "uncertain"}

(* Mutant: nothing found by the helper is taken for nothing running.        *)
RecoverAsAbsent ==
  /\ Recoverable
  /\ \/ Finish
     \/ (Record("stale", FALSE) /\ UNCHANGED <<pc, process, launches>>)

(* recover: a result, or nothing that could be relied on.                   *)
Recover ==
  /\ Recoverable
  /\ Finish \/ (MarkUncertain /\ UNCHANGED <<process, launches>>)

(* Every other operation, while the coordinator does not hold the lock; and *)
(* what is observed before an operation takes it.                           *)
Others ==
  /\ \/ World \/ Observe
     \/ pc \notin Locked /\ (Operation \/ PrepareRepair)
  /\ UNCHANGED <<pc, process, launches>>

Execute ==
  \/ RequestStart \/ ConfirmStart \/ LoseStart
  \/ PollEnded \/ RequestCancel \/ GiveUp \/ RecordResult

ExecNext ==
  \/ ReadGate \/ ReserveRun \/ RefuseReservation \/ Check \/ RefuseDispatch \/ Dispatch
  \/ Execute \/ PollFails \/ Crash \/ Recover \/ Helper \/ Others

ExecSpec == ExecInit /\ [][ExecNext]_execVars

(* The helper's answers, execute's deadline and its grace are all limited   *)
(* in time, and every start of the service inspects the runs it finds.  A   *)
(* service that is started again and again is not killed each time between  *)
(* the basis of a result and its record.                                    *)
ExecFairSpec ==
  /\ ExecSpec
  /\ WF_execVars(Execute) /\ WF_execVars(Recover) /\ SF_execVars(RecordResult)

-----------------------------------------------------------------------------
(* The coordinator is where the record of the run says it is, and has read  *)
(* GitHub for what it is about to record.                                   *)
ExecTypeOK ==
  /\ pc \in Places /\ process \in Processes /\ launches \in Nat
  /\ pc \in {"starting", "launching"} => RunStatus = "dispatching"
  /\ Watching => RunStatus = "running"
  /\ looked.for = (CASE pc = "gated" -> "reserved" [] pc = "checked" -> "dispatching"
                     [] pc = "finishing" -> "ended" [] OTHER -> "none")

(* EXECUTION_IMPLEMENTATION.md 4: the same run is never started again, by   *)
(* a redelivery, a restart or a recovery, whatever became of the answer.    *)
OneLaunch == launches <= 1

(* From the check to the record "running" nobody takes the run its basis    *)
(* away: the runner is asked to start only what is neither stopped nor      *)
(* cancelled nor revised on record (execute holds the task lock).           *)
LaunchUnderLock ==
  pc \in {"starting", "launching"} =>
    Accepting(task) /\ ~task.paused /\ task.run.epoch = task.epoch /\ InImplementation(task)

(* A run is left only when its process tree has stopped: no process remains *)
(* behind a result, a paused or a cancelled task, or the next reservation.  *)
NoProcessBehind ==
  Alive => RunStatus \in {"dispatching", "running", "uncertain"} /\ ~task.cancelled

(* The records of the coordinator, which compares no status with the last,  *)
(* are those the workflow allows of a run: one after the other from the     *)
(* reservation on, the reservation, the dispatch and a result on what was   *)
(* read under the same lock, and none while another run is active.          *)
ImplementsWorkflow == Spec

(* EXECUTION_IMPLEMENTATION.md 4: a dispatched run does not stay so: it     *)
(* ends, or becomes uncertain and blocks, whatever the process does.        *)
RunSettles ==
  (RunStatus \in {"dispatching", "running"}) ~> (RunStatus \notin {"dispatching", "running"})
=============================================================================
