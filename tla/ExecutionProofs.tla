-------------------------- MODULE ExecutionProofs --------------------------
(***************************************************************************)
(* The coordinator for any comments, users, issues and configurations: it  *)
(* launches a run once, leaves no process behind, and what it records,     *)
(* comparing it with nothing, is what Workflow allows of a run.  The       *)
(* invariant says what the record of a run is and what GitHub was read for *)
(* where the coordinator is, that only a stopped process is finished, and  *)
(* that a run not yet dispatched was not launched.                         *)
(***************************************************************************)
EXTENDS Execution, WorkflowProofs

ExecIInv ==
  /\ ExecTypeOK
  /\ launches <= 1
  /\ pc = "starting" => launches = 0
  /\ RunStatus = "reserved" => launches = 0
  /\ Alive => RunStatus \in {"dispatching", "running", "uncertain"}
  /\ pc = "finishing" => ~Alive

(* What a step of Workflow does to the record of the run.                   *)
LEMMA Recorded ==
  ASSUME IInv, task # NoTask, NEW r, Commit([task EXCEPT !.run = r])
  PROVE  RunStatus' = r.status
<1>1. HasRun([task EXCEPT !.run = r], r)
  BY Captured DEF HasRun, TaskType
<1>2. task'.run = r
  BY <1>1, SettleHasRun DEF Commit, HasRun
<1>3. task' # NoTask
  <2>1. "run" \in DOMAIN task'
    BY <1>1, SettleHasRun DEF Commit, HasRun
  <2> QED BY <2>1 DEF NoTask
<1> QED BY <1>2, <1>3 DEF RunStatus

LEMMA RecordsAs ==
  ASSUME IInv, task # NoTask, NEW status, NEW repairable, Record(status, repairable)
  PROVE  RunStatus' = status /\ looked' = NoLook
<1> DEFINE r == [task.run EXCEPT !.status = status, !.repairable = repairable]
<1>1. Commit([task EXCEPT !.run = r])
  BY Zenon DEF Record
<1>2. r.status = status
  BY Captured, SMT DEF TaskType, RunType
<1> HIDE DEF r
<1>3. RunStatus' = status
  BY <1>1, <1>2, Recorded
<1> QED BY <1>1, <1>3 DEF Commit

(* Records that Workflow allows, and what they leave.                       *)
LEMMA Moves ==
  ASSUME IInv, NEW status, Record(status, FALSE),
         \/ RunStatus = "reserved" /\ status = "dispatching" /\ looked.for = "dispatching"
         \/ RunStatus = "dispatching" /\ status = "running" /\ looked.for = "none"
         \/ RunStatus \in {"dispatching", "running"} /\ status = "uncertain" /\ looked.for = "none"
  PROVE  Run /\ RunStatus' = status /\ looked' = NoLook
<1>1. task # NoTask /\ RunStatus = task.run.status
  BY DEF RunStatus
<1>2. RunMoves(status) /\ status \in {"dispatching", "running", "uncertain"}
  BY <1>1 DEF RunMoves
<1> QED BY <1>1, <1>2, RecordsAs DEF Run

LEMMA Ends ==
  ASSUME IInv, NEW status, NEW repairable \in BOOLEAN, Record(status, repairable),
         \/ RunStatus = "reserved" /\ status = "failed" /\ ~repairable
         \/ /\ RunStatus \in ActiveStatuses \ {"reserved"}
            /\ \/ status = "stale" /\ ~repairable /\ looked.for = "none"
               \/ status = "succeeded" /\ ~repairable /\ looked.for = "ended"
               \/ status = "failed" /\ looked.for = "ended"
  PROVE  Run /\ RunStatus' = status /\ looked' = NoLook
<1>1. task # NoTask /\ RunStatus = task.run.status
  BY DEF RunStatus, ActiveStatuses
<1>2. Active(task) /\ RunEnds(status, repairable)
  BY <1>1 DEF RunEnds, Active, ActiveStatuses
<1>3. Run
  <2>1. CASE status = "failed"
    BY <1>2, <2>1 DEF Run
  <2>2. CASE status \in {"succeeded", "stale"}
    <3>1. repairable = FALSE
      BY <2>2
    <3> QED BY <1>2, <2>2, <3>1 DEF Run
  <2> QED BY <2>1, <2>2
<1> QED BY <1>1, <1>3, RecordsAs

LEMMA MarksUncertain ==
  ASSUME IInv, RunStatus \in {"dispatching", "running", "uncertain"}, looked.for = "none",
         MarkUncertain
  PROVE  /\ Run \/ UNCHANGED vars
         /\ RunStatus' = "uncertain" /\ looked'.for = "none" /\ pc' = "idle"
<1>1. CASE RunStatus = "uncertain"
  BY <1>1 DEF MarkUncertain, RunStatus, vars
<1>2. CASE RunStatus # "uncertain"
  <2>1. Record("uncertain", FALSE) /\ pc' = "idle"
    BY <1>2 DEF MarkUncertain
  <2>2. Run /\ RunStatus' = "uncertain" /\ looked' = NoLook
    BY <1>2, <2>1, Moves
  <2> QED BY <2>1, <2>2 DEF NoLook
<1> QED BY <1>1, <1>2

LEMMA Finishes ==
  ASSUME IInv, RunStatus \in {"dispatching", "running", "uncertain"}, looked = NoLook,
         Finish
  PROVE  /\ Looks \/ Run \/ UNCHANGED vars
         /\ \/ /\ pc' = "finishing" /\ looked'.for = "ended" /\ ~Alive
               /\ RunStatus' = RunStatus
            \/ /\ pc' = "idle" /\ looked'.for = "none"
               /\ RunStatus' \in {"stale", "uncertain"}
               /\ Alive => RunStatus' = "uncertain"
<1> USE DEF NoLook
<1>1. CASE ReadBasis
  <2>1. task # NoTask /\ RunStatus = task.run.status /\ Active(task)
    BY DEF RunStatus, Active, ActiveStatuses
  <2>2. Looks
    BY <1>1, <2>1 DEF ReadBasis, Looks, CheckRun
  <2>3. RunStatus' = RunStatus
    BY <1>1 DEF ReadBasis, Look, RunStatus
  <2> QED BY <1>1, <2>2, <2>3 DEF ReadBasis, Look, Alive
<1>2. CASE RecordStale
  <2>1. Run /\ RunStatus' = "stale" /\ looked' = NoLook
    <3>1. Record("stale", FALSE) /\ RunStatus \in ActiveStatuses \ {"reserved"}
      BY <1>2 DEF RecordStale, ActiveStatuses
    <3> QED BY <3>1, Ends
  <2> QED BY <1>2, <2>1 DEF RecordStale, Alive
<1>3. CASE process = "straggling" /\ MarkUncertain
  BY <1>3, MarksUncertain
<1> QED BY <1>1, <1>2, <1>3 DEF Finish

(* No other operation touches the record of a run, but for the repair that  *)
(* releases a failed one.                                                   *)
LEMMA OthersRecord ==
  ASSUME IInv, Uncancelled, World \/ Engine \/ PrepareRepair
  PROVE  RunStatus' = RunStatus \/ (RunStatus' = "none" /\ RunStatus \in {"none", "failed"})
<1>1. task' = task => RunStatus' = RunStatus
  BY DEF RunStatus
<1>2. World => task' = task
  BY DEF World, Write, Disturb, Spoil, ChangeIssue, ChangeWriters
<1>3. ASSUME NEW r, RunsOn(task', r)
      PROVE  RunStatus' = r.status
  <2>1. "run" \in DOMAIN task' /\ task'.run = r
    BY <1>3 DEF RunsOn
  <2>2. task' # NoTask
    BY <2>1 DEF NoTask
  <2> QED BY <2>1, <2>2 DEF RunStatus
<1>4. CASE Engine /\ task = NoTask
  BY <1>1, <1>3, <1>4, FirstCapture DEF RunStatus, NoRun
<1>5. CASE Engine /\ task # NoTask
  BY <1>3, <1>5, EngineKeepsRun DEF RunStatus
<1>6. CASE PrepareRepair
  <2>1. task # NoTask /\ Commit([task EXCEPT !.run = NoRun]) /\ task.run.status = "failed"
    BY <1>6 DEF PrepareRepair, Accepting, Live
  <2> QED BY <2>1, Recorded DEF RunStatus, NoRun
<1> QED BY <1>1, <1>2, <1>4, <1>5, <1>6

(* Every step of the coordinator is one of Workflow, or changes nothing in  *)
(* it, and keeps the invariant.                                             *)
LEMMA ExecStep ==
  ASSUME IInv, Uncancelled, ExecIInv, [ExecNext]_execVars
  PROVE  [Next]_vars /\ ExecIInv'
<1> USE DEF ExecIInv, ExecTypeOK, Alive, Watching, Locked, Places, Processes
<1>1. looked.for = "none" => looked = NoLook
  BY DEF IInv, LockKeeps
<1>2. CASE ReadGate
  <2>1. Looks
    BY <1>1, <1>2 DEF ReadGate, Looks, Gate
  <2>2. RunStatus' = RunStatus /\ looked'.for = "reserved"
    BY <1>2 DEF ReadGate, Look, RunStatus
  <2> QED BY <1>2, <2>1, <2>2 DEF ReadGate, Next
<1>3. CASE ReserveRun
  <2> DEFINE r == [status |-> "reserved", epoch |-> task.epoch, req |-> task.req,
                   design |-> task.design, repairable |-> FALSE]
  <2>1. Reserve
    BY <1>3 DEF ReserveRun, Reserve
  <2>2. task # NoTask
    BY <1>3 DEF IInv, LockKeeps, Accepting, Live, ReserveRun
  <2>3. Commit([task EXCEPT !.run = r])
    BY <1>3 DEF ReserveRun
  <2>4. r.status = "reserved"
    OBVIOUS
  <2> HIDE DEF r
  <2>5. RunStatus' = "reserved" /\ looked' = NoLook
    BY <2>2, <2>3, <2>4, Recorded DEF Commit
  <2> QED BY <1>3, <2>1, <2>5 DEF ReserveRun, Next, Run, NoLook
<1>4. CASE RefuseReservation
  <2>1. Looks
    BY <1>4 DEF RefuseReservation, Looks, Release
  <2>2. RunStatus' = RunStatus
    BY <1>4 DEF RefuseReservation, RunStatus
  <2> QED BY <1>4, <2>1, <2>2 DEF RefuseReservation, Next, NoLook
<1>5. CASE Check
  <2>1. task # NoTask /\ task.run.status = "reserved" /\ Active(task)
    BY <1>5 DEF Check, RunStatus, Active, ActiveStatuses
  <2>2. Looks
    BY <1>1, <1>5, <2>1 DEF Check, Looks, CheckRun
  <2>3. RunStatus' = RunStatus /\ looked'.for = "dispatching"
    BY <1>5 DEF Check, Look, RunStatus
  <2> QED BY <1>5, <2>2, <2>3 DEF Check, Next
<1>6. pc = "checked" => RunStatus = "reserved"
  BY DEF IInv, LockKeeps, Accepting, Live, RunStatus
<1>7. CASE RefuseDispatch
  <2>1. Run /\ RunStatus' = "failed" /\ looked' = NoLook
    BY <1>6, <1>7, Ends DEF RefuseDispatch
  <2> QED BY <1>6, <1>7, <2>1 DEF RefuseDispatch, Next, NoLook
<1>8. CASE Dispatch
  <2>1. Run /\ RunStatus' = "dispatching" /\ looked' = NoLook
    BY <1>6, <1>8, Moves DEF Dispatch
  <2> QED BY <1>6, <1>8, <2>1 DEF Dispatch, Next, NoLook
<1>9. CASE RequestStart
  BY <1>9 DEF RequestStart, RunStatus, vars
<1>10. CASE ConfirmStart
  <2>1. Run /\ RunStatus' = "running" /\ looked' = NoLook
    BY <1>10, Moves DEF ConfirmStart
  <2> QED BY <1>10, <2>1 DEF ConfirmStart, Next, NoLook
<1>11. CASE LoseStart
  <2>1. Run /\ RunStatus' = "uncertain" /\ looked' = NoLook
    BY <1>11, Moves DEF LoseStart
  <2> QED BY <1>11, <2>1 DEF LoseStart, Next, NoLook
<1>12. CASE PollEnded \/ (Recoverable /\ Finish)
  <2>1. /\ RunStatus \in {"dispatching", "running", "uncertain"} /\ looked = NoLook /\ Finish
        /\ UNCHANGED <<process, launches>>
    BY <1>1, <1>12 DEF PollEnded, Recoverable, Finish
  <2>2. Looks \/ Run \/ UNCHANGED vars
    BY <2>1, Finishes
  <2>3. \/ /\ pc' = "finishing" /\ looked'.for = "ended" /\ ~Alive
           /\ RunStatus' = RunStatus
        \/ /\ pc' = "idle" /\ looked'.for = "none"
           /\ RunStatus' \in {"stale", "uncertain"}
           /\ Alive => RunStatus' = "uncertain"
    BY <2>1, Finishes
  <2> QED BY <2>1, <2>2, <2>3 DEF Next
<1>13. CASE PollFails \/ (Recoverable /\ MarkUncertain /\ UNCHANGED <<process, launches>>)
  <2>1. RunStatus \in {"dispatching", "running", "uncertain"} /\ MarkUncertain
        /\ UNCHANGED <<process, launches>> /\ looked.for = "none"
    BY <1>13 DEF PollFails, Recoverable
  <2>2. Run \/ UNCHANGED vars
    BY <2>1, MarksUncertain
  <2>3. RunStatus' = "uncertain" /\ looked'.for = "none" /\ pc' = "idle"
    BY <2>1, MarksUncertain
  <2> QED BY <2>1, <2>2, <2>3 DEF Next
<1>14. CASE RequestCancel
  BY <1>14 DEF RequestCancel, RunStatus, vars
<1>15. CASE GiveUp
  <2>1. Run /\ RunStatus' = "uncertain" /\ looked' = NoLook
    BY <1>15, Moves DEF GiveUp
  <2> QED BY <1>15, <2>1 DEF GiveUp, Next, NoLook
<1>16. CASE RecordResult
  <2>1. RunStatus \in ActiveStatuses \ {"reserved"}
    BY <1>16 DEF IInv, LockKeeps, RunStatus, RecordResult
  <2>2. PICK status \in {"succeeded", "failed"}, repairable \in BOOLEAN :
          Record(status, repairable) /\ (status = "succeeded" => ~repairable)
    BY <1>16 DEF RecordResult
  <2>3. Run /\ RunStatus' = status /\ looked' = NoLook
    BY <1>16, <2>1, <2>2, Ends DEF RecordResult
  <2> QED BY <1>16, <2>2, <2>3 DEF RecordResult, Next, NoLook
<1>17. CASE Crash
  <2>1. RunStatus' = RunStatus /\ looked' = NoLook
    BY <1>17 DEF Crash, Restart, RunStatus
  <2>2. Next
    BY <1>17 DEF Crash, Next
  <2> QED BY <1>17, <2>1, <2>2 DEF Crash, NoLook
<1>18. CASE Helper
  BY <1>18 DEF Helper, Becomes, RunStatus, vars
<1>19. CASE Others
  <2>1. UNCHANGED <<pc, process, launches>>
    BY <1>19 DEF Others
  <2>2. CASE World \/ Observe
    <3>1. RunStatus' = RunStatus /\ looked' = looked
      BY <2>2 DEF World, Write, Disturb, Spoil, ChangeIssue, ChangeWriters, Observe,
                  ObserveSource, ObserveComment, RunStatus
    <3> QED BY <2>1, <2>2, <3>1 DEF Next, Engine
  <2>3. CASE pc \notin Locked /\ (Operation \/ PrepareRepair)
    <3>1. looked = NoLook
      BY <1>1, <2>3
    <3>2. Engine \/ (PrepareRepair /\ Run)
      BY <2>3, <3>1 DEF Engine, Run
    <3>3. RunStatus' = RunStatus \/ (RunStatus' = "none" /\ RunStatus \in {"none", "failed"})
      BY <3>2, OthersRecord
    <3>4. looked' = NoLook
      <4>1. Operation \/ Run
        BY <2>3, <3>1 DEF Run
      <4>2. PICK t : Commit(t)
        BY <4>1, StepsCommit
      <4> QED BY <4>2 DEF Commit
    <3> QED BY <2>1, <2>3, <3>2, <3>3, <3>4 DEF Next, NoLook
  <2> QED BY <1>19, <2>2, <2>3 DEF Others
<1>20. CASE UNCHANGED execVars
  BY <1>20 DEF execVars, vars, RunStatus
<1> QED BY <1>2, <1>3, <1>4, <1>5, <1>7, <1>8, <1>9, <1>10, <1>11, <1>12, <1>13, <1>14,
           <1>15, <1>16, <1>17, <1>18, <1>19, <1>20 DEF ExecNext, Execute, Recover

LEMMA ExecAlways == ExecSpec => [](IInv /\ Uncancelled /\ ExecIInv)
<1>1. ExecInit => IInv /\ Uncancelled /\ ExecIInv
  BY InitIInv DEF ExecInit, Init, Uncancelled, ExecIInv, ExecTypeOK, Alive, Watching, Locked,
                  Places, Processes, RunStatus, NoLook
<1>2. IInv /\ Uncancelled /\ ExecIInv /\ [ExecNext]_execVars =>
        (IInv /\ Uncancelled /\ ExecIInv)'
  BY ExecStep, NextIInv, UncancelledStep
<1> QED BY <1>1, <1>2, PTL DEF ExecSpec

(* What the coordinator records, comparing it with no earlier record, is    *)
(* what Workflow allows: the order of a run's records, and a reservation, a *)
(* dispatch and a result only on what was read under the same lock.         *)
THEOREM CoordinatorImplementsWorkflow == ExecSpec => ImplementsWorkflow
<1>1. ExecInit => Init
  BY DEF ExecInit
<1>2. IInv /\ Uncancelled /\ ExecIInv /\ [ExecNext]_execVars => [Next]_vars
  BY ExecStep
<1> QED BY <1>1, <1>2, ExecAlways, PTL DEF ExecSpec, ImplementsWorkflow, Spec

(* The coordinator is where the record of the run says it is, and has read  *)
(* GitHub for what it is about to record, whatever happens.                 *)
THEOREM ExecTypeCorrect == ExecSpec => []ExecTypeOK
<1>1. ExecIInv => ExecTypeOK
  BY DEF ExecIInv
<1> QED BY <1>1, ExecAlways, PTL

(* A run is launched at most once, whatever is lost and whenever the        *)
(* service dies.                                                            *)
THEOREM RunsLaunchedOnce == ExecSpec => []OneLaunch
<1>1. ExecIInv => OneLaunch
  BY DEF ExecIInv, OneLaunch
<1> QED BY <1>1, ExecAlways, PTL

(* No process is left behind a result, a cancellation or a new reservation. *)
THEOREM NothingLeftBehind == ExecSpec => []NoProcessBehind
<1>1. IInv /\ Uncancelled /\ ExecIInv => NoProcessBehind
  BY DEF ExecIInv, Uncancelled, Active, ActiveStatuses, NoProcessBehind, RunStatus
<1> QED BY <1>1, ExecAlways, PTL

-----------------------------------------------------------------------------
(* An active record settles to itself: nothing but the run changes.         *)
LEMMA DispatchRecords ==
  ASSUME IInv, looked.for = "dispatching", Record("dispatching", FALSE)
  PROVE  /\ task # NoTask /\ Accepting(task) /\ ~task.paused /\ task.run.epoch = task.epoch
         /\ task.run.status = "reserved" /\ policy' = policy
         /\ \E r : task' = [task EXCEPT !.run = r] /\ r.epoch = task.run.epoch
<1> DEFINE r == [task.run EXCEPT !.status = "dispatching", !.repairable = FALSE]
           t == [task EXCEPT !.run = r]
<1>1. Commit(t)
  BY Zenon DEF Record
<1>2. /\ Accepting(task) /\ ~task.paused /\ task.run.epoch = task.epoch
      /\ task.run.status = "reserved"
  BY DEF IInv, LockKeeps
<1>3. task # NoTask
  BY <1>2 DEF Accepting, Live
<1>4. r.status = "dispatching" /\ r.epoch = task.run.epoch
  BY <1>3, Captured, SMT DEF TaskType, RunType
<1> HIDE DEF r
<1>5. t.run = r
  BY <1>3, Captured DEF TaskType
<1>6. t = [task EXCEPT !.run = r]
  OBVIOUS
<1> HIDE DEF t
<1>7. Settle(t) = t
  BY <1>4, <1>5 DEF Settle, Active, ActiveStatuses
<1>8. task' = t /\ policy' = policy
  BY <1>1, <1>7, Zenon DEF Commit, world
<1> QED BY <1>2, <1>3, <1>4, <1>6, <1>8

(* What the launch rests on does not look at the record of the run.         *)
LEMMA RunAside ==
  ASSUME task \in TaskType, NEW r
  PROVE  LET t == [task EXCEPT !.run = r] IN
         /\ Accepting(task) => Accepting(t)
         /\ InImplementation(task) => InImplementation(t)
         /\ t.paused = task.paused /\ t.epoch = task.epoch /\ t.run = r
<1> DEFINE t == [task EXCEPT !.run = r]
<1>1. /\ t.cancelled = task.cancelled /\ t.cancelRequested = task.cancelRequested
      /\ t.config = task.config /\ t.paused = task.paused /\ t.epoch = task.epoch
      /\ t.req = task.req /\ t.reqApproval = task.reqApproval /\ t.started = task.started
      /\ t.design = task.design /\ t.designOpen = task.designOpen
      /\ t.designMode = task.designMode /\ t.designApproval = task.designApproval
      /\ t.run = r /\ "run" \in DOMAIN t
  BY DEF TaskType
<1> HIDE DEF t
<1>2. t # NoTask
  BY <1>1 DEF NoTask
<1>3. Accepting(task) => Accepting(t)
  BY <1>1, <1>2 DEF Accepting, Live
<1>4. InImplementation(task) => InImplementation(t)
  BY <1>1 DEF InImplementation
<1>5. /\ Accepting(task) => Accepting(t)
      /\ InImplementation(task) => InImplementation(t)
      /\ t.paused = task.paused /\ t.epoch = task.epoch /\ t.run = r
  BY <1>1, <1>3, <1>4
<1> QED BY <1>5 DEF t

(* Under the lock, between the check and the record "running", only the     *)
(* world, the helper and the launch itself move.                            *)
LEMMA LaunchStep ==
  ASSUME IInv, IInv', ExecIInv, EpochTells, LaunchUnderLock, [ExecNext]_execVars
  PROVE  LaunchUnderLock'
<1> DEFINE Launch == {"starting", "launching"}
<1> SUFFICES ASSUME pc' \in Launch
             PROVE  (Accepting(task) /\ ~task.paused /\ task.run.epoch = task.epoch
                       /\ InImplementation(task))'
  BY Zenon DEF LaunchUnderLock
<1>1. CASE Dispatch
  <2>1. looked.for = "dispatching" /\ Record("dispatching", FALSE)
    BY <1>1 DEF Dispatch, ExecIInv, ExecTypeOK
  <2>2. /\ task # NoTask /\ Accepting(task) /\ ~task.paused /\ task.run.epoch = task.epoch
        /\ task.run.status = "reserved" /\ policy' = policy
        /\ \E r : task' = [task EXCEPT !.run = r] /\ r.epoch = task.run.epoch
    BY <2>1, DispatchRecords
  <2>3. InImplementation(task)
    BY <2>2 DEF EpochTells
  <2>4. PICK r : task' = [task EXCEPT !.run = r] /\ r.epoch = task.run.epoch
    BY <2>2
  <2>5. /\ Accepting(task') /\ InImplementation(task')
        /\ task'.paused = task.paused /\ task'.epoch = task.epoch /\ task'.run = r
    <3>1. task \in TaskType
      BY <2>2, Captured
    <3> QED BY <2>2, <2>3, <2>4, <3>1, RunAside
  <2>6. task'.config = policy'
    BY <2>2, <2>5 DEF Accepting
  <2> QED BY <2>2, <2>4, <2>5, <2>6 DEF Accepting, Live, InImplementation
<1>2. CASE task' = task /\ policy' = policy /\ pc \in Launch
  BY <1>2 DEF LaunchUnderLock, Accepting, Live, InImplementation
<1>3. RequestStart \/ Helper \/ (Others /\ (World \/ Observe)) \/ UNCHANGED execVars =>
        task' = task /\ policy' = policy /\ pc \in Launch
  <2>1. World \/ Observe => task' = task /\ policy' = policy
    BY Zenon DEF World, Write, Disturb, Spoil, ChangeIssue, ChangeWriters, Observe,
                 ObserveSource, ObserveComment, world
  <2>2. RequestStart \/ Helper \/ UNCHANGED execVars => task' = task /\ policy' = policy
    BY DEF RequestStart, Helper, Becomes, execVars, vars, world
  <2>3. RequestStart \/ Helper \/ Others \/ UNCHANGED execVars => pc \in Launch
    BY DEF RequestStart, Helper, Becomes, Others, execVars
  <2> QED BY <2>1, <2>2, <2>3
<1>4. Finish \/ MarkUncertain => pc' \notin Launch
  BY DEF Finish, ReadBasis, RecordStale, MarkUncertain
<1>5. Others => World \/ Observe \/ pc' \notin Launch
  BY DEF Others, Locked
<1>6. \/ Dispatch \/ RequestStart \/ Helper \/ (Others /\ (World \/ Observe))
      \/ UNCHANGED execVars
  BY <1>4, <1>5 DEF ExecNext, Execute, ReadGate, ReserveRun, RefuseReservation, Check,
         RefuseDispatch, ConfirmStart, LoseStart, PollEnded, PollFails, RequestCancel, GiveUp,
         RecordResult, Crash, Recover, Recoverable
<1> QED BY <1>1, <1>2, <1>3, <1>6

(* What the runner is asked to start is, until its start is recorded, the   *)
(* run of a task that is neither stopped, cancelled nor revised on record.  *)
THEOREM LaunchesHoldTheirBasis == ExecSpec => []LaunchUnderLock
<1>1. ExecInit => LaunchUnderLock
  BY DEF ExecInit, LaunchUnderLock
<1>2. IInv /\ IInv' /\ ExecIInv /\ EpochTells /\ LaunchUnderLock /\ [ExecNext]_execVars =>
        LaunchUnderLock'
  BY LaunchStep
<1>3. ExecSpec => []EpochTells
  BY CoordinatorImplementsWorkflow, EpochsTell, PTL DEF ImplementsWorkflow
<1> QED BY <1>1, <1>2, <1>3, ExecAlways, PTL DEF ExecSpec

(* What Workflow guarantees of approvals, cancellations, comments and       *)
(* epochs holds with the coordinator, its crashes and processes at work.    *)
THEOREM WorkflowHoldsWhileExecuting ==
  ExecSpec => /\ []ApprovalsCurrent /\ []EpochTells
              /\ CancelSticks /\ RunsAuthorised /\ CommentUsedOnce /\ LossBumpsEpoch
BY CoordinatorImplementsWorkflow, ApprovalsAreCurrent, EpochsTell, CancellationSticks,
   RunsAreAuthorised, CommentsUsedOnce, LossesBumpTheEpoch, PTL DEF ImplementsWorkflow
=============================================================================
