# Verification of ai-dlc-agent

TLA+ models of the agent service in `src/ai_dlc`, the TLC runs that check them on small
instances, and TLAPS proofs of their most important properties for every instance.

- [1. The system](#1-the-system): its parts, their state, how they interact, what is hard
- [2. The modules](#2-the-modules): what models what, and how faithfully
- [3. The runs](#3-the-runs): what TLC checks, with which bounds and which fairness
- [4. The proofs](#4-the-proofs): what is proved, from what, along which argument
- [5. What the runs found](#5-what-the-runs-found)
- [6. What is not modelled](#6-what-is-not-modelled), and [7. Plan](#7-plan)

`tlc -config X.cfg M` checks a run, `tlapm M.tla` the proofs of a module. The list of runs, the
lines each definition stands for, the hazards and the mutants are in `PROJECT.json`.

## 1. The system

One long-lived service process takes GitHub issues to verified pull requests. People write the
issue and the commands (`/aidlc approve-requirements 1`, `start`, `stop`, ...) as comments; the
service keeps the state of each issue (a *task*) in a journal on disk, asks models for
requirements, designs and patches, runs the repository's commands through an installed helper,
and publishes. There is no database and no second worker; several threads of the one process
work at a time. Three sources of trouble shape the code: the process or the machine may stop
anywhere, people change GitHub at any moment, and the answer of a helper, of GitHub or of a
model may be lost although its effect happened.

### Components

| Component (`src/ai_dlc/`) | State it keeps | Operations | What must hold |
| --- | --- | --- | --- |
| File journal (`storage/journal.py`) | per task: numbered immutable records, content blobs, a snapshot; directories; `_unhealthy`; a lock per task | open, `task_keys`, `history`, `commit` (compare-and-set, idempotent by event id), `recover` | acknowledged is durable; an event is applied once; no update is lost; nobody trusts what a power loss can take |
| Scheduler (`service/scheduler.py`) | a queue per repository, their rotation, active handlers, known identities, results | `submit`, `tick`, `snapshot`, `acknowledge_completed`, `close_intake`, `shutdown` | limits; an identity in one place; slots held until a handler has stopped; nothing eligible is left waiting; fairness |
| Workflow engine (`workflow/`) | per task: source, requirements, design, three approvals, started, paused, cancellation, epoch, the run | `capture_source`, `normalize`, `propose_design`, `handle_comment` (7 commands), `reconcile`, `refresh_policy`, `implementation_gate`, `prepare_repair` | an approval holds for one revision only; a run happens only with standing approvals; a comment counts once; a cancellation is final |
| Execution coordinator (`execution/coordinator.py`) | the record of the run in the task; where `execute` is | `reserve`, `execute`, `_finish`, `recover` | a run is launched at most once; no process is left behind; every run settles |
| Installed runner (`execution/installed_runner.py`) | none; the helper owns the processes | start, inspect, cancel | what it says of a process is evidence |
| Workspace tools (`execution/file_tools.py`, `git_workspace.py`) | the files of a checkout, a lease while a command runs | read, search, `apply_patch`, `command_lease`, snapshot | no patch below a running command; a digest names what was tested; a half-applied patch is never built on |
| Service runtime (`service/runtime.py`) | lifecycle, checkpoint, recovery list | `start`, `tick`, `shutdown`, `health` | recovery before intake; a critical failure closes dispatch |
| Webhook inbox and processor (`github/inbox.py`, `processor.py`) | deliveries and receipts on disk | `accept`, `pending`, `process`, `mark_processed` | a delivery is durable before 202 and processed to a receipt |
| Agent loop (`agents/engine.py`, `driver.py`, `tools.py`) | per task: stage, step in progress, repair and active budgets, verified digest | `start`, `step`, `recover`, `resume` | one step at a time, only under standing approvals; nothing is replayed after a crash; what is called ready was tested as it is; budgets; amendments are taken up |
| Status comment (`agents/status.py`, `github/status.py`) | the intent and the identifier of one comment per task | `publish` | the comment is created once |
| Model sessions (`models/sessions.py`, `router.py`, `adapters.py`) | per run: active session, requests, tools, budgets; per process: slots of the providers | `open_session`, `generate`, `claim_tool`, `finish_tool`, `abandon_request` | a call in doubt is not repeated; a tool runs once; what is asked is complete; budgets and slots |
| Publication (`publishing/`, `github/publishing.py`) | per task: stage from candidate to check, basis, invalidation | `run`, `invalidate` | an intent before each effect, each request once; a stop binds; nothing of others is written over; the check of an invalidated task is withdrawn |
| Transport (`transport.py`) | none | one exchange | what may have had an effect is reported so |
| GitHub client, configuration, discovery, HTTP server, evaluation, CLI | no protocol state of their own | I/O, parsing, validation | not modelled (section 6) |

### How they interact

```
GitHub --webhook--> inbox --pending()--> scheduler --thread--> processor --> workflow engine --> journal
|  ^                                 ^   reads GitHub again
agent driver -----+  | tick, snapshot, acknowledge     |   at every decision
|            runtime (start: recover; checkpoint)  |
+--> agent loop --> sessions, workspace tools      |
+--> coordinator -- gate, basis ----------+
+--> runner --> helper --> process tree
+--> publication --> git, GitHub
```

Every durable change goes through `FileJournal.commit` under the task's lock and against the
revision the caller computed it from. Nothing else is shared between components except the
scheduler's tables and the process-wide health of the journal.

### What is hard here

- a crash between two file system calls, or between an intent, its effect and its record;
- a record that is visible but can still be lost, and a reader that trusts it;
- revisions read outside the lock, or GitHub read before a commit of another thread;
- approvals that outlive the document, the configuration or the permission they rest on;
- a start whose answer is lost, a process tree that outlives its command, a grace that ends
  before the process does;
- look-then-create on directories shared by tasks with different locks;
- a request whose answer is lost, to a provider that works for money or to a repository that
  others change meanwhile;
- a step of the agent that runs for minutes outside the task's lock, while people decide, other
  writers change the workspace and the service may die between two commits that belong together;
- queues that rotate while they are skipped; a deadline that passes while a handler ends.

`PROJECT.json` lists them as hazards, at the lines where they bite.

## 2. The modules

| Module | Models | Abstract specification |
| --- | --- | --- |
| `FileJournal` | `storage/journal.py`, opened as in `runtime.start`, recovered as in `implementation_gate` | implements `TaskLog` |
| `TaskLog` | what the journal promises: an append-only log per task, an identifier once, only the durable acknowledged | |
| `FairScheduler` | `service/scheduler.py` and the loop of `runtime.run` | implements `RoundRobin` |
| `RoundRobin` | what the scheduler promises of the order: first in, first out within a repository, and the repositories take turns | |
| `Workflow` | `workflow/engine.py`, `commands.py`, `observations.py`, and GitHub as people change it | implements `Terms`; what `Execution` implements |
| `Terms` | the terms an agent works on, as the workflow engine writes them and the agent loop reads them: requirements, approval, design, pause, end, epoch | |
| `Execution` | `execution/coordinator.py` and the helper, composed with `Workflow` (it EXTENDS it) | implements `Workflow` |
| `Deliveries` | `github/inbox.py`, `github/processor.py` and the tick of `service/runtime.py` for the deliveries of one issue; over what `TaskLog` promises of the journal | implements `Inbox` |
| `Inbox` | what inbox and processor promise together: one true receipt for each delivery, its command at most once, its source before it | |
| `Transport` | how an exchange of `transport.py` ends and what `adapters.py` concludes from it: constants and operators, no state | |
| `ModelSessions` | `models/sessions.py`, `router.py` and the slots of `adapters.py`, over `Transport` (it EXTENDS it) | implements `Dialogue` |
| `Dialogue` | what the ledger of a run promises: one question at a time, its tools one by one, each worked on and reported once | |
| `AgentLoop` | `agents/engine.py`, `driver.py`, `tools.py`, the patches and snapshots of `execution/file_tools.py`, and the people, repositories and writers around a step | implements `Terms` |
| `Publication` | `publishing/engine.py`, `driver.py`, `git.py`, `github/publishing.py`, and GitHub as others change it | implements `Outbox` |
| `Outbox` | what a publication promises of its effects: intended, sent once, confirmed, in order; after the invalidation only the withdrawal | |
| `*Proofs` | the theorems about each | |
| `MC*` | the instances for TLC; `AgentLoop` and `Publication` need none | |

Operators named in a comment as *mutants* are faulty variants of the definition that follows
them: substituted for it, they break a property, which shows that the property depends on that
line of the code.

### FileJournal

One action per file system call of `commit` and `recover` that matters: look for and create the
repository directory (`FindRepo`, `MakeRepo`, `SyncRepo`: `_mkdir` is look, create, sync, and is
not atomic; the sync is of `tasks/` and makes every repository directory in it durable), the
task's directories, each blob (`LinkBlob` makes it visible, `SyncBlob` durable), the record
(`LinkRecord`, `SyncRecord`) and the snapshot. `pc[t]` is where a thread is, `job[t]` the
arguments of its call. The variables of the disk distinguish visible from durable: `entries` and
`synced`, `blobs` and `blobsSynced`, `repoDir`, `taskDir`. `Kill` ends the process and keeps
everything visible; `PowerLoss` drops any of what is not durable, below any directory that is
not. `Fail` is an `OSError` at any call: the store is unhealthy, the caller gets `STATE_IO`,
except after the record's directory was synced, when `commit` returns normally. `ReadRevision`
and `BeginCommit` are two lock acquisitions, so that another commit comes in between. `Open` is
`task_keys` and refuses the store as the code does; `StartRecover` and `Serve` are `start`.

A state is a function of its records, so a record is its request (event id and content) and the
revision it was computed from. `snapshot.json` is read by no code and is a step that can fail,
not data. `acked` is a history of what callers were told, `abandoned` one of the repositories
whose directory is visible although whoever made it was stopped before the sync.

### FairScheduler

Methods hold the scheduler's lock, so each is an action, except `tick`, whose loop is modelled
one turn at a time (`BeginTick`, `Skip`, `Dispatch`, `EndTick`; `ticking` is the lock): this
makes termination and work conservation questions of the model. `Finish` is the handler's
thread, `DeadlinePasses` the clock, `Reap` the shared `_reap` with its three outcomes. The
branch of the loop for a repository with an empty queue is left out because `RotationExact`
shows, and the proof proves, that it is dead.

### Workflow

The task's state is a record with the fields of the code's state. `issue`, `comments`, `writers`
and `policy` are what the engine reads from GitHub and its configuration; `Write`, `Spoil`,
`ChangeIssue`, `ChangeWriters` and `Restart` change them at any time, also between two reads of
one operation's caller. The comment or the source an operation is about is read outside the
task's lock, so these are two steps: `ObserveComment` and `HandleComment`, `ObserveSource` and
`CaptureSource`. An operation in flight carries the revision it expects and every commit changes
the revision, so what was observed is remembered (`seen`, `sourceSeen`) exactly until the next
commit. Everything else an operation of the engine reads, it reads under the lock, in one action
with its commit. For a run, the read and the commit are two actions: between them the code
checks the workspace and the runner and writes reports, for long. `Look` is the gate or the
basis of a run read from GitHub (`Gate`, `CheckRun`), after which the lock is held (`looked`)
until `Record` or `Release`; nobody else commits, and people go on. `_settle` is part of every
`Commit`.

Events are idempotent by identifier; `handled` are the comments whose event is committed.
Documents are a revision number and whether questions are open; amendments reset the scope and
their text is left out. Which records a run may have is bounded here by `Reserve`, `RunMoves`
and `RunEnds`; how the coordinator comes to them is `Execution`. The author of the issue is a
person (`ISSUE_ACTOR` is left out).

### Execution

`pc` is where `execute` is, `process` what the helper has of the run, `launches` how often the
runner was asked to start it. Three sections hold the task's lock (`Locked`): the reservation
(`ReadGate`, then `ReserveRun` or `RefuseReservation`), the launch (`Check`, `Dispatch` or
`RefuseDispatch`, `RequestStart`, then `ConfirmStart`, `LoseStart` or `MarkUncertain`), and the
end (`Finish`, `ReadBasis`, then `RecordResult`, or `RecordStale`). In each, GitHub is read at
the beginning and the record committed at the end; no other operation commits meanwhile
(`Others` requires it), but people change GitHub and the service may die. Between the sections
the coordinator polls without a lock: `RequestCancel` when the basis is gone, the caller cancels
or time is up, `GiveUp` when the grace is over, `PollEnded` and `PollFails`. `Recover` is
`recover`, at the next start or by the agent loop. `Record` writes what was found and compares
it with no earlier record, as the code does: that the records of a run follow each other as
`Workflow` has them is a property of the places, and the refinement checks it. The helper
(`Helper` and its `Becomes`, a program of its own and external) may carry out a start after its
answer was given up, and a process tree may straggle behind the command. `Crash` (external) ends
the service and not the process. A failing journal refuses everything until a restart, as
`FileJournal` models it, so it is a `Crash` here.

### Deliveries

A file of the inbox, or a receipt, is absent, visible (linked) or durable (its directory is
synced). `accept` is `AcceptNew` and `AcceptSynced`, between which it holds the inbox lock; a
delivery whose file is there is accepted again without a change; `mark_processed` is
`MarkProcessed` and `SyncReceipt` in the same way. A tick is `ListPending`, which reads the
inbox, and later `Pass`, which submits what was listed, reaps, dispatches and acknowledges:
handlers run in between, so the list is older than the submissions. `place` is where the work of
a delivery is: unknown to the scheduler, queued, in the handler (named for the call it is about
to make), or ended. `Snapshot` is a status request, which also reaps. The handler reads the
revision and the issue (`Begin`), commits the source (`CaptureSource`), applies the command or
finds it edited (`HandleComment`, `RejectComment`), and reconciles. A task that is cancelled, or
will be (`over`), takes no new source: the delivery is then answered, its command is not tried
and its receipt says so (`outcome` `refused`). A service that was started with another
configuration than the task has (`~fits`) refuses the delivery at each retry, as often as it
comes, until a restart brings the old configuration back; the service calls nowhere what would
move the task to the new one.

The journal is the set of its events with identifier and content: this is what `TaskLog`
promises, and that is all `process` sees of it. A revision is abstracted to whether it is still
current: `stale` are the handlers that have read one and been overtaken by a commit, of another
handler or of anybody (`OtherCommit`). The identifier of a source event carries the digest of
the delivery's file, hence its copy number: a delivery that a power loss took and GitHub sends
again has another digest. The content carries the version of the issue. `Refuse` is any call of
the handler that fails, `Fault` one that makes the store unhealthy; then `Stop` ends the
process, as `runtime.tick` does. Assumed: the two directories of the inbox exist, and the author
of the issue is a person. The checkpoint document is left out: it decides nothing.

### ModelSessions

Every `_change` is a commit under the task's lock and is one action: `OpenSession`, `Reserve`,
`RecordFailure`, `RecordResult`, `ClaimTool`, `FinishTool`, `AbandonRequest`. `generate` reads
the ledger without the lock (`Inspect`), takes a slot of the process (`TakeSlot`, or `Busy`),
reserves, sends and records the outcome; `pc[k]` is where the call of thread `k` is and `job[k]`
what it has read. The exchange follows `Transport`: before the request is marked as sent a
failure has no effect (`FailToSend`), after it the effect is unknown (`FailAfterSend`,
`Overdue`), and the provider may have done the work (`Work`) or not. `RecordFailure` turns what
had no effect into a retry within `RetryLimit`, everything else into a final failure. A
reservation spends one call and the whole timeout; the record of the outcome gives back what was
not used. `Restart` drops the threads and the slots and may bring another configuration, whose
digest the session is bound to. Messages are counted and a response is the set of the tools it
calls. `asked` and `ran` are histories of what the provider and the tools did.

### AgentLoop

`pc` is the place of the step that runs: `begin`, waiting for the model (`asked`), its tool
`calls`, `patching`, the checks (`checks`, `leased`, `copying`, `running`, `failed`, `released`,
`checked`), a final `text` with its commits (`normalized`, `noted`; `reviewed`, `counted`),
`done` and `settling`; `idle` is between steps and `down` after a crash. The driver's tick is
`RefuseRefresh`, `Wait`, `Exhaust` or `Reserve`, by the first condition that holds. At each
place of `Guarded` the code asks `_guard` again: `Verdict` is what it raises, `Refused` the step
that ends with it, and the actions that go on require `Granted`. `Breaks` is any other call that
raises. `Watch` is the monitor's thread, `Expire` its deadline, `Cancel` the cancellation of the
handler; they only set `revoked`, which the next place reads. A patch is one `Write` for each
file, each after the code's second look at it, under the task's lock (`Locked`); the checks take
a lease, observe the workspace (`seen`), copy it file by file (`copy`) and run the command on
the copy. `normalize`, the record of its basis and the next stage are three commits, with a
crash between any two. `PrepareRepair` and `ConsumeRepair` are two commits as well, and a review
looks at the files (`Review`), records what it found, and then either makes the agent ready
(`Ready`) or counts the repair and goes back (`CountFindings`, `RepairFindings`): other writers
change the files between any two. `Settle` turns the reservation of time into the time used.

What other modules have is here as what the loop reads of it: `task`, `github`, `owing` (a
request or a tool of the session is not settled), the run as its two outcomes and its basis.
`task` has the terms of `Terms`, from which the actions of people and of the engine take what
they do to it, the number of amendments, and `fit`: whether the source and the configuration are
those the agent was started with. `Approve` to `End` are the comments, `Reconcile`, `Recapture`
and `Refresh` the operations that note on the task what changed on GitHub or in the
configuration; until then `github` says that an approval shown there is gone (`revoked`) or that
the source or the configuration is another one (`differs`). A configuration changes with a
restart only, so `Refresh` comes between steps. One command stands for the configured ones,
because `_checks` ends with the first that does not succeed. `released`, `torn`, `tested` and
`looked` are histories. The bound `Final` stops the world around an agent that is blocked for
good.

### Publication

A step is one observation with the commit that follows it, or one request; `pc` names it. The
order of `_run` is the order of the places: the gate (`Regate`), the refs (`Remote`,
`RemoteAgain`), the pull request (`Look`, `CheckPull`, `Finish`), the check (`CheckAbsent`,
`Find`), each at the times the code looks. A request leaves (`Send`), is in `flight`, and
`Happen`s or `Vanish`es; its answer may be lost (`Unanswered`) before or after it happened, and
it may still happen after the service died (`Crash`). `Block` is the error path with
`invalidate`, `Invalidate` what withdraws the check. `Outside` are the branch, the base, the
pull request and the workspace in the hands of others, `Person` what people decide, `TakeUp` and
`ReadyAgain` the agent. `standing` is what GitHub shows of the evidence the approvals rest on:
all of it, a comment edited since, or something gone. `late` is a history of the requests that
left after what they rest on was withdrawn or edited.

## 3. The runs

| Run | Question | Bounds |
| --- | --- | --- |
| `FileJournal_task` | one task: order of blobs and record, compare-and-set, what readers trust, the refinement to `TaskLog` | 2 threads, 3 event ids, 2 contents sharing a blob, failing calls, kill, power loss |
| `FileJournal_repos` | what is acknowledged is lost only with a repository directory nobody has synced, while two tasks create and share it | 2 threads, 2 tasks of 1 repository that does not exist yet, 2 event ids, kill, power loss; about 770 000 states |
| `FairScheduler_service` | limits, slots, work conservation; an identity is in one place; the refinement to `RoundRobin`; control work is dispatched in the end | 4 works in 3 repositories, model and control, two with deadlines; global 2, repository 1, model 2, a provider with 1; under `ServiceSpec` |
| `Workflow_people` | approvals hold for one revision and one basis, a lost approval is told by the epoch, what a run is recorded on was authorised when it was read, a comment counts once, a cancellation is final; the refinement to `Terms` | 3 comments out of 7 commands, 1 user, 2 contents, 1 requirements, 1 design, 2 configurations, epoch up to 5, one disturbance |
| `Execution_run` | one launch, nothing left behind, a dispatched run settles, and what the coordinator records is what `Workflow` allows | 2 comments, 1 user, epoch up to 4, one disturbance; under `ExecFairSpec` |
| `Deliveries_process` | no delivery with a receipt is processed, the refinement to `Inbox`, a delivery gets its receipt while the configuration is the task's | a command and an edit of one issue, 1 slot, the task ended at any time, a restart with another configuration, 2 versions of the issue, 2 disturbances (kill, power loss, failing call, commit of another); under `FairSpec` |
| `ModelSessions_run` | budgets, complete prompts, the refinement to `Dialogue` (a request is worked on once) | 2 threads, 2 sessions, 2 requests, 2 tools, 2 results, 2 routes; 3 calls, 2 tools, time 4, 2 attempts, timeout 2, overrun 1, 1 restart; about 500 000 states |
| `AgentLoop_run` | ready is tested, patches are authorised, a step starts from a settled session, repair budget, complete requirements, a step settles, the refinement to `Terms` | 2 files, 1 repair, 7 seconds, 2 tool calls in an answer; a decision of people, a change by another writer and a fault, two of them in a behaviour; about 980 000 states; under `FairSpec` |
| `Publication_run` | a stop binds, published is true, the refinement to `Outbox` (each request is sent once), what is not ours is kept, the check is withdrawn, a lost answer is found | 2 contents, 2 decisions of people, 1 change from outside, 2 faults (lost request or answer, failing read, crash); under `FairSpec` |
| `FileJournal_restart`, `Deliveries_stuck`, `AgentLoop_amended` | violated: section 5 | |

Why the bounds are enough to be of use. Two threads and two tasks are what a race needs: a lock
is per task, a directory per repository. Three event identifiers let a commit in doubt be
overtaken by another and then be redelivered. Three repositories and a limit of two let one be
skipped while another is dispatched. Three comments are an approval, a start and a design
approval, or an approval, a control command and its reversal; one disturbance at any point
between any two steps is what an interleaving needs, and several disturbances in a row look to
the engine, which only reads the current state, like one. `MaxRequirements`, `MaxDesigns`,
`MaxEpoch` and `MaxChanges` are guards of the actions that count; they cut behaviours off and
add none. Two deliveries are one that holds the slot and one that waits for it or overtakes its
revision; two disturbances are a kill between link and sync and the power loss after it. In
`ModelSessions_run` two requests with two attempts each reach the limit of three calls, two
reservations that of time, and two threads can hold the same request; the callers, sessions,
requests, tools and results are interchangeable, because no action tells them apart. In
`AgentLoop_run` one patch of two files can be torn, seven seconds end a behaviour in each stage,
and two disturbances are a stop taken back while a step runs, or a crash after a change. In
`Publication_run` two faults are a lost answer and the crash after it, two decisions an
amendment and its approval, one of each kind at any place. `CHECK_DEADLOCK FALSE` is said where
the system may stop: an agent that is blocked for good, a run whose budget is spent, a
publication with nothing left to do. Where a property is also proved (section 4), the bound does
not matter.

### Fairness

Safety does not depend on fairness. Five specifications state some:

- `ServiceSpec`: `runtime.run` calls `tick` for ever, a loop under a lock goes on, and every
  handler ends, because its HTTP calls and commands have timeouts and cancellation is checked in
  its waits. Submissions are not fair.
- `ExecFairSpec`: weak fairness of `Execute`, because the helper's answers have a time limit,
  `execute` a deadline and a grace; and of `Recover`, because each start of the service recovers
  what it finds. Strong fairness of `RecordResult` says that a service which is started again
  and again is not killed each time between the read of the basis and the record of a result;
  without it, kills alone keep a run from settling. Fairness of the process is *not* assumed: a
  run settles even if its process never stops.
- `FairSpec` of `Deliveries`: `run` ticks for ever, the calls of a handler return, an accept
  that has linked its file goes on, and a service that has ended is started again. Passing
  failures are bounded by `MaxDisturbances`, so `Processed` says that a delivery gets its
  receipt once they stop. The refusal of a changed configuration is not one of them: it comes at
  every retry, and `Processed` speaks of a service with the configuration of the task. What
  GitHub and people do is not fair.
- `FairSpec` of `AgentLoop`: weak fairness of `Driver \/ Step \/ Recover` as a whole. The
  service schedules every tick and recovers at every start, and each call of a step returns or
  raises at its time limit. `StepSettles` is that no step is in progress for ever, unless an
  operator has to recover it. People, the monitor, other writers and the operator's `resume` are
  not fair.
- `FairSpec` of `Publication`: the driver submits every tick (`Poll`), the publisher's calls
  return, a lost answer is noticed by its timeout (`Unanswered`), and each request in flight
  happens or vanishes. Faults are bounded, so the liveness properties speak of what comes once
  they stop.

## 4. The proofs

Every theorem is for all values of the constants under the assumptions the modules state
(`RepoOfType`, `ProvisionedType`, `BlobsOfType`; `WorksType`, `LimitsType`; `PoliciesType`,
`CommandsType`, `NoOneType`, `BoundsType`): they only give the constants their types, that the
set of works is finite and the limits positive, as the configuration loader ensures.
`DeliveriesType`, `KindType`, `RankType`, `SlotsType` and `NobodyType` of `Deliveries` do the
same, and so do `ConfigsType`, `ProviderOfType`, `NoneType`, `UnsetType`, `FiniteType`,
`LimitsType` and `BoundsType` of `ModelSessions`, `WorkspaceType`, `NoneType`, `LimitsType` and
`BoundsType` of `AgentLoop`, and `DigestsType` and `BoundsType` of `Publication`.

**FileJournalProofs.** `IInv` says what holds of a thread at each place (`PlaceOK`: between the
check under the lock and the link, the expected revision is the current one and the identifier
is new), of the files of a task nobody has locked (`FilesOK`: in a healthy store that is
recovered, nothing is visible and not durable), and of the lock (`LockInv`). None of the safety
properties is inductive by itself: `NoLostUpdate` needs that the revision compared under the
lock is still current when the record is linked, `AppliedOnce` that an identifier checked is
still new, and `AckedKept` that a duplicate is found only where everything visible is durable.
`AckedKept` is of every task and repository: an acknowledged record goes only by a power loss
that takes the repository's directory from under it, and only a directory no maker has synced,
be it that one is about to (`MadeBy`) or was stopped before it could (`abandoned`); `ReposInv`
says that there is no other directory that is visible and not durable. Proved: `TypeCorrect`,
`Invariant`, `AckedNeverLost`, `BlobsFirst`, `CompareAndSet`, `ExactlyOnce`, `ViewsDurable`, and
`ImplementsTaskLog`: under the mapping of the log to the durable prefix of the entries every
step is a step of `TaskLog` or a stutter.

**FairSchedulerProofs.** The invariant joins the types, that the queues, the active set and the
results are disjoint and `known` is their union, that the rotation lists the non-empty queues
once, and the limits, and that a scheduler that has returned unfinished work accepts none and is
in no pass. Counting uses the cardinality lemmas of the library. Proved: `TypeCorrect`,
`LimitsHold`, `IdentitiesUnique`, `RotationComplete`, `SlotsHeld`, and `PassesConserveWork`,
from `Turned`: what a pass has skipped stands at the end of the rotation and could not run,
because within a pass a slot is only taken, and then the count starts again.

`ImplementsRoundRobin` states the same tables as promises about an order, and without lists:
`Arrived` are the pairs of works of one queue, `Turns` the pairs of repositories in the
rotation, `Room` the works a slot is free for. `PairsOfAppend` and `PairsOfTail` say what the
two operations of a deque do to the pairs, `OrderOfQueue` and `Lines` that the queue of a
repository is its line, `HeadsAreNext` that the head of the rotation has its turn and the head
of its queue is the oldest; `RoomOfFewer` and `SameRoom` that to take a slot makes no room, by
the cardinalities of the active sets. So `Submit` only appends, a `Dispatch` serves the oldest
work of the repository whose turn it is and sends that behind all others, `Skip` passes over one
for which there is no room, and only `Reap`, which needs a handler that has stopped, makes room.
What this does not promise is that a repository is served in the end (section 5).

**WorkflowProofs.** The invariant strengthens `ApprovalsCurrent` by where each approval comes
from: its comment was written and says what it was taken for, and comments never change what
they say. `RunsAuthorised` is an action property over two moments. When GitHub is read, what the
gate and the basis find implies that people with the permission of that moment ask for the run,
whichever of the policies and overrides applied (`ReadAuthorised`). When it is recorded, that
was read under the same lock, for this record, and of the documents the task still has, since
nobody commits in between (`LockKeeps`). It does not say that GitHub is still the same, which
nothing can hold still, and the documentation does not promise. Proved: `TypeCorrect`,
`ApprovalsAreCurrent`, `RunsAreAuthorised`, `CancellationSticks`, and `CommentsUsedOnce`, since
an operation writes only approvals the task had, none, or the comment it handles.
`LossesBumpTheEpoch` and `EpochsTell` are about the number the coordinator and the agent compare
instead of the approvals: what an operation writes is of the next epoch (`Later`) or of the same
with everything a run rests on as it was (`Level`), also after it is settled. So the epochs of
two looks at the task tell whether an approval was lost in between, and a run that carries the
task's epoch is of the current documents, approved and not stopped.

`ImplementsTerms` is what the engine does to the part of a task an agent depends on, when who
asked, with which comment and for which revision is forgotten. The mapping `TermsOf` reads that
part off the state, and `Shows` states field by field that it does. A design that waits for an
approval and one that needs none differ by the mode, which an approval of the requirements may
choose (`Chosen`); that a design has an approval only in the mode that asks for one is the first
half of the invariant `Meant`, without which dropping one would not show. The second half is
that a source captured closed is over, so that a commit of the same source changes nothing. What
is granted keeps the epoch, what is taken away begins the next, and nothing follows a
cancellation, requested or confirmed: a run that settles turns the one into the other
(`SettleShows`).

**ExecutionProofs.** That the coordinator implements `Workflow` rests on its places: it records
a reservation, a dispatch or a result without comparing the record that is there, while
`Workflow` allows each only after certain others, and only with a read for it under the same
lock. The invariant says, for each place, which record the run has, what was read and by whom
the lock is held, and that a reserved run was not launched; `Moves`, `Ends`, `MarksUncertain`
and `Finishes` show that what is recorded there is a step of `Workflow`. That needs the
invariant of `Workflow` in the same state, so the two are proved together (`ExecStep`,
`ExecAlways`). Proved: `CoordinatorImplementsWorkflow`, `ExecTypeCorrect`, `RunsLaunchedOnce`,
`NothingLeftBehind`; `LaunchesHoldTheirBasis`, since between the commit of the dispatch and the
start nobody else commits (`LaunchUnderLock`: the section holds the task's lock, and the run is
still that of the task); and `WorkflowHoldsWhileExecuting`, the safety of `Workflow` carried
over to the composition by the refinement.

**DeliveriesProofs.** `ReceiptedIdle` is not inductive because the list of a tick is stale:
`Settled` adds that a delivery which got its receipt after it was listed still has its identity
in the scheduler, so that `submit` does not take it; a durable receipt says so even in an
unhealthy store, whose handlers may fail after the sync. `Recorded` says from which place on the
source is in the journal, unless a task that is over has refused it, `Written` that whatever is
anywhere in the service was once accepted, so that a source event has a copy number, `DownIdle`
what a restart finds. The pass of the scheduler needs that queue and submissions are lists
without repetitions and that cutting them in two keeps this (`Joined`, `Cut`). Proved:
`TypeCorrect`, `ReceiptedNotProcessed`, `ReceiptsTrue`, `CommandsOnce`, `NothingDurableLost`,
and `ImplementsInbox`: the receipt of the abstract inbox is the durable one, so that a receipt
which is only linked and lost with the power is none; `Found` says that a handler that has got
past its beginning knows what its receipt will say, and what a receipt says has happened by
`ReceiptTrue` of the same state.

**ModelSessionsProofs.** `WorkedOnce` makes `AtMostOnce` inductive: a request that waits for a
retry was never worked on, because an error is retryable only if the request had not left or the
provider refused it (`ErrorTypes`, about `Transport`). That needs `InHand`: a pending request is
in the hands of one thread at most, or of none after a kill, and then nobody tries it again.
`ToolOnce` needs `RanOnce` and that a response names only absent tools; `PromptComplete` needs
`OneOpen`, since the message of another request or of a tool would make the prompt stale, and
`ToolHeard`. `BudgetHeld` needs `Reserved`: while a request is pending its timeout is part of
the time spent, within the limit, so that what the record gives back is never more than was
taken and only its own overrun comes on top. `Routed` and `SlotsExact` are about the
configuration and the slots. Proved: `TypeCorrect`, `BudgetsHold`, `PromptsComplete`,
`ImplementsDialogue`, and, without a run of their own, `WorkAtMostOnce`, `ToolsRunOnce`,
`OneRequestOpen`, `RoutesKept` and `SlotsCounted` (`ExactlyOnce` of the journal and
`IdentitiesUnique` and `RotationComplete` of the scheduler are such theorems too). What they say
of identities, requests and tools the runs check as part of `KeepsTaskLog`, `TakesTurns` and
`KeepsDialogue`: a work, a request or a tool that comes twice is no step there. The limit of all
slots together is not proved: it sums over the providers with a fold. For `ImplementsDialogue` a
request is open while it is pending or waits for a retry, so that a retry is no second question,
and closed when it failed or was abandoned, after which a provider may still do the work;
`Heard` says that an answer was worked on, `Unreported` that a tool that is not done has no
result.

**AgentLoopProofs.** None of the properties is inductive, because each relates the end of a step
to something that happened places or steps before. What ties them together is `Lost`: an agent
that crashed, has an unfinished step, or is blocked for `OTHER` or `AGENT_ACTIVE_BUDGET` is
started again by no tick and taken up by no `resume`, only by an operator. A torn patch
(`TornLost`), a request or tool that is not settled (`OwingKept`) and a run released above the
count of repairs (`RepairsCounted`) exist only there, or at the place that is about to settle
them. `PatchInForce` and `ReviewInForce` say that the task's lock keeps what the patch and the
review were granted for, the second also that the files the review has looked at are the
verified ones unless somebody changed them since, `Drafting` that a session of the requirements
was opened with the amendments there are, because an amendment needs drafted requirements and
returns the task to the refresh. `Snapshot` says that the workspace observed, the copy made file
by file, and the workspace present agree while fewer than two changes came from outside: one
change shows as a digest that differs. `Stepping` is what a step knows of itself. Every step is
one of the 16 shapes of `StepCases`, so that each conjunct is proved against those and not
against some 40 actions. Proved: `TypeCorrect`, `RepairsBounded`, `RequirementsAreComplete`,
`PatchesAuthorised`, `StepsStartSettled`, `ReadyIsTested`.

`ImplementsTerms` is the other half of the interface: the task as `AgentLoop` changes it, by
people and by the commits of a step, is a behaviour of the same `Terms`. The two theorems bound
both modules by one description and do not say that they do the same; that the people around a
step do what the engine does rests on their actions being those of `Terms`: each alternative of
its `Step` is one of `Approve` to `End`, `Reconcile`, `Recapture`, `Refresh`, `Normalize` or
`ProposeDesign`. The commits of the loop itself need an invariant: a design is proposed only
where `Guard` passes in the same step, hence on an approved task that is not over
(`GuardHolds`), requirements are drafted only for a task that is not over, and `Revocable` says
that GitHub can only take back approvals of requirements there are. The people's steps follow
from the definitions once `Shows` has the fields of both tasks agree (`Changes`, `PeopleTask`);
all others leave the task alone (`OtherSteps`).

**PublicationProofs.** `EffectOnce` follows from `IntentFirst`: a request is sent only from a
place that was reached by recording its intent, so that it was not sent before (`Knows`, which
says at which stage the record is at each place). `PublishedTrue` needs that what is seen on
GitHub as ours was sent once and is no longer on its way (`Shown`, `Landed`), hence that what
the record calls confirmed has arrived for good (`Confirmed`): others can close or replace it,
and it does not appear again. `StopBinds` needs `Asked`: at a place that sends, nothing has left
unauthorised since the last look at the gate, because the gate passes only where everything the
request rests on is as it was (`GateAuthorises`); an edited comment counts as a withdrawn one
here. `ForeignKept` needs the lease of the push and that GitHub refuses a second pull request.
Proved: `TypeCorrect`, `EffectsHappenOnce`, `IntentsComeFirst`, `StopsBind`,
`PublicationIsTrue`, `ForeignWorkKept`, and `ImplementsOutbox`: the stage of the record is the
set of the effects intended and confirmed, and `Voided` says at which places a step may find its
publication invalidated, so that no step with an older observation records a stage on top of it.

Only model-checked: the liveness properties (`ControlServed`, `RunSettles`, `Processed`,
`StepSettles`, `CheckWithdrawn`, `LostAnswerFound`), which are out of the prover's reach.

## 5. What the runs found

Each is a run that TLC ends with the violation of what a document or a comment says.

- `FileJournal_restart`: a process killed between creating the directories of a new task and
  publishing its first record leaves a directory `task_keys` calls corrupt: every later start
  refuses the store.
- `Deliveries_stuck`: a source event is named by its delivery, and its content is the issue with
  its version. When the first attempt commits it and then fails, and anything moves the issue,
  every retry is an event collision: the command is never applied and never refused. `Processed`
  is therefore promised for deliveries that are not `Torn`, with the configuration the task has.
- `AgentLoop_amended`: an amendment while the verification command runs ends the run for its
  changed basis, and the step blocks with a reason that neither `needs_requirements_refresh` nor
  `resume` knows: the amended task is never taken up, though the documentation says that a
  safely ended step is.

Smaller observations have no run of their own.

*Journal, scheduler, inbox.* Two tasks of a new repository that look for its directory before
either creates it make the whole store unhealthy (`storage/journal.py` 78: the second `mkdir`
raises). A repository that is skipped for the model limit is appended again behind the others,
and with other works to take the slot first it may wait for ever; control work is not affected
(`ControlServed`). A delivery that was linked and not synced when the process died is answered
as a duplicate without a sync, and a power loss then takes what GitHub was told is kept.
`_mkdir` takes a directory that exists as it is and does not sync it: a commit may be
acknowledged below a repository directory that another thread has created and not yet synced,
and below one whose maker was killed first, which no later commit of that repository syncs;
`AckedKept` names these two as the only ways in which what was acknowledged is lost. A handler
that ends after its deadline and before the next pass is reported as completed. A handler that
ends after the shutdown grace is in the list of interrupted work and, in the final checkpoint,
also completed. A delivery whose command was applied before the process died, and whose comment
was edited before the retry, gets a receipt that says rejected (`ReceiptTrue` promises only the
other direction). Deliveries that wait together are processed in the order of their digests.
After a restart with another configuration every delivery for an older task raises
`POLICY_CHANGED` and stays pending, submitted again at each tick, until the old configuration is
back: `refresh_policy`, which would move the task, is called by nothing in the service.

*Runs.* What a run is reserved, dispatched or called successful on is GitHub as it was read at
the beginning of a section, before the workspace is verified and the reports are written
(`execution/coordinator.py` 62-78, 128-150, 173-181). A permission withdrawn in between is
noticed by the next read only.

*Agent loop.* Two calls of `run_checks` in one answer have the same run identity: the second is
a collision and its tool stays claimed, so that the session is never settled (`ReserveRun`
requires `~ran`). Any commit between the guard and the reservation of the run, even one that
changes no basis, is a conflict that blocks the agent for good (`overtaken`). The reason of an
approval that was revoked is one `resume` does not accept, and a stop followed by an amendment
leaves the reason `AGENT_PAUSED`, which the refresh does not know. A configuration that is
changed and changed back resets the task, and the agent that was started with it waits for an
approval of requirements nobody drafts again. `apply_patch` does not look again at a file it
creates. An agent whose task is approved and not started waits with the reason `START_REQUIRED`,
which `needs_requirements_refresh` does not know (`agents/engine.py` 157-158), so that an
amendment then is taken up one tick later, when `APPROVAL_REQUIRED` has replaced it; the model
has it wait as for an approval. A file changed after the review has looked, and before the agent
is ready, is noticed by the publishing gate. Two changes of another writer, there and back, let
the snapshot that is tested differ from the digest that was observed; the publishing gate
compares again, and `ReadyTested` promises the equality for fewer than two, and that the files
are the verified ones for those who left them alone since the review looked. An edited status
comment makes `publish` raise while the agent waits for people, so that the driver never notes
the revision it has observed (`driver.py` 34-35) and submits the same step every tick.

*Publication.* A gate that is closed or an agent that is not ready blocks a publication and does
not invalidate it. An edited approval comment is such a gate: it raises `COMMAND_EDITED`, which
is not in `INVALIDATING` (`publishing/engine.py` 15-18), so that nothing more is sent but a
check that is already there is not withdrawn; a deleted comment does withdraw it. A failed
withdrawal of the check that is on record as pending is not tried again, as the documentation
says. A failure computed from an older state withdraws the approvals of the current one
(`publishing/engine.py` 157-164), a fresh approval included. A text that cannot be rendered
after an amendment raises an error that is no `AgentError` and leaves the record as it is
(`Unrenderable`).

## 6. What is not modelled

- Within the modelled parts: the repository's enabled flag, which is one more refusal; the text
  of documents, comments, plans and reports; two callers that execute and recover the same run
  at once, which the service never has (recovery precedes scheduling, and the scheduler refuses
  a second identity); the corruption of records on disk, which the journal detects by digests.
- Around a step of the agent: the status comment (`agents/status.py`, `github/status.py`), the
  preparation of a checkout (`git_workspace.py`), the policy of paths and sizes, which is one
  more refusal, and a second call of `step` for an agent that is ready, which the driver never
  makes.
- In `ModelSessions`: the contents of messages and tools, and the wait until `retry_at`, which
  only delays.
- In `Publication`: the text of the branch, the pull request and the check; what the gate asks
  of reviews, runs and plans is the digest the agent verified.
- Around the inbox: authentication and parsing of a request, which decide whether `accept` is
  called; the shutdown of the runtime and its checkpoint document.
- `github/client.py`, `auth.py`, `http.py`, the rest of `transport.py`: one request and its
  answer; what is read of GitHub is the world of `Workflow`. `config/`, `validation.py`: pure
  validation. The wire formats of `models/adapters.py`. `repositories/`: inspection of a
  checkout. `service/http_server.py` and the bootstrap: wiring. `evaluation/`, `cli.py`, the
  demos: not the service.

## 7. Plan

1. `AgentLoop` as a user of `ModelSessions` and `Execution`: a refinement of what it reads of
   them (`owing`, the outcome of a run) by their ledgers.
2. The status comment: one comment per task over lost answers and restarts.
