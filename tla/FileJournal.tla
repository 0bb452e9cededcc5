---------------------------- MODULE FileJournal ----------------------------
(***************************************************************************)
(* ai_dlc/storage/journal.py: the file journal of one service process, at  *)
(* the granularity of its file system calls.                               *)
(*                                                                         *)
(* The disk keeps what is visible in the page cache and what has been      *)
(* fsynced.  Killing the process keeps everything visible; a power loss    *)
(* may drop whatever was not synced.  The service opens the store with     *)
(* task_keys and recover (service/runtime.py, start), then worker threads  *)
(* read and commit under a lock per task.                                  *)
(*                                                                         *)
(* Abstractions.  A task's state is a function of its records, so a record *)
(* is the request that made it and the revision it was computed from.      *)
(* snapshot.json is read by no code: writing it is a step that can fail,   *)
(* not data.  The tasks/ directory exists and is durable; the directories  *)
(* of one task (issue, blobs, journal) are created in one step and synced  *)
(* in another.  An unsynced file that outlives a power loss still counts   *)
(* as unsynced, until recover syncs its directory.                         *)
(***************************************************************************)
EXTENDS Naturals, Sequences, FiniteSets

CONSTANTS
  Keys,         \* task keys
  Repos,        \* repository directories under tasks/
  RepoOf,       \* RepoOf[k]: the directory task k's own directory is in
  Provisioned,  \* the repositories whose directory is durable from the start
  Threads,      \* worker threads of the process
  EventIds,
  Bodies,       \* event contents
  Blobs,        \* content digests
  BlobsOf,      \* BlobsOf[b]: the blobs an event with content b refers to
  Faults        \* subset of {"io", "power"}: the faults the disk may show

ASSUME RepoOfType == RepoOf \in [Keys -> Repos]
ASSUME ProvisionedType == Provisioned \subseteq Repos
ASSUME BlobsOfType == BlobsOf \in [Bodies -> SUBSET Blobs]

Requests == [id : EventIds, body : Bodies]
Records == [req : Requests, basis : Nat]
CommitJobs == [key : Keys, req : Requests, expected : Nat]
RecoverJobs == [key : Keys]
NoJob == [key |-> "none"]

(* Where a thread is.  "read" is between history() and commit(), without   *)
(* the task lock; every other place except "idle" holds it.                 *)
CommitPlaces == {"dirs", "mkrepo", "syncrepo", "mktask", "blobs", "syncblob",
                 "syncrecord", "snapshot"}
RecoverPlaces == {"rblobs", "rjournal", "rsnapshot"}
LockedPlaces == CommitPlaces \cup RecoverPlaces
Places == {"idle", "read"} \cup LockedPlaces

VARIABLES
  repoDir,    \* [Repos -> {"absent", "visible", "durable"}]
  taskDir,    \* [Keys -> {"absent", "partial", "ready"}]: not there, being
              \* created, there with blobs/ and journal/ and synced
  blobs,      \* [Keys -> SUBSET Blobs]: visible blob files
  blobsSynced,\* [Keys -> SUBSET Blobs]: those whose directory was synced
  entries,    \* [Keys -> Seq(Records)]: visible journal records, in order
  synced,     \* [Keys -> Nat]: how many of them the directory was synced with
  phase,      \* "down", "opened" (recovering), "serving", "refused"
  toRecover,  \* the keys start() has still to recover
  unhealthy,  \* FileJournal._unhealthy
  pc,         \* [Threads -> Places]
  job,        \* [Threads -> the call's arguments]
  acked,      \* history: [Keys -> SUBSET Requests] told committed
  abandoned   \* history: the repositories whose directory is visible, but
              \* whoever made it was stopped before it had synced it

disk == <<repoDir, taskDir, blobs, blobsSynced, entries, synced>>
service == <<phase, toRecover, unhealthy>>
history == <<acked, abandoned>>
vars == <<disk, service, pc, job, history>>

TypeOK ==
  /\ repoDir \in [Repos -> {"absent", "visible", "durable"}]
  /\ taskDir \in [Keys -> {"absent", "partial", "ready"}]
  /\ blobs \in [Keys -> SUBSET Blobs]
  /\ blobsSynced \in [Keys -> SUBSET Blobs]
  /\ entries \in [Keys -> Seq(Records)]
  /\ synced \in [Keys -> Nat]
  /\ \A k \in Keys : synced[k] <= Len(entries[k])
  /\ phase \in {"down", "opened", "serving", "refused"}
  /\ toRecover \in SUBSET Keys
  /\ unhealthy \in BOOLEAN
  /\ pc \in [Threads -> Places]
  /\ job \in [Threads -> CommitJobs \cup RecoverJobs \cup {NoJob}]
  /\ \A t \in Threads :
       /\ pc[t] = "read" \/ pc[t] \in CommitPlaces => job[t] \in CommitJobs
       /\ pc[t] \in RecoverPlaces => job[t] \in RecoverJobs
  /\ acked \in [Keys -> SUBSET Requests]
  /\ abandoned \in SUBSET Repos

Init ==
  /\ repoDir = [r \in Repos |-> IF r \in Provisioned THEN "durable" ELSE "absent"]
  /\ taskDir = [k \in Keys |-> "absent"]
  /\ blobs = [k \in Keys |-> {}]
  /\ blobsSynced = [k \in Keys |-> {}]
  /\ entries = [k \in Keys |-> <<>>]
  /\ synced = [k \in Keys |-> 0]
  /\ phase = "down"
  /\ toRecover = {}
  /\ unhealthy = FALSE
  /\ pc = [t \in Threads |-> "idle"]
  /\ job = [t \in Threads |-> NoJob]
  /\ acked = [k \in Keys |-> {}]
  /\ abandoned = {}

-----------------------------------------------------------------------------
AllIdle == \A t \in Threads : pc[t] = "idle"

LockFree(k) == \A t \in Threads : pc[t] \in LockedPlaces => job[t].key # k

(* start() works on one key at a time before the service serves: it may     *)
(* commit for a key it has recovered (agent and execution recovery).        *)
Usable(k) ==
  \/ phase = "serving"
  \/ /\ phase = "opened" /\ AllIdle
     /\ k \notin toRecover /\ entries[k] # <<>>

Goto(t, place) ==
  /\ pc' = [pc EXCEPT ![t] = place]
  /\ UNCHANGED job

Return(t) ==
  /\ pc' = [pc EXCEPT ![t] = "idle"]
  /\ job' = [job EXCEPT ![t] = NoJob]

Acknowledge(t) ==
  acked' = [acked EXCEPT ![job[t].key] = @ \cup {job[t].req}]

Committed(k, r) == \E i \in DOMAIN entries[k] : entries[k][i].req = r

KnownId(k, id) == \E i \in DOMAIN entries[k] : entries[k][i].req.id = id

Missing(t) == BlobsOf[job[t].req.body] \ blobs[job[t].key]

-----------------------------------------------------------------------------
(* Opening the store: __enter__, then start() enumerates the tasks.  A task *)
(* directory without a first record makes task_keys raise STATE_CORRUPT and *)
(* the service does not start.                                              *)
Enumerable == \A k \in Keys : taskDir[k] # "absent" => entries[k] # <<>>

Open ==
  /\ phase = "down"
  /\ unhealthy' = FALSE
  /\ IF Enumerable
       THEN /\ phase' = "opened"
            /\ toRecover' = {k \in Keys : taskDir[k] # "absent"}
       ELSE /\ phase' = "refused"
            /\ toRecover' = {}
  /\ UNCHANGED <<disk, pc, job, history>>

(* recover(key), called by start() for each key.                            *)
StartRecover(t, k) ==
  /\ phase = "opened" /\ AllIdle /\ k \in toRecover
  /\ pc' = [pc EXCEPT ![t] = "rblobs"]
  /\ job' = [job EXCEPT ![t] = [key |-> k]]
  /\ UNCHANGED <<disk, service, history>>

(* recover(key), called by implementation_gate under the task lock after    *)
(* assert_healthy.                                                          *)
Gate(t, k) ==
  /\ pc[t] = "idle" /\ Usable(k) /\ phase = "serving"
  /\ LockFree(k) /\ ~unhealthy /\ entries[k] # <<>>
  /\ pc' = [pc EXCEPT ![t] = "rblobs"]
  /\ job' = [job EXCEPT ![t] = [key |-> k]]
  /\ UNCHANGED <<disk, service, history>>

RecoverBlobs(t) ==
  /\ pc[t] = "rblobs"
  /\ blobsSynced' = [blobsSynced EXCEPT ![job[t].key] = blobs[job[t].key]]
  /\ Goto(t, "rjournal")
  /\ UNCHANGED <<repoDir, taskDir, blobs, entries, synced, service, history>>

RecoverJournal(t) ==
  /\ pc[t] = "rjournal"
  /\ synced' = [synced EXCEPT ![job[t].key] = Len(entries[job[t].key])]
  /\ Goto(t, "rsnapshot")
  /\ UNCHANGED <<repoDir, taskDir, blobs, blobsSynced, entries, service, history>>

RecoverSnapshot(t) ==
  /\ pc[t] = "rsnapshot"
  /\ toRecover' = toRecover \ {job[t].key}
  /\ Return(t)
  /\ UNCHANGED <<disk, phase, unhealthy, history>>

Serve ==
  /\ phase = "opened" /\ AllIdle /\ toRecover = {}
  /\ phase' = "serving"
  /\ UNCHANGED <<disk, toRecover, unhealthy, pc, job, history>>

-----------------------------------------------------------------------------
(* The caller's side of a commit: history() tells the revision the change   *)
(* is computed from; the lock is released before commit() takes it again.   *)
ReadRevision(t, k, r) ==
  /\ pc[t] = "idle" /\ Usable(k) /\ LockFree(k)
  /\ pc' = [pc EXCEPT ![t] = "read"]
  /\ job' = [job EXCEPT ![t] = [key |-> k, req |-> r, expected |-> Len(entries[k])]]
  /\ UNCHANGED <<disk, service, history>>

(* commit() under the lock.  An unhealthy store, an identifier reused with  *)
(* other content and a stale revision raise; nothing changes.               *)
Reject(t) ==
  /\ pc[t] = "read" /\ LockFree(job[t].key)
  /\ LET k == job[t].key
         r == job[t].req
     IN \/ unhealthy
        \/ ~Committed(k, r) /\ KnownId(k, r.id)
        \/ ~KnownId(k, r.id) /\ job[t].expected # Len(entries[k])
  /\ Return(t)
  /\ UNCHANGED <<disk, service, history>>

(* Mutant: an identifier alone makes a duplicate.                           *)
DuplicateById(t) ==
  /\ pc[t] = "read" /\ LockFree(job[t].key) /\ ~unhealthy
  /\ KnownId(job[t].key, job[t].req.id)
  /\ Acknowledge(t)
  /\ Return(t)
  /\ UNCHANGED <<disk, service, abandoned>>

(* The same content again returns the current state, whatever the expected  *)
(* revision.                                                                *)
Duplicate(t) ==
  /\ pc[t] = "read" /\ LockFree(job[t].key) /\ ~unhealthy
  /\ Committed(job[t].key, job[t].req)
  /\ Acknowledge(t)
  /\ Return(t)
  /\ UNCHANGED <<disk, service, abandoned>>

(* Mutant: the revision is not compared.                                    *)
BeginCommitBlind(t) ==
  /\ pc[t] = "read" /\ LockFree(job[t].key) /\ ~unhealthy
  /\ ~KnownId(job[t].key, job[t].req.id)
  /\ Goto(t, "dirs")
  /\ UNCHANGED <<disk, service, history>>


BeginCommit(t) ==
  /\ pc[t] = "read" /\ LockFree(job[t].key) /\ ~unhealthy
  /\ ~KnownId(job[t].key, job[t].req.id)
  /\ job[t].expected = Len(entries[job[t].key])
  /\ Goto(t, "dirs")
  /\ UNCHANGED <<disk, service, history>>

-----------------------------------------------------------------------------
(* _mkdir: what exists is neither created nor synced.  Looking and creating *)
(* are separate steps, and the repository directory is shared by tasks that *)
(* hold different locks.                                                    *)
FindRepo(t) ==
  /\ pc[t] = "dirs"
  /\ repoDir[RepoOf[job[t].key]] = "absent"
  /\ Goto(t, "mkrepo")
  /\ UNCHANGED <<disk, service, history>>

MakeRepo(t) ==
  /\ pc[t] = "mkrepo"
  /\ repoDir[RepoOf[job[t].key]] = "absent"
  /\ repoDir' = [repoDir EXCEPT ![RepoOf[job[t].key]] = "visible"]
  /\ Goto(t, "syncrepo")
  /\ UNCHANGED <<taskDir, blobs, blobsSynced, entries, synced, service, history>>

(* Mutant: a new repository directory is not synced into tasks/.            *)
SyncRepoSkipped(t) ==
  /\ pc[t] = "syncrepo"
  /\ Goto(t, "dirs")
  /\ UNCHANGED <<disk, service, history>>


(* fsync of tasks/: every repository directory visible in it is durable.    *)
SyncRepo(t) ==
  /\ pc[t] = "syncrepo"
  /\ repoDir' = [r \in Repos |-> IF repoDir[r] = "visible" THEN "durable" ELSE repoDir[r]]
  /\ abandoned' = {}
  /\ Goto(t, "dirs")
  /\ UNCHANGED <<taskDir, blobs, blobsSynced, entries, synced, service, acked>>

MakeTask(t) ==
  /\ pc[t] = "dirs"
  /\ repoDir[RepoOf[job[t].key]] # "absent"
  /\ taskDir[job[t].key] # "ready"
  /\ taskDir' = [taskDir EXCEPT ![job[t].key] = "partial"]
  /\ Goto(t, "mktask")
  /\ UNCHANGED <<repoDir, blobs, blobsSynced, entries, synced, service, history>>

SyncTask(t) ==
  /\ pc[t] = "mktask"
  /\ taskDir' = [taskDir EXCEPT ![job[t].key] = "ready"]
  /\ Goto(t, "blobs")
  /\ UNCHANGED <<repoDir, blobs, blobsSynced, entries, synced, service, history>>

FindTask(t) ==
  /\ pc[t] = "dirs"
  /\ taskDir[job[t].key] = "ready"
  /\ Goto(t, "blobs")
  /\ UNCHANGED <<disk, service, history>>

-----------------------------------------------------------------------------
(* _publish: link makes the file visible, the directory sync durable.  A    *)
(* blob that exists is checked, not synced again.                           *)
LinkBlob(t, b) ==
  /\ pc[t] = "blobs" /\ b \in Missing(t)
  /\ blobs' = [blobs EXCEPT ![job[t].key] = @ \cup {b}]
  /\ Goto(t, "syncblob")
  /\ UNCHANGED <<repoDir, taskDir, blobsSynced, entries, synced, service, history>>

(* Mutant: a blob's directory entry is not synced.                          *)
SyncBlobSkipped(t) ==
  /\ pc[t] = "syncblob"
  /\ Goto(t, "blobs")
  /\ UNCHANGED <<disk, service, history>>


SyncBlob(t) ==
  /\ pc[t] = "syncblob"
  /\ blobsSynced' = [blobsSynced EXCEPT ![job[t].key] = blobs[job[t].key]]
  /\ Goto(t, "blobs")
  /\ UNCHANGED <<repoDir, taskDir, blobs, entries, synced, service, history>>

LinkRecord(t) ==
  /\ pc[t] = "blobs" /\ Missing(t) = {}
  /\ entries' = [entries EXCEPT ![job[t].key] =
                   Append(@, [req |-> job[t].req, basis |-> job[t].expected])]
  /\ Goto(t, "syncrecord")
  /\ UNCHANGED <<repoDir, taskDir, blobs, blobsSynced, synced, service, history>>

SyncRecord(t) ==
  /\ pc[t] = "syncrecord"
  /\ synced' = [synced EXCEPT ![job[t].key] = Len(entries[job[t].key])]
  /\ Goto(t, "snapshot")
  /\ UNCHANGED <<repoDir, taskDir, blobs, blobsSynced, entries, service, history>>

SnapshotCommit(t) ==
  /\ pc[t] = "snapshot"
  /\ Acknowledge(t)
  /\ Return(t)
  /\ UNCHANGED <<disk, service, abandoned>>

-----------------------------------------------------------------------------
(* The repository directory a thread has made and not synced; tasks/ may    *)
(* have been synced by another maker meanwhile.                             *)
MadeBy(t) == IF pc[t] = "syncrepo" THEN {RepoOf[job[t].key]} ELSE {}

Unsynced == {r \in Repos : repoDir[r] = "visible"}

Interrupted == abandoned \cup {r \in Unsynced : \E t \in Threads : r \in MadeBy(t)}

(* A file system call fails, or mkdir finds the directory another thread    *)
(* made since the look: the store is unhealthy until it is reopened.        *)
CallFails(t) ==
  \/ "io" \in Faults /\ pc[t] \in LockedPlaces
  \/ pc[t] = "mkrepo" /\ repoDir[RepoOf[job[t].key]] # "absent"

(* The caller is told committed when only the snapshot failed, and STATE_IO *)
(* otherwise: also when what failed is removing the temporary file of the   *)
(* record just synced.  While recovering, STATE_IO makes start() raise and  *)
(* the process exits.                                                       *)
Answer(t) ==
  \/ /\ pc[t] = "snapshot"
     /\ Acknowledge(t)
     /\ UNCHANGED <<phase, abandoned>>
  \/ /\ phase' = IF phase = "opened" THEN "down" ELSE phase
     /\ abandoned' = abandoned \cup (MadeBy(t) \cap Unsynced)
     /\ UNCHANGED acked

(* Mutant: a failure leaves the store healthy.                              *)
FailStaysHealthy(t) ==
  /\ CallFails(t)
  /\ Answer(t)
  /\ Return(t)
  /\ UNCHANGED <<disk, toRecover, unhealthy>>


Fail(t) ==
  /\ CallFails(t)
  /\ unhealthy' = TRUE
  /\ Answer(t)
  /\ Return(t)
  /\ UNCHANGED <<disk, toRecover>>

Down ==
  /\ phase' = "down"
  /\ pc' = [t \in Threads |-> "idle"]
  /\ job' = [t \in Threads |-> NoJob]
  /\ UNCHANGED <<toRecover, unhealthy, acked>>

(* The process ends at any step; the page cache survives.                   *)
Kill ==
  /\ phase # "down"
  /\ Down
  /\ abandoned' = Interrupted
  /\ UNCHANGED disk

(* What is left on the disk when unsynced directories, with everything      *)
(* below them, and the unsynced files of some tasks are gone.               *)
Lose(lostRepos, lostTasks, lostFiles) ==
  LET gone(k) == RepoOf[k] \in lostRepos \/ k \in lostTasks
  IN /\ repoDir' = [r \in Repos |-> IF r \in lostRepos THEN "absent" ELSE repoDir[r]]
     /\ taskDir' = [k \in Keys |-> IF gone(k) THEN "absent" ELSE taskDir[k]]
     /\ blobs' = [k \in Keys |-> IF gone(k) THEN {}
                    ELSE IF k \in lostFiles THEN blobsSynced[k] ELSE blobs[k]]
     /\ blobsSynced' = [k \in Keys |-> IF gone(k) THEN {} ELSE blobsSynced[k]]
     /\ entries' = [k \in Keys |-> IF gone(k) THEN <<>>
                      ELSE IF k \in lostFiles THEN SubSeq(entries[k], 1, synced[k])
                      ELSE entries[k]]
     /\ synced' = [k \in Keys |-> IF gone(k) THEN 0 ELSE synced[k]]

(* The machine stops.                                                       *)
PowerLoss ==
  /\ "power" \in Faults
  /\ Down
  /\ \E lostRepos \in SUBSET Unsynced,
        lostTasks \in SUBSET {k \in Keys : taskDir[k] = "partial"},
        lostFiles \in SUBSET Keys :
       /\ Lose(lostRepos, lostTasks, lostFiles)
       /\ abandoned' = Interrupted \ lostRepos

CommitStep(t) ==
  \/ \E k \in Keys, r \in Requests : ReadRevision(t, k, r)
  \/ Reject(t) \/ Duplicate(t) \/ BeginCommit(t)
  \/ FindRepo(t) \/ MakeRepo(t) \/ SyncRepo(t)
  \/ MakeTask(t) \/ SyncTask(t) \/ FindTask(t)
  \/ \E b \in Blobs : LinkBlob(t, b)
  \/ SyncBlob(t) \/ LinkRecord(t) \/ SyncRecord(t) \/ SnapshotCommit(t)

RecoverStep(t) ==
  \/ \E k \in Keys : StartRecover(t, k) \/ Gate(t, k)
  \/ RecoverBlobs(t) \/ RecoverJournal(t) \/ RecoverSnapshot(t)

Next ==
  \/ Open \/ Serve \/ Kill \/ PowerLoss
  \/ \E t \in Threads : CommitStep(t) \/ RecoverStep(t) \/ Fail(t)

Spec == Init /\ [][Next]_vars

-----------------------------------------------------------------------------
Durable(k) == {entries[k][i].req : i \in 1..synced[k]}

Settled == {k \in Keys : RepoOf[k] \in Provisioned}

(* Whatever dies and whenever, and whoever creates the directories: a       *)
(* request is acknowledged (commit() returns, for the first time or as a    *)
(* duplicate) only when its record is synced.  One acknowledged so is lost  *)
(* only by a power loss that takes the directory of its repository, while   *)
(* the task that made the directory is at the sync or after it was stopped  *)
(* before it: _mkdir takes a directory it finds as it is.                   *)
KeptNow ==
  \A k \in Keys :
    /\ acked'[k] \ acked[k] \subseteq Durable(k)'
    /\ \/ acked[k] \cap Durable(k) \subseteq Durable(k)'
       \/ /\ repoDir'[RepoOf[k]] = "absent"
          /\ RepoOf[k] \in abandoned \/ \E t \in Threads : RepoOf[k] \in MadeBy(t)

AckedKept == [][KeptNow]_vars

(* A record is never visible before every blob it refers to is durable:     *)
(* otherwise a crash could leave a record that _records() calls corrupt and *)
(* block the task for good.                                                 *)
BlobsBeforeRecord ==
  \A k \in Keys : \A i \in DOMAIN entries[k] :
    BlobsOf[entries[k][i].req.body] \subseteq blobsSynced[k]

(* The compare-and-set: every record was computed from the state just       *)
(* before it, across threads, failures and restarts.                        *)
NoLostUpdate ==
  \A k \in Keys : \A i \in DOMAIN entries[k] : entries[k][i].basis + 1 = i

(* An event is applied at most once, even when its first commit ended in    *)
(* doubt (STATE_IO, a crash before the answer) and it is redelivered.       *)
AppliedOnce ==
  \A k \in Keys : \A i, j \in DOMAIN entries[k] :
    entries[k][i].req.id = entries[k][j].req.id => i = j

(* While the store is healthy, whoever takes a task's lock (a reader, a     *)
(* duplicate, the gate) sees only records and blobs no crash can undo.      *)
HealthyViewDurable ==
  \A k \in Keys :
    phase = "serving" /\ ~unhealthy /\ LockFree(k)
      => synced[k] = Len(entries[k]) /\ blobsSynced[k] = blobs[k]

(* The journal keeps the promise of TaskLog for the settled tasks: what is  *)
(* durable only grows, one new event at a time, through every crash, and    *)
(* only what is durable is acknowledged.                                    *)
DurableLog == [k \in Settled |-> [i \in 1..synced[k] |-> entries[k][i].req]]
SettledAcks == [k \in Settled |-> acked[k]]

Log == INSTANCE TaskLog WITH Tasks <- Settled, log <- DurableLog, acked <- SettledAcks

KeepsTaskLog == Log!Spec

-----------------------------------------------------------------------------
(* What the repository says and the code does not do.                       *)

(* task_keys (journal.py, its docstring) "lets restart recovery discover    *)
(* work without maintaining a second, crash-sensitive index": a crash of    *)
(* the service itself never makes a restart refuse the store.               *)
RestartDiscoversTasks == phase # "refused"

-----------------------------------------------------------------------------
(* The inductive strengthening of the invariants above: what holds of the   *)
(* disk, of a thread at each place, and of a task nobody has locked.        *)
LockInv ==
  \A t, u \in Threads :
    pc[t] \in LockedPlaces /\ pc[u] \in LockedPlaces /\ job[t].key = job[u].key
      => t = u

SettledInv == \A k \in Settled : repoDir[RepoOf[k]] = "durable"

ReposInv ==
  \A r \in Repos : repoDir[r] = "visible" => r \in abandoned \/ \E t \in Threads : r \in MadeBy(t)

PhaseInv ==
  /\ phase \in {"down", "refused"} => AllIdle
  /\ phase = "serving" => toRecover = {}
  /\ phase = "opened" =>
       /\ \A t, u \in Threads : pc[t] # "idle" /\ pc[u] # "idle" => t = u
       /\ \A t \in Threads : pc[t] = "read" => job[t].key \notin toRecover

BeforeLink == CommitPlaces \ {"syncrecord", "snapshot"}

PlaceOK(t) ==
  LET k == job[t].key
  IN /\ pc[t] \in BeforeLink =>
          job[t].expected = Len(entries[k]) /\ ~KnownId(k, job[t].req.id)
     /\ pc[t] \in {"syncrecord", "snapshot"} => Committed(k, job[t].req)
     /\ pc[t] \in {"blobs", "syncblob", "syncrecord", "snapshot"} => taskDir[k] = "ready"
     /\ pc[t] \in BeforeLink \cup {"snapshot", "rsnapshot"} => synced[k] = Len(entries[k])
     /\ pc[t] \in (CommitPlaces \ {"syncblob"}) \cup {"rjournal", "rsnapshot"} =>
          blobsSynced[k] = blobs[k]

Trusted(k) ==
  ~unhealthy /\ (phase = "serving" \/ (phase = "opened" /\ k \notin toRecover))

FilesOK(k) ==
  /\ Len(entries[k]) <= synced[k] + 1
  /\ blobsSynced[k] \subseteq blobs[k]
  /\ taskDir[k] # "ready" => entries[k] = <<>> /\ blobs[k] = {}
  /\ Trusted(k) /\ LockFree(k) => synced[k] = Len(entries[k]) /\ blobsSynced[k] = blobs[k]

RecordsOK(k) ==
  /\ \A i \in DOMAIN entries[k] :
       /\ BlobsOf[entries[k][i].req.body] \subseteq blobsSynced[k]
       /\ entries[k][i].basis + 1 = i
  /\ \A i, j \in DOMAIN entries[k] :
       entries[k][i].req.id = entries[k][j].req.id => i = j

IInv ==
  /\ TypeOK /\ LockInv /\ SettledInv /\ ReposInv /\ PhaseInv
  /\ \A t \in Threads : PlaceOK(t)
  /\ \A k \in Keys : FilesOK(k) /\ RecordsOK(k)
=============================================================================
