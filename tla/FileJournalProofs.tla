------------------------- MODULE FileJournalProofs -------------------------
(***************************************************************************)
(* The journal's safety for any number of tasks, threads, events and blobs *)
(* and any pattern of failures, process deaths and power losses.           *)
(***************************************************************************)
EXTENDS FileJournal, TLAPS

-----------------------------------------------------------------------------
(* Every variable keeps its type: what a job's fields are at each place is  *)
(* what the later steps of the call rely on.                                *)
LEMMA JobFields ==
  /\ \A j \in CommitJobs : j.key \in Keys /\ j.req \in Requests /\ j.expected \in Nat
  /\ \A j \in RecoverJobs : j.key \in Keys
  /\ \A k \in Keys : [key |-> k] \in RecoverJobs
  /\ \A k \in Keys, r \in Requests, n \in Nat :
       [key |-> k, req |-> r, expected |-> n] \in CommitJobs
  BY DEF CommitJobs, RecoverJobs

LEMMA TypeInit == Init => TypeOK
<1> SUFFICES ASSUME Init PROVE TypeOK
  OBVIOUS
<1>1. <<>> \in Seq(Records) /\ Len(<<>>) = 0
  OBVIOUS
<1>2. entries \in [Keys -> Seq(Records)] /\ \A k \in Keys : synced[k] <= Len(entries[k])
  BY <1>1 DEF Init
<1>3. QED
  BY <1>2, ProvisionedType DEF Init, TypeOK, Places, LockedPlaces, CommitPlaces, RecoverPlaces

LEMMA TypeStep == TypeOK /\ [Next]_vars => TypeOK'
<1> SUFFICES ASSUME TypeOK, [Next]_vars PROVE TypeOK'
  OBVIOUS
<1> USE RepoOfType, JobFields DEF Places, LockedPlaces, CommitPlaces, RecoverPlaces, TypeOK, Goto, Return, disk, service, history
<1>1. CASE Open
  BY <1>1 DEF Open
<1>2. CASE Serve
  BY <1>2 DEF Serve
<1>3. CASE Kill
  BY <1>3 DEF Kill, Down, Interrupted, Unsynced
<1>4. CASE PowerLoss
  <2>1. PICK lostRepos \in SUBSET Repos, lostTasks \in SUBSET Keys, lostFiles \in SUBSET Keys :
          Lose(lostRepos, lostTasks, lostFiles) /\ abandoned' = Interrupted \ lostRepos
    BY <1>4 DEF PowerLoss, Unsynced
  <2> DEFINE gone(k) == RepoOf[k] \in lostRepos \/ k \in lostTasks
  <2>2. \A k \in Keys : SubSeq(entries[k], 1, synced[k]) \in Seq(Records)
    OBVIOUS
  <2>3. entries' \in [Keys -> Seq(Records)]
    BY <2>1, <2>2 DEF Lose
  <2> QED
    BY <1>4, <2>1, <2>3 DEF PowerLoss, Down, Lose, Interrupted, Unsynced
<1>5. ASSUME NEW t \in Threads, CommitStep(t) PROVE TypeOK'
  <2>1. ASSUME NEW k \in Keys, NEW r \in Requests, ReadRevision(t, k, r) PROVE TypeOK'
    BY <2>1 DEF ReadRevision
  <2>2. CASE Reject(t)
    BY <2>2 DEF Reject, Acknowledge
  <2>3. CASE Duplicate(t)
    BY <2>3 DEF Duplicate, Acknowledge
  <2>4. CASE BeginCommit(t)
    BY <2>4 DEF BeginCommit, Acknowledge
  <2>5. CASE FindRepo(t)
    BY <2>5 DEF FindRepo, Acknowledge
  <2>6. CASE MakeRepo(t)
    BY <2>6 DEF MakeRepo, Acknowledge
  <2>7. CASE SyncRepo(t)
    BY <2>7 DEF SyncRepo, Acknowledge
  <2>8. CASE MakeTask(t)
    BY <2>8 DEF MakeTask, Acknowledge
  <2>9. CASE SyncTask(t)
    BY <2>9 DEF SyncTask, Acknowledge
  <2>10. CASE FindTask(t)
    BY <2>10 DEF FindTask, Acknowledge
  <2>11. CASE SyncBlob(t)
    BY <2>11 DEF SyncBlob, Acknowledge
  <2>12. CASE LinkRecord(t)
    <3>1. [req |-> job[t].req, basis |-> job[t].expected] \in Records
      BY <2>12 DEF LinkRecord, Records
    <3>2. entries' \in [Keys -> Seq(Records)]
      BY <2>12, <3>1 DEF LinkRecord
    <3>3. \A k \in Keys : synced'[k] <= Len(entries'[k])
      BY <2>12, <3>1 DEF LinkRecord
    <3> QED
      BY <2>12, <3>2, <3>3 DEF LinkRecord
  <2>13. CASE SyncRecord(t)
    BY <2>13 DEF SyncRecord, Acknowledge
  <2>14. CASE SnapshotCommit(t)
    BY <2>14 DEF SnapshotCommit, Acknowledge
  <2>15. ASSUME NEW b \in Blobs, LinkBlob(t, b) PROVE TypeOK'
    BY <2>15 DEF LinkBlob
  <2> QED
    BY <1>5, <2>1, <2>2, <2>3, <2>4, <2>5, <2>6, <2>7, <2>8, <2>9, <2>10, <2>11, <2>12, <2>13, <2>14, <2>15 DEF CommitStep
<1>6. ASSUME NEW t \in Threads, RecoverStep(t) PROVE TypeOK'
  <2>1. ASSUME NEW k \in Keys, StartRecover(t, k) \/ Gate(t, k) PROVE TypeOK'
    <3>1. /\ UNCHANGED <<disk, service, history>>
          /\ pc' = [pc EXCEPT ![t] = "rblobs"]
          /\ job' = [job EXCEPT ![t] = [key |-> k]]
      BY <2>1 DEF StartRecover, Gate
    <3>2. job' \in [Threads -> CommitJobs \cup RecoverJobs \cup {NoJob}]
      BY <3>1
    <3> QED
      BY <3>1, <3>2
  <2>2. CASE RecoverBlobs(t)
    BY <2>2 DEF RecoverBlobs
  <2>3. CASE RecoverJournal(t)
    BY <2>3 DEF RecoverJournal
  <2>4. CASE RecoverSnapshot(t)
    BY <2>4 DEF RecoverSnapshot
  <2> QED
    BY <1>6, <2>1, <2>2, <2>3, <2>4 DEF RecoverStep
<1>7. ASSUME NEW t \in Threads, Fail(t) PROVE TypeOK'
  <2>1. acked' \in [Keys -> SUBSET Requests]
    <3>1. CASE pc[t] = "snapshot" /\ Acknowledge(t)
      <4>1. job[t].key \in Keys /\ job[t].req \in Requests
        BY <3>1
      <4> QED
        BY <3>1, <4>1 DEF Acknowledge
    <3>2. CASE acked' = acked
      BY <3>2
    <3> QED
      BY <1>7, <3>1, <3>2 DEF Fail, Answer
  <2>2. abandoned' \in SUBSET Repos
    BY <1>7 DEF Fail, Answer, Unsynced
  <2> QED
    BY <1>7, <2>1, <2>2 DEF Fail, Answer
<1>8. CASE UNCHANGED vars
  BY <1>8 DEF vars
<1> QED
  BY <1>1, <1>2, <1>3, <1>4, <1>5, <1>6, <1>7, <1>8 DEF Next

(* Every file system call of a commit, a recovery or a restart leaves the   *)
(* disk, the locks and the callers of the journal within their types.       *)
THEOREM TypeCorrect == Spec => []TypeOK
  BY TypeInit, TypeStep, PTL DEF Spec

-----------------------------------------------------------------------------
(* A step of thread t leaves the other threads where they are and touches   *)
(* the files of no key but the one it has locked; a lock is taken only when *)
(* it is free, and a key becomes trusted only when its recovery ends.       *)
SameFiles(k) ==
  /\ taskDir'[k] = taskDir[k] /\ entries'[k] = entries[k] /\ synced'[k] = synced[k]
  /\ blobs'[k] = blobs[k] /\ blobsSynced'[k] = blobsSynced[k]

Local(t) ==
  /\ \A u \in Threads : u # t => pc'[u] = pc[u] /\ job'[u] = job[u]
  /\ \A k \in Keys : (pc[t] \in LockedPlaces /\ job[t].key = k) \/ SameFiles(k)
  /\ pc'[t] \in LockedPlaces =>
       \/ pc[t] \in LockedPlaces /\ job'[t] = job[t]
       \/ LockFree(job'[t].key)
  /\ \A k \in Keys :
       Trusted(k)' => Trusted(k) \/ (pc[t] \in LockedPlaces /\ job[t].key = k)

ThreadStep(t) == CommitStep(t) \/ RecoverStep(t) \/ Fail(t)

LEMMA StepLocal ==
  ASSUME TypeOK, PhaseInv, NEW t \in Threads, ThreadStep(t)
  PROVE  Local(t)
<1> USE JobFields DEF LockedPlaces, CommitPlaces, RecoverPlaces, TypeOK, Goto, Return,
      disk, service, history, Local, SameFiles, Trusted
<1>1. ASSUME NEW k \in Keys, NEW r \in Requests, ReadRevision(t, k, r) PROVE Local(t)
  BY <1>1 DEF ReadRevision
<1>2. CASE Reject(t)
  BY <1>2 DEF Reject
<1>3. CASE Duplicate(t)
  BY <1>3 DEF Duplicate
<1>4. CASE BeginCommit(t)
  BY <1>4 DEF BeginCommit
<1>5. CASE FindRepo(t)
  BY <1>5 DEF FindRepo
<1>6. CASE MakeRepo(t)
  BY <1>6 DEF MakeRepo
<1>7. CASE SyncRepo(t)
  BY <1>7 DEF SyncRepo
<1>8. CASE MakeTask(t)
  BY <1>8 DEF MakeTask
<1>9. CASE SyncTask(t)
  BY <1>9 DEF SyncTask
<1>10. CASE FindTask(t)
  BY <1>10 DEF FindTask
<1>11. CASE SyncBlob(t)
  BY <1>11 DEF SyncBlob
<1>12. CASE LinkRecord(t)
  BY <1>12 DEF LinkRecord
<1>13. CASE SyncRecord(t)
  BY <1>13 DEF SyncRecord
<1>14. CASE SnapshotCommit(t)
  BY <1>14 DEF SnapshotCommit
<1>15. CASE RecoverBlobs(t)
  BY <1>15 DEF RecoverBlobs
<1>16. CASE RecoverJournal(t)
  BY <1>16 DEF RecoverJournal
<1>17. CASE RecoverSnapshot(t)
  BY <1>17 DEF RecoverSnapshot
<1>18. CASE Fail(t)
  BY <1>18 DEF Fail, Answer
<1>19. ASSUME NEW b \in Blobs, LinkBlob(t, b) PROVE Local(t)
  BY <1>19 DEF LinkBlob
<1>20. ASSUME NEW k \in Keys, StartRecover(t, k) PROVE Local(t)
  BY <1>20 DEF StartRecover, AllIdle, LockFree
<1>21. ASSUME NEW k \in Keys, Gate(t, k) PROVE Local(t)
  BY <1>21 DEF Gate
<1> QED
  BY <1>1, <1>2, <1>3, <1>4, <1>5, <1>6, <1>7, <1>8, <1>9, <1>10, <1>11, <1>12, <1>13, <1>14, <1>15, <1>16, <1>17, <1>18, <1>19, <1>20, <1>21 DEF ThreadStep, CommitStep, RecoverStep

(* So the locks stay exclusive and, away from t and its key, nothing of the *)
(* invariant is disturbed.                                                  *)
LEMMA Elsewhere ==
  ASSUME TypeOK, LockInv, NEW t \in Threads, Local(t),
         \A u \in Threads : PlaceOK(u),
         \A k \in Keys : FilesOK(k) /\ RecordsOK(k)
  PROVE  /\ LockInv'
         /\ \A u \in Threads : u # t => PlaceOK(u)'
         /\ \A k \in Keys : (pc[t] \in LockedPlaces /\ job[t].key = k)
                           \/ (FilesOK(k) /\ RecordsOK(k))'
<1>1. LockInv'
  BY DEF LockInv, Local, LockFree
<1>2. ASSUME NEW u \in Threads, u # t PROVE PlaceOK(u)'
  <2>1. CASE pc[u] \in LockedPlaces
    <3>1. job[u].key \in Keys
      BY <2>1, JobFields DEF TypeOK, LockedPlaces
    <3>2. SameFiles(job[u].key)
      BY <1>2, <2>1, <3>1 DEF Local, LockInv
    <3>3. /\ pc'[u] = pc[u] /\ job'[u] = job[u]
          /\ entries'[job'[u].key] = entries[job[u].key]
          /\ synced'[job'[u].key] = synced[job[u].key]
          /\ taskDir'[job'[u].key] = taskDir[job[u].key]
          /\ blobs'[job'[u].key] = blobs[job[u].key]
          /\ blobsSynced'[job'[u].key] = blobsSynced[job[u].key]
      BY <1>2, <3>2 DEF Local, SameFiles
    <3> QED
      BY <3>3 DEF PlaceOK, KnownId, Committed
  <2>2. CASE pc[u] \notin LockedPlaces
    BY <1>2, <2>2 DEF Local, PlaceOK, LockedPlaces, CommitPlaces, RecoverPlaces, BeforeLink
  <2> QED
    BY <2>1, <2>2
<1>3. ASSUME NEW k \in Keys, ~(pc[t] \in LockedPlaces /\ job[t].key = k)
      PROVE  (FilesOK(k) /\ RecordsOK(k))'
  <2>1. SameFiles(k)
    BY <1>3 DEF Local
  <2>2. Trusted(k)' /\ LockFree(k)' => Trusted(k) /\ LockFree(k)
    BY <1>3 DEF Local, LockFree
  <2>3. FilesOK(k)'
    BY <2>1, <2>2 DEF FilesOK, SameFiles
  <2> QED
    BY <2>1, <2>3 DEF RecordsOK, SameFiles
<1> QED
  BY <1>1, <1>2, <1>3

-----------------------------------------------------------------------------
(* The thread itself: where it goes and the key it has locked.              *)
LEMMA OwnStep ==
  ASSUME IInv, LockInv', NEW t \in Threads, ThreadStep(t)
  PROVE  /\ PlaceOK(t)'
         /\ \A k \in Keys : pc[t] \in LockedPlaces /\ job[t].key = k
                            => (FilesOK(k) /\ RecordsOK(k))'
<1> DEFINE Goal == /\ PlaceOK(t)'
                   /\ \A k \in Keys : pc[t] \in LockedPlaces /\ job[t].key = k
                                      => (FilesOK(k) /\ RecordsOK(k))'
<1>0. /\ TypeOK /\ LockInv /\ PhaseInv /\ PlaceOK(t)
      /\ \A k \in Keys : FilesOK(k) /\ RecordsOK(k)
  BY DEF IInv
<1> USE <1>0, JobFields DEF LockedPlaces, CommitPlaces, RecoverPlaces, BeforeLink, TypeOK, Goto, Return,
      disk, service, history, PlaceOK, KnownId, Committed
<1>1. ASSUME NEW k \in Keys, NEW r \in Requests, ReadRevision(t, k, r) PROVE Goal
  BY <1>1 DEF ReadRevision
<1>2. CASE Reject(t)
  BY <1>2 DEF Reject, FilesOK, RecordsOK, Trusted, LockFree
<1>3. CASE Duplicate(t)
  BY <1>3 DEF Duplicate, FilesOK, RecordsOK, Trusted, LockFree
<1>4. CASE BeginCommit(t)
  <2>1. job[t].key \in Keys /\ pc[t] = "read"
    BY <1>4 DEF BeginCommit
  <2>2. Trusted(job[t].key)
    BY <1>4, <2>1 DEF BeginCommit, PhaseInv, AllIdle, Trusted
  <2>3. /\ synced[job[t].key] = Len(entries[job[t].key])
        /\ blobsSynced[job[t].key] = blobs[job[t].key]
    BY <1>4, <2>1, <2>2 DEF BeginCommit, FilesOK
  <2> QED
    BY <1>4, <2>1, <2>3 DEF BeginCommit
<1>5. CASE FindRepo(t)
  BY <1>5 DEF FindRepo, FilesOK, RecordsOK, Trusted, LockFree
<1>6. CASE MakeRepo(t)
  BY <1>6 DEF MakeRepo, FilesOK, RecordsOK, Trusted, LockFree
<1>7. CASE SyncRepo(t)
  BY <1>7 DEF SyncRepo, FilesOK, RecordsOK, Trusted, LockFree
<1>8. CASE MakeTask(t)
  BY <1>8 DEF MakeTask, FilesOK, RecordsOK, Trusted, LockFree
<1>9. CASE SyncTask(t)
  BY <1>9 DEF SyncTask, FilesOK, RecordsOK, Trusted, LockFree
<1>10. CASE FindTask(t)
  BY <1>10 DEF FindTask, FilesOK, RecordsOK, Trusted, LockFree
<1>11. CASE SyncBlob(t)
  BY <1>11 DEF SyncBlob, FilesOK, RecordsOK, Trusted, LockFree
<1>12. CASE LinkRecord(t)
  <2>a. PICK k \in Keys : k = job[t].key
    BY <1>12 DEF LinkRecord
  <2>b. PICK e \in Records : e = [req |-> job[t].req, basis |-> job[t].expected]
    BY <1>12 DEF LinkRecord, Records
  <2>1. /\ pc'[t] = "syncrecord" /\ pc[t] = "blobs"
        /\ job'[t] = job[t] /\ entries[k] \in Seq(Records)
        /\ taskDir' = taskDir /\ blobs' = blobs
        /\ blobsSynced' = blobsSynced /\ synced' = synced
        /\ entries'[k] = Append(entries[k], e)
    BY <1>12, <2>a, <2>b DEF LinkRecord
  <2>2. /\ Len(entries'[k]) = Len(entries[k]) + 1
        /\ \A i \in 1..Len(entries[k]) : entries'[k][i] = entries[k][i]
        /\ entries'[k][Len(entries[k]) + 1] = e
        /\ DOMAIN entries'[k] = 1..(Len(entries[k]) + 1)
        /\ DOMAIN entries[k] = 1..Len(entries[k])
    BY <2>a, <2>1
  <2>3. e.req = job[t].req /\ e.basis = job[t].expected
    BY <2>b
  <2>4. PlaceOK(t)'
    <3>1. job'[t].key = k /\ job'[t].req = job[t].req
      BY <2>a, <2>1
    <3>2. Len(entries[k]) + 1 \in DOMAIN entries'[k]
      BY <2>a, <2>1, <2>2
    <3>3. \E i \in DOMAIN entries'[k] : entries'[k][i].req = job[t].req
      BY <2>2, <2>3, <3>2
    <3>4. taskDir'[k] = "ready" /\ blobsSynced'[k] = blobs'[k]
      BY <2>a, <2>1
    <3> QED
      BY <2>a, <2>1, <3>1, <3>3, <3>4
  <2>5. FilesOK(k)'
    BY <1>12, <2>a, <2>1, <2>2 DEF FilesOK, LockFree
  <2>6. BlobsOf[job[t].req.body] \subseteq blobsSynced[k]
    BY <1>12, <2>a, <2>1 DEF LinkRecord, Missing
  <2>7. \A i \in DOMAIN entries'[k] :
          /\ BlobsOf[entries'[k][i].req.body] \subseteq blobsSynced'[k]
          /\ entries'[k][i].basis + 1 = i
    <3>1. \A i \in 1..Len(entries[k]) :
            BlobsOf[entries[k][i].req.body] \subseteq blobsSynced[k] /\ entries[k][i].basis + 1 = i
      BY <2>a, <2>1, <2>2 DEF RecordsOK
    <3>2. job[t].expected = Len(entries[k]) /\ Len(entries[k]) \in Nat
      BY <2>a, <2>1
    <3>3. \A i \in DOMAIN entries'[k] : i \in 1..Len(entries[k]) \/ i = Len(entries[k]) + 1
      BY <2>2, <3>2
    <3> QED
      BY <2>1, <2>2, <2>3, <2>6, <3>1, <3>2, <3>3
  <2>8. \A i \in DOMAIN entries[k] : entries[k][i].req.id # job[t].req.id
    BY <2>a, <2>1
  <2>9. ASSUME NEW i \in DOMAIN entries'[k], NEW j \in DOMAIN entries'[k],
               entries'[k][i].req.id = entries'[k][j].req.id
        PROVE  i = j
    <3>1. \A m, n \in DOMAIN entries[k] : entries[k][m].req.id = entries[k][n].req.id => m = n
      BY <2>a DEF RecordsOK
    <3>2. CASE i \in DOMAIN entries[k] /\ j \in DOMAIN entries[k]
      BY <2>2, <2>9, <3>1, <3>2
    <3>3. CASE i \in DOMAIN entries[k] /\ j = Len(entries[k]) + 1
      BY <2>2, <2>3, <2>8, <2>9, <3>3
    <3>4. CASE j \in DOMAIN entries[k] /\ i = Len(entries[k]) + 1
      BY <2>2, <2>3, <2>8, <2>9, <3>4
    <3> QED
      BY <2>a, <2>1, <2>2, <3>2, <3>3, <3>4
  <2>10. RecordsOK(k)'
    BY <2>7, <2>9 DEF RecordsOK
  <2> QED
    BY <2>a, <2>1, <2>4, <2>5, <2>10
<1>13. CASE SyncRecord(t)
  BY <1>13 DEF SyncRecord, FilesOK, RecordsOK, Trusted, LockFree
<1>14. CASE SnapshotCommit(t)
  BY <1>14 DEF SnapshotCommit, FilesOK, RecordsOK, Trusted, LockFree
<1>15. CASE RecoverBlobs(t)
  BY <1>15 DEF RecoverBlobs, FilesOK, RecordsOK, Trusted, LockFree
<1>16. CASE RecoverJournal(t)
  BY <1>16 DEF RecoverJournal, FilesOK, RecordsOK, Trusted, LockFree
<1>17. CASE RecoverSnapshot(t)
  BY <1>17 DEF RecoverSnapshot, FilesOK, RecordsOK, Trusted, LockFree
<1>18. CASE Fail(t)
  BY <1>18 DEF Fail, Answer, FilesOK, RecordsOK, Trusted, LockFree
<1>19. ASSUME NEW b \in Blobs, LinkBlob(t, b) PROVE Goal
  BY <1>19 DEF LinkBlob, FilesOK, RecordsOK, Trusted, LockFree
<1>20. ASSUME NEW k \in Keys, StartRecover(t, k) PROVE Goal
  BY <1>20 DEF StartRecover, AllIdle
<1>21. ASSUME NEW k \in Keys, Gate(t, k) PROVE Goal
  BY <1>21 DEF Gate
<1> QED
  BY <1>1, <1>2, <1>3, <1>4, <1>5, <1>6, <1>7, <1>8, <1>9, <1>10, <1>11, <1>12, <1>13, <1>14, <1>15, <1>16, <1>17, <1>18, <1>19, <1>20, <1>21 DEF ThreadStep, CommitStep, RecoverStep

-----------------------------------------------------------------------------
(* The life of the process: which threads may be busy, and which keys start *)
(* has still to recover.                                                    *)
LEMMA PhaseStep ==
  ASSUME TypeOK, PhaseInv, NEW t \in Threads, ThreadStep(t)
  PROVE  PhaseInv'
<1> USE JobFields DEF TypeOK, Goto, Return, disk, service, history, PhaseInv
<1>1. ASSUME NEW k \in Keys, NEW r \in Requests, ReadRevision(t, k, r) PROVE PhaseInv'
  BY <1>1 DEF ReadRevision, AllIdle, Usable
<1>2. CASE Reject(t)
  BY <1>2 DEF Reject, AllIdle, Usable
<1>3. CASE Duplicate(t)
  BY <1>3 DEF Duplicate, AllIdle, Usable
<1>4. CASE BeginCommit(t)
  BY <1>4 DEF BeginCommit, AllIdle, Usable
<1>5. CASE FindRepo(t)
  BY <1>5 DEF FindRepo, AllIdle, Usable
<1>6. CASE MakeRepo(t)
  BY <1>6 DEF MakeRepo, AllIdle, Usable
<1>7. CASE SyncRepo(t)
  BY <1>7 DEF SyncRepo, AllIdle, Usable
<1>8. CASE MakeTask(t)
  BY <1>8 DEF MakeTask, AllIdle, Usable
<1>9. CASE SyncTask(t)
  BY <1>9 DEF SyncTask, AllIdle, Usable
<1>10. CASE FindTask(t)
  BY <1>10 DEF FindTask, AllIdle, Usable
<1>11. CASE SyncBlob(t)
  BY <1>11 DEF SyncBlob, AllIdle, Usable
<1>12. CASE LinkRecord(t)
  BY <1>12 DEF LinkRecord, AllIdle, Usable
<1>13. CASE SyncRecord(t)
  BY <1>13 DEF SyncRecord, AllIdle, Usable
<1>14. CASE SnapshotCommit(t)
  BY <1>14 DEF SnapshotCommit, AllIdle, Usable
<1>15. CASE RecoverBlobs(t)
  BY <1>15 DEF RecoverBlobs, AllIdle, Usable
<1>16. CASE RecoverJournal(t)
  BY <1>16 DEF RecoverJournal, AllIdle, Usable
<1>17. CASE RecoverSnapshot(t)
  BY <1>17 DEF RecoverSnapshot, AllIdle, Usable
<1>18. CASE Fail(t)
  BY <1>18 DEF Fail, Answer, CallFails, AllIdle, LockedPlaces, CommitPlaces, RecoverPlaces
<1>19. ASSUME NEW b \in Blobs, LinkBlob(t, b) PROVE PhaseInv'
  BY <1>19 DEF LinkBlob, AllIdle, Usable
<1>20. ASSUME NEW k \in Keys, StartRecover(t, k) PROVE PhaseInv'
  BY <1>20 DEF StartRecover, AllIdle, Usable
<1>21. ASSUME NEW k \in Keys, Gate(t, k) PROVE PhaseInv'
  BY <1>21 DEF Gate, AllIdle, Usable
<1> QED
  BY <1>1, <1>2, <1>3, <1>4, <1>5, <1>6, <1>7, <1>8, <1>9, <1>10, <1>11, <1>12, <1>13, <1>14, <1>15, <1>16, <1>17, <1>18, <1>19, <1>20, <1>21 DEF ThreadStep, CommitStep, RecoverStep

(* Of two repository steps nothing is forgotten: a directory that is seen   *)
(* and not yet synced has its maker at the sync, or has been abandoned.     *)
LEMMA ReposStep ==
  ASSUME TypeOK, ReposInv, NEW t \in Threads, ThreadStep(t)
  PROVE  ReposInv'
<1> USE JobFields, RepoOfType DEF TypeOK, Goto, Return, disk, service, history, MadeBy
<1> DEFINE Calm == /\ UNCHANGED <<repoDir, abandoned>> /\ pc[t] # "syncrepo"
                   /\ \A u \in Threads : u # t => pc'[u] = pc[u] /\ job'[u] = job[u]
<1>0. Calm => ReposInv'
  <2> SUFFICES ASSUME Calm, NEW r \in Repos, repoDir'[r] = "visible"
               PROVE  r \in abandoned' \/ \E u \in Threads : (r \in MadeBy(u))'
    BY DEF ReposInv
  <2>1. CASE r \in abandoned
    BY <2>1
  <2>2. CASE r \notin abandoned
    <3>1. PICK u \in Threads : r \in MadeBy(u)
      BY <2>2 DEF ReposInv
    <3> QED
      BY <3>1
  <2> QED
    BY <2>1, <2>2
<1>1. ASSUME NEW k \in Keys, NEW r \in Requests, ReadRevision(t, k, r) PROVE Calm
  BY <1>1 DEF ReadRevision
<1>2. CASE Reject(t)
  BY <1>0, <1>2 DEF Reject
<1>3. CASE Duplicate(t)
  BY <1>0, <1>3 DEF Duplicate
<1>4. CASE BeginCommit(t)
  BY <1>0, <1>4 DEF BeginCommit
<1>5. CASE FindRepo(t)
  BY <1>0, <1>5 DEF FindRepo
<1>6. CASE MakeRepo(t)
  <2>1. \A u \in Threads : u # t => pc'[u] = pc[u] /\ job'[u] = job[u]
    BY <1>6 DEF MakeRepo
  <2>2. pc'[t] = "syncrepo" /\ job'[t] = job[t] /\ pc[t] # "syncrepo"
    BY <1>6 DEF MakeRepo
  <2>3. repoDir' = [repoDir EXCEPT ![RepoOf[job[t].key]] = "visible"] /\ abandoned' = abandoned
    BY <1>6 DEF MakeRepo
  <2>4. ASSUME NEW r \in Repos, repoDir'[r] = "visible"
        PROVE  r \in abandoned' \/ \E u \in Threads : (r \in MadeBy(u))'
    <3>1. CASE r = RepoOf[job[t].key]
      BY <2>2, <3>1
    <3>2. CASE r # RepoOf[job[t].key]
      <4>1. CASE r \in abandoned
        BY <2>3, <4>1
      <4>2. CASE r \notin abandoned
        <5>1. PICK u \in Threads : r \in MadeBy(u)
          BY <2>3, <2>4, <3>2, <4>2 DEF ReposInv
        <5> QED
          BY <2>1, <2>2, <5>1
      <4> QED
        BY <4>1, <4>2
    <3> QED
      BY <3>1, <3>2
  <2> QED
    BY <2>4 DEF ReposInv
<1>7. CASE SyncRepo(t)
  BY <1>7 DEF SyncRepo, ReposInv
<1>8. CASE MakeTask(t)
  BY <1>0, <1>8 DEF MakeTask
<1>9. CASE SyncTask(t)
  BY <1>0, <1>9 DEF SyncTask
<1>10. CASE FindTask(t)
  BY <1>0, <1>10 DEF FindTask
<1>11. CASE SyncBlob(t)
  BY <1>0, <1>11 DEF SyncBlob
<1>12. CASE LinkRecord(t)
  BY <1>0, <1>12 DEF LinkRecord
<1>13. CASE SyncRecord(t)
  BY <1>0, <1>13 DEF SyncRecord
<1>14. CASE SnapshotCommit(t)
  BY <1>0, <1>14 DEF SnapshotCommit
<1>15. CASE RecoverBlobs(t)
  BY <1>0, <1>15 DEF RecoverBlobs
<1>16. CASE RecoverJournal(t)
  BY <1>0, <1>16 DEF RecoverJournal
<1>17. CASE RecoverSnapshot(t)
  BY <1>0, <1>17 DEF RecoverSnapshot
<1>18. CASE Fail(t)
  <2>1. /\ repoDir' = repoDir
        /\ \A u \in Threads : u # t => pc'[u] = pc[u] /\ job'[u] = job[u]
    BY <1>18 DEF Fail
  <2>2. MadeBy(t) \cap Unsynced \subseteq abandoned' /\ abandoned \subseteq abandoned'
    BY <1>18 DEF Fail, Answer
  <2>3. ASSUME NEW r \in Repos, repoDir'[r] = "visible"
        PROVE  r \in abandoned' \/ \E u \in Threads : (r \in MadeBy(u))'
    <3>1. CASE r \in abandoned \/ r \in MadeBy(t)
      BY <2>1, <2>2, <2>3, <3>1 DEF Unsynced
    <3>2. CASE r \notin abandoned /\ r \notin MadeBy(t)
      <4>1. PICK u \in Threads : r \in MadeBy(u)
        BY <2>1, <2>3, <3>2 DEF ReposInv
      <4> QED
        BY <2>1, <3>2, <4>1
    <3> QED
      BY <3>1, <3>2
  <2> QED
    BY <2>3 DEF ReposInv
<1>19. ASSUME NEW b \in Blobs, LinkBlob(t, b) PROVE Calm
  BY <1>19 DEF LinkBlob
<1>20. ASSUME NEW k \in Keys, StartRecover(t, k) PROVE Calm
  BY <1>20 DEF StartRecover, AllIdle
<1>21. ASSUME NEW k \in Keys, Gate(t, k) PROVE Calm
  BY <1>21 DEF Gate
<1> QED
  BY <1>0, <1>1, <1>2, <1>3, <1>4, <1>5, <1>6, <1>7, <1>8, <1>9, <1>10, <1>11, <1>12, <1>13, <1>14, <1>15, <1>16, <1>17, <1>18, <1>19, <1>20, <1>21 DEF ThreadStep, CommitStep, RecoverStep

LEMMA SameAcked ==
  ASSUME TypeOK, TypeOK', acked' = acked,
         \A k \in Keys : synced'[k] >= synced[k],
         \A k \in Keys : \A i \in 1..synced[k] : entries'[k][i] = entries[k][i]
  PROVE  KeptNow
<1>1. ASSUME NEW k \in Keys PROVE Durable(k) \subseteq Durable(k)'
  <2>1. synced[k] \in Nat /\ synced'[k] \in Nat /\ synced'[k] >= synced[k]
    BY DEF TypeOK
  <2>2. ASSUME NEW i \in 1..synced[k]
        PROVE  i \in 1..synced'[k] /\ entries'[k][i].req = entries[k][i].req
    BY <2>1
  <2> QED
    BY <2>2 DEF Durable
<1> QED
  BY <1>1 DEF KeptNow

LEMMA AcknowledgeDurable ==
  ASSUME TypeOK, NEW t \in Threads, NEW k \in Keys, k = job[t].key, job[t].req \in Requests,
         Committed(k, job[t].req), synced[k] = Len(entries[k]), Acknowledge(t),
         UNCHANGED <<entries, synced>>
  PROVE  KeptNow
<1>1. job[t].req \in Durable(k)
  BY DEF TypeOK, Durable, Committed
<1>2. acked' = [acked EXCEPT ![k] = @ \cup {job[t].req}]
  BY DEF Acknowledge
<1>3. \A q \in Keys : Durable(q)' = Durable(q)
  BY DEF Durable
<1> QED
  BY <1>1, <1>2, <1>3 DEF KeptNow, TypeOK

(* The directory of a provisioned repository stays durable, and no step of  *)
(* a thread takes back an acknowledgement or acknowledges what may be lost. *)
LEMMA AckedStep ==
  ASSUME IInv, TypeOK', NEW t \in Threads, ThreadStep(t)
  PROVE  SettledInv' /\ KeptNow
<1>0. TypeOK /\ SettledInv /\ PhaseInv /\ PlaceOK(t) /\ \A k \in Keys : FilesOK(k)
  BY DEF IInv
<1> DEFINE Goal == SettledInv' /\ KeptNow
           Calm == UNCHANGED <<repoDir, entries, synced, acked>>
<1>a. Calm => Goal
  BY <1>0, SameAcked DEF SettledInv, TypeOK
<1> USE <1>0, RepoOfType, JobFields DEF TypeOK, Goto, Return, disk, service, history
<1>1. ASSUME NEW k \in Keys, NEW r \in Requests, ReadRevision(t, k, r) PROVE Calm
  BY <1>1 DEF ReadRevision
<1>2. CASE Reject(t)
  BY <1>a, <1>2 DEF Reject
<1>3. CASE Duplicate(t)
  <2>1. /\ job[t].key \in Keys /\ job[t].req \in Requests
        /\ pc[t] = "read" /\ Acknowledge(t) /\ UNCHANGED <<entries, synced, repoDir>>
        /\ Committed(job[t].key, job[t].req) /\ LockFree(job[t].key) /\ ~unhealthy
    BY <1>3 DEF Duplicate
  <2>2. Trusted(job[t].key)
    BY <2>1 DEF PhaseInv, AllIdle, Trusted
  <2>3. synced[job[t].key] = Len(entries[job[t].key])
    BY <2>1, <2>2 DEF FilesOK
  <2> HIDE DEF TypeOK
  <2> QED
    BY <1>0, <2>1, <2>3, AcknowledgeDurable DEF SettledInv
<1>4. CASE BeginCommit(t)
  BY <1>a, <1>4 DEF BeginCommit
<1>5. CASE FindRepo(t)
  BY <1>a, <1>5 DEF FindRepo
<1>6. CASE MakeRepo(t)
  <2>1. UNCHANGED <<entries, synced, acked>>
    BY <1>6 DEF MakeRepo
  <2>2. SettledInv'
    BY <1>6 DEF MakeRepo, SettledInv, Settled
  <2> QED
    BY <2>1, <2>2, SameAcked
<1>7. CASE SyncRepo(t)
  <2>1. UNCHANGED <<entries, synced, acked>>
    BY <1>7 DEF SyncRepo
  <2>2. SettledInv'
    BY <1>7 DEF SyncRepo, SettledInv, Settled
  <2> QED
    BY <2>1, <2>2, SameAcked
<1>8. CASE MakeTask(t)
  BY <1>a, <1>8 DEF MakeTask
<1>9. CASE SyncTask(t)
  BY <1>a, <1>9 DEF SyncTask
<1>10. CASE FindTask(t)
  BY <1>a, <1>10 DEF FindTask
<1>11. CASE SyncBlob(t)
  BY <1>a, <1>11 DEF SyncBlob
<1>12. CASE LinkRecord(t)
  <2>1. UNCHANGED <<repoDir, synced, acked>>
    BY <1>12 DEF LinkRecord
  <2>2. PICK k \in Keys : k = job[t].key
    BY <1>12 DEF LinkRecord
  <2>3. PICK e \in Records : e = [req |-> job[t].req, basis |-> job[t].expected]
    BY <1>12 DEF LinkRecord, Records
  <2>4. entries' = [entries EXCEPT ![k] = Append(@, e)]
    BY <1>12, <2>2, <2>3 DEF LinkRecord
  <2>5. ASSUME NEW q \in Keys, NEW i \in 1..synced[q] PROVE entries'[q][i] = entries[q][i]
    BY <2>3, <2>4, <2>5
  <2> QED
    BY <2>1, <2>5, SameAcked DEF SettledInv
<1>13. CASE SyncRecord(t)
  BY <1>13, SameAcked DEF SyncRecord, SettledInv
<1>14. CASE SnapshotCommit(t)
  <2>1. /\ job[t].key \in Keys /\ job[t].req \in Requests
        /\ pc[t] = "snapshot" /\ Acknowledge(t) /\ UNCHANGED <<entries, synced, repoDir>>
    BY <1>14 DEF SnapshotCommit, CommitPlaces
  <2>2. Committed(job[t].key, job[t].req) /\ synced[job[t].key] = Len(entries[job[t].key])
    BY <2>1 DEF PlaceOK
  <2> HIDE DEF TypeOK
  <2> QED
    BY <1>0, <2>1, <2>2, AcknowledgeDurable DEF SettledInv
<1>15. CASE RecoverBlobs(t)
  BY <1>a, <1>15 DEF RecoverBlobs
<1>16. CASE RecoverJournal(t)
  BY <1>16, SameAcked DEF RecoverJournal, SettledInv
<1>17. CASE RecoverSnapshot(t)
  BY <1>a, <1>17 DEF RecoverSnapshot
<1>18. CASE Fail(t)
  <2>1. UNCHANGED <<entries, synced, repoDir>>
    BY <1>18 DEF Fail
  <2>2. CASE pc[t] = "snapshot" /\ Acknowledge(t)
    <3>1. job[t].key \in Keys /\ job[t].req \in Requests
      BY <2>2 DEF CommitPlaces
    <3>2. Committed(job[t].key, job[t].req) /\ synced[job[t].key] = Len(entries[job[t].key])
      BY <2>2 DEF PlaceOK
    <3> HIDE DEF TypeOK
    <3> QED
      BY <1>0, <2>1, <2>2, <3>1, <3>2, AcknowledgeDurable DEF SettledInv
  <2>3. CASE acked' = acked
    BY <1>a, <2>1, <2>3
  <2> QED
    BY <1>18, <2>2, <2>3 DEF Fail, Answer
<1>19. ASSUME NEW b \in Blobs, LinkBlob(t, b) PROVE Calm
  BY <1>19 DEF LinkBlob
<1>20. ASSUME NEW k \in Keys, StartRecover(t, k) PROVE Calm
  BY <1>20 DEF StartRecover, AllIdle
<1>21. ASSUME NEW k \in Keys, Gate(t, k) PROVE Calm
  BY <1>21 DEF Gate
<1> QED
  BY <1>a, <1>1, <1>2, <1>3, <1>4, <1>5, <1>6, <1>7, <1>8, <1>9, <1>10, <1>11, <1>12, <1>13, <1>14, <1>15, <1>16, <1>17, <1>18, <1>19, <1>20, <1>21 DEF ThreadStep, CommitStep, RecoverStep

-----------------------------------------------------------------------------
LEMMA InvInit == Init => IInv
<1> SUFFICES ASSUME Init PROVE IInv
  OBVIOUS
<1>1. TypeOK
  BY TypeInit
<1>2. LockInv /\ PhaseInv /\ \A t \in Threads : PlaceOK(t)
  BY DEF Init, LockInv, PhaseInv, AllIdle, PlaceOK, LockedPlaces, CommitPlaces, RecoverPlaces, BeforeLink
<1>3. SettledInv
  BY RepoOfType DEF Init, SettledInv, Settled
<1>4. \A k \in Keys : FilesOK(k) /\ RecordsOK(k)
  BY DEF Init, FilesOK, RecordsOK
<1>5. ReposInv
  BY DEF Init, ReposInv
<1> QED
  BY <1>1, <1>2, <1>3, <1>4, <1>5 DEF IInv

(* A power loss takes back neither a synced record nor a synced blob of a   *)
(* settled task, nor of another whose directory was not abandoned, and      *)
(* leaves every journal consistent.                                         *)
LEMMA PowerLossStep == ASSUME IInv, TypeOK', PowerLoss PROVE IInv' /\ KeptNow
<1>0. /\ TypeOK /\ SettledInv /\ ReposInv
      /\ \A k \in Keys : FilesOK(k) /\ RecordsOK(k)
  BY DEF IInv
<1>1. AllIdle' /\ phase' = "down" /\ acked' = acked
  BY DEF PowerLoss, Down, AllIdle
<1>2. LockInv' /\ (\A t \in Threads : PlaceOK(t))' /\ PhaseInv'
  BY <1>1 DEF AllIdle, LockInv, PlaceOK, PhaseInv, LockedPlaces, CommitPlaces, RecoverPlaces, BeforeLink
<1>3. PICK lostRepos \in SUBSET Unsynced,
           lostTasks \in SUBSET {k \in Keys : taskDir[k] = "partial"},
           lostFiles \in SUBSET Keys :
        Lose(lostRepos, lostTasks, lostFiles) /\ abandoned' = Interrupted \ lostRepos
  BY DEF PowerLoss
<1>4. SettledInv'
  BY <1>0, <1>3, RepoOfType DEF Lose, SettledInv, Settled, TypeOK, Unsynced
<1>5. ReposInv'
  <2>1. \A r \in Unsynced : r \in Interrupted
    BY <1>0 DEF ReposInv, Interrupted, Unsynced
  <2>2. \A r \in Repos : repoDir'[r] = "visible" => r \in Unsynced \ lostRepos
    BY <1>3 DEF Lose, Unsynced
  <2> QED
    BY <1>3, <2>1, <2>2 DEF ReposInv
<1>6. ASSUME NEW k \in Keys, RepoOf[k] \in lostRepos \/ k \in lostTasks
      PROVE  /\ FilesOK(k)' /\ RecordsOK(k)'
             /\ \/ acked[k] \cap Durable(k) \subseteq Durable(k)'
                \/ /\ repoDir'[RepoOf[k]] = "absent"
                   /\ RepoOf[k] \in abandoned \/ \E t \in Threads : RepoOf[k] \in MadeBy(t)
  <2>1. /\ taskDir'[k] = "absent" /\ blobs'[k] = {} /\ blobsSynced'[k] = {}
        /\ entries'[k] = <<>> /\ synced'[k] = 0
    BY <1>3, <1>6 DEF Lose
  <2>2. CASE RepoOf[k] \in lostRepos
    BY <1>0, <1>1, <1>3, <2>1, <2>2, RepoOfType DEF FilesOK, RecordsOK, Trusted, Lose, ReposInv, Unsynced
  <2>3. CASE k \in lostTasks
    <3>1. entries[k] = <<>>
      BY <1>0, <2>3 DEF FilesOK
    <3>2. Durable(k) = {}
      BY <1>0, <3>1 DEF Durable, TypeOK
    <3> QED
      BY <1>1, <2>1, <3>2 DEF FilesOK, RecordsOK, Trusted
  <2> QED
    BY <1>6, <2>2, <2>3
<1>7. ASSUME NEW k \in Keys, ~(RepoOf[k] \in lostRepos \/ k \in lostTasks)
      PROVE  FilesOK(k)' /\ RecordsOK(k)' /\ Durable(k) \subseteq Durable(k)'
  <2>1. /\ taskDir'[k] = taskDir[k] /\ blobsSynced'[k] = blobsSynced[k] /\ synced'[k] = synced[k]
        /\ blobs'[k] \in {blobs[k], blobsSynced[k]}
        /\ entries'[k] \in {entries[k], SubSeq(entries[k], 1, synced[k])}
    BY <1>3, <1>7 DEF Lose
  <2>2. /\ entries'[k] \in Seq(Records) /\ synced[k] \in Nat /\ synced[k] <= Len(entries[k])
        /\ Len(entries'[k]) \in synced[k]..Len(entries[k])
        /\ \A i \in DOMAIN entries'[k] : i \in DOMAIN entries[k] /\ entries'[k][i] = entries[k][i]
        /\ \A i \in 1..synced[k] : entries'[k][i] = entries[k][i]
    <3>0. /\ entries[k] \in Seq(Records) /\ synced[k] \in Nat /\ synced[k] <= Len(entries[k])
          /\ Len(entries[k]) \in Nat
      BY <1>0 DEF TypeOK
    <3>1. CASE entries'[k] = entries[k]
      BY <3>0, <3>1
    <3>2. CASE entries'[k] = SubSeq(entries[k], 1, synced[k])
      BY <3>0, <3>2
    <3> QED
      BY <2>1, <3>1, <3>2
  <2>3. FilesOK(k)'
    BY <1>0, <1>1, <2>1, <2>2 DEF FilesOK, Trusted, TypeOK
  <2>4. RecordsOK(k)'
    BY <1>0, <2>1, <2>2 DEF RecordsOK
  <2>5. Durable(k) \subseteq Durable(k)'
    BY <2>1, <2>2 DEF Durable
  <2> QED
    BY <2>3, <2>4, <2>5
<1>8. KeptNow
  BY <1>1, <1>6, <1>7 DEF KeptNow
<1> QED
  BY <1>2, <1>4, <1>5, <1>6, <1>7, <1>8 DEF IInv

LEMMA InvStep == IInv /\ [Next]_vars => IInv'
<1> SUFFICES ASSUME IInv, [Next]_vars PROVE IInv'
  OBVIOUS
<1>0. /\ TypeOK /\ TypeOK' /\ LockInv /\ SettledInv /\ ReposInv /\ PhaseInv
      /\ \A t \in Threads : PlaceOK(t)
      /\ \A k \in Keys : FilesOK(k) /\ RecordsOK(k)
  BY TypeStep DEF IInv
<1>1. CASE Open
  <2>1. AllIdle /\ UNCHANGED <<disk, pc, job, history>>
    BY <1>0, <1>1 DEF Open, PhaseInv
  <2>2. LockInv' /\ (\A t \in Threads : PlaceOK(t))' /\ PhaseInv'
    BY <1>1, <2>1 DEF Open, AllIdle, LockInv, PlaceOK, PhaseInv, LockedPlaces, CommitPlaces, RecoverPlaces, BeforeLink
  <2>3. ASSUME NEW k \in Keys PROVE FilesOK(k)'
    <3>1. Trusted(k)' => taskDir[k] = "absent"
      BY <1>1 DEF Open, Trusted
    <3>2. taskDir[k] = "absent" => entries[k] = <<>> /\ blobs[k] = {} /\ blobsSynced[k] = {}
      BY <1>0 DEF FilesOK
    <3>3. taskDir[k] = "absent" => synced[k] = Len(entries[k])
      BY <1>0, <3>2 DEF TypeOK
    <3> QED
      BY <1>0, <2>1, <3>1, <3>2, <3>3 DEF FilesOK, disk
  <2>4. ReposInv'
    BY <1>0, <2>1 DEF ReposInv, MadeBy, disk, history
  <2> QED
    BY <1>0, <2>1, <2>2, <2>3, <2>4 DEF IInv, SettledInv, RecordsOK, disk
<1>2. CASE Serve
  <2>1. AllIdle /\ UNCHANGED <<disk, pc, job, history, toRecover, unhealthy>>
    BY <1>2 DEF Serve
  <2>2. LockInv' /\ (\A t \in Threads : PlaceOK(t))' /\ PhaseInv'
    BY <1>2, <2>1 DEF Serve, AllIdle, LockInv, PlaceOK, PhaseInv, LockedPlaces, CommitPlaces, RecoverPlaces, BeforeLink
  <2>3. ASSUME NEW k \in Keys PROVE FilesOK(k)'
    BY <1>0, <1>2, <2>1 DEF Serve, FilesOK, Trusted, LockFree, disk
  <2>4. ReposInv'
    BY <1>0, <2>1 DEF ReposInv, MadeBy, disk, history
  <2> QED
    BY <1>0, <2>1, <2>2, <2>3, <2>4 DEF IInv, SettledInv, RecordsOK, disk
<1>3. CASE Kill
  <2>1. AllIdle' /\ phase' = "down" /\ abandoned' = Interrupted /\ UNCHANGED <<disk, acked>>
    BY <1>3 DEF Kill, Down, AllIdle
  <2>2. LockInv' /\ (\A t \in Threads : PlaceOK(t))' /\ PhaseInv'
    BY <2>1 DEF AllIdle, LockInv, PlaceOK, PhaseInv, LockedPlaces, CommitPlaces, RecoverPlaces, BeforeLink
  <2>3. ASSUME NEW k \in Keys PROVE FilesOK(k)'
    BY <1>0, <2>1 DEF FilesOK, Trusted, disk
  <2>4. ReposInv'
    BY <1>0, <2>1 DEF ReposInv, Interrupted, Unsynced, disk
  <2> QED
    BY <1>0, <2>1, <2>2, <2>3, <2>4 DEF IInv, SettledInv, RecordsOK, disk
<1>4. CASE PowerLoss
  BY <1>0, <1>4, PowerLossStep
<1>5. ASSUME NEW t \in Threads, ThreadStep(t) PROVE IInv'
  <2>1. Local(t)
    BY <1>0, <1>5, StepLocal
  <2>2. /\ LockInv'
        /\ \A u \in Threads : u # t => PlaceOK(u)'
        /\ \A k \in Keys : (pc[t] \in LockedPlaces /\ job[t].key = k)
                          \/ (FilesOK(k) /\ RecordsOK(k))'
    BY <1>0, <2>1, Elsewhere
  <2>3. /\ PlaceOK(t)'
        /\ \A k \in Keys : pc[t] \in LockedPlaces /\ job[t].key = k
                           => (FilesOK(k) /\ RecordsOK(k))'
    BY <1>5, <2>2, OwnStep
  <2>4. PhaseInv'
    BY <1>0, <1>5, PhaseStep
  <2>5. SettledInv' /\ ReposInv'
    BY <1>0, <1>5, AckedStep, ReposStep
  <2>6. \A u \in Threads : PlaceOK(u)'
    BY <2>2, <2>3
  <2>7. \A k \in Keys : FilesOK(k)' /\ RecordsOK(k)'
    BY <2>2, <2>3
  <2> QED
    BY <1>0, <2>2, <2>4, <2>5, <2>6, <2>7 DEF IInv
<1>6. CASE UNCHANGED vars
  <2>1. UNCHANGED <<disk, service, pc, job, history>>
    BY <1>6 DEF vars
  <2> QED
    BY <1>0, <2>1 DEF IInv, LockInv, SettledInv, PhaseInv, AllIdle, PlaceOK, KnownId, Committed, FilesOK,
         Trusted, LockFree, ReposInv, MadeBy, RecordsOK, disk, service, history
<1> QED
  BY <1>1, <1>2, <1>3, <1>4, <1>5, <1>6 DEF Next, ThreadStep

(* The whole inductive invariant, in every behaviour.                       *)
THEOREM Invariant == Spec => []IInv
  BY InvInit, InvStep, PTL DEF Spec

(* Whatever is acknowledged is synced, and it is lost only by a power loss  *)
(* that takes the repository directory from under it, before whoever made   *)
(* the directory has synced it: for every task and repository.              *)
THEOREM AckedNeverLost == Spec => AckedKept
<1>1. IInv /\ [Next]_vars => [KeptNow]_vars
  <2> SUFFICES ASSUME IInv, [Next]_vars PROVE KeptNow \/ UNCHANGED vars
    OBVIOUS
  <2>0. TypeOK /\ TypeOK'
    BY TypeStep DEF IInv
  <2>1. CASE Open \/ Serve \/ Kill
    <3>1. UNCHANGED <<entries, synced, acked>>
      BY <2>1 DEF Open, Serve, Kill, Down, disk, history
    <3> QED
      BY <2>0, <3>1, SameAcked DEF TypeOK
  <2>2. CASE PowerLoss
    BY <2>0, <2>2, PowerLossStep
  <2>3. ASSUME NEW t \in Threads, ThreadStep(t) PROVE KeptNow
    BY <2>0, <2>3, AckedStep
  <2> QED
    BY <2>1, <2>2, <2>3 DEF Next, ThreadStep
<1> QED
  BY <1>1, Invariant, PTL DEF Spec, AckedKept

(* A visible record never refers to a blob that a crash could take.         *)
THEOREM BlobsFirst == Spec => []BlobsBeforeRecord
<1>1. IInv => BlobsBeforeRecord
  BY DEF IInv, RecordsOK, BlobsBeforeRecord
<1> QED
  BY <1>1, Invariant, PTL

(* No record is computed from a revision other than the one before it.      *)
THEOREM CompareAndSet == Spec => []NoLostUpdate
<1>1. IInv => NoLostUpdate
  BY DEF IInv, RecordsOK, NoLostUpdate
<1> QED
  BY <1>1, Invariant, PTL

(* No event is in a journal twice, whatever was redelivered after a failure.*)
THEOREM ExactlyOnce == Spec => []AppliedOnce
<1>1. IInv => AppliedOnce
  BY DEF IInv, RecordsOK, AppliedOnce
<1> QED
  BY <1>1, Invariant, PTL

(* Under a healthy store whoever takes a task's lock sees only what is      *)
(* durable.                                                                 *)
THEOREM ViewsDurable == Spec => []HealthyViewDurable
<1>1. IInv => HealthyViewDurable
  BY DEF IInv, FilesOK, Trusted, HealthyViewDurable
<1> QED
  BY <1>1, Invariant, PTL

-----------------------------------------------------------------------------
(* Refinement.  What is durable stays as it was, or grows by the one record *)
(* that was visible and not yet synced.                                     *)
LEMMA SameLog ==
  ASSUME UNCHANGED <<synced, acked>>,
         \A k \in Keys : \A i \in 1..synced[k] : entries'[k][i] = entries[k][i]
  PROVE  UNCHANGED <<DurableLog, SettledAcks>>
  BY DEF DurableLog, SettledAcks, Settled

LEMMA GrowLog ==
  ASSUME IInv, NEW k \in Keys, UNCHANGED <<entries, acked>>,
         synced' = [synced EXCEPT ![k] = Len(entries[k])]
  PROVE  [Log!Next]_<<DurableLog, SettledAcks>>
<1>0. /\ TypeOK /\ FilesOK(k) /\ RecordsOK(k)
      /\ entries[k] \in Seq(Records) /\ synced[k] \in Nat /\ synced[k] <= Len(entries[k])
  BY DEF IInv, TypeOK
<1>1. CASE Len(entries[k]) = synced[k] \/ k \notin Settled
  <2>1. \A q \in Settled : synced'[q] = synced[q]
    BY <1>0, <1>1 DEF TypeOK, Settled
  <2> QED
    BY <2>1 DEF DurableLog, SettledAcks
<1>2. CASE Len(entries[k]) = synced[k] + 1 /\ k \in Settled
  <2> DEFINE n == synced[k]
             r == entries[k][n + 1].req
  <2>0. DOMAIN entries[k] = 1..(n + 1) /\ \A i \in 1..(n + 1) : entries[k][i] \in Records
    BY <1>0, <1>2
  <2>1. \A i \in 1..(n + 1) : entries[k][i].req \in Requests
    BY <2>0 DEF Records
  <2>2. SettledAcks' = SettledAcks
    BY DEF SettledAcks
  <2>3. DurableLog[k] = [i \in 1..n |-> entries[k][i].req]
    BY <1>2 DEF DurableLog
  <2>4. \A i \in 1..n : DurableLog[k][i].id # r.id
    <3>1. ASSUME NEW i \in 1..n PROVE entries[k][i].req.id # entries[k][n + 1].req.id
      <4>1. i \in DOMAIN entries[k] /\ n + 1 \in DOMAIN entries[k] /\ i # n + 1
        BY <1>0, <2>0
      <4>2. \A a, b \in DOMAIN entries[k] : entries[k][a].req.id = entries[k][b].req.id => a = b
        BY <1>0 DEF RecordsOK
      <4> QED
        BY <4>1, <4>2
    <3> QED
      BY <2>3, <3>1
  <2>5. \A q \in Settled : synced'[q] = IF q = k THEN n + 1 ELSE synced[q]
    BY <1>0, <1>2 DEF TypeOK, Settled
  <2>6. DurableLog'[k] = [i \in 1..(n + 1) |-> entries[k][i].req]
    BY <1>2, <2>5 DEF DurableLog
  <2>7. r \in Requests /\ \A i \in 1..n : entries[k][i].req \in Requests
    BY <1>0, <2>1
  <2>8. DurableLog[k] \in Seq(Requests) /\ Len(DurableLog[k]) = n
    BY <1>0, <2>3, <2>7
  <2>9. DurableLog'[k] = Append(DurableLog[k], r)
    <3> HIDE DEF r
    <3>1. Append(DurableLog[k], r) = [i \in 1..(n + 1) |-> IF i = n + 1 THEN r ELSE DurableLog[k][i]]
      BY <1>0, <2>7, <2>8
    <3> QED
      BY <1>0, <2>3, <2>6, <3>1 DEF r
  <2>10. DurableLog' = [DurableLog EXCEPT ![k] = Append(@, r)]
    <3>1. \A q \in Settled : q # k => DurableLog'[q] = DurableLog[q]
      BY <2>5 DEF DurableLog
    <3>2. DurableLog' = [q \in Settled |-> DurableLog'[q]] /\ DurableLog = [q \in Settled |-> DurableLog[q]]
      BY DEF DurableLog
    <3> HIDE DEF n, r
    <3> QED
      BY <2>9, <3>1, <3>2
  <2>11. Log!Persist(k, r)
    BY <2>2, <2>3, <2>4, <2>10 DEF Log!Persist, Log!Fresh
  <2> QED
    BY <1>2, <2>7, <2>11 DEF Log!Next
<1> QED
  BY <1>0, <1>1, <1>2 DEF FilesOK

LEMMA AckLog ==
  ASSUME IInv, NEW t \in Threads, job[t].key \in Keys, job[t].req \in Requests,
         Committed(job[t].key, job[t].req),
         synced[job[t].key] = Len(entries[job[t].key]),
         Acknowledge(t), UNCHANGED <<entries, synced>>
  PROVE  [Log!Next]_<<DurableLog, SettledAcks>>
<1>0. TypeOK /\ DurableLog' = DurableLog
  BY DEF IInv, DurableLog
<1>1. PICK k \in Keys : k = job[t].key
  OBVIOUS
<1>2. PICK r \in Requests : r = job[t].req
  OBVIOUS
<1>3. acked' = [acked EXCEPT ![k] = @ \cup {r}]
  BY <1>1, <1>2 DEF Acknowledge
<1>4. CASE k \notin Settled
  BY <1>0, <1>3, <1>4 DEF SettledAcks, TypeOK
<1>5. CASE k \in Settled
  <2>1. SettledAcks' = [SettledAcks EXCEPT ![k] = @ \cup {r}]
    BY <1>0, <1>3, <1>5 DEF SettledAcks, TypeOK, Settled
  <2>2. PICK i \in DOMAIN entries[k] : entries[k][i].req = r
    BY <1>1, <1>2 DEF Committed
  <2>3. entries[k] \in Seq(Records) /\ i \in 1..synced[k]
    BY <1>0, <1>1, <2>2 DEF TypeOK
  <2>4. i \in DOMAIN DurableLog[k] /\ DurableLog[k][i] = r
    BY <1>5, <2>2, <2>3 DEF DurableLog
  <2>5. Log!Acknowledge(k, r)
    BY <1>0, <2>1, <2>4 DEF Log!Acknowledge
  <2> QED
    BY <1>2, <1>5, <2>5 DEF Log!Next
<1> QED
  BY <1>4, <1>5

LEMMA LogThreadStep ==
  ASSUME IInv, NEW t \in Threads, ThreadStep(t)
  PROVE  [Log!Next]_<<DurableLog, SettledAcks>>
<1> DEFINE Goal == [Log!Next]_<<DurableLog, SettledAcks>>
<1>0. TypeOK /\ PhaseInv /\ PlaceOK(t) /\ \A k \in Keys : FilesOK(k)
  BY DEF IInv
<1> USE <1>0, JobFields DEF TypeOK, disk, service, history, CommitPlaces, RecoverPlaces
<1>1. ASSUME NEW k \in Keys, NEW r \in Requests, ReadRevision(t, k, r) PROVE Goal
  BY <1>1, SameLog DEF ReadRevision
<1>2. CASE Reject(t)
  BY <1>2, SameLog DEF Reject
<1>3. CASE BeginCommit(t)
  BY <1>3, SameLog DEF BeginCommit
<1>4. CASE FindRepo(t)
  BY <1>4, SameLog DEF FindRepo
<1>5. CASE MakeRepo(t)
  BY <1>5, SameLog DEF MakeRepo
<1>6. CASE SyncRepo(t)
  BY <1>6, SameLog DEF SyncRepo
<1>7. CASE MakeTask(t)
  BY <1>7, SameLog DEF MakeTask
<1>8. CASE SyncTask(t)
  BY <1>8, SameLog DEF SyncTask
<1>9. CASE FindTask(t)
  BY <1>9, SameLog DEF FindTask
<1>10. CASE SyncBlob(t)
  BY <1>10, SameLog DEF SyncBlob
<1>11. CASE RecoverBlobs(t)
  BY <1>11, SameLog DEF RecoverBlobs
<1>12. CASE RecoverSnapshot(t)
  BY <1>12, SameLog DEF RecoverSnapshot
<1>13. ASSUME NEW b \in Blobs, LinkBlob(t, b) PROVE Goal
  BY <1>13, SameLog DEF LinkBlob
<1>14. ASSUME NEW k \in Keys, StartRecover(t, k) \/ Gate(t, k) PROVE Goal
  BY <1>14, SameLog DEF StartRecover, Gate
<1>15. CASE LinkRecord(t)
  <2>1. PICK k \in Keys : k = job[t].key
    BY <1>15 DEF LinkRecord
  <2>2. PICK e \in Records : e = [req |-> job[t].req, basis |-> job[t].expected]
    BY <1>15 DEF LinkRecord, Records
  <2>3. entries' = [entries EXCEPT ![k] = Append(@, e)] /\ UNCHANGED <<synced, acked>>
    BY <1>15, <2>1, <2>2 DEF LinkRecord
  <2>4. ASSUME NEW q \in Keys, NEW i \in 1..synced[q] PROVE entries'[q][i] = entries[q][i]
    BY <2>2, <2>3, <2>4
  <2> QED
    BY <2>3, <2>4, SameLog
<1>16. CASE SyncRecord(t)
  <2>1. /\ job[t].key \in Keys /\ UNCHANGED <<entries, acked>>
        /\ synced' = [synced EXCEPT ![job[t].key] = Len(entries[job[t].key])]
    BY <1>16 DEF SyncRecord
  <2> QED
    BY <2>1, GrowLog
<1>17. CASE RecoverJournal(t)
  <2>1. /\ job[t].key \in Keys /\ UNCHANGED <<entries, acked>>
        /\ synced' = [synced EXCEPT ![job[t].key] = Len(entries[job[t].key])]
    BY <1>17 DEF RecoverJournal
  <2> QED
    BY <2>1, GrowLog
<1>18. CASE Duplicate(t)
  <2>1. /\ job[t].key \in Keys /\ job[t].req \in Requests /\ Acknowledge(t)
        /\ pc[t] = "read" /\ LockFree(job[t].key) /\ ~unhealthy
        /\ Committed(job[t].key, job[t].req) /\ UNCHANGED <<entries, synced>>
    BY <1>18 DEF Duplicate
  <2>2. Trusted(job[t].key)
    BY <2>1 DEF PhaseInv, AllIdle, Trusted
  <2>3. synced[job[t].key] = Len(entries[job[t].key])
    BY <2>1, <2>2 DEF FilesOK
  <2> QED
    BY <2>1, <2>3, AckLog
<1>19. CASE SnapshotCommit(t)
  <2>1. /\ job[t].key \in Keys /\ job[t].req \in Requests /\ Acknowledge(t)
        /\ pc[t] = "snapshot" /\ UNCHANGED <<entries, synced>>
    BY <1>19 DEF SnapshotCommit
  <2> QED
    BY <2>1, AckLog DEF PlaceOK
<1>20. CASE Fail(t)
  <2>1. UNCHANGED <<entries, synced>>
    BY <1>20 DEF Fail
  <2>2. CASE pc[t] = "snapshot" /\ Acknowledge(t)
    <3>1. job[t].key \in Keys /\ job[t].req \in Requests
      BY <2>2
    <3> QED
      BY <2>1, <2>2, <3>1, AckLog DEF PlaceOK
  <2>3. CASE acked' = acked
    BY <2>1, <2>3, SameLog
  <2> QED
    BY <1>20, <2>2, <2>3 DEF Fail, Answer
<1> QED
  BY <1>1, <1>2, <1>3, <1>4, <1>5, <1>6, <1>7, <1>8, <1>9, <1>10, <1>11, <1>12, <1>13, <1>14, <1>15, <1>16, <1>17, <1>18, <1>19, <1>20 DEF ThreadStep, CommitStep, RecoverStep

LEMMA LogPowerLoss == ASSUME IInv, PowerLoss PROVE UNCHANGED <<DurableLog, SettledAcks>>
<1>0. TypeOK /\ SettledInv /\ \A k \in Keys : FilesOK(k)
  BY DEF IInv
<1>1. PICK lostRepos \in SUBSET Unsynced,
           lostTasks \in SUBSET {k \in Keys : taskDir[k] = "partial"},
           lostFiles \in SUBSET Keys : Lose(lostRepos, lostTasks, lostFiles)
  BY DEF PowerLoss
<1>2. ASSUME NEW k \in Settled
      PROVE  synced'[k] = synced[k] /\ \A i \in 1..synced[k] : entries'[k][i] = entries[k][i]
  <2>0. k \in Keys /\ RepoOf[k] \notin lostRepos
    BY <1>0, <1>1 DEF SettledInv, Settled, Unsynced
  <2>1. CASE k \in lostTasks
    <3>1. entries[k] = <<>> /\ synced'[k] = 0
      BY <1>0, <1>1, <2>0, <2>1 DEF FilesOK, Lose
    <3> QED
      BY <1>0, <2>0, <3>1 DEF TypeOK
  <2>2. CASE k \notin lostTasks
    <3>1. /\ synced'[k] = synced[k]
          /\ entries'[k] \in {entries[k], SubSeq(entries[k], 1, synced[k])}
      BY <1>1, <2>0, <2>2 DEF Lose
    <3> QED
      BY <1>0, <2>0, <3>1 DEF TypeOK
  <2> QED
    BY <2>1, <2>2
<1> QED
  BY <1>2 DEF PowerLoss, Down, DurableLog, SettledAcks

(* The journal implements TaskLog: whatever fails, what is durable is an    *)
(* append-only log of distinct events, and only what is in it for good is   *)
(* acknowledged.                                                            *)
THEOREM ImplementsTaskLog == Spec => KeepsTaskLog
<1>1. Init => Log!Init
  BY DEF Init, Log!Init, DurableLog, SettledAcks, Settled
<1>2. IInv /\ [Next]_vars => [Log!Next]_<<DurableLog, SettledAcks>>
  <2> SUFFICES ASSUME IInv, [Next]_vars PROVE [Log!Next]_<<DurableLog, SettledAcks>>
    OBVIOUS
  <2>1. CASE Open \/ Serve \/ Kill \/ UNCHANGED vars
    <3>1. UNCHANGED <<entries, synced, acked>>
      BY <2>1 DEF Open, Serve, Kill, Down, disk, history, vars
    <3> QED
      BY <3>1, SameLog
  <2>2. CASE PowerLoss
    BY <2>2, LogPowerLoss
  <2>3. ASSUME NEW t \in Threads, ThreadStep(t) PROVE [Log!Next]_<<DurableLog, SettledAcks>>
    BY <2>3, LogThreadStep
  <2> QED
    BY <2>1, <2>2, <2>3 DEF Next, ThreadStep
<1> QED
  BY <1>1, <1>2, Invariant, PTL DEF Spec, KeepsTaskLog, Log!Spec
=============================================================================
