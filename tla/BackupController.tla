-------------------------- MODULE BackupController --------------------------
(***************************************************************************)
(* The Backup controller (pkg/controller/backup/backup_controller.go) and  *)
(* what it uses of pkg/remote and pkg/storage.  For one Backup CR at a     *)
(* time it runs "influxd backup" in the pod, into a directory named after  *)
(* the current second, copies that directory to a directory of the same    *)
(* name under the operator's temporary directory, and uploads what it      *)
(* finds there to <folder>/<second> of the bucket.  No step is undone and  *)
(* no directory is ever removed: what an attempt that failed has left      *)
(* behind is there for the next one.                                       *)
(*                                                                         *)
(* The controller reads the CR from its informer cache and writes no       *)
(* object, so crs is that cache and the actions of users are the events    *)
(* that reach it.  A file is known by the second influxd has put in its    *)
(* name and by its part (manifest, meta, a shard...); run says which run   *)
(* wrote its contents, and state whether they are all there.               *)
(***************************************************************************)
EXTENDS Naturals, InfluxdCommand

CONSTANTS
    Backups,        \* names of Backup CRs
    NoBackup,       \* stands for "no request"
    Provider,       \* spec.storage.provider of each CR: "s3", "gcs" or "pv"
    Pods, PodOf,    \* spec.podname of each CR
    Folders, FolderOf,  \* bucket and spec.storage.*.folder of each CR
    SpecOf,         \* the fields of each CR that become options of influxd
    Parts,          \* the files of one run of influxd backup, in name order
    MaxClock,       \* bound on the clock
    MaxRuns,        \* bound on the runs of influxd backup
    MaxEvents,      \* bound on the watch events of Backups
    MaxFaults,      \* bound on crashes and reported failures
    MaxDrops        \* bound on exec connections that close without an error

ASSUME BackupAssumption ==
    /\ NoBackup \notin Backups
    /\ Provider \in [Backups -> {"s3", "gcs", "pv"}]
    /\ PodOf \in [Backups -> Pods]
    /\ FolderOf \in [Backups -> Folders]
    /\ SpecOf \in [Backups -> BackupSpecs]
    /\ Parts \subseteq Nat
    /\ MaxClock \in Nat /\ MaxRuns \in Nat /\ MaxEvents \in Nat
    /\ MaxFaults \in Nat /\ MaxDrops \in Nat

VARIABLES
    now, runsIn,        \* the clock, and the runs that started in each second
    crs, incs,          \* cached CRs by incarnation (0: none), incarnations used
    queue,              \* requests waiting in the work queue
    pc, job, todo,      \* the worker: step, current run, files to upload
    podDir,             \* <<pod, second>> -> files below /var/lib/influxdb/backup
    localDir,           \* second -> files below /tmp/influxdb-backup
    remote,             \* <<folder, second>> -> objects in the bucket
    runs, reported,     \* runs started, and the runs reported as done
    events, faults, drops   \* how much of the bounds is left

bounds == <<events, faults, drops>>
vars   == <<now, runsIn, crs, incs, queue, pc, job, todo, podDir, localDir, remote,
            runs, reported, bounds>>

-----------------------------------------------------------------------------
Seconds == 0..MaxClock

Files == [sec : Seconds, part : Parts, run : Nat, state : {"whole", "cut"}]

\* A call of Reconcile: its CR, backupTime (stamp), the second in the names of
\* the files that influxd wrote for it, and whether a connection was dropped.
Jobs == [cr : Backups \cup {NoBackup}, inc : Nat, run : Nat, stamp : Seconds, sec : Seconds,
         dropped : BOOLEAN]

NoJob == [cr |-> NoBackup, inc |-> 0, run |-> 0, stamp |-> 0, sec |-> 0, dropped |-> FALSE]

Steps == {"down", "idle", "runBackup", "exec", "prepare", "copy", "store"}

Busy == pc \notin {"down", "idle"}

\* Mutant: the second is left out of the storage key.
FolderOnly(j) == <<FolderOf[j.cr], 0>>

PodPath(j)    == <<PodOf[j.cr], j.stamp>>
StorageKey(j) == <<FolderOf[j.cr], j.stamp>>

\* Writing files into a directory replaces those of the same name.
SameName(f, g) == f.sec = g.sec /\ f.part = g.part

Overlay(dir, files) == {f \in dir : \A g \in files : ~SameName(f, g)} \cup files

\* ioutil.ReadDir sorts by name.
FirstByName(f, files) ==
    \A g \in files : f.sec < g.sec \/ (f.sec = g.sec /\ f.part <= g.part)

TypeOK ==
    /\ now \in Seconds /\ runsIn \in [Seconds -> SUBSET Nat]
    /\ crs \in [Backups -> Nat] /\ incs \in Nat
    /\ queue \in SUBSET Backups
    /\ pc \in Steps
    /\ job \in Jobs
    /\ Busy <=> job.cr \in Backups
    /\ todo \in SUBSET Files
    /\ podDir \in [Pods \X Seconds -> SUBSET Files]
    /\ localDir \in [Seconds -> SUBSET Files]
    /\ remote \in [Folders \X Seconds -> SUBSET Files]
    /\ runs \in Nat
    /\ reported \in SUBSET Jobs
    /\ events \in Nat /\ faults \in Nat /\ drops \in Nat

Init ==
    /\ now = 0 /\ runsIn = [s \in Seconds |-> {}]
    /\ crs = [b \in Backups |-> 0] /\ incs = 0
    /\ queue = {}
    /\ pc = "down" /\ job = NoJob /\ todo = {}
    /\ podDir = [d \in Pods \X Seconds |-> {}]
    /\ localDir = [d \in Seconds |-> {}]
    /\ remote = [d \in Folders \X Seconds |-> {}]
    /\ runs = 0 /\ reported = {}
    /\ events = MaxEvents /\ faults = MaxFaults /\ drops = MaxDrops

-----------------------------------------------------------------------------
(* The surroundings: time, and the events of the Backup informer *)

disk == <<podDir, localDir, remote>>

Tick ==
    /\ now < MaxClock
    /\ now' = now + 1
    /\ UNCHANGED <<runsIn, crs, incs, queue, pc, job, todo, disk, runs, reported, bounds>>

Event == events > 0 /\ events' = events - 1 /\ UNCHANGED <<faults, drops>>

\* A restart lists what is there: events need not be delivered while down.
Notify(b) == queue' = IF pc = "down" THEN queue ELSE queue \cup {b}

Create(b) ==
    /\ Event
    /\ crs[b] = 0
    /\ incs' = incs + 1
    /\ crs' = [crs EXCEPT ![b] = incs + 1]
    /\ Notify(b)
    /\ UNCHANGED <<now, runsIn, pc, job, todo, disk, runs, reported>>

\* An update of the CR (a label, an annotation) or the 10-hour resync.
Touch(b) ==
    /\ Event
    /\ crs[b] # 0
    /\ Notify(b)
    /\ UNCHANGED <<now, runsIn, crs, incs, pc, job, todo, disk, runs, reported>>

Delete(b) ==
    /\ Event
    /\ crs[b] # 0
    /\ crs' = [crs EXCEPT ![b] = 0]
    /\ Notify(b)
    /\ UNCHANGED <<now, runsIn, incs, pc, job, todo, disk, runs, reported>>

\* The new process has a new, empty /tmp.
Start ==
    /\ pc = "down"
    /\ pc' = "idle"
    /\ queue' = {b \in Backups : crs[b] # 0}
    /\ localDir' = [d \in Seconds |-> {}]
    /\ UNCHANGED <<now, runsIn, crs, incs, job, todo, podDir, remote, runs, reported, bounds>>

-----------------------------------------------------------------------------
(* The worker *)

Goto(step) == pc' = step /\ UNCHANGED queue

\* Mutant: the request is not forgotten.
ForgetFilesOnly == todo' = {} /\ UNCHANGED job

Forget == job' = NoJob /\ todo' = {}

Done == pc' = "idle" /\ Forget /\ reported' = reported \cup {job} /\ UNCHANGED queue

\* Mutant: an error is returned as success of the call.
DropRequest == pc' = "idle" /\ Forget /\ UNCHANGED queue

Requeue == pc' = "idle" /\ Forget /\ queue' = queue \cup {job.cr}

Die == pc' = "down" /\ Forget /\ queue' = {}

Dequeue(b) ==
    /\ pc = "idle"
    /\ b \in queue
    /\ queue' = queue \ {b}
    /\ IF crs[b] # 0
       THEN pc' = "runBackup" /\ job' = [NoJob EXCEPT !.cr = b, !.inc = crs[b]]
       ELSE UNCHANGED <<pc, job>>
    /\ UNCHANGED <<now, runsIn, crs, incs, todo, disk, runs, reported, bounds>>

\* backupTime := time.Now().UTC().Format("20060102150405"), the directory of
\* the run in the pod, in /tmp and in the bucket.
RunBackup ==
    /\ pc = "runBackup"
    /\ ~BackupPanics(SpecOf[job.cr])
    /\ runs < MaxRuns
    /\ runsIn' = [runsIn EXCEPT ![now] = @ \cup {runs + 1}]
    /\ runs' = runs + 1
    /\ job' = [job EXCEPT !.run = runs + 1, !.stamp = now]
    /\ Goto("exec")
    /\ UNCHANGED <<now, crs, incs, todo, disk, reported, bounds>>

\* backup.Spec.Databases[0] of an empty list.
PanicEmptyList ==
    /\ pc = "runBackup"
    /\ BackupPanics(SpecOf[job.cr])
    /\ Die
    /\ UNCHANGED <<now, runsIn, crs, incs, disk, runs, reported, bounds>>

\* influxd writes these parts of the backup, named after its own clock.
Written(parts, state) ==
    {[sec |-> now, part |-> p, run |-> job.run, state |-> state] : p \in parts}

WriteInPod(files) == podDir' = [podDir EXCEPT ![PodPath(job)] = Overlay(@, files)]

\* Does influxd take the options that runBackup has put together?
Accepted(b) == BackupAccepted(BackupOptions(SpecOf[b]))

\* influxd was stopped: it has written some files, and a part of another.
WriteSomeInPod ==
    \E parts, last \in SUBSET IF Accepted(job.cr) THEN Parts ELSE {} :
        /\ \A p, q \in last : p = q
        /\ WriteInPod(Written(parts \ last, "whole") \cup Written(last, "cut"))

Exec ==
    /\ pc = "exec"
    /\ Accepted(job.cr)
    /\ WriteInPod(Written(Parts, "whole"))
    /\ job' = [job EXCEPT !.sec = now]
    /\ Goto("prepare")
    /\ UNCHANGED <<now, runsIn, crs, incs, todo, localDir, remote, runs, reported, bounds>>

ExecRefused ==
    /\ pc = "exec"
    /\ ~Accepted(job.cr)
    /\ Requeue
    /\ UNCHANGED <<now, runsIn, crs, incs, disk, runs, reported, bounds>>

\* MkdirAll, and the switch on the provider: a "pv" backup is done; for the
\* others the provider is created from its secret.
Prepare ==
    /\ pc = "prepare"
    /\ IF Provider[job.cr] = "pv"
       THEN Done
       ELSE Goto("copy") /\ UNCHANGED <<job, todo, reported>>
    /\ UNCHANGED <<now, runsIn, crs, incs, disk, runs, bounds>>

Untar(files) == localDir' = [localDir EXCEPT ![job.stamp] = Overlay(@, files)]

\* Mutant: the local directory is listed before the files are copied to it.
ListThenCopy ==
    /\ pc = "copy"
    /\ podDir[PodPath(job)] # {}
    /\ Untar(podDir[PodPath(job)])
    /\ todo' = localDir[job.stamp]
    /\ Goto("store")
    /\ UNCHANGED <<now, runsIn, crs, incs, job, podDir, remote, runs, reported, bounds>>

\* CopyFromK8s; then storeInS3 and CopyToGCS read the local directory.
CopyFromK8s ==
    /\ pc = "copy"
    /\ podDir[PodPath(job)] # {}
    /\ Untar(podDir[PodPath(job)])
    /\ todo' = localDir'[job.stamp]
    /\ Goto("store")
    /\ UNCHANGED <<now, runsIn, crs, incs, job, podDir, remote, runs, reported, bounds>>

\* tar fails on a directory that is not there.
NothingToCopy ==
    /\ pc = "copy"
    /\ podDir[PodPath(job)] = {}
    /\ Requeue
    /\ UNCHANGED <<now, runsIn, crs, incs, disk, runs, reported, bounds>>

\* The storage providers' Store: the object replaces the one of its key.
Store(f) == remote' = [remote EXCEPT ![StorageKey(job)] = Overlay(@, {f})]

\* One round of the upload loop.
Upload ==
    /\ \E f \in todo : FirstByName(f, todo) /\ Store(f) /\ todo' = todo \ {f}
    /\ Goto("store")
    /\ UNCHANGED <<now, runsIn, crs, incs, job, podDir, localDir, runs, reported, bounds>>

StoreInS3 == pc = "store" /\ Provider[job.cr] = "s3" /\ Upload

CopyToGCS == pc = "store" /\ Provider[job.cr] = "gcs" /\ Upload

\* "Backups stored to ..."
Stored ==
    /\ pc = "store"
    /\ todo = {}
    /\ Done
    /\ UNCHANGED <<now, runsIn, crs, incs, disk, runs, bounds>>

-----------------------------------------------------------------------------
(* Failures.  An exec that fails, or that the operator did not survive, has *)
(* written, and a copy that fails has unpacked, any of the files.           *)

Fault == faults > 0 /\ faults' = faults - 1 /\ UNCHANGED <<events, drops>>

ExecFails ==
    /\ Fault
    /\ pc = "exec"
    /\ WriteSomeInPod
    /\ Requeue
    /\ UNCHANGED <<now, runsIn, crs, incs, localDir, remote, runs, reported>>

\* The Kubernetes client, the directory, the secret or the storage provider
\* cannot be had, or an upload fails and leaves no object.
StepFails ==
    /\ Fault
    /\ pc \in {"runBackup", "prepare", "store"}
    /\ Requeue
    /\ UNCHANGED <<now, runsIn, crs, incs, disk, runs, reported>>

CopyFails ==
    /\ Fault
    /\ pc = "copy"
    /\ \E files \in SUBSET podDir[PodPath(job)], last \in SUBSET podDir[PodPath(job)] :
         /\ \A f, g \in last : f = g
         /\ Untar((files \ last) \cup {[f EXCEPT !.state = "cut"] : f \in last})
    /\ Requeue
    /\ UNCHANGED <<now, runsIn, crs, incs, podDir, remote, runs, reported>>

\* The local file cannot be read to its end.  The writer of GCS is closed all
\* the same, which makes an object of what it was given.
CutInGCS ==
    /\ Fault
    /\ pc = "store"
    /\ Provider[job.cr] = "gcs"
    /\ \E f \in todo : FirstByName(f, todo) /\ Store([f EXCEPT !.state = "cut"])
    /\ Requeue
    /\ UNCHANGED <<now, runsIn, crs, incs, podDir, localDir, runs, reported>>

\* The writer of a process that is gone commits nothing.
Crash ==
    /\ Fault
    /\ pc # "down"
    /\ IF pc = "exec" THEN WriteSomeInPod ELSE UNCHANGED podDir
    /\ Die
    /\ UNCHANGED <<now, runsIn, crs, incs, localDir, remote, runs, reported>>

\* A connection that closes: the error stream ends without a message, which
\* remotecommand takes for success, and a tar stream that ends between two
\* entries is a shorter archive.
Drop == drops > 0 /\ drops' = drops - 1 /\ UNCHANGED <<events, faults>>

ExecDropped ==
    /\ Drop
    /\ pc = "exec"
    /\ WriteSomeInPod
    /\ job' = [job EXCEPT !.sec = now, !.dropped = TRUE]
    /\ Goto("prepare")
    /\ UNCHANGED <<now, runsIn, crs, incs, todo, localDir, remote, runs, reported>>

CopyDropped ==
    /\ Drop
    /\ pc = "copy"
    /\ \E files \in SUBSET podDir[PodPath(job)] : Untar(files)
    /\ todo' = localDir'[job.stamp]
    /\ job' = [job EXCEPT !.dropped = TRUE]
    /\ Goto("store")
    /\ UNCHANGED <<now, runsIn, crs, incs, podDir, remote, runs, reported>>

-----------------------------------------------------------------------------
Step ==
    \/ RunBackup \/ PanicEmptyList \/ Exec \/ ExecRefused \/ Prepare
    \/ CopyFromK8s \/ NothingToCopy
    \/ StoreInS3 \/ CopyToGCS \/ Stored

Next ==
    \/ Tick \/ Start
    \/ \E b \in Backups : Create(b) \/ Touch(b) \/ Delete(b) \/ Dequeue(b)
    \/ Step
    \/ ExecFails \/ StepFails \/ CopyFails \/ CutInGCS \/ Crash
    \/ ExecDropped \/ CopyDropped

Spec == Init /\ [][Next]_vars

\* The process is restarted, a call that has begun goes on, and the work queue
\* is first-in first-out.
Fairness ==
    /\ WF_vars(Start)
    /\ WF_vars(Step)
    /\ \A b \in Backups : SF_vars(Dequeue(b))

FairSpec == Spec /\ Fairness

-----------------------------------------------------------------------------
(* Properties *)

\* Where the files of a finished run are kept.
Kept(j) == IF Provider[j.cr] = "pv" THEN podDir[PodPath(j)] ELSE remote[StorageKey(j)]

Holds(dir, j) ==
    \A p \in Parts : \E f \in dir : f.sec = j.sec /\ f.part = p /\ f.state = "whole"

\* No other run was started in the second of this one: two that were share their
\* directories, and one that fails can spoil what the other has stored.
Alone(j) == runsIn[j.stamp] = {j.run}

\* A backup reported as stored is there with every file that influxd wrote,
\* and stays so, whatever failed, crashed or was run again before and after,
\* if its run was alone in its second and its own connections were not dropped.
StoredComplete ==
    \A j \in reported : Alone(j) /\ ~j.dropped => Holds(Kept(j), j)

\* Backups that are alone in their second make up an archive that is written
\* once: see BackupArchive.
Entry(j) ==
    [second |-> j.stamp, files |-> Kept(j), whole |-> Holds(Kept(j), j), dropped |-> j.dropped]

Archive == INSTANCE BackupArchive WITH archive <- {Entry(j) : j \in {i \in reported : Alone(i)}}

ImplementsArchive == Archive!Spec

\* The directory of a reported backup holds files of the runs of its second
\* only: nothing that another attempt left in the pod, in /tmp or in the bucket
\* gets into it, so a restore of that backupId restores this backup.
SameSecondOnly == \A j \in reported : \A f \in Kept(j) : f.run \in runsIn[j.stamp]

\* A Backup that asks for what the README allows and is not deleted is eventually
\* backed up, however many of the attempts fail.
EventuallyStored ==
    \A b \in {c \in Backups : ~BackupPanics(SpecOf[c]) /\ BackupAccepted(BackupAsked(SpecOf[c]))} :
        crs[b] # 0 ~> crs[b] = 0 \/ \E j \in reported : j.cr = b /\ j.inc = crs[b]

=============================================================================
