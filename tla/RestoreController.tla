------------------------- MODULE RestoreController --------------------------
(***************************************************************************)
(* The Restore controller (pkg/controller/restore/restore_controller.go)   *)
(* and what it uses of pkg/remote and pkg/storage.  For one Restore CR at  *)
(* a time it lists the objects below <folder>/<backupId> of the bucket,    *)
(* streams them one by one into <RestoreDir>/<backupId> of the pod, and    *)
(* runs "influxd restore" on that directory; with provider "pv" it streams *)
(* nothing and uses the backup directory of the pod.  RestoreDir is a      *)
(* package variable, and the directories of the pod are never emptied.     *)
(*                                                                         *)
(* As in BackupController, crs is the informer cache of Restores and the   *)
(* actions of users are the events that reach it.  A file is known by its  *)
(* part (backups of one backupId have the same file names); from says      *)
(* which backup its contents belong to, and state whether they are all     *)
(* there.  Of influxd the databases are kept: it makes those that a        *)
(* restore brings, and refuses if one of them is there already.            *)
(***************************************************************************)
EXTENDS Naturals, FiniteSets, InfluxdCommand

CONSTANTS
    Restores,           \* names of Restore CRs
    NoRestore,          \* stands for "no request"
    Provider,           \* spec.storage.provider: "s3", "gcs", "pv" or another
    Ids, IdOf,          \* spec.backupId of each CR
    Folders, FolderOf,  \* bucket and spec.storage.*.folder of each CR
    SpecOf,             \* the fields of each CR that become options of influxd
    Databases, TargetsOf,   \* the databases that the restore of each CR makes
    EmptyOf,            \* the objects of size 0 below the folder of each CR
    Local,              \* stands for "made in the pod", the source of a PV backup
    PVIds,              \* backupIds that the pod has on its volume
    Parts,              \* the files of a backup, as numbers in name order
    PageSize,           \* most keys in one answer of ListObjectsV2
    MaxEvents,          \* bound on the watch events of Restores
    MaxFaults,          \* bound on reported failures
    MaxHidden,          \* bound on failures that no error reports
    MaxCrashes          \* bound on crashes from outside

ASSUME RestoreAssumption ==
    /\ NoRestore \notin Restores
    /\ Provider \in [Restores -> {"s3", "gcs", "pv", "other"}]
    /\ IdOf \in [Restores -> Ids]
    /\ FolderOf \in [Restores -> Folders]
    /\ SpecOf \in [Restores -> RestoreSpecs]
    /\ TargetsOf \in [Restores -> SUBSET Databases]
    /\ EmptyOf \in [Restores -> SUBSET Parts]
    /\ PVIds \subseteq Ids
    /\ Local \notin Folders
    /\ Parts \subseteq Nat /\ IsFiniteSet(Parts)
    /\ PageSize \in Nat /\ MaxEvents \in Nat
    /\ MaxFaults \in Nat /\ MaxHidden \in Nat /\ MaxCrashes \in Nat

VARIABLES
    crs, incs,          \* cached CRs by incarnation (0: none), incarnations used
    queue,              \* requests waiting in the work queue
    pc, job, todo,      \* the worker: step, CR and incarnation, keys to copy
    RestoreDir,         \* the package variable: "restore" or "backup"
    podDir,             \* <<directory, backupId>> -> files in the pod
    restored,           \* what the finished restores were made from
    databases,          \* the databases of influxd
    lost,               \* incarnations whose exec of influxd restore was cut off
    events, faults, hidden, crashes     \* how much of the bounds is left

bounds  == <<events, faults, hidden, crashes>>
influxd == <<restored, databases, lost>>
vars    == <<crs, incs, queue, pc, job, todo, RestoreDir, podDir, influxd, bounds>>

-----------------------------------------------------------------------------
Files == [part : Parts, from : Folders \cup {Local}, state : {"whole", "cut"}]

\* A call of Reconcile: its CR, and whether a file was skipped or cut in it
\* without an error.
Jobs == [cr : Restores \cup {NoRestore}, inc : Nat, misled : BOOLEAN]

NoJob == [cr |-> NoRestore, inc |-> 0, misled |-> FALSE]

Dirs == {"restore", "backup"} \X Ids

Steps == {"down", "idle", "fetch", "copy", "run"}

Busy == pc \notin {"down", "idle"}

FromBucket(r) == Provider[r] \in {"s3", "gcs"}

PVFiles == [part : Parts, from : {Local}, state : {"whole"}]

TypeOK ==
    /\ crs \in [Restores -> Nat] /\ incs \in Nat
    /\ queue \in SUBSET Restores
    /\ pc \in Steps
    /\ job \in Jobs
    /\ Busy <=> job.cr \in Restores
    /\ todo \in SUBSET Parts
    /\ RestoreDir \in {"restore", "backup"}
    /\ podDir \in [Dirs -> SUBSET Files]
    /\ restored \in SUBSET [job : Jobs, files : SUBSET Files]
    /\ databases \in SUBSET Databases /\ lost \in SUBSET Nat
    /\ events \in Nat /\ faults \in Nat /\ hidden \in Nat /\ crashes \in Nat

Init ==
    /\ crs = [r \in Restores |-> 0] /\ incs = 0
    /\ queue = {}
    /\ pc = "down" /\ job = NoJob /\ todo = {}
    /\ RestoreDir = "restore"
    /\ podDir = [d \in Dirs |-> IF d[1] = "backup" /\ d[2] \in PVIds THEN PVFiles ELSE {}]
    /\ restored = {} /\ databases = {} /\ lost = {}
    /\ events = MaxEvents /\ faults = MaxFaults /\ hidden = MaxHidden /\ crashes = MaxCrashes

-----------------------------------------------------------------------------
(* The events of the Restore informer, and restarts of the process *)

Event == events > 0 /\ events' = events - 1 /\ UNCHANGED <<faults, hidden, crashes>>

Notify(r) == queue' = IF pc = "down" THEN queue ELSE queue \cup {r}

Create(r) ==
    /\ Event
    /\ crs[r] = 0
    /\ incs' = incs + 1
    /\ crs' = [crs EXCEPT ![r] = incs + 1]
    /\ Notify(r)
    /\ UNCHANGED <<pc, job, todo, RestoreDir, podDir, influxd>>

\* An update of the CR or the 10-hour resync.
Touch(r) ==
    /\ Event
    /\ crs[r] # 0
    /\ Notify(r)
    /\ UNCHANGED <<crs, incs, pc, job, todo, RestoreDir, podDir, influxd>>

Delete(r) ==
    /\ Event
    /\ crs[r] # 0
    /\ crs' = [crs EXCEPT ![r] = 0]
    /\ Notify(r)
    /\ UNCHANGED <<incs, pc, job, todo, RestoreDir, podDir, influxd>>

\* A user drops a database, after which influxd can restore it.
DropDatabase(d) ==
    /\ Event
    /\ d \in databases
    /\ databases' = databases \ {d}
    /\ UNCHANGED <<crs, incs, queue, pc, job, todo, RestoreDir, podDir, restored, lost>>

Start ==
    /\ pc = "down"
    /\ pc' = "idle"
    /\ queue' = {r \in Restores : crs[r] # 0}
    /\ RestoreDir' = "restore"
    /\ UNCHANGED <<crs, incs, job, todo, podDir, influxd, bounds>>

-----------------------------------------------------------------------------
(* The worker *)

Goto(step) == pc' = step /\ UNCHANGED <<queue, job>>

\* Mutant: the request is not forgotten.
ForgetKeysOnly == todo' = {} /\ UNCHANGED job

Forget == job' = NoJob /\ todo' = {}

Done == pc' = "idle" /\ Forget /\ UNCHANGED queue

Requeue == pc' = "idle" /\ Forget /\ queue' = queue \cup {job.cr}

Die == pc' = "down" /\ Forget /\ queue' = {}

Dequeue(r) ==
    /\ pc = "idle"
    /\ r \in queue
    /\ queue' = queue \ {r}
    /\ IF crs[r] # 0
       THEN pc' = "fetch" /\ job' = [cr |-> r, inc |-> crs[r], misled |-> FALSE]
       ELSE UNCHANGED <<pc, job>>
    /\ UNCHANGED <<crs, incs, todo, RestoreDir, podDir, influxd, bounds>>

\* One answer of ListObjectsV2: the first PageSize keys, in order.
Page == {p \in Parts : Cardinality({q \in Parts : q < p}) < PageSize}

List(keys) ==
    /\ todo' = keys
    /\ Goto("copy")
    /\ UNCHANGED <<crs, incs, RestoreDir, podDir, influxd, bounds>>

\* S3's ListDirectory asks for one page and does not look at IsTruncated.
ListInS3 == pc = "fetch" /\ Provider[job.cr] = "s3" /\ List(Page)

\* The iterator of GCS asks for all of them.
ListInGCS == pc = "fetch" /\ Provider[job.cr] = "gcs" /\ List(Parts)

\* RestoreDir = backup.BackupDir, for every restore from now on.
FetchPV ==
    /\ pc = "fetch"
    /\ Provider[job.cr] = "pv"
    /\ RestoreDir' = "backup"
    /\ Goto("run")
    /\ UNCHANGED <<crs, incs, todo, podDir, influxd, bounds>>

\* default: whatever is in the pod.
FetchNothing ==
    /\ pc = "fetch"
    /\ Provider[job.cr] = "other"
    /\ Goto("run")
    /\ UNCHANGED <<crs, incs, todo, RestoreDir, podDir, influxd, bounds>>

First(p, keys) == p \in keys /\ \A q \in keys : p <= q

Destination == <<RestoreDir, IdOf[job.cr]>>

\* Mutant: tar keeps a file that is there (tar -xkf).
KeepExisting(p, state) ==
    podDir' = [podDir EXCEPT ![Destination] =
        IF \E f \in @ : f.part = p
        THEN @
        ELSE @ \cup {[part |-> p, from |-> FolderOf[job.cr], state |-> state]}]

\* tar -xf in the pod creates the file or replaces the one of that name.
Unpack(p, state) ==
    podDir' = [podDir EXCEPT ![Destination] =
        {f \in @ : f.part # p} \cup {[part |-> p, from |-> FolderOf[job.cr], state |-> state]}]

\* The object of this round of the loop, if it has a size.
Sent(p) == First(p, todo) /\ p \notin EmptyOf[job.cr]

\* One round of the loop over the keys: Retrieve, CopyToK8s.
CopyFile ==
    /\ \E p \in todo : Sent(p) /\ Unpack(p, "whole") /\ todo' = todo \ {p}
    /\ Goto("copy")
    /\ UNCHANGED <<crs, incs, RestoreDir, influxd, bounds>>

CopyFromS3 == pc = "copy" /\ Provider[job.cr] = "s3" /\ CopyFile

CopyFromGCS == pc = "copy" /\ Provider[job.cr] = "gcs" /\ CopyFile

\* A file is left out, and the loop goes on as if nothing had happened.
Skip(p) ==
    /\ todo' = todo \ {p}
    /\ job' = [job EXCEPT !.misled = TRUE]
    /\ UNCHANGED <<pc, queue, crs, incs, RestoreDir, influxd>>

\* CopyToK8s returns before it has done anything when the size is 0.
SkipEmpty ==
    /\ pc = "copy"
    /\ \E p \in todo : First(p, todo) /\ p \in EmptyOf[job.cr] /\ Skip(p)
    /\ UNCHANGED <<podDir, bounds>>

Copied ==
    /\ pc = "copy"
    /\ todo = {}
    /\ Goto("run")
    /\ UNCHANGED <<crs, incs, todo, RestoreDir, podDir, influxd, bounds>>

\* influxd reads the manifest and then every file that it names.
Readable == \A p \in Parts : \E f \in podDir[Destination] : f.part = p /\ f.state = "whole"

\* Does influxd take the options that Reconcile has put together?
Accepted(r) == RestoreAccepted(RestoreOptions(SpecOf[r]))

\* No database that the restore makes is there already.
Fresh(r) == TargetsOf[r] \cap databases = {}

\* influxd makes the databases and then fills them.
Makes ==
    /\ pc = "run"
    /\ Accepted(job.cr)
    /\ Fresh(job.cr)
    /\ databases' = databases \cup TargetsOf[job.cr]

Restored ==
    /\ Makes
    /\ Readable
    /\ restored' = restored \cup {[job |-> job, files |-> podDir[Destination]]}

\* The databases were made and not all of their data.
RestoredInPart == Makes /\ UNCHANGED restored

\* What an influxd restore that does not end well can have done.
RestoredOrNot == Restored \/ RestoredInPart \/ UNCHANGED <<restored, databases>>

RunRestore ==
    /\ Restored
    /\ Done
    /\ UNCHANGED <<crs, incs, RestoreDir, podDir, lost, bounds>>

\* The options are wrong, a file is missing or cut, or a database is there:
\* that of another Restore, or of an earlier call or incarnation of this one.
RestoreRefused ==
    /\ pc = "run"
    /\ ~Accepted(job.cr) \/ ~Fresh(job.cr) \/ ~Readable
    /\ RestoredInPart \/ UNCHANGED <<restored, databases>>
    /\ Requeue
    /\ UNCHANGED <<crs, incs, RestoreDir, podDir, lost, bounds>>

-----------------------------------------------------------------------------
(* Failures *)

Fault == faults > 0 /\ faults' = faults - 1 /\ UNCHANGED <<events, hidden, crashes>>

\* The client, the secret, the provider, the listing, the pod or the exec of
\* influxd restore, which may have restored all the same.
StepFails ==
    /\ Fault
    /\ pc \in {"fetch", "run"}
    /\ RestoredOrNot
    /\ Requeue
    /\ UNCHANGED <<crs, incs, RestoreDir, podDir, lost>>

\* GCS: the error of Retrieve is returned.
RetrieveFails ==
    /\ Fault
    /\ pc = "copy"
    /\ todo # {}
    /\ Provider[job.cr] = "gcs"
    /\ Requeue
    /\ UNCHANGED <<crs, incs, RestoreDir, podDir, influxd>>

\* S3: Retrieve returns a nil size, which is printed before err is looked at.
PanicNilSize ==
    /\ Fault
    /\ pc = "copy"
    /\ todo # {}
    /\ Provider[job.cr] = "s3"
    /\ Die
    /\ UNCHANGED <<crs, incs, RestoreDir, podDir, influxd>>

\* tar has created the file and did not get to its end.
CutInPod == pc = "copy" /\ \E p \in todo : Sent(p) /\ Unpack(p, "cut")

\* Mutant: the error of CopyToK8s is logged and the loop goes on.
CopyFailsUnseen ==
    /\ Fault
    /\ pc = "copy"
    /\ \E p \in todo : First(p, todo) /\ todo' = todo \ {p}
    /\ UNCHANGED <<pc, job, queue, crs, incs, RestoreDir, podDir, influxd>>

\* CopyToK8s fails, before or after tar has created the file.
CopyFails ==
    /\ Fault
    /\ pc = "copy"
    /\ CutInPod \/ (todo # {} /\ UNCHANGED podDir)
    /\ Requeue
    /\ UNCHANGED <<crs, incs, RestoreDir, influxd>>

Hidden == hidden > 0 /\ hidden' = hidden - 1 /\ UNCHANGED <<events, faults, crashes>>

\* GCS: GetAttrs turns any error into size 0.
AttrsFail ==
    /\ Hidden
    /\ pc = "copy"
    /\ Provider[job.cr] = "gcs"
    /\ \E p \in todo : First(p, todo) /\ Skip(p)
    /\ UNCHANGED podDir

\* The exec connection closes: remotecommand sees no error message.
CopyDropped ==
    /\ Hidden
    /\ pc = "copy"
    /\ \E p \in todo : Sent(p) /\ Unpack(p, "cut") /\ Skip(p)

\* The same during influxd restore: Reconcile returns nil, whatever influxd has
\* done by then, and nothing is queued.
RestoreDropped ==
    /\ Hidden
    /\ pc = "run"
    /\ RestoredOrNot
    /\ lost' = lost \cup {job.inc}
    /\ Done
    /\ UNCHANGED <<crs, incs, RestoreDir, podDir>>

\* What tar or influxd does in the pod the crash does not undo.
Crash ==
    /\ crashes > 0
    /\ crashes' = crashes - 1
    /\ pc # "down"
    /\ CutInPod \/ UNCHANGED podDir
    /\ RestoredOrNot
    /\ Die
    /\ UNCHANGED <<crs, incs, RestoreDir, lost, events, faults, hidden>>

-----------------------------------------------------------------------------
Step ==
    \/ ListInS3 \/ ListInGCS \/ FetchPV \/ FetchNothing
    \/ CopyFromS3 \/ CopyFromGCS \/ SkipEmpty \/ Copied
    \/ RunRestore \/ RestoreRefused

Next ==
    \/ Start
    \/ \E r \in Restores : Create(r) \/ Touch(r) \/ Delete(r) \/ Dequeue(r)
    \/ \E d \in Databases : DropDatabase(d)
    \/ Step
    \/ StepFails \/ RetrieveFails \/ PanicNilSize \/ CopyFails
    \/ AttrsFail \/ CopyDropped \/ RestoreDropped
    \/ Crash

Spec == Init /\ [][Next]_vars

\* The process is restarted, a call that has begun goes on, and the work queue
\* is first-in first-out.
Fairness ==
    /\ WF_vars(Start)
    /\ WF_vars(Step)
    /\ \A r \in Restores : SF_vars(Dequeue(r))

FairSpec == Spec /\ Fairness

-----------------------------------------------------------------------------
(* Properties *)

\* The backup that is in the bucket of a CR.
BackupOf(r) == [part : Parts, from : {FolderOf[r]}, state : {"whole"}]

\* When influxd is started for a Restore from a bucket, the directory it is given
\* holds the files of that backup, all of them, whole, and no other: whatever was
\* there before, and however many calls and processes ended between two files.
\* Left out are calls in which a file was skipped or cut without an error.
GivenTheBackup ==
    pc = "run" /\ FromBucket(job.cr) /\ ~job.misled => podDir[Destination] = BackupOf(job.cr)

\* These files are those of the backup that the CR names.
OwnFiles(x) == FromBucket(x.job.cr) => \A f \in x.files : f.from = FolderOf[x.job.cr]

\* A finished restore from a bucket was made from the backup that its CR names,
\* and not from what another restore or a failed attempt has left.
RestoredFromSource == \A x \in restored : OwnFiles(x)

\* The same for the calls in which no file was skipped or cut without an error:
\* what the other calls have left does no harm to these.
OwnUnlessMisled == \A x \in restored : ~x.job.misled => OwnFiles(x)

\* A restore from the volume was made from what influxd backup has left there.
RestoredFromVolume ==
    \A x \in restored : Provider[x.job.cr] = "pv" => \A f \in x.files : f.from = Local

\* A Restore that asks for what the README allows and is not deleted is eventually
\* carried out, however many of the attempts fail, and next to Restores that
\* influxd refuses for ever.  Left out are those that influxd refuses because a
\* database is there (of another restore, or half made by an attempt), and those
\* whose exec of influxd was cut off without an error.
EventuallyRestored ==
    \A r \in {q \in Restores : RestoreAccepted(RestoreAsked(SpecOf[q]))} :
        crs[r] # 0 ~> \/ crs[r] = 0
                      \/ \E x \in restored : x.job.inc = crs[r]
                      \/ ~Fresh(r)
                      \/ crs[r] \in lost
=============================================================================
