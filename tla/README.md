# A TLA+ model of the InfluxData operator

The operator is one Go process (`src/cmd/manager/main.go`) that runs three
controllers of controller-runtime. Each has one worker, a work queue of its own
and a shared set of informer caches. This directory models the three
controllers with the surroundings that make them hard to test (stale caches,
crashes, lost answers, directories that are never emptied, exec connections that
break without saying so) and the mechanisms below them: the copy into a pod with
its goroutines and its pipe, the credentials file that two controllers share, the
command lines of influxd, and the memory that copies of a CR have in common.

## 1. Inventory

| component | state | operations | interaction |
|---|---|---|---|
| Influxdb controller `pkg/controller/influxdb` | none of its own; the objects in the API server, the caches, the queue | `Reconcile`: Service, claim, StatefulSet, replicas, `status.nodes` | reads the caches, writes to the API server; events of Influxdbs and of controlled StatefulSets enqueue requests; relies on the garbage collector |
| Backup controller `pkg/controller/backup` | directories in the pod and in `/tmp`, objects in a bucket | `Reconcile`, `runBackup`, `storeInS3` | `Exec` and `CopyFromK8s` of pkg/remote, `Store` of pkg/storage |
| Restore controller `pkg/controller/restore` | package variable `RestoreDir`, directories in the pod | `Reconcile` with the copy loop | `ListDirectory` and `Retrieve` of pkg/storage, `CopyToK8s` and `Exec` |
| Remote copy and exec `pkg/remote` | a pipe and a goroutine per copy | `Exec`, `CopyFromK8s`, `CopyToK8s`, `untarAll`, `makeTar` | the exec subresource of pods |
| Storage providers `pkg/storage` | the credentials file `/tmp/sa` | `NewS3StorageProvider`, `NewGcsStorageProvider`, `Store`, `Retrieve`, `ListDirectory`, `CopyToGCS`, `CopyFromGCS` | S3, GCS, Secrets; both workers use `/tmp/sa` |
| command options, in the two controllers | - | which options a spec leads to | influxd accepts or refuses them |
| CR types and deep copies `pkg/apis` | maps, slices and pointers of a CR | `DeepCopyInto`, `DeepCopyObject` | every `Get` of the cached client makes a copy; objects made from it share its memory |
| start-up, registration, generated clients, unused helpers, manifests | - | - | not of interest, see section 8 |

Hard behaviours: reads from caches and writes to the server interleave with
users, with the StatefulSet controller and with the garbage collector; any write
may be refused, fail, or take effect and lose its answer; the process may end
between any two steps and starts with a list of what exists; no step of a backup
or restore is undone, so what an attempt has left is there for the next one; some
failures are reported as success. The list under `hazards` in `PROJECT.json`
gives the line of each and the properties that would catch it.

What makes each component correct:

* Influxdb: a change of the spec is never lost and never taken back; the objects
  end up as the spec says, controlled by this CR; those of a deleted CR go away;
  the status names them.
* Backup: what is reported as stored is complete, holds nothing of other runs, and
  every Backup that follows the documentation is eventually stored.
* Restore: a restore is made from the backup that the CR names, and is eventually
  carried out.
* Remote copy: a call returns; if it returns nil the file is whole; no goroutine is
  left behind.
* Storage providers: a call works with the account of its own CR, and gets there.
* Command options: a spec that follows the documentation gets what it asks for.
* Deep copies: what a call does to its copy reaches neither the cache nor the CR.

## 2. Modules

| module | models |
|---|---|
| `InfluxdbController` | the Influxdb controller, API server, caches, queue, users, garbage collector, faults |
| `BackupController` | the Backup controller with what it uses of pkg/remote and pkg/storage |
| `RestoreController` | the Restore controller with what it uses of pkg/remote and pkg/storage |
| `InfluxdCommand` | the options of `influxd backup` and `influxd restore`, as operators that both controllers use |
| `RemoteCopy` | one call of `CopyToK8s` with its goroutines, the pipe, the connection and tar |
| `BackupArchive` | what the Backup controller promises: an archive that is written once; `BackupController` implements it |
| `FileCopy` | what `CopyToK8s` promises; `RemoteCopy` implements it |
| `StorageCredentials` | the constructors of the storage providers, in two workers side by side |
| `CRCopies` | deep copies of CRs, and the objects that share memory with them |
| `...Proofs` | theorems and proofs about the module of that name, with its inductive invariants; `InfluxdbOwnershipProofs` continues `InfluxdbControllerProofs` |
| `MC...` | the instances for TLC; one `.cfg` per run |

`BackupController` and `RestoreController` EXTEND `InfluxdCommand`. `RemoteCopy` zooms
into one step of `RestoreController`: the outcomes that `FileCopy` leaves open (whole,
cut or old file; nil or an error) are the actions `CopyFile`, `SkipEmpty`, `CopyFails`,
`AttrsFail`, `CopyDropped` and `Crash` there. `StorageCredentials` zooms into the steps `prepare` of
a backup and `fetch` of a restore, which the controllers' modules take as one step
that may fail.

### InfluxdbController

`cr`, `svc`, `pvc`, `sts` are the objects in the API server; `ccr`, `csvc`,
`cpvc`, `csts` the caches of the split client; `queue` the work queue; `pc`,
`key`, `loc`, `found` the worker with its copies of the CR and of the StatefulSet.
`loc` and `found` are the local variables `influxdb` and `found` of `Reconcile`.

One call of `Reconcile` is cut where something outside can happen: before each
read of a cache and before each write. `GetService`, `CreateService`,
`ReportService` are `reconcileService`; `GetPVC`, `PanicNoPod`, `CreatePVC`,
`ReportPVC` are `reconcilePVC`; `GetSts`, `CreateSts`, `UpdateSts`,
`GetStsAndNodes`, `ReportNodes` the rest. `Refused` is the error return of a
write that the API server does not accept, `ApiError` that of one that failed,
`LostAnswer` that of one that had its effect. An event delivery (`WatchCR`,
`WatchSts`, ...) brings the cached copy up to date and, for the two kinds that the
controller watches, enqueues the request; it may run between any two steps.

Of resource versions only equality is observed. A write therefore takes a version
which no copy of that object carries, so that versions do not grow and the state
space is finite. Uids do grow, since an owner reference outlives its owner. The
CRs of `deploy/crds` share one claim; so do the instances. Nothing in the operator
or in the StatefulSet controller creates a PodTemplate, which is what
`status.nodes` is read from, so `PodTemplates` is a constant.

### BackupController

`crs` is the cache of Backups (an incarnation number per name), `podDir`,
`localDir` and `remote` are the three places through which a backup travels,
`job` is the running call with `backupTime` as `stamp`. The steps are `RunBackup`
(the stamp and the command), `Exec`, `Prepare` (the switch on the provider),
`CopyFromK8s`, one `StoreInS3` or `CopyToGCS` per round of the upload loop, and `Stored`.
`ExecRefused` is a command that influxd does not accept, `PanicEmptyList` the index into
an empty list.
`"pv"` also stands for every provider that the code does not know: its `default`
does the same. A file is known by its name (the second of influxd's clock and its
part), by the run that wrote it and by whether it is whole or cut. A call that fails,
or that the operator does not survive, may have written any of the files and a part of
another; `CutInGCS` is the object that GCS makes of an upload that broke off, since its
writer is closed all the same. `runsIn` records which runs were started in which second:
these share their directories. A connection that closes (`ExecDropped`, `CopyDropped`)
is not an error for `remotecommand`: its error stream ends without a message. `dropped`
marks the call whose connection this was. The clock
is a bounded counter of seconds; every step may take any number of them.

`BackupArchive` knows nothing of all this: it is a set of backups, to which a complete one is
added under a name of its own (`Add`), and from which those are given up under whose name
another run is started (`Share`). `ImplementsArchive` maps `remote`, `podDir` and the
reported runs to it.

### RestoreController

The same shape: `ListInS3` (one page) and `ListInGCS` (all) list the objects,
`CopyFromS3` and `CopyFromGCS` are one round of the copy loops, `SkipEmpty` one round for an
object of size 0 (which `CopyToK8s` takes for a mock), `FetchPV` is the assignment to
`RestoreDir`, `FetchNothing` the `default` of the switch. All Restores of an instance go to one
pod, which is where they can get in each other's way.

`RunRestore` and `RestoreRefused` are the two answers of influxd. It refuses wrong options, a
directory in which a file is missing or cut, and a Restore one of whose databases is there:
made by another Restore, by an earlier call or incarnation of this one, or by an attempt that
made the databases and then failed (`RestoredInPart`). `databases` keeps what influxd has,
`TargetsOf` what each Restore makes, and `DropDatabase` is the user who makes room again.

A file of the pod is known by its part, by the backup its contents are of, and by whether it
is whole. All backups of one backupId are taken to have the same file names: both come from
the second in which the backup was made. A file that is skipped or cut without an error
(`AttrsFail`, `SkipEmpty`, `CopyDropped`) marks the running call as `misled`. The exec of
influxd uses the same `k8s.Exec` as a backup: a connection that closes is no error, and
`Reconcile` returns nil whatever influxd has done by then (`RestoreDropped`). `lost` has the
incarnations to which this has happened; it is read by a property only, as is `restored`.

### InfluxdCommand

A field of a spec is empty or given; the list of databases is absent, empty, or begins
with an empty or a non-empty name. `BackupOptions` and `RestoreOptions` are the options
that the code appends, `BackupAsked` and `RestoreAsked` those for which the spec has a
value, `BackupAccepted` and `RestoreAccepted` the rules that the operator's README gives
next to each field of its sample CRs (lines 169-179 and 236-245).

### RemoteCopy and FileCopy

`pc` is the caller, `maker` the goroutine of `makeTar`, `feeder` the one of
`remotecommand.copyStdin`, `tar` the command in the pod. The stream is counted in items
(header, chunks, end of the archive) by four cursors. The pipe is unbuffered: a write ends
when it has been read. `size` is what the provider announced, `body` what the stream
holds; they are independent, because GCS is asked for them in two calls. A call that
fails before `Exec` has a reader leaves the goroutine blocked, as does a tar that ends
early. `Ready` says who can take the next step, `Left` how many steps the call can take at
most: `StepsLeft` for the steps of the caller and the ends of the other three, one per item
and cursor, and one per failure. In `FileCopy` the file is old, cut or whole, and nil may be
returned only if it is whole, if the object was announced as empty, or if the connection was
lost.

### StorageCredentials

Each worker reads the Secret, makes a client and uses it. For S3 these are two reads of
the Secret (`ReadKeyId`, `ReadSecretKey`); for GCS `CreateFile` truncates `/tmp/sa`,
`WriteFile` writes it from its start (over what another call has written meanwhile; the
accounts have different lengths) and `NewStorageClient` reads it. Between the first and the
last of these a call is `Inside`; `met` records the accounts of the calls that were there with
it, and `used` what each call went to its bucket with.

### CRCopies

A part is a piece of a CR behind a reference. `Get` copies the parts that the generated
`DeepCopyInto` follows; the others would be `shared` with the cache. `Decode` is the
answer to a `Create`, which `Into(obj)` writes into the object that was sent and with it
into the parts of the CR that the object was built from; `Put` is an `Update` with all of
the copy. Of versions again only equality is observed.

## 3. Runs

Passing runs:

| run | shows |
|---|---|
| `InfluxdbSafety` | `TypeOK`; `ReplicasMatchWhenIdle`: no wake-up is lost; `SpecPreserved`: no Update from a stale copy changes a spec; `OnlyReplicasChange`: none gives a StatefulSet another owner or image; `OwnedOrOrphan`: what stale caches make the operator create can be collected. Two CRs, of which one has no `spec.pod` and ends the process whenever it is reconciled |
| `InfluxdbLiveness` | `Converges` and `DeletedIsCleaned` (and `ReplicasMatchWhenIdle`) after any three edits and a fault at any step |
| `BackupSafety` | `TypeOK`; `StoredComplete`, `SameSecondOnly` and `ImplementsArchive` with faults, dropped connections, cut files, runs in the same second and next to a Backup that ends the process and one that influxd refuses |
| `BackupLiveness` | `EventuallyStored`, for Backups that follow the documentation |
| `RestoreSafety` | `TypeOK`; `GivenTheBackup`: what influxd is given to restore is the backup of the CR, complete, whole and nothing else; `OwnUnlessMisled`: nor does anything else get into a restore that ends when the connection, the process or the attempt does. Two Restores from buckets, one from the volume and one with an unknown provider, all of one backupId, an object of size 0, databases that are there already, reported and unreported failures and a crash |
| `RestoreLiveness` | `EventuallyRestored`, next to a Restore that influxd refuses for ever, with re-creations, databases that are dropped, silent failures and a crash |
| `RemoteCopy` | `TypeOK`; `Returns`: no deadlock between caller, goroutines and tar, and its two halves `NoRing` (somebody can go on) and `WorkEnds` (not for ever); `LeakOnlyAfterError`; `ImplementsFileCopy`: the refinement |
| `StorageCredentials` | `TypeOK`; `OwnOrMet`: the own account or that of a call that was in `/tmp/sa` at the same time; `Served`: requests get through although Secrets are rotated |
| `CRCopies` | `TypeOK`; `OnlyDelivered`: the cache is what was delivered; `SpecIsUsers`: the spec is what users wrote |

Runs that end in a counterexample, each of a sentence of the documentation or the
code (`findings` in `PROJECT.json` quotes it):

| run | what happens |
|---|---|
| `InfluxdbServiceName` | create the Service, fail to update the status: the name is never recorded |
| `RestoreSkipped` | an object whose attributes cannot be read is skipped, and an old file is restored |
| `RestoreDirKept` | a PV restore fails once; a bucket Restore of that backupId then unpacks over the backup on the volume, and the retry of the first restores that |

The modules contain more that the code does and its documentation does not say.
These have no run of their own, but each is an action or a constant of a module and
is listed under `hazards`:

* a CR without `spec.pod` (`PanicNoPod`), a Backup with `databases: []`
  (`PanicEmptyList`) and a failed download from S3 (`PanicNilSize`) end the process;
* a change of `baseImage` never reaches the StatefulSet (only `CreateSts` writes it);
* the name of a claim that was there first is never recorded in the status;
* a Backup is run again at every restart, at the resync and at any update of its CR
  (`Touch`, `Start`); a Restore too, and influxd then refuses;
* a Restore whose database is there (of another Restore, of an earlier incarnation, or half
  made by an attempt of its own) is refused and retried until a user drops the database
  (`Fresh`): `EventuallyRestored` leaves it out until then;
* a connection that closes while influxd restores (`RestoreDropped`) ends the call with nil,
  and nothing is retried: `EventuallyRestored` leaves out the incarnations to which it happened;
* an object of size 0 is not copied (`SkipEmpty`), and an older file of that name is restored:
  `GivenTheBackup` and `OwnUnlessMisled` leave these calls out;
* two runs that start in one second share their directories in the pod, in `/tmp` and in
  the bucket: a run that fails can cut files that the other has reported as stored.
  `StoredComplete` leaves such pairs out, and `SameSecondOnly` says that nothing beyond
  them gets in;
* two calls that meet in `/tmp/sa` may swap their accounts, and may fail together again
  and again: `OwnOrMet` allows the one, and `Served` leaves out the other;
* `Update(cr)` after the creation of the claim sends a claim spec into which the answer
  of the API server has been decoded, so defaults of the server (the storage class, the
  volume mode) get into the user's CR. `SpecIsUsers` leaves the claim out;
* a Backup with a retention policy and a list that begins with an empty name, or with a
  retention policy, a shard and no list, and a Restore with `rp` and `newRp` but no
  database get a command that influxd refuses for ever; a retention policy without a list
  and a shard is silently dropped. `BackupRefusedExactly` and `RestoreRefusedExactly`
  prove that there are no others;
* a connection that breaks during a backup (`ExecDropped`, `CopyDropped`) makes a partial
  backup that is reported as stored. No property catches it: `StoredComplete` and
  `ImplementsArchive` leave out the runs to which this happened (and no others), and for
  `EventuallyStored` they count as stored;
* a backup with more objects than one page of the S3 listing (`PageSize`) is never restored
  completely: `EventuallyRestored` needs a listing that is complete.

## 4. Bounds

`MaxEdits`, `MaxEvents` bound what users and other controllers do, `MaxFaults`,
`MaxDrops`, `MaxHidden`, `MaxCrashes` what goes wrong, `MaxClock` and `MaxRuns` the
time and the runs of influxd, `MaxVersions` the rotations of a Secret, `MaxChunks` the
length of an object and `MaxLength` that of an account. All are counters that only guards
look at; what the operator itself does is bounded only by `MaxRuns`, which a crash loop or
a command that is always refused would otherwise exceed (so `BackupLiveness` has neither;
`BackupSafety` has both). Three edits are enough to create a CR, delete it and create it again while
old objects and events are around, or to create it and have two changes race; two
faults hit a step and its retry (in `BackupSafety` one of them is a dropped connection). One CR is enough for the liveness of the Influxdb
controller, whose CRs meet only in the worker and in the shared claim
(`InfluxdbSafety` has two). Two to four Backups and two to
four Restores collide in directories. In `RestoreSafety` all four have one backupId, and each
pair of them makes one database. Four events let `RestoreLiveness` delete a Restore and create
it again, or drop its database, while the refused one is there. Two or three files make a first, a middle
and a last one. Four chunks put the end of a short or long object before, at and behind
every cursor, and two faults break two of the four activities. Two accounts of one and
two blocks are enough for a file that is a mixture of both, and two versions for a
rotation between two reads. In `CRCopies` one CR is enough, since copies of different CRs
share nothing. `CHECK_DEADLOCK FALSE` is set where the system may really stop (all
configurations but `CRCopies`): when users and faults have used up their bounds and
everything has been done, the system waits.

## 5. Fairness

* `Start` is weakly fair: the Deployment restarts a process that has ended.
* `Step` is weakly fair: a call that has begun goes on; all API calls return.
* `Dequeue` is strongly fair for each request: the queue is first-in first-out and a
  request that failed waits for its back-off, so others come in between. Weak
  fairness would not do, since `Dequeue` is disabled while the worker is busy.
* Deliveries, the garbage collector and the resync timer are weakly fair.

* In `RemoteCopy` each of caller, `makeTar`, `copyStdin` and tar is weakly fair: a goroutine
  or process that can go on does, and a read of the body returns. No timeout is assumed,
  because the code sets none.
* In `StorageCredentials` each worker is weakly fair and each request strongly fair, as above.

Faults, users and the clock are not fair. In `BackupLiveness` and the other
liveness runs a step can only fail as often as `MaxFaults` says, that is, failures
end; without that no retry could be expected to succeed.

## 6. Proofs

All theorems hold for every value of the constants that satisfies the `ASSUME` of
the module: any number of CRs, claims, files, edits and faults.

* `TypeCorrect` (six modules). In the controllers `TypeOK` is inductive as it stands. Its
  conjunct `Busy <=> key \in Names` (`job.cr` in the others) says that the worker holds a
  request exactly while a call runs. In `RemoteCopy` it needs `Started`.

Influxdb controller (`InfluxdbControllerProofs`, `InfluxdbOwnershipProofs`):

* `SpecIsPreserved`: `Spec => SpecPreserved`. The Updates write back `loc`. That
  they do not change the spec follows from `CopiesAgree`: a copy with the version
  of the stored CR has its uid, size and image. It is inductive because every write
  by a user takes a version that no copy has.
* `NoWakeupIsLost`: `Spec => []ReplicasMatchWhenIdle`. `NoLostWakeup` says that what
  the worker has read is what the caches still hold unless its request has been
  queued again, and that a CR which is neither queued nor worked on has a
  StatefulSet of its size in the cache. An event of a StatefulSet enqueues a request
  only through its owner, so `HaveOwners` (every StatefulSet is controlled) is needed,
  and for it `HaveUids`.
* `OnlyReplicasEverChange`: `Spec => OnlyReplicasChange`, from `StsAgree`, the counterpart of
  `CopiesAgree` for StatefulSets. The lemmas `StsEffects`, `FoundIsRead` and `CachedSts` say
  once what any step can do to a StatefulSet, to the worker's copy and to the cached ones.
* `EverythingIsControlled`: `Spec => []OwnedOrOrphan`. `UidsApart` says that a uid which a CR, a
  copy of it or an object made for it carries has been handed out and is about one name only.
  Only the creation of a CR brings a new uid; for every other step one lemma per place
  (`UidOfCR`, `UidOfService`, ...) shows that the uid there was about the same name before.
  With `Gone` (no CR, no uid), `ServicesOwned` and `HaveOwners` an owner is then the CR of that
  name or nobody.
* `SettledIsInPlace` combines `NoWakeupIsLost` and `EverythingIsControlled`: the safety half of
  `Converges` for the StatefulSet.

Backup controller (`BackupControllerProofs`):

* `RunsAreNumbered` and `NoForeignFile`: `Spec => []SameSecondOnly`. `InPlace` says that
  every file, in the pod, in `/tmp`, in the bucket and on the list of the upload, was
  written by a run of the second that names its directory; `Numbered` that runs are counted
  and that a reported run is not the one going on. Dropped connections and cut files are
  included.
* `ReportedIsComplete`: `Spec => []StoredComplete`. `OnTheWay` says
  that at every step of a call, unless one of its connections was dropped, the place to copy
  from next has all the files, whole: the
  pod's directory, then the files to upload together with those uploaded. That the
  files of a reported run stay whole needs `Numbered` and `InPlace`: a later run writes to
  another directory unless it was started in the same second. A run with a dropped connection
  is left out by `StoredComplete` itself (`CopyDropped` then leads to a partial backup that is
  reported); no bound on the number of dropped connections is assumed.
* `ArchiveIsWriteOnce`: `Spec => ImplementsArchive`, the refinement of `BackupArchive`. The step
  that reports a run is `Add`, the start of a second run in its second is `Share`, and every
  other step leaves the files of the reported runs alone (from the invariants above).

Restore controller (`RestoreControllerProofs`). The only hypothesis is about the bucket, never
about the CRs or about what fails: `Listed` says that a listing of S3 fits one page, if S3 is
used. The lemma `OnePage` derives from it that the page is the whole listing. An incomplete
listing leaves old files in place the way a skipped file does.

* `InfluxdIsGivenTheBackup`: `Listed /\ Spec => []GivenTheBackup`. `Replaced` says that in the
  directory of the running call, unless it has been misled, every file but those of this backup,
  whole, is still on the list of files to copy, and every part that is off the list is there. It
  needs nothing about other Restores or about `RestoreDir`: they leave files, and all of them are
  replaced, on the volume too.
* `LeftoversAreReplaced`: `Listed /\ Spec => []OwnUnlessMisled`, from the first for every way in
  which influxd can finish. `RestoreSkipped` shows what an unreported failure does.
* `OnlyPVMovesTheDirectory`: where no Restore uses the volume, nothing is ever unpacked below
  its backup directory. With one, `RestoreDirKept` shows the contrary.

Remote copy (`RemoteCopyProofs`):

* `NoLeakAfterSuccess` and `Refinement`: `Spec => []LeakOnlyAfterError` and
  `Spec => ImplementsFileCopy`. `Started` says which activities run at which step of the
  caller and how the file follows from tar's cursor; `Settled` what a tar that succeeded
  over a good connection implies: the end of the archive has been taken from the pipe or
  the goroutine is done. Every step is shown to be a step of `FileCopy` or to leave its
  variables alone.
* `NoRingForms` and `EveryStepCounts`: `Spec => []NoRing` and `Spec => WorkEnds`. Until the call
  has returned the caller, `makeTar`, `copyStdin` or tar is able to take a step, by cases over
  where the cursors are; and every step makes `Left` smaller, which is a natural
  number. Together they are the argument for `Returns`, for objects of every length; what
  they leave out is that an activity which can go on does (the fairness).

The others:

* `OnlyAccountsInReach`: `Spec => []OwnOrMet`, for any number of workers. `AllMet` says that two
  calls between `CreateFile` and `NewStorageClient` have each other's account in `met`,
  `FileShared` that every block of the file is of an account that each of them owns or has met
  (the truncation removes all others), `ClientShared` the same of the client.
* `SpecStaysUsers` and `CacheIsDelivered` (`CRCopies`): from `Apart`, which says that no
  part is shared with the cache (by `EveryReferenceIsCopied`, a lemma about the generated
  deep copies) and that no copy of the CR holds an answer outside the claim.
* `BackupAsDocumented`, `RestoreAsDocumented`, `BackupRefusedExactly`,
  `RestoreRefusedExactly`: for every spec.

Only model-checked are the liveness properties (`Converges`, `DeletedIsCleaned`,
`EventuallyStored`, `EventuallyRestored`, `Returns`, `Served`), which need fairness and are
out of the prover's reach.

## 7. Plan

Done: the three controllers, the mechanisms below them, their runs and the theorems above.
Left:

1. Two operators at a time (rolling update without leader election). With the caches and the
   worker of `InfluxdbController` twice, one CR and two edits, TLC finds more than 12 million
   states and does not finish, and fewer edits show nothing. What another
   writer can do to the StatefulSets and CRs between two steps is in the module, and
   `OnlyReplicasChange` and `SpecPreserved` rest on the version check alone; objects created by two
   operators side by side are not covered.
2. `BackupRestore`: Backup and Restore composed over one pod and one bucket, with the
   abstract specification "a restore of a backupId yields the state of the database at the
   time of that backup". `ImplementsArchive` and `GivenTheBackup` are its two halves.

## 8. Not modelled

* The values of fields that are passed through (node selector, resources, ports,
  labels, volumes): they are copied from the CR and never looked at again. Only whether
  they share memory is modelled (`CRCopies`).
* Status conditions, pods and their phases: a pod that cannot be reached is one of the
  failures of the exec and copy steps.
* The watches of the Backup and Restore controllers on Pods whose controller is a
  Backup or a Restore: no such pod is ever created.
* Rate limiting: the queue has no time; a request that waits for its back-off is in
  the queue.
* An influxd or tar in the pod that goes on after the operator has crashed: what it writes
  is written at the crash, not while the next call runs.
* Backups of one backupId with different file names: the files of the one that the other does
  not have, its manifest among them, would stay in the directory.
* The contents of a database: a restore makes its databases, and is known by the files that it
  was made from.
* The text of file specs: the controllers build them from a namespace, a pod and a path,
  and `extractFileSpec` takes them apart again. What is left of both is the pair of pod
  and directory (`PodPath`).
* Generated clients, informers and listers, and the deep copies of lists: nothing in the
  operator calls them. The deep copies of plain structs are assignments.
* Registration, flags, the mocks of the tests (`NewMockK8sClient`, `gcs_mock.go`),
  `pkg/api/backup/util.go` and `pkg/util/kube` (not used), manifests.
