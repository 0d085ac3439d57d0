---------------------- MODULE RestoreControllerProofs -----------------------
(* Theorems about RestoreController, for every value of its constants. *)
EXTENDS RestoreController, FiniteSetTheorems, TLAPS

-----------------------------------------------------------------------------
(* The inductive invariant behind GivenTheBackup: in the directory of a      *)
(* running call that has skipped or cut nothing, all files but those that    *)
(* are still on the list are the files of this CR's backup.                  *)

Replaced ==
    /\ pc # "copy" => todo = {}
    /\ pc = "copy" => FromBucket(job.cr)
    /\ pc \in {"copy", "run"} /\ FromBucket(job.cr) /\ ~job.misled =>
          \A f \in podDir[Destination] \cup BackupOf(job.cr) :
             f.part \in todo \/ f \in podDir[Destination] \cap BackupOf(job.cr)

-----------------------------------------------------------------------------
(* Types *)

LEMMA NoJobType == NoJob \in Jobs /\ NoJob.cr = NoRestore
BY DEF NoJob, Jobs

LEMMA Budgets ==
    ASSUME TypeOK, Event \/ Fault \/ Hidden
    PROVE  events' \in Nat /\ faults' \in Nat /\ hidden' \in Nat /\ crashes' \in Nat
BY DEF TypeOK, Event, Fault, Hidden

LEMMA MisledType ==
    ASSUME TypeOK, NEW p, Skip(p)
    PROVE  /\ job' \in Jobs /\ job'.cr = job.cr /\ job'.misled
           /\ todo' \in SUBSET Parts /\ UNCHANGED <<pc, queue>>
BY DEF TypeOK, Skip, Jobs

LEMMA DestinationType ==
    ASSUME TypeOK, Busy
    PROVE  Destination \in Dirs /\ podDir[Destination] \in SUBSET Files
BY RestoreAssumption DEF TypeOK, Destination, Dirs

LEMMA UnpackType ==
    ASSUME TypeOK, Busy, NEW p \in Parts, NEW state \in {"whole", "cut"}, Unpack(p, state)
    PROVE  podDir' \in [Dirs -> SUBSET Files]
<1>1. [part |-> p, from |-> FolderOf[job.cr], state |-> state] \in Files
  BY RestoreAssumption DEF Files, TypeOK
<1>2. QED
  BY <1>1, DestinationType DEF Unpack, TypeOK

\* The three ends of a call.
LEMMA TypeEnds ==
    ASSUME TypeOK, Busy, Done \/ Requeue \/ Die
    PROVE  /\ pc' \in Steps /\ ~Busy' /\ job' \in Jobs /\ job'.cr \notin Restores
           /\ todo' \in SUBSET Parts /\ queue' \in SUBSET Restores
BY RestoreAssumption, NoJobType DEF TypeOK, Done, Requeue, Die, Forget, Busy, Steps

\* The effects of a command in the pod.
LEMMA TypeEffects ==
    ASSUME TypeOK, Busy
    PROVE  /\ CutInPod => podDir' \in [Dirs -> SUBSET Files]
           /\ RestoredOrNot => /\ restored' \in SUBSET [job : Jobs, files : SUBSET Files]
                               /\ databases' \in SUBSET Databases
<1>1. ASSUME CutInPod
      PROVE  podDir' \in [Dirs -> SUBSET Files]
  <2>1. PICK p \in todo : Unpack(p, "cut")
    BY <1>1 DEF CutInPod
  <2>2. QED
    BY <2>1, UnpackType DEF TypeOK
<1>2. ASSUME RestoredOrNot
      PROVE  /\ restored' \in SUBSET [job : Jobs, files : SUBSET Files]
             /\ databases' \in SUBSET Databases
  <2>1. [job |-> job, files |-> podDir[Destination]] \in [job : Jobs, files : SUBSET Files]
    BY DestinationType DEF TypeOK
  <2>2. TargetsOf[job.cr] \subseteq Databases
    BY RestoreAssumption DEF TypeOK
  <2>3. QED
    BY <1>2, <2>1, <2>2 DEF RestoredOrNot, Restored, RestoredInPart, Makes, TypeOK
<1>3. QED
  BY <1>1, <1>2

LEMMA TypeInit == Init => TypeOK
<1> SUFFICES ASSUME Init PROVE TypeOK
  OBVIOUS
<1>1. PVFiles \in SUBSET Files
  BY DEF PVFiles, Files
<1>2. podDir \in [Dirs -> SUBSET Files]
  BY <1>1 DEF Init
<1>3. QED
  BY <1>2, RestoreAssumption, NoJobType DEF Init, TypeOK, Steps, Busy

LEMMA TypeSurroundings ==
    ASSUME TypeOK, \/ Start \/ \E d \in Databases : DropDatabase(d)
                   \/ \E r \in Restores : Create(r) \/ Touch(r) \/ Delete(r)
    PROVE  TypeOK'
<1>1. CASE Start
  BY <1>1 DEF Start, TypeOK, influxd, bounds, Busy, Steps
<1>2. ASSUME NEW r \in Restores, Create(r)
      PROVE  TypeOK'
  <2>1. incs' \in Nat /\ crs' \in [Restores -> Nat]
    BY <1>2 DEF Create, TypeOK
  <2>2. queue' \in SUBSET Restores
    BY <1>2 DEF Create, Notify, TypeOK
  <2>3. QED
    BY <1>2, <2>1, <2>2, Budgets DEF Create, TypeOK, influxd, Busy
<1>3. ASSUME NEW r \in Restores, Touch(r) \/ Delete(r)
      PROVE  TypeOK'
  <2>1. queue' \in SUBSET Restores /\ crs' \in [Restores -> Nat]
    BY <1>3 DEF Touch, Delete, Notify, TypeOK
  <2>2. QED
    BY <1>3, <2>1, Budgets DEF Touch, Delete, TypeOK, influxd, Busy
<1>4. ASSUME NEW d \in Databases, DropDatabase(d)
      PROVE  TypeOK'
  BY <1>4, Budgets DEF DropDatabase, TypeOK, Busy
<1>5. QED
  BY <1>1, <1>2, <1>3, <1>4

LEMMA TypeStep ==
    ASSUME TypeOK, Step \/ \E r \in Restores : Dequeue(r)
    PROVE  TypeOK'
<1>1. ASSUME NEW r \in Restores, Dequeue(r)
      PROVE  TypeOK'
  <2>1. CASE crs[r] # 0
    <3>1. job' = [cr |-> r, inc |-> crs[r], misled |-> FALSE] /\ pc' = "fetch"
      BY <1>1, <2>1 DEF Dequeue
    <3>2. job' \in Jobs /\ job'.cr = r
      BY <3>1 DEF TypeOK, Jobs
    <3>3. QED
      BY <1>1, <3>1, <3>2 DEF Dequeue, TypeOK, influxd, bounds, Busy, Steps
  <2>2. CASE crs[r] = 0
    BY <1>1, <2>2 DEF Dequeue, TypeOK, influxd, bounds, Busy
  <2>3. QED
    BY <2>1, <2>2
<1>2. CASE ListInS3 \/ ListInGCS \/ FetchPV \/ FetchNothing \/ Copied
  <2>1. todo' \in SUBSET Parts
    BY <1>2 DEF ListInS3, ListInGCS, List, FetchPV, FetchNothing, Copied, Page, TypeOK
  <2>2. QED
    BY <1>2, <2>1 DEF ListInS3, ListInGCS, List, FetchPV, FetchNothing, Copied, Goto, TypeOK,
                      influxd, bounds, Busy, Steps
<1>3. CASE CopyFromS3 \/ CopyFromGCS
  <2>1. PICK p \in todo : Unpack(p, "whole") /\ todo' = todo \ {p}
    BY <1>3 DEF CopyFromS3, CopyFromGCS, CopyFile
  <2>2. p \in Parts /\ Busy
    BY <1>3 DEF CopyFromS3, CopyFromGCS, TypeOK, Busy
  <2>3. podDir' \in [Dirs -> SUBSET Files]
    BY <2>1, <2>2, UnpackType
  <2>4. QED
    BY <1>3, <2>1, <2>3 DEF CopyFromS3, CopyFromGCS, CopyFile, Goto, TypeOK, influxd, bounds, Busy, Steps
<1>4. CASE RunRestore \/ RestoreRefused
  <2>1. Busy /\ RestoredOrNot /\ UNCHANGED lost
    BY <1>4 DEF RunRestore, RestoreRefused, RestoredOrNot, Restored, Makes, Busy
  <2>2. QED
    BY <1>4, <2>1, TypeEffects, TypeEnds DEF RunRestore, RestoreRefused, TypeOK, bounds
<1>5. CASE SkipEmpty
  <2>1. PICK p \in todo : Skip(p)
    BY <1>5 DEF SkipEmpty
  <2>2. QED
    BY <1>5, <2>1, MisledType DEF SkipEmpty, Skip, TypeOK, influxd, bounds, Busy
<1>6. QED
  BY <1>1, <1>2, <1>3, <1>4, <1>5 DEF Step

LEMMA TypeFailures ==
    ASSUME TypeOK,
           \/ StepFails \/ RetrieveFails \/ PanicNilSize \/ CopyFails
           \/ AttrsFail \/ CopyDropped \/ RestoreDropped \/ Crash
    PROVE  TypeOK'
<1>1. CASE StepFails \/ RetrieveFails \/ PanicNilSize
  <2>1. Busy /\ RestoredOrNot /\ UNCHANGED lost
    BY <1>1 DEF StepFails, RetrieveFails, PanicNilSize, RestoredOrNot, influxd, Busy
  <2>2. QED
    BY <1>1, <2>1, TypeEffects, TypeEnds, Budgets DEF StepFails, RetrieveFails, PanicNilSize, TypeOK
<1>2. CASE CopyFails
  <2>1. Busy
    BY <1>2 DEF CopyFails, Busy
  <2>2. podDir' \in [Dirs -> SUBSET Files]
    BY <1>2, <2>1, TypeEffects DEF CopyFails, TypeOK
  <2>3. QED
    BY <1>2, <2>1, <2>2, TypeEnds, Budgets DEF CopyFails, TypeOK, influxd
<1>3. CASE AttrsFail
  <2>1. PICK p \in todo : Skip(p)
    BY <1>3 DEF AttrsFail
  <2>2. QED
    BY <1>3, <2>1, Budgets, MisledType DEF AttrsFail, Skip, TypeOK, influxd, Busy
<1>4. CASE CopyDropped
  <2>1. PICK p \in todo : Unpack(p, "cut") /\ Skip(p)
    BY <1>4 DEF CopyDropped
  <2>2. Busy /\ p \in Parts
    BY <1>4 DEF CopyDropped, Busy, TypeOK
  <2>3. podDir' \in [Dirs -> SUBSET Files]
    BY <2>1, <2>2, UnpackType
  <2>4. QED
    BY <1>4, <2>1, <2>3, Budgets, MisledType DEF CopyDropped, Skip, TypeOK, influxd, Busy
<1>5. CASE RestoreDropped
  <2>1. Busy /\ RestoredOrNot
    BY <1>5 DEF RestoreDropped, Busy
  <2>2. lost' \in SUBSET Nat
    BY <1>5 DEF RestoreDropped, TypeOK, Jobs
  <2>3. QED
    BY <1>5, <2>1, <2>2, TypeEffects, TypeEnds, Budgets DEF RestoreDropped, TypeOK
<1>6. CASE Crash
  <2>1. crashes' \in Nat /\ RestoredOrNot
    BY <1>6 DEF Crash, TypeOK
  <2>2. podDir' \in [Dirs -> SUBSET Files]
    BY <1>6, TypeEffects DEF Crash, CutInPod, TypeOK, Busy
  <2>3. /\ restored' \in SUBSET [job : Jobs, files : SUBSET Files]
        /\ databases' \in SUBSET Databases
    BY <2>1, TypeEffects DEF RestoredOrNot, Restored, RestoredInPart, Makes, TypeOK, Busy
  <2>4. QED
    BY <1>6, <2>1, <2>2, <2>3, RestoreAssumption, NoJobType DEF Crash, Die, Forget, TypeOK, Busy, Steps
<1>7. QED
  BY <1>1, <1>2, <1>3, <1>4, <1>5, <1>6

\* Queue, worker, package variable and directories keep their types: in
\* particular the worker has a CR exactly while a call is running.
THEOREM TypeCorrect == Spec => []TypeOK
<1>1. TypeOK /\ [Next]_vars => TypeOK'
  <2> SUFFICES ASSUME TypeOK, [Next]_vars
               PROVE  TypeOK'
    OBVIOUS
  <2>1. CASE UNCHANGED vars
    BY <2>1 DEF TypeOK, vars, influxd, bounds, Busy
  <2>2. QED
    BY <2>1, TypeSurroundings, TypeStep, TypeFailures DEF Next
<1>2. QED
  BY <1>1, TypeInit, PTL DEF Spec

-----------------------------------------------------------------------------
(* Who writes to the pod *)

\* Only tar does, in a round of the copy loop.
LEMMA OnlyUnpackWrites ==
    ASSUME [Next]_vars
    PROVE  \/ UNCHANGED podDir
           \/ pc = "copy" /\ \E p \in todo, state \in {"whole", "cut"} : Unpack(p, state)
BY DEF Next, vars, Start, Create, Touch, Delete, DropDatabase, Dequeue, Step, ListInS3, ListInGCS, List, FetchPV,
       FetchNothing, CopyFromS3, CopyFromGCS, CopyFile, Sent, SkipEmpty, Copied, RunRestore, RestoreRefused, StepFails,
       RetrieveFails, PanicNilSize, CopyFails, CutInPod, AttrsFail, CopyDropped, Skip, RestoreDropped, Crash

\* And only below the directory of the running call.
LEMMA OthersKept ==
    ASSUME TypeOK, [Next]_vars, NEW d \in Dirs, pc = "copy" => d # Destination
    PROVE  podDir'[d] = podDir[d]
BY OnlyUnpackWrites DEF Unpack, TypeOK

\* The backups on the volume are read only.
BackupDirUntouched == [][\A id \in Ids : podDir'[<<"backup", id>>] = podDir[<<"backup", id>>]]_vars

\* Where no Restore uses the volume, the package variable keeps its value and
\* nothing is unpacked into the backup directory.
THEOREM OnlyPVMovesTheDirectory ==
    (\A r \in Restores : Provider[r] # "pv") /\ Spec => BackupDirUntouched
<1> SUFFICES ASSUME \A r \in Restores : Provider[r] # "pv"
             PROVE  Spec => BackupDirUntouched
  OBVIOUS
<1>1. Init => RestoreDir = "restore"
  BY DEF Init
<1>2. TypeOK /\ RestoreDir = "restore" /\ [Next]_vars => (RestoreDir = "restore")'
  <2> SUFFICES ASSUME TypeOK, RestoreDir = "restore", [Next]_vars
               PROVE  RestoreDir' = "restore"
    OBVIOUS
  <2>1. ~FetchPV
    BY DEF FetchPV, TypeOK, Busy
  <2>2. QED
    BY <2>1 DEF Next, vars, Start, Create, Touch, Delete, DropDatabase, Dequeue, Step, ListInS3, ListInGCS, List,
       FetchNothing, CopyFromS3, CopyFromGCS, CopyFile, Sent, SkipEmpty, Copied, RunRestore, RestoreRefused, StepFails,
       RetrieveFails, PanicNilSize, CopyFails, AttrsFail, CopyDropped, Skip, RestoreDropped, Crash
<1>3. TypeOK /\ RestoreDir = "restore" /\ [Next]_vars =>
        [\A id \in Ids : podDir'[<<"backup", id>>] = podDir[<<"backup", id>>]]_vars
  <2> SUFFICES ASSUME TypeOK, RestoreDir = "restore", [Next]_vars, NEW id \in Ids
               PROVE  podDir'[<<"backup", id>>] = podDir[<<"backup", id>>]
    OBVIOUS
  <2>1. <<"backup", id>> \in Dirs /\ <<"backup", id>> # Destination
    BY DEF Dirs, Destination
  <2>2. QED
    BY <2>1, OthersKept
<1>4. QED
  BY <1>1, <1>2, <1>3, TypeCorrect, PTL DEF Spec, BackupDirUntouched

-----------------------------------------------------------------------------
\* A backup with no more files than one answer of ListObjectsV2 has keys is
\* listed completely.
LEMMA OnePage ==
    ASSUME Cardinality(Parts) <= PageSize
    PROVE  Page = Parts
<1> SUFFICES ASSUME NEW p \in Parts
             PROVE  Cardinality({q \in Parts : q < p}) < PageSize
  BY DEF Page
<1>1. IsFiniteSet(Parts) /\ Parts \subseteq Nat /\ PageSize \in Nat
  BY RestoreAssumption
<1>2. IsFiniteSet(Parts \ {p}) /\ Cardinality(Parts \ {p}) = Cardinality(Parts) - 1
  BY <1>1, FS_RemoveElement
<1>3. {q \in Parts : q < p} \subseteq Parts \ {p}
  BY <1>1
<1>4. /\ Cardinality({q \in Parts : q < p}) <= Cardinality(Parts \ {p})
      /\ IsFiniteSet({q \in Parts : q < p})
  BY <1>2, <1>3, FS_Subset
<1>5. Cardinality(Parts) \in Nat /\ Cardinality({q \in Parts : q < p}) \in Nat
  BY <1>1, <1>4, FS_CardinalityType
<1>6. QED
  BY <1>1, <1>2, <1>4, <1>5

\* The listing by S3 names every object.
Listed == (\E r \in Restores : Provider[r] = "s3") => Cardinality(Parts) <= PageSize

Sourced == Replaced /\ OwnUnlessMisled

\* Which files are compared.
LEMMA BackupFiles ==
    ASSUME TypeOK, Busy
    PROVE  \A f \in podDir[Destination] \cup BackupOf(job.cr) : f.part \in Parts
BY DestinationType DEF Files, BackupOf

\* With nothing left on the list the directory is the backup.
LEMMA ReplacedIsGiven == Replaced => GivenTheBackup
BY DEF Replaced, GivenTheBackup

\* A step that runs no restore leaves the finished ones as they are.
LEMMA SourcedKept ==
    ASSUME Sourced, UNCHANGED restored
    PROVE  OwnUnlessMisled'
BY DEF Sourced, OwnUnlessMisled, OwnFiles

\* A restore that influxd carries out, reported or not, is one of this CR's files.
LEMMA SourcedRun ==
    ASSUME TypeOK, Sourced, RestoredOrNot
    PROVE  OwnUnlessMisled'
<1>1. CASE UNCHANGED restored
  BY <1>1, SourcedKept
<1>2. CASE Restored
  <2>1. /\ pc = "run"
        /\ restored' = restored \cup {[job |-> job, files |-> podDir[Destination]]}
    BY <1>2 DEF Restored, Makes
  <2>2. ASSUME FromBucket(job.cr), ~job.misled
        PROVE  \A f \in podDir[Destination] : f.from = FolderOf[job.cr]
    <3>1. podDir[Destination] = BackupOf(job.cr)
      BY <2>1, <2>2, ReplacedIsGiven DEF Sourced, GivenTheBackup
    <3>2. QED
      BY <3>1 DEF BackupOf
  <2>3. QED
    BY <2>1, <2>2 DEF Sourced, OwnUnlessMisled, OwnFiles
<1>3. QED
  BY <1>1, <1>2 DEF RestoredOrNot, RestoredInPart

LEMMA SourcedEnd ==
    ASSUME TypeOK, Sourced, RestoredOrNot, Done \/ Requeue \/ Die
    PROVE  Sourced'
<1>1. OwnUnlessMisled'
  BY SourcedRun
<1>2. Replaced'
  BY DEF Sourced, Replaced, Done, Requeue, Die, Forget
<1>3. QED
  BY <1>1, <1>2 DEF Sourced

\* A call in which a file is left out promises nothing any more.
LEMMA SourcedSkip ==
    ASSUME TypeOK, Sourced, pc = "copy", NEW p, Skip(p)
    PROVE  Sourced'
<1>1. job'.cr = job.cr /\ job'.misled /\ UNCHANGED <<pc, restored>>
  BY MisledType DEF Skip, influxd
<1>2. QED
  BY <1>1, SourcedKept DEF Sourced, Replaced, FromBucket

LEMMA SourcedStep ==
    ASSUME TypeOK, Listed, Sourced, Step
    PROVE  Sourced'
<1>1. Busy
  BY DEF Step, ListInS3, ListInGCS, List, FetchPV, FetchNothing, CopyFromS3, CopyFromGCS,
         CopyFile, SkipEmpty, Copied, RunRestore, Restored, Makes, RestoreRefused, Busy
<1>2. job.cr \in Restores /\ Destination \in Dirs /\ podDir[Destination] \in SUBSET Files
  BY <1>1, DestinationType DEF TypeOK
<1>3. CASE ListInS3 \/ ListInGCS
  <2>1. todo' = Parts /\ FromBucket(job.cr)
    BY <1>2, <1>3, OnePage DEF ListInS3, ListInGCS, List, Listed, FromBucket
  <2>2. UNCHANGED <<job, podDir, RestoreDir, restored>> /\ pc' = "copy"
    BY <1>3 DEF ListInS3, ListInGCS, List, Goto, influxd
  <2>3. Replaced'
    BY <1>1, <2>1, <2>2, BackupFiles DEF Replaced, Sourced, FromBucket, BackupOf, Destination
  <2>4. QED
    BY <2>2, <2>3, SourcedKept DEF Sourced
<1>4. CASE FetchPV \/ FetchNothing
  <2>1. /\ UNCHANGED <<job, todo, restored>>
        /\ pc' = "run" /\ pc = "fetch" /\ ~FromBucket(job.cr)
    BY <1>4 DEF FetchPV, FetchNothing, Goto, FromBucket, influxd
  <2>2. QED
    BY <2>1, SourcedKept DEF Sourced, Replaced, FromBucket
<1>5. CASE CopyFromS3 \/ CopyFromGCS
  <2>1. PICK p \in todo : Unpack(p, "whole") /\ todo' = todo \ {p}
    BY <1>5 DEF CopyFromS3, CopyFromGCS, CopyFile
  <2>2. UNCHANGED <<job, RestoreDir, restored>> /\ pc = "copy" /\ pc' = "copy"
    BY <1>5 DEF CopyFromS3, CopyFromGCS, CopyFile, Goto, influxd
  <2> DEFINE new == [part |-> p, from |-> FolderOf[job.cr], state |-> "whole"]
  <2>3. podDir'[Destination] = {f \in podDir[Destination] : f.part # p} \cup {new}
    BY <1>2, <2>1 DEF Unpack, TypeOK
  <2>4. new \in BackupOf(job.cr) /\ \A f \in BackupOf(job.cr) : f.part = p => f = new
    BY <2>1 DEF BackupOf, TypeOK
  <2>5. /\ FromBucket(job.cr)
        /\ ~job.misled => \A f \in podDir[Destination] \cup BackupOf(job.cr) :
                             f.part \in todo \/ f \in podDir[Destination] \cap BackupOf(job.cr)
    BY <2>2 DEF Sourced, Replaced
  <2>6. ~job.misled => \A f \in podDir'[Destination] \cup BackupOf(job.cr) :
                         f.part \in todo' \/ f \in podDir'[Destination] \cap BackupOf(job.cr)
    <3> SUFFICES ASSUME ~job.misled, NEW f \in podDir'[Destination] \cup BackupOf(job.cr),
                        f.part \notin todo'
                 PROVE  f \in podDir'[Destination] \cap BackupOf(job.cr)
      OBVIOUS
    <3>1. CASE f = new
      BY <3>1, <2>3, <2>4
    <3>2. CASE f # new
      <4>1. f.part # p /\ f \in podDir[Destination] \cup BackupOf(job.cr)
        BY <3>2, <2>3, <2>4
      <4>2. f.part \notin todo
        BY <4>1, <2>1
      <4>3. QED
        BY <4>1, <4>2, <2>3, <2>5
    <3>3. QED
      BY <3>1, <3>2
  <2>7. Destination' = Destination /\ BackupOf(job.cr)' = BackupOf(job.cr)
    BY <2>2 DEF Destination, BackupOf
  <2>8. Replaced'
    BY <2>2, <2>5, <2>6, <2>7 DEF Replaced, FromBucket
  <2>9. QED
    BY <2>2, <2>8, SourcedKept DEF Sourced
<1>6. CASE SkipEmpty
  BY <1>6, SourcedSkip DEF SkipEmpty
<1>7. CASE Copied
  <2>1. UNCHANGED <<job, todo, podDir, RestoreDir, restored>> /\ pc = "copy" /\ pc' = "run" /\ todo = {}
    BY <1>7 DEF Copied, Goto, influxd
  <2>2. Replaced'
    BY <2>1 DEF Sourced, Replaced, FromBucket, BackupOf, Destination
  <2>3. QED
    BY <2>1, <2>2, SourcedKept DEF Sourced
<1>8. CASE RunRestore \/ RestoreRefused
  BY <1>8, SourcedEnd DEF RunRestore, RestoreRefused, RestoredOrNot
<1>9. QED
  BY <1>3, <1>4, <1>5, <1>6, <1>7, <1>8 DEF Step

LEMMA SourcedNext ==
    ASSUME TypeOK, Listed, Sourced, [Next]_vars
    PROVE  Sourced'
<1>1. ASSUME UNCHANGED <<pc, job, todo, RestoreDir, podDir, restored>>
      PROVE  Sourced'
  BY <1>1, SourcedKept DEF Sourced, Replaced, BackupOf, Destination
<1>2. CASE UNCHANGED vars
  BY <1>1, <1>2 DEF vars, influxd
<1>3. CASE \/ \E r \in Restores : Create(r) \/ Touch(r) \/ Delete(r)
           \/ \E d \in Databases : DropDatabase(d)
  BY <1>1, <1>3 DEF Create, Touch, Delete, DropDatabase, influxd
<1>4. CASE Start
  BY <1>4, SourcedKept DEF Start, Sourced, Replaced, influxd
<1>5. ASSUME NEW r \in Restores, Dequeue(r)
      PROVE  Sourced'
  BY <1>5, SourcedKept DEF Dequeue, Sourced, Replaced, influxd
<1>6. CASE StepFails \/ RetrieveFails \/ PanicNilSize \/ CopyFails \/ RestoreDropped \/ Crash
  BY <1>6, SourcedEnd DEF StepFails, RetrieveFails, PanicNilSize, CopyFails, RestoreDropped, Crash,
                          RestoredOrNot, influxd
<1>7. CASE AttrsFail \/ CopyDropped
  BY <1>7, SourcedSkip DEF AttrsFail, CopyDropped
<1>8. QED
  BY <1>2, <1>3, <1>4, <1>5, <1>6, <1>7, SourcedStep DEF Next

LEMMA SourcedAlways == ASSUME Listed PROVE Spec => [](TypeOK /\ Sourced)
<1>1. Init => Sourced
  BY DEF Init, Sourced, Replaced, OwnUnlessMisled
<1>2. TypeOK /\ Sourced /\ [Next]_vars => Sourced'
  BY SourcedNext
<1>3. QED
  BY <1>1, <1>2, TypeCorrect, PTL DEF Spec

\* When influxd is started for a Restore from a bucket, it is given the backup that
\* the CR names and nothing else, although the directories are shared and never
\* emptied, although RestoreDir moves with the first PV Restore, and although
\* attempts fail and processes end between any two files.
THEOREM InfluxdIsGivenTheBackup == Listed /\ Spec => []GivenTheBackup
<1> SUFFICES ASSUME Listed
             PROVE  Spec => []GivenTheBackup
  OBVIOUS
<1>1. Sourced => GivenTheBackup
  BY ReplacedIsGiven DEF Sourced
<1>2. QED
  BY <1>1, SourcedAlways, PTL

\* So what another restore, a failed or misled attempt or a crash has left does
\* not get into the database.
THEOREM LeftoversAreReplaced == Listed /\ Spec => []OwnUnlessMisled
<1> SUFFICES ASSUME Listed
             PROVE  Spec => []OwnUnlessMisled
  OBVIOUS
<1>1. Sourced => OwnUnlessMisled
  BY DEF Sourced
<1>2. QED
  BY <1>1, SourcedAlways, PTL
=============================================================================
