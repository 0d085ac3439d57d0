----------------------- MODULE BackupControllerProofs -----------------------
(* Theorems about BackupController, for every value of its constants. *)
EXTENDS BackupController, TLAPS

-----------------------------------------------------------------------------
(* The inductive invariants.  Numbered: runs are counted, and a reported    *)
(* run is not the one that is going on.  InPlace is behind SameSecondOnly:  *)
(* a file is only ever below the second in which its run started.  OnTheWay *)
(* is behind StoredComplete: at every step of a call whose connections were *)
(* not dropped the next place to copy from is complete.                     *)

Running == pc \in {"exec", "prepare", "copy", "store"}

Numbered ==
    /\ \A s \in Seconds : \A n \in runsIn[s] : n <= runs
    /\ Running => job.run = runs /\ job.run \in runsIn[job.stamp]
    /\ \A j \in reported :
         /\ j.cr \in Backups
         /\ j.run <= runs /\ j.run \in runsIn[j.stamp]
         /\ Running => j.run # job.run

InPlace ==
    /\ \A d \in Pods \X Seconds : \A f \in podDir[d] : f.run \in runsIn[d[2]]
    /\ \A s \in Seconds : \A f \in localDir[s] : f.run \in runsIn[s]
    /\ \A d \in Folders \X Seconds : \A f \in remote[d] : f.run \in runsIn[d[2]]
    /\ pc = "store" => \A f \in todo : f.run \in runsIn[job.stamp]

\* No file of this backup is cut.
Sound(dir, j) == \A f \in dir : f.sec = j.sec => f.state = "whole"

OnTheWay ==
    /\ pc \in {"copy", "store"} => Provider[job.cr] # "pv"
    /\ pc \in {"prepare", "copy"} /\ ~job.dropped =>
         Holds(podDir[PodPath(job)], job) /\ Sound(podDir[PodPath(job)], job)
    /\ pc = "store" /\ ~job.dropped =>
         Holds(todo \cup remote[StorageKey(job)], job) /\ Sound(todo, job)

-----------------------------------------------------------------------------
(* Types *)

LEMMA OverlayType ==
    ASSUME NEW dir \in SUBSET Files, NEW files \in SUBSET Files
    PROVE  Overlay(dir, files) \in SUBSET Files
BY DEF Overlay

LEMMA NoJobType == NoJob \in Jobs /\ NoJob.cr = NoBackup
BY BackupAssumption DEF NoJob, Jobs, Seconds

LEMMA WrittenType ==
    ASSUME TypeOK, NEW parts \in SUBSET Parts, NEW state \in {"whole", "cut"}
    PROVE  Written(parts, state) \in SUBSET Files
BY DEF TypeOK, Written, Files, Jobs

\* What an interrupted run has written are files too, and so is a cut file.
LEMMA CutType ==
    ASSUME NEW f \in Files
    PROVE  [f EXCEPT !.state = "cut"] \in Files /\ [f EXCEPT !.state = "cut"].run = f.run
BY DEF Files

LEMMA Paths ==
    ASSUME TypeOK, NEW j \in Jobs, j.cr \in Backups
    PROVE  /\ PodPath(j) \in Pods \X Seconds
           /\ StorageKey(j) \in Folders \X Seconds
BY BackupAssumption DEF PodPath, StorageKey, Jobs

LEMMA Budgets ==
    ASSUME TypeOK, Event \/ Fault \/ Drop
    PROVE  events' \in Nat /\ faults' \in Nat /\ drops' \in Nat
BY DEF TypeOK, Event, Fault, Drop

LEMMA TypeInit == Init => TypeOK
BY BackupAssumption, NoJobType DEF Init, TypeOK, Seconds, Steps, Busy

LEMMA TypeSurroundings ==
    ASSUME TypeOK, Tick \/ Start \/ \E b \in Backups : Create(b) \/ Touch(b) \/ Delete(b)
    PROVE  TypeOK'
<1>1. CASE Tick
  <2>1. now' \in Seconds
    BY <1>1, BackupAssumption DEF Tick, TypeOK, Seconds
  <2>2. QED
    BY <1>1, <2>1 DEF Tick, TypeOK, disk, bounds, Busy
<1>2. CASE Start
  BY <1>2 DEF Start, TypeOK, bounds, Busy, Steps
<1>3. ASSUME NEW b \in Backups, Create(b)
      PROVE  TypeOK'
  <2>1. incs' \in Nat /\ crs' \in [Backups -> Nat]
    BY <1>3 DEF Create, TypeOK
  <2>2. queue' \in SUBSET Backups
    BY <1>3 DEF Create, Notify, TypeOK
  <2>3. QED
    BY <1>3, <2>1, <2>2, Budgets DEF Create, TypeOK, disk, Busy
<1>4. ASSUME NEW b \in Backups, Touch(b) \/ Delete(b)
      PROVE  TypeOK'
  <2>1. queue' \in SUBSET Backups
    BY <1>4 DEF Touch, Delete, Notify, TypeOK
  <2>2. QED
    BY <1>4, <2>1, Budgets DEF Touch, Delete, TypeOK, disk, Busy
<1>5. QED
  BY <1>1, <1>2, <1>3, <1>4

\* The three ends of a call, and the effects of the copies.
LEMMA TypeEnds ==
    ASSUME TypeOK, Busy, Done \/ Requeue \/ Die
    PROVE  /\ pc' \in Steps /\ ~Busy' /\ job' \in Jobs /\ job'.cr \notin Backups
           /\ todo' \in SUBSET Files /\ queue' \in SUBSET Backups
           /\ Done => reported' \in SUBSET Jobs
BY BackupAssumption, NoJobType DEF TypeOK, Done, Requeue, Die, Forget, Busy, Steps

LEMMA TypeEffects ==
    ASSUME TypeOK, Busy
    PROVE  /\ \A files \in SUBSET Files :
                 WriteInPod(files) => podDir' \in [Pods \X Seconds -> SUBSET Files]
           /\ WriteSomeInPod => podDir' \in [Pods \X Seconds -> SUBSET Files]
           /\ \A files \in SUBSET Files :
                 Untar(files) => localDir' \in [Seconds -> SUBSET Files]
           /\ \A f \in Files : Store(f) => remote' \in [Folders \X Seconds -> SUBSET Files]
           /\ podDir[PodPath(job)] \in SUBSET Files
<1>1. /\ PodPath(job) \in Pods \X Seconds /\ job.stamp \in Seconds
      /\ StorageKey(job) \in Folders \X Seconds
  BY Paths DEF TypeOK, Jobs
<1>2. ASSUME NEW files \in SUBSET Files, WriteInPod(files)
      PROVE  podDir' \in [Pods \X Seconds -> SUBSET Files]
  <2>1. podDir[PodPath(job)] \in SUBSET Files
    BY <1>1 DEF TypeOK
  <2>2. Overlay(podDir[PodPath(job)], files) \in SUBSET Files
    BY <2>1, OverlayType
  <2>3. QED
    BY <1>1, <1>2, <2>2 DEF WriteInPod, TypeOK
<1>3. ASSUME WriteSomeInPod
      PROVE  podDir' \in [Pods \X Seconds -> SUBSET Files]
  <2>1. PICK parts \in SUBSET Parts, last \in SUBSET Parts :
             WriteInPod(Written(parts \ last, "whole") \cup Written(last, "cut"))
    BY <1>3 DEF WriteSomeInPod
  <2>2. /\ Written(parts \ last, "whole") \in SUBSET Files
        /\ Written(last, "cut") \in SUBSET Files
    BY WrittenType
  <2>3. QED
    BY <1>2, <2>1, <2>2
<1>4. ASSUME NEW files \in SUBSET Files, Untar(files)
      PROVE  localDir' \in [Seconds -> SUBSET Files]
  <2>1. localDir[job.stamp] \in SUBSET Files
    BY <1>1 DEF TypeOK
  <2>2. Overlay(localDir[job.stamp], files) \in SUBSET Files
    BY <2>1, OverlayType
  <2>3. QED
    BY <1>1, <1>4, <2>2 DEF Untar, TypeOK
<1>5. ASSUME NEW f \in Files, Store(f)
      PROVE  remote' \in [Folders \X Seconds -> SUBSET Files]
  <2>1. remote[StorageKey(job)] \in SUBSET Files
    BY <1>1 DEF TypeOK
  <2>2. Overlay(remote[StorageKey(job)], {f}) \in SUBSET Files
    BY <2>1, OverlayType
  <2>3. QED
    BY <1>1, <1>5, <2>2 DEF Store, TypeOK
<1>6. podDir[PodPath(job)] \in SUBSET Files
  BY <1>1 DEF TypeOK
<1>7. QED
  BY <1>2, <1>3, <1>4, <1>5, <1>6

LEMMA TypeStep ==
    ASSUME TypeOK, Step \/ \E b \in Backups : Dequeue(b)
    PROVE  TypeOK'
<1>1. ASSUME NEW b \in Backups, Dequeue(b)
      PROVE  TypeOK'
  <2>1. CASE crs[b] # 0
    <3>1. job' = [NoJob EXCEPT !.cr = b, !.inc = crs[b]] /\ pc' = "runBackup"
      BY <1>1, <2>1 DEF Dequeue
    <3>2. job' \in Jobs /\ job'.cr = b
      BY <3>1, NoJobType DEF TypeOK, Jobs
    <3>3. QED
      BY <1>1, <3>1, <3>2 DEF Dequeue, TypeOK, disk, bounds, Busy, Steps
  <2>2. CASE crs[b] = 0
    BY <1>1, <2>2 DEF Dequeue, TypeOK, disk, bounds, Busy
  <2>3. QED
    BY <2>1, <2>2
<1>2. CASE RunBackup
  <2>1. job' = [job EXCEPT !.run = runs + 1, !.stamp = now] /\ runs' = runs + 1
    BY <1>2 DEF RunBackup
  <2>2. runs' \in Nat /\ runsIn' \in [Seconds -> SUBSET Nat]
    BY <1>2, <2>1 DEF RunBackup, TypeOK
  <2>3. job' \in Jobs /\ job'.cr = job.cr
    BY <2>1, <2>2 DEF TypeOK, Jobs
  <2>4. QED
    BY <1>2, <2>2, <2>3 DEF RunBackup, Goto, TypeOK, disk, bounds, Busy, Steps
<1>3. CASE PanicEmptyList \/ ExecRefused \/ NothingToCopy \/ Stored
  <2>1. Busy
    BY <1>3 DEF PanicEmptyList, ExecRefused, NothingToCopy, Stored, Busy
  <2>2. QED
    BY <1>3, <2>1, TypeEnds DEF PanicEmptyList, ExecRefused, NothingToCopy, Stored, TypeOK, disk, bounds
<1>4. CASE Exec
  <2>1. Busy /\ job' = [job EXCEPT !.sec = now]
    BY <1>4 DEF Exec, Busy
  <2>2. podDir' \in [Pods \X Seconds -> SUBSET Files]
    BY <1>4, <2>1, TypeEffects, WrittenType DEF Exec
  <2>3. job' \in Jobs /\ job'.cr = job.cr
    BY <2>1 DEF TypeOK, Jobs
  <2>4. QED
    BY <1>4, <2>1, <2>2, <2>3 DEF Exec, Goto, TypeOK, bounds, Busy, Steps
<1>5. CASE Prepare
  <2>1. Busy
    BY <1>5 DEF Prepare, Busy
  <2>2. CASE Provider[job.cr] = "pv"
    BY <1>5, <2>1, <2>2, TypeEnds DEF Prepare, TypeOK, disk, bounds
  <2>3. CASE Provider[job.cr] # "pv"
    BY <1>5, <2>1, <2>3 DEF Prepare, Goto, TypeOK, disk, bounds, Busy, Steps
  <2>4. QED
    BY <2>2, <2>3
<1>6. CASE CopyFromK8s
  <2>1. Busy /\ job.stamp \in Seconds
    BY <1>6 DEF CopyFromK8s, Busy, TypeOK, Jobs
  <2>2. localDir' \in [Seconds -> SUBSET Files]
    BY <1>6, <2>1, TypeEffects DEF CopyFromK8s
  <2>3. todo' \in SUBSET Files
    BY <1>6, <2>1, <2>2 DEF CopyFromK8s
  <2>4. QED
    BY <1>6, <2>2, <2>3 DEF CopyFromK8s, Goto, TypeOK, bounds, Busy, Steps
<1>7. CASE StoreInS3 \/ CopyToGCS
  <2>1. PICK f \in todo : Store(f) /\ todo' = todo \ {f}
    BY <1>7 DEF StoreInS3, CopyToGCS, Upload
  <2>2. Busy
    BY <1>7 DEF StoreInS3, CopyToGCS, Busy
  <2>3. remote' \in [Folders \X Seconds -> SUBSET Files] /\ todo' \in SUBSET Files
    BY <2>1, <2>2, TypeEffects DEF TypeOK
  <2>4. QED
    BY <1>7, <2>2, <2>3 DEF StoreInS3, CopyToGCS, Upload, Goto, TypeOK, bounds, Busy, Steps
<1>8. QED
  BY <1>1, <1>2, <1>3, <1>4, <1>5, <1>6, <1>7 DEF Step

LEMMA TypeFailures ==
    ASSUME TypeOK,
           \/ ExecFails \/ StepFails \/ CopyFails \/ CutInGCS \/ Crash
           \/ ExecDropped \/ CopyDropped
    PROVE  TypeOK'
<1>1. events' \in Nat /\ faults' \in Nat /\ drops' \in Nat
  BY Budgets DEF ExecFails, StepFails, CopyFails, CutInGCS, Crash, ExecDropped, CopyDropped
<1>2. CASE ExecFails \/ StepFails \/ CopyFails \/ CutInGCS
  <2>1. Busy
    BY <1>2 DEF ExecFails, StepFails, CopyFails, CutInGCS, Busy
  <2>2. podDir' \in [Pods \X Seconds -> SUBSET Files]
    BY <1>2, <2>1, TypeEffects DEF ExecFails, StepFails, CopyFails, CutInGCS, disk, TypeOK
  <2>3. localDir' \in [Seconds -> SUBSET Files]
    <3>1. CASE CopyFails
      <4>1. PICK files \in SUBSET podDir[PodPath(job)], last \in SUBSET podDir[PodPath(job)] :
                 Untar((files \ last) \cup {[f EXCEPT !.state = "cut"] : f \in last})
        BY <3>1 DEF CopyFails
      <4>2. (files \ last) \cup {[f EXCEPT !.state = "cut"] : f \in last} \in SUBSET Files
        BY <2>1, CutType, TypeEffects
      <4>3. QED
        BY <2>1, <4>1, <4>2, TypeEffects
    <3>2. QED
      BY <1>2, <3>1 DEF ExecFails, StepFails, CutInGCS, disk, TypeOK
  <2>4. remote' \in [Folders \X Seconds -> SUBSET Files]
    <3>1. CASE CutInGCS
      <4>1. PICK f \in todo : Store([f EXCEPT !.state = "cut"])
        BY <3>1 DEF CutInGCS
      <4>2. [f EXCEPT !.state = "cut"] \in Files
        BY CutType DEF TypeOK
      <4>3. QED
        BY <2>1, <4>1, <4>2, TypeEffects
    <3>2. QED
      BY <1>2, <3>1 DEF ExecFails, StepFails, CopyFails, disk, TypeOK
  <2>5. QED
    BY <1>1, <1>2, <2>1, <2>2, <2>3, <2>4, TypeEnds
    DEF ExecFails, StepFails, CopyFails, CutInGCS, TypeOK, disk
<1>3. CASE Crash
  <2>1. podDir' \in [Pods \X Seconds -> SUBSET Files]
    BY <1>3, TypeEffects DEF Crash, TypeOK, Busy
  <2>2. QED
    BY <1>1, <1>3, <2>1, BackupAssumption, NoJobType
    DEF Crash, Die, Forget, TypeOK, Busy, Steps
<1>4. CASE ExecDropped
  <2>1. Busy /\ job' = [job EXCEPT !.sec = now, !.dropped = TRUE]
    BY <1>4 DEF ExecDropped, Busy
  <2>2. podDir' \in [Pods \X Seconds -> SUBSET Files]
    BY <1>4, <2>1, TypeEffects DEF ExecDropped
  <2>3. job' \in Jobs /\ job'.cr = job.cr
    BY <2>1 DEF TypeOK, Jobs
  <2>4. QED
    BY <1>1, <1>4, <2>1, <2>2, <2>3 DEF ExecDropped, Goto, TypeOK, Busy, Steps
<1>5. CASE CopyDropped
  <2>1. Busy /\ job.stamp \in Seconds
    BY <1>5 DEF CopyDropped, Busy, TypeOK, Jobs
  <2>2. localDir' \in [Seconds -> SUBSET Files]
    BY <1>5, <2>1, TypeEffects DEF CopyDropped
  <2>3. todo' \in SUBSET Files
    BY <1>5, <2>1, <2>2 DEF CopyDropped
  <2>4. job' \in Jobs /\ job'.cr = job.cr
    BY <1>5 DEF CopyDropped, TypeOK, Jobs
  <2>5. QED
    BY <1>1, <1>5, <2>1, <2>2, <2>3, <2>4 DEF CopyDropped, Goto, TypeOK, Busy, Steps
<1>6. QED
  BY <1>2, <1>3, <1>4, <1>5

\* Clock, queue, worker, directories and bucket keep their types: in
\* particular every directory holds files only, and the worker has a CR
\* exactly while a call is running.
THEOREM TypeCorrect == Spec => []TypeOK
<1>1. TypeOK /\ [Next]_vars => TypeOK'
  <2> SUFFICES ASSUME TypeOK, [Next]_vars
               PROVE  TypeOK'
    OBVIOUS
  <2>1. CASE UNCHANGED vars
    BY <2>1 DEF TypeOK, vars, bounds, Busy
  <2>2. QED
    BY <2>1, TypeSurroundings, TypeStep, TypeFailures DEF Next
<1>2. QED
  BY <1>1, TypeInit, PTL DEF Spec

-----------------------------------------------------------------------------
\* A step that starts no run and reports none, and goes on with the same run.
LEMMA NumberedQuiet ==
    ASSUME Numbered, UNCHANGED <<runs, runsIn, reported>>,
           Running' => Running /\ job'.run = job.run /\ job'.stamp = job.stamp
    PROVE  Numbered'
BY DEF Numbered

LEMMA NumberedDone ==
    ASSUME TypeOK, Numbered, Running, Done, UNCHANGED <<runs, runsIn>>
    PROVE  Numbered'
<1>1. reported' = reported \cup {job} /\ ~Running' /\ job.cr \in Backups /\ job.run <= runs
  BY DEF Done, Running, TypeOK, Busy, Numbered
<1>2. QED
  BY <1>1 DEF Numbered

LEMMA NumberedNext ==
    ASSUME TypeOK, Numbered, [Next]_vars
    PROVE  Numbered'
<1>1. CASE UNCHANGED vars
  BY <1>1, NumberedQuiet DEF vars, Running
<1>2. CASE Tick \/ \E b \in Backups : Create(b) \/ Touch(b) \/ Delete(b)
  BY <1>2, NumberedQuiet DEF Tick, Create, Touch, Delete, Running
<1>3. CASE Start \/ \E b \in Backups : Dequeue(b)
  <2>1. ~Running' /\ UNCHANGED <<runs, runsIn, reported>>
    BY <1>3 DEF Start, Dequeue, Running
  <2>2. QED
    BY <2>1, NumberedQuiet
<1>4. CASE RunBackup
  <2>1. /\ runs' = runs + 1 /\ reported' = reported
        /\ runsIn' = [runsIn EXCEPT ![now] = @ \cup {runs + 1}]
        /\ job' = [job EXCEPT !.run = runs + 1, !.stamp = now]
    BY <1>4 DEF RunBackup
  <2>2. job'.run = runs + 1 /\ job'.stamp = now
    BY <2>1 DEF TypeOK, Jobs
  <2>3. \A s \in Seconds : runsIn'[s] = runsIn[s] \cup IF s = now THEN {runs + 1} ELSE {}
    BY <2>1 DEF TypeOK
  <2>4. \A s \in Seconds : \A n \in runsIn'[s] : n <= runs'
    BY <2>1, <2>3 DEF TypeOK, Numbered
  <2>5. ASSUME NEW j \in reported'
        PROVE  /\ j.cr \in Backups
               /\ j.run <= runs' /\ j.run \in runsIn'[j.stamp]
               /\ j.run # job'.run
    <3>1. /\ j \in reported /\ j.cr \in Backups /\ j.run <= runs /\ j.run \in runsIn[j.stamp]
          /\ j.run \in Nat /\ j.stamp \in Seconds
      BY <2>1 DEF Numbered, TypeOK, Jobs
    <3>2. QED
      BY <2>1, <2>2, <2>3, <3>1 DEF TypeOK
  <2>6. job'.run = runs' /\ job'.run \in runsIn'[job'.stamp]
    BY <2>1, <2>2, <2>3 DEF TypeOK
  <2>7. QED
    BY <2>4, <2>5, <2>6 DEF Numbered
<1>5. CASE Exec \/ ExecDropped \/ CopyDropped
  <2>1. Running /\ UNCHANGED <<runs, runsIn, reported>>
    BY <1>5 DEF Exec, ExecDropped, CopyDropped, Running
  <2>2. job'.run = job.run /\ job'.stamp = job.stamp
    BY <1>5 DEF Exec, ExecDropped, CopyDropped, TypeOK, Jobs
  <2>3. QED
    BY <2>1, <2>2, NumberedQuiet
<1>6. CASE CopyFromK8s \/ StoreInS3 \/ CopyToGCS
  BY <1>6, NumberedQuiet DEF CopyFromK8s, StoreInS3, CopyToGCS, Upload, Running
<1>7. CASE Prepare
  <2>1. CASE Provider[job.cr] = "pv"
    BY <1>7, <2>1, NumberedDone DEF Prepare, Running
  <2>2. CASE Provider[job.cr] # "pv"
    BY <1>7, <2>2, NumberedQuiet DEF Prepare, Running
  <2>3. QED
    BY <2>1, <2>2
<1>8. CASE Stored
  BY <1>8, NumberedDone DEF Stored, Running
<1>9. CASE \/ PanicEmptyList \/ ExecRefused \/ NothingToCopy
           \/ ExecFails \/ StepFails \/ CopyFails \/ CutInGCS \/ Crash
  <2>1. ~Running' /\ UNCHANGED <<runs, runsIn, reported>>
    BY <1>9 DEF PanicEmptyList, ExecRefused, NothingToCopy, ExecFails, StepFails, CopyFails, CutInGCS, Crash,
                Die, Requeue, Running
  <2>2. QED
    BY <2>1, NumberedQuiet
<1>10. QED
  BY <1>1, <1>2, <1>3, <1>4, <1>5, <1>6, <1>7, <1>8, <1>9 DEF Next, Step

\* The runs are numbered, and the second that a call, a reported backup or a
\* retry works for is the one in which its run of influxd was started.
THEOREM RunsAreNumbered == Spec => []Numbered
<1>1. Init => Numbered
  BY DEF Init, Numbered, Running
<1>2. TypeOK /\ Numbered /\ [Next]_vars => Numbered'
  BY NumberedNext
<1>3. QED
  BY <1>1, <1>2, TypeCorrect, PTL DEF Spec

-----------------------------------------------------------------------------
\* What is written over a directory belongs there if both do.
LEMMA OverlayRuns ==
    ASSUME NEW dir, NEW files, NEW second,
           \A f \in dir : f.run \in second, \A f \in files : f.run \in second
    PROVE  \A f \in Overlay(dir, files) : f.run \in second
BY DEF Overlay

\* What influxd and the copies write belongs to the second of the call.
LEMMA WritePlaces ==
    ASSUME TypeOK, Numbered, InPlace, Running, UNCHANGED runsIn
    PROVE  /\ \A parts \in SUBSET Parts, state \in {"whole", "cut"} :
                 \A f \in Written(parts, state) : f.run \in runsIn[job.stamp]
           /\ \A files : WriteInPod(files) /\ (\A f \in files : f.run \in runsIn[job.stamp]) =>
                 \A d \in Pods \X Seconds : \A f \in podDir'[d] : f.run \in runsIn'[d[2]]
           /\ \A files : Untar(files) /\ (\A f \in files : f.run \in runsIn[job.stamp]) =>
                 \A t \in Seconds : \A f \in localDir'[t] : f.run \in runsIn'[t]
           /\ \A g : Store(g) /\ g.run \in runsIn[job.stamp] =>
                 \A d \in Folders \X Seconds : \A f \in remote'[d] : f.run \in runsIn'[d[2]]
           /\ \A f \in podDir[PodPath(job)] : f.run \in runsIn[job.stamp]
<1>1. /\ PodPath(job) \in Pods \X Seconds /\ PodPath(job)[2] = job.stamp
      /\ StorageKey(job) \in Folders \X Seconds /\ StorageKey(job)[2] = job.stamp
      /\ job.stamp \in Seconds
  BY Paths DEF TypeOK, Jobs, PodPath, StorageKey, Running, Busy
<1>2. job.run \in runsIn[job.stamp]
  BY DEF Numbered
<1>3. \A f \in podDir[PodPath(job)] : f.run \in runsIn[job.stamp]
  BY <1>1 DEF InPlace
<1>4. \A f \in remote[StorageKey(job)] : f.run \in runsIn[job.stamp]
  BY <1>1 DEF InPlace
<1>5. ASSUME NEW files, WriteInPod(files), \A f \in files : f.run \in runsIn[job.stamp],
             NEW d \in Pods \X Seconds
      PROVE  \A f \in podDir'[d] : f.run \in runsIn'[d[2]]
  <2>1. CASE d = PodPath(job)
    <3>1. podDir'[d] = Overlay(podDir[PodPath(job)], files)
      BY <1>1, <1>5, <2>1 DEF WriteInPod, TypeOK
    <3>2. \A f \in Overlay(podDir[PodPath(job)], files) : f.run \in runsIn[job.stamp]
      BY <1>3, <1>5, OverlayRuns
    <3>3. QED
      BY <1>1, <2>1, <3>1, <3>2
  <2>2. CASE d # PodPath(job)
    BY <1>5, <2>2 DEF WriteInPod, TypeOK, InPlace
  <2>3. QED
    BY <2>1, <2>2
<1>6. ASSUME NEW files, Untar(files), \A f \in files : f.run \in runsIn[job.stamp],
             NEW t \in Seconds
      PROVE  \A f \in localDir'[t] : f.run \in runsIn'[t]
  <2>1. CASE t = job.stamp
    <3>1. localDir'[t] = Overlay(localDir[t], files)
      BY <1>1, <1>6, <2>1 DEF Untar, TypeOK
    <3>2. \A f \in Overlay(localDir[t], files) : f.run \in runsIn[t]
      BY <1>6, <2>1, OverlayRuns DEF InPlace
    <3>3. QED
      BY <3>1, <3>2
  <2>2. CASE t # job.stamp
    BY <1>6, <2>2 DEF Untar, TypeOK, InPlace
  <2>3. QED
    BY <2>1, <2>2
<1>7. ASSUME NEW g, Store(g), g.run \in runsIn[job.stamp], NEW d \in Folders \X Seconds
      PROVE  \A f \in remote'[d] : f.run \in runsIn'[d[2]]
  <2>1. CASE d = StorageKey(job)
    <3>1. remote'[d] = Overlay(remote[StorageKey(job)], {g})
      BY <1>1, <1>7, <2>1 DEF Store, TypeOK
    <3>2. \A f \in Overlay(remote[StorageKey(job)], {g}) : f.run \in runsIn[job.stamp]
      BY <1>4, <1>7, OverlayRuns
    <3>3. QED
      BY <1>1, <2>1, <3>1, <3>2
  <2>2. CASE d # StorageKey(job)
    BY <1>7, <2>2 DEF Store, TypeOK, InPlace
  <2>3. QED
    BY <2>1, <2>2
<1>8. \A parts \in SUBSET Parts, state \in {"whole", "cut"} :
         \A f \in Written(parts, state) : f.run \in runsIn[job.stamp]
  BY <1>2 DEF Written
<1>9. QED
  BY <1>3, <1>5, <1>6, <1>7, <1>8

LEMMA SomeInPlace ==
    ASSUME TypeOK, Numbered, InPlace, Running, UNCHANGED runsIn, WriteSomeInPod
    PROVE  \A d \in Pods \X Seconds : \A f \in podDir'[d] : f.run \in runsIn'[d[2]]
<1>1. PICK parts \in SUBSET Parts, last \in SUBSET Parts :
           WriteInPod(Written(parts \ last, "whole") \cup Written(last, "cut"))
  BY DEF WriteSomeInPod
<1>2. \A f \in Written(parts \ last, "whole") \cup Written(last, "cut") :
          f.run \in runsIn[job.stamp]
  BY WritePlaces
<1>3. QED
  BY <1>1, <1>2, WritePlaces

LEMMA InPlaceNext ==
    ASSUME TypeOK, Numbered, InPlace, [Next]_vars
    PROVE  InPlace'
<1>1. ASSUME UNCHANGED <<podDir, localDir, remote, runsIn>>,
             pc' = "store" => pc = "store" /\ job' = job /\ todo' \subseteq todo
      PROVE  InPlace'
  BY <1>1 DEF InPlace
<1>2. CASE UNCHANGED vars
  BY <1>1, <1>2 DEF vars
<1>3. CASE Tick \/ \E b \in Backups : Create(b) \/ Touch(b) \/ Delete(b)
  BY <1>1, <1>3 DEF Tick, Create, Touch, Delete, disk
<1>4. CASE Start
  BY <1>4 DEF Start, InPlace
<1>5. CASE \E b \in Backups : Dequeue(b)
  BY <1>1, <1>5 DEF Dequeue, disk
<1>6. CASE PanicEmptyList \/ ExecRefused \/ NothingToCopy \/ StepFails \/ Stored
  BY <1>1, <1>6 DEF PanicEmptyList, ExecRefused, NothingToCopy, StepFails, Stored, Done, Requeue, Die, disk
<1>7. CASE Prepare
  BY <1>1, <1>7 DEF Prepare, Goto, Done, disk
<1>8. CASE RunBackup
  <2>1. /\ runsIn' = [runsIn EXCEPT ![now] = @ \cup {runs + 1}] /\ pc' = "exec"
        /\ UNCHANGED <<podDir, localDir, remote>>
    BY <1>8 DEF RunBackup, Goto, disk
  <2>2. \A s \in Seconds : runsIn[s] \subseteq runsIn'[s]
    BY <2>1 DEF TypeOK
  <2>3. \A d \in Pods \X Seconds : d[2] \in Seconds
    OBVIOUS
  <2>4. \A d \in Folders \X Seconds : d[2] \in Seconds
    OBVIOUS
  <2>5. QED
    BY <2>1, <2>2, <2>3, <2>4 DEF InPlace
<1>9. CASE Exec
  <2>1. /\ Running /\ WriteInPod(Written(Parts, "whole")) /\ pc' # "store"
        /\ UNCHANGED <<localDir, remote, runsIn>>
    BY <1>9 DEF Exec, Running, Goto
  <2>2. \A f \in Written(Parts, "whole") : f.run \in runsIn[job.stamp]
    BY <2>1, WritePlaces
  <2>3. \A d \in Pods \X Seconds : \A f \in podDir'[d] : f.run \in runsIn'[d[2]]
    BY <2>1, <2>2, WritePlaces
  <2>4. QED
    BY <2>1, <2>3 DEF InPlace
<1>10. CASE ExecFails \/ ExecDropped
  <2>1. Running /\ WriteSomeInPod /\ pc' # "store" /\ UNCHANGED <<localDir, remote, runsIn>>
    BY <1>10 DEF ExecFails, ExecDropped, Running, Goto, Requeue
  <2>2. QED
    BY <2>1, SomeInPlace DEF InPlace
<1>11. CASE Crash
  <2>1. pc' # "store" /\ UNCHANGED <<localDir, remote, runsIn>>
    BY <1>11 DEF Crash, Die
  <2>2. CASE pc = "exec"
    BY <1>11, <2>1, <2>2, SomeInPlace DEF Crash, InPlace, Running
  <2>3. CASE pc # "exec"
    BY <1>11, <2>1, <2>3 DEF Crash, InPlace
  <2>4. QED
    BY <2>2, <2>3
<1>12. CASE CopyFromK8s \/ CopyDropped
  <2>1. PICK files \in SUBSET podDir[PodPath(job)] : Untar(files)
    BY <1>12 DEF CopyFromK8s, CopyDropped
  <2>2. /\ Running /\ todo' = localDir'[job.stamp] /\ job.stamp \in Seconds
        /\ job'.stamp = job.stamp /\ UNCHANGED <<podDir, remote, runsIn>>
    BY <1>12 DEF CopyFromK8s, CopyDropped, Running, TypeOK, Jobs
  <2>3. \A f \in files : f.run \in runsIn[job.stamp]
    BY <2>2, WritePlaces
  <2>4. \A t \in Seconds : \A f \in localDir'[t] : f.run \in runsIn'[t]
    BY <2>1, <2>2, <2>3, WritePlaces
  <2>5. QED
    BY <2>2, <2>4 DEF InPlace
<1>13. CASE CopyFails
  <2>1. PICK files \in SUBSET podDir[PodPath(job)], last \in SUBSET podDir[PodPath(job)] :
             Untar((files \ last) \cup {[f EXCEPT !.state = "cut"] : f \in last})
    BY <1>13 DEF CopyFails
  <2>2. Running /\ Busy /\ pc' # "store" /\ UNCHANGED <<podDir, remote, runsIn>>
    BY <1>13 DEF CopyFails, Running, Busy, Requeue
  <2>3. \A f \in (files \ last) \cup {[g EXCEPT !.state = "cut"] : g \in last} :
            f.run \in runsIn[job.stamp]
    BY <2>2, CutType, TypeEffects, WritePlaces
  <2>4. \A t \in Seconds : \A f \in localDir'[t] : f.run \in runsIn'[t]
    BY <2>1, <2>2, <2>3, WritePlaces
  <2>5. QED
    BY <2>2, <2>4 DEF InPlace
<1>14. CASE StoreInS3 \/ CopyToGCS
  <2>1. PICK f \in todo : Store(f) /\ todo' = todo \ {f}
    BY <1>14 DEF StoreInS3, CopyToGCS, Upload
  <2>2. Running /\ pc = "store" /\ UNCHANGED <<podDir, localDir, runsIn, job>>
    BY <1>14 DEF StoreInS3, CopyToGCS, Upload, Running
  <2>3. f.run \in runsIn[job.stamp]
    BY <2>2 DEF InPlace
  <2>4. \A d \in Folders \X Seconds : \A g \in remote'[d] : g.run \in runsIn'[d[2]]
    BY <2>1, <2>2, <2>3, WritePlaces
  <2>5. QED
    BY <2>1, <2>2, <2>4 DEF InPlace
<1>15. CASE CutInGCS
  <2>1. PICK f \in todo : Store([f EXCEPT !.state = "cut"])
    BY <1>15 DEF CutInGCS
  <2>2. Running /\ pc = "store" /\ pc' # "store" /\ UNCHANGED <<podDir, localDir, runsIn>>
    BY <1>15 DEF CutInGCS, Running, Requeue
  <2>3. [f EXCEPT !.state = "cut"].run \in runsIn[job.stamp]
    BY <2>2, CutType DEF InPlace, TypeOK
  <2>4. \A d \in Folders \X Seconds : \A g \in remote'[d] : g.run \in runsIn'[d[2]]
    BY <2>1, <2>2, <2>3, WritePlaces
  <2>5. QED
    BY <2>2, <2>4 DEF InPlace
<1>16. QED
  BY <1>2, <1>3, <1>4, <1>5, <1>6, <1>7, <1>8, <1>9, <1>10, <1>11, <1>12, <1>13, <1>14, <1>15
  DEF Next, Step

\* However many connections are dropped and attempts fail, the directory of a
\* reported backup holds files of the runs of its second only.
THEOREM NoForeignFile == Spec => []SameSecondOnly
<1>1. Init => InPlace
  BY DEF Init, InPlace
<1>2. TypeOK /\ Numbered /\ InPlace /\ [Next]_vars => InPlace'
  BY InPlaceNext
<1>3. TypeOK /\ Numbered /\ InPlace => SameSecondOnly
  <2> SUFFICES ASSUME TypeOK, Numbered, InPlace, NEW j \in reported, NEW f \in Kept(j)
               PROVE  f.run \in runsIn[j.stamp]
    BY DEF SameSecondOnly
  <2>1. j \in Jobs /\ j.cr \in Backups
    BY DEF TypeOK, Numbered
  <2>2. /\ PodPath(j) \in Pods \X Seconds /\ PodPath(j)[2] = j.stamp
        /\ StorageKey(j) \in Folders \X Seconds /\ StorageKey(j)[2] = j.stamp
    BY <2>1, Paths DEF PodPath, StorageKey
  <2>3. QED
    BY <2>2 DEF InPlace, Kept
<1>4. QED
  BY <1>1, <1>2, <1>3, TypeCorrect, RunsAreNumbered, PTL DEF Spec

-----------------------------------------------------------------------------
(* What a step can do to a backup that has been reported *)

\* Only influxd writes to the pod and only an upload to the bucket, below the
\* second of the call.
LEMMA WhoWrites ==
    ASSUME TypeOK, [Next]_vars
    PROVE  /\ pc = "exec" \/ UNCHANGED podDir
           /\ pc = "store" \/ UNCHANGED remote
           /\ \A d \in Pods \X Seconds : d # PodPath(job) => podDir'[d] = podDir[d]
           /\ \A d \in Folders \X Seconds : d # StorageKey(job) => remote'[d] = remote[d]
<1>1. UNCHANGED podDir \/ (pc = "exec" /\ \E files : WriteInPod(files))
  BY DEF Next, vars, Tick, Start, Create, Touch, Delete, Dequeue, Step, RunBackup, PanicEmptyList,
         Exec, ExecRefused, Prepare, CopyFromK8s, NothingToCopy, StoreInS3, CopyToGCS, Upload, Stored,
         ExecFails, StepFails, CopyFails, CutInGCS, Crash, ExecDropped, CopyDropped, WriteSomeInPod, disk
<1>2. UNCHANGED remote \/ (pc = "store" /\ \E f : Store(f))
  BY DEF Next, vars, Tick, Start, Create, Touch, Delete, Dequeue, Step, RunBackup, PanicEmptyList,
         Exec, ExecRefused, Prepare, CopyFromK8s, NothingToCopy, StoreInS3, CopyToGCS, Upload, Stored,
         ExecFails, StepFails, CopyFails, CutInGCS, Crash, ExecDropped, CopyDropped, disk
<1>3. QED
  BY <1>1, <1>2 DEF WriteInPod, Store, TypeOK

\* Runs are started by RunBackup and reported by Done.
LEMMA WhoReports ==
    ASSUME [Next]_vars
    PROVE  /\ UNCHANGED runsIn \/ RunBackup
           /\ \/ UNCHANGED reported
              \/ /\ Done /\ UNCHANGED <<runsIn, podDir, remote>>
                 /\ \/ pc = "prepare" /\ Provider[job.cr] = "pv"
                    \/ pc = "store" /\ todo = {}
BY DEF Next, vars, Tick, Start, Create, Touch, Delete, Dequeue, Step, RunBackup, PanicEmptyList,
       Exec, ExecRefused, Prepare, CopyFromK8s, NothingToCopy, StoreInS3, CopyToGCS, Upload, Stored,
       ExecFails, StepFails, CopyFails, CutInGCS, Crash, ExecDropped, CopyDropped, disk

\* A new run takes the solitude of those that were reported for this second.
LEMMA AloneAfter ==
    ASSUME TypeOK, Numbered, [Next]_vars, NEW j \in reported
    PROVE  Alone(j)' <=> Alone(j) /\ (RunBackup => j.stamp # now)
<1>1. j.stamp \in Seconds /\ j.run \in Nat /\ j.run <= runs /\ now \in Seconds /\ runs \in Nat
  BY DEF TypeOK, Jobs, Numbered
<1>2. CASE UNCHANGED runsIn /\ ~RunBackup
  BY <1>2 DEF Alone
<1>3. CASE RunBackup
  <2>1. runsIn' = [runsIn EXCEPT ![now] = @ \cup {runs + 1}] /\ runsIn \in [Seconds -> SUBSET Nat]
    BY <1>3 DEF RunBackup, TypeOK
  <2>2. CASE j.stamp = now
    <3>1. runs + 1 \in runsIn'[j.stamp] /\ runs + 1 # j.run
      BY <1>1, <2>1, <2>2
    <3>2. QED
      BY <1>3, <2>2, <3>1 DEF Alone
  <2>3. CASE j.stamp # now
    BY <1>1, <1>3, <2>1, <2>3 DEF Alone
  <2>4. QED
    BY <2>2, <2>3
<1>4. QED
  BY <1>2, <1>3, WhoReports

\* A call works below its own second, which is not the second of a reported
\* backup that is alone in its second: that backup is left as it is.
LEMMA KeptSame ==
    ASSUME TypeOK, Numbered, [Next]_vars, NEW j \in reported, Alone(j)
    PROVE  Kept(j)' = Kept(j)
<1>1. j \in Jobs /\ j.cr \in Backups
  BY DEF TypeOK, Numbered
<1>2. PodPath(j) \in Pods \X Seconds /\ StorageKey(j) \in Folders \X Seconds
  BY <1>1, Paths
<1>3. CASE pc \in {"exec", "store"}
  <2>1. j.run # job.run /\ job.run \in runsIn[job.stamp]
    BY <1>3 DEF Numbered, Running
  <2>2. j.stamp # job.stamp
    BY <2>1 DEF Alone
  <2>3. PodPath(j) # PodPath(job) /\ StorageKey(j) # StorageKey(job)
    BY <2>2 DEF PodPath, StorageKey
  <2>4. QED
    BY <1>2, <2>3, WhoWrites DEF Kept
<1>4. CASE pc \notin {"exec", "store"}
  BY <1>4, WhoWrites DEF Kept
<1>5. QED
  BY <1>3, <1>4

-----------------------------------------------------------------------------
(* A reported backup is complete *)

\* A complete set of files written over a directory is there, and whole.
LEMMA OverlayHolds ==
    ASSUME NEW dir \in SUBSET Files, NEW files \in SUBSET Files, NEW j,
           Holds(files, j), Sound(files, j)
    PROVE  Holds(Overlay(dir, files), j) /\ Sound(Overlay(dir, files), j)
<1>1. Holds(Overlay(dir, files), j)
  BY DEF Overlay, Holds
<1>2. ASSUME NEW f \in Overlay(dir, files), f.sec = j.sec
      PROVE  f.state = "whole"
  <2>1. CASE f \in files
    BY <1>2, <2>1 DEF Sound
  <2>2. CASE f \in dir /\ \A g \in files : ~SameName(f, g)
    <3>1. f.part \in Parts
      BY <2>2 DEF Files
    <3>2. PICK g \in files : g.sec = j.sec /\ g.part = f.part
      BY <3>1 DEF Holds
    <3>3. QED
      BY <1>2, <2>2, <3>2 DEF SameName
  <2>3. QED
    BY <2>1, <2>2 DEF Overlay
<1>3. QED
  BY <1>1, <1>2 DEF Sound

LEMMA OnTheWayExec ==
    ASSUME TypeOK, Exec
    PROVE  OnTheWay'
<1>1. job.cr \in Backups /\ job \in Jobs
  BY DEF TypeOK, Exec, Busy
<1>2. PodPath(job) \in Pods \X Seconds
  BY <1>1, Paths
<1>3. job' = [job EXCEPT !.sec = now] /\ pc' = "prepare"
  BY DEF Exec, Goto
<1>4. PodPath(job') = PodPath(job) /\ job'.sec = now
  BY <1>1, <1>3 DEF PodPath, Jobs
<1>5. Holds(Written(Parts, "whole"), job')
  <2>1. ASSUME NEW p \in Parts
        PROVE  \E f \in Written(Parts, "whole") :
                   f.sec = job'.sec /\ f.part = p /\ f.state = "whole"
    <3>1. [sec |-> now, part |-> p, run |-> job.run, state |-> "whole"]
             \in Written(Parts, "whole")
      BY DEF Written
    <3>2. QED
      BY <1>4, <3>1
  <2>2. QED
    BY <2>1 DEF Holds
<1>6. Sound(Written(Parts, "whole"), job')
  BY DEF Sound, Written
<1>7. podDir[PodPath(job)] \in SUBSET Files /\ Written(Parts, "whole") \in SUBSET Files
  BY <1>2, WrittenType DEF TypeOK
<1>8. podDir'[PodPath(job)] = Overlay(podDir[PodPath(job)], Written(Parts, "whole"))
  BY <1>2 DEF Exec, WriteInPod, TypeOK
<1>9. Holds(podDir'[PodPath(job')], job') /\ Sound(podDir'[PodPath(job')], job')
  BY <1>4, <1>5, <1>6, <1>7, <1>8, OverlayHolds
<1>10. QED
  BY <1>3, <1>9 DEF OnTheWay, Holds, Sound, PodPath

LEMMA OnTheWayCopy ==
    ASSUME TypeOK, OnTheWay, CopyFromK8s
    PROVE  OnTheWay'
<1>1. /\ job \in Jobs /\ job.cr \in Backups /\ job.stamp \in Seconds
      /\ pc = "copy" /\ pc' = "store" /\ UNCHANGED <<job, remote>>
  BY DEF TypeOK, CopyFromK8s, Busy, Jobs, Goto
<1>2. PodPath(job) \in Pods \X Seconds
  BY <1>1, Paths
<1>3. todo' = Overlay(localDir[job.stamp], podDir[PodPath(job)])
  BY <1>1 DEF CopyFromK8s, Untar, TypeOK
<1>4. localDir[job.stamp] \in SUBSET Files /\ podDir[PodPath(job)] \in SUBSET Files
  BY <1>1, <1>2 DEF TypeOK
<1>5. ASSUME ~job.dropped
      PROVE  Holds(todo', job) /\ Sound(todo', job)
  <2>1. Holds(podDir[PodPath(job)], job) /\ Sound(podDir[PodPath(job)], job)
    BY <1>1, <1>5 DEF OnTheWay
  <2>2. QED
    BY <1>3, <1>4, <2>1, OverlayHolds
<1>6. Provider[job.cr] # "pv"
  BY <1>1 DEF OnTheWay
<1>7. QED
  BY <1>1, <1>5, <1>6 DEF OnTheWay, Holds, Sound

LEMMA OnTheWayUpload ==
    ASSUME TypeOK, OnTheWay, StoreInS3 \/ CopyToGCS
    PROVE  OnTheWay'
<1>1. /\ job \in Jobs /\ job.cr \in Backups
      /\ pc = "store" /\ pc' = "store" /\ UNCHANGED job
  BY DEF TypeOK, StoreInS3, CopyToGCS, Upload, Busy, Goto
<1>2. StorageKey(job) \in Folders \X Seconds
  BY <1>1, Paths
<1>3. PICK f \in todo : Store(f) /\ todo' = todo \ {f}
  BY DEF StoreInS3, CopyToGCS, Upload
<1>4. remote'[StorageKey(job)] = Overlay(remote[StorageKey(job)], {f})
  BY <1>2, <1>3 DEF Store, TypeOK
<1>5. ASSUME ~job.dropped
      PROVE  Holds(todo' \cup remote'[StorageKey(job)], job) /\ Sound(todo', job)
  <2>1. Holds(todo \cup remote[StorageKey(job)], job) /\ Sound(todo, job)
    BY <1>1, <1>5 DEF OnTheWay
  <2>2. ASSUME NEW p \in Parts
        PROVE  \E g \in todo' \cup remote'[StorageKey(job)] :
                   g.sec = job.sec /\ g.part = p /\ g.state = "whole"
    <3>1. PICK g \in todo \cup remote[StorageKey(job)] :
               g.sec = job.sec /\ g.part = p /\ g.state = "whole"
      BY <2>1 DEF Holds
    <3>2. CASE SameName(g, f)
      <4>1. f.sec = job.sec /\ f.part = p /\ f.state = "whole"
        BY <1>3, <2>1, <3>1, <3>2 DEF SameName, Sound
      <4>2. f \in remote'[StorageKey(job)]
        BY <1>4 DEF Overlay
      <4>3. QED
        BY <4>1, <4>2
    <3>3. CASE ~SameName(g, f)
      <4>1. g # f
        BY <3>3 DEF SameName
      <4>2. g \in todo' \cup remote'[StorageKey(job)]
        BY <1>3, <1>4, <3>1, <3>3, <4>1 DEF Overlay
      <4>3. QED
        BY <3>1, <4>2
    <3>4. QED
      BY <3>2, <3>3
  <2>3. Sound(todo', job)
    BY <1>3, <2>1 DEF Sound
  <2>4. QED
    BY <2>2, <2>3 DEF Holds
<1>6. Provider[job.cr] # "pv"
  BY <1>1 DEF OnTheWay
<1>7. QED
  BY <1>1, <1>5, <1>6 DEF OnTheWay, Holds, Sound, StorageKey

LEMMA OnTheWayNext ==
    ASSUME TypeOK, OnTheWay, [Next]_vars
    PROVE  OnTheWay'
<1>1. ASSUME UNCHANGED <<pc, job, todo, podDir, remote>>
      PROVE  OnTheWay'
  BY <1>1 DEF OnTheWay, Holds, Sound
<1>2. CASE UNCHANGED vars
  BY <1>1, <1>2 DEF vars
<1>3. CASE Tick \/ \E b \in Backups : Create(b) \/ Touch(b) \/ Delete(b)
  BY <1>1, <1>3 DEF Tick, Create, Touch, Delete, disk
<1>4. ASSUME pc' \in {"idle", "down", "runBackup", "exec"}
      PROVE  OnTheWay'
  BY <1>4 DEF OnTheWay
<1>5. CASE \/ Start \/ PanicEmptyList \/ ExecRefused \/ NothingToCopy \/ Stored \/ RunBackup
           \/ ExecFails \/ StepFails \/ CopyFails \/ CutInGCS \/ Crash \/ \E b \in Backups : Dequeue(b)
  BY <1>4, <1>5 DEF Start, PanicEmptyList, ExecRefused, NothingToCopy, Stored, RunBackup, ExecFails,
     StepFails, CopyFails, CutInGCS, Crash, Dequeue, Done, Requeue, Die, Goto
<1>6. CASE Prepare
  <2>1. CASE Provider[job.cr] = "pv"
    BY <1>4, <1>6, <2>1 DEF Prepare, Done
  <2>2. CASE Provider[job.cr] # "pv"
    BY <1>6, <2>2 DEF Prepare, Goto, OnTheWay, Holds, Sound, disk
  <2>3. QED
    BY <2>1, <2>2
<1>7. CASE ExecDropped
  <2>1. job'.dropped /\ pc' = "prepare"
    BY <1>7 DEF ExecDropped, Goto, TypeOK, Jobs
  <2>2. QED
    BY <2>1 DEF OnTheWay
<1>8. CASE CopyDropped
  <2>1. job'.dropped /\ job'.cr = job.cr /\ pc = "copy" /\ pc' = "store"
    BY <1>8 DEF CopyDropped, Goto, TypeOK, Jobs
  <2>2. QED
    BY <2>1 DEF OnTheWay
<1>9. QED
  BY <1>2, <1>3, <1>5, <1>6, <1>7, <1>8, OnTheWayExec, OnTheWayCopy, OnTheWayUpload DEF Next, Step

\* Where the next place to copy from was complete at every step, the last is.
LEMMA ReportedHolds ==
    ASSUME TypeOK, OnTheWay, [Next]_vars, reported' # reported, ~job.dropped
    PROVE  Holds(Kept(job), job)
<1>1. CASE pc = "prepare" /\ Provider[job.cr] = "pv"
  BY <1>1 DEF OnTheWay, Kept
<1>2. CASE pc = "store" /\ todo = {}
  BY <1>2 DEF OnTheWay, Kept, Holds
<1>3. QED
  BY <1>1, <1>2, WhoReports

LEMMA OnTheWayAlways == Spec => [](TypeOK /\ Numbered /\ OnTheWay)
<1>1. Init => OnTheWay
  BY DEF Init, OnTheWay
<1>2. TypeOK /\ OnTheWay /\ [Next]_vars => OnTheWay'
  BY OnTheWayNext
<1>3. QED
  BY <1>1, <1>2, TypeCorrect, RunsAreNumbered, PTL DEF Spec

\* A backup that was reported for a run alone in its second, whose connections
\* were not dropped, is complete and stays so, for every number of CRs, pods,
\* files, faults, truncated uploads, restarts, and drops in other runs.
THEOREM ReportedIsComplete == Spec => []StoredComplete
<1>1. Init => StoredComplete
  BY DEF Init, StoredComplete
<1>2. TypeOK /\ Numbered /\ OnTheWay /\ StoredComplete /\ [Next]_vars => StoredComplete'
  <2> SUFFICES ASSUME TypeOK, Numbered, OnTheWay, StoredComplete, [Next]_vars,
                      NEW j \in reported', Alone(j)', ~j.dropped
               PROVE  Holds(Kept(j)', j)
    BY DEF StoredComplete, Holds
  <2>1. CASE j \in reported
    BY <2>1, AloneAfter, KeptSame DEF StoredComplete
  <2>2. CASE j \notin reported
    <3>1. j = job /\ UNCHANGED <<podDir, remote>>
      BY <2>2, WhoReports DEF Done
    <3>2. QED
      BY <2>2, <3>1, ReportedHolds DEF Kept
  <2>3. QED
    BY <2>1, <2>2
<1>3. QED
  BY <1>1, <1>2, OnTheWayAlways, PTL DEF Spec

-----------------------------------------------------------------------------
(* The archive *)

Archived == {Entry(j) : j \in {i \in reported : Alone(i)}}

\* An entry does not change as long as its run is alone in its second.
LEMMA EntrySame ==
    ASSUME TypeOK, Numbered, [Next]_vars, NEW j \in reported, Alone(j)
    PROVE  Entry(j)' = Entry(j)
BY KeptSame DEF Entry, Holds

\* A run that starts: the entries of its second are given up.
LEMMA ArchiveRun ==
    ASSUME TypeOK, Numbered, RunBackup
    PROVE  Archived' = {a \in Archived : a.second # now}
<1>1. [Next]_vars /\ UNCHANGED reported
  BY DEF Next, Step, RunBackup
<1>2. \A j \in reported : Alone(j)' <=> Alone(j) /\ j.stamp # now
  BY <1>1, AloneAfter
<1>3. \A j \in reported : Alone(j) => Entry(j)' = Entry(j)
  BY <1>1, EntrySame
<1>4. \A j \in reported : Entry(j).second = j.stamp
  BY DEF Entry
<1>5. QED
  BY <1>1, <1>2, <1>3, <1>4 DEF Archived

\* A step that starts no run and reports none.
LEMMA ArchiveQuiet ==
    ASSUME TypeOK, Numbered, [Next]_vars, ~RunBackup, UNCHANGED reported
    PROVE  Archived' = Archived
<1>1. \A j \in reported : Alone(j)' <=> Alone(j)
  BY AloneAfter
<1>2. \A j \in reported : Alone(j) => Entry(j)' = Entry(j)
  BY EntrySame
<1>3. QED
  BY <1>1, <1>2 DEF Archived

\* A report: the entry is complete, and there is none of that second.
LEMMA ArchiveReport ==
    ASSUME TypeOK, Numbered, OnTheWay, [Next]_vars, reported' # reported, Alone(job)
    PROVE  /\ Archived' = Archived \cup {Entry(job)}
           /\ Entry(job).whole \/ Entry(job).dropped
           /\ \A a \in Archived : a.second # Entry(job).second
<1>1. Done /\ Running /\ UNCHANGED <<runsIn, podDir, remote>> /\ reported' = reported \cup {job}
  BY WhoReports DEF Done, Running
<1>2. \A j \in reported' : (Alone(j)' <=> Alone(j)) /\ Entry(j)' = Entry(j)
  BY <1>1 DEF Alone, Entry, Kept, Holds
<1>3. Archived' = Archived \cup {Entry(job)}
  BY <1>1, <1>2 DEF Archived
<1>4. Entry(job).whole \/ Entry(job).dropped
  <2>1. CASE job.dropped
    BY <2>1 DEF Entry
  <2>2. CASE ~job.dropped
    BY <2>2, ReportedHolds DEF Entry
  <2>3. QED
    BY <2>1, <2>2
<1>5. ASSUME NEW j \in reported, Alone(j)
      PROVE  Entry(j).second # Entry(job).second
  <2>1. j.run # job.run
    BY <1>1 DEF Numbered
  <2>2. j.stamp # job.stamp
    BY <1>5, <2>1 DEF Alone
  <2>3. QED
    BY <2>2 DEF Entry
<1>6. QED
  BY <1>3, <1>4, <1>5 DEF Archived

LEMMA ArchiveStep ==
    ASSUME TypeOK, Numbered, OnTheWay, [Next]_vars
    PROVE  [Archive!Next]_(Archive!vars)
<1>1. CASE RunBackup
  <2>1. CASE \E b \in Archived : b.second = now
    <3>1. PICK b \in Archived : b.second = now
      BY <2>1
    <3>2. Archived' = {a \in Archived : a.second # b.second}
      BY <1>1, <3>1, ArchiveRun
    <3>3. Archive!Share
      BY <3>1, <3>2 DEF Archive!Share, Archived
    <3>4. QED
      BY <3>3 DEF Archive!Next
  <2>2. CASE \A b \in Archived : b.second # now
    <3>1. Archived' = Archived
      BY <1>1, <2>2, ArchiveRun
    <3>2. QED
      BY <3>1 DEF Archive!vars, Archived
  <2>3. QED
    BY <2>1, <2>2
<1>2. CASE reported' # reported
  <2>1. CASE Alone(job)
    <3>1. /\ Entry(job) \in Archived' /\ Archived' = Archived \cup {Entry(job)}
          /\ Entry(job).whole \/ Entry(job).dropped
          /\ \A a \in Archived : a.second # Entry(job).second
      BY <1>2, <2>1, ArchiveReport
    <3>2. Archive!Add
      BY <3>1 DEF Archive!Add, Archived
    <3>3. QED
      BY <3>2 DEF Archive!Next
  <2>2. CASE ~Alone(job)
    <3>1. /\ reported' = reported \cup {job} /\ UNCHANGED <<runsIn, podDir, remote>>
      BY <1>2, WhoReports DEF Done
    <3>2. \A j \in reported' : (Alone(j)' <=> Alone(j)) /\ Entry(j)' = Entry(j)
      BY <3>1 DEF Alone, Entry, Kept, Holds
    <3>3. Archived' = Archived
      BY <2>2, <3>1, <3>2 DEF Archived
    <3>4. QED
      BY <3>3 DEF Archive!vars, Archived
  <2>3. QED
    BY <2>1, <2>2
<1>3. CASE ~RunBackup /\ UNCHANGED reported
  <2>1. Archived' = Archived
    BY <1>3, ArchiveQuiet
  <2>2. QED
    BY <2>1 DEF Archive!vars, Archived
<1>4. QED
  BY <1>1, <1>2, <1>3

\* The Backup controller implements the archive: a backup is reported complete
\* or after a dropped connection of its own, under a name of its own, and none
\* of its files is changed afterwards, whatever fails and is run again.
THEOREM ArchiveIsWriteOnce == Spec => ImplementsArchive
<1>1. Init => Archive!Init
  BY DEF Init, Archive!Init
<1>2. TypeOK /\ Numbered /\ OnTheWay /\ [Next]_vars => [Archive!Next]_(Archive!vars)
  BY ArchiveStep
<1>3. QED
  BY <1>1, <1>2, OnTheWayAlways, PTL DEF Spec, ImplementsArchive, Archive!Spec
=============================================================================
