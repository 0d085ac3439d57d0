-------------------------- MODULE RemoteCopyProofs --------------------------
(* Theorems about RemoteCopy, for objects of every length. *)
EXTENDS RemoteCopy, TLAPS

(* The inductive invariant *)

\* Which activities have been started, and how far tar is.
Started ==
    /\ result = "none" <=> pc # "done"
    /\ pc \in {"get", "mkdir"} => maker = "off"
    /\ pc \in {"get", "mkdir", "exec"} => tar = "off"
    /\ pc \in {"mkdir", "exec", "wait"} => size > 0
    /\ pc \in {"exec", "wait"} => maker # "off"
    /\ pc = "wait" => tar # "off"
    /\ maker = "off" => w = 0 /\ tar = "off"
    /\ (tar = "off") <=> (feeder = "off")
    /\ feeder = "off" => f = 0
    /\ feeder # "done" => r = f
    /\ size = 0 => maker = "off"
    /\ file = IF t <= size + 1 THEN t - 1 ELSE size

\* A tar that is at work or has succeeded over a good connection, and what
\* that says of the others.
Settled ==
    /\ maker = "done" => w = f
    /\ tar = "run" /\ conn = "up" => pc = "wait"
    /\ pc = "wait" /\ conn = "up" /\ feeder = "done" => maker = "done"
    /\ tar = "ok" => t > size
    /\ tar = "ok" /\ conn = "up" => maker = "done" \/ f = size + 2
    /\ result = "nil" /\ conn = "up" => size = 0 \/ tar = "ok"

Inv == TypeOK /\ Started /\ Settled

LEMMA InvInit == Init => Inv
BY RemoteCopyAssumption DEF Init, Inv, TypeOK, Started, Settled, Old

LEMMA InvCall ==
    ASSUME Inv, Call \/ CallFails \/ Lose
    PROVE  Inv'
<1> USE DEF Inv, TypeOK, Started, Settled, made, fed, pod, given, Return, Old
<1>1. CASE GetPod
  BY <1>1 DEF GetPod
<1>2. CASE Mkdir
  BY <1>2 DEF Mkdir
<1>3. CASE Exec
  BY <1>3 DEF Exec
<1>4. CASE ReturnStatus
  BY <1>4 DEF ReturnStatus
<1>5. CASE ReturnUnseen
  BY <1>5 DEF ReturnUnseen
<1>6. CASE CallFails
  BY <1>6 DEF CallFails, Fault
<1>7. CASE Lose
  BY <1>7 DEF Lose, Fault, caller
<1>8. QED
  BY <1>1, <1>2, <1>3, <1>4, <1>5, <1>6, <1>7 DEF Call

LEMMA InvMaker ==
    ASSUME Inv, Maker \/ ReadFails
    PROVE  Inv'
<1> USE DEF Inv, TypeOK, Started, Settled, caller, fed, pod, given, Old
<1>1. CASE WriteItem
  BY <1>1 DEF WriteItem, Offer
<1>2. CASE EndOfBody
  BY <1>2 DEF EndOfBody
<1>3. CASE CloseTar
  BY <1>3 DEF CloseTar, Offer
<1>4. CASE ClosePipe
  BY <1>4 DEF ClosePipe
<1>5. CASE ReadFails
  BY <1>5 DEF ReadFails, Fault
<1>6. QED
  BY <1>1, <1>2, <1>3, <1>4, <1>5 DEF Maker

LEMMA InvFeeder ==
    ASSUME Inv, Feeder
    PROVE  Inv'
<1> USE DEF Inv, TypeOK, Started, Settled, caller, made, pod, given, Old
<1>1. CASE Deliver
  BY <1>1 DEF Deliver
<1>2. CASE CloseStdin
  BY <1>2 DEF CloseStdin
<1>3. QED
  BY <1>1, <1>2 DEF Feeder

LEMMA InvTar ==
    ASSUME Inv, Tar \/ TarFails
    PROVE  Inv'
<1> USE DEF Inv, TypeOK, Started, Settled, caller, made, fed, given, Old
<1>1. CASE Extract
  BY <1>1 DEF Extract
<1>2. CASE EndOfStdin
  BY <1>2 DEF EndOfStdin
<1>3. CASE TarFails
  BY <1>3 DEF TarFails, Fault
<1>4. QED
  BY <1>1, <1>2, <1>3 DEF Tar

\* The cursors of the four activities stay in order, whatever fails.
THEOREM Invariant == Spec => []Inv
<1>1. Inv /\ UNCHANGED vars => Inv'
  BY DEF Inv, TypeOK, Started, Settled, vars
<1>2. Inv /\ [Next]_vars => Inv'
  BY <1>1, InvCall, InvMaker, InvFeeder, InvTar DEF Next
<1>3. QED
  BY <1>2, InvInit, PTL DEF Spec

\* What the pipe, the connection and tar hold keeps its type: a Write is never
\* more than one item ahead of the reader, and nothing overtakes.
THEOREM TypeCorrect == Spec => []TypeOK
<1>1. Inv => TypeOK
  BY DEF Inv
<1>2. QED
  BY <1>1, Invariant, PTL

\* A call that returned nil over a good connection leaves no goroutine behind.
THEOREM NoLeakAfterSuccess == Spec => []LeakOnlyAfterError
<1>1. Inv => LeakOnlyAfterError
  BY DEF Inv, TypeOK, Started, Settled, LeakOnlyAfterError, Stuck
<1>2. QED
  BY <1>1, Invariant, PTL

-----------------------------------------------------------------------------
(* Termination, as far as it is safety.  Under the fairness of FairSpec some   *)
(* activity that is ready takes a step (NoRingForms), and there are at most    *)
(* Left of these (EveryStepCounts): together that is Returns.                  *)

\* Until CopyToK8s has returned, one of its four activities can go on.
THEOREM NoRingForms == Spec => []NoRing
<1>1. Inv => NoRing
  BY DEF Inv, TypeOK, Started, Settled, NoRing, Ready
<1>2. QED
  BY <1>1, Invariant, PTL

LEMMA StepsAreCounted == TypeOK => StepsLeft \in Nat
BY DEF TypeOK, StepsLeft

LEMMA CallCounts ==
    ASSUME Inv, Call \/ CallFails \/ Lose
    PROVE  Left' < Left
<1> USE DEF Inv, TypeOK, Started, made, fed, pod, given, Return, Left, StepsLeft
<1>1. CASE GetPod
  BY <1>1 DEF GetPod
<1>2. CASE Mkdir
  BY <1>2 DEF Mkdir
<1>3. CASE Exec
  BY <1>3 DEF Exec
<1>4. CASE ReturnStatus
  BY <1>4 DEF ReturnStatus
<1>5. CASE ReturnUnseen
  BY <1>5 DEF ReturnUnseen
<1>6. CASE CallFails
  BY <1>6 DEF CallFails, Fault
<1>7. CASE Lose
  BY <1>7 DEF Lose, Fault, caller
<1>8. QED
  BY <1>1, <1>2, <1>3, <1>4, <1>5, <1>6, <1>7 DEF Call

\* A step that puts an item into the pipe, and does nothing else.
LEMMA OfferCounts ==
    ASSUME Inv, WriteItem \/ CloseTar
    PROVE  Left' < Left
<1>1. /\ UNCHANGED <<pc, maker, feeder, tar, size, f, t, faults>>
      /\ w' = w + 1
  BY DEF WriteItem, CloseTar, Offer, caller, fed, pod, given
<1>2. StepsLeft' = StepsLeft
  BY <1>1 DEF StepsLeft
<1>3. StepsLeft \in Nat /\ size \in Nat /\ w \in Int /\ f \in Int /\ t \in Int /\ faults \in Nat
  BY StepsAreCounted DEF Inv, TypeOK
<1>4. QED
  BY <1>1, <1>2, <1>3 DEF Left

LEMMA StreamCounts ==
    ASSUME Inv, Maker \/ ReadFails \/ Feeder \/ Tar \/ TarFails
    PROVE  Left' < Left
<1> USE DEF Inv, TypeOK, Started, caller, made, fed, pod, given, Left, StepsLeft
<1>1. CASE EndOfBody
  BY <1>1 DEF EndOfBody
<1>2. CASE ClosePipe
  BY <1>2 DEF ClosePipe
<1>3. CASE ReadFails
  BY <1>3 DEF ReadFails, Fault
<1>4. CASE CloseStdin
  BY <1>4 DEF CloseStdin
<1>5. CASE EndOfStdin
  BY <1>5 DEF EndOfStdin
<1>6. CASE TarFails
  BY <1>6 DEF TarFails, Fault
<1>7. CASE Deliver
  BY <1>7 DEF Deliver
<1>8. CASE Extract
  BY <1>8 DEF Extract
<1>9. QED
  BY <1>1, <1>2, <1>3, <1>4, <1>5, <1>6, <1>7, <1>8, OfferCounts DEF Maker, Feeder, Tar

\* Every step, failures included, uses up some of a finite supply, so that a
\* call takes at most the initial Left steps, whatever the length of the object.
THEOREM EveryStepCounts == Spec => WorkEnds
<1>1. Inv => Left \in Nat
  BY StepsAreCounted DEF Inv, TypeOK, Left
<1>2. Inv /\ Next => Left' < Left
  BY CallCounts, StreamCounts DEF Next
<1>3. Inv /\ (Left \in Nat)' /\ [Next]_vars => [Left' < Left /\ Left' >= 0]_vars
  BY <1>2
<1>4. QED
  BY <1>1, <1>3, Invariant, PTL DEF Spec, WorkEnds

-----------------------------------------------------------------------------
(* The refinement.  The abstract file depends on file and size only. *)

AbsLength == IF size = 0 THEN "zero" ELSE "some"
AbsFile   == IF file = Old THEN "old" ELSE IF file < size THEN "cut" ELSE "whole"

\* The steps that change neither the file, the result nor the connection.
LEMMA Stutters ==
    ASSUME UNCHANGED <<size, file, result, conn>>
    PROVE  UNCHANGED Copy!vars
BY DEF Copy!vars

LEMMA StepRefines ==
    ASSUME Inv, Next
    PROVE  [Copy!Next]_(Copy!vars)
<1> USE DEF caller, made, fed, pod, given
<1>1. CASE Maker \/ Feeder \/ ReadFails
  BY <1>1, Stutters DEF Maker, Feeder, WriteItem, EndOfBody, CloseTar, ClosePipe, Deliver,
                        CloseStdin, ReadFails
<1>2. CASE Mkdir \/ Exec \/ EndOfStdin \/ TarFails
  BY <1>2, Stutters DEF Mkdir, Exec, EndOfStdin, TarFails
<1>3. CASE GetPod
  <2>1. CASE size = 0
    BY <1>3, <2>1 DEF GetPod, Return, Inv, Started, Copy!Next, Copy!Succeed
  <2>2. CASE size # 0
    BY <1>3, <2>2, Stutters DEF GetPod
  <2>3. QED
    BY <2>1, <2>2
<1>4. CASE ReturnStatus
  <2>1. CASE tar = "ok"
    <3>1. file = size /\ size > 0
      BY <1>4, <2>1 DEF ReturnStatus, Inv, TypeOK, Started, Settled
    <3>2. AbsFile = "whole"
      BY <3>1 DEF AbsFile, Old, Inv, TypeOK
    <3>3. QED
      BY <1>4, <2>1, <3>2 DEF ReturnStatus, Return, Inv, Started, Copy!Next, Copy!Succeed, AbsFile
  <2>2. CASE tar = "failed"
    BY <1>4, <2>2 DEF ReturnStatus, Return, Inv, Started, Copy!Next, Copy!Fail
  <2>3. QED
    BY <1>4, <2>1, <2>2 DEF ReturnStatus
<1>5. CASE ReturnUnseen
  BY <1>5 DEF ReturnUnseen, Return, Inv, Started, Copy!Next, Copy!Succeed, Copy!Fail
<1>6. CASE CallFails
  BY <1>6 DEF CallFails, Return, Inv, Started, Copy!Next, Copy!Fail
<1>7. CASE Lose
  BY <1>7 DEF Lose, Inv, Started, Copy!Next, Copy!Lose
<1>8. CASE Extract
  <2>1. size > 0 /\ (result = "nil" => conn = "lost") /\ size \in Nat /\ t \in Nat
    BY <1>8 DEF Extract, Inv, TypeOK, Started, Settled
  <2>2. CASE t = 0
    <3>1. file = Old /\ file' = 0 /\ UNCHANGED <<size, result, conn>>
      BY <1>8, <2>1, <2>2 DEF Extract, Inv, Started, Old
    <3>2. QED
      BY <2>1, <3>1 DEF Copy!Next, Copy!Create, Copy!MayWrite, Old
  <2>3. CASE t \in 1..size - 1
    <3>1. file = t - 1 /\ file' = t /\ UNCHANGED <<size, result, conn>>
      BY <1>8, <2>1, <2>3 DEF Extract, Inv, Started
    <3>2. QED
      BY <2>1, <2>3, <3>1 DEF Copy!vars, Old
  <2>4. CASE t = size
    <3>1. file = size - 1 /\ file' = size /\ UNCHANGED <<size, result, conn>>
      BY <1>8, <2>1, <2>4 DEF Extract, Inv, Started
    <3>2. QED
      BY <2>1, <3>1 DEF Copy!Next, Copy!Finish, Copy!MayWrite, Old
  <2>5. CASE t > size
    BY <1>8, <2>1, <2>5, Stutters DEF Extract
  <2>6. QED
    BY <2>1, <2>2, <2>3, <2>4, <2>5
<1>9. QED
  BY <1>1, <1>2, <1>3, <1>4, <1>5, <1>6, <1>7, <1>8 DEF Next, Call, Tar

\* Pipe, goroutines and tar together do to the file what FileCopy allows, for
\* objects of every length, announced rightly or not, and for any failures.
THEOREM Refinement == Spec => ImplementsFileCopy
<1>1. Init => Copy!Init
  BY DEF Init, Copy!Init, Old
<1>2. Inv /\ [Next]_vars => [Copy!Next]_(Copy!vars)
  <2>1. UNCHANGED vars => UNCHANGED Copy!vars
    BY Stutters DEF vars
  <2>2. QED
    BY <2>1, StepRefines
<1>3. QED
  BY <1>1, <1>2, Invariant, PTL DEF Spec, ImplementsFileCopy, Copy!Spec
=============================================================================
