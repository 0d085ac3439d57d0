----------------------------- MODULE RemoteCopy -----------------------------
(***************************************************************************)
(* One call of CopyToK8s (pkg/remote/copy.go), which streams an object of  *)
(* the bucket into a file of the pod.  Four activities run side by side:   *)
(* the caller; the goroutine that turns the object into a tar stream       *)
(* (makeTar) and writes it to an unbuffered pipe; the goroutine of         *)
(* remotecommand that carries what it reads from the pipe to the stdin of  *)
(* the remote command; and tar in the pod.                                 *)
(*                                                                         *)
(* The stream has size + 2 items: the header, size chunks, the end of the  *)
(* archive.  Four cursors count what was offered to the pipe (w), taken    *)
(* from it (f), delivered to the pod (r) and read by tar (t).  size is     *)
(* what the storage provider announced, body what its stream really holds. *)
(***************************************************************************)
EXTENDS Integers

CONSTANTS
    MaxChunks,      \* bound on the length of an object
    MaxFaults       \* bound on failures

ASSUME RemoteCopyAssumption == MaxChunks \in Nat /\ MaxFaults \in Nat

VARIABLES
    pc, result,             \* the caller, and what CopyToK8s returned
    size, body,             \* chunks announced, chunks in the stream
    maker, w,               \* the goroutine of makeTar
    feeder, f, r,           \* the goroutine that copies stdin
    tar, t,                 \* tar -xf in the pod
    file,                   \* chunks in the file of the pod, or Old
    conn,                   \* the exec connection of tar
    faults                  \* how much of the bound is left

vars == <<pc, result, size, body, maker, w, feeder, f, r, tar, t, file, conn, faults>>

-----------------------------------------------------------------------------
Old == -1       \* the file, if any, that was there before

TypeOK ==
    /\ pc \in {"get", "mkdir", "exec", "wait", "done"}
    /\ result \in {"none", "nil", "error"}
    /\ size \in Nat /\ body \in Nat
    /\ maker \in {"off", "copy", "close", "done"}
    /\ feeder \in {"off", "run", "done"}
    /\ tar \in {"off", "run", "ok", "failed"}
    /\ w \in 0..size + 2 /\ f \in 0..w /\ r \in 0..f /\ t \in 0..r
    /\ w <= f + 1 /\ f <= r + 1
    /\ file \in Old..size
    /\ conn \in {"up", "lost"}
    /\ faults \in Nat

Init ==
    /\ pc = "get" /\ result = "none"
    /\ size \in 0..MaxChunks /\ body \in 0..MaxChunks
    /\ maker = "off" /\ feeder = "off" /\ tar = "off"
    /\ w = 0 /\ f = 0 /\ r = 0 /\ t = 0
    /\ file = Old /\ conn = "up" /\ faults = MaxFaults

caller == <<pc, result>>
made   == <<maker, w>>
fed    == <<feeder, f, r>>
pod    == <<tar, t, file>>
given  == <<size, body>>

Fault == faults > 0 /\ faults' = faults - 1

Return(answer) == pc' = "done" /\ result' = answer

-----------------------------------------------------------------------------
(* The caller *)

\* Mutant: the goroutine is started before the size is looked at.
MakeThenLook ==
    /\ pc = "get"
    /\ maker' = "copy"
    /\ IF size = 0 THEN Return("nil") ELSE pc' = "mkdir" /\ UNCHANGED result
    /\ UNCHANGED <<w, fed, pod, given, conn, faults>>

\* The pod is there and not completed.  "ignore the empty file"
GetPod ==
    /\ pc = "get"
    /\ IF size = 0 THEN Return("nil") ELSE pc' = "mkdir" /\ UNCHANGED result
    /\ UNCHANGED <<made, fed, pod, given, conn, faults>>

\* mkdir -p, the pipe, and the goroutine that writes to it.
Mkdir ==
    /\ pc = "mkdir"
    /\ pc' = "exec"
    /\ maker' = "copy"
    /\ UNCHANGED <<result, w, fed, pod, given, conn, faults>>

\* Mutant: the stream is started without Stdin.
ExecNoStdin ==
    /\ pc = "exec"
    /\ pc' = "wait"
    /\ tar' = "run"
    /\ UNCHANGED <<result, made, fed, t, file, given, conn, faults>>

Exec ==
    /\ pc = "exec"
    /\ pc' = "wait"
    /\ feeder' = "run" /\ tar' = "run"
    /\ UNCHANGED <<result, made, f, r, t, file, given, conn, faults>>

\* There is no pod or a completed one, mkdir fails, or the connection cannot
\* be made: nobody reads the pipe then, and nobody closes it.
CallFails ==
    /\ Fault
    /\ pc \in {"get", "mkdir", "exec"}
    /\ Return("error")
    /\ UNCHANGED <<made, fed, pod, given, conn>>

\* Mutant: the exit status is not looked at.
ReturnAnyway ==
    /\ pc = "wait" /\ conn = "up"
    /\ tar \in {"ok", "failed"}
    /\ Return("nil")
    /\ UNCHANGED <<made, fed, pod, given, conn, faults>>

\* Mutant: a tar that failed is started again, and its status waited for.
ExecAgain ==
    /\ pc = "wait" /\ conn = "up"
    /\ \/ tar = "ok" /\ Return("nil") /\ UNCHANGED tar
       \/ tar = "failed" /\ tar' = "run" /\ UNCHANGED caller
    /\ UNCHANGED <<made, fed, t, file, given, conn, faults>>

\* Stream returns when the error stream has brought the exit status.
ReturnStatus ==
    /\ pc = "wait" /\ conn = "up"
    /\ \/ tar = "ok" /\ Return("nil")
       \/ tar = "failed" /\ Return("error")
    /\ UNCHANGED <<made, fed, pod, given, conn, faults>>

Lose ==
    /\ Fault
    /\ pc = "wait" /\ conn = "up"
    /\ conn' = "lost"
    /\ UNCHANGED <<caller, made, fed, pod, given>>

\* An error stream that ends without a message is taken for success.
ReturnUnseen ==
    /\ pc = "wait" /\ conn = "lost"
    /\ Return("nil") \/ Return("error")
    /\ UNCHANGED <<made, fed, pod, given, conn, faults>>

-----------------------------------------------------------------------------
(* makeTar.  A Write to the pipe ends when the other side has read it all. *)

\* Mutant: a Write that does not wait for the reader.
OfferAhead == w' = w + 1

Offer == w = f /\ w' = w + 1

\* The header, then what the object has, up to the size in the header
\* (ErrWriteTooLong).  The callers close the object when the call is over.
WriteItem ==
    /\ maker = "copy"
    /\ w = 0 \/ (w <= size /\ w <= body /\ pc # "done")
    /\ Offer
    /\ UNCHANGED <<caller, maker, fed, pod, given, conn, faults>>

\* io.Copy returns: the end of the object, one byte too many, or it is closed.
EndOfBody ==
    /\ maker = "copy"
    /\ w = f /\ w > 0
    /\ w > size \/ w > body \/ pc = "done"
    /\ maker' = "close"
    /\ UNCHANGED <<caller, w, fed, pod, given, conn, faults>>

ReadFails ==
    /\ Fault
    /\ maker = "copy"
    /\ w = f /\ w > 0
    /\ maker' = "close"
    /\ UNCHANGED <<caller, w, fed, pod, given, conn>>

\* tarWriter.Close ends the archive only if the file in it is complete.
CloseTar ==
    /\ maker = "close"
    /\ w = size + 1
    /\ Offer
    /\ UNCHANGED <<caller, maker, fed, pod, given, conn, faults>>

\* Mutant: the pipe is closed only behind a complete archive.
CloseIfComplete ==
    /\ maker = "close"
    /\ w = f /\ w = size + 2
    /\ maker' = "done"
    /\ UNCHANGED <<caller, w, fed, pod, given, conn, faults>>

ClosePipe ==
    /\ maker = "close"
    /\ w = f /\ w # size + 1
    /\ maker' = "done"
    /\ UNCHANGED <<caller, w, fed, pod, given, conn, faults>>

-----------------------------------------------------------------------------
(* copyStdin of remotecommand, which the end of the call does not stop *)

Deliver ==
    /\ feeder = "run"
    /\ w = f + 1
    /\ f' = f + 1
    /\ IF conn = "up" /\ pc = "wait"
       THEN r' = r + 1 /\ UNCHANGED feeder
       ELSE feeder' = "done" /\ UNCHANGED r
    /\ UNCHANGED <<caller, made, pod, given, conn, faults>>

CloseStdin ==
    /\ feeder = "run"
    /\ w = f /\ maker = "done"
    /\ feeder' = "done"
    /\ UNCHANGED <<caller, made, f, r, pod, given, conn, faults>>

-----------------------------------------------------------------------------
(* tar in the pod *)

\* The header replaces the file by an empty one, a chunk is appended to it.
Extract ==
    /\ tar = "run"
    /\ t < r
    /\ t' = t + 1
    /\ file' = IF t <= size THEN t ELSE file
    /\ tar' = IF t = size + 1 THEN "ok" ELSE "run"
    /\ UNCHANGED <<caller, made, fed, given, conn, faults>>

EndOfStdin ==
    /\ tar = "run"
    /\ t = r
    /\ feeder = "done" \/ conn = "lost"
    /\ tar' = IF t = size + 1 THEN "ok" ELSE "failed"
    /\ UNCHANGED <<caller, made, fed, t, file, given, conn, faults>>

TarFails ==
    /\ Fault
    /\ tar = "run"
    /\ tar' = "failed"
    /\ UNCHANGED <<caller, made, fed, t, file, given, conn>>

-----------------------------------------------------------------------------
Call   == GetPod \/ Mkdir \/ Exec \/ ReturnStatus \/ ReturnUnseen
Maker  == WriteItem \/ EndOfBody \/ CloseTar \/ ClosePipe
Feeder == Deliver \/ CloseStdin
Tar    == Extract \/ EndOfStdin

Next == Call \/ Maker \/ Feeder \/ Tar \/ CallFails \/ Lose \/ ReadFails \/ TarFails

Spec == Init /\ [][Next]_vars

\* Goroutines and processes that can go on do.
FairSpec == Spec /\ WF_vars(Call) /\ WF_vars(Maker) /\ WF_vars(Feeder) /\ WF_vars(Tar)

-----------------------------------------------------------------------------
(* Properties *)

\* The four activities never wait for each other in a ring: CopyToK8s returns,
\* also if the object is shorter or longer than announced.
Returns == <>(pc = "done")

\* Who can go on without a fault: the caller, makeTar, copyStdin, tar.
Ready ==
    \/ pc \in {"get", "mkdir", "exec"}
    \/ pc = "wait" /\ (conn = "lost" \/ tar \in {"ok", "failed"})
    \/ maker \in {"copy", "close"} /\ w = f
    \/ feeder = "run" /\ (w > f \/ maker = "done")
    \/ tar = "run" /\ (t < r \/ feeder = "done" \/ conn = "lost")

\* The safety half of Returns: until CopyToK8s has returned one of the four
\* can go on, so they never wait for each other in a ring, whatever the object
\* holds, whatever failed and however much of it has gone through the pipe.
NoRing == pc # "done" => Ready

\* How much is left to do at most: calls, faults, and items of the stream.
StepsLeft ==
    LET callLeft   == [get |-> 4, mkdir |-> 3, exec |-> 2, wait |-> 1, done |-> 0]
        makerLeft  == [off |-> 3, copy |-> 2, close |-> 1, done |-> 0]
        feederLeft == [off |-> 2, run |-> 1, done |-> 0]
        tarLeft    == [off |-> 2, run |-> 1, ok |-> 0, failed |-> 0]
    IN  callLeft[pc] + makerLeft[maker] + feederLeft[feeder] + tarLeft[tar]

Left == StepsLeft + (size + 2 - w) + (size + 2 - f) + (size + 2 - t) + faults

\* The other half: no step of any of the four, and no failure, is repeated for
\* ever.  Each uses up some of a supply that is finite for every object.
WorkEnds == [][Left' < Left /\ Left' >= 0]_vars

\* makeTar writes to the pipe and nobody is left to read it.
Stuck == w = f + 1 /\ (feeder = "done" \/ (feeder = "off" /\ pc = "done"))

\* A goroutine is left behind for ever only by a call that failed, or whose
\* connection was lost.
LeakOnlyAfterError == Stuck => result # "nil" \/ conn = "lost"

\* CopyToK8s does to the file what FileCopy allows: in particular it returns
\* nil only when the file is whole or the object was announced as empty, and
\* after that nothing is written to the file.
Copy == INSTANCE FileCopy WITH
            length <- IF size = 0 THEN "zero" ELSE "some",
            file   <- IF file = Old THEN "old" ELSE IF file < size THEN "cut" ELSE "whole"

ImplementsFileCopy == Copy!Spec
=============================================================================
