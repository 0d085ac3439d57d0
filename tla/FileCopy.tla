------------------------------ MODULE FileCopy ------------------------------
(***************************************************************************)
(* What CopyToK8s (pkg/remote/copy.go) promises its callers about one file *)
(* of the pod, in the terms of RestoreController: the file is the one that *)
(* was there before ("old"), cut or whole.  RemoteCopy is shown to         *)
(* implement this specification; CopyFile, CopyFails, CutInPod, AttrsFail  *)
(* and CopyDropped of RestoreController are the outcomes it leaves open.   *)
(***************************************************************************)
VARIABLES
    length,     \* of the object, as announced: "zero" or "some"
    file,       \* in the pod: "old", "cut" or "whole"
    result,     \* of the call: "none" yet, "nil" or "error"
    conn        \* the exec connection: "up" or "lost"

vars == <<length, file, result, conn>>

Init ==
    /\ length \in {"zero", "some"}
    /\ file = "old" /\ result = "none" /\ conn = "up"

\* Once the call has reported success the file is left alone, unless the
\* connection was lost on the way and tar is still at work.
MayWrite == length = "some" /\ (result = "nil" => conn = "lost")

Create ==
    /\ MayWrite
    /\ file = "old"
    /\ file' = "cut"
    /\ UNCHANGED <<length, result, conn>>

Finish ==
    /\ MayWrite
    /\ file = "cut"
    /\ file' = "whole"
    /\ UNCHANGED <<length, result, conn>>

Lose ==
    /\ result = "none" /\ conn = "up"
    /\ conn' = "lost"
    /\ UNCHANGED <<length, file, result>>

\* The file is whole, or there was nothing to copy; or nobody knows.
Succeed ==
    /\ result = "none"
    /\ file = "whole" \/ length = "zero" \/ conn = "lost"
    /\ result' = "nil"
    /\ UNCHANGED <<length, file, conn>>

Fail ==
    /\ result = "none"
    /\ result' = "error"
    /\ UNCHANGED <<length, file, conn>>

Next == Create \/ Finish \/ Lose \/ Succeed \/ Fail

Spec == Init /\ [][Next]_vars
=============================================================================
