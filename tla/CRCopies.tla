------------------------------ MODULE CRCopies ------------------------------
(***************************************************************************)
(* Who shares memory with whom.  client.Get hands Reconcile a deep copy of *)
(* the cached CR, made by zz_generated.deepcopy.go.  The Influxdb          *)
(* controller builds the claim and the StatefulSet out of the maps, slices *)
(* and pointers of that copy, client.Create decodes the answer of the API  *)
(* server into the object that it was given, and so into the copy; and     *)
(* client.Update sends the whole copy to record a status.                  *)
(*                                                                         *)
(* A part is a piece of a CR that is reached through a reference.  Its     *)
(* contents are what the user wrote, or what an answer of the server has   *)
(* put there (defaults, changes made on admission).  shared is the set of  *)
(* the parts that the copy has in common with the cached object.  One CR,  *)
(* of any of the three kinds, and the worker of its controller.            *)
(***************************************************************************)
EXTENDS Naturals

CONSTANTS
    Optional,       \* parts that the user may leave out
    MaxEdits,       \* bound on the edits of the user
    MaxFaults       \* bound on failed calls and crashes

\* Without Pod or its claim reconcilePVC ends the process (InfluxdbController).
ASSUME CopiesAssumption ==
    /\ "Pod" \notin Optional /\ "PersistentVolumeClaim" \notin Optional
    /\ MaxEdits \in Nat /\ MaxFaults \in Nat

VARIABLES
    kind,           \* of the CR
    cr, cache,      \* the CR in the API server, and in the informer cache
    pc, local,      \* the worker, and the copy that its call has
    shared,         \* parts of the copy that are the cache's
    edits, faults   \* how much of the bounds is left

vars == <<kind, cr, cache, pc, local, shared, edits, faults>>

-----------------------------------------------------------------------------
(* The references in the types, and those that DeepCopyInto follows *)

Kinds == {"Influxdb", "Backup", "Restore"}

PodPolicy    == {"Resources", "Env", "EnvFrom", "PersistentVolumeClaim"}
InfluxdbSpec == {"NodeSelector", "Affinity", "Tolerations", "Pod"} \cup PodPolicy

Parts(k) ==
    {"ObjectMeta"} \cup CASE k = "Influxdb" -> InfluxdbSpec \cup {"Nodes"}
                          [] k = "Backup"   -> {"Databases"}
                          [] k = "Restore"  -> {}

\* Mutant: Env was added to the type, and the code not generated again.
PodPolicyWithoutEnv == {"Resources", "EnvFrom", "PersistentVolumeClaim"}

PodPolicyDeepCopyInto == {"Resources", "Env", "EnvFrom", "PersistentVolumeClaim"}

InfluxdbSpecDeepCopyInto ==
    {"NodeSelector", "Affinity", "Tolerations", "Pod"} \cup PodPolicyDeepCopyInto

InfluxdbStatusDeepCopyInto == {"Nodes"}

InfluxdbDeepCopyInto ==
    {"ObjectMeta"} \cup InfluxdbSpecDeepCopyInto \cup InfluxdbStatusDeepCopyInto

BackupSpecDeepCopyInto == {"Databases"}

BackupDeepCopyInto == {"ObjectMeta"} \cup BackupSpecDeepCopyInto

\* Spec and Status of a Restore are assigned.
RestoreDeepCopyInto == {"ObjectMeta"}

DeepCopyObject(k) ==
    CASE k = "Influxdb" -> InfluxdbDeepCopyInto
      [] k = "Backup"   -> BackupDeepCopyInto
      [] k = "Restore"  -> RestoreDeepCopyInto

\* The parts of a CR that go into the claim and into the StatefulSet.
ClaimParts == {"PersistentVolumeClaim"}

StsParts == {"NodeSelector", "Affinity", "Tolerations", "Resources", "Env", "EnvFrom"}

-----------------------------------------------------------------------------
Contents == {"nil", "user", "answer"}

\* Only the equality of versions is looked at: cr, cache and local hold three.
Versions == 0..3

Objects == [version : Versions, parts : [Parts(kind) -> Contents]]

NoObject == [version |-> 0, parts |-> <<>>]

Steps == {"idle", "service", "reportService", "claim", "reportClaim", "sts", "nodes", "read"}

UserParts(k) ==
    {parts \in [Parts(k) -> {"nil", "user"}] :
        \A p \in Parts(k) : parts[p] = "nil" => p \in Optional}

TypeOK ==
    /\ kind \in Kinds
    /\ cr \in Objects /\ cache \in Objects
    /\ pc \in Steps
    /\ pc = "idle" => local = NoObject
    /\ pc # "idle" => local \in Objects
    /\ shared \in SUBSET Parts(kind)
    /\ edits \in Nat /\ faults \in Nat

Init ==
    /\ kind \in Kinds
    /\ \E parts \in UserParts(kind) : cr = [version |-> 0, parts |-> parts]
    /\ cache = cr
    /\ pc = "idle" /\ local = NoObject /\ shared = {}
    /\ edits = MaxEdits /\ faults = MaxFaults

\* A version that no object carries.
NewVersion == CHOOSE v \in Versions : v \notin {cr.version, cache.version, local.version}

-----------------------------------------------------------------------------
(* The user, and the informer *)

Edit ==
    /\ edits > 0
    /\ edits' = edits - 1
    /\ \E parts \in UserParts(kind) : cr' = [version |-> NewVersion, parts |-> parts]
    /\ UNCHANGED <<kind, cache, pc, local, shared, faults>>

\* The cache gets a new object; a call that goes on keeps what it has.
Watch ==
    /\ cache # cr
    /\ cache' = cr
    /\ shared' = {}
    /\ UNCHANGED <<kind, cr, pc, local, edits, faults>>

-----------------------------------------------------------------------------
(* A call of Reconcile *)

bounds == <<edits, faults>>

\* Mutant: the copy outlives the call.
ReturnKeepingCopy == pc' = "idle" /\ shared' = {} /\ UNCHANGED local

Return == pc' = "idle" /\ local' = NoObject /\ shared' = {}

Goto(step) == pc' = step

Get ==
    /\ pc = "idle"
    /\ Goto(IF kind = "Influxdb" THEN "service" ELSE "read")
    /\ local' = cache
    /\ shared' = Parts(kind) \ DeepCopyObject(kind)
    /\ UNCHANGED <<kind, cr, cache, bounds>>

\* The Backup and the Restore controller only read their copy.
Read ==
    /\ pc = "read"
    /\ Return
    /\ UNCHANGED <<kind, cr, cache, bounds>>

\* An answer changes some of these parts of the copy, those that are there,
\* and with them what is shared with the cache.
Answered(obj, parts) ==
    [obj EXCEPT !.parts = [p \in DOMAIN @ |->
        IF p \in parts /\ @[p] # "nil" THEN "answer" ELSE @[p]]]

Decode(parts) ==
    \E changed \in SUBSET parts :
        /\ local' = Answered(local, changed)
        /\ cache' = Answered(cache, changed \cap shared)

\* The Service is made from the name of the CR only.
CreateService ==
    /\ pc = "service"
    /\ Goto("claim") \/ Goto("reportService")
    /\ UNCHANGED <<kind, cr, cache, local, shared, bounds>>

\* client.Update(cr): the server takes the copy only if it is current.
Put(obj) ==
    /\ obj.version = cr.version
    /\ cr' = [obj EXCEPT !.version = NewVersion]

ReportService ==
    /\ pc = "reportService"
    /\ Put(local)
    /\ local' = cr'
    /\ Goto("claim")
    /\ UNCHANGED <<kind, cache, shared, bounds>>

\* newPVCs takes the Spec of the claim out of the CR.
CreatePVC ==
    /\ pc = "claim"
    /\ \/ Goto("sts") /\ UNCHANGED <<local, cache>>
       \/ Goto("reportClaim") /\ Decode(ClaimParts)
    /\ UNCHANGED <<kind, cr, shared, bounds>>

ReportPVC ==
    /\ pc = "reportClaim"
    /\ Put(local)
    /\ local' = cr'
    /\ Goto("sts")
    /\ UNCHANGED <<kind, cache, shared, bounds>>

\* The StatefulSet is there; its replicas are changed, if at all, on a copy of
\* its own, and the call returns then.
GetSts ==
    /\ pc = "sts"
    /\ \/ Goto("nodes") /\ UNCHANGED <<local, shared>>
       \/ Return
    /\ UNCHANGED <<kind, cr, cache, bounds>>

\* Mutant: the call goes on after it has created the StatefulSet.
CreateStsAndGoOn ==
    /\ pc = "sts"
    /\ Decode(StsParts)
    /\ Goto("nodes")
    /\ UNCHANGED <<kind, cr, shared, bounds>>

\* statefulsetForInfluxdb; "return and requeue".
CreateSts ==
    /\ pc = "sts"
    /\ \E changed \in SUBSET StsParts : cache' = Answered(cache, changed \cap shared)
    /\ Return
    /\ UNCHANGED <<kind, cr, bounds>>

\* influxdb.Status.Nodes = podNames, if that is different.
ReportNodes ==
    /\ pc = "nodes"
    /\ Put([local EXCEPT !.parts["Nodes"] = "answer"]) \/ UNCHANGED cr
    /\ Return
    /\ UNCHANGED <<kind, cache, bounds>>

Refused ==
    /\ pc \in {"reportService", "reportClaim", "nodes"}
    /\ local.version # cr.version
    /\ Return
    /\ UNCHANGED <<kind, cr, cache, bounds>>

Fault == faults > 0 /\ faults' = faults - 1 /\ UNCHANGED edits

\* A read or a write fails.
ApiError ==
    /\ Fault
    /\ pc # "idle"
    /\ Return
    /\ UNCHANGED <<kind, cr, cache>>

Crash ==
    /\ Fault
    /\ Return
    /\ cache' = cr
    /\ UNCHANGED <<kind, cr>>

-----------------------------------------------------------------------------
Next ==
    \/ Edit \/ Watch \/ Get \/ Read
    \/ CreateService \/ ReportService \/ CreatePVC \/ ReportPVC
    \/ GetSts \/ CreateSts \/ ReportNodes
    \/ Refused \/ ApiError \/ Crash

Spec == Init /\ [][Next]_vars

-----------------------------------------------------------------------------
(* Properties *)

\* Nothing that a call does to its copy, or that is decoded into an object made
\* from it, gets into the cache: a cached CR is what the API server delivered.
OnlyDelivered == [][cache' # cache => cache' = cr]_vars

Clean(obj) == \A p \in Parts(kind) \ (ClaimParts \cup {"Nodes"}) : obj.parts[p] # "answer"

\* No answer to a Create gets into the spec of the CR by way of the objects
\* that share memory with the copy and the status updates that send all of it,
\* the Spec of the claim (updated right after its Create) excepted.
SpecIsUsers == Clean(cr)
=============================================================================
