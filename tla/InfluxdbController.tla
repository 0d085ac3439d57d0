------------------------- MODULE InfluxdbController -------------------------
(***************************************************************************)
(* The Influxdb controller of the operator                                 *)
(* (pkg/controller/influxdb/influxdb_controller.go): one worker reconciles *)
(* the Service, the PersistentVolumeClaim and the StatefulSet of every     *)
(* Influxdb custom resource (CR).  It READS from informer caches that lag  *)
(* behind the API server and WRITES to the API server itself, which        *)
(* refuses an Update whose resourceVersion is not the current one.         *)
(*                                                                         *)
(* Objects are records; rv is their resourceVersion, and rv = 0 is an      *)
(* object that does not exist.  Only the equality of two versions of the   *)
(* same object is ever observed, so a write takes any version that no copy *)
(* of the object carries (Fresh) and versions stay few.  owner is the uid  *)
(* in an object's controller reference, 0 for one that nobody controls.    *)
(***************************************************************************)
EXTENDS Naturals

CONSTANTS
    Names,          \* names of Influxdb CRs of the watched namespace
    NoName,         \* stands for "no request": the worker is idle or down
    Sizes,          \* values of spec.size
    Images,         \* values of spec.baseImage
    Claims,         \* names of PersistentVolumeClaims
    NoClaim,        \* stands for a CR whose spec.pod (or its claim) is nil
    ClaimOf,        \* spec.pod.persistentVolumeClaim.name of each CR
    PodTemplates,   \* names of the PodTemplate objects labelled for each CR
    MaxEdits,       \* bound on the writes of users and other controllers
    MaxFaults       \* bound on crashes and failed API calls

ASSUME InfluxdbAssumption ==
    /\ NoName \notin Names
    /\ Sizes \subseteq Nat
    /\ Sizes # {}
    /\ Images # {}
    /\ NoClaim \notin Claims
    /\ ClaimOf \in [Names -> Claims \cup {NoClaim}]
    /\ MaxEdits \in Nat
    /\ MaxFaults \in Nat

VARIABLES
    uids,                      \* uids handed out by the API server so far
    cr, svc, pvc, sts,         \* the objects in the API server
    ccr, csvc, cpvc, csts,     \* the informer caches of the operator
    queue,                     \* requests waiting in the work queue
    pc, key, loc, found,       \* the worker: step, request, its copies
    edits, faults              \* how much of the two bounds is left

api    == <<cr, svc, pvc, sts>>
cache  == <<ccr, csvc, cpvc, csts>>
worker == <<pc, key, loc, found>>
vars   == <<uids, api, cache, queue, worker, edits, faults>>

-----------------------------------------------------------------------------
(* Objects *)

\* status.serviceName and status.persistentVolumeClaimName: empty or filled in.
Fields == {"", "named"}

NodeLists == {{}} \cup {PodTemplates[n] : n \in Names}

\* An Influxdb: spec.size, spec.baseImage, and the three status fields.
CRs == [uid : Nat, rv : Nat, size : Sizes, image : Images,
        svcName : Fields, pvcName : Fields, nodes : NodeLists]

StatefulSets == [rv : Nat, owner : Nat, size : Sizes, image : Images]

\* A Service or a claim, which the operator creates and never updates; of
\* the cached ones it only asks whether they are there.
Plain == [rv : Nat, owner : Nat]

AnySize  == CHOOSE s \in Sizes : TRUE
AnyImage == CHOOSE i \in Images : TRUE

NoCR    == [uid |-> 0, rv |-> 0, size |-> AnySize, image |-> AnyImage,
            svcName |-> "", pvcName |-> "", nodes |-> {}]
NoSts   == [rv |-> 0, owner |-> 0, size |-> AnySize, image |-> AnyImage]
NoPlain == [rv |-> 0, owner |-> 0]

Exists(o) == o.rv # 0

\* A resourceVersion that none of the three copies of an object carries.
Fresh(v1, v2, v3) == CHOOSE v \in 1..4 : v \notin {v1, v2, v3}

CRVersion(n)  == Fresh(cr[n].rv, ccr[n].rv, loc.rv)
StsVersion(n) == Fresh(sts[n].rv, csts[n].rv, found.rv)

Steps == {"down", "idle", "getService", "createService", "reportService",
          "getPVC", "createPVC", "reportPVC", "getSts", "createSts",
          "updateSts", "reportNodes"}

\* The steps that wait for the answer of a write to the API server.
Writes == {"createService", "reportService", "createPVC", "reportPVC",
           "createSts", "updateSts", "reportNodes"}

Busy == pc \notin {"down", "idle"}

TypeOK ==
    /\ uids \in Nat
    /\ cr \in [Names -> CRs]            /\ ccr \in [Names -> CRs]
    /\ svc \in [Names -> Plain]         /\ csvc \in SUBSET Names
    /\ pvc \in [Claims -> Plain]        /\ cpvc \in SUBSET Claims
    /\ sts \in [Names -> StatefulSets]  /\ csts \in [Names -> StatefulSets]
    /\ queue \in SUBSET Names
    /\ pc \in Steps
    /\ key \in Names \cup {NoName}
    /\ Busy <=> key \in Names
    /\ loc \in CRs
    /\ found \in StatefulSets
    /\ edits \in Nat
    /\ faults \in Nat

Init ==
    /\ uids = 0
    /\ cr = [n \in Names |-> NoCR]      /\ ccr = [n \in Names |-> NoCR]
    /\ svc = [n \in Names |-> NoPlain]  /\ csvc = {}
    /\ pvc = [c \in Claims |-> NoPlain] /\ cpvc = {}
    /\ sts = [n \in Names |-> NoSts]    /\ csts = [n \in Names |-> NoSts]
    /\ queue = {}
    /\ pc = "down" /\ key = NoName /\ loc = NoCR /\ found = NoSts
    /\ edits = MaxEdits
    /\ faults = MaxFaults

-----------------------------------------------------------------------------
(* Users and the other controllers of the cluster *)

Edit == edits > 0 /\ edits' = edits - 1

CreateCR(n, s, i) ==
    /\ Edit
    /\ ~Exists(cr[n])
    /\ uids' = uids + 1
    /\ cr' = [cr EXCEPT ![n] =
                 [uid |-> uids + 1, rv |-> CRVersion(n), size |-> s, image |-> i,
                  svcName |-> "", pvcName |-> "", nodes |-> {}]]
    /\ UNCHANGED <<svc, pvc, sts, cache, queue, worker, faults>>

EditCR(n, s, i) ==
    /\ Edit
    /\ Exists(cr[n])
    /\ <<s, i>> # <<cr[n].size, cr[n].image>>
    /\ cr' = [cr EXCEPT ![n].size = s, ![n].image = i, ![n].rv = CRVersion(n)]
    /\ UNCHANGED <<uids, svc, pvc, sts, cache, queue, worker, faults>>

DeleteCR(n) ==
    /\ Edit
    /\ Exists(cr[n])
    /\ cr' = [cr EXCEPT ![n] = NoCR]
    /\ UNCHANGED <<uids, svc, pvc, sts, cache, queue, worker, faults>>

DeleteService(n) ==
    /\ Edit
    /\ Exists(svc[n])
    /\ svc' = [svc EXCEPT ![n] = NoPlain]
    /\ UNCHANGED <<uids, cr, pvc, sts, cache, queue, worker, faults>>

\* The README's first step: the user deploys the claim, then the CR.
CreateClaim(c) ==
    /\ Edit
    /\ ~Exists(pvc[c])
    /\ pvc' = [pvc EXCEPT ![c] = [rv |-> 1, owner |-> 0]]
    /\ UNCHANGED <<uids, cr, svc, sts, cache, queue, worker, faults>>

DeleteClaim(c) ==
    /\ Edit
    /\ Exists(pvc[c])
    /\ pvc' = [pvc EXCEPT ![c] = NoPlain]
    /\ UNCHANGED <<uids, cr, svc, sts, cache, queue, worker, faults>>

DeleteSts(n) ==
    /\ Edit
    /\ Exists(sts[n])
    /\ sts' = [sts EXCEPT ![n] = NoSts]
    /\ UNCHANGED <<uids, cr, svc, pvc, cache, queue, worker, faults>>

\* kubectl scale, or (s unchanged) the StatefulSet controller's status write.
WriteSts(n, s) ==
    /\ Edit
    /\ Exists(sts[n])
    /\ sts' = [sts EXCEPT ![n].size = s, ![n].rv = StsVersion(n)]
    /\ UNCHANGED <<uids, cr, svc, pvc, cache, queue, worker, faults>>

User ==
    \/ \E n \in Names, s \in Sizes, i \in Images : CreateCR(n, s, i) \/ EditCR(n, s, i)
    \/ \E n \in Names : DeleteCR(n) \/ DeleteService(n) \/ DeleteSts(n)
    \/ \E n \in Names, s \in Sizes : WriteSts(n, s)
    \/ \E c \in Claims : CreateClaim(c) \/ DeleteClaim(c)

\* The garbage collector deletes what is controlled by a CR that is gone.
Orphan(owner) == owner # 0 /\ \A n \in Names : cr[n].uid # owner

CollectService(n) ==
    /\ Orphan(svc[n].owner)
    /\ svc' = [svc EXCEPT ![n] = NoPlain]
    /\ UNCHANGED <<uids, cr, pvc, sts, cache, queue, worker, edits, faults>>

CollectClaim(c) ==
    /\ Orphan(pvc[c].owner)
    /\ pvc' = [pvc EXCEPT ![c] = NoPlain]
    /\ UNCHANGED <<uids, cr, svc, sts, cache, queue, worker, edits, faults>>

CollectSts(n) ==
    /\ Orphan(sts[n].owner)
    /\ sts' = [sts EXCEPT ![n] = NoSts]
    /\ UNCHANGED <<uids, cr, svc, pvc, cache, queue, worker, edits, faults>>

-----------------------------------------------------------------------------
(* Informers and the work queue.  A delivery brings the cached copy up to   *)
(* date in one step: it may happen after every single write, and only the   *)
(* events of Influxdbs and of controlled StatefulSets enqueue a request.    *)

WatchCR(n) ==
    /\ pc # "down"
    /\ ccr[n] # cr[n]
    /\ ccr' = [ccr EXCEPT ![n] = cr[n]]
    /\ queue' = queue \cup {n}
    /\ UNCHANGED <<uids, api, csvc, cpvc, csts, worker, edits, faults>>

\* Mutant: the watch on StatefulSets is missing.
NoOwners(old, new, n) == {}

\* EnqueueRequestForOwner: the owner of the old object and of the new one.
OwnersOf(old, new, n) == IF old.owner # 0 \/ new.owner # 0 THEN {n} ELSE {}

WatchSts(n) ==
    /\ pc # "down"
    /\ csts[n] # sts[n]
    /\ csts' = [csts EXCEPT ![n] = sts[n]]
    /\ queue' = queue \cup OwnersOf(csts[n], sts[n], n)
    /\ UNCHANGED <<uids, api, ccr, csvc, cpvc, worker, edits, faults>>

\* Services and claims are cached because the reconciler reads them, but no
\* watch of the controller is on them.
WatchService(n) ==
    /\ pc # "down"
    /\ (n \in csvc) # Exists(svc[n])
    /\ csvc' = IF Exists(svc[n]) THEN csvc \cup {n} ELSE csvc \ {n}
    /\ UNCHANGED <<uids, api, ccr, cpvc, csts, queue, worker, edits, faults>>

WatchClaim(c) ==
    /\ pc # "down"
    /\ (c \in cpvc) # Exists(pvc[c])
    /\ cpvc' = IF Exists(pvc[c]) THEN cpvc \cup {c} ELSE cpvc \ {c}
    /\ UNCHANGED <<uids, api, ccr, csvc, csts, queue, worker, edits, faults>>

\* The periodic resync of the Influxdb informer (every 10 hours).
Resync(n) ==
    /\ pc # "down"
    /\ Exists(ccr[n])
    /\ queue' = queue \cup {n}
    /\ UNCHANGED <<uids, api, cache, worker, edits, faults>>

\* The manager starts: the caches are filled with a list of the objects, and
\* every listed object is an event.
Start ==
    /\ pc = "down"
    /\ pc' = "idle"
    /\ ccr' = cr
    /\ csvc' = {n \in Names : Exists(svc[n])}
    /\ cpvc' = {c \in Claims : Exists(pvc[c])}
    /\ csts' = sts
    /\ queue' = {n \in Names : Exists(cr[n]) \/ sts[n].owner # 0}
    /\ UNCHANGED <<uids, api, key, loc, found, edits, faults>>

-----------------------------------------------------------------------------
(* The worker.  Goto moves it inside one Reconcile call; Done, Requeue and  *)
(* Die end the call.                                                        *)

Goto(step) == pc' = step /\ UNCHANGED <<key, queue>>

Forget == key' = NoName /\ loc' = NoCR /\ found' = NoSts

\* Mutant: a finished call leaves its request behind.
DoneKeepingKey == pc' = "idle" /\ UNCHANGED <<key, loc, found, queue>>

\* return reconcile.Result{}, nil
Done == pc' = "idle" /\ Forget /\ UNCHANGED queue

\* return reconcile.Result{Requeue: true}, nil, or any error
Requeue == pc' = "idle" /\ Forget /\ queue' = queue \cup {key}

\* The process ends; its queue and its local variables go with it.
Die == pc' = "down" /\ Forget /\ queue' = {}

\* Reconcile fetches the CR; one that is not there is ignored.
Dequeue(n) ==
    /\ pc = "idle"
    /\ n \in queue
    /\ queue' = queue \ {n}
    /\ IF Exists(ccr[n])
       THEN pc' = "getService" /\ key' = n /\ loc' = ccr[n]
       ELSE UNCHANGED <<pc, key, loc>>
    /\ UNCHANGED <<uids, api, cache, found, edits, faults>>

\* reconcileService and reconcilePVC ask the cache whether the object is there.
GetService ==
    /\ pc = "getService"
    /\ Goto(IF key \in csvc THEN "getPVC" ELSE "createService")
    /\ UNCHANGED <<uids, api, cache, loc, found, edits, faults>>

GetPVC ==
    /\ pc = "getPVC"
    /\ ClaimOf[key] # NoClaim
    /\ Goto(IF ClaimOf[key] \in cpvc THEN "getSts" ELSE "createPVC")
    /\ UNCHANGED <<uids, api, cache, loc, found, edits, faults>>

\* cr.Spec.Pod.PersistentVolumeClaim.Name dereferences nil.
PanicNoPod ==
    /\ pc = "getPVC"
    /\ ClaimOf[key] = NoClaim
    /\ Die
    /\ UNCHANGED <<uids, api, cache, edits, faults>>

\* Mutants: SetControllerReference is left out; the replicas are not set; the
\* object that is sent is built anew and not the one that was read.
UncontrolledSts ==
    [rv |-> StsVersion(key), owner |-> 0, size |-> loc.size, image |-> loc.image]

TouchSts ==
    /\ sts' = [sts EXCEPT ![key] = [found EXCEPT !.rv = StsVersion(key)]]
    /\ UNCHANGED <<uids, cr, svc, pvc>>

RebuildSts ==
    /\ sts' = [sts EXCEPT ![key] = [found EXCEPT !.size = loc.size, !.owner = loc.uid,
                                                 !.image = loc.image, !.rv = StsVersion(key)]]
    /\ UNCHANGED <<uids, cr, svc, pvc>>

\* The effects of the writes on the API server.
Owned == [rv |-> 1, owner |-> loc.uid]

AddService == svc' = [svc EXCEPT ![key] = Owned] /\ UNCHANGED <<uids, cr, pvc, sts>>

AddPVC == pvc' = [pvc EXCEPT ![ClaimOf[key]] = Owned] /\ UNCHANGED <<uids, cr, svc, sts>>

statefulsetForInfluxdb ==
    [rv |-> StsVersion(key), owner |-> loc.uid, size |-> loc.size, image |-> loc.image]

AddSts == sts' = [sts EXCEPT ![key] = statefulsetForInfluxdb] /\ UNCHANGED <<uids, cr, svc, pvc>>

\* The whole cached object goes back, with the replicas changed.
ResizeSts ==
    /\ sts' = [sts EXCEPT ![key] = [found EXCEPT !.size = loc.size, !.rv = StsVersion(key)]]
    /\ UNCHANGED <<uids, cr, svc, pvc>>

\* Update(cr) stores o, the worker's copy of the CR: spec and status.  An
\* Update that changes nothing leaves the version alone.
Stored(o) == IF o = cr[key] THEN o ELSE [o EXCEPT !.rv = CRVersion(key)]

PutCR(o) == cr' = [cr EXCEPT ![key] = Stored(o)] /\ UNCHANGED <<uids, svc, pvc, sts>>

\* Mutant: the Update is sent without a resourceVersion.
AnyVersionOfCR == Exists(cr[key])

\* The API server takes an Update only of the version it has.
CurrentCR  == Exists(cr[key]) /\ cr[key].rv = loc.rv
CurrentSts == Exists(sts[key]) /\ sts[key].rv = found.rv

CreateService ==
    /\ pc = "createService"
    /\ ~Exists(svc[key])
    /\ AddService
    /\ loc' = [loc EXCEPT !.svcName = "named"]
    /\ Goto("reportService")
    /\ UNCHANGED <<cache, found, edits, faults>>

CreatePVC ==
    /\ pc = "createPVC"
    /\ ~Exists(pvc[ClaimOf[key]])
    /\ AddPVC
    /\ loc' = [loc EXCEPT !.pvcName = "named"]
    /\ Goto("reportPVC")
    /\ UNCHANGED <<cache, found, edits, faults>>

\* The answer of Update overwrites the worker's copy, version included.
ReportService ==
    /\ pc = "reportService"
    /\ CurrentCR
    /\ PutCR(loc)
    /\ loc' = Stored(loc)
    /\ Goto("getPVC")
    /\ UNCHANGED <<cache, found, edits, faults>>

ReportPVC ==
    /\ pc = "reportPVC"
    /\ CurrentCR
    /\ PutCR(loc)
    /\ loc' = Stored(loc)
    /\ Goto("getSts")
    /\ UNCHANGED <<cache, found, edits, faults>>

\* getPodNames(podList.Items), where podList lists PodTemplates.
PodNames == PodTemplates[key]

GetSts ==
    /\ pc = "getSts"
    /\ found' = csts[key]
    /\ Goto(IF ~Exists(csts[key]) THEN "createSts" ELSE "updateSts")
    /\ ~Exists(csts[key]) \/ csts[key].size # loc.size
    /\ UNCHANGED <<uids, api, cache, loc, edits, faults>>

\* The StatefulSet is as wanted: the nodes are listed.
GetStsAndNodes ==
    /\ pc = "getSts"
    /\ Exists(csts[key])
    /\ csts[key].size = loc.size
    /\ \/ /\ PodNames # loc.nodes
          /\ loc' = [loc EXCEPT !.nodes = PodNames]
          /\ Goto("reportNodes")
          /\ UNCHANGED found
       \/ /\ PodNames = loc.nodes
          /\ Done
    /\ UNCHANGED <<uids, api, cache, edits, faults>>

CreateSts ==
    /\ pc = "createSts"
    /\ ~Exists(sts[key])
    /\ AddSts
    /\ Requeue
    /\ UNCHANGED <<cache, edits, faults>>

UpdateSts ==
    /\ pc = "updateSts"
    /\ CurrentSts
    /\ ResizeSts
    /\ Requeue
    /\ UNCHANGED <<cache, edits, faults>>

ReportNodes ==
    /\ pc = "reportNodes"
    /\ CurrentCR
    /\ PutCR(loc)
    /\ Done
    /\ UNCHANGED <<cache, edits, faults>>

\* AlreadyExists, NotFound or Conflict: the copy the worker acted on is stale.
Refused ==
    /\ \/ pc = "createService" /\ Exists(svc[key])
       \/ pc = "createPVC" /\ Exists(pvc[ClaimOf[key]])
       \/ pc = "createSts" /\ Exists(sts[key])
       \/ pc = "updateSts" /\ ~CurrentSts
       \/ pc \in {"reportService", "reportPVC", "reportNodes"} /\ ~CurrentCR
    /\ Requeue
    /\ UNCHANGED <<uids, api, cache, edits, faults>>

-----------------------------------------------------------------------------
(* Faults *)

Fault == faults > 0 /\ faults' = faults - 1

\* A write fails without having had an effect.
ApiError ==
    /\ Fault
    /\ pc \in Writes
    /\ Requeue
    /\ UNCHANGED <<uids, api, cache, edits>>

\* A write has its effect but its answer is lost: the client returns an error.
LostAnswer ==
    /\ Fault
    /\ \/ pc = "createService" /\ ~Exists(svc[key]) /\ AddService
       \/ pc = "createPVC" /\ ~Exists(pvc[ClaimOf[key]]) /\ AddPVC
       \/ pc = "createSts" /\ ~Exists(sts[key]) /\ AddSts
       \/ pc = "updateSts" /\ CurrentSts /\ ResizeSts
       \/ pc \in {"reportService", "reportPVC", "reportNodes"} /\ CurrentCR /\ PutCR(loc)
    /\ Requeue
    /\ UNCHANGED <<cache, edits>>

Crash ==
    /\ Fault
    /\ pc # "down"
    /\ Die
    /\ UNCHANGED <<uids, api, cache, edits>>

-----------------------------------------------------------------------------
Collect == (\E n \in Names : CollectService(n) \/ CollectSts(n)) \/ (\E c \in Claims : CollectClaim(c))

Watch ==
    \/ \E n \in Names : WatchCR(n) \/ WatchSts(n) \/ WatchService(n) \/ Resync(n)
    \/ \E c \in Claims : WatchClaim(c)

Step ==
    \/ GetService \/ CreateService \/ ReportService
    \/ GetPVC \/ PanicNoPod \/ CreatePVC \/ ReportPVC
    \/ GetSts \/ GetStsAndNodes \/ CreateSts \/ UpdateSts \/ ReportNodes
    \/ Refused

Next ==
    \/ User \/ Collect \/ Watch
    \/ Start \/ (\E n \in Names : Dequeue(n)) \/ Step
    \/ ApiError \/ LostAnswer \/ Crash

Spec == Init /\ [][Next]_vars

\* The process is restarted when it ends, a started call goes on, the API
\* server delivers what it stores, the garbage collector runs, the resync
\* timer fires, and the work queue is first-in first-out, so a request that
\* is waiting is taken however often the others come back.
Fairness ==
    /\ WF_vars(Start)
    /\ WF_vars(Step)
    /\ \A n \in Names :
         /\ WF_vars(WatchCR(n)) /\ WF_vars(WatchSts(n)) /\ WF_vars(WatchService(n))
         /\ WF_vars(CollectService(n)) /\ WF_vars(CollectSts(n))
         /\ WF_vars(Resync(n))
         /\ SF_vars(Dequeue(n))
    /\ \A c \in Claims : WF_vars(WatchClaim(c)) /\ WF_vars(CollectClaim(c))

FairSpec == Spec /\ Fairness

-----------------------------------------------------------------------------
(* Properties *)

\* The three Updates of the CR write the whole object, spec included, from a
\* copy that may be old; none of them takes a user's change of the spec back.
SpecPreserved ==
    [][\A n \in Names :
         (edits' = edits /\ cr'[n].uid = cr[n].uid)
            => cr'[n].size = cr[n].size /\ cr'[n].image = cr[n].image]_vars

\* The Update of a StatefulSet writes the whole object, too, from a cache in
\* which it may be of an earlier CR, and with the replicas of a CR that may be
\* younger or older: only the replicas of the one that is there change.  Its
\* owner stays, so the garbage collector still deletes it with that owner.
OnlyReplicasChange ==
    [][\A n \in Names :
         (edits' = edits /\ Exists(sts[n]) /\ Exists(sts'[n]))
            => sts'[n].owner = sts[n].owner /\ sts'[n].image = sts[n].image]_vars

InSync(n) == ccr[n] = cr[n] /\ csts[n] = sts[n]

\* No wake-up is lost: when nothing is pending for a CR (its request is not
\* queued and not being worked on, its events have been delivered) its
\* StatefulSet is there and has the replicas that the spec asks for.
ReplicasMatchWhenIdle ==
    \A n \in Names :
        (pc # "down" /\ key # n /\ n \notin queue /\ InSync(n) /\ Exists(cr[n]))
            => Exists(sts[n]) /\ sts[n].size = cr[n].size

\* A stale cache may make the operator create objects for a CR that is already
\* gone, or replaced by one of the same name.  Whatever it creates is controlled
\* by the CR of its name or by one that no longer exists: the garbage collector
\* spares what it should, and can take away all the rest.
OwnedOrOrphan ==
    \A n \in Names :
        /\ Exists(svc[n]) /\ ~Orphan(svc[n].owner) => Exists(cr[n]) /\ svc[n].owner = cr[n].uid
        /\ Exists(sts[n]) /\ ~Orphan(sts[n].owner) => Exists(cr[n]) /\ sts[n].owner = cr[n].uid

\* Everything of a CR is in place, controlled by this very CR and not by an
\* earlier one of the same name.
InPlace(n) ==
    /\ Exists(svc[n]) /\ svc[n].owner = cr[n].uid
    /\ Exists(pvc[ClaimOf[n]])
    /\ Exists(sts[n]) /\ sts[n].owner = cr[n].uid /\ sts[n].size = cr[n].size

\* Once users and faults pause, every CR gets its Service, its claim and its
\* StatefulSet with the replicas of the spec, and keeps them, whatever was
\* deleted, scaled, lost or done twice before.
Converges == \A n \in Names : <>[](Exists(cr[n]) => InPlace(n))

\* Reconcile relies on "Owned objects are automatically garbage collected":
\* a stale cache may make it create objects for a CR that is already gone,
\* and they too disappear for good.
DeletedIsCleaned ==
    \A n \in Names : <>[](~Exists(cr[n]) => ~Exists(svc[n]) /\ ~Exists(sts[n]))

\* status.serviceName is the name of the Service for accessing the pods:
\* it is filled in, eventually, for a CR that has its Service.
ServiceNameReported ==
    \A n \in Names : <>[](Exists(cr[n]) /\ Exists(svc[n]) => cr[n].svcName = "named")
=============================================================================
