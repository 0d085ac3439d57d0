---------------------- MODULE InfluxdbControllerProofs ----------------------
(* Theorems about InfluxdbController, for every value of its constants. *)
EXTENDS InfluxdbController, TLAPS

LEMMA FreshVersion ==
    ASSUME NEW v1 \in Nat, NEW v2 \in Nat, NEW v3 \in Nat
    PROVE  Fresh(v1, v2, v3) \in Nat \ {0, v1, v2, v3}
<1>1. \E v \in 1..4 : v \notin {v1, v2, v3}
  OBVIOUS
<1>2. QED
  BY <1>1 DEF Fresh

LEMMA NoObjects == NoCR \in CRs /\ NoSts \in StatefulSets /\ NoPlain \in Plain
<1>1. AnySize \in Sizes /\ AnyImage \in Images
  BY InfluxdbAssumption DEF AnySize, AnyImage
<1>2. QED
  BY <1>1 DEF NoCR, NoSts, NoPlain, CRs, StatefulSets, Plain, Fields, NodeLists

LEMMA TypeInit == Init => TypeOK
BY NoObjects, InfluxdbAssumption DEF Init, TypeOK, Steps, Busy

\* What the API server stores for a CR and for a StatefulSet is one.
LEMMA ObjectTypes ==
    ASSUME TypeOK
    PROVE  /\ \A n \in Names : CRVersion(n) \in Nat /\ StsVersion(n) \in Nat
           /\ \A n \in Names, s \in Sizes, i \in Images :
                 /\ [uid |-> uids + 1, rv |-> CRVersion(n), size |-> s, image |-> i,
                     svcName |-> "", pvcName |-> "", nodes |-> {}] \in CRs
                 /\ [cr[n] EXCEPT !.size = s, !.image = i, !.rv = CRVersion(n)] \in CRs
                 /\ [sts[n] EXCEPT !.size = s, !.rv = StsVersion(n)] \in StatefulSets
           /\ Busy => /\ Owned \in Plain
                      /\ statefulsetForInfluxdb \in StatefulSets
                      /\ [found EXCEPT !.size = loc.size, !.rv = StsVersion(key)] \in StatefulSets
                      /\ Stored(loc) \in CRs
                      /\ [loc EXCEPT !.svcName = "named"] \in CRs
                      /\ [loc EXCEPT !.pvcName = "named"] \in CRs
                      /\ [loc EXCEPT !.nodes = PodNames] \in CRs
<1>1. \A n \in Names : CRVersion(n) \in Nat /\ StsVersion(n) \in Nat
  BY FreshVersion DEF TypeOK, CRVersion, StsVersion, CRs, StatefulSets
<1>2. ASSUME NEW n \in Names, NEW s \in Sizes, NEW i \in Images
      PROVE  /\ [uid |-> uids + 1, rv |-> CRVersion(n), size |-> s, image |-> i,
                 svcName |-> "", pvcName |-> "", nodes |-> {}] \in CRs
             /\ [cr[n] EXCEPT !.size = s, !.image = i, !.rv = CRVersion(n)] \in CRs
             /\ [sts[n] EXCEPT !.size = s, !.rv = StsVersion(n)] \in StatefulSets
  <2>1. [uid |-> uids + 1, rv |-> CRVersion(n), size |-> s, image |-> i,
         svcName |-> "", pvcName |-> "", nodes |-> {}] \in CRs
    <3>1. "" \in Fields /\ {} \in NodeLists /\ uids + 1 \in Nat
      BY DEF TypeOK, Fields, NodeLists
    <3>2. QED
      BY <1>1, <3>1 DEF CRs
  <2>2. [cr[n] EXCEPT !.size = s, !.image = i, !.rv = CRVersion(n)] \in CRs
    BY <1>1 DEF TypeOK, CRs
  <2>3. [sts[n] EXCEPT !.size = s, !.rv = StsVersion(n)] \in StatefulSets
    BY <1>1 DEF TypeOK, StatefulSets
  <2>4. QED
    BY <2>1, <2>2, <2>3
<1>3. ASSUME Busy
      PROVE  /\ Owned \in Plain
             /\ statefulsetForInfluxdb \in StatefulSets
             /\ [found EXCEPT !.size = loc.size, !.rv = StsVersion(key)] \in StatefulSets
             /\ Stored(loc) \in CRs
             /\ [loc EXCEPT !.svcName = "named"] \in CRs
             /\ [loc EXCEPT !.pvcName = "named"] \in CRs
             /\ [loc EXCEPT !.nodes = PodNames] \in CRs
  <2>1. key \in Names /\ loc \in CRs /\ found \in StatefulSets
    BY <1>3 DEF TypeOK
  <2>2. Owned \in Plain
    BY <2>1 DEF Owned, Plain, CRs
  <2>3. statefulsetForInfluxdb \in StatefulSets
    BY <1>1, <2>1 DEF statefulsetForInfluxdb, StatefulSets, CRs
  <2>4. [found EXCEPT !.size = loc.size, !.rv = StsVersion(key)] \in StatefulSets
    BY <1>1, <2>1 DEF StatefulSets, CRs
  <2>5. Stored(loc) \in CRs
    BY <1>1, <2>1 DEF Stored, CRs
  <2>6. [loc EXCEPT !.svcName = "named"] \in CRs /\ [loc EXCEPT !.pvcName = "named"] \in CRs
    BY <2>1 DEF CRs, Fields
  <2>7. [loc EXCEPT !.nodes = PodNames] \in CRs
    BY <2>1 DEF CRs, NodeLists, PodNames
  <2>8. QED
    BY <2>2, <2>3, <2>4, <2>5, <2>6, <2>7
<1>4. QED
  BY <1>1, <1>2, <1>3

LEMMA Budgets ==
    ASSUME TypeOK
    PROVE  (Edit => edits' \in Nat /\ edits' # edits) /\ (Fault => faults' \in Nat)
BY DEF TypeOK, Edit, Fault

LEMMA TypeUser == TypeOK /\ User => TypeOK'
<1> SUFFICES ASSUME TypeOK, User
             PROVE  TypeOK'
  OBVIOUS
<1>1. edits' \in Nat
  BY Budgets DEF User, CreateCR, EditCR, DeleteCR, DeleteService, DeleteSts,
                 WriteSts, CreateClaim, DeleteClaim
<1> USE <1>1 DEF TypeOK, cache, worker, Busy
<1>2. ASSUME NEW n \in Names, NEW s \in Sizes, NEW i \in Images, CreateCR(n, s, i)
      PROVE  TypeOK'
  <2>1. uids' \in Nat
    <3>1. uids' = uids + 1 /\ uids \in Nat
      BY <1>2 DEF CreateCR
    <3>2. QED
      BY ONLY <3>1
  <2>2. cr' \in [Names -> CRs]
    BY <1>2, ObjectTypes DEF CreateCR
  <2>3. QED
    BY <1>2, <2>1, <2>2 DEF CreateCR
<1>3. ASSUME NEW n \in Names, NEW s \in Sizes, NEW i \in Images, EditCR(n, s, i)
      PROVE  TypeOK'
  <2>1. cr' = [cr EXCEPT ![n] = [cr[n] EXCEPT !.size = s, !.image = i, !.rv = CRVersion(n)]]
    BY <1>3 DEF EditCR
  <2>2. cr' \in [Names -> CRs]
    BY <2>1, ObjectTypes
  <2>3. QED
    BY <1>3, <2>2 DEF EditCR
<1>4. ASSUME NEW n \in Names, DeleteCR(n) \/ DeleteService(n) \/ DeleteSts(n)
      PROVE  TypeOK'
  BY <1>4, NoObjects DEF DeleteCR, DeleteService, DeleteSts
<1>5. ASSUME NEW n \in Names, NEW s \in Sizes, WriteSts(n, s)
      PROVE  TypeOK'
  <2>1. sts' = [sts EXCEPT ![n] = [sts[n] EXCEPT !.size = s, !.rv = StsVersion(n)]]
    BY <1>5 DEF WriteSts
  <2>2. sts' \in [Names -> StatefulSets]
    BY <2>1, ObjectTypes, InfluxdbAssumption
  <2>3. QED
    BY <1>5, <2>2 DEF WriteSts
<1>6. ASSUME NEW c \in Claims, CreateClaim(c) \/ DeleteClaim(c)
      PROVE  TypeOK'
  <2>1. [rv |-> 1, owner |-> 0] \in Plain
    BY DEF Plain
  <2>2. QED
    BY <1>6, <2>1, NoObjects DEF CreateClaim, DeleteClaim
<1>7. QED
  BY <1>2, <1>3, <1>4, <1>5, <1>6 DEF User

LEMMA TypeSurroundings == TypeOK /\ (Collect \/ Watch \/ Start) => TypeOK'
<1> SUFFICES ASSUME TypeOK, Collect \/ Watch \/ Start
             PROVE  TypeOK'
  OBVIOUS
<1> USE NoObjects DEF TypeOK, api, cache, worker, Busy
<1>1. ASSUME NEW n \in Names, CollectService(n) \/ CollectSts(n)
      PROVE  TypeOK'
  BY <1>1 DEF CollectService, CollectSts
<1>2. ASSUME NEW c \in Claims, CollectClaim(c)
      PROVE  TypeOK'
  BY <1>2 DEF CollectClaim
<1>3. ASSUME NEW n \in Names, WatchCR(n) \/ WatchService(n) \/ Resync(n)
      PROVE  TypeOK'
  BY <1>3 DEF WatchCR, WatchService, Resync
<1>4. ASSUME NEW n \in Names, WatchSts(n)
      PROVE  TypeOK'
  BY <1>4 DEF WatchSts, OwnersOf
<1>5. ASSUME NEW c \in Claims, WatchClaim(c)
      PROVE  TypeOK'
  BY <1>5 DEF WatchClaim
<1>6. ASSUME Start
      PROVE  TypeOK'
  BY <1>6 DEF Start, Steps
<1>7. QED
  BY <1>1, <1>2, <1>3, <1>4, <1>5, <1>6 DEF Collect, Watch

LEMMA TypeWorker == TypeOK /\ ((\E n \in Names : Dequeue(n)) \/ Step) => TypeOK'
<1> SUFFICES ASSUME TypeOK, (\E n \in Names : Dequeue(n)) \/ Step
             PROVE  TypeOK'
  OBVIOUS
<1> USE ObjectTypes, NoObjects, InfluxdbAssumption
<1> USE DEF TypeOK, api, cache, Busy, Steps, Goto, Done, Requeue, Die, Forget
<1>1. ASSUME NEW n \in Names, Dequeue(n)
      PROVE  TypeOK'
  <2>1. CASE Exists(ccr[n])
    <3>1. key' \in Names /\ loc' \in CRs /\ pc' \in Steps /\ Busy'
      BY ONLY TypeOK, <1>1, <2>1 DEF Dequeue, TypeOK, Busy, Steps
    <3>2. QED
      BY <1>1, <3>1 DEF Dequeue
  <2>2. CASE ~Exists(ccr[n])
    BY <1>1, <2>2 DEF Dequeue
  <2>3. QED
    BY <2>1, <2>2
<1>2. CASE GetService \/ GetPVC \/ PanicNoPod
  BY <1>2 DEF GetService, GetPVC, PanicNoPod
<1>3. CASE CreateService
  BY <1>3 DEF CreateService, AddService
<1>4. CASE CreatePVC
  BY <1>4 DEF CreatePVC, AddPVC
<1>5. CASE ReportService
  BY <1>5 DEF ReportService, PutCR
<1>6. CASE ReportPVC
  BY <1>6 DEF ReportPVC, PutCR
<1>7. CASE GetSts
  BY <1>7 DEF GetSts
<1>8. CASE GetStsAndNodes
  BY <1>8 DEF GetStsAndNodes
<1>9. CASE CreateSts
  BY <1>9 DEF CreateSts, AddSts
<1>10. CASE UpdateSts
  BY <1>10 DEF UpdateSts, ResizeSts
<1>11. CASE ReportNodes
  BY <1>11 DEF ReportNodes, PutCR
<1>12. CASE Refused
  BY <1>12 DEF Refused
<1>13. QED
  BY <1>1, <1>2, <1>3, <1>4, <1>5, <1>6, <1>7, <1>8, <1>9, <1>10, <1>11, <1>12 DEF Step

LEMMA TypeFaults == TypeOK /\ (ApiError \/ LostAnswer \/ Crash) => TypeOK'
<1> SUFFICES ASSUME TypeOK, ApiError \/ LostAnswer \/ Crash
             PROVE  TypeOK'
  OBVIOUS
<1> USE ObjectTypes, NoObjects, InfluxdbAssumption, Budgets
<1> USE DEF TypeOK, api, cache, Busy, Steps, Requeue, Die, Forget
<1>1. CASE ApiError \/ Crash
  BY <1>1 DEF ApiError, Crash, Writes
<1>2. CASE LostAnswer
  <2>1. CASE pc = "createService" /\ AddService
    BY <1>2, <2>1 DEF LostAnswer, AddService
  <2>2. CASE pc = "createPVC" /\ AddPVC
    BY <1>2, <2>2 DEF LostAnswer, AddPVC
  <2>3. CASE pc = "createSts" /\ AddSts
    BY <1>2, <2>3 DEF LostAnswer, AddSts
  <2>4. CASE pc = "updateSts" /\ ResizeSts
    BY <1>2, <2>4 DEF LostAnswer, ResizeSts
  <2>5. CASE pc \in {"reportService", "reportPVC", "reportNodes"} /\ PutCR(loc)
    BY <1>2, <2>5 DEF LostAnswer, PutCR
  <2>6. QED
    BY <1>2, <2>1, <2>2, <2>3, <2>4, <2>5 DEF LostAnswer
<1>3. QED
  BY <1>1, <1>2

\* Every variable of the controller, of its caches and of the API server keeps
\* its type, and the worker holds a request exactly while a call is running.
THEOREM TypeCorrect == Spec => []TypeOK
<1>1. TypeOK /\ [Next]_vars => TypeOK'
  <2> SUFFICES ASSUME TypeOK, [Next]_vars
               PROVE  TypeOK'
    OBVIOUS
  <2>1. CASE UNCHANGED vars
    BY <2>1 DEF TypeOK, vars, api, cache, worker, Busy
  <2>2. QED
    BY <2>1, TypeUser, TypeSurroundings, TypeWorker, TypeFaults DEF Next
<1>2. QED
  BY <1>1, TypeInit, PTL DEF Spec

-----------------------------------------------------------------------------
(* The inductive invariants behind SpecPreserved and ReplicasMatchWhenIdle  *)

SameSpec(a, b) == a.uid = b.uid /\ a.size = b.size /\ a.image = b.image

\* Copies of a CR with the version of the stored one have its spec.
CopiesAgree ==
    /\ \A n \in Names : Exists(cr[n]) /\ ccr[n].rv = cr[n].rv => SameSpec(ccr[n], cr[n])
    /\ Busy /\ CurrentCR => SameSpec(loc, cr[key])

\* A CR that exists has a uid, in every copy ...
HaveUids ==
    /\ \A n \in Names : (Exists(cr[n]) => cr[n].uid # 0) /\ (Exists(ccr[n]) => ccr[n].uid # 0)
    /\ Busy => loc.uid # 0

\* ... so every StatefulSet is controlled, and its events find a request.
HaveOwners ==
    /\ \A n \in Names : (Exists(sts[n]) => sts[n].owner # 0) /\ (Exists(csts[n]) => csts[n].owner # 0)
    /\ pc = "updateSts" => found.owner # 0

CacheMatches(n) == Exists(csts[n]) /\ csts[n].size = ccr[n].size

\* What the worker has read is still what the caches hold unless its request
\* has been queued again, and a CR left alone has its replicas in the caches.
NoLostWakeup ==
    /\ Busy /\ key \notin queue => Exists(ccr[key]) /\ loc.size = ccr[key].size
    /\ pc = "reportNodes" /\ key \notin queue => CacheMatches(key)
    /\ \A n \in Names :
          (pc # "down" /\ key # n /\ n \notin queue /\ Exists(ccr[n])) => CacheMatches(n)

LEMMA NewVersions ==
    ASSUME TypeOK, NEW n \in Names
    PROVE  /\ CRVersion(n) \in Nat \ {0, cr[n].rv, ccr[n].rv, loc.rv}
           /\ StsVersion(n) \in Nat \ {0, sts[n].rv, csts[n].rv, found.rv}
BY FreshVersion DEF TypeOK, CRVersion, StsVersion, CRs, StatefulSets

\* The first half of CopiesAgree, about the cached copies alone.
CachedAgree == \A n \in Names : Exists(cr[n]) /\ ccr[n].rv = cr[n].rv => SameSpec(ccr[n], cr[n])

\* An accepted Update of the CR stores the spec that is already there.
LEMMA PutKeepsSpec ==
    ASSUME TypeOK, CopiesAgree, Busy, CurrentCR, PutCR(loc), UNCHANGED ccr
    PROVE  /\ CachedAgree'
           /\ SameSpec(Stored(loc), cr[key])
           /\ cr' = [cr EXCEPT ![key] = Stored(loc)]
           /\ cr'[key] = Stored(loc)
<1>1. key \in Names /\ cr \in [Names -> CRs] /\ loc \in CRs
  BY DEF TypeOK
<1>2. SameSpec(loc, cr[key])
  BY DEF CopiesAgree
<1>3. SameSpec(Stored(loc), cr[key])
  BY <1>1, <1>2 DEF SameSpec, Stored, CRs
<1>4. cr' = [cr EXCEPT ![key] = Stored(loc)] /\ cr'[key] = Stored(loc)
  BY <1>1 DEF PutCR
<1>5. ASSUME NEW n \in Names, Exists(cr[n])', (ccr[n].rv = cr[n].rv)'
      PROVE  SameSpec(ccr[n], cr[n])'
  <2>1. CASE n # key
    BY <1>1, <1>4, <1>5, <2>1 DEF CopiesAgree, Exists, SameSpec
  <2>2. CASE n = key /\ loc = cr[key]
    BY <1>1, <1>4, <1>5, <2>2 DEF CopiesAgree, Exists, SameSpec, Stored
  <2>3. CASE n = key /\ loc # cr[key]
    <3>1. Stored(loc).rv = CRVersion(key)
      BY <1>1, <2>3 DEF Stored, CRs
    <3>2. QED
      BY <1>4, <1>5, <2>3, <3>1, NewVersions
  <2>4. QED
    BY <2>1, <2>2, <2>3
<1>6. QED
  BY <1>3, <1>4, <1>5 DEF CachedAgree

\* A step that leaves every copy of every CR alone.
LEMMA AgreeFrame ==
    ASSUME CopiesAgree, UNCHANGED <<cr, ccr, loc, key>>, Busy' => Busy
    PROVE  CopiesAgree'
BY DEF CopiesAgree, SameSpec, CurrentCR, Exists

\* A step that ends the call and leaves the CRs alone.
LEMMA AgreeEnd ==
    ASSUME CopiesAgree, UNCHANGED <<cr, ccr>>, ~Busy'
    PROVE  CopiesAgree'
BY DEF CopiesAgree, SameSpec, Exists

\* A step inside a call that touches no more than the status of the copy.
LEMMA AgreeStatus ==
    ASSUME CopiesAgree, UNCHANGED <<cr, ccr, key>>, Busy, loc'.rv = loc.rv, SameSpec(loc', loc)
    PROVE  CopiesAgree'
BY DEF CopiesAgree, SameSpec, CurrentCR, Exists

LEMMA AgreeUser ==
    ASSUME TypeOK, CopiesAgree, User
    PROVE  CopiesAgree'
<1>1. ASSUME NEW n \in Names, NEW s \in Sizes, NEW i \in Images,
             CreateCR(n, s, i) \/ EditCR(n, s, i) \/ DeleteCR(n)
      PROVE  CopiesAgree'
  <2>1. /\ UNCHANGED <<ccr, loc, key, pc>>
        /\ \A m \in Names \ {n} : cr'[m] = cr[m]
        /\ cr'[n].rv \notin {ccr[n].rv, loc.rv} \/ cr'[n].rv = 0
    <3>1. CASE CreateCR(n, s, i)
      BY <3>1, NewVersions DEF CreateCR, cache, worker, TypeOK
    <3>2. CASE EditCR(n, s, i)
      <4>1. cr' = [cr EXCEPT ![n] = [cr[n] EXCEPT !.size = s, !.image = i, !.rv = CRVersion(n)]]
        BY <3>2 DEF EditCR
      <4>2. cr'[n].rv = CRVersion(n) /\ \A m \in Names \ {n} : cr'[m] = cr[m]
        BY <4>1 DEF TypeOK, CRs
      <4>3. QED
        BY <3>2, <4>2, NewVersions DEF EditCR, cache, worker
    <3>3. CASE DeleteCR(n)
      BY <3>3 DEF DeleteCR, cache, worker, TypeOK, NoCR
    <3>4. QED
      BY <1>1, <3>1, <3>2, <3>3
  <2>2. Busy' = Busy /\ (Busy => key \in Names)
    BY <2>1 DEF Busy, TypeOK
  <2>3. QED
    BY <2>1, <2>2 DEF CopiesAgree, SameSpec, CurrentCR, Exists
<1>2. ASSUME UNCHANGED <<cr, cache, worker>>
      PROVE  CopiesAgree'
  BY <1>2, AgreeFrame DEF cache, worker, Busy
<1>3. ASSUME NEW n \in Names, DeleteService(n) \/ DeleteSts(n) \/ \E s \in Sizes : WriteSts(n, s)
      PROVE  CopiesAgree'
  BY <1>2, <1>3 DEF DeleteService, DeleteSts, WriteSts
<1>4. ASSUME NEW c \in Claims, CreateClaim(c) \/ DeleteClaim(c)
      PROVE  CopiesAgree'
  BY <1>2, <1>4 DEF CreateClaim, DeleteClaim
<1>5. ASSUME NEW n \in Names, DeleteCR(n)
      PROVE  CopiesAgree'
  BY <1>1, <1>5, InfluxdbAssumption
<1>6. QED
  BY <1>1, <1>3, <1>4, <1>5 DEF User

LEMMA AgreeSurroundings ==
    ASSUME TypeOK, CopiesAgree, Collect \/ Watch \/ Start
    PROVE  CopiesAgree'
<1>1. ASSUME UNCHANGED <<cr, ccr, worker>>
      PROVE  CopiesAgree'
  BY <1>1, AgreeFrame DEF worker, Busy
<1>2. CASE Collect
  BY <1>1, <1>2 DEF Collect, CollectService, CollectSts, CollectClaim, cache
<1>3. ASSUME NEW n \in Names, WatchSts(n) \/ WatchService(n) \/ Resync(n)
      PROVE  CopiesAgree'
  BY <1>1, <1>3 DEF WatchSts, WatchService, Resync, api, cache
<1>4. ASSUME NEW c \in Claims, WatchClaim(c)
      PROVE  CopiesAgree'
  BY <1>1, <1>4 DEF WatchClaim, api
<1>5. ASSUME NEW n \in Names, WatchCR(n)
      PROVE  CopiesAgree'
  BY <1>5 DEF WatchCR, CopiesAgree, SameSpec, CurrentCR, Exists, Busy, TypeOK, api, worker
<1>6. CASE Start
  BY <1>6 DEF Start, CopiesAgree, SameSpec, CurrentCR, Exists, Busy, api
<1>7. QED
  BY <1>2, <1>3, <1>4, <1>5, <1>6 DEF Watch

LEMMA AgreeWorker ==
    ASSUME TypeOK, CopiesAgree, (\E n \in Names : Dequeue(n)) \/ Step
    PROVE  CopiesAgree'
<1>1. ASSUME NEW n \in Names, Dequeue(n)
      PROVE  CopiesAgree'
  BY <1>1 DEF Dequeue, CopiesAgree, SameSpec, CurrentCR, Exists, Busy, api, cache
<1>2. CASE GetService \/ GetPVC \/ GetSts
  <2>1. UNCHANGED <<cr, ccr, loc, key>> /\ Busy
    BY <1>2 DEF GetService, GetPVC, GetSts, Goto, api, cache, Busy
  <2>2. QED
    BY <2>1, AgreeFrame
<1>3. CASE PanicNoPod \/ Refused \/ CreateSts \/ UpdateSts
  <2>1. UNCHANGED <<cr, ccr>> /\ ~Busy'
    BY <1>3 DEF PanicNoPod, Refused, CreateSts, UpdateSts, AddSts, ResizeSts, Die, Requeue,
                api, cache, Busy
  <2>2. QED
    BY <2>1, AgreeEnd
<1>4. CASE CreateService \/ CreatePVC
  <2>1. UNCHANGED <<cr, ccr, key>> /\ Busy
    BY <1>4 DEF CreateService, CreatePVC, AddService, AddPVC, Goto, cache, Busy
  <2>2. loc'.rv = loc.rv /\ SameSpec(loc', loc)
    BY <1>4 DEF CreateService, CreatePVC, SameSpec, TypeOK, CRs
  <2>3. QED
    BY <2>1, <2>2, AgreeStatus
<1>5. CASE GetStsAndNodes
  <2>1. CASE PodNames # loc.nodes
    <3>1. UNCHANGED <<cr, ccr, key>> /\ Busy
      BY <1>5, <2>1 DEF GetStsAndNodes, Goto, api, cache, Busy
    <3>2. loc'.rv = loc.rv /\ SameSpec(loc', loc)
      BY <1>5, <2>1 DEF GetStsAndNodes, SameSpec, TypeOK, CRs
    <3>3. QED
      BY <3>1, <3>2, AgreeStatus
  <2>2. CASE PodNames = loc.nodes
    <3>1. UNCHANGED <<cr, ccr>> /\ ~Busy'
      BY <1>5, <2>2 DEF GetStsAndNodes, Done, api, cache, Busy
    <3>2. QED
      BY <3>1, AgreeEnd
  <2>3. QED
    BY <2>1, <2>2
<1>6. CASE ReportService \/ ReportPVC
  <2>1. /\ Busy /\ CurrentCR /\ PutCR(loc) /\ UNCHANGED <<ccr, key>>
        /\ loc' = Stored(loc)
    BY <1>6 DEF ReportService, ReportPVC, Goto, cache, Busy
  <2>2. CachedAgree' /\ cr'[key] = Stored(loc)
    BY <2>1, PutKeepsSpec
  <2>3. QED
    BY <2>1, <2>2 DEF CopiesAgree, CachedAgree, SameSpec
<1>7. CASE ReportNodes
  <2>1. Busy /\ CurrentCR /\ PutCR(loc) /\ UNCHANGED ccr /\ ~Busy'
    BY <1>7 DEF ReportNodes, Done, cache, Busy
  <2>2. CachedAgree'
    BY <2>1, PutKeepsSpec
  <2>3. QED
    BY <2>1, <2>2 DEF CopiesAgree, CachedAgree
<1>8. QED
  BY <1>1, <1>2, <1>3, <1>4, <1>5, <1>6, <1>7 DEF Step

LEMMA AgreeFaults ==
    ASSUME TypeOK, CopiesAgree, ApiError \/ LostAnswer \/ Crash
    PROVE  CopiesAgree'
<1>1. UNCHANGED ccr /\ ~Busy'
  BY DEF ApiError, LostAnswer, Crash, Requeue, Die, cache, Busy
<1>2. CASE UNCHANGED cr
  BY <1>1, <1>2, AgreeEnd
<1>3. CASE pc \in {"reportService", "reportPVC", "reportNodes"} /\ CurrentCR /\ PutCR(loc)
  <2>1. Busy
    BY <1>3 DEF Busy
  <2>2. CachedAgree'
    BY <1>1, <1>3, <2>1, PutKeepsSpec
  <2>3. QED
    BY <1>1, <2>2 DEF CopiesAgree, CachedAgree
<1>4. QED
  BY <1>2, <1>3 DEF ApiError, LostAnswer, Crash, AddService, AddPVC, AddSts, ResizeSts, api

LEMMA CopiesAlwaysAgree == Spec => []CopiesAgree
<1>1. Init => CopiesAgree
  <2>1. NoCR.rv = 0
    BY DEF NoCR
  <2>2. QED
    BY <2>1 DEF Init, CopiesAgree, Busy, Exists
<1>2. TypeOK /\ CopiesAgree /\ [Next]_vars => CopiesAgree'
  <2> SUFFICES ASSUME TypeOK, CopiesAgree, [Next]_vars
               PROVE  CopiesAgree'
    OBVIOUS
  <2>1. CASE UNCHANGED vars
    BY <2>1, AgreeFrame DEF vars, api, cache, worker, Busy
  <2>2. QED
    BY <2>1, AgreeUser, AgreeSurroundings, AgreeWorker, AgreeFaults DEF Next
<1>3. QED
  BY <1>1, <1>2, TypeCorrect, PTL DEF Spec

\* No step of the operator, of its informers or of a fault changes the spec of
\* a CR: an Update that would is one the API server refuses.
THEOREM SpecIsPreserved == Spec => SpecPreserved
<1> DEFINE Kept == \A n \in Names :
             (edits' = edits /\ cr'[n].uid = cr[n].uid)
                => cr'[n].size = cr[n].size /\ cr'[n].image = cr[n].image
<1>1. TypeOK /\ CopiesAgree /\ [Next]_vars => [Kept]_vars
  <2> SUFFICES ASSUME TypeOK, CopiesAgree, Next
               PROVE  Kept
    OBVIOUS
  <2>1. CASE UNCHANGED cr
    BY <2>1
  <2>2. CASE Busy /\ CurrentCR /\ PutCR(loc) /\ UNCHANGED ccr
    <3>1. SameSpec(Stored(loc), cr[key]) /\ cr' = [cr EXCEPT ![key] = Stored(loc)]
      BY <2>2, PutKeepsSpec
    <3>2. QED
      BY <3>1 DEF SameSpec, TypeOK
  <2>3. CASE edits' # edits
    BY <2>3
  <2>4. User => edits' # edits
    BY Budgets DEF User, CreateCR, EditCR, DeleteCR, DeleteService, DeleteSts, WriteSts,
                   CreateClaim, DeleteClaim
  <2>5. Collect \/ Watch \/ Start \/ (\E n \in Names : Dequeue(n)) => UNCHANGED cr
    BY DEF Collect, CollectService, CollectSts, CollectClaim, Watch, WatchCR, WatchSts,
           WatchService, WatchClaim, Resync, Start, Dequeue, api
  <2>6. Step => UNCHANGED cr \/ (Busy /\ CurrentCR /\ PutCR(loc) /\ UNCHANGED ccr)
    BY DEF Step, GetService, CreateService, ReportService, GetPVC, PanicNoPod, CreatePVC,
           ReportPVC, GetSts, GetStsAndNodes, CreateSts, UpdateSts, ReportNodes, Refused,
           AddService, AddPVC, AddSts, ResizeSts, Busy, api, cache
  <2>7. ApiError \/ LostAnswer \/ Crash
          => UNCHANGED cr \/ (Busy /\ CurrentCR /\ PutCR(loc) /\ UNCHANGED ccr)
    BY DEF ApiError, LostAnswer, Crash, AddService, AddPVC, AddSts, ResizeSts, Busy, api, cache
  <2>8. QED
    BY <2>1, <2>2, <2>3, <2>4, <2>5, <2>6, <2>7 DEF Next
<1>2. QED
  BY <1>1, TypeCorrect, CopiesAlwaysAgree, PTL DEF Spec, SpecPreserved

-----------------------------------------------------------------------------
LEMMA UidsFrame ==
    ASSUME HaveUids, UNCHANGED <<cr, ccr>>, Busy' => Busy /\ loc'.uid = loc.uid
    PROVE  HaveUids'
BY DEF HaveUids, Exists

LEMMA UidsUser ==
    ASSUME TypeOK, HaveUids, User
    PROVE  HaveUids'
<1>1. UNCHANGED <<ccr, loc, pc>> /\ Busy' = Busy
  BY DEF User, CreateCR, EditCR, DeleteCR, DeleteService, DeleteSts, WriteSts, CreateClaim,
         DeleteClaim, cache, worker, Busy
<1>2. CASE UNCHANGED cr
  BY <1>1, <1>2, UidsFrame
<1>3. ASSUME NEW n \in Names, NEW s \in Sizes, NEW i \in Images, CreateCR(n, s, i)
      PROVE  HaveUids'
  <2>1. cr'[n].uid = uids + 1 /\ uids \in Nat /\ \A m \in Names \ {n} : cr'[m] = cr[m]
    BY <1>3 DEF CreateCR, TypeOK
  <2>2. cr'[n].uid # 0
    BY ONLY <2>1
  <2>3. QED
    BY <1>1, <2>1, <2>2 DEF HaveUids, Exists
<1>4. ASSUME NEW n \in Names, NEW s \in Sizes, NEW i \in Images, EditCR(n, s, i)
      PROVE  HaveUids'
  <2>1. cr' = [cr EXCEPT ![n] = [cr[n] EXCEPT !.size = s, !.image = i, !.rv = CRVersion(n)]]
    BY <1>4 DEF EditCR
  <2>2. cr'[n].uid = cr[n].uid /\ \A m \in Names \ {n} : cr'[m] = cr[m]
    BY <2>1 DEF TypeOK, CRs
  <2>3. QED
    BY <1>1, <1>4, <2>2 DEF HaveUids, EditCR, Exists
<1>5. ASSUME NEW n \in Names, DeleteCR(n)
      PROVE  HaveUids'
  <2>1. cr' = [cr EXCEPT ![n] = NoCR] /\ NoCR.rv = 0
    BY <1>5 DEF DeleteCR, NoCR
  <2>2. QED
    BY <1>1, <2>1 DEF HaveUids, TypeOK, Exists
<1>6. QED
  BY <1>2, <1>3, <1>4, <1>5 DEF User, DeleteService, DeleteSts, WriteSts, CreateClaim, DeleteClaim

LEMMA UidsStep ==
    ASSUME TypeOK, CopiesAgree, HaveUids, [Next]_vars
    PROVE  HaveUids'
<1>1. CASE UNCHANGED vars
  BY <1>1, UidsFrame DEF vars, api, cache, worker, Busy
<1>2. CASE Collect
  BY <1>2, UidsFrame DEF Collect, CollectService, CollectSts, CollectClaim, cache, worker, Busy
<1>3. CASE Watch
  <2>1. ASSUME NEW n \in Names, WatchCR(n)
        PROVE  HaveUids'
    BY <2>1 DEF WatchCR, HaveUids, TypeOK, Exists, Busy, api, worker
  <2>2. QED
    BY <1>3, <2>1, UidsFrame DEF Watch, WatchSts, WatchService, WatchClaim, Resync, api, cache,
                                 worker, Busy
<1>4. CASE Start
  BY <1>4 DEF Start, HaveUids, Busy, Exists, api
<1>5. ASSUME NEW n \in Names, Dequeue(n)
      PROVE  HaveUids'
  BY <1>5 DEF Dequeue, HaveUids, Exists, Busy, api, cache
<1>6. ASSUME CurrentCR, Busy, PutCR(loc), UNCHANGED ccr, Busy' => loc' = Stored(loc)
      PROVE  HaveUids'
  <2>1. SameSpec(Stored(loc), cr[key]) /\ cr' = [cr EXCEPT ![key] = Stored(loc)] /\ key \in Names
    BY <1>6, PutKeepsSpec DEF TypeOK
  <2>2. Stored(loc).uid # 0
    BY <1>6, <2>1 DEF SameSpec, HaveUids, CurrentCR
  <2>3. QED
    BY <1>6, <2>1, <2>2 DEF HaveUids, TypeOK, Exists
<1>7. CASE Step
  <2>1. CASE ReportService \/ ReportPVC \/ ReportNodes
    BY <1>6, <2>1 DEF ReportService, ReportPVC, ReportNodes, Done, cache, Busy
  <2>2. CASE CreateService \/ CreatePVC
    BY <2>2, UidsFrame DEF CreateService, CreatePVC, AddService, AddPVC, cache, Busy, TypeOK, CRs
  <2>3. CASE GetService \/ GetPVC \/ GetSts \/ PanicNoPod
    BY <2>3, UidsFrame DEF GetService, GetPVC, GetSts, PanicNoPod, Die, api, cache, Busy
  <2>4. CASE GetStsAndNodes
    BY <2>4, UidsFrame DEF GetStsAndNodes, Done, api, cache, Busy, TypeOK, CRs
  <2>5. CASE CreateSts \/ UpdateSts \/ Refused
    BY <2>5, UidsFrame DEF CreateSts, UpdateSts, Refused, AddSts, ResizeSts, Requeue, api, cache, Busy
  <2>6. QED
    BY <1>7, <2>1, <2>2, <2>3, <2>4, <2>5 DEF Step
<1>8. CASE ApiError \/ LostAnswer \/ Crash
  <2>1. ~Busy' /\ UNCHANGED ccr
    BY <1>8 DEF ApiError, LostAnswer, Crash, Requeue, Die, cache, Busy
  <2>2. CASE UNCHANGED cr
    BY <2>1, <2>2, UidsFrame
  <2>3. CASE pc \in {"reportService", "reportPVC", "reportNodes"} /\ CurrentCR /\ PutCR(loc)
    BY <1>6, <2>1, <2>3 DEF Busy
  <2>4. QED
    BY <1>8, <2>2, <2>3 DEF ApiError, LostAnswer, Crash, AddService, AddPVC, AddSts, ResizeSts, api
<1>9. QED
  BY <1>1, <1>2, <1>3, <1>4, <1>5, <1>7, <1>8, UidsUser DEF Next

LEMMA OwnersFrame ==
    ASSUME HaveOwners, UNCHANGED <<sts, csts>>,
           pc' = "updateSts" => pc = "updateSts" /\ found' = found
    PROVE  HaveOwners'
BY DEF HaveOwners, Exists

\* A StatefulSet that the worker stores is controlled by the CR it worked on.
LEMMA OwnersStored ==
    ASSUME TypeOK, HaveUids, HaveOwners, UNCHANGED csts, pc' # "updateSts",
           \/ pc = "createSts" /\ AddSts
           \/ pc = "updateSts" /\ ResizeSts
    PROVE  HaveOwners'
<1>1. key \in Names /\ Busy
  BY DEF TypeOK, Busy
<1>2. CASE pc = "createSts" /\ AddSts
  BY <1>1, <1>2 DEF AddSts, statefulsetForInfluxdb, HaveUids, HaveOwners, TypeOK, Exists
<1>3. CASE pc = "updateSts" /\ ResizeSts
  <2>1. [found EXCEPT !.size = loc.size, !.rv = StsVersion(key)].owner = found.owner
    BY DEF TypeOK, StatefulSets
  <2>2. QED
    BY <1>1, <1>3, <2>1 DEF ResizeSts, HaveOwners, TypeOK, Exists
<1>4. QED
  BY <1>2, <1>3

LEMMA OwnersStep ==
    ASSUME TypeOK, HaveUids, HaveOwners, [Next]_vars
    PROVE  HaveOwners'
<1>1. CASE UNCHANGED vars
  BY <1>1, OwnersFrame DEF vars, api, cache, worker
<1>2. CASE User
  <2>1. ASSUME NEW n \in Names, NEW s \in Sizes, WriteSts(n, s)
        PROVE  HaveOwners'
    <3>1. sts' = [sts EXCEPT ![n] = [sts[n] EXCEPT !.size = s, !.rv = StsVersion(n)]]
      BY <2>1 DEF WriteSts
    <3>2. sts'[n].owner = sts[n].owner /\ \A m \in Names \ {n} : sts'[m] = sts[m]
      BY <3>1 DEF TypeOK, StatefulSets
    <3>3. QED
      BY <2>1, <3>2 DEF WriteSts, HaveOwners, Exists, cache, worker
  <2>2. ASSUME NEW n \in Names, DeleteSts(n)
        PROVE  HaveOwners'
    <3>1. sts' = [sts EXCEPT ![n] = NoSts] /\ NoSts.rv = 0
      BY <2>2 DEF DeleteSts, NoSts
    <3>2. QED
      BY <2>2, <3>1 DEF DeleteSts, HaveOwners, TypeOK, Exists, cache, worker
  <2>3. QED
    BY <1>2, <2>1, <2>2, OwnersFrame DEF User, CreateCR, EditCR, DeleteCR, DeleteService,
                                         CreateClaim, DeleteClaim, cache, worker
<1>3. CASE Collect
  <2>1. ASSUME NEW n \in Names, CollectSts(n)
        PROVE  HaveOwners'
    <3>1. sts' = [sts EXCEPT ![n] = NoSts] /\ NoSts.rv = 0
      BY <2>1 DEF CollectSts, NoSts
    <3>2. QED
      BY <2>1, <3>1 DEF CollectSts, HaveOwners, TypeOK, Exists, cache, worker
  <2>2. QED
    BY <1>3, <2>1, OwnersFrame DEF Collect, CollectService, CollectClaim, cache, worker
<1>4. CASE Watch
  <2>1. ASSUME NEW n \in Names, WatchSts(n)
        PROVE  HaveOwners'
    BY <2>1 DEF WatchSts, HaveOwners, TypeOK, Exists, api, worker
  <2>2. QED
    BY <1>4, <2>1, OwnersFrame DEF Watch, WatchCR, WatchService, WatchClaim, Resync, api, cache, worker
<1>5. CASE Start
  BY <1>5 DEF Start, HaveOwners, Exists, api
<1>6. ASSUME NEW n \in Names, Dequeue(n)
      PROVE  HaveOwners'
  BY <1>6, OwnersFrame DEF Dequeue, api, cache
<1>7. CASE Step
  <2>1. CASE CreateSts \/ UpdateSts
    BY <2>1, OwnersStored DEF CreateSts, UpdateSts, Requeue, cache
  <2>2. CASE GetSts
    BY <2>2 DEF GetSts, Goto, HaveOwners, Exists, TypeOK, Busy, api, cache
  <2>3. CASE GetService \/ CreateService \/ ReportService \/ GetPVC \/ CreatePVC \/ ReportPVC
    BY <2>3, OwnersFrame DEF GetService, CreateService, ReportService, GetPVC, CreatePVC, ReportPVC,
                             AddService, AddPVC, PutCR, Goto, api, cache
  <2>4. CASE PanicNoPod \/ GetStsAndNodes \/ ReportNodes \/ Refused
    BY <2>4, OwnersFrame DEF PanicNoPod, GetStsAndNodes, ReportNodes, Refused, PutCR, Goto, Done,
                             Requeue, Die, api, cache
  <2>5. QED
    BY <1>7, <2>1, <2>2, <2>3, <2>4 DEF Step
<1>8. CASE ApiError \/ LostAnswer \/ Crash
  <2>1. pc' # "updateSts" /\ UNCHANGED csts
    BY <1>8 DEF ApiError, LostAnswer, Crash, Requeue, Die, cache
  <2>2. CASE UNCHANGED sts
    BY <2>1, <2>2, OwnersFrame
  <2>3. CASE (pc = "createSts" /\ AddSts) \/ (pc = "updateSts" /\ ResizeSts)
    BY <2>1, <2>3, OwnersStored
  <2>4. QED
    BY <1>8, <2>2, <2>3 DEF ApiError, LostAnswer, Crash, AddService, AddPVC, PutCR, api
<1>9. QED
  BY <1>1, <1>2, <1>3, <1>4, <1>5, <1>6, <1>7, <1>8 DEF Next

-----------------------------------------------------------------------------
\* A step that changes neither the caches nor the worker and drops no request.
LEMMA WakeupFrame ==
    ASSUME NoLostWakeup, UNCHANGED <<ccr, csts, worker>>, queue \subseteq queue'
    PROVE  NoLostWakeup'
BY DEF NoLostWakeup, worker, Busy, CacheMatches, Exists

\* A step inside a call, at the end of which the wanted size is the same.
LEMMA WakeupGoto ==
    ASSUME NoLostWakeup, UNCHANGED <<ccr, csts, key, queue>>, Busy, loc'.size = loc.size,
           pc' # "reportNodes"
    PROVE  NoLostWakeup'
BY DEF NoLostWakeup, Busy, CacheMatches, Exists

\* A call that ends with its request back in the queue.
LEMMA WakeupRequeue ==
    ASSUME TypeOK, NoLostWakeup, UNCHANGED <<ccr, csts>>, Busy, Requeue
    PROVE  NoLostWakeup'
<1>1. /\ pc' = "idle" /\ ~Busy' /\ key' = NoName
      /\ queue' = queue \cup {key}
      /\ pc # "down"
  BY DEF Requeue, Forget, Busy
<1>2. ASSUME NEW n \in Names, n \notin queue', Exists(ccr[n])
      PROVE  CacheMatches(n)
  BY <1>1, <1>2 DEF NoLostWakeup
<1>3. QED
  BY <1>1, <1>2 DEF NoLostWakeup, CacheMatches, Exists

\* A call that ends without: it has seen the replicas it wants.
LEMMA WakeupDone ==
    ASSUME TypeOK, NoLostWakeup, UNCHANGED <<ccr, csts>>, Busy, Done,
           key \notin queue => CacheMatches(key)
    PROVE  NoLostWakeup'
<1>1. pc' = "idle" /\ ~Busy' /\ key' = NoName /\ queue' = queue /\ pc # "down"
  BY DEF Done, Forget, Busy
<1>2. ASSUME NEW n \in Names, n \notin queue, Exists(ccr[n])
      PROVE  CacheMatches(n)
  BY <1>1, <1>2 DEF NoLostWakeup
<1>3. QED
  BY <1>1, <1>2 DEF NoLostWakeup, CacheMatches, Exists

\* A call that ends with the process: the next one lists everything again.
LEMMA WakeupDie ==
    ASSUME Die
    PROVE  NoLostWakeup'
BY DEF Die, NoLostWakeup, Busy

LEMMA WakeupWatch ==
    ASSUME TypeOK, HaveOwners, NoLostWakeup, Watch
    PROVE  NoLostWakeup'
<1>1. ASSUME NEW n \in Names, WatchService(n) \/ Resync(n)
      PROVE  NoLostWakeup'
  BY <1>1, WakeupFrame DEF WatchService, Resync, cache
<1>2. ASSUME NEW c \in Claims, WatchClaim(c)
      PROVE  NoLostWakeup'
  BY <1>2, WakeupFrame DEF WatchClaim
<1>3. ASSUME NEW n \in Names, WatchCR(n)
      PROVE  NoLostWakeup'
  <2>1. /\ UNCHANGED <<csts, pc, key, loc>> /\ queue' = queue \cup {n}
        /\ \A m \in Names \ {n} : ccr'[m] = ccr[m]
    BY <1>3 DEF WatchCR, TypeOK, worker
  <2>2. QED
    BY <2>1 DEF NoLostWakeup, Busy, CacheMatches, Exists, TypeOK
<1>4. ASSUME NEW n \in Names, WatchSts(n)
      PROVE  NoLostWakeup'
  <2>1. /\ UNCHANGED <<ccr, pc, key, loc>> /\ queue \subseteq queue'
        /\ \A m \in Names \ {n} : csts'[m] = csts[m]
    BY <1>4 DEF WatchSts, TypeOK, worker
  <2>2. CASE Exists(csts[n])
    <3>1. n \in queue'
      BY <1>4, <2>2 DEF WatchSts, OwnersOf, HaveOwners
    <3>2. QED
      BY <2>1, <3>1 DEF NoLostWakeup, Busy, CacheMatches, Exists, TypeOK
  <2>3. CASE ~Exists(csts[n])
    BY <2>1, <2>3 DEF NoLostWakeup, Busy, CacheMatches, Exists, TypeOK
  <2>4. QED
    BY <2>2, <2>3
<1>5. QED
  BY <1>1, <1>2, <1>3, <1>4 DEF Watch

LEMMA WakeupDequeue ==
    ASSUME TypeOK, NoLostWakeup, NEW n \in Names, Dequeue(n)
    PROVE  NoLostWakeup'
<1>1. /\ UNCHANGED <<ccr, csts>> /\ queue' = queue \ {n}
      /\ pc = "idle" /\ key = NoName
  BY InfluxdbAssumption DEF Dequeue, cache, TypeOK, Busy
<1>2. CASE Exists(ccr[n])
  <2>1. pc' = "getService" /\ key' = n /\ loc' = ccr[n]
    BY <1>2 DEF Dequeue
  <2>2. QED
    BY <1>1, <1>2, <2>1, InfluxdbAssumption DEF NoLostWakeup, CacheMatches, Exists
<1>3. CASE ~Exists(ccr[n])
  <2>1. pc' = pc /\ key' = key
    BY <1>3 DEF Dequeue
  <2>2. QED
    BY <1>1, <1>3, <2>1, InfluxdbAssumption DEF NoLostWakeup, CacheMatches, Exists, Busy
<1>4. QED
  BY <1>2, <1>3

LEMMA WakeupStep ==
    ASSUME TypeOK, CopiesAgree, NoLostWakeup, Step
    PROVE  NoLostWakeup'
<1>1. UNCHANGED <<ccr, csts>> /\ Busy
  BY DEF Step, GetService, CreateService, ReportService, GetPVC, PanicNoPod, CreatePVC, ReportPVC,
         GetSts, GetStsAndNodes, CreateSts, UpdateSts, ReportNodes, Refused, cache, Busy
<1>2. CASE GetService \/ GetPVC \/ GetSts
  BY <1>1, <1>2, WakeupGoto DEF GetService, GetPVC, GetSts, Goto
<1>3. CASE CreateService \/ CreatePVC
  <2>1. loc'.size = loc.size
    BY <1>3 DEF CreateService, CreatePVC, TypeOK, CRs
  <2>2. QED
    BY <1>1, <1>3, <2>1, WakeupGoto DEF CreateService, CreatePVC, Goto
<1>4. CASE ReportService \/ ReportPVC
  <2>1. loc'.size = loc.size
    BY <1>4 DEF ReportService, ReportPVC, Stored, TypeOK, CRs
  <2>2. QED
    BY <1>1, <1>4, <2>1, WakeupGoto DEF ReportService, ReportPVC, Goto
<1>5. CASE PanicNoPod
  BY <1>5, WakeupDie DEF PanicNoPod
<1>6. CASE CreateSts \/ UpdateSts \/ Refused
  BY <1>1, <1>6, WakeupRequeue DEF CreateSts, UpdateSts, Refused
<1>7. CASE GetStsAndNodes
  <2>1. key \notin queue => CacheMatches(key)
    BY <1>1, <1>7 DEF GetStsAndNodes, NoLostWakeup, CacheMatches
  <2>2. CASE PodNames # loc.nodes
    <3>1. pc' = "reportNodes" /\ UNCHANGED <<key, queue>> /\ loc'.size = loc.size
      BY <1>7, <2>2 DEF GetStsAndNodes, Goto, TypeOK, CRs
    <3>2. QED
      BY <1>1, <2>1, <3>1 DEF NoLostWakeup, CacheMatches, Exists, Busy
  <2>3. CASE PodNames = loc.nodes
    BY <1>1, <1>7, <2>1, <2>3, WakeupDone DEF GetStsAndNodes
  <2>4. QED
    BY <2>2, <2>3
<1>8. CASE ReportNodes
  <2>1. key \notin queue => CacheMatches(key)
    BY <1>8 DEF ReportNodes, NoLostWakeup
  <2>2. QED
    BY <1>1, <1>8, <2>1, WakeupDone DEF ReportNodes
<1>9. QED
  BY <1>2, <1>3, <1>4, <1>5, <1>6, <1>7, <1>8 DEF Step

LEMMA WakeupNext ==
    ASSUME TypeOK, CopiesAgree, HaveOwners, NoLostWakeup, [Next]_vars
    PROVE  NoLostWakeup'
<1>1. CASE UNCHANGED vars
  BY <1>1, WakeupFrame DEF vars, cache
<1>2. CASE User
  <2>1. UNCHANGED <<ccr, csts, worker, queue>>
    BY <1>2 DEF User, CreateCR, EditCR, DeleteCR, DeleteService, DeleteSts, WriteSts, CreateClaim,
                DeleteClaim, cache
  <2>2. QED
    BY <2>1, WakeupFrame
<1>3. CASE Collect
  <2>1. UNCHANGED <<ccr, csts, worker, queue>>
    BY <1>3 DEF Collect, CollectService, CollectSts, CollectClaim, cache
  <2>2. QED
    BY <2>1, WakeupFrame
<1>4. CASE Start
  <2>1. /\ pc' = "idle" /\ ccr' = cr /\ ~Busy'
        /\ queue' = {n \in Names : Exists(cr[n]) \/ sts[n].owner # 0}
    BY <1>4 DEF Start, Busy
  <2>2. QED
    BY <2>1 DEF NoLostWakeup
<1>5. CASE ApiError \/ LostAnswer
  <2>1. UNCHANGED <<ccr, csts>> /\ Busy /\ Requeue
    BY <1>5 DEF ApiError, LostAnswer, Writes, Busy, cache
  <2>2. QED
    BY <2>1, WakeupRequeue
<1>6. CASE Crash
  BY <1>6, WakeupDie DEF Crash
<1>7. QED
  BY <1>1, <1>2, <1>3, <1>4, <1>5, <1>6, WakeupWatch, WakeupDequeue, WakeupStep DEF Next

\* A CR whose request is neither queued nor being worked on, and whose events
\* have been delivered, has a StatefulSet with the replicas of its spec.
THEOREM NoWakeupIsLost == Spec => []ReplicasMatchWhenIdle
<1> DEFINE Inv == HaveUids /\ HaveOwners /\ NoLostWakeup
<1>1. Init => Inv
  <2>1. NoCR.rv = 0 /\ NoSts.rv = 0
    BY DEF NoCR, NoSts
  <2>2. QED
    BY <2>1 DEF Init, HaveUids, HaveOwners, NoLostWakeup, Busy, Exists
<1>2. TypeOK /\ CopiesAgree /\ Inv /\ [Next]_vars => Inv'
  BY UidsStep, OwnersStep, WakeupNext
<1>3. Inv => ReplicasMatchWhenIdle
  BY DEF NoLostWakeup, ReplicasMatchWhenIdle, InSync, CacheMatches
<1>4. QED
  BY <1>1, <1>2, <1>3, TypeCorrect, CopiesAlwaysAgree, PTL DEF Spec
=============================================================================
