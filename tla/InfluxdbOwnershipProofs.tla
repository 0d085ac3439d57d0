----------------------- MODULE InfluxdbOwnershipProofs ----------------------
(* Theorems about who controls the objects of InfluxdbController, for every *)
(* value of its constants.                                                  *)
EXTENDS InfluxdbControllerProofs

(* The inductive invariant behind OnlyReplicasChange *)

SameSts(a, b) == a.owner = b.owner /\ a.image = b.image

\* Copies of a StatefulSet with the version of the stored one are like it.
StsAgree ==
    /\ \A n \in Names : Exists(sts[n]) /\ csts[n].rv = sts[n].rv => SameSts(csts[n], sts[n])
    /\ pc = "updateSts" /\ CurrentSts => SameSts(found, sts[key])

\* The worker has read its copy of the StatefulSet in the step before, or
\* it has none.
LEMMA FoundIsRead ==
    ASSUME TypeOK, [Next]_vars, pc' = "updateSts"
    PROVE  \/ GetSts
           \/ pc = "updateSts" /\ UNCHANGED <<key, loc, found>>
<1>1. CASE UNCHANGED vars
  BY <1>1 DEF vars, worker
<1>2. CASE User \/ Collect
  BY <1>2 DEF User, CreateCR, EditCR, DeleteCR, DeleteService, DeleteSts, WriteSts, CreateClaim,
              DeleteClaim, Collect, CollectService, CollectSts, CollectClaim, worker
<1>3. CASE Watch \/ Start \/ \E n \in Names : Dequeue(n)
  BY <1>3 DEF Watch, WatchCR, WatchSts, WatchService, WatchClaim, Resync, Start, Dequeue, worker
<1>4. CASE Step
  BY <1>4 DEF Step, GetService, CreateService, ReportService, GetPVC, PanicNoPod, CreatePVC,
              ReportPVC, GetStsAndNodes, CreateSts, UpdateSts, ReportNodes, Refused, Goto, Done,
              Requeue, Die
<1>5. CASE ApiError \/ LostAnswer \/ Crash
  BY <1>5 DEF ApiError, LostAnswer, Crash, Requeue, Die
<1>6. QED
  BY <1>1, <1>2, <1>3, <1>4, <1>5 DEF Next

\* What a step may do to the StatefulSets.
LEMMA StsEffects ==
    ASSUME [Next]_vars
    PROVE  \/ UNCHANGED sts
           \/ /\ UNCHANGED csts
              /\ \/ \E n \in Names : sts' = [sts EXCEPT ![n] = NoSts]
                 \/ \E n \in Names, s \in Sizes : WriteSts(n, s)
                 \/ pc = "createSts" /\ ~Exists(sts[key]) /\ AddSts
                 \/ pc = "updateSts" /\ CurrentSts /\ ResizeSts
<1>1. CASE UNCHANGED vars
  BY <1>1 DEF vars, api
<1>2. CASE User \/ Collect
  BY <1>2 DEF User, CreateCR, EditCR, DeleteCR, DeleteService, DeleteSts, WriteSts, CreateClaim,
              DeleteClaim, Collect, CollectService, CollectSts, CollectClaim, cache
<1>3. CASE Watch \/ Start \/ \E n \in Names : Dequeue(n)
  BY <1>3 DEF Watch, WatchCR, WatchSts, WatchService, WatchClaim, Resync, Start, Dequeue, api
<1>4. CASE Step
  BY <1>4 DEF Step, GetService, CreateService, ReportService, GetPVC, PanicNoPod, CreatePVC,
              ReportPVC, GetSts, GetStsAndNodes, CreateSts, UpdateSts, ReportNodes, Refused,
              AddService, AddPVC, PutCR, api, cache
<1>5. CASE ApiError \/ LostAnswer \/ Crash
  BY <1>5 DEF ApiError, LostAnswer, Crash, AddService, AddPVC, PutCR, api, cache
<1>6. QED
  BY <1>1, <1>2, <1>3, <1>4, <1>5 DEF Next

\* An accepted Update of a StatefulSet leaves it to its owner.
LEMMA ResizeKeepsOwner ==
    ASSUME TypeOK, StsAgree, pc = "updateSts", CurrentSts, ResizeSts
    PROVE  /\ key \in Names
           /\ SameSts(sts'[key], sts[key])
           /\ sts'[key].rv = StsVersion(key)
           /\ \A n \in Names \ {key} : sts'[n] = sts[n]
<1>1. key \in Names /\ found \in StatefulSets /\ sts \in [Names -> StatefulSets]
  BY DEF TypeOK, Busy
<1>2. sts'[key] = [found EXCEPT !.size = loc.size, !.rv = StsVersion(key)]
  BY <1>1 DEF ResizeSts
<1>3. SameSts(found, sts[key])
  BY DEF StsAgree
<1>4. QED
  BY <1>1, <1>2, <1>3 DEF SameSts, StatefulSets, ResizeSts

\* A step that writes a StatefulSet gives it a version no copy has.
LEMMA WrittenIsNew ==
    ASSUME TypeOK, StsAgree, [Next]_vars, NEW n \in Names, Exists(sts[n])', sts'[n] # sts[n]
    PROVE  /\ UNCHANGED csts
           /\ sts'[n].rv \notin {csts[n].rv, found.rv}
           /\ pc' # "updateSts" \/ UNCHANGED <<pc, key, found>>
<1>1. \A m \in Names : StsVersion(m) \notin {csts[m].rv, found.rv}
  BY NewVersions
<1>2. CASE \E m \in Names : sts' = [sts EXCEPT ![m] = NoSts]
  BY <1>2 DEF TypeOK, Exists, NoSts
<1>3. ASSUME NEW m \in Names, NEW s \in Sizes, WriteSts(m, s)
      PROVE  sts'[n].rv = StsVersion(n) /\ UNCHANGED <<csts, pc, key, found>>
  <2>1. sts' = [sts EXCEPT ![m] = [sts[m] EXCEPT !.size = s, !.rv = StsVersion(m)]]
    BY <1>3 DEF WriteSts
  <2>2. QED
    BY <1>3, <2>1 DEF WriteSts, TypeOK, StatefulSets, cache, worker
<1>4. CASE pc = "createSts" /\ ~Exists(sts[key]) /\ AddSts
  <2>1. key \in Names
    BY <1>4 DEF TypeOK, Busy
  <2>2. sts'[n].rv = StsVersion(n) /\ sts' # sts
    BY <1>4, <2>1 DEF AddSts, statefulsetForInfluxdb, TypeOK
  <2>3. pc' # "updateSts"
    BY <1>4, FoundIsRead DEF GetSts
  <2>4. QED
    BY <1>1, <2>2, <2>3, StsEffects
<1>5. CASE pc = "updateSts" /\ CurrentSts /\ ResizeSts
  <2>1. sts'[n].rv = StsVersion(n)
    BY <1>5, ResizeKeepsOwner
  <2>2. pc' = "updateSts" => UNCHANGED <<pc, key, found>>
    BY <1>5, FoundIsRead DEF GetSts
  <2>3. QED
    BY <1>1, <2>1, <2>2, StsEffects
<1>6. QED
  BY <1>1, <1>2, <1>3, <1>4, <1>5, StsEffects

\* The informer brings the cached StatefulSets up to date, and nobody else
\* touches them.
LEMMA CachedSts ==
    ASSUME TypeOK, [Next]_vars, NEW n \in Names, csts'[n] # csts[n]
    PROVE  csts'[n] = sts[n] /\ UNCHANGED <<cr, svc, sts>>
<1>1. CASE UNCHANGED vars
  BY <1>1 DEF vars, cache
<1>2. CASE User \/ Collect
  BY <1>2 DEF User, CreateCR, EditCR, DeleteCR, DeleteService, DeleteSts, WriteSts, CreateClaim,
              DeleteClaim, Collect, CollectService, CollectSts, CollectClaim, cache
<1>3. CASE Watch \/ Start \/ \E m \in Names : Dequeue(m)
  BY <1>3 DEF Watch, WatchCR, WatchSts, WatchService, WatchClaim, Resync, Start, Dequeue,
              api, cache, TypeOK
<1>4. CASE Step
  BY <1>4 DEF Step, GetService, CreateService, ReportService, GetPVC, PanicNoPod, CreatePVC,
              ReportPVC, GetSts, GetStsAndNodes, CreateSts, UpdateSts, ReportNodes, Refused, cache
<1>5. CASE ApiError \/ LostAnswer \/ Crash
  BY <1>5 DEF ApiError, LostAnswer, Crash, cache
<1>6. QED
  BY <1>1, <1>2, <1>3, <1>4, <1>5 DEF Next

LEMMA StsAgreeStep ==
    ASSUME TypeOK, StsAgree, [Next]_vars
    PROVE  StsAgree'
<1>1. ASSUME NEW n \in Names, Exists(sts[n])', (csts[n].rv = sts[n].rv)'
      PROVE  SameSts(csts[n], sts[n])'
  <2>1. CASE sts'[n] = sts[n] /\ csts'[n] = csts[n]
    BY <1>1, <2>1 DEF StsAgree, Exists, SameSts
  <2>2. CASE csts'[n] # csts[n]
    BY <2>2, CachedSts DEF SameSts
  <2>3. CASE sts'[n] # sts[n]
    BY <1>1, <2>3, WrittenIsNew
  <2>4. QED
    BY <2>1, <2>2, <2>3
<1>2. ASSUME pc' = "updateSts", CurrentSts'
      PROVE  SameSts(found, sts[key])'
  <2>1. CASE GetSts
    <3>1. found' = csts[key] /\ UNCHANGED <<key, sts>> /\ key \in Names
      BY <2>1 DEF GetSts, Goto, TypeOK, Busy, api
    <3>2. QED
      BY <1>2, <3>1 DEF StsAgree, CurrentSts, Exists, SameSts
  <2>2. CASE pc = "updateSts" /\ UNCHANGED <<key, found>>
    <3>1. key \in Names
      BY <2>2 DEF TypeOK, Busy
    <3>2. sts'[key] = sts[key]
      BY <1>2, <2>2, <3>1, WrittenIsNew DEF CurrentSts, Exists
    <3>3. QED
      BY <1>2, <2>2, <3>2 DEF StsAgree, CurrentSts, Exists, SameSts
  <2>3. QED
    BY <1>2, <2>1, <2>2, FoundIsRead
<1>3. QED
  BY <1>1, <1>2 DEF StsAgree

LEMMA StsAlwaysAgree == Spec => []StsAgree
<1>1. Init => StsAgree
  BY DEF Init, StsAgree, NoSts, Exists
<1>2. QED
  BY <1>1, StsAgreeStep, TypeCorrect, PTL DEF Spec

\* The operator changes the replicas of a StatefulSet that is there, never its
\* owner and never its image: an Update from a copy of an earlier one is
\* refused.
THEOREM OnlyReplicasEverChange == Spec => OnlyReplicasChange
<1> DEFINE Kept == \A n \in Names :
             (edits' = edits /\ Exists(sts[n]) /\ Exists(sts'[n]))
                => sts'[n].owner = sts[n].owner /\ sts'[n].image = sts[n].image
<1>1. TypeOK /\ StsAgree /\ [Next]_vars => [Kept]_vars
  <2> SUFFICES ASSUME TypeOK, StsAgree, [Next]_vars, edits' = edits,
                      NEW n \in Names, Exists(sts[n]), Exists(sts'[n])
               PROVE  SameSts(sts'[n], sts[n])
    BY DEF SameSts
  <2>1. CASE UNCHANGED sts
    BY <2>1 DEF SameSts
  <2>2. ASSUME NEW m \in Names, sts' = [sts EXCEPT ![m] = NoSts]
        PROVE  SameSts(sts'[n], sts[n])
    BY <2>2 DEF SameSts, TypeOK, Exists, NoSts
  <2>3. ~\E m \in Names, s \in Sizes : WriteSts(m, s)
    BY Budgets DEF WriteSts
  <2>4. CASE pc = "createSts" /\ ~Exists(sts[key]) /\ AddSts
    BY <2>4 DEF AddSts, SameSts, TypeOK
  <2>5. CASE pc = "updateSts" /\ CurrentSts /\ ResizeSts
    BY <2>5, ResizeKeepsOwner DEF SameSts
  <2>6. QED
    BY <2>1, <2>2, <2>3, <2>4, <2>5, StsEffects
<1>2. QED
  BY <1>1, TypeCorrect, StsAlwaysAgree, PTL DEF Spec, OnlyReplicasChange

-----------------------------------------------------------------------------
(* The inductive invariant behind OwnedOrOrphan *)

\* A uid is about the CR of name n: the CR, a copy of it, or an object that
\* was made for it has this uid.
Carries(n, u) ==
    \/ u \in {cr[n].uid, ccr[n].uid, svc[n].owner, sts[n].owner, csts[n].owner}
    \/ Busy /\ key = n /\ u = loc.uid
    \/ pc = "updateSts" /\ key = n /\ u = found.owner

\* Uids have been handed out, and each is about the CR of one name only.
UidsApart ==
    \A m, n \in Names, u \in Nat \ {0} :
        Carries(m, u) => u <= uids /\ (Carries(n, u) => m = n)

\* A CR that does not exist has no uid, and Services are controlled.
Gone == \A n \in Names : ~Exists(cr[n]) => cr[n].uid = 0

ServicesOwned == \A n \in Names : Exists(svc[n]) => svc[n].owner # 0

\* Nothing but the creation of a CR brings a new uid: where one is found after
\* a step, for the CR it was about before.
LEMMA UidOfCR ==
    ASSUME TypeOK, [Next]_vars, uids' = uids, NEW n \in Names, cr'[n].uid # 0
    PROVE  Carries(n, cr'[n].uid)
<1>1. CASE cr'[n] = cr[n]
  BY <1>1 DEF Carries
<1>2. CASE User
  <2>1. ASSUME NEW m \in Names, NEW s \in Sizes, NEW i \in Images, EditCR(m, s, i)
        PROVE  cr'[n].uid = cr[n].uid
    <3>1. cr' = [cr EXCEPT ![m] = [cr[m] EXCEPT !.size = s, !.image = i, !.rv = CRVersion(m)]]
      BY <2>1 DEF EditCR
    <3>2. QED
      BY <3>1 DEF TypeOK, CRs
  <2>2. ASSUME NEW m \in Names, DeleteCR(m)
        PROVE  cr'[n] = cr[n]
    BY <2>2 DEF DeleteCR, NoCR, TypeOK
  <2>3. ~\E m \in Names, s \in Sizes, i \in Images : CreateCR(m, s, i)
    <3>1. uids + 1 # uids
      BY DEF TypeOK
    <3>2. QED
      BY <3>1 DEF CreateCR
  <2>4. QED
    BY <1>1, <1>2, <2>1, <2>2, <2>3
       DEF User, DeleteService, DeleteSts, WriteSts, CreateClaim, DeleteClaim, Carries
<1>3. CASE Collect \/ Watch \/ Start \/ \E m \in Names : Dequeue(m)
  BY <1>1, <1>3 DEF Collect, CollectService, CollectSts, CollectClaim, Watch, WatchCR, WatchSts,
                    WatchService, WatchClaim, Resync, Start, Dequeue, api
<1>4. CASE Busy /\ PutCR(loc)
  <2>1. key \in Names /\ Stored(loc).uid = loc.uid
    BY <1>4 DEF TypeOK, Stored, CRs
  <2>2. QED
    BY <1>1, <1>4, <2>1 DEF PutCR, Carries, TypeOK
<1>5. CASE Step
  BY <1>1, <1>4, <1>5 DEF Step, GetService, CreateService, ReportService, GetPVC, PanicNoPod,
           CreatePVC, ReportPVC, GetSts, GetStsAndNodes, CreateSts, UpdateSts, ReportNodes, Refused,
           AddService, AddPVC, AddSts, ResizeSts, api, Busy
<1>6. CASE ApiError \/ LostAnswer \/ Crash
  BY <1>1, <1>4, <1>6 DEF ApiError, LostAnswer, Crash, AddService, AddPVC, AddSts, ResizeSts, api, Busy
<1>7. QED
  BY <1>1, <1>2, <1>3, <1>5, <1>6 DEF Next, vars, api

LEMMA UidOfCachedCR ==
    ASSUME TypeOK, [Next]_vars, NEW n \in Names
    PROVE  Carries(n, ccr'[n].uid)
<1>1. CASE ccr'[n] = ccr[n] \/ ccr'[n] = cr[n]
  BY <1>1 DEF Carries
<1>2. CASE User \/ Collect
  BY <1>1, <1>2 DEF User, CreateCR, EditCR, DeleteCR, DeleteService, DeleteSts, WriteSts, CreateClaim,
              DeleteClaim, Collect, CollectService, CollectSts, CollectClaim, cache
<1>3. CASE Watch \/ Start \/ \E m \in Names : Dequeue(m)
  BY <1>1, <1>3 DEF Watch, WatchCR, WatchSts, WatchService, WatchClaim, Resync, Start, Dequeue,
                    cache, TypeOK
<1>4. CASE Step
  BY <1>1, <1>4 DEF Step, GetService, CreateService, ReportService, GetPVC, PanicNoPod, CreatePVC,
              ReportPVC, GetSts, GetStsAndNodes, CreateSts, UpdateSts, ReportNodes, Refused, cache
<1>5. CASE ApiError \/ LostAnswer \/ Crash
  BY <1>1, <1>5 DEF ApiError, LostAnswer, Crash, cache
<1>6. QED
  BY <1>1, <1>2, <1>3, <1>4, <1>5 DEF Next, vars, cache

LEMMA UidOfService ==
    ASSUME TypeOK, [Next]_vars, NEW n \in Names, svc'[n] # svc[n]
    PROVE  svc'[n] = NoPlain \/ (Busy /\ key = n /\ svc'[n].owner = loc.uid)
<1>1. CASE User \/ Collect
  BY <1>1 DEF User, CreateCR, EditCR, DeleteCR, DeleteService, DeleteSts, WriteSts, CreateClaim,
              DeleteClaim, Collect, CollectService, CollectSts, CollectClaim, TypeOK
<1>2. CASE Watch \/ Start \/ \E m \in Names : Dequeue(m)
  BY <1>2 DEF Watch, WatchCR, WatchSts, WatchService, WatchClaim, Resync, Start, Dequeue, api
<1>3. CASE Busy /\ AddService
  BY <1>3 DEF AddService, Owned, TypeOK
<1>4. CASE Step
  BY <1>3, <1>4 DEF Step, GetService, CreateService, ReportService, GetPVC, PanicNoPod, CreatePVC,
           ReportPVC, GetSts, GetStsAndNodes, CreateSts, UpdateSts, ReportNodes, Refused,
           AddPVC, AddSts, ResizeSts, PutCR, api, Busy
<1>5. CASE ApiError \/ LostAnswer \/ Crash
  BY <1>3, <1>5 DEF ApiError, LostAnswer, Crash, AddPVC, AddSts, ResizeSts, PutCR, api, Busy
<1>6. QED
  BY <1>1, <1>2, <1>4, <1>5 DEF Next, vars, api

LEMMA UidOfSts ==
    ASSUME TypeOK, [Next]_vars, NEW n \in Names, sts'[n].owner # 0
    PROVE  Carries(n, sts'[n].owner)
<1>1. CASE sts'[n] = sts[n]
  BY <1>1 DEF Carries
<1>2. ASSUME NEW m \in Names, sts' = [sts EXCEPT ![m] = NoSts]
      PROVE  sts'[n] = sts[n]
  BY <1>2 DEF TypeOK, NoSts
<1>3. ASSUME NEW m \in Names, NEW s \in Sizes, WriteSts(m, s)
      PROVE  sts'[n].owner = sts[n].owner
  <2>1. sts' = [sts EXCEPT ![m] = [sts[m] EXCEPT !.size = s, !.rv = StsVersion(m)]]
    BY <1>3 DEF WriteSts
  <2>2. QED
    BY <2>1 DEF TypeOK, StatefulSets
<1>4. CASE pc = "createSts" /\ AddSts
  <2>1. key \in Names /\ Busy
    BY <1>4 DEF TypeOK, Busy
  <2>2. QED
    BY <1>1, <1>4, <2>1 DEF AddSts, statefulsetForInfluxdb, TypeOK, Carries
<1>5. CASE pc = "updateSts" /\ ResizeSts
  <2>1. /\ key \in Names
        /\ [found EXCEPT !.size = loc.size, !.rv = StsVersion(key)].owner = found.owner
    BY <1>5 DEF TypeOK, Busy, StatefulSets
  <2>2. QED
    BY <1>1, <1>5, <2>1 DEF ResizeSts, TypeOK, Carries
<1>6. QED
  BY <1>1, <1>2, <1>3, <1>4, <1>5, StsEffects DEF Carries

LEMMA UidOfCachedSts ==
    ASSUME TypeOK, [Next]_vars, NEW n \in Names
    PROVE  Carries(n, csts'[n].owner)
BY CachedSts DEF Carries

LEMMA UidOfFound ==
    ASSUME TypeOK, [Next]_vars, pc' = "updateSts"
    PROVE  Carries(key', found'.owner)
<1>1. CASE GetSts
  BY <1>1 DEF GetSts, Goto, Carries
<1>2. CASE pc = "updateSts" /\ UNCHANGED <<key, loc, found>>
  BY <1>2 DEF Carries
<1>3. QED
  BY <1>1, <1>2, FoundIsRead

LEMMA UidOfLoc ==
    ASSUME TypeOK, [Next]_vars, Busy'
    PROVE  Carries(key', loc'.uid)
<1>1. CASE Busy /\ key' = key /\ loc'.uid = loc.uid
  BY <1>1 DEF Carries
<1>2. CASE User \/ Collect \/ Watch
  BY <1>1, <1>2 DEF User, CreateCR, EditCR, DeleteCR, DeleteService, DeleteSts, WriteSts, CreateClaim,
              DeleteClaim, Collect, CollectService, CollectSts, CollectClaim, Watch, WatchCR, WatchSts,
              WatchService, WatchClaim, Resync, worker, Busy
<1>3. CASE Start
  BY <1>3 DEF Start, Busy
<1>4. ASSUME NEW m \in Names, Dequeue(m)
      PROVE  Carries(key', loc'.uid)
  BY <1>4 DEF Dequeue, Busy, Carries
<1>5. CASE Step
  <2>1. CASE GetService \/ GetPVC \/ GetSts
    BY <1>1, <2>1 DEF GetService, GetPVC, GetSts, Goto, Busy
  <2>2. CASE CreateService \/ CreatePVC
    BY <1>1, <2>2 DEF CreateService, CreatePVC, Goto, Busy, TypeOK, CRs
  <2>3. CASE ReportService \/ ReportPVC
    BY <1>1, <2>3 DEF ReportService, ReportPVC, Goto, Busy, TypeOK, Stored, CRs
  <2>4. CASE GetStsAndNodes
    BY <1>1, <2>4 DEF GetStsAndNodes, Goto, Done, Busy, TypeOK, CRs
  <2>5. CASE PanicNoPod \/ CreateSts \/ UpdateSts \/ ReportNodes \/ Refused
    BY <2>5 DEF PanicNoPod, CreateSts, UpdateSts, ReportNodes, Refused, Done, Requeue, Die, Busy
  <2>6. QED
    BY <1>5, <2>1, <2>2, <2>3, <2>4, <2>5 DEF Step
<1>6. CASE ApiError \/ LostAnswer \/ Crash
  BY <1>6 DEF ApiError, LostAnswer, Crash, Requeue, Die, Busy
<1>7. QED
  BY <1>1, <1>2, <1>3, <1>4, <1>5, <1>6 DEF Next, vars, worker, Busy

LEMMA UidsApartStep ==
    ASSUME TypeOK, UidsApart, [Next]_vars
    PROVE  UidsApart'
<1>1. CASE uids' = uids
  <2>1. ASSUME NEW n \in Names, NEW u \in Nat \ {0}, Carries(n, u)'
        PROVE  Carries(n, u)
    <3>1. CASE u \in {cr'[n].uid, ccr'[n].uid, sts'[n].owner, csts'[n].owner}
      BY <1>1, <3>1, UidOfCR, UidOfCachedCR, UidOfSts, UidOfCachedSts
    <3>2. CASE u = svc'[n].owner
      BY <3>2, UidOfService DEF Carries, NoPlain
    <3>3. CASE Busy' /\ key' = n /\ u = loc'.uid
      BY <3>3, UidOfLoc
    <3>4. CASE pc' = "updateSts" /\ key' = n /\ u = found'.owner
      BY <3>4, UidOfFound
    <3>5. QED
      BY <2>1, <3>1, <3>2, <3>3, <3>4 DEF Carries
  <2>2. QED
    BY <1>1, <2>1 DEF UidsApart
<1>2. ASSUME NEW n \in Names, NEW s \in Sizes, NEW i \in Images, CreateCR(n, s, i)
      PROVE  UidsApart'
  <2>1. ASSUME NEW m \in Names, NEW u \in Nat \ {0}, Carries(m, u)'
        PROVE  Carries(m, u) \/ (m = n /\ u = uids')
    BY <1>2, <2>1 DEF CreateCR, Carries, TypeOK, Busy, cache, worker
  <2>2. uids' = uids + 1 /\ uids \in Nat
    BY <1>2 DEF CreateCR, TypeOK
  <2>3. ASSUME NEW m \in Names, NEW u \in Nat \ {0}, Carries(m, u)
        PROVE  u <= uids' /\ u # uids'
    <3>1. u <= uids
      BY <2>3 DEF UidsApart
    <3>2. QED
      BY ONLY <2>2, <3>1, u \in Nat
  <2>4. ASSUME NEW m \in Names, NEW k \in Names, NEW u \in Nat \ {0}, Carries(m, u)'
        PROVE  u <= uids' /\ (Carries(k, u)' => m = k)
    <3>1. u <= uids'
      BY <2>1, <2>2, <2>3, <2>4
    <3>2. ASSUME Carries(k, u)'
          PROVE  m = k
      BY <2>1, <2>3, <2>4, <3>2 DEF UidsApart
    <3>3. QED
      BY <3>1, <3>2
  <2>5. QED
    BY <2>4 DEF UidsApart
<1>3. uids' = uids \/ \E n \in Names, s \in Sizes, i \in Images : CreateCR(n, s, i)
  <2>1. CASE User \/ Collect
    BY <2>1 DEF User, EditCR, DeleteCR, DeleteService, DeleteSts, WriteSts, CreateClaim,
                DeleteClaim, Collect, CollectService, CollectSts, CollectClaim
  <2>2. CASE Watch \/ Start \/ \E m \in Names : Dequeue(m)
    BY <2>2 DEF Watch, WatchCR, WatchSts, WatchService, WatchClaim, Resync, Start, Dequeue
  <2>3. CASE Step
    BY <2>3 DEF Step, GetService, CreateService, ReportService, GetPVC, PanicNoPod, CreatePVC,
             ReportPVC, GetSts, GetStsAndNodes, CreateSts, UpdateSts, ReportNodes, Refused,
             AddService, AddPVC, AddSts, ResizeSts, PutCR
  <2>4. CASE ApiError \/ LostAnswer \/ Crash
    BY <2>4 DEF ApiError, LostAnswer, Crash, AddService, AddPVC, AddSts, ResizeSts, PutCR
  <2>5. QED
    BY <2>1, <2>2, <2>3, <2>4 DEF Next, vars
<1>4. QED
  BY <1>1, <1>2, <1>3

\* Every write of a CR gives it a version.
LEMMA GoneStep ==
    ASSUME TypeOK, Gone, [Next]_vars
    PROVE  Gone'
<1> SUFFICES ASSUME NEW n \in Names
             PROVE  cr'[n] = cr[n] \/ cr'[n].rv # 0 \/ cr'[n].uid = 0
  BY DEF Gone, Exists
<1>1. CASE User \/ Collect
  <2>1. ASSUME NEW m \in Names, NEW s \in Sizes, NEW i \in Images, CreateCR(m, s, i) \/ EditCR(m, s, i)
        PROVE  cr'[n] = cr[n] \/ cr'[n].rv # 0
    <3>1. CASE CreateCR(m, s, i)
      BY <3>1, NewVersions DEF CreateCR, TypeOK
    <3>2. CASE EditCR(m, s, i)
      <4>1. cr' = [cr EXCEPT ![m] = [cr[m] EXCEPT !.size = s, !.image = i, !.rv = CRVersion(m)]]
        BY <3>2 DEF EditCR
      <4>2. cr'[n] = cr[n] \/ cr'[n].rv = CRVersion(n)
        BY <4>1 DEF TypeOK, CRs
      <4>3. QED
        BY <4>2, NewVersions
    <3>3. QED
      BY <2>1, <3>1, <3>2
  <2>2. ASSUME NEW m \in Names, DeleteCR(m)
        PROVE  cr'[n] = cr[n] \/ cr'[n].uid = 0
    BY <2>2 DEF DeleteCR, NoCR, TypeOK
  <2>3. QED
    BY <1>1, <2>1, <2>2 DEF User, DeleteService, DeleteSts, WriteSts, CreateClaim, DeleteClaim,
                            Collect, CollectService, CollectSts, CollectClaim
<1>2. CASE Watch \/ Start \/ \E m \in Names : Dequeue(m)
  BY <1>2 DEF Watch, WatchCR, WatchSts, WatchService, WatchClaim, Resync, Start, Dequeue, api
<1>3. CASE Busy /\ PutCR(loc)
  <2>1. key \in Names
    BY <1>3 DEF TypeOK
  <2>2. Stored(loc) = cr[key] \/ Stored(loc).rv = CRVersion(key)
    BY DEF Stored, TypeOK, CRs
  <2>3. cr'[n] = cr[n] \/ cr'[n].rv = CRVersion(n)
    BY <1>3, <2>1, <2>2 DEF PutCR, TypeOK
  <2>4. QED
    BY <2>3, NewVersions
<1>4. CASE Step
  BY <1>3, <1>4 DEF Step, GetService, CreateService, ReportService, GetPVC, PanicNoPod, CreatePVC,
           ReportPVC, GetSts, GetStsAndNodes, CreateSts, UpdateSts, ReportNodes, Refused,
           AddService, AddPVC, AddSts, ResizeSts, api, Busy
<1>5. CASE ApiError \/ LostAnswer \/ Crash
  BY <1>3, <1>5 DEF ApiError, LostAnswer, Crash, AddService, AddPVC, AddSts, ResizeSts, api, Busy
<1>6. QED
  BY <1>1, <1>2, <1>4, <1>5 DEF Next, vars, api

LEMMA ServicesOwnedStep ==
    ASSUME TypeOK, HaveUids, ServicesOwned, [Next]_vars
    PROVE  ServicesOwned'
BY UidOfService DEF ServicesOwned, HaveUids, NoPlain, Exists

\* Every Service and StatefulSet is controlled by the CR of its name or by a uid
\* that no CR of any name has any more, with any number of CRs and from caches
\* of any age: what is left of a CR that is gone can be collected.
THEOREM EverythingIsControlled == Spec => []OwnedOrOrphan
<1> DEFINE Inv == HaveUids /\ HaveOwners /\ UidsApart /\ Gone /\ ServicesOwned
<1>1. Init => Inv
  <2>1. Init => HaveUids /\ HaveOwners /\ Gone /\ ServicesOwned
    <3>1. NoCR.rv = 0 /\ NoCR.uid = 0 /\ NoSts.rv = 0 /\ NoPlain.rv = 0
      BY DEF NoCR, NoSts, NoPlain
    <3>2. QED
      BY <3>1 DEF Init, HaveUids, HaveOwners, Gone, ServicesOwned, Busy, Exists
  <2>2. ASSUME Init, NEW n \in Names, NEW u \in Nat \ {0}
        PROVE  ~Carries(n, u)
    BY <2>2 DEF Init, Carries, Busy, NoCR, NoSts, NoPlain
  <2>3. QED
    BY <2>1, <2>2 DEF UidsApart
<1>2. TypeOK /\ CopiesAgree /\ Inv /\ [Next]_vars => Inv'
  BY UidsStep, OwnersStep, UidsApartStep, GoneStep, ServicesOwnedStep
<1>3. TypeOK /\ Inv => OwnedOrOrphan
  <2> SUFFICES ASSUME TypeOK, Inv, NEW n \in Names, NEW u \in Nat \ {0}, Carries(n, u), ~Orphan(u)
               PROVE  Exists(cr[n]) /\ u = cr[n].uid
    BY DEF OwnedOrOrphan, HaveOwners, ServicesOwned, Carries, TypeOK, Plain, StatefulSets
  <2>1. PICK m \in Names : cr[m].uid = u
    BY DEF Orphan
  <2>2. Carries(m, u)
    BY <2>1 DEF Carries
  <2>3. m = n
    BY <2>2 DEF UidsApart
  <2>4. QED
    BY <2>1, <2>3 DEF Gone
<1>4. QED
  BY <1>1, <1>2, <1>3, TypeCorrect, CopiesAlwaysAgree, PTL DEF Spec

\* Where nothing is pending for a CR and nothing of an earlier one is left to
\* collect, the StatefulSet is there, belongs to this very CR, and has the
\* replicas of its spec: the safety half of Converges for the StatefulSet.
THEOREM SettledIsInPlace ==
    Spec => [](\A n \in Names :
                  (/\ pc # "down" /\ key # n /\ n \notin queue /\ InSync(n)
                   /\ Exists(cr[n]) /\ ~Orphan(sts[n].owner))
                     => Exists(sts[n]) /\ sts[n].owner = cr[n].uid /\ sts[n].size = cr[n].size)
<1> DEFINE Settled == \A n \in Names :
              (/\ pc # "down" /\ key # n /\ n \notin queue /\ InSync(n)
               /\ Exists(cr[n]) /\ ~Orphan(sts[n].owner))
                 => Exists(sts[n]) /\ sts[n].owner = cr[n].uid /\ sts[n].size = cr[n].size
<1>1. ReplicasMatchWhenIdle /\ OwnedOrOrphan => Settled
  BY DEF ReplicasMatchWhenIdle, OwnedOrOrphan
<1>2. QED
  BY <1>1, NoWakeupIsLost, EverythingIsControlled, PTL
=============================================================================
