--------------------------- MODULE CRCopiesProofs ---------------------------
(* Theorems about CRCopies, for any number of edits and faults. *)
EXTENDS CRCopies, TLAPS

(* The inductive invariant: no copy shares memory with the cache, and the   *)
(* copies of the CR, wherever they are, hold what the user wrote.           *)

Apart == shared = {} /\ Clean(cr) /\ Clean(cache) /\ (pc # "idle" => Clean(local))

-----------------------------------------------------------------------------
\* The generated code follows every reference that the types of the three
\* kinds hold.
LEMMA EveryReferenceIsCopied ==
    \A k \in Kinds : Parts(k) \ DeepCopyObject(k) = {}
BY DEF Kinds, Parts, DeepCopyObject, InfluxdbSpec, PodPolicy, InfluxdbDeepCopyInto,
       InfluxdbSpecDeepCopyInto, PodPolicyDeepCopyInto, InfluxdbStatusDeepCopyInto,
       BackupDeepCopyInto, BackupSpecDeepCopyInto, RestoreDeepCopyInto

LEMMA NewVersionType == NewVersion \in Versions
<1>1. \E v \in Versions : v \notin {cr.version, cache.version, local.version}
  BY DEF Versions
<1>2. QED
  BY <1>1 DEF NewVersion

LEMMA AnsweredType ==
    ASSUME NEW obj \in Objects, NEW parts
    PROVE  /\ Answered(obj, parts) \in Objects
           /\ \A p \in Parts(kind) \ parts : Answered(obj, parts).parts[p] = obj.parts[p]
           /\ parts = {} => Answered(obj, parts) = obj
<1>1. obj.parts \in [Parts(kind) -> Contents] /\ obj.version \in Versions
  BY DEF Objects
<1> DEFINE new == [p \in DOMAIN obj.parts |->
                     IF p \in parts /\ obj.parts[p] # "nil" THEN "answer" ELSE obj.parts[p]]
<1>2. new \in [Parts(kind) -> Contents]
  BY <1>1 DEF Contents
<1>3. Answered(obj, parts) = [obj EXCEPT !.parts = new]
  BY DEF Answered
<1>4. \A p \in Parts(kind) \ parts : new[p] = obj.parts[p]
  BY <1>1
<1>5. parts = {} => new = obj.parts
  BY <1>1
<1> HIDE DEF new
<1>6. QED
  BY <1>1, <1>2, <1>3, <1>4, <1>5 DEF Objects

LEMMA UserPartsType ==
    ASSUME NEW k, NEW parts \in UserParts(k)
    PROVE  parts \in [Parts(k) -> Contents] /\ \A p \in Parts(k) : parts[p] # "answer"
BY DEF UserParts, Contents

Inv == TypeOK /\ Apart

LEMMA InvInit == Init => Inv
<1> SUFFICES ASSUME Init
             PROVE  Inv
  OBVIOUS
<1>1. PICK parts \in UserParts(kind) : cr = [version |-> 0, parts |-> parts]
  BY DEF Init
<1>2. cr \in Objects /\ Clean(cr)
  BY <1>1, UserPartsType DEF Objects, Clean, Versions
<1>3. QED
  BY <1>2, CopiesAssumption DEF Init, Inv, TypeOK, Apart, Steps

LEMMA InvReturn ==
    ASSUME Inv, Return, kind' = kind, cr' \in Objects, cache' \in Objects, Clean(cr'), Clean(cache'),
           edits' \in Nat, faults' \in Nat
    PROVE  Inv'
<1>1. Clean(cr)' /\ Clean(cache)' /\ Objects' = Objects
  BY DEF Clean, Objects
<1>2. QED
  BY <1>1 DEF Inv, TypeOK, Apart, Return, Steps

LEMMA InvGoOn ==
    ASSUME Inv, NEW step \in Steps, step # "idle", Goto(step), kind' = kind,
           cr' \in Objects, cache' = cache, local' \in Objects, Clean(cr'), Clean(local'),
           shared' = {}, UNCHANGED bounds
    PROVE  Inv'
<1>1. Clean(cr)' /\ Clean(cache)' /\ Clean(local)' /\ Objects' = Objects
  BY DEF Clean, Objects, Inv, Apart
<1>2. QED
  BY <1>1 DEF Inv, TypeOK, Apart, Goto, bounds

LEMMA PutType ==
    ASSUME NEW obj \in Objects, Clean(obj), Put(obj)
    PROVE  cr' \in Objects /\ Clean(cr')
BY NewVersionType DEF Put, Objects, Clean

LEMMA InvNext ==
    ASSUME Inv, [Next]_vars
    PROVE  Inv' /\ (cache' # cache => cache' = cr)
<1> USE DEF Inv
<1>1. /\ cr \in Objects /\ cache \in Objects /\ Clean(cr) /\ Clean(cache) /\ shared = {}
      /\ kind \in Kinds /\ edits \in Nat /\ faults \in Nat
      /\ pc # "idle" => local \in Objects /\ Clean(local)
  BY DEF TypeOK, Apart
<1>2. CASE UNCHANGED vars
  BY <1>2 DEF vars, TypeOK, Apart, Clean, Objects
<1>3. CASE Edit
  <2>1. PICK parts \in UserParts(kind) : cr' = [version |-> NewVersion, parts |-> parts]
    BY <1>3 DEF Edit
  <2>2. cr' \in Objects /\ Clean(cr')
    BY <2>1, UserPartsType, NewVersionType DEF Objects, Clean
  <2>3. edits' \in Nat
    BY <1>1, <1>3 DEF Edit
  <2>4. Clean(cr)' /\ Objects' = Objects
    BY <1>3, <2>2 DEF Clean, Objects, Edit
  <2>5. QED
    BY <1>1, <1>3, <2>2, <2>3, <2>4 DEF Edit, TypeOK, Apart, Clean, Objects
<1>4. CASE Watch
  BY <1>1, <1>4 DEF Watch, TypeOK, Apart, Clean, Objects
<1>5. CASE Get
  <2>1. shared' = {}
    BY <1>1, <1>5, EveryReferenceIsCopied DEF Get
  <2>2. \E step \in Steps : step # "idle" /\ Goto(step)
    BY <1>5 DEF Get, Steps
  <2>3. QED
    BY <1>1, <1>5, <2>1, <2>2, InvGoOn DEF Get
<1>6. CASE Read \/ Refused \/ ApiError
  <2>1. Return /\ UNCHANGED <<kind, cr, cache, edits>> /\ faults' \in Nat
    BY <1>1, <1>6 DEF Read, Refused, ApiError, Fault, bounds
  <2>2. QED
    BY <1>1, <2>1, InvReturn
<1>7. CASE CreateService
  <2>1. PICK step \in {"claim", "reportService"} : Goto(step)
    BY <1>7 DEF CreateService
  <2>2. pc # "idle" /\ UNCHANGED <<kind, cr, cache, local, shared, bounds>>
    BY <1>7 DEF CreateService
  <2>3. QED
    BY <1>1, <2>1, <2>2, InvGoOn DEF Steps
<1>8. CASE ReportService \/ ReportPVC
  <2>1. PICK step \in {"claim", "sts"} : Goto(step)
    BY <1>8 DEF ReportService, ReportPVC
  <2>2. Put(local) /\ local' = cr' /\ UNCHANGED <<kind, cache, shared, bounds>> /\ pc # "idle"
    BY <1>8 DEF ReportService, ReportPVC
  <2>3. QED
    BY <1>1, <2>1, <2>2, PutType, InvGoOn DEF Steps
<1>9. CASE CreatePVC
  <2>1. pc # "idle" /\ UNCHANGED <<kind, cr, shared, bounds>>
    BY <1>9 DEF CreatePVC
  <2>2. CASE Goto("sts") /\ UNCHANGED <<local, cache>>
    BY <1>1, <2>1, <2>2, InvGoOn DEF Steps
  <2>3. CASE Goto("reportClaim") /\ Decode(ClaimParts)
    <3>1. PICK changed \in SUBSET ClaimParts :
             /\ local' = Answered(local, changed)
             /\ cache' = Answered(cache, changed \cap shared)
      BY <2>3 DEF Decode
    <3>2. cache' = cache
      BY <1>1, <3>1, AnsweredType
    <3>3. local' \in Objects /\ \A p \in Parts(kind) \ changed : local'.parts[p] = local.parts[p]
      BY <1>1, <2>1, <3>1, AnsweredType
    <3>4. Clean(local')
      BY <1>1, <2>1, <3>3 DEF Clean
    <3>5. QED
      BY <1>1, <2>1, <2>3, <3>2, <3>3, <3>4, InvGoOn DEF Steps
  <2>4. QED
    BY <1>9, <2>2, <2>3 DEF CreatePVC
<1>10. CASE GetSts
  <2>1. pc # "idle" /\ UNCHANGED <<kind, cr, cache, bounds>>
    BY <1>10 DEF GetSts
  <2>2. CASE Goto("nodes") /\ UNCHANGED <<local, shared>>
    BY <1>1, <2>1, <2>2, InvGoOn DEF Steps
  <2>3. CASE Return
    BY <1>1, <2>1, <2>3, InvReturn DEF bounds
  <2>4. QED
    BY <1>10, <2>2, <2>3 DEF GetSts
<1>11. CASE CreateSts
  <2>1. cache' = cache
    BY <1>1, <1>11, AnsweredType DEF CreateSts
  <2>2. Return /\ UNCHANGED <<kind, cr, bounds>>
    BY <1>11 DEF CreateSts
  <2>3. QED
    BY <1>1, <2>1, <2>2, InvReturn DEF bounds
<1>12. CASE ReportNodes
  <2>1. pc # "idle" /\ Return /\ UNCHANGED <<kind, cache, bounds>>
    BY <1>12 DEF ReportNodes
  <2>2. cr' \in Objects /\ Clean(cr')
    <3>1. CASE UNCHANGED cr
      BY <1>1, <3>1
    <3>2. CASE Put([local EXCEPT !.parts["Nodes"] = "answer"])
      <4>1. /\ [local EXCEPT !.parts["Nodes"] = "answer"] \in Objects
            /\ Clean([local EXCEPT !.parts["Nodes"] = "answer"])
        BY <1>1, <2>1 DEF Objects, Clean, Contents
      <4>2. QED
        BY <3>2, <4>1, PutType
    <3>3. QED
      BY <1>12, <3>1, <3>2 DEF ReportNodes
  <2>3. QED
    BY <1>1, <2>1, <2>2, InvReturn DEF bounds
<1>13. CASE Crash
  <2>1. Return /\ UNCHANGED <<kind, cr, edits>> /\ cache' = cr /\ faults' \in Nat
    BY <1>1, <1>13 DEF Crash, Fault
  <2>2. QED
    BY <1>1, <2>1, InvReturn
<1>14. QED
  BY <1>2, <1>3, <1>4, <1>5, <1>6, <1>7, <1>8, <1>9, <1>10, <1>11, <1>12, <1>13 DEF Next

LEMMA Invariance == Spec => []Inv
<1>1. Inv /\ [Next]_vars => Inv'
  BY InvNext
<1>2. QED
  BY <1>1, InvInit, PTL DEF Spec

\* The objects of every kind keep their types, and a call has a copy exactly
\* from its Get to its return.
THEOREM TypeCorrect == Spec => []TypeOK
<1>1. Inv => TypeOK
  BY DEF Inv
<1>2. QED
  BY <1>1, Invariance, PTL

\* No status update of the Influxdb controller carries an answer of the API
\* server into the spec of a CR, except into the Spec of the claim.
THEOREM SpecStaysUsers == Spec => []SpecIsUsers
<1>1. Inv => SpecIsUsers
  BY DEF Inv, Apart, SpecIsUsers
<1>2. QED
  BY <1>1, Invariance, PTL

\* Only the informer changes a cached CR: the copies that DeepCopyObject hands
\* out share nothing with it.
THEOREM CacheIsDelivered == Spec => OnlyDelivered
<1>1. Inv /\ [Next]_vars => [cache' # cache => cache' = cr]_vars
  BY InvNext
<1>2. QED
  BY <1>1, Invariance, PTL DEF Spec, OnlyDelivered
=============================================================================
