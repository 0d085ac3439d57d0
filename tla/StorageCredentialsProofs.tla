---------------------- MODULE StorageCredentialsProofs ----------------------
(* Theorems about StorageCredentials, for every value of its constants. *)
EXTENDS StorageCredentials, TLAPS

(* The inductive invariant behind OwnOrMet *)

\* What may come out of /tmp/sa for w.
Shared(w) == {Account(w)} \cup met[w]

AllMet == \A v, w \in Inside : v # w => Account(v) \in met[w]

FileShared == \A w \in Inside : \A i \in DOMAIN file : file[i] \in Shared(w)

ClientShared == \A w \in Workers : pc[w] = "use" => client[w] \in Shared(w) \cup {Mismatch}

InSa == AllMet /\ FileShared /\ ClientShared

-----------------------------------------------------------------------------
LEMMA AccountType ==
    ASSUME TypeOK, NEW w \in Workers, cr[w] \in CRs
    PROVE  Account(w) \in Accounts
BY CredentialsAssumption DEF Account, Accounts, TypeOK

LEMMA ContentType ==
    ASSUME NEW a \in Accounts
    PROVE  /\ DOMAIN Content(a) \in SUBSET Blocks
           /\ 1 \in DOMAIN Content(a)
           /\ \A i \in DOMAIN Content(a) : Content(a)[i] = a
<1>1. LengthOf[a.secret] \in 1..MaxLength
  BY CredentialsAssumption DEF Accounts
<1>2. QED
  BY <1>1, CredentialsAssumption DEF Content, Blocks

LEMMA EmptyType == \E blocks \in SUBSET Blocks : Empty \in [blocks -> Accounts]
<1>1. Empty \in [{} -> Accounts]
  BY DEF Empty
<1>2. QED
  BY <1>1

LEMMA TypeInit == Init => TypeOK
<1> SUFFICES ASSUME Init
             PROVE  TypeOK
  OBVIOUS
<1>1. \E blocks \in SUBSET Blocks : file \in [blocks -> Accounts]
  BY EmptyType DEF Init
<1>2. secret \in [Secrets -> 0..MaxVersions]
  BY CredentialsAssumption DEF Init
<1>3. got \in [Workers -> 0..MaxVersions]
  BY CredentialsAssumption DEF Init
<1>4. QED
  BY <1>1, <1>2, <1>3, CredentialsAssumption DEF Init, TypeOK, Steps

LEMMA TypeUsers ==
    ASSUME TypeOK, \/ \E s \in Secrets : Rotate(s) \/ Remove(s)
                   \/ \E c \in CRs : Request(c) \/ Dequeue(c)
    PROVE  TypeOK'
<1>1. ASSUME NEW s \in Secrets, Rotate(s) \/ Remove(s)
      PROVE  TypeOK'
  <2>1. secret' \in [Secrets -> 0..MaxVersions] /\ events' \in Nat
    BY <1>1, CredentialsAssumption DEF Rotate, Remove, Event, TypeOK
  <2>2. UNCHANGED <<pending, pc, cr, got, client, file, met, used>>
    BY <1>1 DEF Rotate, Remove
  <2>3. QED
    BY <2>1, <2>2 DEF TypeOK
<1>2. ASSUME NEW c \in CRs, Request(c)
      PROVE  TypeOK'
  BY <1>2 DEF Request, Event, TypeOK
<1>3. ASSUME NEW c \in CRs, Dequeue(c)
      PROVE  TypeOK'
  <2>1. WorkerOf[c] \in Workers /\ c # NoCR
    BY CredentialsAssumption
  <2>2. /\ pc' = [pc EXCEPT ![WorkerOf[c]] = "read"] /\ cr' = [cr EXCEPT ![WorkerOf[c]] = c]
        /\ pending' = pending \ {c}
        /\ UNCHANGED <<secret, events, got, client, file, met, used>>
    BY <1>3 DEF Dequeue, Goto, shared
  <2>3. QED
    BY <2>1, <2>2 DEF TypeOK, Steps
<1>4. QED
  BY <1>1, <1>2, <1>3

\* A worker at work has a CR.
LEMMA AtWork ==
    ASSUME TypeOK, NEW w \in Workers, pc[w] # "idle"
    PROVE  cr[w] \in CRs /\ Account(w) \in Accounts /\ SecretOf[cr[w]] \in Secrets
BY AccountType, CredentialsAssumption DEF TypeOK

LEMMA TypeEnd ==
    ASSUME TypeOK, NEW w \in Workers, End(w)
    PROVE  /\ pc' \in [Workers -> Steps] /\ cr' \in [Workers -> CRs \cup {NoCR}]
           /\ \A v \in Workers : (pc'[v] = "idle") <=> (cr'[v] = NoCR)
           /\ got' \in [Workers -> 0..MaxVersions]
           /\ client' \in [Workers -> Accounts \cup {Mismatch}]
           /\ met' \in [Workers -> SUBSET Accounts]
BY CredentialsAssumption DEF TypeOK, End, Goto, Steps

LEMMA TypeRequeue ==
    ASSUME TypeOK, NEW w \in Workers, pc[w] # "idle", Requeue(w), UNCHANGED <<shared, file, used>>
    PROVE  TypeOK'
<1>1. pending' \in SUBSET CRs /\ End(w)
  BY AtWork DEF Requeue, TypeOK
<1>2. QED
  BY <1>1, TypeEnd DEF TypeOK, shared

\* A step within a call.
LEMMA TypeOnward ==
    ASSUME TypeOK, NEW w \in Workers, NEW step \in Steps, pc[w] # "idle", step # "idle",
           Goto(w, step), UNCHANGED <<shared, cr, pending, used>>,
           got' \in [Workers -> 0..MaxVersions],
           client' \in [Workers -> Accounts \cup {Mismatch}],
           \E blocks \in SUBSET Blocks : file' \in [blocks -> Accounts],
           met' \in [Workers -> SUBSET Accounts]
    PROVE  TypeOK'
BY DEF TypeOK, Goto, shared

LEMMA TypeStep ==
    ASSUME TypeOK, NEW w \in Workers, Step(w)
    PROVE  TypeOK'
<1>1. /\ pc[w] # "idle" /\ cr[w] \in CRs /\ Account(w) \in Accounts
      /\ SecretOf[cr[w]] \in Secrets
  BY AtWork DEF Step, ReadKeyId, ReadSecretKey, getSaJSON, CreateFile, WriteFile,
                NewStorageClient, Use, Refused
<1> DEFINE Blocked(x) == \E blocks \in SUBSET Blocks : x \in [blocks -> Accounts]
<1>2. Blocked(file)
  BY DEF TypeOK
<1>3. CASE ReadKeyId(w) \/ getSaJSON(w)
  <2>1. CASE secret[SecretOf[cr[w]]] = 0
    BY <1>1, <1>3, <2>1, TypeRequeue DEF ReadKeyId, getSaJSON, getSecretValue
  <2>2. CASE secret[SecretOf[cr[w]]] # 0
    <3>1. PICK step \in {"readKey", "create"} : Goto(w, step)
      BY <1>3, <2>2 DEF ReadKeyId, getSaJSON, getSecretValue
    <3>2. /\ got' = [got EXCEPT ![w] = secret[SecretOf[cr[w]]]]
          /\ UNCHANGED <<shared, cr, client, met, pending, file, used>>
      BY <1>3, <2>2 DEF ReadKeyId, getSaJSON, getSecretValue
    <3>3. got' \in [Workers -> 0..MaxVersions]
      BY <1>1, <3>2 DEF TypeOK
    <3>4. QED
      BY <1>1, <1>2, <3>1, <3>2, <3>3, TypeOnward DEF Steps, TypeOK
  <2>3. QED
    BY <2>1, <2>2
<1>4. CASE ReadSecretKey(w)
  <2>1. CASE secret[SecretOf[cr[w]]] = 0
    BY <1>1, <1>4, <2>1, TypeRequeue DEF ReadSecretKey
  <2>2. CASE secret[SecretOf[cr[w]]] # 0
    <3>1. client' \in [Workers -> Accounts \cup {Mismatch}]
      BY <1>1, <1>4, <2>2 DEF ReadSecretKey, NewSession, TypeOK
    <3>2. Goto(w, "use") /\ UNCHANGED <<shared, cr, got, met, pending, file, used>>
      BY <1>4, <2>2 DEF ReadSecretKey
    <3>3. QED
      BY <1>1, <1>2, <3>1, <3>2, TypeOnward DEF Steps, TypeOK
  <2>3. QED
    BY <2>1, <2>2
<1>5. CASE CreateFile(w)
  <2>1. met' \in [Workers -> SUBSET Accounts]
    <3>1. \A v \in Inside : Account(v) \in Accounts
      BY AtWork DEF Inside
    <3>2. QED
      BY <1>1, <1>5, <3>1 DEF CreateFile, Meet, TypeOK
  <2>2. Blocked(file')
    BY <1>5, EmptyType DEF CreateFile
  <2>3. Goto(w, "write") /\ UNCHANGED <<shared, cr, pending, got, client, used>>
    BY <1>5 DEF CreateFile
  <2>4. QED
    BY <1>1, <2>1, <2>2, <2>3, TypeOnward DEF Steps, TypeOK
<1>6. CASE WriteFile(w)
  <2> DEFINE mine == Content(Account(w))
  <2>1. PICK blocks \in SUBSET Blocks : file \in [blocks -> Accounts]
    BY <1>2
  <2>2. DOMAIN mine \in SUBSET Blocks /\ \A i \in DOMAIN mine : mine[i] = Account(w)
    BY <1>1, ContentType
  <2>3. file' = [i \in DOMAIN mine \cup DOMAIN file |->
                    IF i \in DOMAIN mine THEN mine[i] ELSE file[i]]
    BY <1>6 DEF WriteFile
  <2> HIDE DEF mine
  <2>4. file' \in [DOMAIN mine \cup blocks -> Accounts]
    BY <1>1, <2>1, <2>2, <2>3
  <2>5. Blocked(file')
    BY <2>2, <2>4
  <2>6. Goto(w, "open") /\ UNCHANGED <<shared, cr, pending, got, client, met, used>>
    BY <1>6 DEF WriteFile
  <2>7. QED
    BY <1>1, <2>5, <2>6, TypeOnward DEF Steps, TypeOK
<1>7. CASE NewStorageClient(w)
  <2>1. ASSUME NEW a \in Accounts, client' = [client EXCEPT ![w] = a], Goto(w, "use"),
               UNCHANGED <<cr, got, met, pending>>
        PROVE  TypeOK'
    <3>1. client' \in [Workers -> Accounts \cup {Mismatch}]
      BY <2>1 DEF TypeOK
    <3>2. UNCHANGED <<shared, file, used>>
      BY <1>7 DEF NewStorageClient
    <3>3. QED
      BY <1>1, <1>2, <2>1, <3>1, <3>2, TypeOnward DEF Steps, TypeOK
  <2>2. ASSUME Requeue(w)
        PROVE  TypeOK'
    BY <1>1, <1>7, <2>2, TypeRequeue DEF NewStorageClient
  <2>3. QED
    BY <1>7, <2>1, <2>2 DEF NewStorageClient
<1>8. CASE Use(w)
  <2>1. client[w] \in Accounts /\ got[w] \in Nat
    BY <1>8, CredentialsAssumption DEF Use, TypeOK
  <2>2. [cr |-> cr[w], read |-> got[w], client |-> client[w], met |-> met[w]] \in Calls
    BY <1>1, <2>1 DEF Calls, TypeOK
  <2>3. used' \in SUBSET Calls
    BY <1>8, <2>2 DEF Use, TypeOK
  <2>4. End(w) /\ UNCHANGED <<shared, pending, file>>
    BY <1>8 DEF Use
  <2>5. QED
    BY <2>3, <2>4, TypeEnd DEF TypeOK, shared
<1>9. CASE Refused(w)
  BY <1>1, <1>9, TypeRequeue DEF Refused
<1>10. QED
  BY <1>3, <1>4, <1>5, <1>6, <1>7, <1>8, <1>9 DEF Step

\* Queues, workers, credentials file and clients keep their types: in
\* particular a worker has a CR exactly while a call is running.
THEOREM TypeCorrect == Spec => []TypeOK
<1>1. TypeOK /\ [Next]_vars => TypeOK'
  <2>1. TypeOK /\ UNCHANGED vars => TypeOK'
    BY DEF TypeOK, vars
  <2>2. QED
    BY <2>1, TypeUsers, TypeStep DEF Next
<1>2. QED
  BY <1>1, TypeInit, PTL DEF Spec

-----------------------------------------------------------------------------
LEMMA SharedInit == Init => InSa /\ OwnOrMet
BY DEF Init, InSa, AllMet, FileShared, ClientShared, OwnOrMet, Inside

\* Whoever leaves /tmp/sa takes nothing away from the others.
LEMMA SharedEnd ==
    ASSUME TypeOK, InSa, NEW w \in Workers, End(w), UNCHANGED file
    PROVE  InSa'
<1>1. /\ pc' = [pc EXCEPT ![w] = "idle"] /\ cr' = [cr EXCEPT ![w] = NoCR]
      /\ got' = [got EXCEPT ![w] = 0] /\ client' = [client EXCEPT ![w] = Mismatch]
      /\ met' = [met EXCEPT ![w] = {}]
  BY DEF End, Goto
<1>2. pc'[w] = "idle"
  BY <1>1 DEF TypeOK
<1>3. \A v \in Workers : v # w =>
        /\ pc'[v] = pc[v] /\ client'[v] = client[v] /\ Account(v)' = Account(v)
        /\ met'[v] = met[v]
  BY <1>1 DEF TypeOK, Account
<1>4. Inside' = Inside \ {w}
  BY <1>2, <1>3 DEF Inside
<1>5. \A v \in Workers : v # w => Shared(v)' = Shared(v)
  BY <1>3 DEF Shared
<1>6. AllMet'
  BY <1>3, <1>4 DEF InSa, AllMet, Inside
<1>7. FileShared'
  BY <1>4, <1>5 DEF InSa, FileShared, Inside
<1>8. ClientShared'
  BY <1>2, <1>3, <1>5 DEF InSa, ClientShared
<1>9. QED
  BY <1>6, <1>7, <1>8 DEF InSa

\* A step outside of /tmp/sa.
LEMMA SharedElsewhere ==
    ASSUME TypeOK, InSa, NEW w \in Workers, w \notin Inside, w \notin Inside',
           UNCHANGED <<file, met>>,
           \A v \in Workers : v # w =>
               pc'[v] = pc[v] /\ client'[v] = client[v] /\ Account(v)' = Account(v),
           pc'[w] = "use" => client'[w] \in {Account(w)', Mismatch}
    PROVE  InSa'
<1>1. Inside' = Inside
  BY DEF Inside
<1>2. \A v \in Workers : v # w => Shared(v)' = Shared(v)
  BY DEF Shared
<1>3. AllMet'
  BY <1>1 DEF InSa, AllMet, Inside
<1>4. FileShared'
  BY <1>1, <1>2 DEF InSa, FileShared, Inside
<1>5. ClientShared'
  BY <1>2 DEF InSa, ClientShared, Shared
<1>6. QED
  BY <1>3, <1>4, <1>5 DEF InSa

LEMMA SharedStep ==
    ASSUME TypeOK, InSa, NEW w \in Workers, Step(w)
    PROVE  InSa'
<1>1. ASSUME Requeue(w), UNCHANGED file
      PROVE  InSa'
  BY <1>1, SharedEnd DEF Requeue
<1>2. CASE ReadKeyId(w) \/ getSaJSON(w)
  <2>1. CASE secret[SecretOf[cr[w]]] = 0
    BY <1>1, <1>2, <2>1 DEF ReadKeyId, getSaJSON, getSecretValue
  <2>2. CASE secret[SecretOf[cr[w]]] # 0
    <3>1. PICK step \in {"readKey", "create"} : pc' = [pc EXCEPT ![w] = step]
      BY <1>2, <2>2 DEF ReadKeyId, getSaJSON, getSecretValue, Goto
    <3>2. /\ got' = [got EXCEPT ![w] = secret[SecretOf[cr[w]]]] /\ pc[w] = "read"
          /\ UNCHANGED <<cr, client, met, file>>
      BY <1>2, <2>2 DEF ReadKeyId, getSaJSON, getSecretValue
    <3>3. pc'[w] = step
      BY <3>1 DEF TypeOK
    <3>4. \A v \in Workers : v # w =>
            pc'[v] = pc[v] /\ client'[v] = client[v] /\ Account(v)' = Account(v)
      BY <3>1, <3>2 DEF TypeOK, Account
    <3>5. QED
      BY <3>2, <3>3, <3>4, SharedElsewhere DEF Inside
  <2>3. QED
    BY <2>1, <2>2
<1>3. CASE ReadSecretKey(w)
  <2>1. CASE secret[SecretOf[cr[w]]] = 0
    BY <1>1, <1>3, <2>1 DEF ReadSecretKey
  <2>2. CASE secret[SecretOf[cr[w]]] # 0
    <3>1. /\ pc' = [pc EXCEPT ![w] = "use"] /\ pc[w] = "readKey"
          /\ client' = [client EXCEPT ![w] =
                 IF secret[SecretOf[cr[w]]] = got[w] THEN Account(w) ELSE Mismatch]
          /\ UNCHANGED <<cr, got, met, file>>
      BY <1>3, <2>2 DEF ReadSecretKey, NewSession, Goto
    <3>2. pc'[w] = "use" /\ client'[w] \in {Account(w), Mismatch}
      BY <3>1 DEF TypeOK
    <3>3. \A v \in Workers : /\ Account(v)' = Account(v)
                             /\ v # w => pc'[v] = pc[v] /\ client'[v] = client[v]
      BY <3>1 DEF TypeOK, Account
    <3>4. QED
      BY <3>1, <3>2, <3>3, SharedElsewhere DEF Inside
  <2>3. QED
    BY <2>1, <2>2
<1>4. CASE CreateFile(w)
  <2>1. /\ pc' = [pc EXCEPT ![w] = "write"] /\ pc[w] = "create" /\ file' = Empty
        /\ UNCHANGED <<cr, got, client>>
    BY <1>4 DEF CreateFile, Goto
  <2>2. pc'[w] = "write"
    BY <2>1 DEF TypeOK
  <2>3. \A v \in Workers : v # w => pc'[v] = pc[v]
    BY <2>1 DEF TypeOK
  <2>4. Inside' = Inside \cup {w} /\ w \notin Inside
    BY <2>1, <2>2, <2>3 DEF Inside
  <2>5. \A v \in Workers : Account(v)' = Account(v)
    BY <2>1 DEF Account
  <2>6. /\ met'[w] = met[w] \cup {Account(u) : u \in Inside}
        /\ \A v \in Inside : met'[v] = met[v] \cup {Account(w)}
        /\ \A v \in Workers : met[v] \subseteq met'[v]
    BY <1>4, <2>4 DEF CreateFile, Meet, Inside
  <2>7. AllMet'
    <3> SUFFICES ASSUME NEW u \in Inside', NEW v \in Inside', u # v
                 PROVE  Account(u)' \in met'[v]
      BY DEF AllMet
    <3>1. u \in Workers /\ v \in Workers /\ Account(u)' = Account(u)
      BY <2>5 DEF Inside
    <3>2. CASE v = w
      BY <2>4, <2>6, <3>1, <3>2
    <3>3. CASE u = w
      BY <2>4, <2>6, <3>1, <3>3
    <3>4. CASE u # w /\ v # w
      BY <2>4, <2>6, <3>1, <3>4 DEF InSa, AllMet
    <3>5. QED
      BY <3>2, <3>3, <3>4
  <2>8. FileShared'
    BY <2>1 DEF FileShared, Empty
  <2>9. ClientShared'
    <3> SUFFICES ASSUME NEW v \in Workers, pc'[v] = "use"
                 PROVE  client'[v] \in Shared(v)' \cup {Mismatch}
      BY DEF ClientShared
    <3>1. pc[v] = "use"
      BY <2>2, <2>3
    <3>2. QED
      BY <2>1, <2>5, <2>6, <3>1 DEF InSa, ClientShared, Shared
  <2>10. QED
    BY <2>7, <2>8, <2>9 DEF InSa
<1>5. CASE WriteFile(w)
  <2>1. /\ pc' = [pc EXCEPT ![w] = "open"] /\ pc[w] = "write"
        /\ UNCHANGED <<cr, got, client, met>>
    BY <1>5 DEF WriteFile, Goto
  <2>2. pc'[w] = "open"
    BY <2>1 DEF TypeOK
  <2>3. \A v \in Workers : /\ Account(v)' = Account(v) /\ Shared(v)' = Shared(v)
                           /\ v # w => pc'[v] = pc[v]
    BY <2>1 DEF TypeOK, Account, Shared
  <2>4. Inside' = Inside /\ w \in Inside
    BY <2>1, <2>2, <2>3 DEF Inside
  <2>5. \A i \in DOMAIN file' : file'[i] = Account(w) \/ (i \in DOMAIN file /\ file'[i] = file[i])
    <3> DEFINE mine == Content(Account(w))
    <3>1. file' = [i \in DOMAIN mine \cup DOMAIN file |->
                     IF i \in DOMAIN mine THEN mine[i] ELSE file[i]]
      BY <1>5 DEF WriteFile
    <3>2. \A i \in DOMAIN mine : mine[i] = Account(w)
      BY <2>1, AtWork, ContentType
    <3> HIDE DEF mine
    <3>3. QED
      BY <3>1, <3>2
  <2>6. AllMet'
    BY <2>1, <2>3, <2>4 DEF InSa, AllMet, Inside
  <2>7. FileShared'
    <3> SUFFICES ASSUME NEW v \in Inside, NEW i \in DOMAIN file'
                 PROVE  file'[i] \in Shared(v)
      BY <2>3, <2>4 DEF FileShared, Inside
    <3>1. Account(w) \in Shared(v)
      BY <2>4 DEF InSa, AllMet, Shared
    <3>2. i \in DOMAIN file => file[i] \in Shared(v)
      BY DEF InSa, FileShared
    <3>3. QED
      BY <2>5, <3>1, <3>2
  <2>8. ClientShared'
    BY <2>1, <2>2, <2>3 DEF InSa, ClientShared
  <2>9. QED
    BY <2>6, <2>7, <2>8 DEF InSa
<1>6. CASE NewStorageClient(w)
  <2>1. pc[w] = "open" /\ w \in Inside /\ file' = file
    BY <1>6 DEF NewStorageClient, Inside
  <2>2. ASSUME NEW a \in Accounts, file = Content(a), client' = [client EXCEPT ![w] = a],
               Goto(w, "use"), UNCHANGED <<cr, got, met, pending>>
        PROVE  InSa'
    <3>1. a \in Shared(w)
      BY <2>1, <2>2, ContentType DEF InSa, FileShared
    <3>2. pc'[w] = "use" /\ client'[w] = a
      BY <2>2 DEF Goto, TypeOK
    <3>3. \A v \in Workers : /\ Account(v)' = Account(v) /\ Shared(v)' = Shared(v)
                             /\ v # w => pc'[v] = pc[v] /\ client'[v] = client[v]
      BY <2>2 DEF Goto, TypeOK, Account, Shared
    <3>4. Inside' = Inside \ {w}
      BY <3>2, <3>3 DEF Inside
    <3>5. AllMet' /\ FileShared'
      BY <2>1, <2>2, <3>3, <3>4 DEF InSa, AllMet, FileShared, Inside
    <3>6. ClientShared'
      BY <3>1, <3>2, <3>3 DEF InSa, ClientShared
    <3>7. QED
      BY <3>5, <3>6 DEF InSa
  <2>3. QED
    BY <1>1, <1>6, <2>1, <2>2 DEF NewStorageClient
<1>7. CASE Use(w)
  BY <1>7, SharedEnd DEF Use
<1>8. CASE Refused(w)
  BY <1>1, <1>8 DEF Refused
<1>9. QED
  BY <1>2, <1>3, <1>4, <1>5, <1>6, <1>7, <1>8 DEF Step

LEMMA SharedUsers ==
    ASSUME TypeOK, InSa,
           \/ \E s \in Secrets : Rotate(s) \/ Remove(s)
           \/ \E c \in CRs : Request(c) \/ Dequeue(c)
    PROVE  InSa' /\ used' = used
<1>1. CASE UNCHANGED <<pc, cr, got, client, file, met, used>>
  BY <1>1 DEF InSa, AllMet, FileShared, ClientShared, Shared, Inside, Account
<1>2. ASSUME NEW c \in CRs, Dequeue(c)
      PROVE  InSa' /\ used' = used
  <2> DEFINE w == WorkerOf[c]
  <2>1. w \in Workers
    BY CredentialsAssumption
  <2>2. /\ pc[w] = "idle" /\ pc' = [pc EXCEPT ![w] = "read"] /\ cr' = [cr EXCEPT ![w] = c]
        /\ UNCHANGED <<got, client, file, met, used>>
    BY <1>2 DEF Dequeue, Goto
  <2> HIDE DEF w
  <2>3. pc'[w] = "read"
    BY <2>1, <2>2 DEF TypeOK
  <2>4. \A v \in Workers : v # w =>
          pc'[v] = pc[v] /\ client'[v] = client[v] /\ Account(v)' = Account(v)
    BY <2>1, <2>2 DEF TypeOK, Account
  <2>5. InSa'
    BY <2>1, <2>2, <2>3, <2>4, SharedElsewhere DEF Inside
  <2>6. QED
    BY <2>2, <2>5
<1>3. QED
  BY <1>1, <1>2 DEF Rotate, Remove, Request

\* The account of a call is written to the record of its use.
LEMMA OwnOrMetStep ==
    ASSUME TypeOK, InSa, OwnOrMet, NEW w \in Workers, Step(w)
    PROVE  OwnOrMet'
<1>1. CASE Use(w)
  <2>1. /\ pc[w] = "use" /\ client[w] # Mismatch
        /\ used' = used \cup {[cr |-> cr[w], read |-> got[w], client |-> client[w],
                               met |-> met[w]]}
    BY <1>1 DEF Use
  <2>2. client[w] \in {[secret |-> SecretOf[cr[w]], version |-> got[w]]} \cup met[w]
    BY <2>1 DEF InSa, ClientShared, Shared, Account
  <2>3. QED
    BY <2>1, <2>2 DEF OwnOrMet
<1>2. CASE ~Use(w)
  <2>1. used' = used
    BY <1>2 DEF Step, ReadKeyId, ReadSecretKey, getSaJSON, CreateFile, WriteFile,
                NewStorageClient, Refused
  <2>2. QED
    BY <2>1 DEF OwnOrMet
<1>3. QED
  BY <1>1, <1>2

\* Of whatever calls and lengths of accounts: what NewGcsStorageProvider makes of
\* /tmp/sa is the account of this call or of one that was there with it, never a
\* leftover or a mixture; alone, and with S3, it is the account that was read.
THEOREM OnlyAccountsInReach == Spec => []OwnOrMet
<1> DEFINE I == TypeOK /\ InSa /\ OwnOrMet
<1>1. Init => I
  BY TypeInit, SharedInit
<1>2. I /\ [Next]_vars => I'
  <2> SUFFICES ASSUME I, [Next]_vars
               PROVE  I'
    OBVIOUS
  <2>1. CASE UNCHANGED vars
    BY <2>1 DEF vars, TypeOK, InSa, AllMet, FileShared, ClientShared, Shared, OwnOrMet,
                Inside, Account
  <2>2. CASE \/ \E s \in Secrets : Rotate(s) \/ Remove(s)
             \/ \E c \in CRs : Request(c) \/ Dequeue(c)
    BY <2>2, TypeUsers, SharedUsers DEF OwnOrMet
  <2>3. CASE \E w \in Workers : Step(w)
    BY <2>3, TypeStep, SharedStep, OwnOrMetStep
  <2>4. QED
    BY <2>1, <2>2, <2>3 DEF Next
<1>3. QED
  BY <1>1, <1>2, PTL DEF Spec
=============================================================================
