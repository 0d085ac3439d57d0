------------------------- MODULE StorageCredentials -------------------------
(***************************************************************************)
(* How a call of Reconcile gets at its bucket: NewS3StorageProvider and    *)
(* NewGcsStorageProvider (pkg/storage).  The Backup and the Restore        *)
(* controller run side by side in one process, one call each at a time.    *)
(* Every call reads the Secret its CR names (with the namespace of the CR  *)
(* if the reference gives none) and makes a client of its own.  S3 reads   *)
(* the key id and the secret key in two calls.  GCS writes the account     *)
(* to /tmp/sa, which both controllers share, and lets the client library   *)
(* read that file.                                                         *)
(*                                                                         *)
(* An account is known by its Secret and by the version of that Secret;    *)
(* when a user rotates the Secret the service refuses the old one.         *)
(***************************************************************************)
EXTENDS Naturals

CONSTANTS
    Workers,            \* the two controllers
    CRs, WorkerOf,      \* Backup and Restore CRs, and who handles each
    NoCR,
    Provider,           \* spec.storage.provider of each CR: "s3" or "gcs"
    Secrets, SecretOf,  \* the Secret that each CR names
    LengthOf,           \* of the account in each Secret, in blocks
    MaxLength,          \* bound on these lengths
    MaxVersions,        \* bound on the rotations of a Secret
    MaxEvents           \* bound on new requests and on Secrets taken away

ASSUME CredentialsAssumption ==
    /\ WorkerOf \in [CRs -> Workers] /\ NoCR \notin CRs
    /\ Provider \in [CRs -> {"s3", "gcs"}]
    /\ SecretOf \in [CRs -> Secrets]
    /\ MaxLength \in Nat /\ LengthOf \in [Secrets -> 1..MaxLength]
    /\ MaxVersions \in Nat /\ MaxEvents \in Nat

VARIABLES
    secret,             \* version of each Secret in the informer cache (0: none)
    pending,            \* CRs waiting in the work queues
    pc, cr,             \* per worker: step, and the CR of its call
    got,                \* per worker: the version that it read first
    client,             \* per worker: the account that its client has
    file,               \* /tmp/sa: the account that wrote each block of it
    met,                \* per worker: the accounts its use of /tmp/sa has met
    used,               \* the calls that were served
    events              \* how much of the bound is left

vars == <<secret, pending, pc, cr, got, client, file, met, used, events>>

-----------------------------------------------------------------------------
Steps == {"idle", "read", "readKey", "create", "write", "open", "use"}

Accounts == [secret : Secrets, version : 0..MaxVersions]

\* A client that S3 accepts from nobody: an id and a key that do not match.
Mismatch == [secret |-> "none", version |-> 0]

Blocks == 1..MaxLength

Empty == [i \in {} |-> Mismatch]

Content(a) == [i \in 1..LengthOf[a.secret] |-> a]

Calls == [cr : CRs, read : Nat, client : Accounts, met : SUBSET Accounts]

TypeOK ==
    /\ secret \in [Secrets -> 0..MaxVersions]
    /\ pending \in SUBSET CRs
    /\ pc \in [Workers -> Steps]
    /\ cr \in [Workers -> CRs \cup {NoCR}]
    /\ \A w \in Workers : (pc[w] = "idle") <=> (cr[w] = NoCR)
    /\ got \in [Workers -> 0..MaxVersions]
    /\ client \in [Workers -> Accounts \cup {Mismatch}]
    /\ \E blocks \in SUBSET Blocks : file \in [blocks -> Accounts]
    /\ met \in [Workers -> SUBSET Accounts]
    /\ used \in SUBSET Calls
    /\ events \in Nat

Init ==
    /\ secret \in [Secrets -> {v \in {0, 1} : v <= MaxVersions}]
    /\ pending = CRs
    /\ pc = [w \in Workers |-> "idle"] /\ cr = [w \in Workers |-> NoCR]
    /\ got = [w \in Workers |-> 0] /\ client = [w \in Workers |-> Mismatch]
    /\ file = Empty /\ met = [w \in Workers |-> {}] /\ used = {}
    /\ events = MaxEvents

-----------------------------------------------------------------------------
(* Users *)

\* The Secret is created, or its contents are replaced.
Rotate(s) ==
    /\ secret[s] < MaxVersions
    /\ secret' = [secret EXCEPT ![s] = @ + 1]
    /\ UNCHANGED <<pending, pc, cr, got, client, file, met, used, events>>

Event == events > 0 /\ events' = events - 1

Remove(s) ==
    /\ Event
    /\ secret[s] # 0
    /\ secret' = [secret EXCEPT ![s] = 0]
    /\ UNCHANGED <<pending, pc, cr, got, client, file, met, used>>

Request(c) ==
    /\ Event
    /\ pending' = pending \cup {c}
    /\ UNCHANGED <<secret, pc, cr, got, client, file, met, used>>

-----------------------------------------------------------------------------
(* A call *)

shared == <<secret, events>>

Goto(w, step) == pc' = [pc EXCEPT ![w] = step]

\* Mutant: the request is not forgotten.
EndKeepingCR(w) == Goto(w, "idle") /\ UNCHANGED <<cr, got, client, met>>

\* The locals of a call, the client among them, do not outlive it.
End(w) ==
    /\ Goto(w, "idle")
    /\ cr' = [cr EXCEPT ![w] = NoCR]
    /\ got' = [got EXCEPT ![w] = 0]
    /\ client' = [client EXCEPT ![w] = Mismatch]
    /\ met' = [met EXCEPT ![w] = {}]

\* Mutant: the next attempt goes on with the client that was made.
RetryWithClient(w) == Goto(w, "use") /\ UNCHANGED <<cr, got, client, met, pending>>

Requeue(w) == End(w) /\ pending' = pending \cup {cr[w]}

Dequeue(c) ==
    LET w == WorkerOf[c] IN
    /\ pc[w] = "idle"
    /\ c \in pending
    /\ pending' = pending \ {c}
    /\ Goto(w, "read")
    /\ cr' = [cr EXCEPT ![w] = c]
    /\ UNCHANGED <<shared, got, client, file, met, used>>

\* The account that the call has read.
Account(w) == [secret |-> SecretOf[cr[w]], version |-> got[w]]

\* The reads of a Secret fail as long as it, or the key in it, is not there.
getSecretValue(w, next) ==
    IF secret[SecretOf[cr[w]]] = 0
    THEN Requeue(w)
    ELSE /\ got' = [got EXCEPT ![w] = secret[SecretOf[cr[w]]]]
         /\ Goto(w, next)
         /\ UNCHANGED <<cr, client, met, pending>>

ReadKeyId(w) ==
    /\ pc[w] = "read" /\ Provider[cr[w]] = "s3"
    /\ getSecretValue(w, "readKey")
    /\ UNCHANGED <<shared, file, used>>

\* An id and a key of two versions make a session that S3 will refuse.
NewSession(w) ==
    client' = [client EXCEPT ![w] =
        IF secret[SecretOf[cr[w]]] = got[w] THEN Account(w) ELSE Mismatch]

\* The second read may find a newer version.
ReadSecretKey(w) ==
    /\ pc[w] = "readKey"
    /\ IF secret[SecretOf[cr[w]]] = 0
       THEN Requeue(w)
       ELSE /\ NewSession(w)
            /\ Goto(w, "use")
            /\ UNCHANGED <<cr, got, met, pending>>
    /\ UNCHANGED <<shared, file, used>>

getSaJSON(w) ==
    /\ pc[w] = "read" /\ Provider[cr[w]] = "gcs"
    /\ getSecretValue(w, "create")
    /\ UNCHANGED <<shared, file, used>>

Inside == {w \in Workers : pc[w] \in {"write", "open"}}

\* From here to its client the call shares /tmp/sa with those that are there
\* and with those that come.
Meet(w) ==
    met' = [v \in Workers |->
        IF v = w THEN met[w] \cup {Account(u) : u \in Inside}
        ELSE IF v \in Inside THEN met[v] \cup {Account(w)} ELSE met[v]]

\* Mutant: the file is written once, and kept.
CreateOnce(w) ==
    /\ pc[w] = "create"
    /\ Goto(w, IF file = Empty THEN "write" ELSE "open")
    /\ Meet(w)
    /\ UNCHANGED <<shared, cr, pending, got, client, file, used>>

\* os.Create truncates the file, under the feet of whoever is writing it.
CreateFile(w) ==
    /\ pc[w] = "create"
    /\ file' = Empty
    /\ Goto(w, "write")
    /\ Meet(w)
    /\ UNCHANGED <<shared, cr, pending, got, client, used>>

\* Fprintln writes from the start of the file, over what is there.
WriteFile(w) ==
    /\ pc[w] = "write"
    /\ LET mine == Content(Account(w)) IN
       file' = [i \in DOMAIN mine \cup DOMAIN file |->
                   IF i \in DOMAIN mine THEN mine[i] ELSE file[i]]
    /\ Goto(w, "open")
    /\ UNCHANGED <<shared, cr, pending, got, client, met, used>>

\* The library reads the file; it takes it only if it is one account, complete.
NewStorageClient(w) ==
    /\ pc[w] = "open"
    /\ \/ \E a \in Accounts :
            /\ file = Content(a)
            /\ client' = [client EXCEPT ![w] = a]
            /\ Goto(w, "use")
            /\ UNCHANGED <<cr, got, met, pending>>
       \/ (\A a \in Accounts : file # Content(a)) /\ Requeue(w)
    /\ UNCHANGED <<shared, file, used>>

\* The service accepts the current version of an account, the other CR's
\* account included if that one may use this bucket.
Use(w) ==
    /\ pc[w] = "use"
    /\ client[w] # Mismatch
    /\ client[w].version = secret[client[w].secret]
    /\ used' = used \cup {[cr |-> cr[w], read |-> got[w], client |-> client[w], met |-> met[w]]}
    /\ End(w)
    /\ UNCHANGED <<shared, pending, file>>

Refused(w) ==
    /\ pc[w] = "use"
    /\ client[w] # [secret |-> SecretOf[cr[w]], version |-> secret[SecretOf[cr[w]]]]
    /\ Requeue(w)
    /\ UNCHANGED <<shared, file, used>>

-----------------------------------------------------------------------------
Step(w) ==
    \/ ReadKeyId(w) \/ ReadSecretKey(w)
    \/ getSaJSON(w) \/ CreateFile(w) \/ WriteFile(w) \/ NewStorageClient(w)
    \/ Use(w) \/ Refused(w)

Next ==
    \/ \E s \in Secrets : Rotate(s) \/ Remove(s)
    \/ \E c \in CRs : Request(c) \/ Dequeue(c)
    \/ \E w \in Workers : Step(w)

Spec == Init /\ [][Next]_vars

\* A call that has begun goes on, and a work queue is first-in first-out.
FairSpec ==
    /\ Spec
    /\ \A w \in Workers : WF_vars(Step(w))
    /\ \A c \in CRs : SF_vars(Dequeue(c))

-----------------------------------------------------------------------------
(* Properties *)

\* Through /tmp/sa a call gets the account that it read from its own Secret, or
\* that of a call which was there with it at the same time.  Never is it a
\* leftover of an earlier call, another version of its own account, or a mixture
\* of two, whoever truncates the file under whose feet; and a call that met
\* nobody uses its own.
OwnOrMet ==
    \A u \in used :
        u.client \in {[secret |-> SecretOf[u.cr], version |-> u.read]} \cup u.met

\* While its Secret is there every request is served, however often the Secret
\* is rotated, unless calls meet in /tmp/sa for ever.
Served ==
    <>[](\A v, w \in Inside : v = w) =>
        \A c \in CRs :
            c \in pending ~> secret[SecretOf[c]] = 0 \/ \E u \in used : u.cr = c
=============================================================================
