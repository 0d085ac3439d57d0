----------------------------- MODULE MCRestore ------------------------------
(* Instances of RestoreController for TLC. *)
EXTENDS RestoreController

CONSTANTS r1, r2, r3, r4, i1, i2, f1, f2, d1, d2

\* Four Restores of the same backupId: two from buckets of their own, one that
\* names no provider that the code knows, and one from the volume.
EveryProvider == [r \in Restores |->
    CASE r = r1 -> "s3" [] r = r2 -> "gcs" [] r = r3 -> "other" [] r = r4 -> "pv"]

OneId == [r \in Restores |-> i1]

\* r2 restores from a bucket, the others from the persistent volume.
PVAndGcs == [r \in Restores |-> IF r = r2 THEN "gcs" ELSE "pv"]

PVAndS3 == [r \in Restores |-> IF r = r2 THEN "s3" ELSE "pv"]

\* Every option that there is.
Documented == [database |-> "given", restoreTo |-> "given", rp |-> "given",
               newRp |-> "given", shard |-> "given"]

AllDocumented == [r \in Restores |-> Documented]

\* r3 has retention policies and no database.
Mixed == [r \in Restores |->
    IF r = r3 THEN [Documented EXCEPT !.database = ""] ELSE Documented]

IdEach == [r \in Restores |-> IF r = r1 THEN i1 ELSE i2]

\* r1 and r3 make the same database.
TwoDatabases == [r \in Restores |-> IF r \in {r1, r3} THEN {d1} ELSE {d2}]

\* No object is empty, or the last one of f2 is.
NoneEmpty == [r \in Restores |-> {}]

LastEmpty == [r \in Restores |-> IF r = r2 THEN {CHOOSE p \in Parts : \A q \in Parts : q <= p} ELSE {}]

FolderEach == [r \in Restores |-> IF r = r1 THEN f1 ELSE f2]
=============================================================================
