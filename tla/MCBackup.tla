------------------------------ MODULE MCBackup ------------------------------
(* Instances of BackupController for TLC. *)
EXTENDS BackupController

CONSTANTS b1, b2, b3, b4, p1, f1

AllS3 == [b \in Backups |-> "s3"]

\* b1 goes to GCS, the others stay on the persistent volume.
GcsAndPV == [b \in Backups |-> IF b = b1 THEN "gcs" ELSE "pv"]

\* Every option that goes with the others.
Documented == [databases |-> "named", retention |-> "given", shard |-> "given",
               start |-> "given", end |-> "given", since |-> ""]

\* b3 has an empty list; b4 has a retention policy, a shard and no list.
Mixed == [b \in Backups |->
    CASE b = b3 -> [Documented EXCEPT !.databases = "none"]
      [] b = b4 -> [Documented EXCEPT !.databases = "absent"]
      [] OTHER  -> Documented]

OnePod == [b \in Backups |-> p1]

OneFolder == [b \in Backups |-> f1]
=============================================================================
