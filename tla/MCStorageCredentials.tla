------------------------ MODULE MCStorageCredentials ------------------------
(* The instance of StorageCredentials for TLC. *)
EXTENDS StorageCredentials

CONSTANTS backup, restore, b1, b2, r1, s1, s2

\* The Backups b1 and b2 are handled by one controller, the Restore r1 by the
\* other.
Controllers == [c \in CRs |-> IF c = r1 THEN restore ELSE backup]

\* b1 and r1 meet in /tmp/sa, b2 goes to S3.
OneToS3 == [c \in CRs |-> IF c = b2 THEN "s3" ELSE "gcs"]

\* r1 has an account of its own, longer than that of b1.
SecretEach == [c \in CRs |-> IF c = r1 THEN s2 ELSE s1]

Lengths == [s \in Secrets |-> IF s = s1 THEN 1 ELSE 2]
=============================================================================
