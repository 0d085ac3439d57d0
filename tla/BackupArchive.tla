---------------------------- MODULE BackupArchive ---------------------------
(***************************************************************************)
(* What the Backup controller (pkg/controller/backup/backup_controller.go) *)
(* promises those who restore: the backups that it has reported, with the  *)
(* second that names their directory, the files in it, and whether these   *)
(* are all that influxd wrote.  BackupController is shown to implement     *)
(* this specification with all of its retries, failures and restarts.      *)
(***************************************************************************)
VARIABLE
    archive     \* records with fields second, files, whole, dropped

vars == <<archive>>

Init == archive = {}

\* A backup gets there at once, under a name of its own, and complete, unless
\* one of its connections was dropped without an error.
Add ==
    \E b \in archive' :
        /\ b.whole \/ b.dropped
        /\ \A a \in archive : a.second # b.second
        /\ archive' = archive \cup {b}

\* A second backup is started under the name of one that is there: the archive
\* no longer answers for it.
Share == \E b \in archive : archive' = {a \in archive : a.second # b.second}

\* Nothing else happens to a backup: no file of it is changed or removed.
Next == Add \/ Share

Spec == Init /\ [][Next]_vars
=============================================================================
