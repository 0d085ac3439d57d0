------------------------ MODULE InfluxdCommandProofs ------------------------
(* Theorems about the command lines of InfluxdCommand, for every spec. *)
EXTENDS InfluxdCommand, TLAPS

LEMMA BackupFlags ==
    ASSUME NEW s \in BackupSpecs
    PROVE  /\ "-database" \in BackupOptions(s) <=> s.databases = "named"
           /\ "-retention" \in BackupOptions(s) <=> s.databases # "absent" /\ s.retention # ""
           /\ "-shard" \in BackupOptions(s) <=> s.retention # "" /\ s.shard # ""
           /\ "-start" \in BackupOptions(s) <=> s.start # ""
           /\ "-end" \in BackupOptions(s) <=> s.end # ""
           /\ "-since" \in BackupOptions(s) <=> s.start = "" /\ s.end = "" /\ s.since # ""
BY DEF BackupOptions, Option

LEMMA RestoreFlags ==
    ASSUME NEW s \in RestoreSpecs
    PROVE  /\ "-db" \in RestoreOptions(s) <=> s.database # ""
           /\ "-newdb" \in RestoreOptions(s) <=> s.restoreTo # ""
           /\ "-rp" \in RestoreOptions(s) <=> s.rp # "" /\ s.database # ""
           /\ "-newrp" \in RestoreOptions(s) <=> s.newRp # "" /\ s.rp # ""
           /\ "-shard" \in RestoreOptions(s) <=> s.shard # "" /\ s.database # "" /\ s.rp # ""
BY DEF RestoreOptions, Option

\* A Backup that asks for a combination which the README allows gets exactly
\* what it asks for: runBackup drops no option and adds none.
THEOREM BackupAsDocumented ==
    ASSUME NEW s \in BackupSpecs, BackupAccepted(BackupAsked(s))
    PROVE  BackupOptions(s) = BackupAsked(s)
<1>1. /\ s.shard # "" => s.retention # ""
      /\ s.retention # "" => s.databases = "named"
      /\ s.since # "" => s.start = "" /\ s.end = ""
  BY DEF BackupAccepted, BackupAsked, Requires, Option
<1>2. QED
  BY <1>1 DEF BackupOptions, BackupAsked, Option

\* The same of Restores.
THEOREM RestoreAsDocumented ==
    ASSUME NEW s \in RestoreSpecs, RestoreAccepted(RestoreAsked(s))
    PROVE  RestoreOptions(s) = RestoreAsked(s)
<1>1. /\ s.rp # "" => s.database # ""
      /\ s.newRp # "" => s.rp # ""
      /\ s.shard # "" => s.database # "" /\ s.rp # ""
  BY DEF RestoreAccepted, RestoreAsked, Requires, Option
<1>2. QED
  BY <1>1 DEF RestoreOptions, RestoreAsked, Option

\* The specs for which runBackup hands influxd a combination that the README
\* rules out: a retention policy without a database, in a list that begins with
\* an empty name, or in no list together with a shard.  (Without a list and a
\* shard the retention policy is dropped instead.)
THEOREM BackupRefusedExactly ==
    ASSUME NEW s \in BackupSpecs, ~BackupPanics(s)
    PROVE  ~BackupAccepted(BackupOptions(s)) <=>
               /\ s.retention # ""
               /\ s.databases = "blank" \/ (s.databases = "absent" /\ s.shard # "")
<1>1. s.databases \in {"absent", "blank", "named"}
  BY DEF BackupSpecs, BackupPanics
<1>2. QED
  BY <1>1, BackupFlags DEF BackupAccepted, Requires

\* The same of Restores: a new retention policy, and an old one without its
\* database.
THEOREM RestoreRefusedExactly ==
    ASSUME NEW s \in RestoreSpecs
    PROVE  ~RestoreAccepted(RestoreOptions(s)) <=>
               s.newRp # "" /\ s.rp # "" /\ s.database = ""
BY RestoreFlags DEF RestoreAccepted, Requires
=============================================================================
