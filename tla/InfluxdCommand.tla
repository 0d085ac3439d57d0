--------------------------- MODULE InfluxdCommand ---------------------------
(***************************************************************************)
(* The options that runBackup (pkg/controller/backup) and Reconcile of     *)
(* pkg/controller/restore put on the command line of influxd, as sets, and *)
(* the rules about them that README.md gives in its sample CRs.  Of a      *)
(* field only that it is empty or given matters; of the list of databases, *)
(* that it is absent, has no element, or begins with an empty or a         *)
(* non-empty name.                                                         *)
(***************************************************************************)

Text == {"", "given"}

BackupSpecs ==
    [databases : {"absent", "none", "blank", "named"},
     retention : Text, shard : Text, start : Text, end : Text, since : Text]

RestoreSpecs == [database : Text, restoreTo : Text, rp : Text, newRp : Text, shard : Text]

Option(flag, condition) == IF condition THEN {flag} ELSE {}

-----------------------------------------------------------------------------
\* Databases[0] of a list that is not nil and has no element.
BackupPanics(s) == s.databases = "none"

BackupOptions(s) ==
    Option("-database", s.databases = "named")
    \cup Option("-retention", s.databases # "absent" /\ s.retention # "")
    \cup Option("-shard", s.retention # "" /\ s.shard # "")
    \cup Option("-start", s.start # "")
    \cup Option("-end", s.end # "")
    \cup Option("-since", s.start = "" /\ s.end = "" /\ s.since # "")

RestoreOptions(s) ==
    Option("-db", s.database # "")
    \cup Option("-newdb", s.restoreTo # "")
    \cup Option("-rp", s.rp # "" /\ s.database # "")
    \cup Option("-newrp", s.newRp # "" /\ s.rp # "")
    \cup Option("-shard", s.shard # "" /\ s.database # "" /\ s.rp # "")

-----------------------------------------------------------------------------
(* The rules: which option requires which, and which exclude each other *)

Requires(options, flag, other) == flag \in options => other \in options

BackupAccepted(options) ==
    /\ Requires(options, "-shard", "-retention")
    /\ Requires(options, "-retention", "-database")
    /\ "-since" \in options => "-start" \notin options /\ "-end" \notin options

RestoreAccepted(options) ==
    /\ Requires(options, "-rp", "-db")
    /\ Requires(options, "-newrp", "-rp")
    /\ Requires(options, "-shard", "-db") /\ Requires(options, "-shard", "-rp")

\* The options for which a spec has a value.
BackupAsked(s) ==
    Option("-database", s.databases = "named")
    \cup Option("-retention", s.retention # "")
    \cup Option("-shard", s.shard # "")
    \cup Option("-start", s.start # "")
    \cup Option("-end", s.end # "")
    \cup Option("-since", s.since # "")

RestoreAsked(s) ==
    Option("-db", s.database # "")
    \cup Option("-newdb", s.restoreTo # "")
    \cup Option("-rp", s.rp # "")
    \cup Option("-newrp", s.newRp # "")
    \cup Option("-shard", s.shard # "")
=============================================================================
