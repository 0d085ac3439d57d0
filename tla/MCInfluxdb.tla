----------------------------- MODULE MCInfluxdb -----------------------------
(* Instances of InfluxdbController for TLC. *)
EXTENDS InfluxdbController

CONSTANTS n1, n2, c1, t1

\* Every CR mounts the one claim c1, the way the sample CRs of deploy/crds do.
SharedClaim == [n \in Names |-> c1]

\* n1 has no spec.pod; the other CRs, if any, mount c1.
PodlessN1 == [n \in Names |-> IF n = n1 THEN NoClaim ELSE c1]

\* No PodTemplate is labelled for any CR: nothing in the operator makes one.
NoTemplates == [n \in Names |-> {}]

\* A user labelled one PodTemplate for n2.
OneTemplate == [n \in Names |-> IF n = n2 THEN {t1} ELSE {}]
=============================================================================
