----------------------------- MODULE MCCRCopies -----------------------------
(* The instance of CRCopies for TLC. *)
EXTENDS CRCopies
=============================================================================
