---------------------------- MODULE MCRemoteCopy ----------------------------
(* The instance of RemoteCopy for TLC; the constants are numbers. *)
EXTENDS RemoteCopy
=============================================================================
