---------------------------- MODULE MCCopyPath ----------------------------
(* CopyPath on a small instance. *)
EXTENDS CopyPath
=============================================================================
