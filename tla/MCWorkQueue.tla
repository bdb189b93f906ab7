---------------------------- MODULE MCWorkQueue ----------------------------
(* WorkQueue on a small instance. *)
EXTENDS WorkQueue
=============================================================================
