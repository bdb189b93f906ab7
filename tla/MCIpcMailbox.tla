---------------------------- MODULE MCIpcMailbox ----------------------------
(* Instance of IpcMailbox for TLC; the bounds are set in the .cfg files. *)
EXTENDS IpcMailbox
=============================================================================
