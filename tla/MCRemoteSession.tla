-------------------------- MODULE MCRemoteSession ----------------------------
(***************************************************************************)
(* RemoteSession for TLC: the constants get their values in the .cfg file. *)
(***************************************************************************)
EXTENDS RemoteSession
=============================================================================
