--------------------------- MODULE MCRemoteMetering ---------------------------
(***************************************************************************)
(* RemoteMetering for TLC.                                                 *)
(***************************************************************************)
EXTENDS RemoteMetering
================================================================================
