---------------------------- MODULE MCLocalMetering ----------------------------
(***************************************************************************)
(* LocalMetering for TLC: a few units of traffic are enough for a poll, a  *)
(* flush, a crash and a replay to divide them in every way.                *)
(***************************************************************************)
EXTENDS LocalMetering
================================================================================
