-------------------------- MODULE MCDiagnosticJournal --------------------------
(***************************************************************************)
(* DiagnosticJournal for TLC: three checks, one in a sample, and caps of   *)
(* one condition, two events and two rows of coverage: every cap is met.   *)
(***************************************************************************)
EXTENDS DiagnosticJournal, TLC

MCFreshness == 1 :> 1 @@ 2 :> 0 @@ 3 :> 1
================================================================================
