---------------------------- MODULE MCCommandQueue -----------------------------
(***************************************************************************)
(* Instances of CommandQueue for TLC.  The commands are numbered in file-  *)
(* name order, which is the order of random UUIDs and not of submission.   *)
(***************************************************************************)
EXTENDS CommandQueue, TLC

\* Two receipts claim one identity with different usage.
MCReceiptTypes == 1 :> "ai.usage.receipt.record" @@ 2 :> "ai.usage.receipt.record"
MCReceiptCommands == DOMAIN MCReceiptTypes
MCEventOf == 1 :> "attempt" @@ 2 :> "attempt"
MCUsageOf == 1 :> 10 @@ 2 :> 20

\* A settings update beside a query.
MCSettingsTypes == 1 :> "configuration.update" @@ 2 :> "metrics.query"
MCSettingsCommands == DOMAIN MCSettingsTypes
MCNoReceipts == <<>>
================================================================================
