----------------------------- MODULE ReceiptLedger -----------------------------
(***************************************************************************)
(* What the usage-receipt ledger promises to a caller that submits one     *)
(* receipt per billable attempt and retries it under the same identity:    *)
(* the first usage recorded for an identity is the only one ever counted,  *)
(* an acknowledged receipt is in the ledger with exactly its own usage,    *)
(* and a refused one lost to a different usage of the same identity.       *)
(***************************************************************************)
CONSTANTS
    Receipt,   \* the submitted receipts
    Event,     \* hashed attempt identities
    Usage,     \* the token counts a receipt can carry
    EventOf,   \* [Receipt -> Event]
    UsageOf,   \* [Receipt -> Usage]
    NotCounted \* the value of an identity nobody has recorded

VARIABLES
    ledger,       \* [Event -> Usage \cup {NotCounted}]
    acknowledged, \* receipts whose submitter was told "ok"
    refused       \* receipts whose submitter was told "rejected"

vars == <<ledger, acknowledged, refused>>

Init ==
    /\ ledger = [e \in Event |-> NotCounted]
    /\ acknowledged = {}
    /\ refused = {}

Record(r) ==
    /\ ledger[EventOf[r]] = NotCounted
    /\ ledger' = [ledger EXCEPT ![EventOf[r]] = UsageOf[r]]
    /\ UNCHANGED <<acknowledged, refused>>

Acknowledge(r) ==
    /\ ledger[EventOf[r]] = UsageOf[r]
    /\ acknowledged' = acknowledged \cup {r}
    /\ UNCHANGED <<ledger, refused>>

Refuse(r) ==
    /\ ledger[EventOf[r]] \notin {NotCounted, UsageOf[r]}
    /\ refused' = refused \cup {r}
    /\ UNCHANGED <<ledger, acknowledged>>

Next == \E r \in Receipt : Record(r) \/ Acknowledge(r) \/ Refuse(r)

Spec == Init /\ [][Next]_vars
================================================================================
