--------------------------- MODULE StatusStabilizer ---------------------------
(***************************************************************************)
(* Confirmation windows for health states (core/status_stability.py): one  *)
(* observation never changes a confirmed status, WorsenAfter equal ones in *)
(* a row make it worse and RecoverAfter make it better.  Its users are the *)
(* collector registry, the remote monitors, the facility observer, the     *)
(* upstream monitor and the system collectors.                             *)
(***************************************************************************)
EXTENDS Naturals

CONSTANTS
    Rank,                    \* severity of each status
    WorsenAfter, RecoverAfter

Status == DOMAIN Rank
Stabilizer == [status : Status, pending : Status \cup {"none"}, count : Nat]

Confirmed(status) == [status |-> status, pending |-> "none", count |-> 0]

Required(from, to) == IF Rank[to] > Rank[from] THEN WorsenAfter ELSE RecoverAfter

Observe(s, candidate, immediate) ==
    LET count == IF s.pending = candidate THEN s.count + 1 ELSE 1
    IN  IF \/ candidate = s.status
           \/ immediate
           \/ count >= Required(s.status, candidate)
        THEN Confirmed(candidate)
        ELSE [s EXCEPT !.pending = candidate, !.count = count]

================================================================================
