------------------------------ MODULE UsageSources ------------------------------
(***************************************************************************)
(* The usage collectors beside each other.  They share no state: the       *)
(* registry keeps a window per source and the metric store a row per       *)
(* source (core/collectors.py, metrics/store.py).  So a behaviour of all   *)
(* is determined by one behaviour of each, and one run follows one of them *)
(* (turn) while the others stand still.                                    *)
(***************************************************************************)
EXTENDS CodexLedger, DayCounters, DshReports, CodexTelemetry

VARIABLE turn
sourceVars == <<codexVars, counterVars, dshVars, telemetryVars, turn>>

SourcesInit ==
    /\ turn \in {"codex", "counters", "dsh", "telemetry"}
    /\ CodexInit /\ CountersInit /\ DshInit /\ TelemetryInit
    /\ turn = "codex" \/ script = CHOOSE s \in Scripts : TRUE
    /\ turn = "counters" \/ collector = CHOOSE c \in Collectors : TRUE

CodexTurn == turn = "codex" /\ CodexNext /\ UNCHANGED <<counterVars, dshVars, telemetryVars, turn>>
CountersTurn == turn = "counters" /\ CountersNext /\ UNCHANGED <<codexVars, dshVars, telemetryVars, turn>>
DshTurn == turn = "dsh" /\ DshNext /\ UNCHANGED <<codexVars, counterVars, telemetryVars, turn>>
TelemetryTurn == turn = "telemetry" /\ TelemetryNext /\ UNCHANGED <<codexVars, counterVars, dshVars, turn>>

SourcesNext == CodexTurn \/ CountersTurn \/ DshTurn \/ TelemetryTurn

SourcesSpec == SourcesInit /\ [][SourcesNext]_sourceVars

\* The types of the four sources.
SourcesTypeOK == CodexTypeOK /\ CountersTypeOK /\ DshTypeOK /\ TelemetryTypeOK
=================================================================================
