------------------------------- MODULE Monitors -------------------------------
(***************************************************************************)
(* The observers beside the metric path: facilities, alerts, upstream      *)
(* pages, the price catalog, the Xray statistics and the system resources. *)
(* They share no state; the sampling loop only puts their snapshots into   *)
(* one projection (app/agent.py).  So a behaviour of all is determined by  *)
(* one behaviour of each, and one run follows one of them (observed) while *)
(* the others stand still.                                                 *)
(***************************************************************************)
EXTENDS FacilityObserver, AlertEvents, UpstreamStatus, PriceCatalog, XrayStats, SystemResources

VARIABLE observed
monitorVars == <<facilityVars, alertVars, upstreamVars, priceVars, xrayVars, systemVars, observed>>

MonitorsInit ==
    /\ observed \in {"facilities", "alerts", "upstream", "prices", "xray", "system"}
    /\ FacilityInit /\ AlertInit /\ UpstreamInit /\ PriceInit /\ XrayInit /\ SystemInit
    /\ observed = "prices" \/ latest = CHOOSE r \in Releases : TRUE

FacilityTurn ==
    /\ observed = "facilities" /\ FacilityNext
    /\ UNCHANGED <<alertVars, upstreamVars, priceVars, xrayVars, systemVars, observed>>
AlertTurn ==
    /\ observed = "alerts" /\ AlertNext
    /\ UNCHANGED <<facilityVars, upstreamVars, priceVars, xrayVars, systemVars, observed>>
UpstreamTurn ==
    /\ observed = "upstream" /\ UpstreamNext
    /\ UNCHANGED <<facilityVars, alertVars, priceVars, xrayVars, systemVars, observed>>
PriceTurn ==
    /\ observed = "prices" /\ PriceNext
    /\ UNCHANGED <<facilityVars, alertVars, upstreamVars, xrayVars, systemVars, observed>>
XrayTurn ==
    /\ observed = "xray" /\ XrayNext
    /\ UNCHANGED <<facilityVars, alertVars, upstreamVars, priceVars, systemVars, observed>>
SystemTurn ==
    /\ observed = "system" /\ SystemNext
    /\ UNCHANGED <<facilityVars, alertVars, upstreamVars, priceVars, xrayVars, observed>>

MonitorsNext == FacilityTurn \/ AlertTurn \/ UpstreamTurn \/ PriceTurn \/ XrayTurn \/ SystemTurn

MonitorsSpec == MonitorsInit /\ [][MonitorsNext]_monitorVars

\* The types of the six observers.
MonitorsTypeOK ==
    FacilityTypeOK /\ AlertTypeOK /\ UpstreamTypeOK /\ PriceTypeOK /\ XrayTypeOK /\ SystemTypeOK
===============================================================================
