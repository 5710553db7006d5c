--------------------------- MODULE MCMetricPipeline ----------------------------
(***************************************************************************)
(* Instances of MetricPipeline for TLC, in units of a quarter of a day.    *)
(***************************************************************************)
EXTENDS MetricPipeline, TLC

\* A legacy fact, an AI event that may arrive late, and a fact of a later day.
MCEpochs == "old" :> 0 @@ "ai" :> 1 @@ "net" :> 3
MCPoints == DOMAIN MCEpochs
================================================================================
