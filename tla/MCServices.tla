---------------------------- MODULE MCServices ----------------------------
(* Three services that share no state, each of one location or camera: the *)
(* matcher, the trigger policy and the forecast.  It is enough to drive    *)
(* one of them at a time; which one is chosen at the start.                *)
EXTENDS Matcher, MCVlmTriggers, MCForecast

VARIABLE driven

MCVars == <<matcherVars, vars, forecastVars, driven>>

MCInit ==
    /\ MatcherInit /\ Init /\ ForecastInit
    /\ driven \in {"matcher", "triggers", "forecast"}
    /\ prophet => driven = "forecast"

MCNext ==
    /\ \/ driven = "matcher" /\ MatcherNext /\ UNCHANGED <<vars, forecastVars>>
       \/ driven = "triggers" /\ Next /\ UNCHANGED <<matcherVars, forecastVars>>
       \/ driven = "forecast" /\ ForecastNext /\ UNCHANGED <<matcherVars, vars>>
    /\ UNCHANGED driven

MCSpec == MCInit /\ [][MCNext]_MCVars
===========================================================================
