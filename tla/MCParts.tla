-------------------------------- MODULE MCParts --------------------------------
(***************************************************************************)
(* The components that share no state with one another, checked side by    *)
(* side: a behaviour steps the one it has chosen, so that the states       *)
(* explored are those of each, added up and not multiplied.                *)
(***************************************************************************)
EXTENDS HealthMonitor, SolarHistory, NightlyJobs, DailyUsage, EnergyFlow, Occupancy

\* HealthMonitor
TwoMetrics == <<"power", "water">>

\* DailyUsage: the columns of power, and moments in two neighbouring days, at the
\* midnight after them and a month later, when the first are thinned.
PowerWrites == [g \in Sources |->
    CASE g = "live" -> {"combined"} [] g = "api_live" -> {"combined", "tariff"} [] OTHER -> {"tariff"}]
ThreeDaysAndAMonthLater == {At(1, 7), At(1, 1430), At(2, 0), At(2, 7), At(3, 0), At(33, 0)}

\* EnergyFlow
SmallAmounts ==
    [n \in Measured |-> CASE n = "solar" -> {0, 1, 3}
                          [] n \in {"battery_discharge", "battery_charge"} -> {0, 2}
                          [] OTHER -> {0, 1}]

VARIABLE part

Parts == {"health", "solar history", "nightly jobs", "daily usage", "energy flow", "occupancy"}

vars == <<part, healthVars, historyVars, nightlyVars, usageVars, flowVars, log>>

Init ==
    /\ part \in Parts
    /\ HealthInit /\ HistoryInit /\ NightlyInit /\ UsageInit /\ FlowInit /\ OccupancyInit
    /\ part # "daily usage" => rows = {}

Health == HealthNext /\ UNCHANGED <<historyVars, nightlyVars, usageVars, flowVars, log>>
History == HistoryNext /\ UNCHANGED <<healthVars, nightlyVars, usageVars, flowVars, log>>
Nightly == NightlyNext /\ UNCHANGED <<healthVars, historyVars, usageVars, flowVars, log>>
Usage == UsageNext /\ UNCHANGED <<healthVars, historyVars, nightlyVars, flowVars, log>>
Flow == FlowNext /\ UNCHANGED <<healthVars, historyVars, nightlyVars, usageVars, log>>
Occupied == OccupancyNext /\ UNCHANGED <<healthVars, historyVars, nightlyVars, usageVars, flowVars>>

Next ==
    /\ \/ part = "health" /\ Health
       \/ part = "solar history" /\ History
       \/ part = "nightly jobs" /\ Nightly
       \/ part = "daily usage" /\ Usage
       \/ part = "energy flow" /\ Flow
       \/ part = "occupancy" /\ Occupied
    /\ UNCHANGED part

Spec == Init /\ [][Next]_vars
================================================================================
