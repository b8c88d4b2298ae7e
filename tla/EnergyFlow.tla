------------------------------ MODULE EnergyFlow ------------------------------
(***************************************************************************)
(* The ribbons of the energy-flow diagram (src/src/aggregate.py): each     *)
(* day's three sources are allocated to its three uses, in merit order and *)
(* then by whatever pairing is left, and the days are summed.              *)
(*                                                                         *)
(* Quantities are whole units; the cut-off of 1e-9 is 0 and the rounding   *)
(* of what is shown is left out.                                           *)
(***************************************************************************)
EXTENDS Integers, Sequences

CONSTANTS
    Amounts,  \* [n] the daily totals node n may have
    MaxDays   \* bound: the days of a period

Source == {"solar", "battery_discharge", "grid_in"}
Use == {"load", "battery_charge", "grid_out"}
Measured == Source \cup {"battery_charge", "grid_out"}
Pass == {"merit", "fallback"}
Ribbon == Source \X Use \X Pass

ASSUME FlowAssumption == Amounts \in [Measured -> SUBSET Nat] /\ MaxDays \in Nat

\* The order of allocation: (source, use, pass).
MeritOrder == <<
    <<"solar", "load", "merit">>, <<"solar", "battery_charge", "merit">>, <<"solar", "grid_out", "merit">>,
    <<"battery_discharge", "load", "merit">>, <<"battery_discharge", "grid_out", "merit">>,
    <<"grid_in", "load", "merit">>, <<"grid_in", "battery_charge", "merit">>,
    <<"solar", "load", "fallback">>, <<"solar", "battery_charge", "fallback">>, <<"solar", "grid_out", "fallback">>,
    <<"battery_discharge", "load", "fallback">>, <<"battery_discharge", "battery_charge", "fallback">>,
    <<"battery_discharge", "grid_out", "fallback">>,
    <<"grid_in", "load", "fallback">>, <<"grid_in", "battery_charge", "fallback">>, <<"grid_in", "grid_out", "fallback">> >>

\* Mutants: the mop-up keeps battery and battery apart; the grid is not offered
\* to the battery's charge in the first pass.
Offers_NoBattery == [MeritOrder EXCEPT ![12] = MeritOrder[11]]
Offers_LoadOnly == [MeritOrder EXCEPT ![7] = MeritOrder[6]]
Offers == MeritOrder

VARIABLES
    offer,        \* the offer that is next; 0 before a day
    sources,      \* [s] the day's total of source s
    uses,         \* [u] the day's total of use u
    unbalanced,   \* what the uses lack
    supply,       \* [s] remaining_sources
    demand,       \* [u] remaining_uses
    flows,        \* [r] the day's ribbons
    period,       \* the sum of the days before
    days

flowVars == <<offer, sources, uses, unbalanced, supply, demand, flows, period, days>>

NoFlow == [r \in Ribbon |-> 0]

FlowInit ==
    /\ offer = 0 /\ days = 0
    /\ sources = [s \in Source |-> 0] /\ uses = [u \in Use |-> 0] /\ unbalanced = 0
    /\ supply = sources /\ demand = uses /\ flows = NoFlow
    /\ period = [sources |-> sources, uses |-> uses, flows |-> NoFlow, unbalanced |-> 0]

Clamped(load) == IF load < 0 THEN 0 ELSE load

\* energy_flow_matrix begins: load is the residual.
DayBegins(solar, discharge, import, charge, export) ==
    /\ offer = 0 /\ days < MaxDays
    /\ LET load == solar + discharge + import - charge - export
       IN  /\ uses' = [u \in Use |-> CASE u = "load" -> Clamped(load)
                                       [] u = "battery_charge" -> charge
                                       [] OTHER -> export]
           /\ unbalanced' = Clamped(load) - load
    /\ sources' = [s \in Source |-> CASE s = "solar" -> solar
                                      [] s = "battery_discharge" -> discharge
                                      [] OTHER -> import]
    /\ supply' = sources' /\ demand' = uses' /\ flows' = NoFlow
    /\ offer' = 1
    /\ UNCHANGED <<period, days>>

Least(a, b) == IF a <= b THEN a ELSE b

\* allocate: one source to one use.
Allocates ==
    /\ offer \in 1..Len(Offers)
    /\ LET r == Offers[offer]
           portion == Least(supply[r[1]], demand[r[2]])
       IN  /\ flows' = [flows EXCEPT ![r] = @ + portion]
           /\ supply' = [supply EXCEPT ![r[1]] = @ - portion]
           /\ demand' = [demand EXCEPT ![r[2]] = @ - portion]
    /\ offer' = offer + 1
    /\ UNCHANGED <<sources, uses, unbalanced, period, days>>

\* sum_energy_flow_matrices takes the day in.
DayIsSummed ==
    /\ offer = Len(Offers) + 1
    /\ period' = [sources |-> [s \in Source |-> period.sources[s] + sources[s]],
                  uses |-> [u \in Use |-> period.uses[u] + uses[u]],
                  flows |-> [r \in Ribbon |-> period.flows[r] + flows[r]],
                  unbalanced |-> period.unbalanced + unbalanced]
    /\ days' = days + 1 /\ offer' = 0
    /\ UNCHANGED <<sources, uses, unbalanced, supply, demand, flows>>

FlowNext ==
    \/ \E solar \in Amounts["solar"], discharge \in Amounts["battery_discharge"],
          import \in Amounts["grid_in"], charge \in Amounts["battery_charge"],
          export \in Amounts["grid_out"] :
            DayBegins(solar, discharge, import, charge, export)
    \/ Allocates \/ DayIsSummed

FlowSpec == FlowInit /\ [][FlowNext]_flowVars

-----------------------------------------------------------------------------
OfSources(f) == f["solar"] + f["battery_discharge"] + f["grid_in"]
OfUses(f) == f["load"] + f["battery_charge"] + f["grid_out"]

\* What a source's ribbons carry, and what a use's ribbons bring.
Sent(f, s) ==
    f[<<s, "load", "merit">>] + f[<<s, "battery_charge", "merit">>] + f[<<s, "grid_out", "merit">>]
    + f[<<s, "load", "fallback">>] + f[<<s, "battery_charge", "fallback">>] + f[<<s, "grid_out", "fallback">>]
Received(f, u) ==
    f[<<"solar", u, "merit">>] + f[<<"battery_discharge", u, "merit">>] + f[<<"grid_in", u, "merit">>]
    + f[<<"solar", u, "fallback">>] + f[<<"battery_discharge", u, "fallback">>] + f[<<"grid_in", u, "fallback">>]

\* Each node's ribbons sum to its total: every source is allocated in full, for any
\* five totals and any number of days, and no use gets more than it took; all that
\* the uses lack is the shortfall reported as unbalanced
\* (energy_flow_matrix, sum_energy_flow_matrices).
RibbonsSum ==
    /\ \A s \in Source : Sent(period.flows, s) = period.sources[s]
    /\ \A u \in Use : Received(period.flows, u) <= period.uses[u]
    /\ OfUses(period.uses) - OfSources(period.sources) = period.unbalanced

\* The second pass only pairs what no sensible pairing is left for: battery to
\* battery or grid to grid, and never both on one day (energy_flow_matrix).
OnlyForcedFallback ==
    /\ \A r \in Ribbon :
        r[3] = "fallback" /\ flows[r] > 0 =>
            \/ r[1] = "battery_discharge" /\ r[2] = "battery_charge"
            \/ r[1] = "grid_in" /\ r[2] = "grid_out"
    /\ \/ flows[<<"battery_discharge", "battery_charge", "fallback">>] = 0
       \/ flows[<<"grid_in", "grid_out", "fallback">>] = 0
=============================================================================
