----------------------------- MODULE MCDailyUsage -----------------------------
(***************************************************************************)
(* An instance of DailyUsage for TLC: the columns of power, and moments in *)
(* two neighbouring days and at the midnight after them.                   *)
(***************************************************************************)
EXTENDS DailyUsage

PowerWrites == [g \in Sources |->
    CASE g = "live" -> {"combined"} [] g = "api_live" -> {"combined", "tariff"} [] OTHER -> {"tariff"}]
TwoDays == {At(1, 7), At(1, 1430), At(2, 0), At(2, 7), At(3, 0)}
===============================================================================
