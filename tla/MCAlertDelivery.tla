-------------------------- MODULE MCAlertDelivery --------------------------
(***************************************************************************)
(* Instances of AlertDelivery for TLC: a Tier 1 run and an overnight       *)
(* background leak, both notified by the poll loop, which must share its   *)
(* cycles between them; and a Tier 1 run alone.                            *)
(***************************************************************************)
EXTENDS AlertDelivery

CONSTANTS run, night, poller

OwnedByPoller == [e \in Episodes |-> poller]
TierOfEach == [e \in Episodes |-> IF e = run THEN "G" ELSE "T2-night"]
=============================================================================
