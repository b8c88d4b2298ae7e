------------------------- MODULE MCRunawayDetector -------------------------
(***************************************************************************)
(* Instances of RunawayDetector for TLC: short windows and low gates, so   *)
(* that every gate can fire within the horizon.                            *)
(***************************************************************************)
EXTENDS RunawayDetector

\* Home 4 litres, away 2; rates of 2 and 3 litres per unit; two buckets of
\* flow overnight or away.
SmallGates ==
    [home |-> 4, away |-> 2, g2_rate |-> 2 * RateScale, g3_rate |-> 3 * RateScale,
     t2_night |-> 2 * BucketLen, t2_away |-> 2 * BucketLen]
=============================================================================
