---------------------------- MODULE WaterSeries ----------------------------
(***************************************************************************)
(* The two queries the leak detector makes over water_readings             *)
(* (src/src/runaway_detector.py): the trailing mean rate of Tier 1 and the *)
(* streak of flowing 15-minute buckets of Tier 2.                          *)
(*                                                                         *)
(* A series is a function r from times to the cumulative meter reading     *)
(* stored for that time, or Missing.  One unit of time is one reading; a   *)
(* bucket is BucketLen units and bucket b is the times b*BucketLen up to   *)
(* the next bucket.                                                        *)
(***************************************************************************)
EXTENDS Integers, FiniteSets, FiniteSetsExt

CONSTANTS
    BucketLen,     \* T2_BUCKET_MINUTES
    Trail,         \* TRAIL_WINDOW_MINUTES
    ZeroTolerance  \* t2_zero_tolerance

ASSUME SeriesAssumption ==
    /\ BucketLen \in Nat \ {0}
    /\ Trail \in Nat \ {0}
    /\ ZeroTolerance \in Nat

Missing == -1

\* Rates are litres per RateScale units, so that short windows divide exactly.
RateScale == 12

\* The stored times up to t; _reading_at_or_before picks the last of them.
Stored(r, t) == {u \in DOMAIN r : u <= t /\ r[u] # Missing}

\* trailing_rate: the window reaches back Trail units, but never past the
\* last reading before the run; no baseline, or an empty span, means 0.
TrailingRate(r, now, start) ==
    LET before == Stored(r, start - 1)
        cutoff == IF before # {} /\ Max(before) > now - Trail
                  THEN Max(before) ELSE now - Trail
        base == Stored(r, cutoff)
    IN IF Stored(r, now) = {} \/ base = {} \/ Max(Stored(r, now)) = Max(base)
       THEN 0
       ELSE LET from == Max(base)
                to == Max(Stored(r, now))
                litres == IF r[to] > r[from] THEN r[to] - r[from] ELSE 0
            IN (litres * RateScale) \div (to - from)

-----------------------------------------------------------------------------
(***************************************************************************)
(* Tier 2: buckets.                                                        *)
(***************************************************************************)

BucketOf(t) == t \div BucketLen

\* The readings of bucket b up to now; flow_buckets keeps the last of them.
InBucket(r, b, now) == {u \in Stored(r, now) : BucketOf(u) = b}

\* A bucket is measurable only if it and the one before it have readings.
Measured(r, b, now) == InBucket(r, b, now) # {} /\ InBucket(r, b - 1, now) # {}

\* Litres the meter advanced within a measurable bucket (a meter that fell
\* counts as idle).
Litres(r, b, now) ==
    LET advance == r[Max(InBucket(r, b, now))] - r[Max(InBucket(r, b - 1, now))]
    IN IF advance > 0 THEN advance ELSE 0

Flowing(r, b, now) == Measured(r, b, now) /\ Litres(r, b, now) > 0
Idle(r, b, now) == Measured(r, b, now) /\ Litres(r, b, now) = 0

\* Mutation of Streak: the budget bounds consecutive idle buckets only (it is
\* refilled by a flowing one, and the last bucket does not count).
Streak_BudgetPerGap(r, from, now) ==
    LET last == BucketOf(now)
        reaches(i) ==
            \A j \in i..last :
                /\ Measured(r, j, now)
                /\ \E k \in j..(j + ZeroTolerance) : k <= last => Flowing(r, k, now)
        flowing == {j \in BucketOf(from)..last : reaches(j) /\ Flowing(r, j, now)}
    IN IF flowing = {} THEN {} ELSE Min(flowing)..Max(flowing)

\* current_streak(flow_buckets(from, now)): walking back from the current
\* bucket, stop at the first one that cannot be measured or that overdraws
\* the budget of idle buckets, which is for the whole streak; what is left,
\* trimmed to its flowing ends, is the streak (a set of bucket numbers).
Streak(r, from, now) ==
    LET last == BucketOf(now)
        reaches(i) ==
            /\ \A j \in i..last : Measured(r, j, now)
            /\ Cardinality({j \in i..last : Idle(r, j, now)}) <= ZeroTolerance
        flowing == {j \in BucketOf(from)..last : reaches(j) /\ Flowing(r, j, now)}
    IN IF flowing = {} THEN {} ELSE Min(flowing)..Max(flowing)

\* The volume _check_background_window reports for a streak.
StreakVolume(r, s, now) == MapThenSumSet(LAMBDA b : Litres(r, b, now), s)
=============================================================================
