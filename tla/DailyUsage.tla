----------------------------- MODULE DailyUsage -----------------------------
(***************************************************************************)
(* From the readings of one cumulative meter to its daily totals           *)
(* (src/src/aggregate.py): several sources may cover a day, a series may   *)
(* dip, stop for a while, or start again at 0, old live rows are thinned,  *)
(* and a second computation checks the first.                              *)
(*                                                                         *)
(* Times are minutes.  A reading holds the same value v in each of the     *)
(* columns it has: power's combined counter and the sum of its two         *)
(* tariffs; gas, water and battery have one column, the primary one.       *)
(*                                                                         *)
(* Every operation that writes readings is followed by rebuild_all before  *)
(* anything is read here; what happens in between is the module Pipeline.  *)
(***************************************************************************)
EXTENDS Integers, FiniteSets, FiniteSetsExt

CONSTANTS
    Moments,     \* the minutes at which readings are taken
    Primary,     \* the column preferred for a day's total
    Fallback,    \* the column used when the day has no primary one
    Writes,      \* [g] the columns a source writes
    Exported,    \* the days of which there are exports
    MeterStart,  \* what the meter shows at the first moment
    MaxMishaps   \* bound: dips, replaced meters and deleted readings

MinutesPerDay == 1440
MAX_DELTA_SPAN == 26 * 60
Lookahead == 14 * MinutesPerDay
PRUNE_KEEP_DAYS == 30

Sources == {"live", "15min", "daily", "api_live"}
Columns == {Primary, Fallback}

ASSUME UsageAssumption ==
    /\ Moments \subseteq Nat /\ IsFiniteSet(Moments) /\ Moments # {}
    /\ Writes \in [Sources -> SUBSET Columns]
    /\ Exported \subseteq Nat
    /\ MeterStart \in Nat \ {0}
    /\ MaxMishaps \in Nat

At(d, m) == MinutesPerDay * d + m
DayOf(t) == t \div MinutesPerDay
Days == {DayOf(t) : t \in Moments}

VARIABLES
    rows,     \* the reading table: [t, g, cols, v], unique in time and source
    shown,    \* what the meter showed at each moment so far
    mishaps   \* history: dips, replacements and deletions

usageVars == <<rows, shown, mishaps>>

-----------------------------------------------------------------------------
(* The series of one column. *)

Rank(g) == CASE g = "live" -> 3 [] g = "15min" -> 2 [] g = "daily" -> 1 [] OTHER -> 0

BestOfDay(r, R) == \A s \in R : DayOf(s.t) = DayOf(r.t) => Rank(s.g) <= Rank(r.g)

FilterPreferred(R) == {r \in R : BestOfDay(r, R)}

\* [time] value; a day has one source left, so a time has one value.
PointsOf(R, c) ==
    LET has == {r \in R : c \in r.cols}
    IN  [t \in {r.t : r \in has} |-> (CHOOSE r \in has : r.t = t).v]

After(p, t) == {s \in DOMAIN p : s > t}

\* Mutant: every point is kept.
KeptAfter_Next(p, t) == Min(After(p, t))
\* The point kept after the one at t: the next one unless it dips; then the first
\* that recovers within the window; then, a new segment, the next one after all.
KeptAfter(p, t) ==
    LET next == Min(After(p, t))
        back == {s \in After(p, t) : s <= next + Lookahead /\ p[s] >= p[t]}
    IN  IF back = {} THEN next ELSE Min(back)

CleanGlitches(p) ==
    LET kept[t \in DOMAIN p] ==
            \A s \in DOMAIN p : s < t /\ kept[s] => KeptAfter(p, s) <= t
    IN  {t \in DOMAIN p : kept[t]}

\* Consecutive kept points, with their values.
Intervals(p) ==
    LET cleaned == CleanGlitches(p)
        at(t) == [t |-> t, v |-> p[t]]
    IN  {<<at(t), at(KeptAfter(p, t))>> : t \in {s \in cleaned : After(p, s) # {}}}

WithinSpan(a, b) == b.t - a.t <= MAX_DELTA_SPAN

UsedIntervals(p) == {x \in Intervals(p) : x[1].v <= x[2].v /\ WithinSpan(x[1], x[2])}

\* Mutant: an interval belongs to the day it ends on.
ChargedTo_End(x) == DayOf(x[2].t)
ChargedTo(x) == DayOf(x[1].t)

\* compute_daily_deltas: [d] usage, for the days that have any.
DailyDeltas(p) ==
    [d \in {ChargedTo(x) : x \in UsedIntervals(p)} |->
        MapThenSumSet(LAMBDA x : x[2].v - x[1].v, {x \in UsedIntervals(p) : ChargedTo(x) = d})]

DeltasOf(R, c) == DailyDeltas(PointsOf(FilterPreferred(R), c))

\* Mutant: the other column only for a meter that never wrote the primary one.
DailyTotals_OneColumn(R) ==
    IF DOMAIN DeltasOf(R, Primary) # {} THEN DeltasOf(R, Primary) ELSE DeltasOf(R, Fallback)
\* rebuild_*_daily: the primary column where the day has one, else the other.
DailyTotals(R) ==
    LET primary == DeltasOf(R, Primary)
        fallback == DeltasOf(R, Fallback)
    IN  [d \in DOMAIN primary \cup DOMAIN fallback |->
            IF d \in DOMAIN primary THEN primary[d] ELSE fallback[d]]

-----------------------------------------------------------------------------
(* reconcile_daily_totals: the same totals from the ends of each day. *)

Endpoints(p) ==
    [d \in {DayOf(x[1].t) : x \in Intervals(p)} |->
        LET own == {x \in Intervals(p) : DayOf(x[1].t) = d}
            first == CHOOSE x \in own : \A y \in own : x[1].t <= y[1].t
            last == CHOOSE x \in own : \A y \in own : x[1].t >= y[1].t
        IN  [used |-> last[2].v - first[1].v,
             reset |-> \E x \in own : x[2].v < x[1].v,
             gap |-> \E x \in own : x[2].t - x[1].t > MAX_DELTA_SPAN]]

\* The verdict on day d's stored total, or "unchecked".
Verdict(R, totals, d) ==
    LET ends(c) == Endpoints(PointsOf(FilterPreferred(R), c))
        source == IF d \in DOMAIN ends(Primary) THEN ends(Primary) ELSE ends(Fallback)
    IN  IF d \notin DOMAIN source \/ d \notin DOMAIN totals \/ d = Max(DOMAIN totals)
        THEN "unchecked"
        ELSE IF source[d].reset \/ source[d].gap THEN "unverifiable"
        ELSE IF totals[d] = source[d].used THEN "verified" ELSE "mismatch"

-----------------------------------------------------------------------------
(* What happens to the table. *)

\* prune_live_readings: old live rows off the quarter hours go, the last of a day
\* stays.  The DELETE names the time only, so it takes every source's row with it.
Thinned(R, today) ==
    LET old == {r \in R : r.g = "live" /\ DayOf(r.t) < today - PRUNE_KEEP_DAYS}
        gone == {r \in old : /\ r.t % 15 # 0
                             /\ \E s \in old : DayOf(s.t) = DayOf(r.t) /\ s.t > r.t}
    IN  {r \in R : \A x \in gone : x.t # r.t}

Today == IF DOMAIN shown = {} THEN 0 ELSE DayOf(Max(DOMAIN shown))

\* INSERT OR REPLACE, then rebuild_all.
Store(new, today) ==
    rows' = Thinned({r \in rows : \A n \in new : <<n.t, n.g>> # <<r.t, r.g>>} \cup new, today)

Reading(t, g, v) == [t |-> t, g |-> g, cols |-> Writes[g], v |-> v]

\* Rows of the former live source are in the table from the start, or not.
UsageInit ==
    /\ \E old \in {{}, {t \in Moments : DayOf(t) = Min(Days)}} :
        /\ shown = [t \in old |-> MeterStart + Cardinality({s \in old : s < t})]
        /\ rows = {Reading(t, "live", shown[t]) : t \in old}
    /\ mishaps = 0

Upcoming == Min(Moments \ DOMAIN shown)
NextShown == IF DOMAIN shown = {} THEN MeterStart ELSE shown[Max(DOMAIN shown)] + 1
Advance(v) == shown' = [t \in DOMAIN shown \cup {Upcoming} |-> IF t = Upcoming THEN v ELSE shown[t]]

\* A moment passes, and the poller misses it.
Unpolled ==
    /\ DOMAIN shown # Moments
    /\ Advance(NextShown)
    /\ Store({}, DayOf(Upcoming))
    /\ UNCHANGED mishaps

Polled ==
    /\ DOMAIN shown # Moments
    /\ Advance(NextShown)
    /\ Store({Reading(Upcoming, "api_live", NextShown)}, DayOf(Upcoming))
    /\ UNCHANGED mishaps

\* The reading is a zero, though the meter shows more.
Dips ==
    /\ DOMAIN shown # Moments
    /\ mishaps < MaxMishaps /\ mishaps' = mishaps + 1
    /\ Advance(NextShown)
    /\ Store({Reading(Upcoming, "api_live", 0)}, DayOf(Upcoming))

\* The meter is replaced by one that starts at 0.
Replaced ==
    /\ DOMAIN shown # Moments
    /\ mishaps < MaxMishaps /\ mishaps' = mishaps + 1
    /\ Advance(0)
    /\ Store({Reading(Upcoming, "api_live", 0)}, DayOf(Upcoming))

\* An export of a day so far: its quarter hours, or its midnight alone.
ImportQuarters(d) ==
    LET covered == {t \in DOMAIN shown : DayOf(t) = d}
    IN  /\ covered # {}
        /\ Store({Reading(t, "15min", shown[t]) : t \in covered}, Today)
        /\ UNCHANGED <<shown, mishaps>>

ImportDaily(d) ==
    /\ At(d, 0) \in DOMAIN shown
    /\ Store({Reading(At(d, 0), "daily", shown[At(d, 0)])}, Today)
    /\ UNCHANGED <<shown, mishaps>>

\* api_delete_reading: one column of a flagged row becomes NULL, and its category
\* is rebuilt without thinning.
NullReading(r, c) ==
    /\ mishaps < MaxMishaps /\ mishaps' = mishaps + 1
    /\ c \in r.cols
    /\ rows' = (rows \ {r}) \cup {[r EXCEPT !.cols = @ \ {c}]}
    /\ UNCHANGED shown

UsageNext ==
    \/ Unpolled \/ Polled \/ Dips \/ Replaced
    \/ \E d \in Exported : ImportQuarters(d) \/ ImportDaily(d)
    \/ \E r \in rows : \E c \in Columns : NullReading(r, c)

UsageSpec == UsageInit /\ [][UsageNext]_usageVars

-----------------------------------------------------------------------------
(* Correctness. *)

\* What the meter has measured since the first moment; it runs one unit a moment.
Ran == Cardinality({t \in DOMAIN shown : \E s \in DOMAIN shown : s < t /\ shown[t] > 0})

\* Summing a day's intervals and subtracting its ends agree on every day, unless
\* the day is reported as unverifiable (reconcile_daily_totals).
TotalsReconcile ==
    LET totals == DailyTotals(rows)
    IN  \A d \in DOMAIN totals : Verdict(rows, totals, d) # "mismatch"

\* A day whose column has a reading at its own and at the next day's midnight is
\* charged exactly what the meter ran, whatever mix of sources covers it and the
\* days around it; the other column's day, if the day has no primary reading at all
\* (filter_preferred_granularity, compute_daily_deltas, rebuild_power_daily).
FullDaysAreExact ==
    mishaps = 0 =>
        LET totals == DailyTotals(rows)
            has(d, c) == \E r \in FilterPreferred(rows) : r.t = At(d, 0) /\ c \in r.cols
            primary(d) == \E r \in FilterPreferred(rows) : DayOf(r.t) = d /\ Primary \in r.cols
        IN  \A d \in Days, c \in Columns :
                /\ has(d, c) /\ has(d + 1, c)
                /\ c = Primary \/ ~primary(d)
                => d \in DOMAIN totals /\ totals[d] = shown[At(d + 1, 0)] - shown[At(d, 0)]

\* A meter that reads 0 for longer than the look-ahead, less one usable interval.
OutlastsLookahead(p) ==
    \E s, u \in DOMAIN p :
        /\ u - s > Lookahead - MAX_DELTA_SPAN
        /\ p[s] # shown[s] /\ p[u] # shown[u]
        /\ \A x \in DOMAIN p : s <= x /\ x <= u => p[x] = 0

\* No column charges more than the meter ran, whatever dips, is replaced, is deleted
\* or is covered by several sources, unless the column begins with a dip, or dips so
\* long that the meter counts as replaced (clean_cumulative_glitches,
\* compute_daily_deltas).
NoPhantomUsage ==
    \A c \in Columns :
        LET used == DeltasOf(rows, c)
            p == PointsOf(FilterPreferred(rows), c)
        IN  \/ DOMAIN p = {}
            \/ p[Min(DOMAIN p)] # shown[Min(DOMAIN p)]
            \/ OutlastsLookahead(p)
            \/ MapThenSumSet(LAMBDA d : used[d], DOMAIN used) <= Ran

\* The days together are charged no more than the meter ran: the sources of
\* neighbouring days never count a day twice (MAX_DELTA_SPAN_HOURS).
CountedOnce ==
    LET totals == DailyTotals(rows)
    IN  MapThenSumSet(LAMBDA d : totals[d], DOMAIN totals) <= Ran
=============================================================================
