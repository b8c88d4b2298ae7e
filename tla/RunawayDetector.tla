-------------------------- MODULE RunawayDetector --------------------------
(***************************************************************************)
(* The water leak detector: src/src/runaway_detector.py as meter_poller    *)
(* drives it.  One poll stores a reading (meter_ingest), then runs Tier 1  *)
(* (check_water, the current run and its three gates) and Tier 2           *)
(* (check_water_background, streaks of flowing buckets), each a            *)
(* transaction of its own.  Polls may be missed, the process may die       *)
(* between the steps of one, the meter may be reset, the household leaves  *)
(* and returns, and the web process dismisses episodes at any moment.      *)
(*                                                                         *)
(* Both tiers write alert_episodes, whose rows of this kind and metric are *)
(* keyed by started_at: row[s] is the episode that started at s.           *)
(***************************************************************************)
EXTENDS WaterSeries

CONSTANTS
    MaxTime,       \* bound: the horizon, in readings
    MaxMissed,     \* bound: polls that are missed
    Draws,         \* litres drawn between two readings
    StaleGap,      \* STALE_GAP_SECONDS
    G2Min, G3Min,  \* g2_min_minutes, g3_min_minutes
    NightStart, NightEnd,  \* t2_night_start, t2_night_end
    AwaySlack,     \* the hour added to t2_away_hours for the lookback
    Gates,         \* the configuration a fresh install is seeded with
    MaxEvents      \* bound: poller deaths, meter resets, departures and
                   \* returns, and acknowledgements, taken together

\* The columns of runaway_detector_config a dismissal may nudge; rates are in
\* litres per RateScale units, durations in units.
Columns == {"home", "away", "g2_rate", "g3_rate", "t2_night", "t2_away"}

Margin(column) ==
    IF column \in {"home", "away"} THEN 1             \* _DISMISSAL_MARGIN_L
    ELSE IF column \in {"g2_rate", "g3_rate"} THEN RateScale \* ..._RATE
    ELSE BucketLen                                    \* ..._HOURS, one bucket

ASSUME DetectorAssumption ==
    /\ MaxTime \in Nat /\ MaxMissed \in Nat /\ Draws \subseteq Nat
    /\ StaleGap \in Nat /\ G2Min \in Nat /\ G3Min \in Nat /\ AwaySlack \in Nat
    /\ NightStart \in 0..MaxTime /\ NightEnd \in Nat
    /\ Gates \in [Columns -> Nat]
    /\ MaxEvents \in Nat

VARIABLES
    now,
    meter,       \* the meter's cumulative register
    drawn,       \* history: litres really drawn
    reading,     \* water_readings, granularity api_live
    run,         \* detector_state: run_started_at, run_last_at, run_volume
    last_meter_value,
    row,         \* alert_episodes, kind runaway, metric water
    config,      \* runaway_detector_config
    away,        \* is_away
    away_since,  \* end of the last declared-occupied entry, 0 if none
    pc,          \* where the poller is in its cycle
    events

detector == <<run, last_meter_value>>
world == <<now, meter, drawn, reading>>
household == <<away, away_since>>
vars == <<world, detector, row, config, household, pc, events>>

Times == 0..MaxTime
Null == -1
Vias == {"none", "G1", "G2", "G3", "T2-night", "T2-away"}
Tier1 == {"G1", "G2", "G3"}
Tier2 == {"T2-night", "T2-away"}

\* excused is history: the measure at the last "not a leak" dismissal.
NoRun == [start |-> Null, last |-> Null, volume |-> 0]
NoRow == [via |-> "none", open |-> FALSE, seen |-> 0, peak |-> 0, volume |-> 0,
          occupancy |-> "home", acknowledged |-> FALSE, excused |-> Null]

Rows == [via : Vias, open : BOOLEAN, seen : Times, peak : Nat, volume : Nat,
         occupancy : {"home", "away"}, acknowledged : BOOLEAN, excused : Nat \cup {Null}]

TypeOK ==
    /\ now \in Times
    /\ meter \in Nat /\ drawn \in Nat
    /\ reading \in [Times -> Nat \cup {Missing}]
    /\ run \in [start : Times \cup {Null}, last : Times \cup {Null}, volume : Nat]
    /\ last_meter_value \in Nat \cup {Null}
    /\ row \in [Times -> Rows]
    /\ config \in [Columns -> Nat]
    /\ away \in BOOLEAN /\ away_since \in Times
    /\ pc \in {"wait", "tier1", "tier2"}
    /\ events \in 0..MaxEvents

Init ==
    /\ now = 0
    /\ meter = 0 /\ drawn = 0
    /\ reading = [t \in Times |-> Missing]
    /\ run = NoRun
    /\ last_meter_value = Null
    /\ row = [s \in Times |-> NoRow]
    /\ config = Gates
    /\ away \in BOOLEAN /\ away_since = 0
    /\ pc = "wait"
    /\ events = 0

-----------------------------------------------------------------------------
(***************************************************************************)
(* The world between two polls.                                            *)
(***************************************************************************)

\* Time moves on and d litres are drawn; the poller stores a reading, or its
\* device does not answer (or it is not running) and the cycle is lost.
Advance(d) ==
    /\ pc = "wait" /\ now < MaxTime
    /\ now' = now + 1
    /\ meter' = meter + d
    /\ drawn' = drawn + d
    /\ UNCHANGED <<detector, row, config, household, events>>

Poll(d) ==
    /\ Advance(d)
    /\ reading' = [reading EXCEPT ![now + 1] = meter + d]
    /\ pc' = "tier1"

Miss(d) ==
    /\ Advance(d)
    /\ Cardinality({t \in 1..now : reading[t] = Missing}) < MaxMissed
    /\ UNCHANGED <<reading, pc>>

Event ==
    /\ events < MaxEvents
    /\ events' = events + 1

\* The poller dies between two transactions of a cycle.
Crash ==
    /\ pc # "wait"
    /\ Event
    /\ pc' = "wait"
    /\ UNCHANGED <<world, detector, row, config, household>>

\* The meter is replaced and counts from zero again.
MeterReset ==
    /\ pc = "wait" /\ meter > 0
    /\ Event
    /\ meter' = 0
    /\ UNCHANGED <<now, drawn, reading, detector, row, config, household, pc>>

\* is_away flips: at the end of a declared-occupied entry (away_since knows
\* when), after enough near-zero days (it does not), or on a return.
Move(since) ==
    /\ pc = "wait"
    /\ Event
    /\ away' = ~away
    /\ IF away THEN UNCHANGED away_since
       ELSE since \in {now, away_since} /\ away_since' = since
    /\ UNCHANGED <<world, detector, row, config, pc>>

-----------------------------------------------------------------------------
(***************************************************************************)
(* Tier 1: check_water.                                                    *)
(***************************************************************************)

\* Mutation of CloseAt: the run ends, its episode does not.
CloseAt_Forgotten(rows, s) == rows

\* _close_episode: by start alone, whatever opened the row.
CloseAt(rows, s) ==
    IF s = Null THEN rows ELSE [rows EXCEPT ![s].open = FALSE]

\* Mutation of IsStale: the gap is measured from the start of the outage's
\* first missed poll.
IsStale_OneLate == run.start # Null /\ now - run.last > StaleGap + 1

\* A run whose last sample is too old is dead, not resumable.
IsStale == run.start # Null /\ now - run.last > StaleGap

\* _evaluate_gates: away mode has the volume gate only; at home the most
\* specific gate names the episode.
FiredVia(start, volume, rate) ==
    IF away THEN IF volume >= config["away"] THEN "G1" ELSE "none"
    ELSE IF now - start >= G3Min /\ rate >= config["g3_rate"] THEN "G3"
    ELSE IF now - start >= G2Min /\ rate >= config["g2_rate"] THEN "G2"
    ELSE IF volume >= config["home"] THEN "G1"
    ELSE "none"

\* Mutation of OpenOrUpdate: the gate satisfied now is written to the row.
OpenOrUpdate_Renamed(rows, s, via, volume, rate) ==
    [rows EXCEPT ![s] = [NoRow EXCEPT !.via = via, !.open = TRUE, !.seen = now,
        !.peak = rate, !.volume = volume, !.occupancy = IF away THEN "away" ELSE "home"]]

\* The row a satisfied gate inserts, or updates if the run already has one
\* that is open: fired_via and the occupancy are those of the opening.
OpenOrUpdate(rows, s, via, volume, rate) ==
    IF rows[s].via = "none"
    THEN [rows EXCEPT ![s] = [NoRow EXCEPT !.via = via, !.open = TRUE, !.seen = now,
              !.peak = rate, !.volume = volume, !.occupancy = IF away THEN "away" ELSE "home"]]
    ELSE IF rows[s].open
    THEN [rows EXCEPT ![s].seen = now, ![s].volume = volume,
                      ![s].peak = IF rate > @ THEN rate ELSE @]
    ELSE rows

\* The run and the rows after a poll that advanced the meter by delta.
Flow(rows, before, delta) ==
    LET start == IF before.start = Null THEN now ELSE before.start
        volume == before.volume + delta
        rate == TrailingRate(reading, now, start)
        via == FiredVia(start, volume, rate)
    IN /\ run' = [start |-> start, last |-> now, volume |-> volume]
       /\ row' = IF via = "none" THEN rows ELSE OpenOrUpdate(rows, start, via, volume, rate)

\* Mutation of NextLast: the meter value is stored only outside a run.
NextLast_KeptInRun == IF run.start = Null THEN reading[now] ELSE last_meter_value

NextLast == reading[now]

CheckWater ==
    /\ pc = "tier1"
    /\ pc' = "tier2"
    /\ last_meter_value' = NextLast
    /\ IF last_meter_value = Null
       THEN UNCHANGED <<run, row>>
       ELSE LET before == IF IsStale THEN NoRun ELSE run
                rows == IF IsStale THEN CloseAt(row, run.start) ELSE row
                delta == reading[now] - last_meter_value
            IN IF delta <= 0
               THEN run' = NoRun /\ row' = CloseAt(rows, before.start)
               ELSE Flow(rows, before, delta)
    /\ UNCHANGED <<world, config, household, events>>

-----------------------------------------------------------------------------
(***************************************************************************)
(* Tier 2: check_water_background.                                         *)
(***************************************************************************)

\* _close_background_episode.
CloseVia(rows, via) ==
    [s \in Times |-> IF rows[s].via = via THEN [rows[s] EXCEPT !.open = FALSE] ELSE rows[s]]

OpenVia(rows, via) == {s \in Times : rows[s].via = via /\ rows[s].open}

\* last_seen, and a volume that is never revised downward.
Touch(rows, s, volume) ==
    [rows EXCEPT ![s].seen = now, ![s].open = TRUE,
                 ![s].volume = IF volume > @ THEN volume ELSE @]

\* _check_background_window: an open episode keeps its start; otherwise the
\* streak's start names the row, which may be this detector's own closed one
\* (resumed), nobody's (inserted), or another detector's (left alone).
Window(rows, via, from, minimum) ==
    LET streak == Streak(reading, from, now)
        volume == StreakVolume(reading, streak, now)
        start == Min(streak) * BucketLen
    IN IF Cardinality(streak) * BucketLen < minimum \/ streak = {}
       THEN CloseVia(rows, via)
       ELSE IF OpenVia(rows, via) # {}
       THEN Touch(rows, Max(OpenVia(rows, via)), volume)
       ELSE IF rows[start].via = via
       THEN Touch(rows, start, volume)
       ELSE IF rows[start].via = "none"
       THEN [rows EXCEPT ![start] = [NoRow EXCEPT !.via = via, !.open = TRUE, !.seen = now,
                 !.volume = volume, !.occupancy = IF via = "T2-away" THEN "away" ELSE "home"]]
       ELSE rows

\* The away lookback, clipped to the moment the house became empty.
AwayFrom ==
    LET from == now - (config["t2_away"] + AwaySlack)
    IN IF away_since > from THEN away_since ELSE IF from < 0 THEN 0 ELSE from

\* Mutation of Background: the window that does not apply is left as it was.
Background_OthersKept ==
    IF away THEN Window(row, "T2-away", AwayFrom, config["t2_away"])
    ELSE IF NightStart <= now /\ now < NightEnd
    THEN Window(row, "T2-night", NightStart, config["t2_night"])
    ELSE row

\* Away takes priority and closes the overnight episode, and conversely.
Background ==
    IF away THEN Window(CloseVia(row, "T2-night"), "T2-away", AwayFrom, config["t2_away"])
    ELSE LET rows == CloseVia(row, "T2-away") IN
         IF NightStart <= now /\ now < NightEnd
         THEN Window(rows, "T2-night", NightStart, config["t2_night"])
         ELSE CloseVia(rows, "T2-night")

CheckWaterBackground ==
    /\ pc = "tier2"
    /\ pc' = "wait"
    /\ row' = Background
    /\ UNCHANGED <<world, detector, config, household, events>>

\* What a detector that raises has done by then: Tier 1 may have closed a stale
\* run's episode before it evaluates the gates, Tier 2 the window that does not
\* apply before it walks the buckets.
HalfDone ==
    IF pc = "tier1" THEN IF IsStale THEN CloseAt(row, run.start) ELSE row
    ELSE CloseVia(row, IF away THEN "T2-night" ELSE "T2-away")

\* run: a detector's exception is logged and the cycle goes on with the next
\* detector.  Nothing is rolled back: what was done is committed with the next
\* commit of the connection, if the process lives to see it.
Raises ==
    /\ pc # "wait"
    /\ Event
    /\ pc' = IF pc = "tier1" THEN "tier2" ELSE "wait"
    /\ row' \in {row, HalfDone}
    /\ UNCHANGED <<world, detector, config, household>>

-----------------------------------------------------------------------------
(***************************************************************************)
(* The web process: api_alerts_acknowledge -> record_dismissal.            *)
(***************************************************************************)

\* _dismissal_target: the column that fired the episode, and the value that
\* fired it.
Target(e) ==
    IF e.via = "G1" THEN IF e.occupancy = "away" THEN "away" ELSE "home"
    ELSE IF e.via = "G2" THEN "g2_rate" ELSE IF e.via = "G3" THEN "g3_rate"
    ELSE IF e.via = "T2-night" THEN "t2_night" ELSE "t2_away"

Measure(e, s) ==
    IF e.via = "G1" THEN e.volume
    ELSE IF e.via \in {"G2", "G3"} THEN e.peak
    ELSE e.seen - s

\* Mutation of Nudged: the volume gate is raised whatever fired.
Nudged_AlwaysVolume(s) ==
    LET value == row[s].volume + Margin("home") IN
    [config EXCEPT !["home"] = IF value > @ THEN value ELSE @]

Nudged(s) ==
    LET column == Target(row[s])
        value == Measure(row[s], s) + Margin(column)
    IN [config EXCEPT ![column] = IF value > @ THEN value ELSE @]

Dismiss(s, not_a_leak) ==
    /\ Event
    /\ row[s].via # "none"
    /\ row' = [row EXCEPT ![s].acknowledged = TRUE,
                           ![s].excused = IF not_a_leak THEN Measure(row[s], s) ELSE @]
    /\ config' = IF not_a_leak THEN Nudged(s) ELSE config
    /\ UNCHANGED <<world, detector, household, pc>>

-----------------------------------------------------------------------------
\* The horizon of the model; the detector itself runs for ever.
Horizon ==
    /\ now = MaxTime /\ pc = "wait"
    /\ UNCHANGED vars

Next ==
    \/ \E d \in Draws : Poll(d) \/ Miss(d)
    \/ Crash
    \/ MeterReset
    \/ \E since \in Times : Move(since)
    \/ CheckWater
    \/ CheckWaterBackground
    \/ Raises
    \/ \E s \in Times, not_a_leak \in BOOLEAN : Dismiss(s, not_a_leak)
    \/ Horizon

Spec == Init /\ [][Next]_vars

-----------------------------------------------------------------------------
(***************************************************************************)
(* Properties                                                              *)
(***************************************************************************)

\* An open Tier 1 episode is always the run detector_state describes: however
\* polls are missed, the process dies or the meter is reset, no episode is
\* left open behind a run that ended.
OpenIsCurrent ==
    \A s \in Times : row[s].via \in Tier1 /\ row[s].open => run.start = s

\* The litres Tier 1 reports over all its episodes were really drawn: no
\* reading is counted by two runs, across restarts, gaps and meter resets.
NotCountedTwice ==
    MapThenSumSet(LAMBDA s : row[s].volume, {s \in Times : row[s].via \in Tier1}) <= drawn

\* A run never survives a gap longer than StaleGap between its samples.
RunHasNoStaleGap ==
    [][run'.start = run.start /\ run'.last # run.last
          => run'.last - run.last <= StaleGap]_vars

\* Evidence behind a background episode when it opens or resumes: from the
\* bucket before its start up to now every bucket has a reading, and at most
\* ZeroTolerance buckets saw the meter stand still.  An outage cannot
\* manufacture a leak, and the tolerance is for the whole streak.
BackgroundEvidence ==
    [][pc = "tier2" => \A s \in Times :
          row'[s].via \in Tier2 /\ row'[s].open /\ ~row[s].open =>
             LET span == BucketOf(s)..BucketOf(now) IN
             /\ \A b \in span \cup {BucketOf(s) - 1} : InBucket(reading, b, now) # {}
             /\ Cardinality({b \in span : Litres(reading, b, now) = 0}) <= ZeroTolerance]_vars

\* The overnight and the away window never hold an episode open together, so
\* that one leak is not announced twice.
OneWindow == OpenVia(row, "T2-night") = {} \/ OpenVia(row, "T2-away") = {}

\* A row keeps the gate and the occupancy that opened it, which the dismissal
\* dispatches on, and its volume is never revised downward, whichever tier
\* writes to it; but for a background episode on whose start a run began too,
\* to which Tier 1 writes what the run has.
RowKeepsGate ==
    [][\A s \in Times : row[s].via # "none" =>
          /\ row'[s].via = row[s].via /\ row'[s].occupancy = row[s].occupancy
          /\ \/ row'[s].volume >= row[s].volume
             \/ row[s].via \in Tier2 /\ run'.start = s]_vars

\* What was dismissed as "not a leak" does not fire again: an episode that
\* opens later through the same gate measures more than every dismissed one
\* did (a Tier 2 window, at least as much).
ExcusedStaysQuiet ==
    [][\A s \in Times :
          row[s].via = "none" /\ row'[s].via # "none" =>
             \A u \in Times :
                row[u].excused # Null /\ Target(row'[s]) = Target(row[u])
                   => \/ Measure(row'[s], s) > row[u].excused
                      \/ row[u].via \in Tier2 /\ Measure(row'[s], s) >= row[u].excused]_vars
=============================================================================
