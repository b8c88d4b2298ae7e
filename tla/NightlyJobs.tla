----------------------------- MODULE NightlyJobs -----------------------------
(***************************************************************************)
(* The two daily jobs that depend on each other: the weather job           *)
(* (src/scripts/weather_backfill.py, src/src/weather.py) stores a day's    *)
(* weather, the anomaly job (src/scripts/anomaly.py,                       *)
(* src/src/anomaly_model.py) trains a model on the days that have both     *)
(* usage and weather and judges yesterday with it.                         *)
(*                                                                         *)
(* Whether a day's usage is above what its model expects is open, and may  *)
(* differ from one run to the next: the regression is data.  One metric    *)
(* stands for the three, which are handled one after the other.            *)
(***************************************************************************)
EXTENDS Integers, FiniteSets, FiniteSetsExt

CONSTANTS
    LastNight,    \* bound: the last day
    MinHistory,   \* MIN_HISTORY_DAYS
    MaxRefreshes, \* bound: runs with --refresh
    MaxRestarts   \* bound: runs that die or are repeated on their day

ASSUME NightlyAssumption == LastNight \in Nat /\ {MinHistory, MaxRefreshes, MaxRestarts} \subseteq Nat

Nights == 1..LastNight

VARIABLES
    date,       \* today
    metered,    \* the days with a row in a *_daily table, today perhaps among them
    weather,    \* the days with a row in weather_daily
    skipped,    \* history: days asked of the archive since they last had none
    refreshes,
    job,        \* where the anomaly job is
    model,      \* anomaly_model_state: the days it was trained on, or {}
    contexts,   \* the days with a 'context' episode
    flagged,    \* the days the running job has flagged
    found,      \* history: the days the last run found anomalous
    told,       \* the days whose episode has a notify_status
    completed,  \* history: the last day on which the job ended
    restarts

nightlyVars == <<date, metered, weather, skipped, refreshes,
                 job, model, contexts, flagged, found, told, completed, restarts>>

NightlyInit ==
    /\ date = 1 /\ metered = {} /\ weather = {} /\ skipped = {}
    /\ refreshes = 0
    /\ job = "idle" /\ model = {} /\ contexts = {} /\ flagged = {} /\ found = {} /\ told = {}
    /\ completed = 0 /\ restarts = 0

jobVars == <<job, model, contexts, flagged, found, told, completed, restarts>>
weatherVars == <<weather, skipped, refreshes>>

-----------------------------------------------------------------------------
\* A rollup gains a day: today's, or an older one from an export.
DayMetered(d) ==
    /\ d <= date /\ d \notin metered
    /\ metered' = metered \cup {d}
    /\ UNCHANGED <<date, weatherVars, jobVars>>

Midnight ==
    /\ date < LastNight /\ date' = date + 1
    /\ job = "idle"
    /\ UNCHANGED <<metered, weatherVars, jobVars>>

-----------------------------------------------------------------------------
(* The weather job. *)

\* Mutant: only the newest day is fetched.
FetchFrom_Newest == Max(metered)
FetchFrom ==
    IF Min(metered) < Min(weather) THEN Min(metered) ELSE Max(weather) + 1

\* One request for a range, of which the archive gives what it has.
Fetches(range) ==
    \E given \in SUBSET range :
        /\ weather' = weather \cup given
        /\ skipped' = (skipped \cup range) \ given

WeatherRuns ==
    /\ metered # {}
    /\ Fetches((IF weather = {} THEN Min(metered) ELSE FetchFrom)..Max(metered))
    /\ UNCHANGED <<date, metered, refreshes, jobVars>>

WeatherRefreshed ==
    /\ metered # {}
    /\ refreshes < MaxRefreshes /\ refreshes' = refreshes + 1
    /\ Fetches(Min(metered)..Max(metered))
    /\ UNCHANGED <<date, metered, jobVars>>

-----------------------------------------------------------------------------
(* The anomaly job. *)

Yesterday == date - 1

\* _training_data: strictly before the day that is to be judged.
TrainingDays == {d \in metered \cap weather : d < Yesterday}

Trained == IF Cardinality(TrainingDays) < MinHistory THEN {} ELSE TrainingDays

\* train_model and its commit; without a model the metric is passed over.
Trains ==
    /\ job = "idle"
    /\ completed = date => restarts < MaxRestarts
    /\ restarts' = IF completed = date THEN restarts + 1 ELSE restarts
    /\ model' = Trained /\ flagged' = {} /\ found' = {}
    /\ job' = IF Trained = {} THEN "judged" ELSE "trained"
    /\ UNCHANGED <<date, metered, weatherVars, contexts, told, completed>>

Judged == Yesterday \in metered \cap weather

\* Mutant: a day that has its row already is not flagged again.
Flags_OnlyNew == IF Yesterday \in contexts THEN {} ELSE {Yesterday}
Flags == {Yesterday}

\* The score, and _record_context_anomaly with INSERT OR IGNORE and its commit.
Judges ==
    /\ job = "trained" /\ job' = "judged"
    /\ \/ Judged /\ contexts' = contexts \cup {Yesterday} /\ flagged' = Flags /\ found' = {Yesterday}
       \/ UNCHANGED <<contexts, flagged, found>>
    /\ UNCHANGED <<date, metered, weatherVars, model, told, completed, restarts>>

\* _send_digest, whatever its outcome: the status is stored.
Digests ==
    /\ job = "judged" /\ job' = "idle"
    /\ told' = told \cup flagged /\ flagged' = {}
    /\ completed' = date
    /\ UNCHANGED <<date, metered, weatherVars, model, contexts, found, restarts>>

JobDies ==
    /\ job # "idle" /\ job' = "idle"
    /\ restarts < MaxRestarts /\ restarts' = restarts + 1
    /\ flagged' = {} /\ found' = {}
    /\ UNCHANGED <<date, metered, weatherVars, model, contexts, told, completed>>

NightlyNext ==
    \/ Midnight \/ WeatherRuns \/ WeatherRefreshed
    \/ Trains \/ Judges \/ Digests \/ JobDies
    \/ \E d \in Nights : DayMetered(d)

NightlySpec == NightlyInit /\ [][NightlyNext]_nightlyVars

-----------------------------------------------------------------------------
NightlyTypeOK ==
    /\ date \in 1..(LastNight + 1)
    /\ metered \subseteq Nights /\ weather \subseteq Nights /\ skipped \subseteq Nights
    /\ job \in {"idle", "trained", "judged"}
    /\ model \subseteq Nights
    /\ contexts \subseteq Nights /\ flagged \subseteq Nights
    /\ found \subseteq Nights /\ told \subseteq Nights
    /\ completed \in 0..date /\ restarts \in Nat /\ refreshes \in Nat

\* The job fetches an end of the range only, yet the holes it leaves are the
\* archive's: a metered day between two with weather was asked for and had none,
\* however many nights were missed and whatever older days an export brought
\* (weather_backfill.main).
HolesAreTheArchives ==
    \A d \in metered :
        weather # {} /\ Min(weather) < d /\ d < Max(weather) /\ d \notin weather => d \in skipped

\* A job that has ended has told of every day it found, also when a run of the
\* same night died between the episode, which is ignored the second time, and the
\* digest (run_daily_check, _record_context_anomaly).
RerunTells == completed = date /\ job = "idle" => found \subseteq told
=============================================================================
