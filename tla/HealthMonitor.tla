---------------------------- MODULE HealthMonitor ----------------------------
(***************************************************************************)
(* The hourly check for silent meters (src/src/health_monitor.py,          *)
(* src/scripts/health_check.py): one episode per silence, keyed by the     *)
(* minute of the last reading before it.                                   *)
(*                                                                         *)
(* Time runs in minutes.  Rows and episodes carry the local wall clock,    *)
(* which the end of summer time sets back once: gaps are differences of    *)
(* wall clocks, as datetimes of one zone subtract.  Notification is the    *)
(* module AlertDelivery.                                                   *)
(***************************************************************************)
EXTENDS Integers, Sequences, FiniteSetsExt

CONSTANTS
    Metrics,   \* the sequence in which the metrics are checked
    Step,      \* the minutes of one step of time
    Horizon,   \* bound: time ends here
    MaxRows,   \* bound: readings of one metric
    BackAt,    \* the minute at which the clocks go back
    Back       \* by how many minutes: 0 where they do not

STALE_THRESHOLD_MINUTES == 90
CheckEvery == 60

ASSUME HealthAssumption ==
    /\ Metrics \in Seq({Metrics[i] : i \in DOMAIN Metrics})
    /\ Step \in Nat \ {0} /\ Horizon \in Nat /\ MaxRows \in Nat
    /\ BackAt \in Nat /\ Back \in {0, 60}

Metric == {Metrics[i] : i \in DOMAIN Metrics}
Wall(t) == IF t < BackAt THEN t ELSE t - Back

VARIABLES
    now,         \* the time
    arrived,     \* [m] the times at which readings of m arrived
    episodes,    \* [m] the started_at of every episode row
    open,        \* [m] those of the rows without ended_at
    todo,        \* the metrics the running check has still to look at
    checkNow,    \* the time at which it began
    due,         \* no check begins before
    concluded,   \* history: [m] the last check of m that ended, and what it knew
    duplicate    \* history: an INSERT met its own UNIQUE key

healthVars == <<now, arrived, episodes, open, todo, checkNow, due, concluded, duplicate>>

HealthTypeOK ==
    /\ now \in 0..Horizon /\ checkNow \in 0..now /\ due \in 0..(Horizon + CheckEvery)
    /\ arrived \in [Metric -> SUBSET (0..now)]
    /\ episodes \in [Metric -> SUBSET Int] /\ open \in [Metric -> SUBSET Int]
    /\ todo \in Seq(Metric) /\ duplicate \in BOOLEAN
    /\ concluded \in [Metric -> [at : 0..Horizon, newest : -1..Horizon]]

HealthInit ==
    /\ now = 0 /\ checkNow = 0 /\ due = 0 /\ todo = <<>> /\ duplicate = FALSE
    /\ arrived = [m \in Metric |-> {}]
    /\ episodes = [m \in Metric |-> {}] /\ open = [m \in Metric |-> {}]
    /\ concluded = [m \in Metric |-> [at |-> 0, newest |-> -1]]

-----------------------------------------------------------------------------
\* SELECT MAX(time): the largest wall clock, not the latest arrival.
LastSeen(m) == Max({Wall(t) : t \in arrived[m]})

\* Mutant: any open episode is taken for that of the present silence.
Tracks_Any(m) == open[m] # {}
Tracks(m) == open[m] = {LastSeen(m)}

Gap(m) == Wall(checkNow) - LastSeen(m)

TimePasses ==
    /\ now + Step <= Horizon /\ now' = now + Step
    /\ todo = <<>>
    /\ UNCHANGED <<arrived, episodes, open, todo, checkNow, due, concluded, duplicate>>

ReadingArrives(m) ==
    /\ Cardinality(arrived[m]) < MaxRows /\ now \notin arrived[m]
    /\ arrived' = [arrived EXCEPT ![m] = @ \cup {now}]
    /\ UNCHANGED <<now, episodes, open, todo, checkNow, due, concluded, duplicate>>

\* The container's loop: a check, then an hour's sleep.
CheckBegins ==
    /\ todo = <<>> /\ now >= due
    /\ todo' = Metrics /\ checkNow' = now /\ due' = now + CheckEvery
    /\ UNCHANGED <<now, arrived, episodes, open, concluded, duplicate>>

\* The container is restarted, perhaps in the middle of a check.
LoopRestarts ==
    /\ due > now
    /\ todo' = <<>> /\ due' = now
    /\ UNCHANGED <<now, arrived, episodes, open, checkNow, concluded, duplicate>>

Concludes(m) ==
    /\ todo' = Tail(todo)
    /\ concluded' = [concluded EXCEPT ![m] = [at |-> checkNow, newest |-> Max(arrived[m])]]
    /\ UNCHANGED <<now, arrived, checkNow, due, duplicate>>

NeverLive(m) ==
    /\ arrived[m] = {}
    /\ todo' = Tail(todo)
    /\ UNCHANGED <<now, arrived, episodes, open, checkNow, due, concluded, duplicate>>

Fresh(m) ==
    /\ arrived[m] # {} /\ Gap(m) <= STALE_THRESHOLD_MINUTES
    /\ open' = [open EXCEPT ![m] = {}] /\ UNCHANGED episodes
    /\ Concludes(m)

StillStale(m) ==
    /\ arrived[m] # {} /\ Gap(m) > STALE_THRESHOLD_MINUTES /\ Tracks(m)
    /\ UNCHANGED <<episodes, open>>
    /\ Concludes(m)

NewlyStale(m) ==
    /\ arrived[m] # {} /\ Gap(m) > STALE_THRESHOLD_MINUTES /\ ~Tracks(m)
    /\ LastSeen(m) \notin episodes[m]
    /\ episodes' = [episodes EXCEPT ![m] = @ \cup {LastSeen(m)}]
    /\ open' = [open EXCEPT ![m] = {LastSeen(m)}]
    /\ Concludes(m)

\* The row exists and is closed: the INSERT raises, the close before it is rolled
\* back, and the metrics that follow are not looked at.
Collides(m) ==
    /\ arrived[m] # {} /\ Gap(m) > STALE_THRESHOLD_MINUTES /\ ~Tracks(m)
    /\ LastSeen(m) \in episodes[m]
    /\ todo' = <<>> /\ duplicate' = TRUE
    /\ UNCHANGED <<now, arrived, episodes, open, checkNow, due, concluded>>

CheckMetric ==
    /\ todo # <<>>
    /\ LET m == Head(todo)
       IN  NeverLive(m) \/ Fresh(m) \/ StillStale(m) \/ NewlyStale(m) \/ Collides(m)

HealthNext ==
    \/ TimePasses \/ CheckBegins \/ CheckMetric \/ LoopRestarts
    \/ \E m \in Metric : ReadingArrives(m)

HealthSpec == HealthInit /\ [][HealthNext]_healthVars

-----------------------------------------------------------------------------
\* What the last check of a metric left open is the silence it found, and nothing
\* else: one row when the newest reading it knew was over the threshold old, of
\* that very reading, whatever was missed, repeated or interrupted (check_health).
SilenceIsReported ==
    \A m \in Metric :
        LET c == concluded[m]
        IN  c.newest # -1 =>
                open[m] = IF c.at - c.newest > STALE_THRESHOLD_MINUTES
                          THEN {Wall(c.newest)} ELSE {}

\* A check that finds the same reading again resolves to the episode it has
\* opened, "never a duplicate row" (src/src/health_monitor.py:99).
NeverDuplicate == ~duplicate
=============================================================================
