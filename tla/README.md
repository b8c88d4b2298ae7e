# OmniMeter in TLA+

A specification of [OmniMeter](../src/README.md), a self-hosted energy and water
dashboard: TLA+ modules translated from its Python source, TLC configurations
that model-check them, and TLAPS proofs of the results that matter most.

    tlc -workers 2 -config Pipeline.cfg MCPipeline      # a run
    tlapm Pipeline_proofs.tla                           # a proof

## 1. Inventory

OmniMeter is several processes on one SQLite file (WAL, 30 s busy time-out), an
import directory, a few flag files and a token file. Nothing passes between
processes except through these.

| Process | Code | Runs |
| --- | --- | --- |
| poller | `src/meter_poller.py` | a loop of 20 s: ingest every device, run the two leak detectors and notify; every third cycle rebuild the rollups |
| web | `src/app.py` under gunicorn | two workers: forms, imports, acknowledgements, reads |
| dropzone | `src/ingest_cli.py` | every 15 min: scan `imports/*.csv`, rebuild if anything was new |
| health check | `scripts/health_check.py` | hourly: staleness episodes and their alerts |
| anomaly | `scripts/anomaly.py` | nightly: retrain, judge yesterday, digest |
| weather | `scripts/weather_backfill.py` | daily: fetch what the archive has for the metered days |
| solaredge | `scripts/solaredge_poll.py` | every 30 min by daylight; beside it, by hand, `solaredge_authorize` and `solaredge_backfill` |
| backup, restore, set-up | `scripts/` | daily or by hand |

Every process calls `init_db` when it starts.

| Component | State | Operations | Hard behaviour | What makes it correct |
| --- | --- | --- | --- | --- |
| alert delivery (`alert_delivery`, `telegram_notifier`) | count, last alert, notify status, acknowledged/ended of an `alert_episodes` row | notify, send, acknowledge | network between read and commit, lost answers, crashes | silence after an acknowledgement, spacing, the count backed by messages, an alert that stands arrives |
| leak detector (`runaway_detector`) | `detector_state`, episodes, the gates' configuration, occupancy | check_water, check_water_background, dismissal | missed polls, stale gaps, meter reset, two tiers over one table | no episode behind a run that ended, no litre counted twice, no leak out of an outage |
| rates (`app`) | `rate_schedule`, `gas_rate_schedule` | two forms, PDF and CSV import | check-then-insert by two workers, several statements per request | valid rows, one rate per day, an imported file takes no day's rate away |
| SolarEdge access (`solaredge_client`, `solaredge_poll`, `solaredge_authorize`) | token file, lock, two flag files | refresh, get, poll, authorise | single-use refresh tokens, overlapping runs, faults between rotation and write | no race kills a grant, nothing is undone, announced once, every run ends |
| SolarEdge data (`solaredge_ingest`, `solaredge_history`, `solaredge_status`) | daily and power rows, gap attempts, run records | store, finalise, backfill | a transaction open during network calls, partial answers, a backfill beside the poller | one call a day for a gap, no hole of its own |
| device ingest (`meter_ingest`, `meter_device`, ...) | reading tables | ingest_all | a device that fails, the lock from the first row on | one failure does not stop the rest |
| dropzone (`ingest`, `ingest_cli`) | `ingested_files`, `imports/`, `failed/` | scan, upload | two scanners, files overwritten while they are read | what is skipped is stored, nothing vanishes, every file settles |
| aggregation (`aggregate`, `quarters`, `costs`) | rollup tables, occupancy log | rebuild_all, prune, reads | rebuild beside ingest, mixed sources, dips and resets | rollups are an image of what is stored; days are charged exactly and no unit twice |
| staleness (`health_monitor`) | `health` episodes | check_health | keyed by the last reading's wall clock | one open episode, of the present silence |
| anomaly (`anomaly_model`) | model state, `context` episodes | run_daily_check | dies or is repeated between episode and digest | what was found is told |
| weather (`weather`) | `weather_daily` | backfill, refresh | days the archive lacks, exports of older days | holes are the archive's |
| migrations (`db`) | schema, tables under rebuild | init_db | several processes at once, beside writers | no row is lost, every process comes up |
| tariff files, solar production, credentials, local time, update check, backup, set-up, dashboard, Android | none or small | parsing, arithmetic, presentation | | see section 7 |

The hazards of each, at their lines, are listed in `PROJECT.json`.

## 2. Plan

| | Module | Composes | Proofs |
| --- | --- | --- | --- |
| 1 | `AlertDelivery` | | `AlertDelivery_proofs` |
| 2 | `WaterSeries`, `RunawayDetector` | detector over series | `RunawayDetector_proofs` |
| 3 | `RateSchedule` | | `RateSchedule_proofs` |
| 4 | `SolarEdgeToken` | | `SolarEdgeToken_proofs` |
| 5 | `Pipeline`, `Rollups` | poller cycle, scan, upload, deletion, rebuild; `Pipeline` implements `Rollups` | `Pipeline_proofs` |
| 6 | `HealthMonitor`, `SolarHistory`, `NightlyJobs`, `EnergyFlow`, `Migration` | the weather job feeds the anomaly job | `Parts_proofs` |
| 7 | `DailyUsage`, `Occupancy` | algorithms against a second definition | `Aggregate_proofs` |
| | `SetFacts` | division, extremes and sums over finite sets | itself |

Every safety invariant and every action property of the passing runs is a
theorem. Left: `RateSchedule` as an implementation of a serial rate table while
requests do not race; `AlertDelivery` as one of an abstract back-off; and, of
the code, the quarter bands and the spreading of an estimate over them.

## 3. The modules

Every definition is explained where it stands, and `PROJECT.json` maps it to its
lines. An operator `X_...` beside `X` is a mutant: the bug the properties are
tried against.

**AlertDelivery.** One notification is four steps of its caller, as in the code:
the detector looks (`Evaluate`), `notify` checks row and back-off (`Notify`,
`Refused`, `Due`), `send_message` talks to Telegram without a transaction
(`Send`), the row is updated and committed (`Record`, `NextCount`).
`Acknowledge` (web) and `Crash` come between any two. What a detector would
conclude (`signal`) is the environment's. Time advances in quarters of an hour,
the grain of `BACKOFF_MINUTES`. An answer lost on its way back is a fault:
Telegram delivered, the code records a failure. What the household is promised
(`Peace`: 15, 30, then 60 minutes) is a table of the specification beside the
code's `Interval`, and a history variable (`silence`) counts what it got.

**WaterSeries, RunawayDetector.** `WaterSeries` holds the two queries over
`water_readings`: the trailing mean rate, and the streak of flowing buckets with
its tolerance. `RunawayDetector` is the poll: store a reading (`Poll`), tier 1
(`CheckWater`), tier 2 (`CheckWaterBackground`), each committed on its own, with
`Miss`, `Crash`, `MeterReset`, `Move` (occupancy) and `Dismiss` around them. A
detector that raises does not end the cycle and nothing is rolled back
(`Raises`): what it had closed by then (`HalfDone`) stays. An
episode is `row[s]`, keyed by its start like the table's unique index. One poll
stores one reading (the code upserts about three into a minute's row), so time
is counted in readings. Rates are litres per 12 units so that the short windows
divide exactly.

**RateSchedule.** A table is the sequence of its rows in id order. A request is
a transaction: statements interleave, the first write takes SQLite's lock, a
commit publishes (`View`, `Write`, `Commit`), a failure discards. `Manual` is the
form, `Import` the PDF or CSV file; `_apply_rate_periods`,
`_reconcile_open_ended_period` and `_overlapping_period` are `Match`/`Update`,
`ReadOpen`/`Shrink` and `Check`. One instance stands for the power table or the
gas table. A row's price decides nothing and is left out.

**SolarEdgeToken.** The lock file, the token file and its atomic replacement,
`access_token` with its refresh under the lock (`Acquire`, `Load`, `Rotate`,
`Refuse`, which reads a 400 as a lost authorisation even of a live pair,
`Save`), `get` with its single retry (`Request`), the poll with its two
look-send-touch flags, the authorisation (`Exchange`, `Save`, the verifying get,
`Authorised`). The vendor rotates: a refresh makes a new generation and kills the
one before. A pair is its grant and generation; of the clock two verdicts
remain, each a step of the environment. A disabled poll changes nothing; the
removal of the alert flag and the look at the grant's age are one step; an
authorisation whose exchange fails leaves no trace; a grant without a recorded
date never warns; one authorisation at a time. Without `fcntl` there is no lock:
that is the mutant `Free_Always`.

**Pipeline, Rollups.** Three processes, statement by statement. The poller asks
its devices (`Fetch`: any subset of them answers), commits and, when its counter
is due, rebuilds. The timer lists the directory and takes each file through
`ingest_file`: `Hash` against the ledger, `Read` (the file is opened a second
time; one that has no rows is left there unrecorded), `Insert` (takes the lock),
`Record` (hash, mtime, rows and commit; `stat` raises if the file was moved away
meanwhile), or `Aside` (roll back, rename into `failed/`). The web worker does the same for an upload,
and deletes readings. `RebuildRead`, `RebuildReplace`, `RebuildCommit` are
`rebuild_all`; whether the thinning took the lock before the read is a choice.
Files have versions, written in place; a half-written one is a version that does
not parse (`Unreadable`) or holds its header only (`Rowless`). No version comes
back once it was overwritten. `TimeOut` and `Crash` may strike at any wait or step. Simplifications:
one rollup table stands for all (a rebuild replaces them in one transaction, but
reads each kind of readings just before it replaces its table, so `Rollups`
speaks of each table and not of two tables together; the rebuild after a
deletion is of one kind); a version's rows are one change; the toggle that skips
the scan is left out.
`Rollups` is the promise, without files, devices or locks: tables derived in
one piece from stored readings, missing nothing that was stored when the rebuild
began.

**Migration.** `init_db` of any number of processes: the columns that `_migrate`
adds by check-then-ALTER, each in its own transaction; the rebuild of a reading
table whose key is looked up before the transaction that copies it; and the last
transaction, opened by the UPDATE of the occupancy log, in which every later
column is added. Processes die, time out, lose the race for a column and are
restarted, while others write readings. One plain column of each side and one
later column stand for the lists; dropping `ha_api_enabled` is left out.

**HealthMonitor.** The hourly loop, metric by metric: `NeverLive`, `Fresh`,
`StillStale`, `NewlyStale`, and `Collides` for an INSERT that meets its own
unique key. `Wall` is the local clock, which may be set back once. `LoopRestarts`
interrupts a check anywhere between metrics.

**SolarHistory.** A poll's transaction (`StoresOverview` begins it,
`Finalises` asks for the gap, `Commits`), polls that overlap, fail or die, and
the backfill by hand, month by month (`FillsMonth`), all on one table of days;
which day's total the vendor has published is its choice. Runs end before
midnight (polls keep to daylight).

**NightlyJobs.** The weather job (`WeatherRuns`, `WeatherRefreshed`) asks for the
head or the tail of the metered days and stores what the archive gives. The
anomaly job trains on the days that have both, strictly before the judged one
(`Trains`), judges yesterday (`Judges`), and tells (`Digests`), with a commit
after each; it may die and be repeated. The regression's verdict is open, and
one metric stands for the three.

**DailyUsage.** From rows to totals: the best source of each day
(`FilterPreferred`), the removal of dips with the two-week look-ahead
(`CleanGlitches`), intervals of at most 26 hours charged to the day they begin on
(`DailyDeltas`), the primary column before the fallback (`DailyTotals`), the
thinning of old live rows (`Thinned`), and the cross-check
(`reconcile_daily_totals`: `Endpoints`, `Verdict`). Around them a meter that is
polled, missed, dips, is replaced, is exported and has readings deleted. A dip
reads 0, the extreme of the implausibly low values the filter is for. The two
tariff columns of power are one; that `power_daily` also has rows for days with
phase or export values only, which can move the day the cross-check leaves out,
is not modelled.

**EnergyFlow.** The allocation of a day's sources to its uses, offer by offer in
merit order and then whatever pair is left, and the sum over days. Quantities
are whole units; the cut-off of 1e-9 is 0.

**Occupancy.** The resolution of nested and overlapping entries, the bridging of
short gaps and the majority of a day, computed as the code does by sweeping
limits (`Resolved`, `Segments`, `OccupancyByDay`) and, as reference, slot by
slot (`AtHome`).

**MCParts** checks the last six side by side: a behaviour steps only the one it
has chosen, so their states add up and do not multiply.

## 4. The runs

| Run | Instance | Shows |
| --- | --- | --- |
| `alert_delivery` | 2 episodes, one overnight, of one poller; 4 messages, 1 fault | `CountBacked`, `AckSilences`, `NightOnce`, `Spaced`, `FirstAlertArrives` |
| `alert_lost` | as above, smaller | **violated** `FailedSendNeverLost` |
| `runaway_detector` | 9 readings, 2 of them missed, draws of 0 or 3 litres, buckets of 2, 1 event | `OpenIsCurrent`, `NotCountedTwice`, `OneWindow`, `RunHasNoStaleGap`, `BackgroundEvidence`, `RowKeepsGate`, `ExcusedStaysQuiet` |
| `rate_schedule` | 2 workers, 4 requests, 3 days and the open end | `RowsHaveDays`, `OneRatePerDay`, `FilesKeepCoverage` |
| `rate_overlap` | 3 requests, one worker | **violated** `NoPartialOverlap` |
| `solaredge_token` | 2 polls, the authoriser, 3 runs, 2 grants, 1 that ends, 1 fault | `TypeOK`, `NoRaceKillsTheGrant`, `UsedIsSaved`, `AlertsExcused`, `WarningsExcused`, `FileMovesOn` |
| `solaredge_runs` | 2 runs of up to 2 gets, 1 fault | `EveryRunEnds` |
| `pipeline` | 2 files, one that does not parse and one overwritten by its bare header; 1 device, 1 poll, 1 deletion, 1 fault | `SkippedIsStored`, `NothingVanishes`, `ImplementsRollups`, `RollupsCatchUp`, `EveryFileSettles` |
| `migration` | 3 processes, 2 plain columns, 1 later one, 2 sources, 1 death or time-out | `RowsSurvive`, `EveryStartSucceeds` |
| `parts` | see below | `SilenceIsReported`; `AskedOncePerDay`, `HolesWereAsked`; `HolesAreTheArchives`, `RerunTells`; `TotalsReconcile`, `FullDaysAreExact`, `NoPhantomUsage`; `RibbonsSum`, `OnlyForcedFallback`; `MajorityOfTheDay` |
| `counted_twice` | power, 5 moments in two days, no mishap | **violated** `CountedOnce` |
| `duplicate_episode` | 2 metrics, the clocks go back an hour | **violated** `NeverDuplicate` |

For each property of a passing run `PROJECT.json` names a mutant of the code
under which TLC finds it violated.

**Bounds.** Every one is a constant or a guard.

* `alert_delivery`: four messages are the back-off's two entries and, before the
  fourth, its default; one fault suffices where a property compares with the
  number of faults.
* `runaway_detector`: nine readings hold a run, a gap and a second run, and four
  measurable buckets, the shortest window in which idle buckets can overdraw the
  tolerance between two flowing ones; two missed polls are a gap the stale test
  and its off-by-one tell apart, and a bucket without any reading; one event is one crash, exception, reset,
  move or dismissal.
* `rate_schedule`: three days give a period before, inside and after another;
  four requests are two twins, a row that supersedes them, and a file.
* `solaredge_token`, `solaredge_runs`: three runs are two polls that refresh
  while a grant is replaced; two with two gets pass every way from one get to
  the next.
* `pipeline`: the second version of a file is the overwriting between hash and
  read, and the file that is written on in `failed/`; both files come by the
  dropzone or the upload; one fault is a crash or a time-out at any one step;
  `RebuildEvery` is 2, so that a cycle without a rebuild lies between two with
  one.
* `migration`: three processes are two that race and one that comes late.
* `parts`: 45-minute steps to 270 minutes meet the 90-minute threshold exactly
  and pass it, with two readings of each of two metrics; four days of SolarEdge
  hold a gap longer than the span of one call (2 days, as a month); four nights
  with a history of one day hold two judged ones, a hole and an older export;
  the moments of the daily totals (00:07 and 23:50 of one day, 00:00 and 00:07
  of the next, the midnight after, and one a month later) hold a span just over
  and just under a day, a day that has both its midnights, and thinning; one
  mishap is a dip, a new meter or a deletion; two days of flows, each of amounts
  that leave a surplus, a shortfall, or an exact balance; three days of two
  slots with three entries nest, overlap and leave bridged and unbridged gaps.

Deadlock is not checked in `rate_schedule`, `rate_overlap`, `parts`,
`counted_twice` and `duplicate_episode`, whose days or requests run out. Symmetry
(of polls, of workers) is used only in runs without liveness.

**Fairness.**

* `AlertDelivery`: compose keeps the poller's and the health check's loops
  running (`restart: unless-stopped`), and each looks at every episode each cycle
  (strong fairness of `Evaluate`, since another episode's notification occupies
  the caller in between); a notification under way goes on (weak); Telegram
  accepts a repeated attempt in the end (strong fairness of a successful send).
* `SolarEdgeToken`: every network call has a time-out and every running process
  goes on (weak); a process that waits for the lock is not passed over for ever
  (strong fairness of `Acquire`; `flock` promises no order, but polls come every
  30 minutes and hold it for seconds).
* `Pipeline`: each process's steps, its loop's next cycle included, happen again
  and again while they are possible again and again (strong: the lock is free
  only in between). The poller's cycle without an answer counts, an answer does
  not: devices are not fair. A file without rows never settles, by the code, and
  `EveryFileSettles` says so.
* `Migration`: a process that has died is started again and goes on when it can
  (weak).

Households, meters and faults are never fair. The other modules check safety.

## 5. What disagrees with the documentation

Four comments say more than the code does; each is a run.

1. *"A failed send is retried next cycle, never lost"* (`runaway_detector.py`):
   only while the run lasts. An alert whose send fails in the run's last cycle
   is never sent. (`alert_lost`)
2. *"this catches partial overlaps"* (`app.py`): a period entered twice is
   inserted twice, and superseding it shrinks only one of the two.
   (`rate_overlap`)
3. The double counting that `MAX_DELTA_SPAN_HOURS` is documented to remove
   (`aggregate.py`): where the column that bridges a day which only an export
   covers has its readings late on the day before and at the midnight after,
   the interval is just short enough. The day is charged to itself and to the
   day before. The cross-check computes the same intervals and does not see it.
   (`counted_twice`)
4. *"upsert, never a duplicate row"* (`health_monitor.py`): when the clocks go
   back, a check restarted within the repeated hour closes the episode and the
   next one inserts its row again, which the unique key refuses; the check dies,
   and the metrics after it are not looked at. (`duplicate_episode`)

Met while modelling, and not counted as findings:

* Two workers that race can both insert overlapping periods (`raced`), and after
  a period was entered twice a file can take days their rate (`repeated`). A
  fault between the vendor's rotation and the write loses the grant (`lost`).
* `db.py` calls overlapping rates impossible, `app.py` allows equal ones.
* Tier 1 looks an episode up by its start minute alone and overwrites the volume
  of whatever open row it meets. A run that begins at the minute a background
  streak begins can lower that episode's volume, which `runaway_detector.py:547-549`
  says is "never revised downward"; it takes a new meter and a crash between the
  reading and the detectors for the run to have counted less. `RowKeepsGate`
  names the case.
* A dismissal can put the
  overnight gate past what the window holds; SolarEdge's alert comes back after
  a night's skipped runs.
* A database that stays locked sends a good file to `failed/`. Whoever loses the
  race to move a file leaves its scan with an exception. A file moved while it
  is being written is finished in `failed/`. A scan that is switched off after a
  rebuild crashed repairs the rollups only with the next file.
* `DESIGN_SPEC.md:148-150` says a failing file stays in place; `ingest.py`
  moves it.
* Thinning deletes by time and so takes the other sources' rows of that minute
  with it, which its docstring rules out.
* A column that begins with a dip, or reads 0 for longer than the two-week
  look-ahead and then recovers, charges the recovery as usage.
  `NoPhantomUsage` excuses both; `aggregate.py:23-26` describes the second.
* In `init_db` only `_migrate`'s ALTERs can race; the later ones run inside the
  last transaction.
* The weather of a day that was provisional is not fetched again without
  `--refresh`.
* An anomaly run that dies between episode and digest, and is not repeated that
  night, never tells it.
* Of two counts that held a day equally long the one seen first wins, not the one
  the day ended in, as the docstring has it.

## 6. What is proved

TLAPS proves for every value of the constants that satisfies the modules'
assumptions. Those are types, and what the code fixes: a bucket and a trailing
window have a length, a month of the backfill is no longer than the span of one
call, and a table of readings has finitely many moments. Processes, files,
episodes, grants, amounts and counts may be of any number.

* `AlertDelivery_proofs`: `TypeOK`, `CountBacked`, `AckSilences`, `NightOnce`,
  `Spaced`. Each of the last four depends on where a notification in progress
  stands. The invariant adds that a caller notifies only for its own episodes
  (`CallsOwn`), that after one late message none is on its way (`AckBarrier`),
  that an overnight message in flight is the first (`NightBarrier`), that a
  message about to leave is still due (`DueBarrier`), and that what the code
  takes for the last message's age is no more than the silence the household
  had, as long as all it heard was counted (`HeardBarrier`).
* `RunawayDetector_proofs`: `OpenIsCurrent`, `NotCountedTwice`, `OneWindow`,
  `RunHasNoStaleGap`, `BackgroundEvidence`, `RowKeepsGate`, `ExcusedStaysQuiet`.
  None is inductive. The heart of the invariant is an account of the litres:
  each is booked once, in the run that is on or in the row of one that has
  ended, and with what the meter shows beyond the stored last value that is
  never more than what was drawn (`Accounted`); a crash, a reset or a gap can
  only lose from it. The rest says where the clock, the run and the rows stand
  to each other (`RunInOrder`, `RowsInOrder`, `RunHasMost`) and that a dismissal
  leaves its gate above what it excused (`Loosened`). Closing a row breaks none
  of it, which is why a detector may raise half-way (`RaisesOnlyCloses`). Each tier has one lemma
  that says what its poll does to a row; the properties of steps follow from
  those.
* `RateSchedule_proofs`: `TypeOK`, `RowsHaveDays`, `OneRatePerDay`,
  `FilesKeepCoverage`. The invariant relates a transaction's draft to the table
  it was read from, statement by statement; the lemmas say what shrinking one
  row of a table does to its days.
* `SolarEdgeToken_proofs`: `TypeOK` (with the bound on requests),
  `NoRaceKillsTheGrant`, `UsedIsSaved`, `FileMovesOn`. The lock is held exactly
  in the locked sections; what is about to be posted is the file and what is
  about to be saved its live successor; the file is the live generation unless a
  rotation is unsaved or lost; a grant waiting to be stored is newer.
  `AlertsExcused` and `WarningsExcused` are a second account: every run that
  overlaps another brings an excuse and spends at most one, so all
  announcements but one are paid for; of the runs in progress one has brought
  none, and after its announcement the flag is there or it is about to write it
  (`AlertAccount`, `WarningAccount`).
* `Pipeline_proofs`: `SkippedIsStored`, `NothingVanishes`, and the refinement
  `ImplementsRollups`. Versions of a file only grow, wherever it is moved
  (`Grows`); what was read is no older than what was hashed (`DraftOK`), so a
  file that still is what was hashed is what was read; a rebuild in progress
  holds a snapshot of what was committed (`RebuildOK`). The write lock is not
  needed for any of the three.
* `Parts_proofs`, component by component.
  *Staleness*: `SilenceIsReported` while the clocks are not set back (with the
  change it is false: `duplicate_episode`).
  *SolarEdge history*: `AskedOncePerDay`, from what an open transaction has
  recorded (`OpenAttempt`, `CallsCounted`); `HolesWereAsked`, from what a poll
  has gathered beyond the newest day (`Gathered`) and the months that a
  backfill has done with (`Swept`), since either may move the newest day under
  the other.
  *Nightly jobs*: `RerunTells`; `HolesAreTheArchives`, which is not inductive
  because a day that becomes metered later can lie among those with weather:
  the invariant is about every day between two with weather, metered or not
  (`HolesSkipped`), and a request begins before all weather or right behind it.
  *Energy flow*: `RibbonsSum`, `OnlyForcedFallback`. A pair once offered has
  nothing left on one side (`Exhausted`), and every pair is offered: a source
  with something left would leave every use full, but the uses take at least
  what the sources give.
  *Migration*: types, `RowsSurvive`, and that a process that has come up has
  every column and the key, then and for ever (`ReadyIsMigrated`). Whoever holds
  a copy holds the lock and the copy is the table (`CopyIsTable`).
* `Aggregate_proofs`: what the algorithms of `aggregate.py` compute for any
  readings and any log. The invariant of the table (`TableInv`) says that each
  row is what the meter showed or the zero of a dip, and how what it showed
  relates to the moments it ran.
  `TotalsReconcile`: the points that `clean_cumulative_glitches` keeps form a
  chain of intervals (`Chain`), and the gains of a stretch of it telescope to
  the difference of its ends (`Telescopes`), which is what the cross-check
  computes.
  `FullDaysAreExact`: the intervals of such a day are a stretch from one
  midnight to the other, none of them too long.
  `NoPhantomUsage`: each interval's gain is no more than the moments of its
  span at which the meter ran, from the last kept point before it that is no
  dip (`GainIsRun`), and the spans are apart (`SpansApart`).
  `MajorityOfTheDay`: of overlapping entries one prevails (`BestPrevails`), a
  piece between two limits has one entry in force, bridges are exactly the short
  gaps, and so the overlaps of the segments with a day count its slots
  (`HeldIs`).

**How sums and finite sets are proved about.** No induction rule over finite
sets can be instantiated, so `SetFacts` argues by a minimal counterexample: among the
subsets of a finite set that would refute a statement one has no refuting
proper subset (`MinimalSubset`), and taking a member away shows that it does not
refute it. That gives the existence of extremes, and the sum of a fold as a
function on all subsets (`Total`): independent of the order, additive,
monotone, and bounded by what disjoint parts cover.

**What the proofs changed.** The proof of `NoPhantomUsage` failed for a meter that
reads 0 for longer than the look-ahead and then recovers; TLC confirmed the case
once moments were far enough apart, and the property now names it. The proof of
`RowKeepsGate` failed for a background episode on whose start minute a run began
too (section 5), and the property now says exactly when a volume may fall.

Only model-checked: liveness (`FirstAlertArrives`, `EveryRunEnds`,
`RollupsCatchUp`, `EveryFileSettles`, `EveryStartSucceeds`), since the prover has
no fairness and no ENABLED; and the violations, which are counterexamples.

## 7. What is not modelled, and why

* Tariff files, vendor protocols, CSV columns, message texts, rendering: data
  conversion without state across steps; models take what was parsed.
* Quarter bands, costs, outlier and glitch reports, typical weather and degree
  days, solar production: reads of stored rows, mostly floating-point.
* Ridge regression: its verdict is open in `NightlyJobs`.
* SolarEdge's power buckets, run records with the credit estimate and the yearly
  check: written and read beside the modelled tables, nothing depends on them.
* Update check (a cache of one field per worker), credentials and local time
  (lookups), backup and restore (SQLite's copying, with the services stopped),
  the set-up wizard, the dashboard and the Android client.

SQLite is modelled by what the code relies on: deferred transactions, one
writer, reads of the last commit, a time-out for who waits.
