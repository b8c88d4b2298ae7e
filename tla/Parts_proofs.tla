----------------------------- MODULE Parts_proofs -----------------------------
(***************************************************************************)
(* Safety of components that share no state: the check for silent meters,  *)
(* SolarEdge's daily totals, the nightly jobs, the energy flow and the     *)
(* start of the database.  Each property holds for all constants and is    *)
(* made inductive by saying what a run that is half done has already       *)
(* changed.                                                                *)
(***************************************************************************)
EXTENDS HealthMonitor, SolarHistory, NightlyJobs, EnergyFlow, Migration, SetFacts

-----------------------------------------------------------------------------
(* HealthMonitor. *)

HealthInv == HealthTypeOK /\ (Back = 0 => SilenceIsReported)

\* Nothing arrived, nothing open.
LEMMA HealthInitInv == HealthInit => HealthInv
  <1>. SUFFICES ASSUME HealthInit PROVE HealthInv
    OBVIOUS
  <1>1. concluded \in [Metric -> [at : 0..Horizon, newest : -1..Horizon]]
    BY HealthAssumption DEF HealthInit
  <1>2. HealthTypeOK
    <2>1. todo \in Seq(Metric)
      BY DEF HealthInit
    <2>2. now \in 0..Horizon /\ checkNow \in 0..now /\ due \in 0..(Horizon + CheckEvery)
      BY HealthAssumption DEF HealthInit, CheckEvery
    <2>. QED BY <1>1, <2>1, <2>2 DEF HealthInit, HealthTypeOK
  <1>3. SilenceIsReported
    BY DEF HealthInit, SilenceIsReported
  <1>. QED BY <1>2, <1>3 DEF HealthInv

\* The newest reading by the clock is one that arrived, and so is the latest.
LEMMA NewestArrived ==
    ASSUME HealthTypeOK, NEW m \in Metric, arrived[m] # {}
    PROVE  /\ Max(arrived[m]) \in 0..now
           /\ LastSeen(m) \in Int
           /\ Back = 0 => LastSeen(m) = Max(arrived[m]) /\ Wall(Max(arrived[m])) = Max(arrived[m])
  <1>. DEFINE walls == {Wall(t) : t \in arrived[m]}
  <1>1. arrived[m] \subseteq 0..now /\ now \in Int /\ BackAt \in Int /\ Back \in 0..60
    BY HealthAssumption DEF HealthTypeOK
  <1>2. Max(arrived[m]) \in arrived[m]
    BY <1>1, MaxIsLargest
  <1>3. \A t \in 0..now : Wall(t) \in (-60)..now /\ (Back = 0 => Wall(t) = t)
    BY <1>1 DEF Wall
  <1>4. walls \subseteq (-60)..now /\ walls # {}
    BY <1>1, <1>3
  <1>5. Max(walls) \in walls
    <2>1. -60 \in Int /\ now \in Int
      BY <1>1
    <2>. HIDE DEF walls
    <2>. QED BY <1>4, <2>1, MaxIsLargest
  <1>6. Back = 0 => walls = arrived[m]
    BY <1>1, <1>3
  <1>7. LastSeen(m) = Max(walls)
    BY DEF LastSeen
  <1>. HIDE DEF walls
  <1>8. Max(arrived[m]) \in 0..now
    BY <1>1, <1>2
  <1>9. LastSeen(m) \in Int
    <2>1. \A i \in (-60)..now : i \in Int
      OBVIOUS
    <2>. QED BY <1>4, <1>5, <1>7, <2>1
  <1>10. Back = 0 => LastSeen(m) = Max(arrived[m])
    BY <1>6, <1>7
  <1>11. Back = 0 => Wall(Max(arrived[m])) = Max(arrived[m])
    BY <1>3, <1>8
  <1>. QED BY <1>8, <1>9, <1>10, <1>11

\* A metric's check leaves open what it found; nothing else touches either.
LEMMA HealthNextInv == HealthInv /\ [HealthNext]_healthVars => HealthInv'
  <1>. SUFFICES ASSUME HealthInv, [HealthNext]_healthVars PROVE HealthInv'
    OBVIOUS
  <1>. USE HealthAssumption DEF HealthInv
  <1>1. CASE TimePasses
    BY <1>1 DEF TimePasses, HealthTypeOK, SilenceIsReported
  <1>2. CASE CheckBegins
    <2>1. Metrics \in Seq(Metric)
      BY DEF Metric
    <2>. QED BY <1>2, <2>1 DEF CheckBegins, HealthTypeOK, SilenceIsReported, CheckEvery
  <1>3. CASE LoopRestarts
    BY <1>3 DEF LoopRestarts, HealthTypeOK, SilenceIsReported, CheckEvery
  <1>4. ASSUME NEW m \in Metric, ReadingArrives(m) PROVE HealthInv'
    BY <1>4 DEF ReadingArrives, HealthTypeOK, SilenceIsReported
  <1>5. CASE CheckMetric
    <2>. DEFINE m == Head(todo)
    <2>1. m \in Metric /\ Tail(todo) \in Seq(Metric)
      BY <1>5 DEF CheckMetric, HealthTypeOK
    <2>2. CASE NeverLive(m)
      BY <2>1, <2>2 DEF NeverLive, HealthTypeOK, SilenceIsReported
    <2>3. CASE Collides(m)
      BY <2>1, <2>3 DEF Collides, HealthTypeOK, SilenceIsReported
    <2>4. CASE Fresh(m) \/ StillStale(m) \/ NewlyStale(m)
      <3>1. arrived[m] # {} /\ Concludes(m)
        BY <2>4 DEF Fresh, StillStale, NewlyStale
      <3>2. /\ todo' = Tail(todo)
            /\ concluded' = [concluded EXCEPT ![m] = [at |-> checkNow, newest |-> Max(arrived[m])]]
            /\ UNCHANGED <<now, arrived, checkNow, due, duplicate>>
        BY <3>1 DEF Concludes
      <3>3. /\ Max(arrived[m]) \in 0..now /\ LastSeen(m) \in Int
            /\ Back = 0 => LastSeen(m) = Max(arrived[m]) /\ Wall(Max(arrived[m])) = Max(arrived[m])
        BY <2>1, <3>1, NewestArrived
      <3>4. /\ episodes' \in [Metric -> SUBSET Int] /\ open' \in [Metric -> SUBSET Int]
            /\ open' = [open EXCEPT ![m] = open'[m]]
        <4>. HIDE DEF m
        <4>1. CASE Fresh(m)
          BY <2>1, <4>1 DEF Fresh, HealthTypeOK
        <4>2. CASE StillStale(m)
          BY <2>1, <4>2 DEF StillStale, HealthTypeOK
        <4>3. CASE NewlyStale(m)
          BY <2>1, <3>3, <4>3 DEF NewlyStale, HealthTypeOK
        <4>. QED BY <2>4, <4>1, <4>2, <4>3
      <3>5. [at |-> checkNow, newest |-> Max(arrived[m])] \in [at : 0..Horizon, newest : -1..Horizon]
        BY <3>3 DEF HealthTypeOK
      <3>6. HealthTypeOK'
        BY <2>1, <3>2, <3>4, <3>5 DEF HealthTypeOK
      <3>7. ASSUME Back = 0 PROVE SilenceIsReported'
        <4>1. Gap(m) = checkNow - Max(arrived[m])
          BY <3>3, <3>7 DEF Gap, Wall, HealthTypeOK
        <4>2. open'[m] = IF checkNow - Max(arrived[m]) > STALE_THRESHOLD_MINUTES
                         THEN {Max(arrived[m])} ELSE {}
          <5>. HIDE DEF m
          <5>1. CASE Fresh(m)
            BY <2>1, <4>1, <5>1, <3>3 DEF Fresh, HealthTypeOK, STALE_THRESHOLD_MINUTES
          <5>2. CASE StillStale(m)
            BY <2>1, <3>3, <3>7, <4>1, <5>2 DEF StillStale, Tracks, HealthTypeOK
          <5>3. CASE NewlyStale(m)
            BY <2>1, <3>3, <3>7, <4>1, <5>3 DEF NewlyStale, HealthTypeOK
          <5>. QED BY <2>4, <5>1, <5>2, <5>3
        <4>3. concluded'[m] = [at |-> checkNow, newest |-> Max(arrived[m])]
          BY <2>1, <3>2 DEF HealthTypeOK
        <4>4. \A n \in Metric \ {m} : concluded'[n] = concluded[n] /\ open'[n] = open[n]
          <5>. HIDE DEF m
          <5>. QED BY <2>1, <3>2, <3>4 DEF HealthTypeOK
        <4>5. Wall(Max(arrived[m])) = Max(arrived[m])
          BY <3>3, <3>7
        <4>. HIDE DEF m
        <4>6. ASSUME NEW n \in Metric, concluded'[n].newest # -1
              PROVE  open'[n] = IF concluded'[n].at - concluded'[n].newest > STALE_THRESHOLD_MINUTES
                                THEN {Wall(concluded'[n].newest)} ELSE {}
          <5>1. CASE n = m
            <6>1. concluded'[n].at = checkNow /\ concluded'[n].newest = Max(arrived[m])
              BY <4>3, <5>1
            <6>. QED BY <4>2, <4>5, <5>1, <6>1
          <5>2. CASE n # m
            BY <3>7, <4>4, <4>6, <5>2 DEF SilenceIsReported
          <5>. QED BY <5>1, <5>2
        <4>. QED BY <4>6 DEF SilenceIsReported
      <3>. QED BY <3>6, <3>7
    <2>. QED BY <1>5, <2>2, <2>3, <2>4 DEF CheckMetric
  <1>6. CASE UNCHANGED healthVars
    BY <1>6 DEF healthVars, HealthTypeOK, SilenceIsReported
  <1>. QED BY <1>1, <1>2, <1>3, <1>4, <1>5, <1>6 DEF HealthNext

\* The invariant holds throughout.
LEMMA HealthInvariant == HealthSpec => []HealthInv
  <1>. QED BY HealthInitInv, HealthNextInv, PTL DEF HealthSpec

\* Types, with the clocks going back or not (check_health).
THEOREM HealthTypeCorrect == HealthSpec => []HealthTypeOK
  <1>1. HealthInv => HealthTypeOK
    BY DEF HealthInv
  <1>. QED BY <1>1, HealthInvariant, PTL

\* While the clocks are not set back, the last check of each metric left open just the
\* silence it found, for any metrics, readings and restarts of the loop (check_health).
THEOREM OpenIsTheSilence ==
    ASSUME Back = 0
    PROVE  HealthSpec => []SilenceIsReported
  <1>1. HealthInv => SilenceIsReported
    BY DEF HealthInv
  <1>. QED BY <1>1, HealthInvariant, PTL

-----------------------------------------------------------------------------
(* SolarHistory. *)

\* Only the run whose transaction is open is beyond its first request.
OneWriter == \A p \in Pollers : polling[p] # "idle" => writing = p

\* What its transaction holds: an attempt is recorded with the call it counts.
OpenAttempt ==
    /\ attempted \subseteq {today}
    /\ \A p \in Pollers : polling[p] = "overview" => attempted = {}
    /\ attempted # {} => \E p \in Pollers : polling[p] = "asked"

\* A day's calls: the recorded one, and one for every run that died.
CallsCounted ==
    \A d \in AllDays :
        /\ d > today => asked[d] = 0
        /\ asked[d] <= 1 + faults
        /\ d = today /\ d \notin attempts \cup attempted => asked[d] <= faults

HInv == HistoryTypeOK /\ OneWriter /\ OpenAttempt /\ CallsCounted

\* No day stored or asked for.
LEMMA HistoryInitInv == HistoryInit => HInv
  BY HistoryAssumption
     DEF HistoryInit, HInv, HistoryTypeOK, OneWriter, OpenAttempt, CallsCounted, AllDays

\* Every step keeps the count of calls.
LEMMA HistoryNextInv == HInv /\ [HistoryNext]_historyVars => HInv'
  <1>. SUFFICES ASSUME HInv, [HistoryNext]_historyVars PROVE HInv'
    OBVIOUS
  <1>. USE HistoryAssumption DEF HInv, AllDays, Moves
  <1>1. CASE DayPasses
    BY <1>1 DEF DayPasses, HistoryTypeOK, OneWriter, OpenAttempt, CallsCounted
  <1>2. ASSUME NEW d \in AllDays, Publishes(d) PROVE HInv'
    BY <1>2 DEF Publishes, HistoryTypeOK, OneWriter, OpenAttempt, CallsCounted
  <1>3. ASSUME NEW p \in Pollers, StoresOverview(p) PROVE HInv'
    BY <1>3 DEF StoresOverview, MayStoreOverview, HistoryTypeOK, OneWriter, OpenAttempt, CallsCounted
  <1>4. ASSUME NEW p \in Pollers, Finalises(p) PROVE HInv'
    <2>1. /\ polling[p] = "overview" /\ today \notin attempts \cup attempted /\ today > 1
          /\ polling' = [polling EXCEPT ![p] = "asked"]
          /\ stored' \subseteq published /\ attempted' = {today}
          /\ asked' = [asked EXCEPT ![today] = @ + 1]
          /\ UNCHANGED <<today, published, daily, attempts, writing, windows, since, faults>>
      BY <1>4 DEF Finalises, GapIsDue, Behind
    <2>2. today \in AllDays
      BY <2>1 DEF HistoryTypeOK
    <2>3. HistoryTypeOK'
      BY <2>1, <2>2 DEF HistoryTypeOK
    <2>4. OneWriter' /\ OpenAttempt'
      BY <2>1 DEF HistoryTypeOK, OneWriter, OpenAttempt
    <2>5. CallsCounted'
      BY <2>1, <2>2 DEF HistoryTypeOK, CallsCounted
    <2>. QED BY <2>3, <2>4, <2>5
  <1>5. ASSUME NEW p \in Pollers, Commits(p) PROVE HInv'
    <2>1. /\ polling' = [polling EXCEPT ![p] = "idle"] /\ polling[p] # "idle"
          /\ daily' = daily \cup stored
          /\ attempts' = {d \in attempts \cup attempted : attempted = {} \/ d >= today - 7}
          /\ writing' = Nil /\ stored' = {} /\ attempted' = {}
          /\ UNCHANGED <<today, published, windows, asked, faults>>
      BY <1>5 DEF Commits
    <2>2. HistoryTypeOK'
      BY <2>1 DEF HistoryTypeOK
    <2>3. OneWriter' /\ OpenAttempt'
      BY <2>1 DEF HistoryTypeOK, OneWriter, OpenAttempt
    <2>4. today \in attempts \cup attempted => today \in attempts'
      BY <2>1 DEF HistoryTypeOK
    <2>5. CallsCounted'
      BY <2>1, <2>4 DEF HistoryTypeOK, CallsCounted
    <2>. QED BY <2>2, <2>3, <2>5
  <1>6. ASSUME NEW p \in Pollers, Fails(p) PROVE HInv'
    BY <1>6 DEF Fails, HistoryTypeOK, OneWriter, OpenAttempt, CallsCounted
  <1>7. ASSUME NEW p \in Pollers, PollDies(p) PROVE HInv'
    BY <1>7 DEF PollDies, HistoryTypeOK, OneWriter, OpenAttempt, CallsCounted
  <1>8. CASE BackfillBegins
    BY <1>8 DEF BackfillBegins, HistoryTypeOK, OneWriter, OpenAttempt, CallsCounted
  <1>9. CASE FillsMonth
    BY <1>9 DEF FillsMonth, HistoryTypeOK, OneWriter, OpenAttempt, CallsCounted
  <1>10. CASE BackfillStops
    BY <1>10 DEF BackfillStops, HistoryTypeOK, OneWriter, OpenAttempt, CallsCounted
  <1>11. CASE UNCHANGED historyVars
    BY <1>11 DEF historyVars, HistoryTypeOK, OneWriter, OpenAttempt, CallsCounted
  <1>. QED BY <1>1, <1>2, <1>3, <1>4, <1>5, <1>6, <1>7, <1>8, <1>9, <1>10, <1>11 DEF HistoryNext

\* The invariant holds throughout.
LEMMA HistoryInvariant == HistorySpec => []HInv
  <1>. QED BY HistoryInitInv, HistoryNextInv, PTL DEF HistorySpec

\* Types, for any number of days, runs and deaths (finalise_recent, backfill).
THEOREM HistoryTypeCorrect == HistorySpec => []HistoryTypeOK
  <1>1. HInv => HistoryTypeOK
    BY DEF HInv
  <1>. QED BY <1>1, HistoryInvariant, PTL

\* A gap costs one call a day and one more for every run that died after asking, for
\* any number of runs that overlap (finalise_recent).
THEOREM OneCallPerDay == HistorySpec => []AskedOncePerDay
  <1>1. HInv => AskedOncePerDay
    BY DEF HInv, CallsCounted, AskedOncePerDay
  <1>. QED BY <1>1, HistoryInvariant, PTL

\* The first day a top-up stored is still there.
SinceStored == since \in daily \cup {LastDay + 1}

\* A day the running backfill has done with is stored or was asked for.
Swept ==
    /\ windows \subseteq Months
    /\ windows # {} => \A d \in 1..(today - 1) : d \in (UNION windows) \cup daily \cup heard

\* What a poll has asked for is beyond the newest day; a day beyond it that it does not
\* store was asked for or is out of reach, unless nothing had been stored before.
Gathered ==
    \A p \in Pollers :
        /\ polling[p] = "overview" => stored = {}
        /\ polling[p] = "asked" =>
              /\ \A d \in stored, n \in daily : n < d
              /\ daily = {} => stored \subseteq {today - 1}
              /\ daily # {} => \A d \in 1..(today - 1) :
                    (\A n \in daily : n < d) => d \in stored \cup heard \cup outOfReach
              /\ stored \subseteq 1..(today - 1)

\* HolesWereAsked, day by day.
HolesAsked ==
    \A d \in AllDays, n \in daily :
        d >= since /\ d < n /\ d \notin daily => d \in heard \cup outOfReach

HolesInv == SinceStored /\ Swept /\ Gathered /\ HolesAsked

\* Nothing is stored.
LEMMA HolesInitInv == HistoryInit => HolesInv
  BY DEF HistoryInit, HolesInv, SinceStored, Swept, Gathered, HolesAsked

\* The newest day is the last one stored, or 0.
LEMMA NewestIsLast ==
    ASSUME HistoryTypeOK
    PROVE  /\ Newest(daily) \in daily \cup {0} /\ Newest(daily) \in Nat
           /\ \A n \in daily : n <= Newest(daily)
           /\ Newest(daily) = 0 <=> daily = {}
  <1>1. daily \cup {0} \subseteq 0..LastDay /\ 0 \in Int /\ LastDay \in Int
        /\ \A n \in daily : n \in Int /\ n > 0
    BY HistoryAssumption DEF HistoryTypeOK, AllDays
  <1>2. Newest(daily) \in daily \cup {0} /\ \A n \in daily \cup {0} : Newest(daily) >= n
    BY <1>1, MaxIsLargest DEF Newest
  <1>. QED BY <1>1, <1>2

\* What a poll gathers.
LEMMA FinalisesHoles ==
    ASSUME HInv, HolesInv, NEW p \in Pollers, Finalises(p)
    PROVE  HolesInv'
  <1>. DEFINE newest == Newest(daily)
              from == AskFrom(newest)
              window == from..(today - 1)
  <1>1. /\ polling[p] = "overview" /\ newest < today - 1 /\ today > 1
        /\ stored' = window \cap published /\ heard' = heard \cup (window \ published)
        /\ outOfReach' = IF newest = 0 THEN outOfReach
                         ELSE outOfReach \cup (newest + 1)..(today - MaxSpan - 1)
        /\ polling' = [polling EXCEPT ![p] = "asked"]
        /\ UNCHANGED <<today, published, daily, windows, since>>
    BY DEF Finalises, Behind, Moves
  <1>2. /\ today \in Nat /\ MaxSpan \in Nat \ {0} /\ published \subseteq AllDays
        /\ daily \subseteq AllDays /\ polling \in [Pollers -> {"idle", "overview", "asked"}]
    BY HistoryAssumption DEF HInv, HistoryTypeOK, AllDays
  <1>3. /\ newest \in Nat /\ \A n \in daily : n <= newest /\ n \in Nat
        /\ newest = 0 <=> daily = {}
    <2>1. \A n \in daily : n \in Nat
      BY HistoryAssumption DEF HInv, HistoryTypeOK, AllDays
    <2>. QED BY <2>1, NewestIsLast DEF HInv
  <1>4. CASE newest = 0
    <2>1. from = today - 1
      BY <1>4 DEF AskFrom
    <2>2. window = {today - 1} /\ today - 1 >= 1
      <3>. HIDE DEF from, newest
      <3>. QED BY <1>1, <1>2, <2>1
    <2>3. stored' \subseteq {today - 1} /\ stored' \subseteq 1..(today - 1) /\ daily = {}
      <3>. HIDE DEF window, newest
      <3>. QED BY <1>1, <1>2, <1>3, <1>4, <2>2
    <2>4. Gathered'
      <3>1. \A q \in Pollers : polling'[q] # "overview"
        BY <1>1, <1>2 DEF HInv, OneWriter
      <3>. QED BY <1>1, <2>3, <3>1 DEF Gathered
    <2>5. HolesAsked' /\ Swept' /\ SinceStored'
      BY <1>1, <2>3 DEF HolesInv, HolesAsked, Swept, SinceStored, Months
    <2>. QED BY <2>4, <2>5 DEF HolesInv
  <1>5. CASE newest # 0
    <2>1. from = Max({newest + 1, today - MaxSpan})
      BY <1>5 DEF AskFrom
    <2>2. /\ from \in Int /\ from >= newest + 1
          /\ from = newest + 1 \/ from = today - MaxSpan
      <3>. HIDE DEF from, newest
      <3>1. /\ {newest + 1, today - MaxSpan} \subseteq (-MaxSpan)..today
            /\ -MaxSpan \in Int /\ today \in Int
        BY <1>1, <1>2, <1>3
      <3>2. /\ from \in {newest + 1, today - MaxSpan}
            /\ \A y \in {newest + 1, today - MaxSpan} : from >= y
        BY <2>1, <3>1, MaxIsLargest
      <3>. QED BY <1>2, <1>3, <3>2
    <2>3. stored' \subseteq 1..(today - 1) /\ \A d \in stored', n \in daily : n < d
      <3>. HIDE DEF from, newest
      <3>. QED BY <1>1, <1>2, <1>3, <2>2
    <2>4. ASSUME NEW d \in 1..(today - 1), \A n \in daily : n < d
          PROVE  d \in stored' \cup heard' \cup outOfReach'
      <3>. HIDE DEF from
      <3>1. newest < d /\ newest \in daily
        BY <1>5, <2>4, NewestIsLast DEF HInv
      <3>. HIDE DEF newest
      <3>2. CASE d \in window
        BY <1>1, <3>2
      <3>3. CASE d \notin window
        BY <1>1, <1>2, <1>3, <1>5, <2>2, <3>1, <3>3
      <3>. QED BY <3>2, <3>3
    <2>5. Gathered'
      <3>1. \A q \in Pollers : polling'[q] # "overview"
        BY <1>1, <1>2 DEF HInv, OneWriter
      <3>2. daily # {}
        BY <1>3, <1>5
      <3>. QED BY <1>1, <2>3, <2>4, <3>1, <3>2 DEF Gathered
    <2>6. heard \subseteq heard' /\ outOfReach \subseteq outOfReach'
      BY <1>1
    <2>7. HolesAsked' /\ Swept' /\ SinceStored'
      BY <1>1, <2>6 DEF HolesInv, HolesAsked, Swept, SinceStored, Months
    <2>. QED BY <2>5, <2>7 DEF HolesInv
  <1>. QED BY <1>4, <1>5

\* Its commit leaves no hole that it did not ask for, whatever a backfill stored before.
LEMMA CommitsHoles ==
    ASSUME HInv, HolesInv, NEW p \in Pollers, Commits(p)
    PROVE  HolesInv'
  <1>1. /\ polling[p] \in {"asked", "overview"}
        /\ daily' = daily \cup stored /\ since' = Min(stored \cup {since})
        /\ polling' = [polling EXCEPT ![p] = "idle"]
        /\ UNCHANGED <<today, windows, heard, outOfReach>>
    BY DEF Commits, Moves
  <1>2. /\ polling \in [Pollers -> {"idle", "overview", "asked"}] /\ daily \subseteq Nat
        /\ stored \subseteq Nat /\ since \in Nat /\ LastDay \in Nat /\ today \in Nat
        /\ AllDays = 1..LastDay
    <2>1. since \in daily \cup {LastDay + 1}
      BY DEF HolesInv, SinceStored
    <2>. QED BY <2>1, HistoryAssumption DEF HInv, HistoryTypeOK, AllDays
  <1>3. /\ since' \in stored \cup {since} /\ since' \in Nat
        /\ since' <= since
    <2>1. stored \cup {since} \subseteq 0..(LastDay + 1)
      BY HistoryAssumption DEF HInv, HistoryTypeOK, AllDays, HolesInv, SinceStored
    <2>2. 0 \in Int /\ LastDay + 1 \in Int
      BY <1>2
    <2>3. Min(stored \cup {since}) \in stored \cup {since}
          /\ \A y \in stored \cup {since} : Min(stored \cup {since}) <= y
      BY <2>1, <2>2, MinIsSmallest
    <2>. QED BY <1>1, <1>2, <2>3
  <1>4. Gathered'
    <2>1. \A q \in Pollers : polling'[q] = "idle"
      BY <1>1, <1>2 DEF HInv, OneWriter
    <2>. QED BY <2>1 DEF Gathered
  <1>5. SinceStored' /\ Swept'
    BY <1>1, <1>3 DEF HolesInv, SinceStored, Swept, Months
  <1>6. HolesAsked'
    <2>. SUFFICES ASSUME NEW d \in AllDays, NEW n \in daily', d >= since', d < n, d \notin daily'
                  PROVE  d \in heard \cup outOfReach
      BY <1>1 DEF HolesAsked
    <2>1. d \in Nat /\ n \in Nat /\ d \notin daily /\ d \notin stored /\ d <= LastDay /\ d >= 1
      BY <1>1, <1>2
    <2>2. CASE polling[p] = "overview"
      <3>1. stored = {}
        BY <2>2 DEF HolesInv, Gathered
      <3>2. since' = since /\ daily' = daily
        BY <1>1, <1>3, <3>1
      <3>. QED BY <3>2 DEF HolesInv, HolesAsked
    <2>3. CASE polling[p] = "asked"
      <3>1. /\ \A c \in stored, m \in daily : m < c
            /\ daily = {} => stored \subseteq {today - 1}
            /\ daily # {} => \A c \in 1..(today - 1) :
                  (\A m \in daily : m < c) => c \in stored \cup heard \cup outOfReach
            /\ stored \subseteq 1..(today - 1)
        BY <2>3 DEF HolesInv, Gathered
      <3>2. ASSUME NEW m \in daily, m > d PROVE d \in heard \cup outOfReach
        <4>1. CASE d >= since
          BY <3>2, <4>1, <2>1 DEF HolesInv, HolesAsked
        <4>2. CASE since' \in stored
          <5>1. m < since' /\ m \in Nat
            BY <1>2, <3>1, <4>2
          <5>. QED BY <1>3, <2>1, <3>2, <5>1
        <4>. QED BY <1>3, <4>1, <4>2
      <3>3. CASE \A m \in daily : ~(m > d)
        <4>1. n \in stored
          BY <1>1, <1>2, <2>1, <3>3
        <4>2. CASE daily = {}
          <5>1. n = today - 1 /\ stored = {n}
            BY <3>1, <4>1, <4>2
          <5>2. since' # n
            BY <1>3, <2>1
          <5>3. since' = since /\ since = LastDay + 1
            BY <1>3, <4>2, <5>1, <5>2 DEF HolesInv, SinceStored
          <5>. QED BY <1>2, <2>1, <5>3
        <4>3. CASE daily # {}
          <5>1. d \in 1..(today - 1)
            BY <1>2, <2>1, <3>1, <4>1
          <5>2. \A m \in daily : m < d
            BY <1>2, <2>1, <3>3
          <5>. QED BY <2>1, <3>1, <4>3, <5>1, <5>2
        <4>. QED BY <4>2, <4>3
      <3>. QED BY <3>2, <3>3
    <2>. QED BY <1>1, <2>2, <2>3
  <1>. QED BY <1>4, <1>5, <1>6 DEF HolesInv

\* A month is the days with one quotient.
LEMMA MonthsAreIntervals ==
    ASSUME HistoryTypeOK, NEW w \in Months
    PROVE  /\ w \subseteq 1..(today - 1) /\ w # {}
           /\ \A x \in w : \A d \in 1..(today - 1) :
                  /\ d \in w <=> (d - 1) \div MonthLength = (x - 1) \div MonthLength
                  /\ d <= x => (d - 1) \div MonthLength <= (x - 1) \div MonthLength
  <1>1. MonthLength \in Nat \ {0} /\ today \in Nat
    BY HistoryAssumption DEF HistoryTypeOK, AllDays
  <1>2. PICK m \in 0..LastDay : w = {d \in 1..(today - 1) : (d - 1) \div MonthLength = m}
    BY DEF Months
  <1>3. w # {}
    BY DEF Months
  <1>4. ASSUME NEW x \in w, NEW d \in 1..(today - 1), d <= x
        PROVE  (d - 1) \div MonthLength <= (x - 1) \div MonthLength
    <2>1. x - 1 \in Nat /\ d - 1 \in Nat /\ d - 1 <= x - 1
      BY <1>1, <1>2, <1>4
    <2>. QED BY <1>1, <2>1, QuotientGrows
  <1>. QED BY <1>2, <1>3, <1>4

\* The backfill goes on with a month that none of the others precedes.
LEMMA EarliestIsFirst ==
    ASSUME HistoryTypeOK, windows \subseteq Months, windows # {}
    PROVE  /\ Earliest \in windows
           /\ \A v \in windows : Min(Earliest) <= Min(v)
  <1>. DEFINE starts == {Min(v) : v \in windows}
  <1>1. \A v \in windows : v # {} /\ v \subseteq 1..(today - 1)
    BY MonthsAreIntervals
  <1>2. 1 \in Int /\ today - 1 \in Int
    BY HistoryAssumption DEF HistoryTypeOK, AllDays
  <1>3. \A v \in windows : Min(v) \in v
    BY <1>1, <1>2, MinIsSmallest
  <1>4. starts \subseteq 1..(today - 1) /\ starts # {}
    BY <1>1, <1>3
  <1>5. Min(starts) \in starts /\ \A y \in starts : Min(starts) <= y
    <2>. HIDE DEF starts
    <2>. QED BY <1>2, <1>4, MinIsSmallest
  <1>6. \E w \in windows : \A v \in windows : Min(w) <= Min(v)
    BY <1>5
  <1>. QED BY <1>6 DEF Earliest

\* Every day before today is in some month.
LEMMA MonthsCover ==
    ASSUME HistoryTypeOK
    PROVE  \A d \in 1..(today - 1) : d \in UNION Months
  <1>. SUFFICES ASSUME NEW d \in 1..(today - 1) PROVE d \in UNION Months
    OBVIOUS
  <1>. DEFINE m == (d - 1) \div MonthLength
              w == {x \in 1..(today - 1) : (x - 1) \div MonthLength = m}
  <1>1. MonthLength \in Nat \ {0} /\ d - 1 \in Nat /\ d - 1 <= LastDay /\ LastDay \in Nat
    BY HistoryAssumption DEF HistoryTypeOK, AllDays
  <1>2. m \in 0..LastDay
    <2>1. m \in Nat /\ m <= d - 1
      BY <1>1, Quotient, QuotientSmall
    <2>. HIDE DEF m
    <2>. QED BY <1>1, <2>1
  <1>3. d \in w
    OBVIOUS
  <1>4. w \in Months
    <2>. HIDE DEF m
    <2>. QED BY <1>2, <1>3 DEF Months
  <1>. HIDE DEF w
  <1>. QED BY <1>3, <1>4

\* A month filled leaves no hole but in months that were done before it.
LEMMA FillsMonthHoles ==
    ASSUME HInv, HolesInv, FillsMonth
    PROVE  HolesInv'
  <1>. DEFINE w == Earliest
  <1>1. /\ windows # {} /\ windows' = windows \ {w}
        /\ daily' \in {daily, daily \cup (w \cap published)}
        /\ daily \subseteq daily' /\ heard \subseteq heard'
        /\ w \subseteq daily' \cup heard'
        /\ UNCHANGED <<today, polling, stored, outOfReach, since>>
        /\ daily' # daily => writing = Nil
        /\ heard' # heard => writing = Nil
    BY DEF FillsMonth
  <1>2. /\ w \in windows /\ windows \subseteq Months
        /\ \A v \in windows : Min(w) <= Min(v)
    BY <1>1, EarliestIsFirst DEF HInv, HolesInv, Swept
  <1>. HIDE DEF w
  <1>3. Swept'
    <2>1. /\ windows \subseteq Months
          /\ windows # {} => \A d \in 1..(today - 1) : d \in (UNION windows) \cup daily \cup heard
      BY DEF HolesInv, Swept
    <2>2. windows' \subseteq Months
      BY <1>1, <2>1
    <2>3. Months' = Months
      BY <1>1 DEF Months
    <2>4. ASSUME NEW d \in 1..(today - 1) PROVE d \in (UNION windows') \cup daily' \cup heard'
      <3>1. d \in (UNION windows) \cup daily \cup heard
        BY <1>1, <2>1
      <3>2. CASE d \in w \cup daily \cup heard
        BY <1>1, <3>2
      <3>3. CASE d \notin w \cup daily \cup heard
        <4>1. PICK v \in windows : d \in v
          BY <3>1, <3>3
        <4>2. v \in windows'
          BY <1>1, <3>3, <4>1
        <4>. QED BY <4>1, <4>2
      <3>. QED BY <3>2, <3>3
    <2>. QED BY <1>1, <2>2, <2>3, <2>4 DEF Swept
  <1>4. SinceStored'
    BY <1>1 DEF HolesInv, SinceStored
  <1>5. Gathered'
    <2>1. CASE \A p \in Pollers : polling[p] = "idle"
      BY <1>1, <2>1 DEF Gathered
    <2>2. CASE \E p \in Pollers : polling[p] # "idle"
      <3>1. writing # Nil
        BY <2>2, HistoryAssumption DEF HInv, OneWriter
      <3>2. daily' = daily /\ heard' = heard
        BY <1>1, <3>1
      <3>. QED BY <1>1, <3>2 DEF HolesInv, Gathered
    <2>. QED BY <2>1, <2>2
  <1>6. HolesAsked'
    <2>. SUFFICES ASSUME NEW d \in AllDays, NEW n \in daily', d >= since, d < n, d \notin daily'
                  PROVE  d \in heard' \cup outOfReach
      BY <1>1 DEF HolesAsked
    <2>1. CASE n \in daily
      BY <1>1, <2>1 DEF HolesInv, HolesAsked
    <2>2. CASE n \in w
      <3>1. /\ w \subseteq 1..(today - 1) /\ w # {}
            /\ \A x \in w : \A c \in 1..(today - 1) :
                  /\ c \in w <=> (c - 1) \div MonthLength = (x - 1) \div MonthLength
                  /\ c <= x => (c - 1) \div MonthLength <= (x - 1) \div MonthLength
        BY <1>2, MonthsAreIntervals DEF HInv
      <3>2. today \in Nat /\ d \in Nat /\ d >= 1 /\ n \in 1..(today - 1) /\ MonthLength \in Nat \ {0}
        BY <2>2, <3>1, HistoryAssumption DEF HInv, HistoryTypeOK, AllDays
      <3>3. d \in 1..(today - 1)
        BY <3>2
      <3>4. CASE d \in w
        BY <1>1, <3>4
      <3>5. CASE d \notin w /\ d \in daily \cup heard
        BY <1>1, <3>5
      <3>6. CASE d \notin w /\ d \notin daily \cup heard
        <4>1. PICK v \in windows : d \in v
          <5>1. d \in (UNION windows) \cup daily \cup heard
            BY <1>1, <3>3 DEF HolesInv, Swept
          <5>. QED BY <3>6, <5>1
        <4>2. v # {} /\ v \subseteq 1..(today - 1) /\ w # {} /\ w \subseteq 1..(today - 1)
          BY <1>2, <3>1, <4>1, MonthsAreIntervals DEF HInv
        <4>3. 1 \in Int /\ today - 1 \in Int
          BY <3>2
        <4>4. Min(w) \in w /\ Min(v) <= d /\ Min(v) \in v
          BY <4>1, <4>2, <4>3, MinIsSmallest
        <4>5. Min(w) <= d /\ Min(w) \in 1..(today - 1)
          <5>1. Min(w) <= Min(v)
            BY <1>2, <4>1
          <5>2. Min(w) \in 1..(today - 1) /\ Min(v) \in 1..(today - 1)
            BY <4>2, <4>4
          <5>3. \A x \in 1..(today - 1) : x \in Int
            OBVIOUS
          <5>. QED BY <3>2, <4>4, <5>1, <5>2, <5>3
        <4>6. (Min(w) - 1) \div MonthLength = (n - 1) \div MonthLength
          BY <2>2, <3>1, <4>4
        <4>7. (d - 1) \div MonthLength <= (n - 1) \div MonthLength
          BY <2>2, <3>1, <3>2, <3>3
        <4>8. (Min(w) - 1) \div MonthLength <= (d - 1) \div MonthLength
          <5>1. Min(w) - 1 \in Nat /\ d - 1 \in Nat /\ Min(w) - 1 <= d - 1
            BY <3>2, <4>5
          <5>. QED BY <3>2, <5>1, QuotientGrows
        <4>9. /\ (d - 1) \div MonthLength \in Nat /\ (n - 1) \div MonthLength \in Nat
          <5>1. d - 1 \in Nat /\ n - 1 \in Nat
            BY <3>2
          <5>. QED BY <3>2, <5>1, Quotient
        <4>10. (d - 1) \div MonthLength = (n - 1) \div MonthLength
          BY <4>6, <4>7, <4>8, <4>9
        <4>. QED BY <2>2, <3>1, <3>3, <3>6, <4>10
      <3>. QED BY <3>4, <3>5, <3>6
    <2>. QED BY <1>1, <2>1, <2>2
  <1>. QED BY <1>3, <1>4, <1>5, <1>6 DEF HolesInv

\* No step leaves a hole of its own.
LEMMA HolesNextInv == HInv /\ HolesInv /\ [HistoryNext]_historyVars => HolesInv'
  <1>. SUFFICES ASSUME HInv, HolesInv, [HistoryNext]_historyVars PROVE HolesInv'
    OBVIOUS
  <1>. USE DEF HolesInv
  <1>1. CASE DayPasses
    BY <1>1 DEF DayPasses, SinceStored, Swept, Gathered, HolesAsked
  <1>2. ASSUME NEW d \in AllDays, Publishes(d) PROVE HolesInv'
    BY <1>2 DEF Publishes, SinceStored, Swept, Gathered, HolesAsked, Months
  <1>3. ASSUME NEW p \in Pollers, StoresOverview(p) PROVE HolesInv'
    <2>1. /\ writing = Nil /\ stored' = {} /\ polling' = [polling EXCEPT ![p] = "overview"]
          /\ UNCHANGED <<today, daily, windows, heard, outOfReach, since>>
      BY <1>3 DEF StoresOverview, MayStoreOverview, Moves
    <2>2. \A q \in Pollers : polling'[q] # "asked"
      BY <2>1, HistoryAssumption DEF HInv, OneWriter, HistoryTypeOK
    <2>. QED BY <2>1, <2>2 DEF SinceStored, Swept, Gathered, HolesAsked, Months
  <1>4. ASSUME NEW p \in Pollers, Fails(p) \/ PollDies(p) PROVE HolesInv'
    <2>1. /\ polling[p] # "idle" /\ polling' = [polling EXCEPT ![p] = "idle"]
          /\ UNCHANGED <<today, daily, windows, heard, outOfReach, since>>
      BY <1>4 DEF Fails, PollDies, Moves
    <2>2. \A q \in Pollers : polling'[q] = "idle"
      BY <2>1 DEF HInv, OneWriter, HistoryTypeOK
    <2>. QED BY <2>1, <2>2 DEF SinceStored, Swept, Gathered, HolesAsked, Months
  <1>5. CASE BackfillBegins
    BY <1>5, MonthsCover DEF BackfillBegins, SinceStored, Swept, Gathered, HolesAsked, Months, HInv
  <1>6. CASE BackfillStops
    BY <1>6 DEF BackfillStops, SinceStored, Swept, Gathered, HolesAsked
  <1>7. CASE UNCHANGED historyVars
    BY <1>7 DEF historyVars, SinceStored, Swept, Gathered, HolesAsked, Months
  <1>. QED
    BY <1>1, <1>2, <1>3, <1>4, <1>5, <1>6, <1>7, FinalisesHoles, CommitsHoles, FillsMonthHoles
       DEF HistoryNext

\* A day without a total behind a later one was asked for when there was none, or was
\* beyond one call's reach, for any overlap of polls, backfills and deaths (finalise_recent).
THEOREM NoHoleOfItsOwn == HistorySpec => []HolesWereAsked
  <1>1. HInv /\ HolesInv => HolesWereAsked
    <2>. SUFFICES ASSUME HInv, HolesInv, NEW d \in AllDays,
                         d >= since, d < Newest(daily), d \notin daily
                  PROVE  d \in heard \cup outOfReach
      BY DEF HolesWereAsked
    <2>1. Newest(daily) \in daily \cup {0} /\ d \in Nat
      BY NewestIsLast DEF HInv, AllDays
    <2>2. Newest(daily) \in daily
      BY <2>1
    <2>. QED BY <2>2 DEF HolesInv, HolesAsked
  <1>. QED BY <1>1, HolesInitInv, HolesNextInv, HistoryInvariant, PTL DEF HistorySpec

-----------------------------------------------------------------------------
(* NightlyJobs. *)

\* What the running job has found it has flagged, and a job that ended has told.
FoundIsFlagged ==
    /\ job = "trained" => found = {}
    /\ job = "judged" => found \subseteq flagged
    /\ completed = date /\ job = "idle" => found \subseteq told

NInv == NightlyTypeOK /\ FoundIsFlagged

\* No day found.
LEMMA NightlyInitInv == NightlyInit => NInv
  BY NightlyAssumption DEF NightlyInit, NInv, NightlyTypeOK, FoundIsFlagged, Nights

\* Every step keeps what was found flagged.
LEMMA NightlyNextInv == NInv /\ [NightlyNext]_nightlyVars => NInv'
  <1>. SUFFICES ASSUME NInv, [NightlyNext]_nightlyVars PROVE NInv'
    OBVIOUS
  <1>. USE NightlyAssumption DEF NInv, Nights, jobVars, weatherVars
  <1>ends. ASSUME NEW S, S \subseteq Nights, S # {}
           PROVE  Min(S) \in Nights /\ Max(S) \in Nights
    <2>1. 1 \in Int /\ LastNight \in Int
      OBVIOUS
    <2>. QED BY <1>ends, <2>1, MinIsSmallest, MaxIsLargest
  <1>gained. ASSUME NEW range, range \subseteq Nights, Fetches(range), refreshes' \in Nat,
                    UNCHANGED <<date, metered, jobVars>>
             PROVE  NInv'
    <2>1. weather' \subseteq Nights /\ skipped' \subseteq Nights
      BY <1>gained DEF Fetches, NightlyTypeOK
    <2>. QED BY <1>gained, <2>1 DEF NightlyTypeOK, FoundIsFlagged
  <1>1. ASSUME NEW d \in Nights, DayMetered(d) PROVE NInv'
    BY <1>1 DEF DayMetered, NightlyTypeOK, FoundIsFlagged
  <1>2. CASE Midnight
    BY <1>2 DEF Midnight, NightlyTypeOK, FoundIsFlagged
  <1>3. CASE WeatherRuns
    <2>. DEFINE first == IF weather = {} THEN Min(metered) ELSE FetchFrom
    <2>1. metered # {} /\ Fetches(first..Max(metered))
      BY <1>3 DEF WeatherRuns
    <2>2. Min(metered) \in Nights /\ Max(metered) \in Nights
      BY <2>1, <1>ends DEF NightlyTypeOK
    <2>3. weather # {} => Min(weather) \in Nights /\ Max(weather) \in Nights
      BY <1>ends DEF NightlyTypeOK
    <2>4. first \in Int /\ first >= 1
      BY <2>2, <2>3 DEF FetchFrom
    <2>5. first..Max(metered) \subseteq Nights
      BY <2>2, <2>4
    <2>. HIDE DEF first
    <2>. QED BY <1>3, <1>gained, <2>1, <2>5 DEF WeatherRuns, NightlyTypeOK
  <1>4. CASE WeatherRefreshed
    <2>1. metered # {} /\ Fetches(Min(metered)..Max(metered))
      BY <1>4 DEF WeatherRefreshed
    <2>2. Min(metered) \in Nights /\ Max(metered) \in Nights
      BY <2>1, <1>ends DEF NightlyTypeOK
    <2>3. Min(metered)..Max(metered) \subseteq Nights
      BY <2>2
    <2>4. refreshes' \in Nat
      BY <1>4 DEF WeatherRefreshed, NightlyTypeOK
    <2>. QED BY <1>4, <1>gained, <2>1, <2>3, <2>4 DEF WeatherRefreshed
  <1>5. CASE Trains
    <2>1. Trained \subseteq Nights
      BY DEF Trained, TrainingDays, NightlyTypeOK
    <2>2. /\ model' = Trained /\ flagged' = {} /\ found' = {}
          /\ job' \in {"judged", "trained"} /\ restarts' \in Nat
          /\ UNCHANGED <<date, metered, weatherVars, contexts, told, completed>>
      BY <1>5 DEF Trains, NightlyTypeOK
    <2>. HIDE DEF Nights
    <2>. QED BY <2>1, <2>2 DEF NightlyTypeOK, FoundIsFlagged
  <1>6. CASE Judges
    BY <1>6 DEF Judges, Judged, Flags, Yesterday, NightlyTypeOK, FoundIsFlagged
  <1>7. CASE Digests
    BY <1>7 DEF Digests, NightlyTypeOK, FoundIsFlagged
  <1>8. CASE JobDies
    BY <1>8 DEF JobDies, NightlyTypeOK, FoundIsFlagged
  <1>9. CASE UNCHANGED nightlyVars
    BY <1>9 DEF nightlyVars, NightlyTypeOK, FoundIsFlagged
  <1>. QED BY <1>1, <1>2, <1>3, <1>4, <1>5, <1>6, <1>7, <1>8, <1>9 DEF NightlyNext

\* The invariant holds throughout.
LEMMA NightlyInvariant == NightlySpec => []NInv
  <1>. QED BY NightlyInitInv, NightlyNextInv, PTL DEF NightlySpec

\* Types, for any number of days, refreshes and restarts (weather_backfill.main, run_daily_check).
THEOREM NightlyTypeCorrect == NightlySpec => []NightlyTypeOK
  <1>1. NInv => NightlyTypeOK
    BY DEF NInv
  <1>. QED BY <1>1, NightlyInvariant, PTL

\* A job that has ended has told of all it found, whatever runs of that night died
\* before it (run_daily_check, _record_context_anomaly).
THEOREM FoundIsTold == NightlySpec => []RerunTells
  <1>1. NInv => RerunTells
    BY DEF NInv, FoundIsFlagged, RerunTells
  <1>. QED BY <1>1, NightlyInvariant, PTL
\* The days with weather lie among the metered ones, ...
WithinMetered == \A w \in weather : \E a, b \in metered : a <= w /\ w <= b

\* ... and every day between two of them was asked for, metered or not.
HolesSkipped ==
    \A d \in Nights, a, b \in weather : a < d /\ d < b /\ d \notin weather => d \in skipped

ArchiveInv == NightlyTypeOK /\ WithinMetered /\ HolesSkipped

\* A request keeps this if it begins before all weather, or right after it.
LEMMA FetchKeeps ==
    ASSUME ArchiveInv, metered' = metered, NEW first \in Int, NEW last \in Nights,
           Fetches(first..last),
           last \in metered, \A m \in metered : m <= last,
           \E m \in metered : m <= first,
           \/ \A w \in weather : first <= w
           \/ first - 1 \in weather /\ \A w \in weather : w < first
    PROVE  WithinMetered' /\ HolesSkipped'
  <1>. PICK given \in SUBSET (first..last) :
           weather' = weather \cup given /\ skipped' = (skipped \cup first..last) \ given
    BY DEF Fetches
  <1>1. weather \subseteq Int /\ metered \subseteq Int /\ last \in Int
    BY NightlyAssumption DEF ArchiveInv, NightlyTypeOK, Nights
  <1>2. \A w \in weather : w <= last
    BY <1>1 DEF ArchiveInv, WithinMetered
  <1>3. WithinMetered'
    <2>. SUFFICES ASSUME NEW w \in weather' PROVE \E a, b \in metered : a <= w /\ w <= b
      BY DEF WithinMetered
    <2>1. CASE w \in weather
      BY <2>1 DEF ArchiveInv, WithinMetered
    <2>2. CASE w \in given
      BY <1>1, <2>2
    <2>. QED BY <2>1, <2>2
  <1>4. HolesSkipped'
    <2>. SUFFICES ASSUME NEW d \in Nights, NEW a \in weather', NEW b \in weather',
                         a < d, d < b, d \notin weather'
                  PROVE  d \in skipped'
      BY DEF HolesSkipped
    <2>1. a \in Int /\ b \in Int /\ d \in Int /\ b <= last
      BY <1>1, <1>2 DEF Nights
    <2>2. CASE d \in first..last
      BY <2>2
    <2>3. CASE d \notin first..last
      <3>1. d < first
        BY <2>1, <2>3
      <3>2. a \in weather /\ a < first
        BY <2>1, <3>1
      <3>3. first - 1 \in weather
        BY <1>1, <3>2
      <3>4. d < first - 1
        BY <2>1, <3>1, <3>3
      <3>5. d \in skipped
        BY <3>2, <3>3, <3>4 DEF ArchiveInv, HolesSkipped
      <3>. QED BY <3>5
    <2>. QED BY <2>2, <2>3
  <1>. QED BY <1>3, <1>4

\* No weather.
LEMMA ArchiveInitInv == NightlyInit => ArchiveInv
  BY NightlyInitInv DEF NightlyInit, NInv, ArchiveInv, WithinMetered, HolesSkipped

\* Each run of the weather job makes such a request; nothing else touches the weather.
LEMMA ArchiveNextInv == ArchiveInv /\ NInv /\ [NightlyNext]_nightlyVars => ArchiveInv'
  <1>. SUFFICES ASSUME ArchiveInv, NInv, [NightlyNext]_nightlyVars PROVE ArchiveInv'
    OBVIOUS
  <1>1. NightlyTypeOK'
    BY NightlyNextInv DEF NInv
  <1>2. /\ metered \subseteq Nights /\ weather \subseteq Nights /\ Nights \subseteq Int
        /\ \A w \in weather : w \in Int
        /\ \A m \in metered : m \in Int
        /\ \A w \in weather : \E a, b \in metered : a <= w /\ w <= b
    BY NightlyAssumption DEF ArchiveInv, NightlyTypeOK, Nights, WithinMetered
  <1>ends. ASSUME NEW S, S \subseteq Nights, S # {}
           PROVE  /\ Min(S) \in S /\ Max(S) \in S
                  /\ \A y \in S : Min(S) <= y /\ y <= Max(S)
    <2>1. 1 \in Int /\ LastNight \in Int
      BY NightlyAssumption
    <2>2. S \subseteq 1..LastNight
      BY <1>ends DEF Nights
    <2>3. Min(S) \in S /\ \A y \in S : Min(S) <= y
      BY <1>ends, <2>1, <2>2, MinIsSmallest
    <2>4. Max(S) \in S /\ \A y \in S : Max(S) >= y
      BY <1>ends, <2>1, <2>2, MaxIsLargest
    <2>5. \A y \in S : y \in Int
      BY <1>2, <1>ends
    <2>. QED BY <2>3, <2>4, <2>5
  <1>3. CASE WeatherRuns
    <2>. DEFINE first == IF weather = {} THEN Min(metered) ELSE FetchFrom
    <2>1. metered # {} /\ metered' = metered /\ Fetches(first..Max(metered))
      BY <1>3 DEF WeatherRuns
    <2>2. /\ Min(metered) \in metered /\ Max(metered) \in metered
          /\ \A m \in metered : m <= Max(metered)
      BY <1>2, <1>ends, <2>1
    <2>3. CASE weather = {} \/ Min(metered) < Min(weather)
      <3>1. first = Min(metered)
        BY <2>3 DEF FetchFrom
      <3>2. ASSUME NEW w \in weather PROVE Min(metered) <= w
        <4>1. weather # {} /\ Min(weather) \in weather /\ Min(weather) <= w
          BY <1>2, <1>ends
        <4>2. Min(metered) < Min(weather)
          BY <2>3, <4>1
        <4>3. Min(metered) \in Int /\ Min(weather) \in Int /\ w \in Int
          BY <1>2, <2>2, <4>1
        <4>. QED BY <4>1, <4>2, <4>3
      <3>3. first \in Int /\ (\A w \in weather : first <= w) /\ \E m \in metered : m <= first
        <4>1. Min(metered) \in Int
          BY <1>2, <2>2
        <4>. HIDE DEF first
        <4>. QED BY <2>2, <3>1, <3>2, <4>1
      <3>. HIDE DEF first
      <3>. QED BY <1>1, <1>2, <2>1, <2>2, <3>3, FetchKeeps DEF ArchiveInv
    <2>4. CASE weather # {} /\ ~(Min(metered) < Min(weather))
      <3>1. first = Max(weather) + 1
        BY <2>4 DEF FetchFrom
      <3>2. Max(weather) \in weather /\ \A w \in weather : w <= Max(weather)
        BY <1>2, <1>ends, <2>4
      <3>. HIDE DEF first
      <3>3. first \in Int /\ first - 1 \in weather /\ \A w \in weather : w < first
        <4>1. Max(weather) \in Int
          BY <1>2, <3>2
        <4>2. first - 1 = Max(weather)
          BY <3>1, <4>1
        <4>. QED BY <1>2, <3>1, <3>2, <4>1, <4>2
      <3>4. \E m \in metered : m <= first
        <4>1. PICK m \in metered : m <= Max(weather)
          BY <1>2, <3>2
        <4>2. m \in Int /\ Max(weather) \in Int
          BY <1>2, <3>2
        <4>. QED BY <3>1, <4>1, <4>2
      <3>. QED BY <1>1, <1>2, <2>1, <2>2, <3>3, <3>4, FetchKeeps DEF ArchiveInv
    <2>. QED BY <2>3, <2>4
  <1>4. CASE WeatherRefreshed
    <2>1. metered # {} /\ metered' = metered /\ Fetches(Min(metered)..Max(metered))
      BY <1>4 DEF WeatherRefreshed
    <2>2. /\ Min(metered) \in metered /\ Max(metered) \in metered
          /\ \A m \in metered : Min(metered) <= m /\ m <= Max(metered)
      BY <1>2, <1>ends, <2>1
    <2>3. ASSUME NEW w \in weather PROVE Min(metered) <= w
      <3>1. PICK m \in metered : m <= w
        BY <1>2
      <3>2. Min(metered) <= m /\ Min(metered) \in Int /\ m \in Int /\ w \in Int
        BY <1>2, <2>2
      <3>. QED BY <3>1, <3>2
    <2>. QED BY <1>1, <1>2, <2>1, <2>2, <2>3, FetchKeeps DEF ArchiveInv
  <1>5. CASE UNCHANGED <<weather, skipped>> /\ metered \subseteq metered'
    BY <1>1, <1>5 DEF ArchiveInv, WithinMetered, HolesSkipped
  <1>. QED
    BY <1>3, <1>4, <1>5
       DEF NightlyNext, Midnight, DayMetered, Trains, Judges, Digests, JobDies, weatherVars, jobVars,
           nightlyVars

\* The holes the weather job leaves are the archive's, for any nights missed, exports
\* of older days and refreshes (weather_backfill.main).
THEOREM HolesWereRefused == NightlySpec => []HolesAreTheArchives
  <1>1. ArchiveInv => HolesAreTheArchives
    <2>. SUFFICES ASSUME ArchiveInv, NEW d \in metered, weather # {},
                         Min(weather) < d, d < Max(weather), d \notin weather
                  PROVE  d \in skipped
      BY DEF HolesAreTheArchives
    <2>1. weather \subseteq 1..LastNight /\ 1 \in Int /\ LastNight \in Int /\ d \in Nights
      BY NightlyAssumption DEF ArchiveInv, NightlyTypeOK, Nights
    <2>2. Min(weather) \in weather /\ Max(weather) \in weather
      BY <2>1, MinIsSmallest, MaxIsLargest
    <2>. QED BY <2>1, <2>2 DEF ArchiveInv, HolesSkipped
  <1>. QED BY <1>1, ArchiveInitInv, ArchiveNextInv, NightlyInvariant, PTL DEF NightlySpec

-----------------------------------------------------------------------------
(* EnergyFlow: the ribbons of a period sum to its totals, for all amounts  *)
(* and any number of days.                                                 *)
(*                                                                         *)
(* A pair that has been offered once has no supply or no demand left, and  *)
(* neither ever comes back.  After the last offer every pair has been, so  *)
(* a source with something left would leave every use without demand; but  *)
(* the uses together take at least what the sources give.                  *)

Totals == [sources : [Source -> Nat], uses : [Use -> Nat], flows : [Ribbon -> Nat],
           unbalanced : Nat]

FlowTypeOK ==
    /\ offer \in 0..17 /\ days \in Nat
    /\ sources \in [Source -> Nat] /\ uses \in [Use -> Nat] /\ unbalanced \in Nat
    /\ supply \in [Source -> Nat] /\ demand \in [Use -> Nat]
    /\ flows \in [Ribbon -> Nat]
    /\ period \in Totals

\* What is allocated and what is left make up the day's totals.
DayAddsUp ==
    /\ \A s \in Source : Sent(flows, s) + supply[s] = sources[s]
    /\ \A u \in Use : Received(flows, u) + demand[u] = uses[u]
    /\ OfUses(uses) - OfSources(sources) = unbalanced

\* A pair has nothing left on one side once it was offered.
Exhausted == \A i \in 1..16 :
    i < offer => supply[Offers[i][1]] = 0 \/ demand[Offers[i][2]] = 0

\* Battery to battery leaves nothing for grid to grid, which is offered last.
LastResort ==
    /\ flows[<<"battery_discharge", "battery_charge", "fallback">>] > 0 => supply["grid_in"] = 0
    /\ flows[<<"grid_in", "grid_out", "fallback">>] > 0 => offer \in {0, 17}

FInv == FlowTypeOK /\ DayAddsUp /\ Exhausted /\ RibbonsSum /\ LastResort /\ OnlyForcedFallback

-----------------------------------------------------------------------------
(* The order of the offers. *)

\* The offers are sixteen ribbons, one by one.
LEMMA OfferedInOrder ==
    /\ Len(Offers) = 16
    /\ Offers[1] = <<"solar", "load", "merit">>
    /\ Offers[2] = <<"solar", "battery_charge", "merit">>
    /\ Offers[3] = <<"solar", "grid_out", "merit">>
    /\ Offers[4] = <<"battery_discharge", "load", "merit">>
    /\ Offers[5] = <<"battery_discharge", "grid_out", "merit">>
    /\ Offers[6] = <<"grid_in", "load", "merit">>
    /\ Offers[7] = <<"grid_in", "battery_charge", "merit">>
    /\ Offers[8] = <<"solar", "load", "fallback">>
    /\ Offers[9] = <<"solar", "battery_charge", "fallback">>
    /\ Offers[10] = <<"solar", "grid_out", "fallback">>
    /\ Offers[11] = <<"battery_discharge", "load", "fallback">>
    /\ Offers[12] = <<"battery_discharge", "battery_charge", "fallback">>
    /\ Offers[13] = <<"battery_discharge", "grid_out", "fallback">>
    /\ Offers[14] = <<"grid_in", "load", "fallback">>
    /\ Offers[15] = <<"grid_in", "battery_charge", "fallback">>
    /\ Offers[16] = <<"grid_in", "grid_out", "fallback">>
  BY DEF Offers, MeritOrder

\* An offer is a ribbon.
LEMMA OfferIsRibbon ==
    ASSUME NEW i \in 1..16
    PROVE  Offers[i] \in Ribbon
  <1>1. \/ i = 1 \/ i = 2 \/ i = 3 \/ i = 4 \/ i = 5 \/ i = 6 \/ i = 7 \/ i = 8
        \/ i = 9 \/ i = 10 \/ i = 11 \/ i = 12 \/ i = 13 \/ i = 14 \/ i = 15 \/ i = 16
    OBVIOUS
  <1>2. \A s \in Source, u \in Use, b \in Pass : <<s, u, b>> \in Ribbon
    BY DEF Ribbon
  <1>3. /\ {"solar", "battery_discharge", "grid_in"} \subseteq Source
        /\ {"load", "battery_charge", "grid_out"} \subseteq Use
        /\ {"merit", "fallback"} \subseteq Pass
    BY DEF Source, Use, Pass
  <1>. QED BY <1>1, <1>2, <1>3, OfferedInOrder

\* The two passes offer every source to every use.
LEMMA EveryPairIsOffered ==
    ASSUME NEW s \in Source, NEW u \in Use
    PROVE  \E i \in 1..16 : Offers[i][1] = s /\ Offers[i][2] = u
  <1>1. CASE s = "solar"
    BY <1>1, OfferedInOrder DEF Use
  <1>2. CASE s = "battery_discharge"
    BY <1>2, OfferedInOrder DEF Use
  <1>3. CASE s = "grid_in"
    BY <1>3, OfferedInOrder DEF Use
  <1>. QED BY <1>1, <1>2, <1>3 DEF Source

-----------------------------------------------------------------------------
(* Sums of ribbons. *)

\* What the sources send is what the uses receive.
LEMMA SentIsReceived ==
    ASSUME NEW f \in [Ribbon -> Nat]
    PROVE  /\ Sent(f, "solar") + Sent(f, "battery_discharge") + Sent(f, "grid_in")
                = Received(f, "load") + Received(f, "battery_charge") + Received(f, "grid_out")
           /\ \A s \in Source : Sent(f, s) \in Nat
           /\ \A u \in Use : Received(f, u) \in Nat
  <1>1. \A s \in Source, u \in Use, b \in Pass : <<s, u, b>> \in Ribbon
    BY DEF Ribbon
  <1>2. \A s \in Source, u \in Use, b \in Pass : f[<<s, u, b>>] \in Nat
    BY <1>1
  <1>. QED BY <1>2 DEF Sent, Received, Source, Use, Pass

\* A ribbon that grows adds to its own source and its own use.
LEMMA RibbonGrows ==
    ASSUME NEW f \in [Ribbon -> Nat], NEW k \in Nat,
           NEW s \in Source, NEW u \in Use, NEW b \in Pass,
           NEW g,
           \A q \in Ribbon : g[q] = IF q = <<s, u, b>> THEN f[q] + k ELSE f[q]
    PROVE  /\ Sent(g, s) = Sent(f, s) + k
           /\ Received(g, u) = Received(f, u) + k
           /\ \A t \in Source \ {s} : Sent(g, t) = Sent(f, t)
           /\ \A v \in Use \ {u} : Received(g, v) = Received(f, v)
  <1>1. \A t \in Source, v \in Use, c \in Pass :
            /\ <<t, v, c>> \in Ribbon /\ f[<<t, v, c>>] \in Nat
            /\ g[<<t, v, c>>] = IF t = s /\ v = u /\ c = b THEN f[<<t, v, c>>] + k
                                ELSE f[<<t, v, c>>]
    BY DEF Ribbon
  <1>2. /\ {"solar", "battery_discharge", "grid_in"} \subseteq Source
        /\ {"load", "battery_charge", "grid_out"} \subseteq Use
        /\ {"merit", "fallback"} \subseteq Pass
    BY DEF Source, Use, Pass
  <1>3. u \in {"load", "battery_charge", "grid_out"} /\ s \in {"solar", "battery_discharge", "grid_in"}
        /\ b \in {"merit", "fallback"}
    BY DEF Source, Use, Pass
  <1>4. Sent(g, s) = Sent(f, s) + k
    BY <1>1, <1>2, <1>3 DEF Sent
  <1>5. Received(g, u) = Received(f, u) + k
    BY <1>1, <1>2, <1>3 DEF Received
  <1>6. \A t \in Source \ {s} : Sent(g, t) = Sent(f, t)
    BY <1>1 DEF Sent, Source, Use, Pass
  <1>7. \A v \in Use \ {u} : Received(g, v) = Received(f, v)
    BY <1>1 DEF Received, Source, Use, Pass
  <1>. QED BY <1>4, <1>5, <1>6, <1>7

\* The ribbons of a sum are the sums of the ribbons.
LEMMA RibbonsAdd ==
    ASSUME NEW f \in [Ribbon -> Nat], NEW g \in [Ribbon -> Nat],
           NEW h, h = [r \in Ribbon |-> f[r] + g[r]]
    PROVE  /\ \A s \in Source : Sent(h, s) = Sent(f, s) + Sent(g, s)
           /\ \A u \in Use : Received(h, u) = Received(f, u) + Received(g, u)
  <1>1. \A s \in Source, u \in Use, b \in Pass :
            /\ <<s, u, b>> \in Ribbon
            /\ f[<<s, u, b>>] \in Nat /\ g[<<s, u, b>>] \in Nat
            /\ h[<<s, u, b>>] = f[<<s, u, b>>] + g[<<s, u, b>>]
    BY DEF Ribbon
  <1>2. /\ {"solar", "battery_discharge", "grid_in"} \subseteq Source
        /\ {"load", "battery_charge", "grid_out"} \subseteq Use
        /\ {"merit", "fallback"} \subseteq Pass
    BY DEF Source, Use, Pass
  <1>3. ASSUME NEW s \in Source
        PROVE  Sent(h, s) = Sent(f, s) + Sent(g, s)
    BY <1>1, <1>2 DEF Sent
  <1>4. ASSUME NEW u \in Use
        PROVE  Received(h, u) = Received(f, u) + Received(g, u)
    BY <1>1, <1>2 DEF Received
  <1>. QED BY <1>3, <1>4

\* No ribbon, nothing sent.
LEMMA NothingSent ==
    /\ NoFlow \in [Ribbon -> Nat]
    /\ \A r \in Ribbon : NoFlow[r] = 0
    /\ \A s \in Source : Sent(NoFlow, s) = 0
    /\ \A u \in Use : Received(NoFlow, u) = 0
  <1>1. \A s \in Source, u \in Use, b \in Pass :
            <<s, u, b>> \in Ribbon /\ NoFlow[<<s, u, b>>] = 0
    BY DEF Ribbon, NoFlow
  <1>2. /\ {"solar", "battery_discharge", "grid_in"} \subseteq Source
        /\ {"load", "battery_charge", "grid_out"} \subseteq Use
        /\ {"merit", "fallback"} \subseteq Pass
    BY DEF Source, Use, Pass
  <1>3. ASSUME NEW s \in Source
        PROVE  Sent(NoFlow, s) = 0
    BY <1>1, <1>2 DEF Sent
  <1>4. ASSUME NEW u \in Use
        PROVE  Received(NoFlow, u) = 0
    BY <1>1, <1>2 DEF Received
  <1>. QED BY <1>3, <1>4 DEF NoFlow

-----------------------------------------------------------------------------
(* The invariant. *)

\* Nothing is allocated yet, and every sum is 0.
LEMMA FlowInitInv == FlowInit => FInv
  <1>. SUFFICES ASSUME FlowInit PROVE FInv
    OBVIOUS
  <1>. USE FlowAssumption DEF FlowInit
  <1>1. FlowTypeOK
    BY NothingSent DEF FlowTypeOK, Totals
  <1>2. DayAddsUp
    BY NothingSent DEF DayAddsUp, OfUses, OfSources, Source, Use
  <1>3. Exhausted
    BY DEF Exhausted
  <1>4. RibbonsSum
    BY NothingSent DEF RibbonsSum, OfUses, OfSources, Source, Use
  <1>5. /\ <<"battery_discharge", "battery_charge", "fallback">> \in Ribbon
        /\ <<"grid_in", "grid_out", "fallback">> \in Ribbon
    BY DEF Ribbon, Source, Use, Pass
  <1>6. LastResort
    BY <1>5, NothingSent DEF LastResort
  <1>7. OnlyForcedFallback
    BY <1>5, NothingSent DEF OnlyForcedFallback
  <1>. QED BY <1>1, <1>2, <1>3, <1>4, <1>6, <1>7 DEF FInv

\* A day's load is the residual, or 0 and the rest is unbalanced.
LEMMA DayBeginsInv ==
    ASSUME NEW solar \in Nat, NEW discharge \in Nat, NEW import \in Nat,
           NEW charge \in Nat, NEW export \in Nat,
           FInv, DayBegins(solar, discharge, import, charge, export)
    PROVE  FInv'
  <1>. DEFINE load == solar + discharge + import - charge - export
  <1>. USE DEF FInv, DayBegins
  <1>1. /\ sources' \in [Source -> Nat]
        /\ sources'["solar"] = solar /\ sources'["battery_discharge"] = discharge
        /\ sources'["grid_in"] = import
    BY DEF Source
  <1>2. Clamped(load) \in Nat /\ Clamped(load) - load \in Nat
    BY DEF Clamped
  <1>3. /\ uses' \in [Use -> Nat]
        /\ uses'["load"] = Clamped(load) /\ uses'["battery_charge"] = charge
        /\ uses'["grid_out"] = export
    BY <1>2 DEF Use
  <1>4. FlowTypeOK'
    BY <1>1, <1>2, <1>3, NothingSent DEF FlowTypeOK
  <1>5. DayAddsUp'
    <2>1. \A s \in Source : Sent(flows', s) + supply'[s] = sources'[s]
      BY <1>1, NothingSent
    <2>2. \A u \in Use : Received(flows', u) + demand'[u] = uses'[u]
      BY <1>3, NothingSent
    <2>3. OfUses(uses') - OfSources(sources') = unbalanced'
      BY <1>1, <1>2, <1>3 DEF OfUses, OfSources
    <2>. QED BY <2>1, <2>2, <2>3 DEF DayAddsUp
  <1>6. Exhausted'
    BY DEF Exhausted
  <1>7. RibbonsSum'
    BY DEF RibbonsSum
  <1>8. /\ <<"battery_discharge", "battery_charge", "fallback">> \in Ribbon
        /\ <<"grid_in", "grid_out", "fallback">> \in Ribbon
    BY DEF Ribbon, Source, Use, Pass
  <1>9. LastResort'
    BY <1>8, NothingSent DEF LastResort
  <1>10. OnlyForcedFallback'
    BY <1>8, NothingSent DEF OnlyForcedFallback
  <1>. QED BY <1>4, <1>5, <1>6, <1>7, <1>9, <1>10

\* One ribbon takes what its two ends both have: one of them is left with nothing.
LEMMA AllocatesInv ==
    ASSUME FInv, Allocates
    PROVE  FInv'
  <1>. DEFINE r == Offers[offer]
              k == Least(supply[r[1]], demand[r[2]])
  <1>. USE DEF FInv
  <1>1. offer \in 1..16 /\ offer' = offer + 1
    BY OfferedInOrder DEF Allocates
  <1>2. PICK s \in Source, u \in Use, b \in Pass : r = <<s, u, b>>
    BY <1>1, OfferIsRibbon DEF Ribbon
  <1>3. <<s, u, b>> \in Ribbon
    BY DEF Ribbon
  <1>4. /\ k \in Nat /\ k <= supply[s] /\ k <= demand[u]
        /\ k = supply[s] \/ k = demand[u]
    BY <1>2 DEF FlowTypeOK, Least
  <1>5. /\ flows' = [flows EXCEPT ![<<s, u, b>>] = @ + k]
        /\ supply' = [supply EXCEPT ![s] = @ - k]
        /\ demand' = [demand EXCEPT ![u] = @ - k]
        /\ UNCHANGED <<sources, uses, unbalanced, period, days>>
    BY <1>2 DEF Allocates
  <1>. HIDE DEF k
  <1>6. /\ flows \in [Ribbon -> Nat] /\ flows' \in [Ribbon -> Nat]
        /\ supply \in [Source -> Nat] /\ supply' \in [Source -> Nat]
        /\ demand \in [Use -> Nat] /\ demand' \in [Use -> Nat]
    <2>1. flows' \in [Ribbon -> Nat]
      BY <1>3, <1>4, <1>5 DEF FlowTypeOK
    <2>2. supply' \in [Source -> Nat] /\ demand' \in [Use -> Nat]
      BY <1>4, <1>5 DEF FlowTypeOK
    <2>. QED BY <2>1, <2>2 DEF FlowTypeOK
  <1>7. FlowTypeOK'
    BY <1>1, <1>5, <1>6 DEF FlowTypeOK
  <1>8. DayAddsUp'
    <2>1. /\ Sent(flows', s) = Sent(flows, s) + k
          /\ Received(flows', u) = Received(flows, u) + k
          /\ \A t \in Source \ {s} : Sent(flows', t) = Sent(flows, t)
          /\ \A v \in Use \ {u} : Received(flows', v) = Received(flows, v)
      <3>1. k \in Nat /\ flows \in [Ribbon -> Nat]
        BY <1>4, <1>6
      <3>2. \A q \in Ribbon : flows'[q] = IF q = <<s, u, b>> THEN flows[q] + k ELSE flows[q]
        BY <1>3, <1>5, <3>1
      <3>. QED BY <3>1, <3>2, RibbonGrows
    <2>2. /\ \A t \in Source : Sent(flows, t) \in Nat
          /\ \A v \in Use : Received(flows, v) \in Nat
      BY <1>6, SentIsReceived
    <2>3. ASSUME NEW t \in Source
          PROVE  Sent(flows', t) + supply'[t] = sources'[t]
      <3>1. Sent(flows, t) + supply[t] = sources[t] /\ supply[t] \in Nat /\ Sent(flows, t) \in Nat
        BY <1>6, <2>2 DEF DayAddsUp
      <3>2. sources' = sources /\ k \in Nat
        BY <1>4, <1>5
      <3>3. CASE t = s
        <4>1. supply'[t] = supply[t] - k /\ Sent(flows', t) = Sent(flows, t) + k
          BY <3>3, <1>5, <1>6, <2>1
        <4>. QED BY <3>1, <3>2, <4>1
      <3>4. CASE t # s
        <4>1. supply'[t] = supply[t] /\ Sent(flows', t) = Sent(flows, t)
          BY <3>4, <1>5, <1>6, <2>1
        <4>. QED BY <3>1, <3>2, <4>1
      <3>. QED BY <3>3, <3>4
    <2>4. ASSUME NEW v \in Use
          PROVE  Received(flows', v) + demand'[v] = uses'[v]
      <3>1. Received(flows, v) + demand[v] = uses[v] /\ demand[v] \in Nat /\ Received(flows, v) \in Nat
        BY <1>6, <2>2 DEF DayAddsUp
      <3>2. uses' = uses /\ k \in Nat
        BY <1>4, <1>5
      <3>3. CASE v = u
        <4>1. demand'[v] = demand[v] - k /\ Received(flows', v) = Received(flows, v) + k
          BY <3>3, <1>5, <1>6, <2>1
        <4>. QED BY <3>1, <3>2, <4>1
      <3>4. CASE v # u
        <4>1. demand'[v] = demand[v] /\ Received(flows', v) = Received(flows, v)
          BY <3>4, <1>5, <1>6, <2>1
        <4>. QED BY <3>1, <3>2, <4>1
      <3>. QED BY <3>3, <3>4
    <2>. QED BY <1>5, <2>3, <2>4 DEF DayAddsUp
  <1>9. Exhausted'
    <2>. SUFFICES ASSUME NEW i \in 1..16, i < offer'
                  PROVE  supply'[Offers[i][1]] = 0 \/ demand'[Offers[i][2]] = 0
      BY DEF Exhausted
    <2>1. CASE i = offer
      BY <2>1, <1>2, <1>4, <1>5, <1>6
    <2>2. CASE i < offer
      <3>1. supply[Offers[i][1]] = 0 \/ demand[Offers[i][2]] = 0
        BY <2>2 DEF Exhausted
      <3>2. PICK t \in Source, v \in Use, c \in Pass : Offers[i] = <<t, v, c>>
        BY OfferIsRibbon DEF Ribbon
      <3>3. supply[t] = 0 => supply'[t] = 0
        BY <1>4, <1>5, <1>6
      <3>4. demand[v] = 0 => demand'[v] = 0
        BY <1>4, <1>5, <1>6
      <3>. QED BY <3>1, <3>2, <3>3, <3>4
    <2>. QED BY <1>1, <2>1, <2>2
  <1>10. RibbonsSum'
    BY <1>5 DEF RibbonsSum
  \* Where both ends have something left, what may still be offered?
  <1>11. k > 0 => supply[s] > 0 /\ demand[u] > 0
    BY <1>4, <1>6
  <1>12. k > 0 /\ b = "fallback" =>
            \/ s = "battery_discharge" /\ u = "battery_charge" /\ offer = 12
            \/ s = "grid_in" /\ u = "grid_out" /\ offer = 16
    <2>. SUFFICES ASSUME k > 0, b = "fallback"
                  PROVE  \/ s = "battery_discharge" /\ u = "battery_charge" /\ offer = 12
                         \/ s = "grid_in" /\ u = "grid_out" /\ offer = 16
      OBVIOUS
    <2>1. \A i \in 1..16 : i < offer => Offers[i][1] # s \/ Offers[i][2] # u
      BY <1>6, <1>11 DEF Exhausted
    <2>2. offer \in 8..16
      BY <1>1, <1>2, OfferedInOrder
    <2>. QED BY <1>2, <2>1, <2>2, OfferedInOrder
  <1>13. k > 0 /\ b = "fallback" /\ offer = 12 => supply["grid_in"] = 0
    BY <1>2, <1>6, <1>11, OfferedInOrder DEF Exhausted
  <1>14. LET bb == <<"battery_discharge", "battery_charge", "fallback">>
             gg == <<"grid_in", "grid_out", "fallback">>
         IN  /\ bb \in Ribbon /\ gg \in Ribbon /\ bb # gg
             /\ bb # <<s, u, b>> => flows'[bb] = flows[bb]
             /\ gg # <<s, u, b>> => flows'[gg] = flows[gg]
             /\ k = 0 => flows' = flows
    BY <1>3, <1>5, <1>6 DEF Ribbon, Source, Use, Pass
  <1>15. supply["grid_in"] = 0 => supply'["grid_in"] = 0
    BY <1>4, <1>5, <1>6 DEF Source
  <1>16. LastResort'
    BY <1>1, <1>4, <1>12, <1>13, <1>14, <1>15 DEF LastResort
  <1>17. OnlyForcedFallback'
    <2>1. ASSUME NEW q \in Ribbon, q[3] = "fallback", flows'[q] > 0
          PROVE  \/ q[1] = "battery_discharge" /\ q[2] = "battery_charge"
                 \/ q[1] = "grid_in" /\ q[2] = "grid_out"
      <3>1. CASE q = <<s, u, b>> /\ k > 0
        BY <2>1, <3>1, <1>12
      <3>2. CASE ~(q = <<s, u, b>> /\ k > 0)
        <4>1. flows'[q] = flows[q]
          BY <3>2, <1>3, <1>4, <1>5, <1>6
        <4>. QED BY <2>1, <4>1 DEF OnlyForcedFallback
      <3>. QED BY <3>1, <3>2
    <2>2. \/ flows'[<<"battery_discharge", "battery_charge", "fallback">>] = 0
          \/ flows'[<<"grid_in", "grid_out", "fallback">>] = 0
      <3>1. CASE k = 0
        BY <3>1, <1>14 DEF OnlyForcedFallback
      <3>2. CASE k > 0 /\ <<s, u, b>> = <<"grid_in", "grid_out", "fallback">>
        <4>1. supply["grid_in"] > 0
          BY <3>2, <1>11
        <4>2. flows[<<"battery_discharge", "battery_charge", "fallback">>] = 0
          BY <4>1, <1>6, <1>14 DEF LastResort
        <4>. QED BY <3>2, <4>2, <1>14
      <3>3. CASE k > 0 /\ <<s, u, b>> = <<"battery_discharge", "battery_charge", "fallback">>
        <4>1. offer = 12
          BY <3>3, <1>12
        <4>2. flows[<<"grid_in", "grid_out", "fallback">>] = 0
          BY <4>1, <1>6, <1>14 DEF LastResort
        <4>. QED BY <3>3, <4>2, <1>14
      <3>4. CASE /\ <<s, u, b>> # <<"grid_in", "grid_out", "fallback">>
                 /\ <<s, u, b>> # <<"battery_discharge", "battery_charge", "fallback">>
        BY <3>4, <1>14 DEF OnlyForcedFallback
      <3>5. k = 0 \/ k > 0
        BY <1>4
      <3>. QED BY <3>1, <3>2, <3>3, <3>4, <3>5, Zenon
    <2>. QED BY <2>1, <2>2 DEF OnlyForcedFallback
  <1>. QED BY <1>7, <1>8, <1>9, <1>10, <1>16, <1>17

\* After the last offer no source has anything left.
LEMMA SourcesAreEmpty ==
    ASSUME FInv, offer = 17
    PROVE  \A s \in Source : supply[s] = 0
  <1>. SUFFICES ASSUME NEW s \in Source, supply[s] # 0
                PROVE  FALSE
    OBVIOUS
  <1>. USE DEF FInv
  <1>1. \A u \in Use : demand[u] = 0
    BY EveryPairIsOffered DEF Exhausted, FlowTypeOK
  <1>2. /\ demand["load"] = 0 /\ demand["battery_charge"] = 0 /\ demand["grid_out"] = 0
        /\ Received(flows, "load") = uses["load"]
        /\ Received(flows, "battery_charge") = uses["battery_charge"]
        /\ Received(flows, "grid_out") = uses["grid_out"]
    BY <1>1, SentIsReceived DEF DayAddsUp, Use, FlowTypeOK
  <1>3. /\ Sent(flows, "solar") + supply["solar"] = sources["solar"]
        /\ Sent(flows, "battery_discharge") + supply["battery_discharge"] = sources["battery_discharge"]
        /\ Sent(flows, "grid_in") + supply["grid_in"] = sources["grid_in"]
        /\ Sent(flows, "solar") \in Nat /\ Sent(flows, "battery_discharge") \in Nat
        /\ Sent(flows, "grid_in") \in Nat
        /\ supply["solar"] \in Nat /\ supply["battery_discharge"] \in Nat
        /\ supply["grid_in"] \in Nat
    BY SentIsReceived DEF DayAddsUp, Source, FlowTypeOK
  <1>4. supply["solar"] + supply["battery_discharge"] + supply["grid_in"] > 0
    <2>1. supply["solar"] # 0 \/ supply["battery_discharge"] # 0 \/ supply["grid_in"] # 0
      BY DEF Source
    <2>. QED BY <1>3, <2>1
  <1>5. /\ OfUses(uses) - OfSources(sources) = unbalanced /\ unbalanced \in Nat
        /\ uses["load"] \in Nat /\ uses["battery_charge"] \in Nat /\ uses["grid_out"] \in Nat
    BY DEF DayAddsUp, FlowTypeOK, Use
  <1>. QED BY <1>2, <1>3, <1>4, <1>5, SentIsReceived DEF OfUses, OfSources, FlowTypeOK

\* Sums that hold of the day and of the days before hold of both.
LEMMA DayIsSummedInv ==
    ASSUME FInv, DayIsSummed
    PROVE  FInv'
  <1>. USE DEF FInv
  <1>1. offer = 17
    BY OfferedInOrder DEF DayIsSummed
  <1>2. period \in Totals /\ flows \in [Ribbon -> Nat]
    BY DEF FlowTypeOK
  <1>3. /\ period'.sources = [s \in Source |-> period.sources[s] + sources[s]]
        /\ period'.uses = [u \in Use |-> period.uses[u] + uses[u]]
        /\ period'.flows = [r \in Ribbon |-> period.flows[r] + flows[r]]
        /\ period'.unbalanced = period.unbalanced + unbalanced
    BY DEF DayIsSummed
  <1>4. FlowTypeOK'
    <2>1. period' \in Totals
      BY <1>2 DEF DayIsSummed, FlowTypeOK, Totals
    <2>. QED BY <2>1 DEF DayIsSummed, FlowTypeOK
  <1>5. DayAddsUp' /\ Exhausted' /\ LastResort' /\ OnlyForcedFallback'
    BY DEF DayIsSummed, DayAddsUp, Exhausted, LastResort, OnlyForcedFallback
  <1>6. RibbonsSum'
    <2>1. period.flows \in [Ribbon -> Nat]
      BY <1>2 DEF Totals
    <2>2. /\ \A s \in Source : Sent(period'.flows, s) = Sent(period.flows, s) + Sent(flows, s)
          /\ \A u \in Use :
                Received(period'.flows, u) = Received(period.flows, u) + Received(flows, u)
      BY <1>2, <1>3, <2>1, RibbonsAdd
    <2>3. \A s \in Source : Sent(period'.flows, s) = period'.sources[s]
      <3>1. \A s \in Source : Sent(flows, s) = sources[s]
        BY <1>1, <1>2, SourcesAreEmpty, SentIsReceived DEF DayAddsUp, FlowTypeOK
      <3>. QED BY <1>3, <2>2, <3>1 DEF RibbonsSum
    <2>4. \A u \in Use : Received(period'.flows, u) <= period'.uses[u]
      <3>1. \A u \in Use : Received(flows, u) <= uses[u]
        BY <1>2, SentIsReceived DEF DayAddsUp, FlowTypeOK
      <3>2. \A u \in Use : /\ Received(flows, u) \in Nat /\ Received(period.flows, u) \in Nat
                            /\ uses[u] \in Nat /\ period.uses[u] \in Nat
        BY <1>2, <2>1, SentIsReceived DEF FlowTypeOK, Totals
      <3>. QED BY <1>3, <2>2, <3>1, <3>2 DEF RibbonsSum
    <2>5. OfUses(period'.uses) - OfSources(period'.sources) = period'.unbalanced
      <3>1. /\ {"solar", "battery_discharge", "grid_in"} \subseteq Source
            /\ {"load", "battery_charge", "grid_out"} \subseteq Use
        BY DEF Source, Use
      <3>2. /\ \A s \in Source : sources[s] \in Nat /\ period.sources[s] \in Nat
            /\ \A u \in Use : uses[u] \in Nat /\ period.uses[u] \in Nat
            /\ unbalanced \in Nat /\ period.unbalanced \in Nat
        BY <1>2 DEF FlowTypeOK, Totals
      <3>. QED BY <1>3, <3>1, <3>2 DEF RibbonsSum, DayAddsUp, OfUses, OfSources
    <2>. QED BY <2>3, <2>4, <2>5 DEF RibbonsSum
  <1>. QED BY <1>4, <1>5, <1>6

\* Every step keeps the invariant.
LEMMA FlowNextInv == FInv /\ [FlowNext]_flowVars => FInv'
  <1>. SUFFICES ASSUME FInv, [FlowNext]_flowVars PROVE FInv'
    OBVIOUS
  <1>1. \A n \in Measured : Amounts[n] \subseteq Nat
    BY FlowAssumption
  <1>2. ASSUME NEW solar \in Amounts["solar"], NEW discharge \in Amounts["battery_discharge"],
               NEW import \in Amounts["grid_in"], NEW charge \in Amounts["battery_charge"],
               NEW export \in Amounts["grid_out"],
               DayBegins(solar, discharge, import, charge, export)
        PROVE  FInv'
    <2>1. solar \in Nat /\ discharge \in Nat /\ import \in Nat /\ charge \in Nat /\ export \in Nat
      BY <1>1 DEF Measured, Source
    <2>. QED BY <1>2, <2>1, DayBeginsInv
  <1>3. CASE Allocates
    BY <1>3, AllocatesInv
  <1>4. CASE DayIsSummed
    BY <1>4, DayIsSummedInv
  <1>5. CASE UNCHANGED flowVars
    BY <1>5 DEF flowVars, FInv, FlowTypeOK, DayAddsUp, Exhausted, RibbonsSum, LastResort,
                OnlyForcedFallback
  <1>. QED BY <1>2, <1>3, <1>4, <1>5 DEF FlowNext

\* The invariant holds throughout.
LEMMA FlowInvariant == FlowSpec => []FInv
  <1>. QED BY FlowInitInv, FlowNextInv, PTL DEF FlowSpec

\* For all amounts and any number of days every source's ribbons sum to what it gave,
\* no use's to more than it took, and what is lacking is reported as unbalanced
\* (energy_flow_matrix, sum_energy_flow_matrices).
THEOREM RibbonsAlwaysSum == FlowSpec => []RibbonsSum
  <1>1. FInv => RibbonsSum
    BY DEF FInv
  <1>. QED BY <1>1, FlowInvariant, PTL

\* For all amounts the second pass pairs battery with battery or grid with grid, and
\* never both on one day (energy_flow_matrix).
THEOREM FallbackIsForced == FlowSpec => []OnlyForcedFallback
  <1>1. FInv => OnlyForcedFallback
    BY DEF FInv
  <1>. QED BY <1>1, FlowInvariant, PTL

-----------------------------------------------------------------------------
(***************************************************************************)
(* Migration.  A rebuild loses nothing because the copy is the table: it   *)
(* is made with the write lock held, and whoever holds a copy holds the    *)
(* lock.  A process that has come up finds everything because columns are  *)
(* only ever added, and because each step of init_db is passed only with   *)
(* what it was for in place.                                               *)
(***************************************************************************)

\* A process that is building a copy has the write lock, and its copy is the table.
CopyIsTable == \A p \in Starters : pc[p] = "copied" => lock = p /\ copy[p] = table

\* So does one whose last transaction is open.
LastIsLocked == \A p \in Starters : pc[p] \in {"occupancy", "later"} => lock = p

\* A plain column was found, is still to be added, or exists.
PlainAccounted == \A p \in Starters : pc[p] = "plain" => Plain \subseteq columns \cup missing[p]

\* Beyond the plain columns a process has them all, and beyond the rebuild the key.
Progress ==
    \A p \in Starters :
        /\ pc[p] \in {"rekey", "copied", "occupancy", "later", "ready"} => Plain \subseteq columns
        /\ pc[p] = "rekey" /\ ~rebuild[p] => keyed
        /\ pc[p] \in {"occupancy", "later", "ready"} => keyed
        /\ pc[p] = "later" => Later \subseteq columns \cup missing[p]
        /\ pc[p] = "ready" => Later \subseteq columns

MInv == MigrationTypeOK /\ CopyIsTable /\ LastIsLocked /\ PlainAccounted /\ Progress

\* The oldest database, and nobody up.
LEMMA MigrationInitInv == MigrationInit => MInv
  <1>. SUFFICES ASSUME MigrationInit PROVE MInv
    OBVIOUS
  <1>. QED BY MigrationAssumption
           DEF MigrationInit, MInv, MigrationTypeOK, Steps, CopyIsTable, LastIsLocked,
               PlainAccounted, Progress

-----------------------------------------------------------------------------
\* Every action keeps the types.
LEMMA MigrationTypes == MigrationTypeOK /\ [MigrationNext]_migrationVars => MigrationTypeOK'
  <1>. SUFFICES ASSUME MigrationTypeOK, [MigrationNext]_migrationVars PROVE MigrationTypeOK'
    OBVIOUS
  <1>. USE MigrationAssumption DEF MigrationTypeOK, Go, Steps, NotFound
  <1>1. ASSUME NEW p \in Starters, Starts(p) PROVE MigrationTypeOK'
    BY <1>1 DEF Starts
  <1>2. ASSUME NEW p \in Starters, AddsPlain(p) PROVE MigrationTypeOK'
    BY <1>2 DEF AddsPlain
  <1>3. ASSUME NEW p \in Starters, LosesTheRace(p) PROVE MigrationTypeOK'
    BY <1>3 DEF LosesTheRace
  <1>4. ASSUME NEW p \in Starters, LooksAtKey(p) PROVE MigrationTypeOK'
    BY <1>4 DEF LooksAtKey
  <1>5. ASSUME NEW p \in Starters, Copies(p) PROVE MigrationTypeOK'
    BY <1>5 DEF Copies
  <1>6. ASSUME NEW p \in Starters, Swaps(p) PROVE MigrationTypeOK'
    BY <1>6 DEF Swaps
  <1>7. ASSUME NEW p \in Starters, OpensTheLast(p) PROVE MigrationTypeOK'
    BY <1>7 DEF OpensTheLast
  <1>8. ASSUME NEW p \in Starters, ChecksLater(p) PROVE MigrationTypeOK'
    BY <1>8 DEF ChecksLater
  <1>9. ASSUME NEW p \in Starters, CommitsLast(p) PROVE MigrationTypeOK'
    BY <1>9 DEF CommitsLast
  <1>10. ASSUME NEW p \in Starters, TimesOut(p) PROVE MigrationTypeOK'
    BY <1>10 DEF TimesOut
  <1>11. ASSUME NEW p \in Starters, Dies(p) PROVE MigrationTypeOK'
    BY <1>11 DEF Dies
  <1>12. ASSUME NEW m \in Minutes, NEW g \in Granularity, Writes(m, g) PROVE MigrationTypeOK'
    BY <1>12 DEF Writes
  <1>13. CASE UNCHANGED migrationVars
    BY <1>13 DEF migrationVars
  <1>. QED BY <1>1, <1>2, <1>3, <1>4, <1>5, <1>6, <1>7, <1>8, <1>9, <1>10, <1>11, <1>12, <1>13
           DEF MigrationNext, Init_db

-----------------------------------------------------------------------------
Kept == CopyIsTable /\ LastIsLocked /\ PlainAccounted /\ Progress

\* Every action keeps the invariant.
LEMMA MigrationNextInv == MInv /\ [MigrationNext]_migrationVars => MInv'
  <1>. SUFFICES ASSUME MInv, [MigrationNext]_migrationVars PROVE MInv'
    OBVIOUS
  <1>a. MigrationTypeOK'
    BY MigrationTypes DEF MInv
  <1>b. Nobody \notin Starters
    BY MigrationAssumption
  <1>. USE <1>b DEF MInv, MigrationTypeOK, Kept, Go, NotFound
  <1>1. ASSUME NEW p \in Starters, Starts(p) PROVE Kept'
    BY <1>1 DEF Starts, CopyIsTable, LastIsLocked, PlainAccounted, Progress
  <1>2. ASSUME NEW p \in Starters, AddsPlain(p) PROVE Kept'
    BY <1>2 DEF AddsPlain, CopyIsTable, LastIsLocked, PlainAccounted, Progress
  <1>3. ASSUME NEW p \in Starters, LosesTheRace(p) PROVE Kept'
    BY <1>3 DEF LosesTheRace, CopyIsTable, LastIsLocked, PlainAccounted, Progress
  <1>4. ASSUME NEW p \in Starters, LooksAtKey(p) PROVE Kept'
    BY <1>4 DEF LooksAtKey, CopyIsTable, LastIsLocked, PlainAccounted, Progress
  <1>5. ASSUME NEW p \in Starters, Copies(p) PROVE Kept'
    BY <1>5 DEF Copies, MayCopy, CopyIsTable, LastIsLocked, PlainAccounted, Progress
  <1>6. ASSUME NEW p \in Starters, Swaps(p) PROVE Kept'
    BY <1>6 DEF Swaps, CopyIsTable, LastIsLocked, PlainAccounted, Progress
  <1>7. ASSUME NEW p \in Starters, OpensTheLast(p) PROVE Kept'
    BY <1>7 DEF OpensTheLast, CopyIsTable, LastIsLocked, PlainAccounted, Progress
  <1>8. ASSUME NEW p \in Starters, ChecksLater(p) PROVE Kept'
    BY <1>8 DEF ChecksLater, CopyIsTable, LastIsLocked, PlainAccounted, Progress
  <1>9. ASSUME NEW p \in Starters, CommitsLast(p) PROVE Kept'
    BY <1>9 DEF CommitsLast, CopyIsTable, LastIsLocked, PlainAccounted, Progress
  <1>10. ASSUME NEW p \in Starters, TimesOut(p) PROVE Kept'
    BY <1>10 DEF TimesOut, CopyIsTable, LastIsLocked, PlainAccounted, Progress
  <1>11. ASSUME NEW p \in Starters, Dies(p) PROVE Kept'
    BY <1>11 DEF Dies, CopyIsTable, LastIsLocked, PlainAccounted, Progress
  <1>12. ASSUME NEW m \in Minutes, NEW g \in Granularity, Writes(m, g) PROVE Kept'
    BY <1>12 DEF Writes, CopyIsTable, LastIsLocked, PlainAccounted, Progress
  <1>13. CASE UNCHANGED migrationVars
    BY <1>13 DEF migrationVars, CopyIsTable, LastIsLocked, PlainAccounted, Progress
  <1>14. Kept'
    BY <1>1, <1>2, <1>3, <1>4, <1>5, <1>6, <1>7, <1>8, <1>9, <1>10, <1>11, <1>12, <1>13
       DEF MigrationNext, Init_db
  <1>. QED BY <1>a, <1>14

\* The invariant holds throughout.
LEMMA MigrationInvariant == MigrationSpec => []MInv
  <1>. QED BY MigrationInitInv, MigrationNextInv, PTL DEF MigrationSpec

-----------------------------------------------------------------------------
\* Types, for any number of processes, columns and readings (init_db).
THEOREM MigrationTypeCorrect == MigrationSpec => []MigrationTypeOK
  <1>1. MInv => MigrationTypeOK
    BY DEF MInv
  <1>. QED BY <1>1, MigrationInvariant, PTL

\* However many processes start, die and write at the same time, no rebuild loses a
\* reading (_migrate_composite_pk).
THEOREM NoRowIsLost == MigrationSpec => RowsSurvive
  <1>. DEFINE Survives == \A r \in table : r \in table' \/ (~keyed /\ \E n \in table' : n[1] = r[1])
  <1>1. MInv /\ [MigrationNext]_migrationVars => [Survives]_migrationVars
    <2>. SUFFICES ASSUME MInv, MigrationNext PROVE Survives
      BY DEF migrationVars
    <2>1. ASSUME NEW p \in Starters, Swaps(p) PROVE table' = table
      BY <2>1 DEF Swaps, MInv, CopyIsTable
    <2>2. ASSUME NEW m \in Minutes, NEW g \in Granularity, Writes(m, g) PROVE Survives
      <3>1. table' = {r \in table : keyed \/ r[1] # m} \cup {<<m, g>>}
        BY <2>2 DEF Writes
      <3>2. <<m, g>> \in table' /\ <<m, g>>[1] = m
        BY <3>1
      <3>. QED BY <3>1, <3>2
    <2>3. ASSUME NEW p \in Starters,
                 \/ Starts(p) \/ AddsPlain(p) \/ LosesTheRace(p) \/ LooksAtKey(p) \/ Copies(p)
                 \/ OpensTheLast(p) \/ ChecksLater(p) \/ CommitsLast(p) \/ TimesOut(p) \/ Dies(p)
          PROVE  table' = table
      BY <2>3 DEF Starts, AddsPlain, LosesTheRace, LooksAtKey, Copies, OpensTheLast,
                  ChecksLater, CommitsLast, TimesOut, Dies
    <2>4. table' = table => Survives
      OBVIOUS
    <2>. HIDE DEF Survives
    <2>. QED BY <2>1, <2>2, <2>3, <2>4 DEF MigrationNext, Init_db
  <1>. QED BY <1>1, MigrationInvariant, PTL DEF MigrationSpec, RowsSurvive

\* A process that is up has every column and the new key, however many others are
\* migrating (init_db).
THEOREM ReadyAndMigrated == MigrationSpec => []ReadyIsMigrated
  <1>1. MInv => ReadyIsMigrated
    <2>. SUFFICES ASSUME MInv, NEW p \in Starters, pc[p] = "ready"
                  PROVE  keyed /\ columns = Plain \cup Later
      BY DEF ReadyIsMigrated
    <2>1. keyed /\ Plain \subseteq columns /\ Later \subseteq columns
      BY DEF MInv, Progress
    <2>2. columns \subseteq Plain \cup Later
      BY DEF MInv, MigrationTypeOK
    <2>. QED BY <2>1, <2>2
  <1>. QED BY <1>1, MigrationInvariant, PTL
=============================================================================
