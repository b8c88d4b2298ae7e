----------------------- MODULE RunawayDetector_proofs -----------------------
(***************************************************************************)
(* Safety of the water leak detector, for every configuration, horizon,    *)
(* drawing of water and number of missed polls, deaths, resets, moves and  *)
(* dismissals.                                                             *)
(*                                                                         *)
(* The account of the litres is the heart of it.  Every litre reported is  *)
(* booked once, in the run that is on or in the row of one that has ended, *)
(* and what the meter shows beyond the stored last value is still to be    *)
(* booked; together that is never more than what was drawn (Accounted).    *)
(***************************************************************************)
EXTENDS RunawayDetector, SetFacts

\* Positions of the poller's clock, the run and the rows.
ReadingStored == pc = "tier1" => reading[now] = meter

RunInOrder ==
    /\ run.start = Null => run.last = Null /\ run.volume = 0
    /\ run.start # Null =>
          /\ run.start \in Times /\ run.last \in Times
          /\ run.start <= run.last /\ run.last <= now
          /\ pc = "tier1" => run.last < now

NothingBefore == last_meter_value = Null => run.start = Null

RowsInOrder ==
    \A s \in Times :
        /\ row[s].via # "none" => s <= now /\ s <= row[s].seen /\ (pc = "tier1" => s < now)
        /\ row[s].via = "none" => ~row[s].open /\ row[s].excused = Null

\* The row of the run that is on has no more than the run.
RunHasMost ==
    run.start # Null /\ row[run.start].via \in Tier1 => row[run.start].volume <= run.volume

\* What is booked under s: the run that is on, or the row of one that has ended.
Booked ==
    [s \in Times |-> IF s = run.start THEN run.volume
                     ELSE IF row[s].via \in Tier1 THEN row[s].volume ELSE 0]

\* The meter has moved on since Tier 1 looked at it.
Unbooked ==
    IF last_meter_value = Null \/ meter <= last_meter_value THEN 0 ELSE meter - last_meter_value

Accounted == Total(Booked, Times) + Unbooked <= drawn

\* A dismissal leaves its gate above what it excused.
Loosened ==
    \A s \in Times : row[s].excused # Null =>
        config[Target(row[s])] >= row[s].excused + Margin(Target(row[s]))

IInv == /\ TypeOK /\ ReadingStored /\ RunInOrder /\ NothingBefore /\ RowsInOrder
        /\ RunHasMost /\ Accounted /\ Loosened
        /\ OpenIsCurrent /\ OneWindow

-----------------------------------------------------------------------------
(* Buckets, of any length. *)

\* A bucket's number, and the time at which it starts.
LEMMA Buckets ==
    ASSUME NEW t \in Nat
    PROVE  /\ BucketOf(t) \in Nat
           /\ \A b \in Nat : b <= BucketOf(t) => b * BucketLen \in Nat /\ b * BucketLen <= t
           /\ \A b \in Nat : BucketOf(b * BucketLen) = b
<1>1. BucketLen \in Nat \ {0}
  BY SeriesAssumption
<1>2. BucketOf(t) \in Nat /\ BucketOf(t) * BucketLen <= t
  BY <1>1, Quotient DEF BucketOf
<1>3. ASSUME NEW b \in Nat, b <= BucketOf(t)
      PROVE  b * BucketLen \in Nat /\ b * BucketLen <= t
  <2>1. b * BucketLen <= BucketOf(t) * BucketLen
    BY <1>1, <1>2, <1>3
  <2>2. b * BucketLen \in Nat /\ BucketOf(t) * BucketLen \in Nat
    BY <1>1, <1>2
  <2>3. QED
    BY <1>2, <2>1, <2>2
<1>4. QED
  BY <1>1, <1>2, <1>3, QuotientOfMultiple DEF BucketOf

-----------------------------------------------------------------------------
(* The two queries. *)

Series == [Times -> Nat \cup {Missing}]

\* The last stored time is one of them.
LEMMA LastStored ==
    ASSUME NEW r \in Series, NEW S, S \subseteq Times, S # {}
    PROVE  Max(S) \in S /\ \A u \in S : u <= Max(S)
<1>1. 0 \in Int /\ MaxTime \in Int
  BY DetectorAssumption
<1>2. QED
  BY <1>1, MaxIsLargest DEF Times

\* A trailing rate is a number: it is measured over a time that is not 0.
LEMMA RateType ==
    ASSUME NEW r \in Series, NEW t \in Times, NEW start \in Times, start <= t
    PROVE  TrailingRate(r, t, start) \in Nat
<1> DEFINE before == Stored(r, start - 1)
           cutoff == IF before # {} /\ Max(before) > t - Trail THEN Max(before) ELSE t - Trail
           base == Stored(r, cutoff)
           to == Max(Stored(r, t))
           from == Max(base)
           litres == IF r[to] > r[from] THEN r[to] - r[from] ELSE 0
<1>1. Times \subseteq Nat /\ Trail \in Nat
  BY SeriesAssumption DEF Times
<1>2. \A u : Stored(r, u) \subseteq Times /\ \A v \in Stored(r, u) : v <= u /\ r[v] \in Nat
  BY DEF Stored, Series, Missing
<1>3. cutoff \in Int /\ cutoff <= t
  <2>1. CASE before # {} /\ Max(before) > t - Trail
    <3>1. Max(before) \in Times /\ Max(before) <= start - 1
      BY <1>2, <2>1, LastStored
    <3>2. Max(before) \in Nat /\ start \in Nat /\ t \in Nat
      BY <1>1, <3>1
    <3>3. cutoff = Max(before)
      BY <2>1
    <3>4. QED
      <4> HIDE DEF cutoff, before
      <4>1. QED
        BY <3>1, <3>2, <3>3
  <2>2. CASE ~(before # {} /\ Max(before) > t - Trail)
    BY <1>1, <2>2
  <2>3. QED
    BY <2>1, <2>2
<1>4. CASE Stored(r, t) = {} \/ base = {} \/ to = from
  BY <1>4 DEF TrailingRate
<1>5. CASE Stored(r, t) # {} /\ base # {} /\ to # from
  <2>1. to \in Stored(r, t) /\ \A u \in Stored(r, t) : u <= to
    BY <1>2, <1>5, LastStored
  <2>2. from \in base
    BY <1>2, <1>5, LastStored
  <2>3. from \in Stored(r, t)
    <3> HIDE DEF cutoff
    <3>1. from \in Times /\ from <= cutoff /\ r[from] # Missing
      BY <2>2 DEF Stored, Series
    <3> HIDE DEF from
    <3>2. QED
      BY <1>1, <1>3, <3>1 DEF Stored, Series
  <2>4. to \in Nat /\ from \in Nat /\ r[to] \in Nat /\ r[from] \in Nat
    BY <1>1, <1>2, <2>1, <2>3
  <2>5. litres * RateScale \in Nat /\ to - from \in Nat \ {0}
    <3> HIDE DEF to, from
    <3>1. QED
      BY <1>5, <2>1, <2>3, <2>4 DEF RateScale
  <2>6. TrailingRate(r, t, start) = (litres * RateScale) \div (to - from)
    BY <1>5 DEF TrailingRate
  <2>7. QED
    <3> HIDE DEF litres, to, from
    <3>1. QED
      BY <2>5, <2>6, Quotient
<1>6. QED
  BY <1>4, <1>5

\* What a measurable bucket holds is a number.
LEMMA LitresType ==
    ASSUME NEW r \in Series, NEW t \in Times, NEW b, Measured(r, b, t)
    PROVE  Litres(r, b, t) \in Nat
<1> DEFINE this == Max(InBucket(r, b, t))
           previous == Max(InBucket(r, b - 1, t))
<1>1. \A c : InBucket(r, c, t) \subseteq Times /\ \A u \in InBucket(r, c, t) : r[u] \in Nat
  BY DEF InBucket, Stored, Series, Missing
<1>2. this \in InBucket(r, b, t) /\ previous \in InBucket(r, b - 1, t)
  BY <1>1, LastStored DEF Measured
<1>3. r[this] \in Nat /\ r[previous] \in Nat
  BY <1>1, <1>2
<1>4. QED
  BY <1>3 DEF Litres

\* A streak is an interval of buckets, all measurable, as are those up to now; of
\* these no more than ZeroTolerance are idle.
LEMMA StreakShape ==
    ASSUME NEW r \in Series, NEW t \in Times, NEW from \in Nat, Streak(r, from, t) # {}
    PROVE  \E lo, hi \in Nat :
              /\ Streak(r, from, t) = lo..hi /\ lo <= hi /\ hi <= BucketOf(t)
              /\ Min(Streak(r, from, t)) = lo
              /\ Cardinality(Streak(r, from, t)) = hi - lo + 1
              /\ \A b \in lo..BucketOf(t) : Measured(r, b, t)
              /\ Cardinality({b \in lo..BucketOf(t) : Idle(r, b, t)}) <= ZeroTolerance
<1> DEFINE last == BucketOf(t)
           reaches(i) == /\ \A j \in i..last : Measured(r, j, t)
                         /\ Cardinality({j \in i..last : Idle(r, j, t)}) <= ZeroTolerance
           flowing == {j \in BucketOf(from)..last : reaches(j) /\ Flowing(r, j, t)}
           lo == Min(flowing)
           hi == Max(flowing)
<1>1. t \in Nat /\ BucketOf(from) \in Nat /\ last \in Nat
  BY Buckets DEF Times
<1>2. Streak(r, from, t) = IF flowing = {} THEN {} ELSE lo..hi
  BY DEF Streak
<1>3. flowing # {} /\ Streak(r, from, t) = lo..hi
  BY <1>2
<1>4. flowing \subseteq BucketOf(from)..last
  OBVIOUS
<1>5. lo \in flowing /\ hi \in flowing /\ lo <= hi
  <2> HIDE DEF flowing, last
  <2>1. BucketOf(from) \in Int /\ last \in Int
    BY <1>1
  <2>2. lo \in flowing /\ \A y \in flowing : lo <= y
    BY <1>3, <1>4, <2>1, MinIsSmallest
  <2>3. hi \in flowing
    BY <1>3, <1>4, <2>1, MaxIsLargest
  <2>4. QED
    BY <2>2, <2>3
<1>6. reaches(lo) /\ lo \in Nat /\ hi \in Nat /\ hi <= last
  <2> HIDE DEF lo, hi
  <2>1. QED
    BY <1>1, <1>5
<1>7. Min(lo..hi) = lo /\ Cardinality(lo..hi) = hi - lo + 1
  <2> HIDE DEF lo, hi
  <2>1. lo \in lo..hi /\ lo \in Int /\ hi \in Int
    BY <1>5, <1>6
  <2>2. Min(lo..hi) \in lo..hi /\ \A y \in lo..hi : Min(lo..hi) <= y
    BY <2>1, MinIsSmallest
  <2>3. Min(lo..hi) = lo
    BY <2>1, <2>2
  <2>4. Cardinality(lo..hi) = hi - lo + 1
    BY <1>5, <2>1, FS_Interval
  <2>5. QED
    BY <2>3, <2>4
<1>8. QED
  <2> HIDE DEF lo, hi, flowing
  <2>1. QED
    BY <1>3, <1>5, <1>6, <1>7

\* The volume of a streak is a number.
LEMMA StreakVolumeType ==
    ASSUME NEW r \in Series, NEW t \in Times, NEW lo \in Nat, NEW hi \in Nat,
           \A b \in lo..hi : Measured(r, b, t)
    PROVE  StreakVolume(r, lo..hi, t) \in Nat
<1> DEFINE S == lo..hi
           f == [b \in S |-> Litres(r, b, t)]
           P(g) == g = [s \in SUBSET S |->
                          IF s = {} THEN 0
                          ELSE Litres(r, CHOOSE x \in s : TRUE, t) + g[s \ {CHOOSE x \in s : TRUE}]]
           h == CHOOSE g : P(g)
<1>1. StreakVolume(r, S, t) = h[S]
  BY DEF StreakVolume, MapThenSumSet, MapThenFoldSet
<1>2. IsFiniteSet(S) /\ \A b \in S : f[b] \in Nat
  BY LitresType, FS_Interval
<1>3. \A g : P(g) <=> Sums(f, S, g)
  <2>1. \A s \in SUBSET S : s # {} => f[First(s)] = Litres(r, CHOOSE x \in s : TRUE, t)
    BY FirstIsMember DEF First
  <2>2. QED
    BY <2>1 DEF Sums, First
<1>4. \E g : P(g)
  <2> HIDE DEF P
  <2>1. QED
    BY <1>2, <1>3, SumsExist
<1>5. P(h)
  <2> HIDE DEF P
  <2>1. QED
    BY <1>4
<1>6. Sums(f, S, h)
  <2> HIDE DEF P, h
  <2>1. QED
    BY <1>3, <1>5
<1>7. h[S] \in Nat
  <2> HIDE DEF h, f, S
  <2>1. Total(f, S) = h[S]
    BY <1>2, <1>6, TotalIsSums
  <2>2. QED
    BY <1>2, <2>1, TotalNatural
<1>8. QED
  BY <1>1, <1>7

-----------------------------------------------------------------------------
(* What each operation does to a row. *)

\* From old to new no row opens and nothing but open changes.
OnlyClosed(old, new) ==
    /\ new \in [Times -> Rows]
    /\ \A s \in Times :
          /\ new[s].via = old[s].via /\ new[s].seen = old[s].seen
          /\ new[s].peak = old[s].peak /\ new[s].volume = old[s].volume
          /\ new[s].occupancy = old[s].occupancy /\ new[s].excused = old[s].excused
          /\ new[s].open => old[s].open

\* Closing an episode changes nothing else of it.
LEMMA Closing ==
    ASSUME NEW e \in Rows, NEW f, f = [e EXCEPT !.open = FALSE]
    PROVE  /\ f \in Rows /\ ~f.open
           /\ f.via = e.via /\ f.seen = e.seen /\ f.peak = e.peak /\ f.volume = e.volume
           /\ f.occupancy = e.occupancy /\ f.excused = e.excused
BY DEF Rows

\* _close_episode closes the episode of its start.
LEMMA CloseAtCloses ==
    ASSUME NEW rows \in [Times -> Rows], NEW s \in Times \cup {Null}
    PROVE  /\ OnlyClosed(rows, CloseAt(rows, s))
           /\ s \in Times => ~CloseAt(rows, s)[s].open
<1>1. CASE s = Null
  <2>1. s \notin Times
    BY <1>1 DEF Times, Null
  <2>2. QED
    BY <1>1, <2>1 DEF CloseAt, OnlyClosed, Rows
<1>2. CASE s # Null
  <2> DEFINE f == [rows[s] EXCEPT !.open = FALSE]
  <2>1. CloseAt(rows, s) = [rows EXCEPT ![s] = f]
    BY <1>2 DEF CloseAt
  <2>2. rows[s] \in Rows
    BY <1>2
  <2>3. /\ f \in Rows /\ ~f.open
        /\ f.via = rows[s].via /\ f.seen = rows[s].seen /\ f.peak = rows[s].peak
        /\ f.volume = rows[s].volume /\ f.occupancy = rows[s].occupancy
        /\ f.excused = rows[s].excused
    BY <2>2, Closing
  <2>4. QED
    <3> HIDE DEF f
    <3>1. QED
      BY <1>2, <2>1, <2>3 DEF OnlyClosed
<1>3. QED
  BY <1>1, <1>2

\* _close_background_episode closes those of its gate.
LEMMA CloseViaCloses ==
    ASSUME NEW rows \in [Times -> Rows], NEW via
    PROVE  /\ OnlyClosed(rows, CloseVia(rows, via))
           /\ OpenVia(CloseVia(rows, via), via) = {}
           /\ \A s \in Times : rows[s].via # via => CloseVia(rows, via)[s] = rows[s]
<1> DEFINE new == CloseVia(rows, via)
<1>1. \A s \in Times : new[s] = IF rows[s].via = via THEN [rows[s] EXCEPT !.open = FALSE]
                                ELSE rows[s]
  BY DEF CloseVia
<1>2. ASSUME NEW s \in Times
      PROVE  /\ new[s] \in Rows /\ new[s].via = rows[s].via /\ new[s].seen = rows[s].seen
             /\ new[s].peak = rows[s].peak /\ new[s].volume = rows[s].volume
             /\ new[s].occupancy = rows[s].occupancy /\ new[s].excused = rows[s].excused
             /\ new[s].open => rows[s].open
             /\ new[s].via = via => ~new[s].open
  <2>1. CASE rows[s].via = via
    <3>1. rows[s] \in Rows /\ new[s] = [rows[s] EXCEPT !.open = FALSE]
      BY <1>1, <2>1
    <3> HIDE DEF new
    <3>2. QED
      BY <3>1, Closing
  <2>2. CASE rows[s].via # via
    <3>1. new[s] = rows[s] /\ rows[s] \in Rows
      BY <1>1, <2>2
    <3> HIDE DEF new
    <3>2. QED
      BY <2>2, <3>1
  <2>3. QED
    BY <2>1, <2>2
<1>3. new \in [Times -> Rows]
  <2>1. new = [s \in Times |-> new[s]]
    BY DEF CloseVia
  <2> HIDE DEF new
  <2>2. QED
    BY <1>2, <2>1
<1>4. QED
  <2> HIDE DEF new
  <2>1. OnlyClosed(rows, new) /\ OpenVia(new, via) = {}
    BY <1>2, <1>3 DEF OnlyClosed, OpenVia
  <2>2. \A s \in Times : rows[s].via # via => new[s] = rows[s]
    BY <1>1
  <2>3. QED
    BY <2>1, <2>2 DEF new

\* A gate of Tier 1 writes to the row of its start alone: a new episode, or
\* the new volume of an open one, which keeps its gate.
LEMMA GateWrites ==
    ASSUME TypeOK, NEW rows \in [Times -> Rows], NEW s \in Times, NEW via \in Tier1,
           NEW volume \in Nat, NEW rate \in Nat, NEW new,
           new = OpenOrUpdate(rows, s, via, volume, rate)
    PROVE  /\ new \in [Times -> Rows]
           /\ \A t \in Times \ {s} : new[t] = rows[t]
           /\ rows[s].via = "none" =>
                 /\ new[s].via = via /\ new[s].open /\ new[s].seen = now
                 /\ new[s].peak = rate /\ new[s].volume = volume
                 /\ new[s].occupancy = (IF away THEN "away" ELSE "home")
                 /\ new[s].excused = Null
           /\ rows[s].via # "none" =>
                 /\ new[s].via = rows[s].via /\ new[s].occupancy = rows[s].occupancy
                 /\ new[s].excused = rows[s].excused
                 /\ new[s].open = rows[s].open
                 /\ new[s].seen \in {rows[s].seen, now}
                 /\ new[s].volume \in {rows[s].volume, volume}
<1>1. rows[s] \in Rows /\ now \in Times /\ away \in BOOLEAN
  BY DEF TypeOK
<1>2. via \in Vias
  BY DEF Tier1, Vias
<1>3. CASE rows[s].via = "none"
  <2> DEFINE e == [NoRow EXCEPT !.via = via, !.open = TRUE, !.seen = now, !.peak = rate,
                       !.volume = volume, !.occupancy = IF away THEN "away" ELSE "home"]
  <2>1. new = [rows EXCEPT ![s] = e]
    BY <1>3 DEF OpenOrUpdate
  <2>2. e \in Rows
    BY <1>1, <1>2 DEF Rows, NoRow, Null
  <2>3. /\ e.via = via /\ e.open /\ e.seen = now /\ e.peak = rate /\ e.volume = volume
        /\ e.occupancy = (IF away THEN "away" ELSE "home") /\ e.excused = Null
    BY DEF NoRow
  <2>4. QED
    <3> HIDE DEF e
    <3>1. QED
      BY <1>3, <2>1, <2>2, <2>3
<1>4. CASE rows[s].via # "none" /\ rows[s].open
  <2> DEFINE e == [rows[s] EXCEPT !.seen = now, !.volume = volume,
                       !.peak = IF rate > rows[s].peak THEN rate ELSE rows[s].peak]
  <2>1. new = [rows EXCEPT ![s] = e]
    BY <1>1, <1>4 DEF OpenOrUpdate, Rows
  <2>2. e \in Rows
    BY <1>1 DEF Rows
  <2>3. /\ e.via = rows[s].via /\ e.open = rows[s].open /\ e.seen = now /\ e.volume = volume
        /\ e.occupancy = rows[s].occupancy /\ e.excused = rows[s].excused
    BY <1>1 DEF Rows
  <2>4. QED
    <3> HIDE DEF e
    <3>1. QED
      BY <1>4, <2>1, <2>2, <2>3
<1>5. CASE rows[s].via # "none" /\ ~rows[s].open
  BY <1>5 DEF OpenOrUpdate
<1>6. QED
  BY <1>3, <1>4, <1>5

\* A touched episode is open and has no less than before.
LEMMA TouchKeeps ==
    ASSUME TypeOK, NEW rows \in [Times -> Rows], NEW s \in Times, NEW volume \in Nat, NEW new,
           new = Touch(rows, s, volume)
    PROVE  /\ new \in [Times -> Rows]
           /\ \A t \in Times \ {s} : new[t] = rows[t]
           /\ new[s].via = rows[s].via /\ new[s].occupancy = rows[s].occupancy
           /\ new[s].excused = rows[s].excused
           /\ new[s].seen = now
           /\ new[s].volume >= rows[s].volume
<1> DEFINE e == [rows[s] EXCEPT !.seen = now, !.open = TRUE,
                     !.volume = IF volume > rows[s].volume THEN volume ELSE rows[s].volume]
<1>1. rows[s] \in Rows /\ now \in Times
  BY DEF TypeOK
<1>2. new = [rows EXCEPT ![s] = e]
  BY <1>1 DEF Touch, Rows
<1>3. e \in Rows
  BY <1>1 DEF Rows
<1>4. /\ e.via = rows[s].via /\ e.occupancy = rows[s].occupancy /\ e.excused = rows[s].excused
      /\ e.seen = now /\ e.volume >= rows[s].volume
  BY <1>1 DEF Rows
<1>5. QED
  <2> HIDE DEF e
  <2>1. QED
    BY <1>2, <1>3, <1>4


\* What BackgroundEvidence asks of a start.
Evidence(s) ==
    LET span == BucketOf(s)..BucketOf(now) IN
    /\ \A b \in span \cup {BucketOf(s) - 1} : InBucket(reading, b, now) # {}
    /\ Cardinality({b \in span : Litres(reading, b, now) = 0}) <= ZeroTolerance

\* A streak starts at a time that has passed, long enough ago, and on evidence.
LEMMA StreakStart ==
    ASSUME TypeOK, NEW from \in Nat, NEW streak, streak = Streak(reading, from, now),
           streak # {}, NEW start, start = Min(streak) * BucketLen
    PROVE  /\ start \in Times /\ start <= now
           /\ now - start + BucketLen >= Cardinality(streak) * BucketLen
           /\ Cardinality(streak) \in Int
           /\ Evidence(start)
           /\ StreakVolume(reading, streak, now) \in Nat
<1>1. reading \in Series /\ now \in Times /\ now \in Nat
  BY DEF TypeOK, Series, Times
<1>2. PICK lo \in Nat, hi \in Nat :
          /\ streak = lo..hi /\ lo <= hi /\ hi <= BucketOf(now)
          /\ Min(streak) = lo
          /\ Cardinality(streak) = hi - lo + 1
          /\ \A b \in lo..BucketOf(now) : Measured(reading, b, now)
          /\ Cardinality({b \in lo..BucketOf(now) : Idle(reading, b, now)}) <= ZeroTolerance
  BY <1>1, StreakShape
<1>3. BucketOf(now) \in Nat /\ BucketLen \in Nat /\ lo <= BucketOf(now)
  <2>1. BucketOf(now) \in Nat
    BY <1>1, Buckets
  <2>2. QED
    BY <1>2, <2>1, SeriesAssumption
<1>4. start = lo * BucketLen /\ BucketOf(start) = lo
  BY <1>1, <1>2, Buckets
<1>5. start \in Nat /\ start <= now /\ hi * BucketLen \in Nat /\ hi * BucketLen <= now
  BY <1>1, <1>2, <1>3, <1>4, Buckets
<1>6. start \in Times
  BY <1>1, <1>5, DetectorAssumption DEF Times
<1>7. now - start + BucketLen >= Cardinality(streak) * BucketLen
  <2>1. (hi - lo + 1) * BucketLen = hi * BucketLen - lo * BucketLen + BucketLen
    BY <1>3
  <2>2. QED
    BY <1>1, <1>2, <1>3, <1>4, <1>5, <2>1
<1>8. Evidence(start)
  <2>1. \A b \in lo..BucketOf(now) :
            InBucket(reading, b, now) # {} /\ InBucket(reading, b - 1, now) # {}
    BY <1>2 DEF Measured
  <2>2. lo \in lo..BucketOf(now)
    BY <1>3
  <2>3. {b \in lo..BucketOf(now) : Idle(reading, b, now)}
        = {b \in lo..BucketOf(now) : Litres(reading, b, now) = 0}
    BY <1>2 DEF Idle
  <2>4. QED
    BY <1>2, <1>4, <2>1, <2>2, <2>3 DEF Evidence
<1>9. StreakVolume(reading, streak, now) \in Nat
  <2>1. \A b \in lo..hi : Measured(reading, b, now)
    BY <1>2, <1>3
  <2>2. QED
    BY <1>1, <1>2, <2>1, StreakVolumeType
<1>10. QED
  BY <1>2, <1>5, <1>6, <1>7, <1>8, <1>9

\* From old to new nothing happens to an episode but that it closes, or is
\* seen again with no less, or opens on evidence.
Followed(old, new, via, minimum) ==
    /\ new \in [Times -> Rows]
    /\ \A s \in Times : old[s].via \notin {via, "none"} => new[s] = old[s]
    /\ \A s \in Times : old[s].via = via =>
          /\ new[s].via = via /\ new[s].occupancy = old[s].occupancy
          /\ new[s].excused = old[s].excused
          /\ new[s].seen \in {old[s].seen, now}
          /\ new[s].volume >= old[s].volume
    /\ \A s \in Times : old[s].via = "none" /\ new[s] # old[s] =>
          /\ new[s].via = via /\ new[s].excused = Null
          /\ new[s].seen = now /\ s <= now
          /\ now - s + BucketLen >= minimum
    /\ \A s \in Times : new[s].open /\ ~old[s].open => Evidence(s)

\* A window with too short a streak closes its episodes.
LEMMA ClosingFollows ==
    ASSUME TypeOK, NEW rows \in [Times -> Rows], NEW via \in Tier2, NEW minimum
    PROVE  Followed(rows, CloseVia(rows, via), via, minimum)
<1> DEFINE new == CloseVia(rows, via)
<1>1. OnlyClosed(rows, new) /\ \A s \in Times : rows[s].via # via => new[s] = rows[s]
  BY CloseViaCloses
<1>2. \A s \in Times : rows[s].volume \in Nat
  BY DEF Rows
<1>3. via # "none"
  BY DEF Tier2
<1>4. QED
  <2> HIDE DEF new
  <2>1. Followed(rows, new, via, minimum)
    BY <1>1, <1>2, <1>3 DEF Followed, OnlyClosed
  <2>2. QED
    BY <2>1 DEF new

\* So does one that touches an episode of its own, resumed or not.
LEMMA TouchFollows ==
    ASSUME TypeOK, NEW rows \in [Times -> Rows], NEW via \in Tier2, NEW minimum,
           NEW s \in Times, NEW volume \in Nat, rows[s].via = via, rows[s].open \/ Evidence(s)
    PROVE  Followed(rows, Touch(rows, s, volume), via, minimum)
<1> DEFINE new == Touch(rows, s, volume)
<1>1. /\ new \in [Times -> Rows]
      /\ \A t \in Times \ {s} : new[t] = rows[t]
      /\ new[s].via = rows[s].via /\ new[s].occupancy = rows[s].occupancy
      /\ new[s].excused = rows[s].excused /\ new[s].seen = now
      /\ new[s].volume >= rows[s].volume
  BY TouchKeeps
<1>2. \A t \in Times : rows[t].volume \in Nat
  BY DEF Rows
<1>3. via # "none"
  BY DEF Tier2
<1>4. QED
  <2> HIDE DEF new
  <2>1. Followed(rows, new, via, minimum)
    BY <1>1, <1>2, <1>3 DEF Followed
  <2>2. QED
    BY <2>1 DEF new

\* Whatever a window does.
LEMMA WindowFollows ==
    ASSUME TypeOK, NEW rows \in [Times -> Rows], NEW via \in Tier2, NEW from \in Nat,
           NEW minimum \in Nat
    PROVE  Followed(rows, Window(rows, via, from, minimum), via, minimum)
<1> DEFINE streak == Streak(reading, from, now)
           volume == StreakVolume(reading, streak, now)
           start == Min(streak) * BucketLen
           new == Window(rows, via, from, minimum)
<1>1. CASE Cardinality(streak) * BucketLen < minimum \/ streak = {}
  <2>1. new = CloseVia(rows, via)
    BY <1>1 DEF Window
  <2>2. QED
    BY <2>1, ClosingFollows
<1>2. CASE ~(Cardinality(streak) * BucketLen < minimum) /\ streak # {}
  <2> DEFINE opened == [NoRow EXCEPT !.via = via, !.open = TRUE, !.seen = now, !.volume = volume,
                            !.occupancy = IF via = "T2-away" THEN "away" ELSE "home"]
  <2>1. new = IF OpenVia(rows, via) # {} THEN Touch(rows, Max(OpenVia(rows, via)), volume)
              ELSE IF rows[start].via = via THEN Touch(rows, start, volume)
              ELSE IF rows[start].via = "none" THEN [rows EXCEPT ![start] = opened]
              ELSE rows
    BY <1>2 DEF Window
  <2>2. /\ start \in Times /\ start <= now
        /\ now - start + BucketLen >= Cardinality(streak) * BucketLen
        /\ Cardinality(streak) \in Int /\ Evidence(start) /\ volume \in Nat
    BY <1>2, StreakStart
  <2>3. now - start + BucketLen >= minimum
    <3>1. now \in Nat /\ start \in Nat /\ BucketLen \in Nat
      BY <2>2, SeriesAssumption DEF TypeOK, Times
    <3>2. Cardinality(streak) * BucketLen \in Int
      BY <2>2, <3>1
    <3> HIDE DEF streak, start
    <3>3. QED
      BY <1>2, <2>2, <3>1, <3>2
  <2> HIDE DEF streak, volume, start
  <2>4. CASE OpenVia(rows, via) # {}
    <3>1. OpenVia(rows, via) \subseteq 0..MaxTime /\ 0 \in Int /\ MaxTime \in Int
      BY DetectorAssumption DEF OpenVia, Times
    <3>2. Max(OpenVia(rows, via)) \in OpenVia(rows, via)
      BY <2>4, <3>1, MaxIsLargest
    <3>3. QED
      BY <2>1, <2>2, <2>4, <3>2, TouchFollows DEF OpenVia
  <2>5. CASE OpenVia(rows, via) = {} /\ rows[start].via = via
    BY <2>1, <2>2, <2>5, TouchFollows
  <2>6. CASE OpenVia(rows, via) = {} /\ rows[start].via = "none"
    <3>1. via # "none" /\ via \in Vias
      BY DEF Tier2, Vias
    <3>2. /\ opened \in Rows /\ opened.via = via /\ opened.seen = now
          /\ opened.excused = Null
      <4>1. now \in Times
        BY DEF TypeOK
      <4>2. QED
        BY <2>2, <3>1, <4>1 DEF Rows, NoRow, Null
    <3> HIDE DEF opened
    <3>3. new = [rows EXCEPT ![start] = opened]
      BY <2>1, <2>6, <3>1
    <3>4. \A s \in Times : rows[s].volume \in Nat
      BY DEF Rows
    <3> HIDE DEF new
    <3>5. Followed(rows, new, via, minimum)
      BY <2>2, <2>3, <2>6, <3>1, <3>2, <3>3, <3>4 DEF Followed
    <3>6. QED
      BY <3>5 DEF new
  <2>7. CASE OpenVia(rows, via) = {} /\ rows[start].via # via /\ rows[start].via # "none"
    <3>1. new = rows
      BY <2>1, <2>7
    <3>2. \A s \in Times : rows[s].volume \in Nat
      BY DEF Rows
    <3> HIDE DEF new
    <3>3. Followed(rows, new, via, minimum)
      BY <3>1, <3>2 DEF Followed
    <3>4. QED
      BY <3>3 DEF new
  <2>8. QED
    BY <2>4, <2>5, <2>6, <2>7
<1>3. QED
  BY <1>1, <1>2


-----------------------------------------------------------------------------
(* The sum that the account is made of. *)

\* The starts are finitely many.
LEMMA TimesFinite == IsFiniteSet(Times)
BY DetectorAssumption, FS_Interval DEF Times

\* Every start has its number of litres.
AccountTyped ==
    /\ Booked \in [Times -> Nat] /\ Unbooked \in Nat
    /\ Total(Booked, Times) \in Nat

LEMMA BookedType == TypeOK => AccountTyped
<1> SUFFICES ASSUME TypeOK
             PROVE  AccountTyped
  OBVIOUS
<1>1. \A s \in Times : row[s] \in Rows /\ row[s].volume \in Nat
  BY DEF TypeOK, Rows
<1>2. run.volume \in Nat
  BY DEF TypeOK
<1>3. Booked \in [Times -> Nat]
  BY <1>1, <1>2 DEF Booked
<1>4. IsFiniteSet(Times)
  BY TimesFinite
<1>5. Total(Booked, Times) \in Nat
  BY <1>3, <1>4, TotalNatural
<1>6. Unbooked \in Nat
  BY DEF TypeOK, Unbooked, Null
<1>7. QED
  BY <1>3, <1>5, <1>6 DEF AccountTyped

\* A step that books no more keeps the account, if what it leaves to be booked
\* is no more than was left or is drawn with it.
LEMMA AccountKept ==
    ASSUME TypeOK, TypeOK', Accounted, NEW d \in Nat,
           \A s \in Times : Booked'[s] <= Booked[s],
           Unbooked' <= Unbooked + d, drawn' = drawn + d
    PROVE  Accounted'
<1>1. AccountTyped /\ AccountTyped'
  BY BookedType, PTL
<1>2. /\ Booked \in [Times -> Nat] /\ Unbooked \in Nat /\ Total(Booked, Times) \in Nat
      /\ Booked' \in [Times -> Nat] /\ Unbooked' \in Nat /\ Total(Booked', Times) \in Nat
  BY <1>1 DEF AccountTyped
<1>3. Total(Booked', Times) <= Total(Booked, Times)
  BY <1>2, TimesFinite, TotalMonotonic
<1>4. drawn \in Nat /\ drawn' \in Nat
  BY DEF TypeOK
<1>5. QED
  BY <1>2, <1>3, <1>4 DEF Accounted


\* So does one that books at one start no more than was left to be booked.
LEMMA AccountSettled ==
    ASSUME TypeOK, TypeOK', Accounted, NEW a \in Times,
           \A s \in Times \ {a} : Booked'[s] <= Booked[s],
           Booked'[a] <= Booked[a] + Unbooked, Unbooked' = 0, drawn' = drawn
    PROVE  Accounted'
<1>1. AccountTyped /\ AccountTyped'
  BY BookedType, PTL
<1>2. /\ Booked \in [Times -> Nat] /\ Unbooked \in Nat /\ Total(Booked, Times) \in Nat
      /\ Booked' \in [Times -> Nat] /\ Total(Booked', Times) \in Nat
  BY <1>1 DEF AccountTyped
<1>3. Total(Booked', Times) <= Total(Booked, Times) + Unbooked
  BY <1>2, TimesFinite, TotalBump
<1>4. drawn \in Nat
  BY DEF TypeOK
<1>5. QED
  BY <1>2, <1>3, <1>4 DEF Accounted

-----------------------------------------------------------------------------
(* Tier 1. *)

\* Where a poll of Tier 1 leaves the run: nowhere new before the second reading,
\* without one when the meter stood still or fell, and otherwise in the run that
\* was on, or in one that starts now, with the litres that were not yet booked.
RunMoved ==
    \/ run' = run /\ last_meter_value = Null /\ run.start = Null
    \/ run' = NoRun /\ last_meter_value # Null
    \/ /\ last_meter_value # Null /\ Unbooked > 0
       /\ run'.last = now /\ run'.start \in Times
       /\ run' \in [start : Times \cup {Null}, last : Times \cup {Null}, volume : Nat]
       /\ \/ /\ run'.start = run.start /\ ~IsStale
             /\ run'.volume = run.volume + Unbooked
          \/ /\ run'.start = now /\ run.start # now
             /\ run'.volume = Unbooked

\* What it does to the row of s, and that a new row is one that its gate fires for.
RowMoved(s) ==
    \/ /\ row'[s].via = row[s].via /\ row'[s].occupancy = row[s].occupancy
       /\ row'[s].excused = row[s].excused /\ row'[s].seen \in {row[s].seen, now}
       /\ row'[s].open => row[s].open
       /\ \/ row'[s].volume = row[s].volume
          \/ s = run'.start /\ row'[s].volume = run'.volume
    \/ /\ row[s].via = "none" /\ row'[s].via \in Tier1 /\ s = run'.start
       /\ row'[s].volume = run'.volume
       /\ row'[s].excused = Null /\ row'[s].seen = now
       /\ row'[s].occupancy = (IF away THEN "away" ELSE "home")
       /\ row'[s].via = FiredVia(s, row'[s].volume, row'[s].peak)

\* A poll of Tier 1 does just that, and the episode it leaves open is that of the run.
LEMMA CheckWaterMoves ==
    ASSUME IInv, CheckWater
    PROVE  /\ RunMoved
           /\ row' \in [Times -> Rows]
           /\ \A s \in Times : RowMoved(s)
           /\ \A s \in Times : row'[s].via \in Tier1 /\ row'[s].open => s = run'.start
           /\ last_meter_value' = meter
<1> USE DEF IInv
<1>1. /\ now \in Times /\ now \in Int /\ meter \in Nat /\ row \in [Times -> Rows]
      /\ run \in [start : Times \cup {Null}, last : Times \cup {Null}, volume : Nat]
      /\ last_meter_value \in Nat \cup {Null} /\ away \in BOOLEAN
      /\ reading \in Series
  BY DEF TypeOK, Times, Series
<1>2. reading[now] = meter /\ last_meter_value' = meter
  BY DEF CheckWater, NextLast, ReadingStored
<1>3. Null \notin Times /\ Null \notin Nat
  BY DEF Null, Times
<1>4. CASE last_meter_value = Null
  <2>1. run' = run /\ row' = row /\ run.start = Null
    BY <1>4 DEF CheckWater, NothingBefore
  <2>2. \A s \in Times : ~(row[s].via \in Tier1 /\ row[s].open)
    BY <1>3, <2>1 DEF OpenIsCurrent
  <2>3. QED
    BY <1>1, <1>2, <1>4, <2>1, <2>2 DEF RunMoved, RowMoved
<1>5. CASE last_meter_value # Null
  <2> DEFINE before == IF IsStale THEN NoRun ELSE run
             rows == IF IsStale THEN CloseAt(row, run.start) ELSE row
             delta == reading[now] - last_meter_value
  <2>1. /\ OnlyClosed(row, rows)
        /\ \A s \in Times : rows[s].via \in Tier1 /\ rows[s].open => s = before.start
    <3>1. CASE IsStale
      <4>1. rows = CloseAt(row, run.start) /\ run.start \in Times
        BY <1>1, <3>1 DEF IsStale
      <4> HIDE DEF rows
      <4>2. OnlyClosed(row, rows) /\ ~rows[run.start].open
        BY <1>1, <4>1, CloseAtCloses
      <4>3. QED
        BY <4>2 DEF OnlyClosed, OpenIsCurrent
    <3>2. CASE ~IsStale
      <4>1. rows = row /\ before = run
        BY <3>2
      <4> HIDE DEF rows, before
      <4>2. QED
        BY <1>1, <4>1 DEF OnlyClosed, OpenIsCurrent
    <3>3. QED
      BY <3>1, <3>2
  <2>2. delta = meter - last_meter_value /\ last_meter_value \in Nat
    BY <1>1, <1>2, <1>5
  <2>3. /\ before \in [start : Times \cup {Null}, last : Times \cup {Null}, volume : Nat]
        /\ IsStale => before.start = Null /\ before.volume = 0 /\ run.start < now
        /\ ~IsStale => before = run
    <3>1. CASE IsStale
      <4>1. run.start <= run.last /\ run.last < now /\ run.start \in Int /\ run.last \in Int
        BY <3>1 DEF RunInOrder, IsStale, CheckWater, Times
      <4>2. QED
        BY <1>1, <3>1, <4>1 DEF NoRun, Null
    <3>2. CASE ~IsStale
      BY <1>1, <3>2
    <3>3. QED
      BY <3>1, <3>2
  <2>4. IF delta <= 0 THEN run' = NoRun /\ row' = CloseAt(rows, before.start)
        ELSE Flow(rows, before, delta)
    BY <1>5 DEF CheckWater
  <2> HIDE DEF rows, before, delta
  <2>5. CASE delta <= 0
    <3>1. run' = NoRun /\ row' = CloseAt(rows, before.start)
      BY <2>4, <2>5
    <3>2. rows \in [Times -> Rows]
      BY <2>1 DEF OnlyClosed
    <3>3. OnlyClosed(rows, row') /\ (before.start \in Times => ~row'[before.start].open)
      BY <2>3, <3>1, <3>2, CloseAtCloses
    <3>4. \A s \in Times : RowMoved(s)
      BY <2>1, <3>3 DEF OnlyClosed, RowMoved
    <3>5. \A s \in Times : ~(row'[s].via \in Tier1 /\ row'[s].open)
      BY <2>1, <3>3 DEF OnlyClosed
    <3>6. QED
      BY <1>2, <1>5, <3>1, <3>3, <3>4, <3>5 DEF RunMoved, OnlyClosed
  <2>6. CASE ~(delta <= 0)
    <3> DEFINE start == IF before.start = Null THEN now ELSE before.start
               volume == before.volume + delta
               rate == TrailingRate(reading, now, start)
               via == FiredVia(start, volume, rate)
    <3>1. /\ run' = [start |-> start, last |-> now, volume |-> volume]
          /\ row' = IF via = "none" THEN rows ELSE OpenOrUpdate(rows, start, via, volume, rate)
      BY <2>4, <2>6 DEF Flow
    <3>2. Unbooked = delta /\ delta \in Nat /\ delta > 0
      BY <1>1, <1>3, <1>5, <2>2, <2>6 DEF Unbooked
    <3>3. start \in Times /\ start <= now /\ volume \in Nat
      <4>1. CASE before.start = Null
        BY <1>1, <2>3, <3>2, <4>1
      <4>2. CASE before.start # Null
        <5>1. before = run /\ run.start # Null
          BY <2>3, <4>2
        <5>2. run.start <= now
          BY <1>1, <5>1 DEF RunInOrder, Times
        <5>3. QED
          BY <1>1, <3>2, <4>2, <5>1, <5>2
      <4>3. QED
        BY <4>1, <4>2
    <3>4. rate \in Nat
      <4> HIDE DEF start
      <4>1. QED
        BY <1>1, <3>3, RateType
    <3>5. via \in Tier1 \cup {"none"}
      BY DEF FiredVia, Tier1
    <3>6. rows \in [Times -> Rows]
      BY <2>1 DEF OnlyClosed
    <3>7. RunMoved
      <4>1. run'.start = start /\ run'.last = now /\ run'.volume = volume
            /\ run' \in [start : Times \cup {Null}, last : Times \cup {Null}, volume : Nat]
        <5> HIDE DEF start, volume
        <5>1. QED
          BY <1>1, <3>1, <3>3
      <4>2. CASE before.start = Null
        <5>1. before.volume = 0 /\ run.start # now
          <6>1. CASE IsStale
            BY <1>1, <2>3, <6>1 DEF Times
          <6>2. CASE ~IsStale
            BY <1>1, <1>3, <2>3, <4>2, <6>2 DEF RunInOrder
          <6>3. QED
            BY <6>1, <6>2
        <5>2. start = now /\ volume = Unbooked
          BY <3>2, <4>2, <5>1
        <5> HIDE DEF start, volume
        <5>3. QED
          BY <1>5, <3>2, <3>3, <4>1, <5>1, <5>2 DEF RunMoved
      <4>3. CASE before.start # Null
        <5>1. ~IsStale /\ before = run
          BY <2>3, <4>3
        <5>2. start = run.start /\ volume = run.volume + Unbooked
          BY <3>2, <4>3, <5>1
        <5> HIDE DEF start, volume
        <5>3. QED
          BY <1>5, <3>2, <3>3, <4>1, <5>1, <5>2 DEF RunMoved
      <4>4. QED
        BY <4>2, <4>3
    <3>8. \A s \in Times : rows[s].via \in Tier1 /\ rows[s].open => s = start
      BY <1>3, <2>1
    <3>9. run'.start = start /\ run'.volume = volume
      <4> HIDE DEF start, volume, via, rate
      <4>1. QED
        BY <3>1
    <3>10. CASE via = "none"
      <4>1. row' = rows
        BY <3>1, <3>10
      <4>2. \A s \in Times : RowMoved(s)
        BY <2>1, <4>1 DEF RowMoved, OnlyClosed
      <4> HIDE DEF start, volume, via, rate
      <4>3. QED
        BY <1>2, <3>6, <3>7, <3>8, <3>9, <4>1, <4>2
    <3>11. CASE via # "none"
      <4>1. row' = OpenOrUpdate(rows, start, via, volume, rate) /\ via \in Tier1
        BY <3>1, <3>5, <3>11
      <4>2. via = FiredVia(start, volume, rate)
        OBVIOUS
      <4> HIDE DEF start, volume, via, rate
      <4>3. /\ row' \in [Times -> Rows]
            /\ \A t \in Times \ {start} : row'[t] = rows[t]
            /\ rows[start].via = "none" =>
                  /\ row'[start].via = via /\ row'[start].open /\ row'[start].seen = now
                  /\ row'[start].peak = rate /\ row'[start].volume = volume
                  /\ row'[start].occupancy = (IF away THEN "away" ELSE "home")
                  /\ row'[start].excused = Null
            /\ rows[start].via # "none" =>
                  /\ row'[start].via = rows[start].via
                  /\ row'[start].occupancy = rows[start].occupancy
                  /\ row'[start].excused = rows[start].excused
                  /\ row'[start].open = rows[start].open
                  /\ row'[start].seen \in {rows[start].seen, now}
                  /\ row'[start].volume \in {rows[start].volume, volume}
        BY <3>3, <3>4, <3>6, <4>1, GateWrites
      <4>4. ASSUME NEW s \in Times, s # start
            PROVE  RowMoved(s) /\ ~(row'[s].via \in Tier1 /\ row'[s].open)
        <5>1. row'[s] = rows[s]
          BY <4>3, <4>4
        <5>2. QED
          BY <2>1, <3>8, <4>4, <5>1 DEF RowMoved, OnlyClosed
      <4>5. RowMoved(start)
        <5>1. CASE rows[start].via = "none"
          <6>1. row[start].via = "none"
            BY <2>1, <3>3, <5>1 DEF OnlyClosed
          <6>2. QED
            BY <3>9, <4>1, <4>2, <4>3, <5>1, <6>1 DEF RowMoved
        <5>2. CASE rows[start].via # "none"
          BY <2>1, <3>3, <3>9, <4>3, <5>2 DEF RowMoved, OnlyClosed
        <5>3. QED
          BY <5>1, <5>2
      <4>6. QED
        BY <1>2, <3>7, <3>9, <4>3, <4>4, <4>5
    <3>12. QED
      BY <3>10, <3>11
  <2>7. QED
    BY <2>5, <2>6
<1>6. QED
  BY <1>4, <1>5


-----------------------------------------------------------------------------
(* Tier 2. *)

\* The away lookback starts at a time.
LEMMA AwayFromType == TypeOK => AwayFrom \in Nat
<1> SUFFICES ASSUME TypeOK
             PROVE  AwayFrom \in Nat
  OBVIOUS
<1>1. now \in Int /\ away_since \in Nat /\ config["t2_away"] + AwaySlack \in Nat
  BY DetectorAssumption DEF TypeOK, Times, Columns
<1>2. QED
  BY <1>1 DEF AwayFrom

\* The gate of the window that applies.
WindowVia == IF away THEN "T2-away" ELSE "T2-night"

\* What a poll of Tier 2 does to the row of s.
BackgroundMoved(s) ==
    /\ row[s].via \in Tier1 => row'[s] = row[s]
    /\ row[s].via \in Tier2 =>
          /\ row'[s].via = row[s].via /\ row'[s].occupancy = row[s].occupancy
          /\ row'[s].excused = row[s].excused
          /\ row'[s].seen \in {row[s].seen, now}
          /\ row'[s].volume >= row[s].volume
    /\ row[s].via = "none" /\ row'[s] # row[s] =>
          /\ row'[s].via = WindowVia /\ row'[s].excused = Null
          /\ row'[s].seen = now /\ s <= now
          /\ now - s + BucketLen >= config[Target(row'[s])]
    /\ row'[s].open /\ ~row[s].open => Evidence(s)

\* A window of the gate that applies, after the other one's episodes are closed.
LEMMA WindowMoves ==
    ASSUME TypeOK, NEW other \in Tier2, other # WindowVia,
           NEW rows, rows = CloseVia(row, other),
           NEW minimum, minimum = config[IF away THEN "t2_away" ELSE "t2_night"],
           Followed(rows, row', WindowVia, minimum)
    PROVE  /\ row' \in [Times -> Rows]
           /\ \A s \in Times : BackgroundMoved(s)
           /\ OpenVia(row', other) = {}
<1>1. row \in [Times -> Rows]
  BY DEF TypeOK
<1>2. /\ OnlyClosed(row, rows) /\ OpenVia(rows, other) = {}
      /\ \A s \in Times : row[s].via # other => rows[s] = row[s]
  BY <1>1, CloseViaCloses
<1>3. /\ WindowVia \in Tier2 /\ WindowVia # "none" /\ other # "none"
      /\ \A v \in Tier2 : v \in {other, WindowVia}
      /\ Tier1 \cap {other, WindowVia, "none"} = {}
  BY DEF WindowVia, Tier1, Tier2
<1>4. /\ row' \in [Times -> Rows]
      /\ \A s \in Times : rows[s].via \notin {WindowVia, "none"} => row'[s] = rows[s]
      /\ \A s \in Times : rows[s].via = WindowVia =>
            /\ row'[s].via = WindowVia /\ row'[s].occupancy = rows[s].occupancy
            /\ row'[s].excused = rows[s].excused
            /\ row'[s].seen \in {rows[s].seen, now}
            /\ row'[s].volume >= rows[s].volume
      /\ \A s \in Times : rows[s].via = "none" /\ row'[s] # rows[s] =>
            /\ row'[s].via = WindowVia /\ row'[s].excused = Null
            /\ row'[s].seen = now /\ s <= now
            /\ now - s + BucketLen >= minimum
      /\ \A s \in Times : row'[s].open /\ ~rows[s].open => Evidence(s)
  BY DEF Followed
<1>5. ASSUME NEW s \in Times
      PROVE  BackgroundMoved(s) /\ ~(row'[s].via = other /\ row'[s].open)
  <2>1. CASE row[s].via = other
    <3>1. rows[s].via = other /\ row'[s] = rows[s] /\ ~rows[s].open
      BY <1>2, <1>3, <1>4, <2>1 DEF OnlyClosed, OpenVia
    <3>2. row[s].volume \in Nat
      BY <1>1 DEF Rows
    <3>3. QED
      BY <1>2, <1>3, <2>1, <3>1, <3>2 DEF OnlyClosed, BackgroundMoved
  <2>2. CASE row[s].via # other
    <3>1. rows[s] = row[s]
      BY <1>2, <2>2
    <3>2. CASE row[s].via = "none"
      <4>1. row'[s] # row[s] => Target(row'[s]) = IF away THEN "t2_away" ELSE "t2_night"
        BY <1>3, <1>4, <3>1, <3>2 DEF Target, WindowVia
      <4>2. row'[s].via # other
        BY <1>3, <1>4, <2>2, <3>1, <3>2
      <4>3. QED
        BY <1>3, <1>4, <3>1, <3>2, <4>1, <4>2 DEF BackgroundMoved
    <3>3. CASE row[s].via = WindowVia
      BY <1>3, <1>4, <3>1, <3>3 DEF BackgroundMoved
    <3>4. CASE row[s].via \notin {"none", WindowVia}
      <4>1. row[s].volume \in Nat
        BY <1>1 DEF Rows
      <4>2. QED
        BY <1>3, <1>4, <2>2, <3>1, <3>4, <4>1 DEF BackgroundMoved
    <3>5. QED
      BY <3>2, <3>3, <3>4
  <2>3. QED
    BY <2>1, <2>2
<1>6. QED
  BY <1>4, <1>5 DEF OpenVia

\* A poll of Tier 2, whichever window applies.
LEMMA BackgroundMoves ==
    ASSUME TypeOK, CheckWaterBackground
    PROVE  /\ row' \in [Times -> Rows]
           /\ \A s \in Times : BackgroundMoved(s)
           /\ OneWindow'
<1>1. /\ row' = Background /\ row \in [Times -> Rows] /\ away \in BOOLEAN
      /\ config["t2_away"] \in Nat /\ config["t2_night"] \in Nat
      /\ NightStart \in Nat /\ AwayFrom \in Nat
  BY AwayFromType, DetectorAssumption DEF CheckWaterBackground, TypeOK, Columns
<1> DEFINE other == IF away THEN "T2-night" ELSE "T2-away"
           rows == CloseVia(row, other)
           minimum == config[IF away THEN "t2_away" ELSE "t2_night"]
<1>2. rows \in [Times -> Rows]
  <2>1. OnlyClosed(row, rows)
    BY <1>1, CloseViaCloses
  <2>2. QED
    BY <2>1 DEF OnlyClosed
<1>3. other \in Tier2 /\ WindowVia \in Tier2 /\ other # WindowVia
  BY DEF Tier2, WindowVia
<1>4. Followed(rows, row', WindowVia, minimum)
  <2>1. CASE away
    <3>1. row' = Window(rows, "T2-away", AwayFrom, minimum) /\ WindowVia = "T2-away"
      BY <1>1, <2>1 DEF Background, WindowVia
    <3>2. minimum \in Nat
      BY <1>1, <2>1
    <3> HIDE DEF rows, minimum, other
    <3>3. QED
      BY <1>1, <1>2, <1>3, <3>1, <3>2, WindowFollows
  <2>2. CASE ~away /\ NightStart <= now /\ now < NightEnd
    <3>1. row' = Window(rows, "T2-night", NightStart, minimum) /\ WindowVia = "T2-night"
      BY <1>1, <2>2 DEF Background, WindowVia
    <3>2. minimum \in Nat
      BY <1>1, <2>2
    <3> HIDE DEF rows, minimum, other
    <3>3. QED
      BY <1>1, <1>2, <1>3, <3>1, <3>2, WindowFollows
  <2>3. CASE ~away /\ ~(NightStart <= now /\ now < NightEnd)
    <3>1. row' = CloseVia(rows, "T2-night") /\ WindowVia = "T2-night"
      BY <1>1, <2>3 DEF Background, WindowVia
    <3> HIDE DEF rows, minimum, other
    <3>2. QED
      BY <1>2, <1>3, <3>1, ClosingFollows
  <2>4. QED
    BY <2>1, <2>2, <2>3
<1>5. /\ row' \in [Times -> Rows]
      /\ \A s \in Times : BackgroundMoved(s)
      /\ OpenVia(row', other) = {}
  <2> HIDE DEF Followed
  <2>1. rows = CloseVia(row, other) /\ minimum = config[IF away THEN "t2_away" ELSE "t2_night"]
    OBVIOUS
  <2> HIDE DEF rows, other, minimum
  <2>2. QED
    BY <1>3, <1>4, <2>1, WindowMoves
<1>6. OneWindow'
  BY <1>5 DEF OneWindow, OpenVia
<1>7. QED
  BY <1>5, <1>6


-----------------------------------------------------------------------------
(* The invariant. *)

\* Nothing is booked at first.
LEMMA InitInv == Init => IInv
<1> SUFFICES ASSUME Init
             PROVE  IInv
  OBVIOUS
<1>1. Null \notin Times /\ Null \notin Nat
  BY DEF Null, Times
<1>2. TypeOK
  <2>1. 0 \in Times /\ NoRow \in Rows
    BY DetectorAssumption DEF Times, NoRow, Rows, Vias, Null
  <2>2. QED
    BY <2>1, DetectorAssumption DEF Init, TypeOK, NoRun, Null, Missing
<1>3. Accounted
  <2>1. \A s \in Times : Booked[s] = 0
    <3>1. \A s \in Times : s # run.start /\ row[s].via \notin Tier1
      BY <1>1 DEF Init, NoRun, NoRow, Tier1
    <3>2. QED
      BY <3>1 DEF Booked
  <2>2. Unbooked = 0 /\ drawn = 0
    BY DEF Init, Unbooked
  <2>3. Total(Booked, Times) = 0
    BY <2>1, TimesFinite, TotalOfZeros
  <2>4. QED
    BY <2>2, <2>3 DEF Accounted
<1>4. /\ ReadingStored /\ RunInOrder /\ NothingBefore /\ RowsInOrder /\ RunHasMost
      /\ Loosened /\ OpenIsCurrent /\ OneWindow
  BY <1>1 DEF Init, NoRun, NoRow, ReadingStored, RunInOrder, NothingBefore, RowsInOrder,
     RunHasMost, Loosened, OpenIsCurrent, OneWindow, OpenVia, Tier1
<1>5. QED
  BY <1>2, <1>3, <1>4 DEF IInv

\* While time passes, the meter may only fall behind the litres drawn.
LEMMA AdvanceInv ==
    ASSUME IInv, NEW d \in Draws, Poll(d) \/ Miss(d)
    PROVE  IInv'
<1> USE DEF IInv
<1>1. /\ now' = now + 1 /\ now \in Nat /\ now' \in Times /\ d \in Nat
      /\ meter' = meter + d /\ drawn' = drawn + d /\ meter \in Nat /\ drawn \in Nat
      /\ pc = "wait" /\ UNCHANGED <<run, last_meter_value, row, config, away, away_since, events>>
  BY DetectorAssumption DEF Poll, Miss, Advance, detector, household, TypeOK, Times
<1>2. /\ reading' \in [Times -> Nat \cup {Missing}] /\ pc' \in {"wait", "tier1"}
      /\ pc' = "tier1" => reading'[now'] = meter'
  BY <1>1 DEF Poll, Miss, TypeOK
<1>3. TypeOK'
  BY <1>1, <1>2 DEF TypeOK
<1>4. ReadingStored'
  BY <1>2 DEF ReadingStored
<1>5. RunInOrder'
  BY <1>1 DEF RunInOrder, Times
<1>6. RowsInOrder'
  <2>1. \A s \in Times : row[s].via # "none" => s <= now' /\ s < now' /\ s <= row[s].seen
    BY <1>1 DEF RowsInOrder, Times
  <2>2. QED
    BY <1>1, <2>1 DEF RowsInOrder
<1>7. Accounted'
  <2>1. Booked' = Booked
    BY <1>1 DEF Booked
  <2>2. Unbooked' <= Unbooked + d
    BY <1>1 DEF TypeOK, Unbooked, Null
  <2>3. \A s \in Times : Booked'[s] <= Booked[s]
    BY <2>1, BookedType DEF AccountTyped
  <2>4. QED
    BY <1>1, <1>3, <2>2, <2>3, AccountKept
<1>8. NothingBefore' /\ RunHasMost' /\ Loosened' /\ OpenIsCurrent' /\ OneWindow'
  BY <1>1 DEF NothingBefore, RunHasMost, Loosened, OpenIsCurrent, OneWindow, OpenVia
<1>9. QED
  BY <1>3, <1>4, <1>5, <1>6, <1>7, <1>8

\* A death of the poller, a reset of the meter and a move touch neither run nor row.
LEMMA QuietInv ==
    ASSUME IInv, Crash \/ MeterReset \/ \E since \in Times : Move(since)
    PROVE  IInv'
<1> USE DEF IInv
<1>1. /\ UNCHANGED <<now, drawn, reading, run, last_meter_value, row, config>>
      /\ pc' = "wait" /\ meter' \in {meter, 0} /\ meter \in Nat /\ drawn \in Nat
      /\ away' \in BOOLEAN /\ away_since' \in Times /\ events' \in 0..MaxEvents
  <2>1. /\ meter \in Nat /\ drawn \in Nat /\ now \in Times /\ away \in BOOLEAN
        /\ away_since \in Times /\ events \in 0..MaxEvents /\ MaxEvents \in Nat
    BY DetectorAssumption DEF TypeOK
  <2>2. CASE Crash
    BY <2>1, <2>2 DEF Crash, Event, world, detector, household
  <2>3. CASE MeterReset
    BY <2>1, <2>3 DEF MeterReset, Event, detector, household
  <2>4. ASSUME NEW since \in Times, Move(since)
        PROVE  /\ UNCHANGED <<now, drawn, reading, run, last_meter_value, row, config>>
               /\ pc' = "wait" /\ meter' \in {meter, 0}
               /\ away' \in BOOLEAN /\ away_since' \in Times /\ events' \in 0..MaxEvents
    BY <2>1, <2>4 DEF Move, Event, world, detector
  <2>5. QED
    BY <2>1, <2>2, <2>3, <2>4
<1>2. TypeOK'
  BY <1>1 DEF TypeOK
<1>3. Accounted'
  <2>1. Booked' = Booked
    BY <1>1 DEF Booked
  <2>2. Unbooked' <= Unbooked + 0
    <3>1. last_meter_value = Null \/ last_meter_value \in Nat
      BY DEF TypeOK
    <3>2. CASE last_meter_value = Null
      BY <1>1, <3>2 DEF Unbooked
    <3>3. CASE last_meter_value # Null
      BY <1>1, <3>1, <3>3 DEF Unbooked
    <3>4. QED
      BY <3>2, <3>3
  <2>3. \A s \in Times : Booked'[s] <= Booked[s]
    BY <2>1, BookedType DEF AccountTyped
  <2>4. drawn' = drawn + 0
    BY <1>1
  <2>5. QED
    BY <1>2, <2>2, <2>3, <2>4, AccountKept
<1>4. /\ ReadingStored' /\ RunInOrder' /\ NothingBefore' /\ RowsInOrder' /\ RunHasMost'
      /\ Loosened' /\ OpenIsCurrent' /\ OneWindow'
  BY <1>1 DEF ReadingStored, RunInOrder, NothingBefore, RowsInOrder, RunHasMost,
     Loosened, OpenIsCurrent, OneWindow, OpenVia
<1>5. QED
  BY <1>2, <1>3, <1>4

\* A poll of Tier 1 books what was not booked, once.
LEMMA CheckWaterInv ==
    ASSUME IInv, CheckWater
    PROVE  IInv'
<1> USE DEF IInv
<1>1. /\ RunMoved /\ row' \in [Times -> Rows] /\ \A s \in Times : RowMoved(s)
      /\ \A s \in Times : row'[s].via \in Tier1 /\ row'[s].open => s = run'.start
      /\ last_meter_value' = meter
  BY CheckWaterMoves
<1>2. /\ UNCHANGED <<now, meter, drawn, reading, config, away, away_since, events>>
      /\ pc = "tier1" /\ pc' = "tier2"
  BY DEF CheckWater, world, household
<1>3. /\ now \in Times /\ now \in Int /\ Times \subseteq Nat /\ meter \in Nat
      /\ Null \notin Times /\ Null \notin Nat /\ row \in [Times -> Rows]
      /\ \A s \in Times : row[s].seen \in Times /\ row[s].volume \in Nat
      /\ run \in [start : Times \cup {Null}, last : Times \cup {Null}, volume : Nat]
  BY DEF TypeOK, Rows, Times, Null
<1>4. run' \in [start : Times \cup {Null}, last : Times \cup {Null}, volume : Nat]
  BY <1>1, <1>3 DEF RunMoved, NoRun
<1>5. TypeOK'
  BY <1>1, <1>2, <1>3, <1>4 DEF TypeOK
<1>6. RunInOrder' /\ (run'.start \in Times => run'.start <= now)
  <2>1. CASE run' = run /\ run.start = Null
    BY <1>2, <1>3, <2>1 DEF RunInOrder
  <2>2. CASE run' = NoRun
    BY <1>3, <2>2 DEF RunInOrder, NoRun
  <2>3. CASE run'.last = now /\ run'.start \in Times /\ run'.start \in {run.start, now}
    <3>1. CASE run'.start = now
      BY <1>2, <1>3, <2>3, <3>1 DEF RunInOrder
    <3>2. CASE run'.start = run.start
      <4>1. run.start \in Nat /\ run.last \in Nat /\ run.start <= run.last /\ run.last <= now
        BY <1>3, <2>3, <3>2 DEF RunInOrder
      <4>2. run.start <= now
        BY <1>3, <4>1
      <4>3. QED
        BY <1>2, <1>3, <2>3, <3>2, <4>2 DEF RunInOrder
    <3>3. QED
      BY <2>3, <3>1, <3>2
  <2>4. QED
    BY <1>1, <2>1, <2>2, <2>3 DEF RunMoved
<1>7. ReadingStored' /\ NothingBefore'
  BY <1>1, <1>2, <1>3 DEF ReadingStored, NothingBefore
<1>8. RowsInOrder'
  <2>1. ASSUME NEW s \in Times
        PROVE  /\ row'[s].via # "none" => s <= now /\ s <= row'[s].seen
               /\ row'[s].via = "none" => ~row'[s].open /\ row'[s].excused = Null
    <3>1. "none" \notin Tier1
      BY DEF Tier1
    <3>2. QED
      BY <1>1, <1>3, <1>6, <3>1 DEF RowMoved, RowsInOrder
  <2>2. QED
    BY <1>2, <2>1 DEF RowsInOrder
<1>9. \A s \in Times : row'[s].via \in Tier1 /\ s # run'.start =>
          row[s].via \in Tier1 /\ row'[s].volume = row[s].volume
  BY <1>1 DEF RowMoved
<1>10. run'.start # Null /\ row'[run'.start].via \in Tier1 =>
          row'[run'.start].volume <= run'.volume
  <2> SUFFICES ASSUME run'.start # Null, row'[run'.start].via \in Tier1
               PROVE  row'[run'.start].volume <= run'.volume
    OBVIOUS
  <2> DEFINE s == run'.start
  <2>1. s \in Times /\ run'.volume \in Nat
    BY <1>4
  <2>2. CASE row'[s].volume = run'.volume
    BY <2>1, <2>2
  <2>3. CASE row[s].via = row'[s].via /\ row'[s].volume = row[s].volume
    <3>1. row[s].via # "none" /\ row[s].via \in Tier1
      BY <2>3 DEF Tier1
    <3>2. s < now
      BY <1>2, <2>1, <3>1 DEF RowsInOrder
    <3>3. s = run.start /\ run'.volume = run.volume + Unbooked
      BY <1>1, <1>3, <2>1, <3>2 DEF RunMoved, NoRun
    <3>4. row[s].volume <= run.volume
      BY <1>3, <2>1, <3>1, <3>3 DEF RunHasMost
    <3>5. Unbooked \in Nat
      BY BookedType DEF AccountTyped
    <3>6. QED
      BY <1>3, <2>1, <2>3, <3>3, <3>4, <3>5
  <2>4. QED
    BY <1>1, <2>1, <2>2, <2>3 DEF RowMoved
<1>11. RunHasMost'
  BY <1>10 DEF RunHasMost
<1>12. Accounted'
  <2>1. AccountTyped /\ Booked \in [Times -> Nat] /\ Unbooked \in Nat
    BY BookedType DEF AccountTyped
  <2>2. Unbooked' = 0 /\ drawn' = drawn
    BY <1>1, <1>2, <1>3 DEF Unbooked
  <2>3. \A s \in Times : Booked'[s] = IF s = run'.start THEN run'.volume
                                      ELSE IF row'[s].via \in Tier1 THEN row'[s].volume ELSE 0
    BY DEF Booked
  <2>4. \A s \in Times : row[s].via \in Tier1 => row[s].volume <= Booked[s]
    BY <1>3 DEF Booked, RunHasMost
  <2>5. \A s \in Times \ {run'.start} : Booked'[s] <= Booked[s]
    BY <1>9, <2>1, <2>3, <2>4
  <2>6. CASE run'.start = Null
    <3>1. \A s \in Times : Booked'[s] <= Booked[s]
      BY <1>3, <2>5, <2>6
    <3>2. drawn' = drawn + 0 /\ Unbooked' <= Unbooked + 0
      BY <2>1, <2>2 DEF TypeOK
    <3>3. QED
      BY <1>5, <3>1, <3>2, AccountKept
  <2>7. CASE run'.start # Null
    <3>1. run'.start \in Times
      BY <1>4, <2>7
    <3>2. Booked'[run'.start] = run'.volume
      BY <2>3, <3>1
    <3>3. \/ run'.start = run.start /\ run'.volume = run.volume + Unbooked
          \/ run'.volume = Unbooked
      BY <1>1, <2>7 DEF RunMoved, NoRun
    <3>4. run'.start = run.start => Booked[run'.start] = run.volume
      BY <3>1 DEF Booked
    <3>5. Booked[run'.start] \in Nat
      BY <2>1, <3>1
    <3>6. Booked'[run'.start] <= Booked[run'.start] + Unbooked
      BY <2>1, <3>2, <3>3, <3>4, <3>5
    <3>7. QED
      BY <1>5, <2>2, <2>5, <3>1, <3>6, AccountSettled
  <2>8. QED
    BY <2>6, <2>7
<1>13. Loosened'
  <2>1. \A s \in Times : row'[s].excused # Null =>
            row'[s].excused = row[s].excused /\ Target(row'[s]) = Target(row[s])
    BY <1>1 DEF RowMoved, Target
  <2>2. QED
    BY <1>2, <2>1 DEF Loosened
<1>14. OpenIsCurrent'
  BY <1>1 DEF OpenIsCurrent
<1>15. OneWindow'
  <2>1. \A s \in Times, v \in Tier2 :
            row'[s].via = v /\ row'[s].open => row[s].via = v /\ row[s].open
    BY <1>1 DEF RowMoved, Tier1, Tier2
  <2>2. QED
    BY <2>1 DEF OneWindow, OpenVia, Tier2
<1>16. QED
  BY <1>5, <1>6, <1>7, <1>8, <1>11, <1>12, <1>13, <1>14, <1>15


\* A poll of Tier 2 books nothing: the rows of Tier 1 are not its own.
LEMMA CheckWaterBackgroundInv ==
    ASSUME IInv, CheckWaterBackground
    PROVE  IInv'
<1> USE DEF IInv
<1>1. row' \in [Times -> Rows] /\ (\A s \in Times : BackgroundMoved(s)) /\ OneWindow'
  BY BackgroundMoves
<1>2. /\ UNCHANGED <<now, meter, drawn, reading, run, last_meter_value, config, away,
                     away_since, events>>
      /\ pc' = "wait"
  BY DEF CheckWaterBackground, world, detector, household
<1>3. /\ now \in Times /\ now \in Int /\ Times \subseteq Nat /\ row \in [Times -> Rows]
      /\ \A s \in Times : row[s].via \in Tier1 \cup Tier2 \cup {"none"} /\ row[s].seen \in Times
  BY DEF TypeOK, Rows, Times, Vias, Tier1, Tier2
<1>4. WindowVia \in Tier2 /\ Tier1 \cap Tier2 = {} /\ "none" \notin Tier1 \cup Tier2
  BY DEF WindowVia, Tier1, Tier2
<1>5. \A s \in Times : row'[s].via \in Tier1 => row[s].via \in Tier1 /\ row'[s] = row[s]
  BY <1>1, <1>3, <1>4 DEF BackgroundMoved
<1>6. \A s \in Times : row[s].via \in Tier1 => row'[s] = row[s]
  BY <1>1 DEF BackgroundMoved
<1>7. TypeOK'
  BY <1>1, <1>2 DEF TypeOK
<1>8. RowsInOrder'
  <2>1. ASSUME NEW s \in Times
        PROVE  /\ row'[s].via # "none" => s <= now /\ s <= row'[s].seen
               /\ row'[s].via = "none" => ~row'[s].open /\ row'[s].excused = Null
    <3>1. CASE row'[s] = row[s]
      BY <3>1 DEF RowsInOrder
    <3>2. CASE row'[s] # row[s]
      BY <1>1, <1>3, <1>4, <3>2 DEF RowsInOrder, BackgroundMoved
    <3>3. QED
      BY <3>1, <3>2
  <2>2. QED
    BY <1>2, <2>1 DEF RowsInOrder
<1>9. Accounted'
  <2>1. Booked' = Booked
    BY <1>2, <1>5, <1>6 DEF Booked
  <2>2. Unbooked' = Unbooked /\ Unbooked \in Nat
    BY <1>2, BookedType DEF Unbooked, AccountTyped
  <2>3. \A s \in Times : Booked'[s] <= Booked[s]
    BY <2>1, BookedType DEF AccountTyped
  <2>4. drawn' = drawn + 0 /\ Unbooked' <= Unbooked + 0
    BY <1>2, <2>2 DEF TypeOK
  <2>5. QED
    BY <1>7, <2>3, <2>4, AccountKept
<1>10. Loosened'
  <2>1. ASSUME NEW s \in Times, row'[s].excused # Null
        PROVE  /\ row'[s].excused = row[s].excused /\ Target(row'[s]) = Target(row[s])
    <3>1. CASE row'[s] = row[s]
      BY <3>1
    <3>2. CASE row'[s] # row[s]
      BY <1>1, <1>3, <2>1, <3>2 DEF BackgroundMoved, Target
    <3>3. QED
      BY <3>1, <3>2
  <2>2. QED
    BY <1>2, <2>1 DEF Loosened
<1>11. RunInOrder'
  BY <1>2 DEF RunInOrder
<1>12. ReadingStored' /\ NothingBefore' /\ RunHasMost' /\ OpenIsCurrent'
  <2>1. run.start # Null => run.start \in Times
    BY DEF TypeOK
  <2>2. QED
    BY <1>2, <1>5, <2>1 DEF ReadingStored, NothingBefore, RunHasMost, OpenIsCurrent
<1>13. QED
  BY <1>1, <1>7, <1>8, <1>9, <1>10, <1>11, <1>12

\* A detector that raises has closed episodes at most, and books nothing.
LEMMA RaisesOnlyCloses ==
    ASSUME IInv, Raises
    PROVE  OnlyClosed(row, row')
<1>1. row \in [Times -> Rows] /\ run.start \in Times \cup {Null}
  BY DEF IInv, TypeOK
<1>2. OnlyClosed(row, row)
  BY <1>1 DEF OnlyClosed
<1>3. OnlyClosed(row, HalfDone)
  BY <1>1, <1>2, CloseAtCloses, CloseViaCloses DEF HalfDone
<1>4. QED
  BY <1>2, <1>3 DEF Raises

LEMMA RaisesInv ==
    ASSUME IInv, Raises
    PROVE  IInv'
<1> USE DEF IInv
<1>1. OnlyClosed(row, row')
  BY RaisesOnlyCloses
<1>2. /\ UNCHANGED <<now, meter, drawn, reading, run, last_meter_value, config, away, away_since>>
      /\ pc' \in {"wait", "tier2"} /\ events' \in 0..MaxEvents
  BY DetectorAssumption DEF Raises, Event, world, detector, household, TypeOK
<1>3. TypeOK'
  BY <1>1, <1>2 DEF TypeOK, OnlyClosed
<1>4. Accounted'
  <2>1. Booked' = Booked
    BY <1>1, <1>2 DEF Booked, OnlyClosed
  <2>2. Unbooked' = Unbooked /\ Unbooked \in Nat
    BY <1>2, BookedType DEF Unbooked, AccountTyped
  <2>3. \A s \in Times : Booked'[s] <= Booked[s]
    BY <2>1, BookedType DEF AccountTyped
  <2>4. drawn' = drawn + 0 /\ Unbooked' <= Unbooked + 0
    BY <1>2, <2>2 DEF TypeOK
  <2>5. QED
    BY <1>3, <2>3, <2>4, AccountKept
<1>5. RowsInOrder'
  BY <1>1, <1>2, <1>3 DEF RowsInOrder, OnlyClosed, TypeOK, Rows
<1>6. Loosened'
  <2>1. \A s \in Times : row'[s].excused = row[s].excused /\ Target(row'[s]) = Target(row[s])
    BY <1>1 DEF OnlyClosed, Target
  <2>2. QED
    BY <1>2, <2>1 DEF Loosened
<1>7. ReadingStored' /\ RunInOrder' /\ NothingBefore'
  BY <1>2 DEF ReadingStored, RunInOrder, NothingBefore
<1>8. RunHasMost' /\ OpenIsCurrent' /\ OneWindow'
  <2>1. run.start # Null => run.start \in Times
    BY DEF TypeOK
  <2>2. QED
    BY <1>1, <1>2, <2>1 DEF RunHasMost, OpenIsCurrent, OneWindow, OpenVia, OnlyClosed
<1>9. QED
  BY <1>3, <1>4, <1>5, <1>6, <1>7, <1>8

\* What a dismissal does to the rows and the gates.
LEMMA DismissMoves ==
    ASSUME IInv, NEW s \in Times, NEW not_a_leak \in BOOLEAN, Dismiss(s, not_a_leak)
    PROVE  /\ row' \in [Times -> Rows] /\ config' \in [Columns -> Nat]
           /\ \A u \in Times :
                 /\ row'[u].via = row[u].via /\ row'[u].open = row[u].open
                 /\ row'[u].seen = row[u].seen /\ row'[u].volume = row[u].volume
                 /\ row'[u].occupancy = row[u].occupancy
                 /\ \/ row'[u].excused = row[u].excused
                    \/ /\ row[u].via # "none" /\ row'[u].excused \in Nat
                       /\ config'[Target(row[u])] >= row'[u].excused + Margin(Target(row[u]))
           /\ \A c \in Columns : config'[c] >= config[c]
<1> USE DEF IInv
<1>1. /\ row \in [Times -> Rows] /\ row[s] \in Rows /\ config \in [Columns -> Nat]
      /\ row[s].via # "none"
  BY DEF TypeOK, Dismiss
<1> DEFINE measure == Measure(row[s], s)
           column == Target(row[s])
           value == measure + Margin(column)
           e == [row[s] EXCEPT !.acknowledged = TRUE,
                               !.excused = IF not_a_leak THEN measure ELSE row[s].excused]
<1>2. measure \in Nat
  <2>1. row[s].seen \in Nat /\ s \in Nat /\ s <= row[s].seen
    BY <1>1 DEF RowsInOrder, Rows, Times
  <2>2. row[s].seen - s \in Nat /\ row[s].volume \in Nat /\ row[s].peak \in Nat
    BY <1>1, <2>1 DEF Rows
  <2>3. QED
    BY <2>2 DEF Measure
<1>3. column \in Columns /\ Margin(column) \in Nat /\ value \in Nat
  <2>1. column \in Columns
    BY DEF Target, Columns
  <2>2. Margin(column) \in Nat
    BY SeriesAssumption DEF Margin, RateScale
  <2> HIDE DEF measure, column
  <2>3. QED
    BY <1>2, <2>1, <2>2
<1>4. /\ row' = [row EXCEPT ![s] = e]
      /\ config' = IF not_a_leak
                   THEN [config EXCEPT ![column] = IF value > config[column] THEN value
                                                   ELSE config[column]]
                   ELSE config
  <2> HIDE DEF measure
  <2>1. row' = [row EXCEPT ![s] = e]
    BY <1>1 DEF Dismiss, Rows, measure
  <2>2. config' = IF not_a_leak
                   THEN [config EXCEPT ![column] = IF value > config[column] THEN value
                                                   ELSE config[column]]
                   ELSE config
    BY <1>1, <1>3 DEF Dismiss, Nudged, measure
  <2>3. QED
    BY <2>1, <2>2
<1>5. /\ e \in Rows /\ e.via = row[s].via /\ e.open = row[s].open /\ e.seen = row[s].seen
      /\ e.volume = row[s].volume /\ e.occupancy = row[s].occupancy
      /\ e.excused = IF not_a_leak THEN measure ELSE row[s].excused
  <2> HIDE DEF measure
  <2>1. QED
    BY <1>1, <1>2 DEF Rows
<1> HIDE DEF e, measure, column
<1>6. row' \in [Times -> Rows] /\ \A u \in Times \ {s} : row'[u] = row[u]
  BY <1>1, <1>4, <1>5
<1>7. row'[s] = e
  BY <1>1, <1>4
<1>8. CASE ~not_a_leak
  <2>1. config' = config
    BY <1>4, <1>8
  <2>2. \A c \in Columns : config'[c] >= config[c]
    BY <1>1, <2>1
  <2>3. QED
    BY <1>1, <1>5, <1>6, <1>7, <1>8, <2>1, <2>2
<1>9. CASE not_a_leak
  <2>1. config' = [config EXCEPT ![column] = IF value > config[column] THEN value
                                             ELSE config[column]]
    BY <1>4, <1>9
  <2> HIDE DEF value
  <2>2. config' \in [Columns -> Nat]
    BY <1>1, <1>3, <2>1
  <2>3. \A c \in Columns : config'[c] >= config[c]
    BY <1>1, <1>3, <2>1
  <2>4. config'[column] >= value
    BY <1>1, <1>3, <2>1
  <2>5. config'[column] >= e.excused + Margin(column) /\ e.excused \in Nat
    BY <1>2, <1>5, <1>9, <2>4 DEF value
  <2>6. QED
    BY <1>1, <1>5, <1>6, <1>7, <2>2, <2>3, <2>5 DEF column
<1>10. QED
  BY <1>8, <1>9

\* A dismissal leaves its gate above what it excuses, and no gate lower.
LEMMA DismissInv ==
    ASSUME IInv, NEW s \in Times, NEW not_a_leak \in BOOLEAN, Dismiss(s, not_a_leak)
    PROVE  IInv'
<1> USE DEF IInv
<1>1. /\ row' \in [Times -> Rows] /\ config' \in [Columns -> Nat]
      /\ \A u \in Times :
            /\ row'[u].via = row[u].via /\ row'[u].open = row[u].open
            /\ row'[u].seen = row[u].seen /\ row'[u].volume = row[u].volume
            /\ row'[u].occupancy = row[u].occupancy
            /\ \/ row'[u].excused = row[u].excused
               \/ /\ row[u].via # "none" /\ row'[u].excused \in Nat
                  /\ config'[Target(row[u])] >= row'[u].excused + Margin(Target(row[u]))
      /\ \A c \in Columns : config'[c] >= config[c]
  BY DismissMoves
<1>2. /\ UNCHANGED <<now, meter, drawn, reading, run, last_meter_value, away, away_since, pc>>
      /\ events' \in 0..MaxEvents
  BY DetectorAssumption DEF Dismiss, Event, world, detector, household, TypeOK
<1>3. TypeOK'
  BY <1>1, <1>2 DEF TypeOK
<1>4. Accounted'
  <2>1. Booked' = Booked
    BY <1>1, <1>2 DEF Booked
  <2>2. Unbooked' = Unbooked /\ Unbooked \in Nat
    BY <1>2, BookedType DEF Unbooked, AccountTyped
  <2>3. \A u \in Times : Booked'[u] <= Booked[u]
    BY <2>1, BookedType DEF AccountTyped
  <2>4. drawn' = drawn + 0 /\ Unbooked' <= Unbooked + 0
    BY <1>2, <2>2 DEF TypeOK
  <2>5. QED
    BY <1>3, <2>3, <2>4, AccountKept
<1>5. Loosened'
  <2>1. ASSUME NEW u \in Times, row'[u].excused # Null
        PROVE  config'[Target(row'[u])] >= row'[u].excused + Margin(Target(row'[u]))
    <3>1. Target(row'[u]) = Target(row[u]) /\ Target(row[u]) \in Columns
      BY <1>1 DEF Target, Columns
    <3>2. CASE row'[u].excused = row[u].excused
      <4>1. config[Target(row[u])] >= row[u].excused + Margin(Target(row[u]))
        BY <2>1, <3>2 DEF Loosened
      <4>2. /\ config[Target(row[u])] \in Nat /\ config'[Target(row[u])] \in Nat
            /\ row[u].excused \in Nat /\ Margin(Target(row[u])) \in Nat
        <5>1. row[u].excused \in Nat
          BY <2>1, <3>2 DEF TypeOK, Rows
        <5>2. Margin(Target(row[u])) \in Nat
          BY SeriesAssumption DEF Margin, RateScale
        <5>3. QED
          BY <1>1, <3>1, <5>1, <5>2 DEF TypeOK
      <4>3. config'[Target(row[u])] >= config[Target(row[u])]
        BY <1>1, <3>1
      <4>4. QED
        BY <3>1, <3>2, <4>1, <4>2, <4>3
    <3>3. CASE row'[u].excused # row[u].excused
      BY <1>1, <3>1, <3>3
    <3>4. QED
      BY <3>2, <3>3
  <2>2. QED
    BY <2>1 DEF Loosened
<1>6. RowsInOrder'
  <2>1. \A u \in Times : row[u].via = "none" => row'[u].excused = row[u].excused
    BY <1>1
  <2>2. QED
    BY <1>1, <1>2, <2>1 DEF RowsInOrder
<1>7. RunInOrder' /\ ReadingStored' /\ NothingBefore'
  BY <1>2 DEF RunInOrder, ReadingStored, NothingBefore
<1>8. RunHasMost' /\ OpenIsCurrent' /\ OneWindow'
  <2>1. run.start # Null => run.start \in Times
    BY DEF TypeOK
  <2>2. QED
    BY <1>1, <1>2, <2>1 DEF RunHasMost, OpenIsCurrent, OneWindow, OpenVia
<1>9. QED
  BY <1>3, <1>4, <1>5, <1>6, <1>7, <1>8

\* The invariant is inductive.
LEMMA NextInv == IInv /\ [Next]_vars => IInv'
<1> SUFFICES ASSUME IInv, [Next]_vars
             PROVE  IInv'
  OBVIOUS
<1>1. ASSUME NEW d \in Draws, Poll(d) \/ Miss(d)
      PROVE  IInv'
  BY <1>1, AdvanceInv
<1>2. CASE Crash \/ MeterReset \/ \E since \in Times : Move(since)
  BY <1>2, QuietInv
<1>3. CASE CheckWater
  BY <1>3, CheckWaterInv
<1>4. CASE CheckWaterBackground
  BY <1>4, CheckWaterBackgroundInv
<1>5. ASSUME NEW s \in Times, NEW not_a_leak \in BOOLEAN, Dismiss(s, not_a_leak)
      PROVE  IInv'
  BY <1>5, DismissInv
<1>6. CASE UNCHANGED vars
  <2>1. UNCHANGED <<now, meter, drawn, reading, run, last_meter_value, row, config, away,
                    away_since, pc, events>>
    BY <1>6 DEF vars, world, detector, household
  <2>2. Booked' = Booked /\ Unbooked' = Unbooked
    BY <2>1 DEF Booked, Unbooked
  <2>3. Accounted'
    BY <2>1, <2>2 DEF Accounted, IInv
  <2>4. /\ TypeOK' /\ ReadingStored' /\ RunInOrder' /\ NothingBefore' /\ RowsInOrder'
        /\ RunHasMost' /\ Loosened' /\ OpenIsCurrent' /\ OneWindow'
    BY <2>1 DEF IInv, TypeOK, ReadingStored, RunInOrder, NothingBefore, RowsInOrder,
       RunHasMost, Loosened, OpenIsCurrent, OneWindow, OpenVia
  <2>5. QED
    BY <2>3, <2>4 DEF IInv
<1>7. CASE Raises
  BY <1>7, RaisesInv
<1>8. QED
  BY <1>1, <1>2, <1>3, <1>4, <1>5, <1>6, <1>7 DEF Next, Horizon


-----------------------------------------------------------------------------
(* Invariants. *)

\* In every state reached the account of the litres balances, and what goes with it.
THEOREM DetectorSafe == Spec => []IInv
<1>1. QED
  BY InitInv, NextInv, PTL DEF Spec

\* Every variable keeps its type, whatever is missed, lost or dismissed.
THEOREM TypeCorrect == Spec => []TypeOK
<1>1. IInv => TypeOK
  BY DEF IInv
<1>2. QED
  BY <1>1, DetectorSafe, PTL

\* No Tier 1 episode is left open behind a run that ended.
THEOREM NoEpisodeLeftOpen == Spec => []OpenIsCurrent
<1>1. IInv => OpenIsCurrent
  BY DEF IInv
<1>2. QED
  BY <1>1, DetectorSafe, PTL

\* The overnight and the away window are never open together.
THEOREM OneLeakOneWindow == Spec => []OneWindow
<1>1. IInv => OneWindow
  BY DEF IInv
<1>2. QED
  BY <1>1, DetectorSafe, PTL

\* What the rows of Tier 1 report is a part of what is booked.
LEMMA ReportedIsBooked == IInv => NotCountedTwice
<1> SUFFICES ASSUME IInv
             PROVE  NotCountedTwice
  OBVIOUS
<1> DEFINE S == {s \in Times : row[s].via \in Tier1}
           f == [s \in S |-> row[s].volume]
           P(g) == g = [T \in SUBSET S |->
                          IF T = {} THEN 0
                          ELSE row[CHOOSE x \in T : TRUE].volume + g[T \ {CHOOSE x \in T : TRUE}]]
           h == CHOOSE g : P(g)
           reported == MapThenSumSet(LAMBDA s : row[s].volume, S)
<1>1. reported = h[S]
  BY DEF MapThenSumSet, MapThenFoldSet
<1>2. IsFiniteSet(S) /\ \A s \in S : f[s] \in Nat
  <2>1. IsFiniteSet(S)
    BY TimesFinite, FS_Subset
  <2>2. QED
    BY <2>1 DEF IInv, TypeOK, Rows
<1>3. \A g : P(g) <=> Sums(f, S, g)
  <2>1. \A T \in SUBSET S : T # {} => f[First(T)] = row[CHOOSE x \in T : TRUE].volume
    BY FirstIsMember DEF First
  <2>2. QED
    BY <2>1 DEF Sums, First
<1>4. \E g : P(g)
  <2> HIDE DEF P
  <2>1. QED
    BY <1>2, <1>3, SumsExist
<1>5. P(h)
  <2> HIDE DEF P
  <2>1. QED
    BY <1>4
<1>6. Sums(f, S, h)
  <2> HIDE DEF P, h
  <2>1. QED
    BY <1>3, <1>5
<1>7. reported = Total(f, S)
  <2> HIDE DEF h, f, S, reported
  <2>1. QED
    BY <1>1, <1>2, <1>6, TotalIsSums
<1>8. Booked \in [Times -> Nat] /\ Unbooked \in Nat /\ Total(Booked, Times) \in Nat
  BY BookedType DEF IInv, AccountTyped
<1>9. \A s \in S : f[s] <= Booked[s]
  <2>1. \A s \in S : f[s] = row[s].volume /\ row[s].volume \in Nat /\ s \in Times
    BY <1>2
  <2>2. \A s \in S : s = run.start => row[s].volume <= run.volume
    <3>1. Null \notin Times
      BY DEF Null, Times
    <3>2. QED
      BY <3>1 DEF IInv, RunHasMost
  <2>3. QED
    BY <2>1, <2>2 DEF Booked
<1>10. Total(f, S) <= Total(Booked, S) /\ Total(Booked, S) <= Total(Booked, Times)
  <2> S \in SUBSET Times
    OBVIOUS
  <2> HIDE DEF f, S
  <2>1. \A s \in S : f[s] \in Int /\ Booked[s] \in Int /\ f[s] <= Booked[s]
    BY <1>2, <1>8, <1>9
  <2>2. QED
    BY <1>2, <1>8, <2>1, TimesFinite, TotalMonotonic, TotalOfPart
<1>11. Total(f, S) \in Int /\ Total(Booked, S) \in Int /\ drawn \in Nat
  <2> S \in SUBSET Times
    OBVIOUS
  <2>1. drawn \in Nat
    BY DEF IInv, TypeOK
  <2> HIDE DEF f, S
  <2>2. \A s \in S : f[s] \in Int /\ Booked[s] \in Int
    BY <1>2, <1>8
  <2>3. QED
    BY <1>2, <2>1, <2>2, TotalType
<1>12. Total(Booked, Times) + Unbooked <= drawn
  BY DEF IInv, Accounted
<1>13. reported <= drawn
  <2> HIDE DEF reported, f, S
  <2>1. QED
    BY <1>7, <1>8, <1>10, <1>11, <1>12
<1>14. QED
  BY <1>13 DEF NotCountedTwice

\* The litres Tier 1 reports over all its episodes were really drawn.
THEOREM ReportedWasDrawn == Spec => []NotCountedTwice
<1>1. QED
  BY ReportedIsBooked, DetectorSafe, PTL

-----------------------------------------------------------------------------
(* Actions. *)

\* A step that is no poll of either tier and no dismissal leaves the run alone, and
\* the rows too or closes some.
LEMMA OtherSteps ==
    ASSUME IInv, [Next]_vars, ~CheckWater, ~CheckWaterBackground,
           ~\E s \in Times, not_a_leak \in BOOLEAN : Dismiss(s, not_a_leak)
    PROVE  OnlyClosed(row, row') /\ run' = run
<1>1. CASE Raises
  BY <1>1, RaisesOnlyCloses DEF Raises, detector
<1>2. CASE ~Raises
  <2>1. row' = row /\ run' = run
    BY <1>2 DEF Next, Poll, Miss, Advance, Crash, MeterReset, Move, Horizon, vars, world,
       detector, household
  <2>2. QED
    BY <2>1 DEF OnlyClosed, IInv, TypeOK
<1>3. QED
  BY <1>1, <1>2

\* A run never survives a gap longer than StaleGap between its samples.
THEOREM StaleRunsEnd == Spec => RunHasNoStaleGap
<1>1. ASSUME IInv, [Next]_vars, run'.start = run.start, run'.last # run.last
      PROVE  run'.last - run.last <= StaleGap
  <2>1. CASE CheckWater
    <3>1. RunMoved
      BY <1>1, <2>1, CheckWaterMoves
    <3>2. run'.start = Null => run'.last = Null /\ run.last = Null
      <4>1. Null \notin Times
        BY DEF Null, Times
      <4>2. run' = NoRun => run'.last = Null
        BY DEF NoRun
      <4>3. QED
        BY <1>1, <3>1, <4>1, <4>2 DEF RunMoved, IInv, RunInOrder
    <3>3. run'.last = now /\ ~IsStale
      BY <1>1, <3>1, <3>2 DEF RunMoved, NoRun
    <3>4. now - run.last <= StaleGap
      <4>1. run.last \in Times /\ now \in Times /\ run.start # Null
        BY <1>1, <3>2 DEF IInv, RunInOrder, TypeOK
      <4>2. QED
        BY <3>3, <4>1, DetectorAssumption DEF IsStale, Times
    <3>5. QED
      BY <3>3, <3>4
  <2>2. CASE CheckWaterBackground \/ \E s \in Times, n \in BOOLEAN : Dismiss(s, n)
    <3>1. run' = run
      BY <2>2 DEF CheckWaterBackground, Dismiss, detector
    <3>2. QED
      BY <1>1, <3>1
  <2>3. QED
    BY <1>1, <2>1, <2>2, OtherSteps
<1>2. IInv /\ [Next]_vars
         => [run'.start = run.start /\ run'.last # run.last
                => run'.last - run.last <= StaleGap]_vars
  BY <1>1
<1>3. QED
  BY <1>2, DetectorSafe, PTL DEF Spec, RunHasNoStaleGap

\* A background episode opens or resumes only on readings without a hole and with
\* no more idle buckets than the tolerance.
THEOREM BackgroundHasEvidence == Spec => BackgroundEvidence
<1>1. ASSUME IInv, [Next]_vars, pc = "tier2",
             NEW s \in Times, row'[s].via \in Tier2, row'[s].open, ~row[s].open
      PROVE  Evidence(s)
  <2>1. CASE CheckWaterBackground
    BY <1>1, <2>1, BackgroundMoves DEF IInv, BackgroundMoved
  <2>2. ASSUME NEW t \in Times, NEW n \in BOOLEAN, Dismiss(t, n)
        PROVE  FALSE
    BY <1>1, <2>2, DismissMoves
  <2>3. ~CheckWater
    BY <1>1 DEF CheckWater
  <2>4. ~OnlyClosed(row, row')
    BY <1>1 DEF OnlyClosed
  <2>5. QED
    BY <1>1, <2>1, <2>2, <2>3, <2>4, OtherSteps
<1>2. IInv /\ [Next]_vars
         => [pc = "tier2" => \A s \in Times :
                row'[s].via \in Tier2 /\ row'[s].open /\ ~row[s].open => Evidence(s)]_vars
  BY <1>1
<1>3. QED
  BY <1>2, DetectorSafe, PTL DEF Spec, BackgroundEvidence, Evidence

\* A row keeps its gate and its occupancy, and its volume never falls but for a
\* background episode on whose start a run of Tier 1 began too.
THEOREM RowsKeepTheirGate == Spec => RowKeepsGate
<1>1. ASSUME IInv, [Next]_vars, NEW s \in Times, row[s].via # "none"
      PROVE  /\ row'[s].via = row[s].via /\ row'[s].occupancy = row[s].occupancy
             /\ \/ row'[s].volume >= row[s].volume
                \/ row[s].via \in Tier2 /\ run'.start = s
  <2>1. row[s].via \in Tier1 \cup Tier2 /\ row[s].volume \in Nat /\ Null \notin Times
    BY <1>1 DEF IInv, TypeOK, Rows, Vias, Tier1, Tier2, Null, Times
  <2>2. CASE CheckWater
    <3>1. RunMoved /\ RowMoved(s) /\ pc = "tier1"
      BY <1>1, <2>2, CheckWaterMoves DEF CheckWater
    <3>2. row'[s].via = row[s].via /\ row'[s].occupancy = row[s].occupancy
      BY <1>1, <3>1 DEF RowMoved
    <3>3. CASE row'[s].volume = row[s].volume
      BY <2>1, <3>2, <3>3
    <3>4. CASE s = run'.start /\ row'[s].volume = run'.volume
      <4>1. CASE row[s].via \in Tier2
        BY <3>2, <3>4, <4>1
      <4>2. CASE row[s].via \in Tier1
        <5>1. s < now /\ now \in Int /\ s \in Int
          BY <1>1, <3>1 DEF IInv, RowsInOrder, TypeOK, Times
        <5>2. run.start = s /\ run'.volume = run.volume + Unbooked
          BY <2>1, <3>1, <3>4, <5>1 DEF RunMoved, NoRun
        <5>3. row[s].volume <= run.volume /\ run.volume \in Nat
          BY <1>1, <2>1, <4>2, <5>2 DEF IInv, RunHasMost, TypeOK
        <5>4. Unbooked \in Nat
          BY <1>1, BookedType DEF IInv, AccountTyped
        <5>5. QED
          BY <2>1, <3>2, <3>4, <5>2, <5>3, <5>4
      <4>3. QED
        BY <2>1, <4>1, <4>2
    <3>5. QED
      BY <1>1, <3>1, <3>3, <3>4 DEF RowMoved
  <2>3. CASE CheckWaterBackground
    <3>1. BackgroundMoved(s)
      BY <1>1, <2>3, BackgroundMoves DEF IInv
    <3>2. QED
      BY <2>1, <3>1 DEF BackgroundMoved
  <2>4. ASSUME NEW t \in Times, NEW n \in BOOLEAN, Dismiss(t, n)
        PROVE  /\ row'[s].via = row[s].via /\ row'[s].occupancy = row[s].occupancy
               /\ row'[s].volume >= row[s].volume
    BY <1>1, <2>1, <2>4, DismissMoves
  <2>5. CASE OnlyClosed(row, row')
    BY <2>1, <2>5 DEF OnlyClosed
  <2>6. QED
    BY <1>1, <2>2, <2>3, <2>4, <2>5, OtherSteps
<1>2. IInv /\ [Next]_vars
         => [\A s \in Times : row[s].via # "none" =>
                /\ row'[s].via = row[s].via /\ row'[s].occupancy = row[s].occupancy
                /\ \/ row'[s].volume >= row[s].volume
                   \/ row[s].via \in Tier2 /\ run'.start = s]_vars
  BY <1>1
<1>3. QED
  BY <1>2, DetectorSafe, PTL DEF Spec, RowKeepsGate

\* What a gate that fires at a poll of Tier 1 measures has reached its column.
LEMMA GateReached ==
    ASSUME NEW e \in Rows, NEW s \in Times,
           e.via \in Tier1, e.occupancy = (IF away THEN "away" ELSE "home"),
           e.via = FiredVia(s, e.volume, e.peak)
    PROVE  Measure(e, s) >= config[Target(e)]
BY DEF FiredVia, Measure, Target, Tier1

\* An episode that opens measures more than every one dismissed through its gate
\* (a window of Tier 2, at least as much).
THEOREM ExcusedIsQuiet == Spec => ExcusedStaysQuiet
<1>1. ASSUME IInv, [Next]_vars, NEW s \in Times, row[s].via = "none", row'[s].via # "none",
             NEW u \in Times, row[u].excused # Null, Target(row'[s]) = Target(row[u])
      PROVE  \/ Measure(row'[s], s) > row[u].excused
             \/ row[u].via \in Tier2 /\ Measure(row'[s], s) >= row[u].excused
  <2> DEFINE column == Target(row[u])
  <2>1. /\ config[column] >= row[u].excused + Margin(column)
        /\ config[column] \in Nat /\ row[u].excused \in Nat
        /\ row[u].via \in Tier1 \cup Tier2
    <3>1. config[column] >= row[u].excused + Margin(column)
      BY <1>1 DEF IInv, Loosened
    <3>2. column \in Columns
      BY DEF Target, Columns
    <3>3. row[u].excused \in Nat /\ row[u].via # "none" /\ row[u].via \in Vias
      BY <1>1 DEF IInv, TypeOK, Rows, RowsInOrder
    <3>4. QED
      BY <1>1, <3>1, <3>2, <3>3 DEF IInv, TypeOK, Vias, Tier1, Tier2
  <2>2. CASE CheckWater
    <3>1. RowMoved(s) /\ row' \in [Times -> Rows]
      BY <1>1, <2>2, CheckWaterMoves
    <3>2. /\ row'[s].via \in Tier1 /\ row'[s] \in Rows
          /\ row'[s].occupancy = (IF away THEN "away" ELSE "home")
          /\ row'[s].via = FiredVia(s, row'[s].volume, row'[s].peak)
      BY <1>1, <3>1 DEF RowMoved
    <3>3. Measure(row'[s], s) >= config[column]
      BY <1>1, <3>2, GateReached
    <3>4. Margin(column) \in Nat \ {0}
      BY SeriesAssumption DEF Margin, RateScale
    <3>5. Measure(row'[s], s) \in Nat
      BY <3>2 DEF Measure, Tier1, Rows
    <3> HIDE DEF column
    <3>6. QED
      BY <2>1, <3>3, <3>4, <3>5
  <2>3. CASE CheckWaterBackground
    <3>1. BackgroundMoved(s)
      BY <1>1, <2>3, BackgroundMoves DEF IInv
    <3>2. /\ row'[s].via = WindowVia /\ row'[s].seen = now /\ s <= now
          /\ now - s + BucketLen >= config[column]
      BY <1>1, <3>1 DEF BackgroundMoved
    <3>3. row'[s].via \in Tier2 /\ Measure(row'[s], s) = now - s
      BY <3>2 DEF WindowVia, Tier2, Measure
    <3>4. column \in {"t2_night", "t2_away"} /\ row[u].via \in Tier2
      BY <1>1, <2>1, <3>3 DEF Target, Tier1, Tier2
    <3>5. Margin(column) = BucketLen
      BY <3>4 DEF Margin
    <3>6. BucketLen \in Nat /\ now \in Nat /\ s \in Nat
      BY <1>1, SeriesAssumption DEF IInv, TypeOK, Times
    <3> HIDE DEF column
    <3>7. QED
      BY <2>1, <3>2, <3>3, <3>4, <3>5, <3>6
  <2>4. ASSUME NEW t \in Times, NEW n \in BOOLEAN, Dismiss(t, n)
        PROVE  FALSE
    BY <1>1, <2>4, DismissMoves
  <2>5. ~OnlyClosed(row, row')
    BY <1>1 DEF OnlyClosed
  <2>6. QED
    BY <1>1, <2>2, <2>3, <2>4, <2>5, OtherSteps
<1>2. IInv /\ [Next]_vars
         => [\A s \in Times : row[s].via = "none" /\ row'[s].via # "none" =>
                \A u \in Times : row[u].excused # Null /\ Target(row'[s]) = Target(row[u])
                   => \/ Measure(row'[s], s) > row[u].excused
                      \/ row[u].via \in Tier2 /\ Measure(row'[s], s) >= row[u].excused]_vars
  BY <1>1
<1>3. QED
  BY <1>2, DetectorSafe, PTL DEF Spec, ExcusedStaysQuiet

=============================================================================
