--------------------------- MODULE Aggregate_proofs ----------------------------
(***************************************************************************)
(* What aggregate.py computes, for any readings and any log: the daily     *)
(* totals (DailyUsage) and the number of people at home (Occupancy).       *)
(*                                                                         *)
(* The totals rest on one fact about clean_cumulative_glitches: of two     *)
(* points it keeps, none between, the later one is the one kept after the  *)
(* earlier.  The intervals of a series then form a chain, and the sum over *)
(* the intervals of a day is the difference of its ends.                   *)
(***************************************************************************)
EXTENDS DailyUsage, Occupancy, SetFacts, FunctionTheorems

-----------------------------------------------------------------------------
(* One series: a function on finitely many times. *)

Series(p) == /\ IsFiniteSet(DOMAIN p) /\ DOMAIN p \subseteq Nat
             /\ \A t \in DOMAIN p : p[t] \in Nat

\* Cleaned(p, K): K are the points to which kept is true.
Cleaned(p, K) == K = {t \in DOMAIN p : \A s \in K : s < t => KeptAfter(p, s) <= t}

Numbers(S) == IsFiniteSet(S) /\ S \subseteq Nat /\ S # {}

\* A finite set of numbers has a least and a largest member.
LEMMA EndsExist ==
    ASSUME NEW S, Numbers(S)
    PROVE  /\ Min(S) \in S /\ \A x \in S : Min(S) <= x
           /\ \E m \in S : \A x \in S : x <= m
  <1>1. \E m \in S : \A x \in S : x <= m
    <2>. DEFINE C == {T \in SUBSET S : T # {} /\ ~\E m \in T : \A x \in T : x <= m}
    <2>. SUFFICES ASSUME C # {} PROVE FALSE
      BY DEF Numbers
    <2>2. PICK T \in C : \A U \in C : U \subseteq T => U = T
      <3>1. C \subseteq SUBSET S /\ IsFiniteSet(S)
        BY DEF Numbers
      <3>. HIDE DEF C
      <3>. QED BY <3>1, MinimalSubset
    <2>3. PICK a \in T : TRUE
      OBVIOUS
    <2>4. CASE T = {a}
      <3>1. a \in Nat
        BY <2>3 DEF Numbers
      <3>. QED BY <2>4, <3>1
    <2>5. CASE T # {a}
      <3>1. T \ {a} \notin C /\ T \ {a} # {} /\ T \ {a} \in SUBSET S
        BY <2>2, <2>3, <2>5
      <3>2. PICK m \in T \ {a} : \A x \in T \ {a} : x <= m
        BY <3>1
      <3>3. a \in Nat /\ m \in Nat /\ \A x \in T : x \in Nat
        BY <3>2 DEF Numbers
      <3>4. (IF a <= m THEN m ELSE a) \in T /\ \A x \in T : x <= (IF a <= m THEN m ELSE a)
        BY <2>3, <3>2, <3>3
      <3>. QED BY <3>4
    <2>. QED BY <2>4, <2>5
  <1>2. PICK m \in S : \A x \in S : x <= m
    BY <1>1
  <1>3. S \subseteq 0..m /\ m \in Int /\ 0 \in Int
    BY <1>2 DEF Numbers
  <1>. QED BY <1>1, <1>3, MinIsSmallest DEF Numbers

\* The point kept after t is a later one.
LEMMA KeptAfterType ==
    ASSUME NEW p, Series(p), NEW t \in DOMAIN p, After(p, t) # {}
    PROVE  /\ KeptAfter(p, t) \in DOMAIN p /\ KeptAfter(p, t) > t
           /\ \/ p[KeptAfter(p, t)] >= p[t]
              \/ /\ \A s \in DOMAIN p : s > t => KeptAfter(p, t) <= s
                 /\ \A s \in DOMAIN p : s > t /\ s <= KeptAfter(p, t) + Lookahead => p[s] < p[t]
           /\ p[t] = 0 => \A s \in DOMAIN p : s > t => KeptAfter(p, t) <= s
  <1>. DEFINE after == After(p, t)
              next == Min(after)
              back == {s \in after : s <= next + Lookahead /\ p[s] >= p[t]}
  <1>1. after # {} /\ after \subseteq DOMAIN p /\ \A s \in DOMAIN p : s \in after <=> s > t
    BY DEF After
  <1>2. IsFiniteSet(after) /\ after \subseteq Nat
    BY <1>1, FS_Subset DEF Series
  <1>3. next \in after /\ \A s \in after : next <= s
    <2>. HIDE DEF after
    <2>. QED BY <1>1, <1>2, EndsExist DEF Numbers
  <1>4. KeptAfter(p, t) = IF back = {} THEN next ELSE Min(back)
    BY DEF KeptAfter
  <1>5. \A s \in DOMAIN p : s \in Nat /\ p[s] \in Nat
    BY DEF Series
  <1>6. Lookahead \in Nat
    BY DEF Lookahead, MinutesPerDay
  <1>. HIDE DEF after, next
  <1>7. CASE back = {}
    <2>1. KeptAfter(p, t) = next
      BY <1>4, <1>7
    <2>2. \A s \in DOMAIN p : s > t /\ s <= next + Lookahead => p[s] < p[t]
      BY <1>1, <1>5, <1>7
    <2>3. p[next] < p[t]
      BY <1>1, <1>3, <1>5, <1>6, <2>2
    <2>. QED BY <1>1, <1>3, <1>5, <2>1, <2>2, <2>3
  <1>8. CASE back # {}
    <2>1. back \subseteq after /\ IsFiniteSet(back) /\ back \subseteq Nat
      BY <1>2, FS_Subset
    <2>2. Min(back) \in back /\ \A s \in back : Min(back) <= s
      <3>. HIDE DEF back
      <3>. QED BY <1>8, <2>1, EndsExist DEF Numbers
    <2>3. KeptAfter(p, t) = Min(back)
      BY <1>4, <1>8
    <2>4. p[t] = 0 => next \in back
      BY <1>1, <1>3, <1>5, <1>6
    <2>5. KeptAfter(p, t) \in after /\ p[KeptAfter(p, t)] >= p[t]
      BY <2>2, <2>3
    <2>6. p[t] = 0 => \A s \in after : KeptAfter(p, t) <= s
      <3>1. p[t] = 0 => KeptAfter(p, t) <= next
        BY <2>2, <2>3, <2>4
      <3>. QED BY <1>1, <1>3, <1>5, <2>5, <3>1
    <2>. QED BY <1>1, <2>5, <2>6
  <1>. QED BY <1>7, <1>8

\* Whatever the points, one set of them is kept: the points are decided one after another.
LEMMA CleanedExists ==
    ASSUME NEW p, Series(p)
    PROVE  \E k : k = [t \in DOMAIN p |-> \A s \in DOMAIN p : s < t /\ k[s] => KeptAfter(p, s) <= t]
  <1>. DEFINE S == DOMAIN p
              Good(T, k) == k = [t \in T |-> \A s \in T : s < t /\ k[s] => KeptAfter(p, s) <= t]
              C == {T \in SUBSET S : ~\E k : Good(T, k)}
  <1>. SUFFICES ASSUME C # {} PROVE FALSE
    OBVIOUS
  <1>2. IsFiniteSet(S)
    BY DEF Series
  <1>3. PICK T \in C : \A U \in C : U \subseteq T => U = T
    <2>1. C \subseteq SUBSET S
      OBVIOUS
    <2>. HIDE DEF S, C
    <2>. QED BY <1>2, <2>1, MinimalSubset
  <1>4. CASE T = {}
    <2>. DEFINE k == [t \in T |-> TRUE]
    <2>1. Good(T, k)
      BY <1>4
    <2>. QED BY <2>1
  <1>5. CASE T # {}
    <2>1. IsFiniteSet(T) /\ T \subseteq Nat
      BY <1>2, FS_Subset DEF Series
    <2>2. PICK m \in T : \A x \in T : x <= m
      BY <1>5, <2>1, EndsExist DEF Numbers
    <2>3. T \ {m} \in SUBSET S /\ T \ {m} # T
      BY <1>3
    <2>4. PICK k : Good(T \ {m}, k)
      BY <1>3, <2>3
    <2>. DEFINE h == [t \in T |-> IF t = m THEN \A s \in T \ {m} : k[s] => KeptAfter(p, s) <= m
                                  ELSE k[t]]
    <2>5. \A s \in T \ {m} : s < m /\ s \in Nat /\ m \in Nat
      BY <2>1, <2>2
    <2>6. \A t \in T : h[t] = \A s \in T : s < t /\ h[s] => KeptAfter(p, s) <= t
      <3>. SUFFICES ASSUME NEW t \in T
                    PROVE  h[t] = \A s \in T : s < t /\ h[s] => KeptAfter(p, s) <= t
        OBVIOUS
      <3>1. CASE t = m
        <4>1. h[t] = \A s \in T \ {m} : k[s] => KeptAfter(p, s) <= m
          BY <3>1
        <4>2. \A s \in T \ {m} : h[s] = k[s] /\ s < m
          BY <2>5
        <4>3. ~(m < m)
          BY <2>1
        <4>. HIDE DEF h
        <4>. QED BY <3>1, <4>1, <4>2, <4>3
      <3>2. CASE t # m
        <4>1. h[t] = k[t] /\ ~(m < t)
          BY <2>5, <3>2
        <4>2. k[t] = \A s \in T \ {m} : s < t /\ k[s] => KeptAfter(p, s) <= t
          BY <2>4, <3>2
        <4>. QED BY <4>1, <4>2
      <3>. QED BY <3>1, <3>2
    <2>7. Good(T, h)
      <3>1. h = [t \in T |-> h[t]]
        OBVIOUS
      <3>. HIDE DEF h
      <3>. QED BY <2>6, <3>1
    <2>. HIDE DEF h
    <2>. QED BY <2>7
  <1>. QED BY <1>4, <1>5

\* So what is kept is what its definition says.
LEMMA CleanGlitchesIsCleaned ==
    ASSUME NEW p, Series(p)
    PROVE  Cleaned(p, CleanGlitches(p))
  <1>. DEFINE k == CHOOSE k : k = [t \in DOMAIN p |->
                                      \A s \in DOMAIN p : s < t /\ k[s] => KeptAfter(p, s) <= t]
  <1>1. k = [t \in DOMAIN p |-> \A s \in DOMAIN p : s < t /\ k[s] => KeptAfter(p, s) <= t]
    BY CleanedExists
  <1>2. CleanGlitches(p) = {t \in DOMAIN p : k[t]}
    BY DEF CleanGlitches
  <1>. HIDE DEF k
  <1>. QED BY <1>1, <1>2 DEF Cleaned

\* Of kept points the next one is the one kept after.
LEMMA Chain ==
    ASSUME NEW p, Series(p), NEW t \in CleanGlitches(p), After(p, t) # {}
    PROVE  /\ KeptAfter(p, t) \in CleanGlitches(p) /\ KeptAfter(p, t) > t
           /\ \A s \in CleanGlitches(p) : s > t => KeptAfter(p, t) <= s
  <1>. DEFINE K == CleanGlitches(p)
              next == KeptAfter(p, t)
  <1>1. K = {u \in DOMAIN p : \A s \in K : s < u => KeptAfter(p, s) <= u}
    BY CleanGlitchesIsCleaned DEF Cleaned
  <1>2. K \subseteq DOMAIN p /\ t \in K /\ \A s \in K : s \in Nat
    <2>1. K \subseteq DOMAIN p
      BY <1>1
    <2>. QED BY <2>1 DEF Series
  <1>3. next \in DOMAIN p /\ next > t /\ next \in Nat
    BY <1>2, KeptAfterType DEF Series
  <1>. HIDE DEF K
  <1>4. \A s \in K : s > t => next <= s
    BY <1>1, <1>2
  <1>5. ASSUME NEW s \in K, s < next PROVE KeptAfter(p, s) <= next
    <2>1. CASE s = t
      BY <1>3, <2>1
    <2>2. CASE s < t
      <3>1. After(p, s) # {}
        BY <1>2, <2>2 DEF After
      <3>2. KeptAfter(p, s) \in Nat
        BY <1>2, <3>1, KeptAfterType DEF Series
      <3>3. KeptAfter(p, s) <= t
        BY <1>1, <1>2, <2>2
      <3>. QED BY <1>2, <1>3, <3>2, <3>3
    <2>3. CASE s > t
      BY <1>2, <1>3, <1>4, <1>5, <2>3
    <2>. QED BY <1>2, <2>1, <2>2, <2>3
  <1>6. next \in K
    BY <1>1, <1>3, <1>5
  <1>. QED BY <1>3, <1>4, <1>6 DEF K

\* The first point is kept.
LEMMA FirstIsKept ==
    ASSUME NEW p, Series(p), DOMAIN p # {}
    PROVE  Min(DOMAIN p) \in CleanGlitches(p) /\ \A t \in DOMAIN p : Min(DOMAIN p) <= t
  <1>1. CleanGlitches(p) =
            {t \in DOMAIN p : \A s \in CleanGlitches(p) : s < t => KeptAfter(p, s) <= t}
    BY CleanGlitchesIsCleaned DEF Cleaned
  <1>2. Min(DOMAIN p) \in DOMAIN p /\ \A t \in DOMAIN p : Min(DOMAIN p) <= t
    BY EndsExist DEF Numbers, Series
  <1>3. \A s \in CleanGlitches(p) : ~(s < Min(DOMAIN p))
    <2>1. CleanGlitches(p) \subseteq DOMAIN p
      BY <1>1
    <2>. QED BY <1>2, <2>1 DEF Series
  <1>. QED BY <1>1, <1>2, <1>3

\* The intervals are those between neighbouring kept points.
LEMMA IntervalsAre ==
    ASSUME NEW p, Series(p), NEW x \in Intervals(p)
    PROVE  /\ x[1].t \in CleanGlitches(p) /\ x[1].t \in DOMAIN p /\ x[1].t \in Nat
           /\ x[1].v = p[x[1].t] /\ x[1].v \in Nat
           /\ After(p, x[1].t) # {} /\ x[2].t = KeptAfter(p, x[1].t)
           /\ x[2].t \in CleanGlitches(p) /\ x[2].t \in DOMAIN p /\ x[2].t \in Nat
           /\ x[2].t > x[1].t
           /\ x[2].v = p[x[2].t] /\ x[2].v \in Nat
           /\ x = <<[t |-> x[1].t, v |-> p[x[1].t]], [t |-> x[2].t, v |-> p[x[2].t]]>>
  <1>1. PICK s \in CleanGlitches(p) :
           /\ After(p, s) # {}
           /\ x = <<[t |-> s, v |-> p[s]], [t |-> KeptAfter(p, s), v |-> p[KeptAfter(p, s)]]>>
    BY DEF Intervals
  <1>2. CleanGlitches(p) \subseteq DOMAIN p
    BY CleanGlitchesIsCleaned DEF Cleaned
  <1>3. KeptAfter(p, s) \in CleanGlitches(p) /\ KeptAfter(p, s) > s
    BY <1>1, Chain
  <1>4. x[1].t = s /\ x[1].v = p[s] /\ x[2].t = KeptAfter(p, s) /\ x[2].v = p[KeptAfter(p, s)]
    BY <1>1
  <1>. QED BY <1>1, <1>2, <1>3, <1>4 DEF Series

\* One interval begins at each kept point but the last.
LEMMA IntervalAt ==
    ASSUME NEW p, Series(p), NEW s \in CleanGlitches(p), NEW u \in DOMAIN p, u > s
    PROVE  \E x \in Intervals(p) : x[1].t = s
  <1>1. u \in After(p, s)
    BY DEF After
  <1>. DEFINE x == <<[t |-> s, v |-> p[s]], [t |-> KeptAfter(p, s), v |-> p[KeptAfter(p, s)]]>>
  <1>2. x \in Intervals(p)
    BY <1>1 DEF Intervals
  <1>3. x[1].t = s
    OBVIOUS
  <1>. HIDE DEF x
  <1>. QED BY <1>2, <1>3

\* An interval that begins before another one ends before it begins, or there.
LEMMA IntervalsInOrder ==
    ASSUME NEW p, Series(p), NEW x \in Intervals(p), NEW y \in Intervals(p)
    PROVE  /\ x[1].t < y[1].t => x[2].t <= y[1].t
           /\ x[1].t = y[1].t => x = y
  <1>1. x[1].t < y[1].t => x[2].t <= y[1].t
    <2>1. /\ x[1].t \in CleanGlitches(p) /\ After(p, x[1].t) # {} /\ x[2].t = KeptAfter(p, x[1].t)
          /\ y[1].t \in CleanGlitches(p) /\ x[1].t \in Nat /\ y[1].t \in Nat
      BY IntervalsAre
    <2>. QED BY <2>1, Chain
  <1>2. x[1].t = y[1].t => x = y
    <2>1. /\ x = <<[t |-> x[1].t, v |-> p[x[1].t]], [t |-> x[2].t, v |-> p[x[2].t]]>>
          /\ x[2].t = KeptAfter(p, x[1].t)
      BY IntervalsAre
    <2>2. /\ y = <<[t |-> y[1].t, v |-> p[y[1].t]], [t |-> y[2].t, v |-> p[y[2].t]]>>
          /\ y[2].t = KeptAfter(p, y[1].t)
      BY IntervalsAre
    <2>. QED BY <2>1, <2>2
  <1>. QED BY <1>1, <1>2

\* There are finitely many.
LEMMA IntervalsFinite ==
    ASSUME NEW p, Series(p)
    PROVE  IsFiniteSet(Intervals(p))
  <1>. DEFINE start == [x \in Intervals(p) |-> x[1].t]
  <1>1. start \in Injection(Intervals(p), DOMAIN p)
    <2>1. start \in [Intervals(p) -> DOMAIN p]
      BY IntervalsAre
    <2>2. \A x, y \in Intervals(p) : start[x] = start[y] => x = y
      BY IntervalsInOrder
    <2>. HIDE DEF start
    <2>. QED BY <2>1, <2>2, Fun_IsInj
  <1>. HIDE DEF start
  <1>. QED BY <1>1, FS_Injection DEF Series

-----------------------------------------------------------------------------
(* What intervals are charged together. *)

Charge(X) == MapThenSumSet(LAMBDA x : x[2].v - x[1].v, X)
Gains(X) == [x \in X |-> x[2].v - x[1].v]

\* The charge is the sum of the gains.
LEMMA ChargeIsTotal ==
    ASSUME NEW X, IsFiniteSet(X)
    PROVE  Charge(X) = Total(Gains(X), X)
  <1>. DEFINE Adds(g) == g = [s \in SUBSET X |->
                                IF s = {} THEN 0
                                ELSE (First(s)[2].v - First(s)[1].v) + g[s \ {First(s)}]]
              chosen == CHOOSE g : Adds(g)
  <1>1. ASSUME NEW g PROVE Adds(g) <=> Sums(Gains(X), X, g)
    <2>1. \A s \in SUBSET X : s # {} => Gains(X)[First(s)] = First(s)[2].v - First(s)[1].v
      BY FirstIsMember DEF Gains
    <2>. QED BY <2>1 DEF Sums
  <1>2. \E g : Adds(g)
    BY <1>1, SumsExist
  <1>3. Charge(X) = chosen[X]
    BY DEF Charge, MapThenSumSet, MapThenFoldSet, First
  <1>4. Adds(chosen)
    <2>. HIDE DEF Adds
    <2>. QED BY <1>2
  <1>5. Sums(Gains(X), X, chosen)
    <2>. HIDE DEF Adds, chosen
    <2>. QED BY <1>1, <1>4
  <1>. HIDE DEF chosen
  <1>. QED BY <1>3, <1>5, TotalIsSums

\* Stretch(p, a, b): the intervals from a to b.
Stretch(p, a, b) == {z \in Intervals(p) : a[1].t <= z[1].t /\ z[1].t <= b[1].t}

\* The gains of a stretch are the difference of its ends.
LEMMA Telescopes ==
    ASSUME NEW p, Series(p), NEW a \in Intervals(p), NEW b \in Intervals(p), a[1].t <= b[1].t
    PROVE  Charge(Stretch(p, a, b)) = b[2].v - a[1].v
  <1>. DEFINE I == Intervals(p)
              f == Gains(I)
              C == {T \in SUBSET I : \E u, w \in T : /\ T = Stretch(p, u, w)
                                                     /\ Total(f, T) # w[2].v - u[1].v}
  <1>1. IsFiniteSet(I)
    BY IntervalsFinite
  <1>2. \A x \in I : f[x] = x[2].v - x[1].v /\ f[x] \in Int
    BY IntervalsAre DEF Gains
  <1>3. \A x \in I : x[1].t \in Nat /\ x[2].t \in Nat /\ x[1].v \in Nat /\ x[2].v \in Nat
    BY IntervalsAre
  <1>4. C = {}
    <2>. SUFFICES ASSUME C # {} PROVE FALSE
      OBVIOUS
    <2>1. PICK T \in C : \A U \in C : U \subseteq T => U = T
      <3>1. C \subseteq SUBSET I
        OBVIOUS
      <3>. HIDE DEF C, I
      <3>. QED BY <1>1, <3>1, MinimalSubset
    <2>2. PICK u, w \in T : T = Stretch(p, u, w) /\ Total(f, T) # w[2].v - u[1].v
      OBVIOUS
    <2>3. u \in I /\ w \in I /\ u[1].t <= w[1].t /\ T \subseteq I
      BY <2>2 DEF Stretch
    <2>4. IsFiniteSet(T)
      BY <1>1, <2>3, FS_Subset
    <2>. HIDE DEF f
    <2>5. Total(f, T) = (u[2].v - u[1].v) + Total(f, T \ {u})
      <3>1. \A x \in T : f[x] \in Int
        BY <1>2, <2>3
      <3>2. Total(f, T) = f[u] + Total(f, T \ {u})
        BY <2>4, <3>1, TotalRemove
      <3>. QED BY <1>2, <2>3, <3>2
    <2>6. CASE u = w
      <3>1. \A z \in T : z[1].t = u[1].t
        BY <1>3, <2>2, <2>3, <2>6 DEF Stretch
      <3>2. T \ {u} = {}
        BY <2>3, <3>1, IntervalsInOrder
      <3>3. Total(f, T \ {u}) = 0
        BY <3>2, TotalOfNone
      <3>4. Total(f, T) = u[2].v - u[1].v
        BY <1>3, <2>3, <2>5, <3>3
      <3>. QED BY <2>2, <2>6, <3>4
    <2>7. CASE u # w
      <3>1. u[1].t < w[1].t /\ u[2].t <= w[1].t /\ w[1].t < w[2].t
        BY <1>3, <2>3, <2>7, IntervalsInOrder, IntervalsAre
      <3>2. PICK n \in I : n[1].t = u[2].t
        <4>1. u[2].t \in CleanGlitches(p) /\ w[2].t \in DOMAIN p /\ w[2].t > u[2].t
          BY <1>3, <2>3, <3>1, IntervalsAre
        <4>. QED BY <4>1, IntervalAt
      <3>3. n[1].v = u[2].v
        BY <2>3, <3>2, IntervalsAre
      <3>4. u[1].t < u[2].t
        BY <2>3, IntervalsAre
      <3>5. T \ {u} = Stretch(p, n, w)
        <4>1. ASSUME NEW z \in T \ {u} PROVE z \in Stretch(p, n, w)
          <5>1. z \in I /\ u[1].t <= z[1].t /\ z[1].t <= w[1].t
            BY <2>2 DEF Stretch
          <5>2. u[1].t < z[1].t
            BY <1>3, <2>3, <5>1, IntervalsInOrder
          <5>. QED BY <2>3, <3>2, <5>1, <5>2, IntervalsInOrder DEF Stretch
        <4>2. ASSUME NEW z \in Stretch(p, n, w) PROVE z \in T \ {u}
          <5>1. z \in I /\ u[2].t <= z[1].t /\ z[1].t <= w[1].t
            BY <3>2 DEF Stretch
          <5>2. u[1].t <= z[1].t /\ z # u
            BY <1>3, <2>3, <3>4, <5>1
          <5>. QED BY <2>2, <5>1, <5>2 DEF Stretch
        <4>. QED BY <4>1, <4>2
      <3>6. n \in T \ {u} /\ w \in T \ {u}
        BY <1>3, <2>3, <3>1, <3>2, <3>5 DEF Stretch
      <3>7. Total(f, T \ {u}) = w[2].v - n[1].v
        <4>1. T \ {u} \notin C
          BY <2>1, <2>2
        <4>2. T \ {u} \in SUBSET I
          BY <2>3
        <4>. QED BY <3>5, <3>6, <4>1, <4>2
      <3>. QED BY <1>3, <2>2, <2>3, <2>5, <3>3, <3>7
    <2>. QED BY <2>6, <2>7
  <1>. DEFINE T == Stretch(p, a, b)
  <1>5. T \in SUBSET I /\ a \in T /\ b \in T
    BY <1>3 DEF Stretch
  <1>6. Total(f, T) = b[2].v - a[1].v
    <2>. HIDE DEF f
    <2>. QED BY <1>4, <1>5
  <1>7. IsFiniteSet(T) /\ Charge(T) = Total(Gains(T), T)
    BY <1>1, <1>5, FS_Subset, ChargeIsTotal
  <1>8. Total(Gains(T), T) = Total(f, T)
    <2>1. \A x \in T : Gains(T)[x] = f[x]
      BY <1>5 DEF Gains
    <2>. HIDE DEF T, f
    <2>. QED BY <1>7, <2>1, TotalSame
  <1>. QED BY <1>6, <1>7, <1>8

\* The intervals that begin on day d, the first and the last of them.
Own(p, d) == {x \in Intervals(p) : DayOf(x[1].t) = d}
FirstOf(X) == CHOOSE x \in X : \A y \in X : x[1].t <= y[1].t
LastOf(X) == CHOOSE x \in X : \A y \in X : x[1].t >= y[1].t

\* Days pass in order.
LEMMA DaysInOrder == \A s, t \in Nat : s <= t => DayOf(s) <= DayOf(t) /\ DayOf(s) \in Nat
  <1>1. \A s, t \in Nat : s <= t => s \div MinutesPerDay <= t \div MinutesPerDay
    BY QuotientGrows DEF MinutesPerDay
  <1>2. \A s \in Nat : s \div MinutesPerDay \in Nat
    BY Quotient DEF MinutesPerDay
  <1>. QED BY <1>1, <1>2 DEF DayOf

\* A day's intervals are a stretch, so their gains are the difference of its ends.
LEMMA OwnIsStretch ==
    ASSUME NEW p, Series(p), NEW d, Own(p, d) # {}
    PROVE  /\ FirstOf(Own(p, d)) \in Own(p, d) /\ LastOf(Own(p, d)) \in Own(p, d)
           /\ \A x \in Own(p, d) : /\ FirstOf(Own(p, d))[1].t <= x[1].t
                                   /\ x[1].t <= LastOf(Own(p, d))[1].t
           /\ Charge(Own(p, d)) = LastOf(Own(p, d))[2].v - FirstOf(Own(p, d))[1].v
  <1>. DEFINE own == Own(p, d)
              starts == {t \in DOMAIN p : \E x \in own : x[1].t = t}
              a == FirstOf(own)
              b == LastOf(own)
  <1>1. own \subseteq Intervals(p)
    BY DEF Own
  <1>2. \A x \in own : x[1].t \in DOMAIN p /\ x[1].t \in Nat
    BY <1>1, IntervalsAre
  <1>3. Numbers(starts)
    <2>1. starts # {}
      BY <1>2
    <2>2. starts \subseteq DOMAIN p
      OBVIOUS
    <2>. HIDE DEF starts
    <2>. QED BY <2>1, <2>2, FS_Subset DEF Numbers, Series
  <1>4. \E x \in own : \A y \in own : x[1].t <= y[1].t
    <2>1. Min(starts) \in starts /\ \A t \in starts : Min(starts) <= t
      <3>. HIDE DEF starts
      <3>. QED BY <1>3, EndsExist
    <2>2. PICK x \in own : x[1].t = Min(starts)
      BY <2>1
    <2>. QED BY <1>2, <2>1, <2>2
  <1>5. \E x \in own : \A y \in own : x[1].t >= y[1].t
    <2>1. PICK m \in starts : \A t \in starts : t <= m
      <3>. HIDE DEF starts
      <3>. QED BY <1>3, EndsExist
    <2>2. PICK x \in own : x[1].t = m
      BY <2>1
    <2>. QED BY <1>2, <2>1, <2>2
  <1>6. a \in own /\ \A y \in own : a[1].t <= y[1].t
    BY <1>4 DEF FirstOf
  <1>7. b \in own /\ \A y \in own : b[1].t >= y[1].t
    BY <1>5 DEF LastOf
  <1>. HIDE DEF starts, a, b
  <1>8. own = Stretch(p, a, b)
    <2>1. own \subseteq Stretch(p, a, b)
      BY <1>1, <1>2, <1>6, <1>7 DEF Stretch
    <2>2. ASSUME NEW z \in Stretch(p, a, b) PROVE z \in own
      <3>1. z \in Intervals(p) /\ a[1].t <= z[1].t /\ z[1].t <= b[1].t
        BY DEF Stretch
      <3>2. z[1].t \in Nat /\ a[1].t \in Nat /\ b[1].t \in Nat
        BY <1>2, <1>6, <1>7, <3>1, IntervalsAre
      <3>3. DayOf(a[1].t) = d /\ DayOf(b[1].t) = d
        BY <1>6, <1>7 DEF Own
      <3>4. d <= DayOf(z[1].t) /\ DayOf(z[1].t) <= d /\ d \in Nat /\ DayOf(z[1].t) \in Nat
        BY <3>1, <3>2, <3>3, DaysInOrder
      <3>5. DayOf(z[1].t) = d
        BY <3>4
      <3>. QED BY <3>1, <3>5 DEF Own
    <2>. QED BY <2>1, <2>2
  <1>9. a[1].t <= b[1].t
    BY <1>6, <1>7
  <1>. HIDE DEF own
  <1>10. Charge(own) = b[2].v - a[1].v
    BY <1>1, <1>6, <1>7, <1>8, <1>9, Telescopes
  <1>11. \A x \in own : x[1].t <= b[1].t
    BY <1>2, <1>7
  <1>. QED BY <1>6, <1>7, <1>10, <1>11 DEF own, a, b

\* A day with neither a reset nor a gap is charged the difference of its ends.
LEMMA DayIsItsEnds ==
    ASSUME NEW p, Series(p), NEW d \in DOMAIN Endpoints(p)
    PROVE  \/ Endpoints(p)[d].reset \/ Endpoints(p)[d].gap
           \/ d \in DOMAIN DailyDeltas(p) /\ DailyDeltas(p)[d] = Endpoints(p)[d].used
  <1>. DEFINE own == Own(p, d)
              used == {x \in UsedIntervals(p) : ChargedTo(x) = d}
  <1>1. own # {}
    BY DEF Endpoints, Own
  <1>2. Endpoints(p)[d] =
            [used |-> LastOf(own)[2].v - FirstOf(own)[1].v,
             reset |-> \E x \in own : x[2].v < x[1].v,
             gap |-> \E x \in own : x[2].t - x[1].t > MAX_DELTA_SPAN]
    BY DEF Endpoints, Own, FirstOf, LastOf
  <1>3. ASSUME ~Endpoints(p)[d].reset, ~Endpoints(p)[d].gap
        PROVE  d \in DOMAIN DailyDeltas(p) /\ DailyDeltas(p)[d] = Endpoints(p)[d].used
    <2>1. \A x \in own : ~(x[2].v < x[1].v) /\ ~(x[2].t - x[1].t > MAX_DELTA_SPAN)
      <3>1. ~(\E x \in own : x[2].v < x[1].v) /\ ~(\E x \in own : x[2].t - x[1].t > MAX_DELTA_SPAN)
        BY <1>2, <1>3
      <3>. QED BY <3>1
    <2>2. own \subseteq UsedIntervals(p)
      <3>. SUFFICES ASSUME NEW x \in own PROVE x \in UsedIntervals(p)
        OBVIOUS
      <3>1. x \in Intervals(p)
        BY DEF Own
      <3>2. /\ x[1].v \in Nat /\ x[2].v \in Nat /\ x[1].t \in Nat /\ x[2].t \in Nat
            /\ MAX_DELTA_SPAN \in Nat
        BY <3>1, IntervalsAre DEF MAX_DELTA_SPAN
      <3>3. x[1].v <= x[2].v /\ x[2].t - x[1].t <= MAX_DELTA_SPAN
        BY <2>1, <3>2
      <3>. QED BY <3>1, <3>3 DEF UsedIntervals, WithinSpan
    <2>3. used = own
      BY <2>2 DEF UsedIntervals, ChargedTo, Own
    <2>4. d \in DOMAIN DailyDeltas(p)
      BY <1>1, <2>3 DEF DailyDeltas
    <2>5. DailyDeltas(p)[d] = Charge(own)
      BY <2>3, <2>4 DEF DailyDeltas, Charge
    <2>6. Charge(own) = LastOf(own)[2].v - FirstOf(own)[1].v
      BY <1>1, OwnIsStretch
    <2>7. Endpoints(p)[d].used = LastOf(own)[2].v - FirstOf(own)[1].v
      BY <1>2
    <2>. QED BY <2>4, <2>5, <2>6, <2>7
  <1>. QED BY <1>3

\* Only days with intervals are charged.
LEMMA ChargedDaysHaveEnds ==
    ASSUME NEW p
    PROVE  DOMAIN DailyDeltas(p) \subseteq DOMAIN Endpoints(p)
  BY DEF DailyDeltas, Endpoints, UsedIntervals, ChargedTo

\* So the second computation agrees with the first.
LEMMA SeriesReconcile ==
    ASSUME NEW R, \A c \in Columns : Series(PointsOf(FilterPreferred(R), c)),
           NEW d \in DOMAIN DailyTotals(R)
    PROVE  Verdict(R, DailyTotals(R), d) # "mismatch"
  <1>. DEFINE p(c) == PointsOf(FilterPreferred(R), c)
              ends(c) == Endpoints(p(c))
              deltas(c) == DailyDeltas(p(c))
              totals == DailyTotals(R)
              source == IF d \in DOMAIN ends(Primary) THEN ends(Primary) ELSE ends(Fallback)
  <1>1. Series(p(Primary)) /\ Series(p(Fallback))
    BY DEF Columns
  <1>2. d \in DOMAIN deltas(Primary) \cup DOMAIN deltas(Fallback)
    BY DEF DailyTotals, DeltasOf
  <1>3. totals[d] = IF d \in DOMAIN deltas(Primary) THEN deltas(Primary)[d] ELSE deltas(Fallback)[d]
    BY <1>2 DEF DailyTotals, DeltasOf
  <1>4. d \in DOMAIN source => source[d].reset \/ source[d].gap \/ totals[d] = source[d].used
    <2>. HIDE DEF p, totals
    <2>1. CASE d \in DOMAIN ends(Primary)
      <3>1. \/ ends(Primary)[d].reset \/ ends(Primary)[d].gap
            \/ d \in DOMAIN deltas(Primary) /\ deltas(Primary)[d] = ends(Primary)[d].used
        BY <1>1, <2>1, DayIsItsEnds
      <3>. QED BY <1>3, <2>1, <3>1
    <2>2. CASE d \notin DOMAIN ends(Primary)
      <3>1. d \notin DOMAIN deltas(Primary)
        BY <2>2, ChargedDaysHaveEnds
      <3>2. ASSUME d \in DOMAIN ends(Fallback)
            PROVE  \/ ends(Fallback)[d].reset \/ ends(Fallback)[d].gap
                   \/ d \in DOMAIN deltas(Fallback) /\ deltas(Fallback)[d] = ends(Fallback)[d].used
        BY <1>1, <3>2, DayIsItsEnds
      <3>. QED BY <1>3, <2>2, <3>1, <3>2
    <2>. QED BY <2>1, <2>2
  <1>5. Verdict(R, totals, d) =
          IF d \notin DOMAIN source \/ d \notin DOMAIN totals \/ d = Max(DOMAIN totals)
          THEN "unchecked"
          ELSE IF source[d].reset \/ source[d].gap THEN "unverifiable"
          ELSE IF totals[d] = source[d].used THEN "verified" ELSE "mismatch"
    BY DEF Verdict
  <1>. HIDE DEF source, totals
  <1>6. Verdict(R, totals, d) # "mismatch"
    BY <1>4, <1>5
  <1>. QED BY <1>6 DEF totals

-----------------------------------------------------------------------------
(* The table and the meter. *)

Row(T) == [t : T, g : Sources, cols : SUBSET Columns, v : Nat]

TableType ==
    /\ mishaps \in Nat
    /\ DOMAIN shown \subseteq Moments /\ shown \in [DOMAIN shown -> Nat]
    /\ rows \subseteq Row(DOMAIN shown)

\* The meter is read in time order.
ReadInOrder == \A t \in DOMAIN shown, m \in Moments : m <= t => m \in DOMAIN shown

\* A reading is what the meter showed, or the zero of a dip.
RowsAreShown == \A r \in rows : r.v = shown[r.t] \/ r.v = 0

\* Without a mishap the meter rises, and the readings are what it showed.
Undisturbed ==
    mishaps = 0 =>
        /\ \A r \in rows : r.v = shown[r.t]
        /\ \A s, t \in DOMAIN shown : s < t => shown[s] <= shown[t]

\* The moments after s and no later than t at which the meter was not at 0.
Running(s, t) == {m \in DOMAIN shown : s < m /\ m <= t /\ shown[m] > 0}

\* From one moment to a later one the meter gains a unit a moment, or it has
\* started again at 0 in between.
ShownRuns ==
    \A s, t \in DOMAIN shown :
        s < t => \/ shown[t] <= Cardinality(Running(s, t))
                 \/ shown[t] = shown[s] + Cardinality(Running(s, t))

TableInv == TableType /\ ReadInOrder /\ RowsAreShown /\ Undisturbed /\ ShownRuns

\* Thinning takes rows away.
LEMMA ThinnedIsPart == \A R, today : Thinned(R, today) \subseteq R
  BY DEF Thinned

\* The moment that comes next is later than all before it.
LEMMA UpcomingIsNext ==
    ASSUME TableInv, DOMAIN shown # Moments
    PROVE  /\ Upcoming \in Moments /\ Upcoming \in Nat /\ Upcoming \notin DOMAIN shown
           /\ \A t \in DOMAIN shown : t \in Nat /\ t < Upcoming
           /\ \A m \in Moments : m < Upcoming => m \in DOMAIN shown
  <1>. DEFINE left == Moments \ DOMAIN shown
  <1>1. left # {} /\ left \subseteq Moments
    BY DEF TableInv, TableType
  <1>2. Numbers(left)
    BY <1>1, UsageAssumption, FS_Subset DEF Numbers
  <1>3. Upcoming \in left /\ \A m \in left : Upcoming <= m
    <2>. HIDE DEF left
    <2>1. Min(left) \in left /\ \A m \in left : Min(left) <= m
      BY <1>2, EndsExist
    <2>. QED BY <2>1 DEF Upcoming, left
  <1>4. \A m \in Moments : m \in Nat
    BY UsageAssumption
  <1>5. \A t \in DOMAIN shown : ~(Upcoming <= t)
    BY <1>3 DEF TableInv, ReadInOrder
  <1>. QED BY <1>3, <1>4, <1>5 DEF TableInv, TableType

\* What the meter shows next.
LEMMA NextShownType ==
    ASSUME TableInv
    PROVE  /\ NextShown \in Nat
           /\ DOMAIN shown = {} \/ \E l \in DOMAIN shown :
                  (\A t \in DOMAIN shown : t <= l) /\ NextShown = shown[l] + 1
  <1>1. CASE DOMAIN shown = {}
    BY <1>1, UsageAssumption DEF NextShown
  <1>2. CASE DOMAIN shown # {}
    <2>1. Numbers(DOMAIN shown)
      BY <1>2, UsageAssumption, FS_Subset DEF Numbers, TableInv, TableType
    <2>2. PICK l \in DOMAIN shown : \A t \in DOMAIN shown : t <= l
      BY <2>1, EndsExist
    <2>3. DOMAIN shown \subseteq 0..l /\ l \in Int /\ 0 \in Int
      BY <2>1, <2>2 DEF Numbers
    <2>4. Max(DOMAIN shown) \in DOMAIN shown /\ \A t \in DOMAIN shown : Max(DOMAIN shown) >= t
      BY <1>2, <2>3, MaxIsLargest
    <2>5. \A t \in DOMAIN shown : t <= Max(DOMAIN shown)
      BY <2>1, <2>4 DEF Numbers
    <2>. QED BY <1>2, <2>4, <2>5 DEF NextShown, TableInv, TableType
  <1>. QED BY <1>1, <1>2

\* A reading of the meter is a row.
LEMMA ReadingType ==
    \A T : \A t \in T, g \in Sources, v \in Nat :
        Reading(t, g, v) \in Row(T) /\ Reading(t, g, v).t = t /\ Reading(t, g, v).v = v
  BY UsageAssumption DEF Reading, Row

\* The moments a meter ran are finitely many.
LEMMA RunningFinite ==
    ASSUME TableType, NEW s, NEW t
    PROVE  IsFiniteSet(Running(s, t)) /\ Cardinality(Running(s, t)) \in Nat
  <1>1. Running(s, t) \in SUBSET Moments
    BY DEF Running, TableType
  <1>. QED BY <1>1, UsageAssumption, FS_Subset, FS_CardinalityType

\* The meter goes on running.
LEMMA RunsOn ==
    ASSUME TableInv, DOMAIN shown # Moments, NEW v \in Nat, v = 0 \/ v = NextShown, Advance(v)
    PROVE  /\ DOMAIN shown' = DOMAIN shown \cup {Upcoming}
           /\ \A t \in DOMAIN shown : shown'[t] = shown[t]
           /\ shown'[Upcoming] = v
           /\ DOMAIN shown' \subseteq Moments /\ shown' \in [DOMAIN shown' -> Nat]
           /\ ReadInOrder' /\ ShownRuns'
           /\ v = NextShown /\ (\A s, t \in DOMAIN shown : s < t => shown[s] <= shown[t])
                => \A s, t \in DOMAIN shown' : s < t => shown'[s] <= shown'[t]
  <1>. DEFINE D == DOMAIN shown
  <1>0. PICK u : u = Upcoming
    OBVIOUS
  <1>1. /\ u \in Moments /\ u \in Nat /\ u \notin D
        /\ \A t \in D : t \in Nat /\ t < u
        /\ \A m \in Moments : m < u => m \in D
    BY <1>0, UpcomingIsNext
  <1>2. /\ DOMAIN shown' = D \cup {u}
        /\ shown'[u] = v
        /\ \A t \in D : shown'[t] = shown[t]
    BY <1>0, <1>1 DEF Advance
  <1>3. DOMAIN shown' \subseteq Moments /\ shown' \in [DOMAIN shown' -> Nat]
    <2>1. \A t \in DOMAIN shown' : shown'[t] \in Nat
      BY <1>2 DEF TableInv, TableType
    <2>2. shown' = [t \in D \cup {u} |-> IF t = u THEN v ELSE shown[t]]
      BY <1>0 DEF Advance
    <2>3. DOMAIN shown' \subseteq Moments
      BY <1>1, <1>2 DEF TableInv, TableType
    <2>4. shown' = [t \in DOMAIN shown' |-> shown'[t]]
      BY <1>2, <2>2
    <2>. QED BY <2>1, <2>3, <2>4
  <1>4. ReadInOrder'
    <2>1. ASSUME NEW t \in D \cup {u}, NEW m \in Moments, m <= t PROVE m \in D \cup {u}
      <3>1. CASE t \in D
        BY <2>1, <3>1 DEF TableInv, ReadInOrder
      <3>2. CASE t = u
        <4>1. m \in Nat
          BY UsageAssumption
        <4>2. m < u \/ m = u
          BY <1>1, <2>1, <3>2, <4>1
        <4>. QED BY <1>1, <4>2
      <3>. QED BY <3>1, <3>2
    <2>. QED BY <1>2, <2>1 DEF ReadInOrder
  <1>5. \A s, t \in D : Running(s, t)' = Running(s, t)
    <2>. SUFFICES ASSUME NEW s \in D, NEW t \in D PROVE Running(s, t)' = Running(s, t)
      OBVIOUS
    <2>1. Running(s, t)' = {m \in D \cup {u} : s < m /\ m <= t /\ shown'[m] > 0}
      BY <1>2 DEF Running
    <2>2. ~(u <= t)
      BY <1>1
    <2>. QED BY <1>2, <2>1, <2>2 DEF Running
  <1>6. \A s, t : Cardinality(Running(s, t)) \in Nat /\ IsFiniteSet(Running(s, t))
    BY RunningFinite DEF TableInv
  <1>7. \A s, t : Cardinality(Running(s, t)') \in Nat
    <2>. SUFFICES ASSUME NEW s, NEW t PROVE Cardinality(Running(s, t)') \in Nat
      OBVIOUS
    <2>1. Running(s, t)' \in SUBSET Moments
      BY <1>3 DEF Running
    <2>. QED BY <2>1, UsageAssumption, FS_Subset, FS_CardinalityType
  <1>8. ASSUME v # 0, NEW l \in D, \A t \in D : t <= l, NEW s \in D, s < u
        PROVE  Cardinality(Running(s, u)') = Cardinality(Running(s, l)) + 1
    <2>1. Running(s, u)' = {m \in D \cup {u} : s < m /\ m <= u /\ shown'[m] > 0}
      BY <1>2 DEF Running
    <2>2. \A m \in D : m <= u /\ m <= l
      BY <1>1, <1>8
    <2>3. Running(s, l) = {m \in D : s < m /\ shown[m] > 0}
      BY <2>2 DEF Running
    <2>4. Running(s, u)' = Running(s, l) \cup {u}
      BY <1>1, <1>2, <1>8, <2>1, <2>2, <2>3
    <2>5. u \notin Running(s, l)
      BY <1>1 DEF Running
    <2>. QED BY <1>6, <2>4, <2>5, FS_AddElement
  <1>9. ShownRuns'
    <2>1. ASSUME NEW s \in D, NEW t \in D, s < t
          PROVE  \/ shown'[t] <= Cardinality(Running(s, t)')
                 \/ shown'[t] = shown'[s] + Cardinality(Running(s, t)')
      <3>1. \/ shown[t] <= Cardinality(Running(s, t))
            \/ shown[t] = shown[s] + Cardinality(Running(s, t))
        BY <2>1 DEF TableInv, ShownRuns
      <3>. QED BY <1>2, <1>5, <3>1
    <2>2. ASSUME NEW s \in D
          PROVE  \/ shown'[u] <= Cardinality(Running(s, u)')
                 \/ shown'[u] = shown'[s] + Cardinality(Running(s, u)')
      <3>1. CASE v = 0
        BY <1>2, <1>7, <3>1
      <3>2. CASE v # 0
        <4>1. PICK l \in D : (\A t \in D : t <= l) /\ NextShown = shown[l] + 1
          BY <2>2, NextShownType
        <4>2. Cardinality(Running(s, u)') = Cardinality(Running(s, l)) + 1
          BY <1>1, <1>8, <3>2, <4>1
        <4>3. shown'[u] = shown[l] + 1 /\ shown'[s] = shown[s]
          BY <1>2, <3>2, <4>1
        <4>4. shown[l] \in Nat /\ shown[s] \in Nat
          BY DEF TableInv, TableType
        <4>5. CASE s = l
          <5>1. Running(s, l) = {}
            BY <1>1, <4>5 DEF Running
          <5>2. Cardinality(Running(s, l)) = 0
            BY <5>1, FS_EmptySet
          <5>. QED BY <4>2, <4>3, <4>4, <4>5, <5>2
        <4>6. CASE s # l
          <5>1. s < l
            BY <1>1, <4>1, <4>6
          <5>2. \/ shown[l] <= Cardinality(Running(s, l))
                \/ shown[l] = shown[s] + Cardinality(Running(s, l))
            BY <5>1 DEF TableInv, ShownRuns
          <5>. QED BY <1>6, <4>2, <4>3, <4>4, <5>2
        <4>. QED BY <4>5, <4>6
      <3>. QED BY <3>1, <3>2
    <2>3. \A s \in D : ~(u < s)
      BY <1>1
    <2>4. ~(u < u)
      BY <1>1
    <2>5. \A s, t \in D \cup {u} :
            s < t => \/ shown'[t] <= Cardinality(Running(s, t)')
                     \/ shown'[t] = shown'[s] + Cardinality(Running(s, t)')
      BY <2>1, <2>2, <2>3, <2>4
    <2>. QED BY <1>2, <2>5 DEF ShownRuns
  <1>10. ASSUME v = NextShown, \A s, t \in D : s < t => shown[s] <= shown[t],
                NEW s \in D \cup {u}, NEW t \in D \cup {u}, s < t
         PROVE  shown'[s] <= shown'[t]
    <2>1. s \in D
      BY <1>1, <1>10
    <2>2. CASE t \in D
      BY <1>2, <1>10, <2>1, <2>2
    <2>3. CASE t = u
      <3>1. PICK l \in D : (\A x \in D : x <= l) /\ NextShown = shown[l] + 1
        BY <2>1, NextShownType
      <3>2. shown[s] \in Nat /\ shown[l] \in Nat /\ (s < l \/ s = l)
        BY <1>1, <2>1, <3>1 DEF TableInv, TableType
      <3>3. shown[s] <= shown[l]
        BY <1>10, <2>1, <3>2
      <3>. QED BY <1>2, <1>10, <2>1, <2>3, <3>1, <3>2, <3>3
    <2>. QED BY <2>2, <2>3
  <1>11. v = NextShown /\ (\A s, t \in D : s < t => shown[s] <= shown[t])
           => \A s, t \in D \cup {u} : s < t => shown'[s] <= shown'[t]
    BY <1>10
  <1>. QED BY <1>2, <1>3, <1>4, <1>9, <1>11, <1>0

\* The former live source read the meter through the first day, or not at all.
LEMMA InitTable == UsageInit => TableInv
  <1>. SUFFICES ASSUME UsageInit PROVE TableInv
    OBVIOUS
  <1>1. PICK old \in {{}, {t \in Moments : DayOf(t) = Min(Days)}} :
           /\ shown = [t \in old |-> MeterStart + Cardinality({s \in old : s < t})]
           /\ rows = {Reading(t, "live", shown[t]) : t \in old}
    BY DEF UsageInit
  <1>. DEFINE before(t) == {s \in old : s < t}
  <1>2. old \subseteq Moments /\ IsFiniteSet(old) /\ \A t \in old : t \in Nat
    <2>1. old \subseteq Moments
      OBVIOUS
    <2>. QED BY <2>1, UsageAssumption, FS_Subset
  <1>3. \A t \in old : IsFiniteSet(before(t)) /\ Cardinality(before(t)) \in Nat
    BY <1>2, FS_Subset, FS_CardinalityType
  <1>4. DOMAIN shown = old /\ \A t \in old : shown[t] = MeterStart + Cardinality(before(t))
    BY <1>1
  <1>5. \A t \in old : shown[t] \in Nat /\ shown[t] > 0
    <2>1. MeterStart \in Nat /\ MeterStart > 0
      BY UsageAssumption
    <2>. HIDE DEF before
    <2>. QED BY <1>3, <1>4, <2>1
  <1>6. shown \in [DOMAIN shown -> Nat]
    BY <1>1, <1>4, <1>5
  <1>7. ASSUME NEW r \in rows
        PROVE  /\ r \in Row(DOMAIN shown)
               /\ r.v = shown[r.t]
    <2>1. PICK t \in old : r = Reading(t, "live", shown[t])
      BY <1>1
    <2>2. "live" \in Sources
      BY DEF Sources
    <2>. QED BY <1>4, <1>5, <2>1, <2>2, ReadingType
  <1>8. TableType
    BY <1>2, <1>4, <1>6, <1>7 DEF TableType, UsageInit
  <1>9. ReadInOrder
    <2>. SUFFICES ASSUME NEW t \in old, NEW m \in Moments, m <= t PROVE m \in old
      BY <1>4 DEF ReadInOrder
    <2>1. old = {x \in Moments : DayOf(x) = Min(Days)}
      OBVIOUS
    <2>2. m \in Nat /\ t \in Nat
      BY <1>2, UsageAssumption
    <2>3. DayOf(m) <= DayOf(t) /\ DayOf(m) \in Nat /\ DayOf(t) \in Nat
      BY <2>2, DaysInOrder
    <2>4. Min(Days) <= DayOf(m)
      <3>1. PICK l \in Moments : \A x \in Moments : x <= l
        BY UsageAssumption, EndsExist DEF Numbers
      <3>2. \A x \in Moments : DayOf(x) \in 0..DayOf(l)
        BY <3>1, UsageAssumption, DaysInOrder
      <3>3. Days \subseteq 0..DayOf(l) /\ DayOf(m) \in Days
        BY <3>2 DEF Days
      <3>4. 0 \in Int /\ DayOf(l) \in Int /\ Days # {}
        BY <3>1, <3>3, UsageAssumption, DaysInOrder
      <3>. QED BY <3>3, <3>4, MinIsSmallest
    <2>. QED BY <2>1, <2>3, <2>4
  <1>10. RowsAreShown
    BY <1>7 DEF RowsAreShown
  <1>11. ASSUME NEW s \in old, NEW t \in old, s < t
         PROVE  shown[t] = shown[s] + Cardinality(Running(s, t))
    <2>. DEFINE between == {m \in old : s < m /\ m < t}
    <2>1. IsFiniteSet(between) /\ Cardinality(between) \in Nat
      BY <1>2, FS_Subset, FS_CardinalityType
    <2>2. before(t) = (before(s) \cup {s}) \cup between
      BY <1>2, <1>11
    <2>3. s \notin before(s) /\ (before(s) \cup {s}) \cap between = {}
      BY <1>2
    <2>4. /\ IsFiniteSet(before(s) \cup {s})
          /\ Cardinality(before(s) \cup {s}) = Cardinality(before(s)) + 1
      BY <1>3, <2>3, FS_AddElement
    <2>5. Cardinality(before(t)) = (Cardinality(before(s)) + 1) + Cardinality(between)
      <3>. HIDE DEF before, between
      <3>1. Cardinality((before(s) \cup {s}) \cap between) = 0
        BY <2>3, FS_EmptySet
      <3>2. Cardinality(before(t)) = Cardinality(before(s) \cup {s}) + Cardinality(between)
                - Cardinality((before(s) \cup {s}) \cap between)
        BY <2>1, <2>2, <2>4, FS_Union
      <3>. QED BY <1>3, <2>1, <2>4, <3>1, <3>2
    <2>6. Running(s, t) = between \cup {t} /\ t \notin between
      <3>1. Running(s, t) = {m \in old : s < m /\ m <= t}
        BY <1>4, <1>5 DEF Running
      <3>. QED BY <1>2, <1>11, <3>1
    <2>7. Cardinality(Running(s, t)) = Cardinality(between) + 1
      BY <2>1, <2>6, FS_AddElement
    <2>8. /\ shown[t] = MeterStart + Cardinality(before(t))
          /\ shown[s] = MeterStart + Cardinality(before(s))
      BY <1>4
    <2>. HIDE DEF before, between
    <2>. QED BY <1>3, <2>1, <2>5, <2>7, <2>8, UsageAssumption
  <1>12. ShownRuns
    BY <1>4, <1>11 DEF ShownRuns
  <1>13. Undisturbed
    <2>1. \A s, t : Cardinality(Running(s, t)) \in Nat
      BY <1>8, RunningFinite
    <2>2. \A s, t \in DOMAIN shown : s < t => shown[s] <= shown[t]
      BY <1>4, <1>5, <1>11, <2>1
    <2>. QED BY <1>7, <2>2 DEF Undisturbed
  <1>. QED BY <1>8, <1>9, <1>10, <1>12, <1>13 DEF TableInv

\* A stored row replaces the one of its time and source; the others stay or are thinned.
LEMMA StoreKeeps ==
    ASSUME NEW new, NEW today, Store(new, today)
    PROVE  rows' \subseteq rows \cup new
  <1>1. rows' \subseteq {r \in rows : \A n \in new : <<n.t, n.g>> # <<r.t, r.g>>} \cup new
    BY ThinnedIsPart DEF Store
  <1>. QED BY <1>1

\* A moment passes; the row that is stored, if any, is of it.
LEMMA MomentPasses ==
    ASSUME TableInv, DOMAIN shown # Moments, NEW v \in Nat, v = 0 \/ v = NextShown, Advance(v),
           NEW new, NEW today, Store(new, today), mishaps' \in Nat,
           \A r \in new : \E g \in Sources :
               r = Reading(Upcoming, g, 0) \/ r = Reading(Upcoming, g, v),
           mishaps' = 0 => /\ mishaps = 0 /\ v = NextShown
                           /\ \A r \in new : r.v = v
    PROVE  TableInv'
  <1>0. PICK u : u = Upcoming
    OBVIOUS
  <1>1. /\ DOMAIN shown' = DOMAIN shown \cup {u}
        /\ \A t \in DOMAIN shown : shown'[t] = shown[t]
        /\ shown'[u] = v
        /\ DOMAIN shown' \subseteq Moments /\ shown' \in [DOMAIN shown' -> Nat]
        /\ ReadInOrder' /\ ShownRuns'
        /\ v = NextShown /\ (\A s, t \in DOMAIN shown : s < t => shown[s] <= shown[t])
             => \A s, t \in DOMAIN shown' : s < t => shown'[s] <= shown'[t]
    BY <1>0, RunsOn
  <1>2. rows' \subseteq rows \cup new
    BY StoreKeeps
  <1>3. ASSUME NEW r \in rows PROVE r \in Row(DOMAIN shown') /\ shown'[r.t] = shown[r.t]
    BY <1>1 DEF TableInv, TableType, Row
  <1>4. ASSUME NEW r \in new
        PROVE  r \in Row(DOMAIN shown') /\ r.t = u /\ (r.v = v \/ r.v = 0)
    <2>1. PICK g \in Sources : r = Reading(u, g, 0) \/ r = Reading(u, g, v)
      BY <1>0, <1>4
    <2>2. u \in DOMAIN shown'
      BY <1>1
    <2>3. \A w \in Nat : /\ Reading(u, g, w) \in Row(DOMAIN shown')
                         /\ Reading(u, g, w).t = u /\ Reading(u, g, w).v = w
      BY <2>2, ReadingType
    <2>4. v \in Nat /\ 0 \in Nat
      OBVIOUS
    <2>. QED BY <2>1, <2>3, <2>4
  <1>5. TableType'
    BY <1>1, <1>2, <1>3, <1>4 DEF TableType
  <1>6. RowsAreShown'
    BY <1>1, <1>2, <1>3, <1>4 DEF RowsAreShown, TableInv
  <1>7. Undisturbed'
    <2>. SUFFICES ASSUME mishaps' = 0
                  PROVE  /\ \A r \in rows' : r.v = shown'[r.t]
                         /\ \A s, t \in DOMAIN shown' : s < t => shown'[s] <= shown'[t]
      BY DEF Undisturbed
    <2>1. mishaps = 0 /\ v = NextShown /\ \A r \in new : r.v = v
      OBVIOUS
    <2>2. /\ \A r \in rows : r.v = shown[r.t]
          /\ \A s, t \in DOMAIN shown : s < t => shown[s] <= shown[t]
      BY <2>1 DEF TableInv, Undisturbed
    <2>. QED BY <1>1, <1>2, <1>3, <1>4, <2>1, <2>2
  <1>. QED BY <1>1, <1>5, <1>6, <1>7 DEF TableInv

\* Rows are added for moments the meter was read at, with what it showed then.
LEMMA RowsAdded ==
    ASSUME TableInv, UNCHANGED shown, mishaps' \in Nat, mishaps' = 0 => mishaps = 0,
           NEW new, rows' \subseteq rows \cup new,
           \A r \in new : /\ r \in Row(DOMAIN shown)
                          /\ r.v = shown[r.t] \/ r.v = 0
                          /\ mishaps' = 0 => r.v = shown[r.t]
    PROVE  TableInv'
  <1>1. TableType' /\ RowsAreShown' /\ Undisturbed'
    BY DEF TableInv, TableType, RowsAreShown, Undisturbed
  <1>2. ReadInOrder' /\ ShownRuns'
    BY DEF TableInv, ReadInOrder, ShownRuns, Running
  <1>. QED BY <1>1, <1>2 DEF TableInv

\* Whatever happens, the rows are what the meter showed, or dips.
LEMMA NextTable == TableInv /\ [UsageNext]_usageVars => TableInv'
  <1>. SUFFICES ASSUME TableInv, [UsageNext]_usageVars PROVE TableInv'
    OBVIOUS
  <1>0. NextShown \in Nat /\ mishaps \in Nat /\ {"15min", "daily", "api_live"} \subseteq Sources
    BY NextShownType DEF TableInv, TableType, Sources
  <1>1. CASE Unpolled
    <2>1. \A r \in {} : FALSE
      OBVIOUS
    <2>. QED BY <1>0, <1>1, <2>1, MomentPasses DEF Unpolled
  <1>2. CASE Polled
    <2>1. Reading(Upcoming, "api_live", NextShown).v = NextShown
      BY DEF Reading
    <2>. QED BY <1>0, <1>2, <2>1, MomentPasses DEF Polled
  <1>3. CASE Dips
    BY <1>0, <1>3, MomentPasses DEF Dips
  <1>4. CASE Replaced
    BY <1>0, <1>4, MomentPasses DEF Replaced
  <1>5. ASSUME NEW d \in Exported, ImportQuarters(d) PROVE TableInv'
    <2>. DEFINE covered == {t \in DOMAIN shown : DayOf(t) = d}
                new == {Reading(t, "15min", shown[t]) : t \in covered}
    <2>1. rows' \subseteq rows \cup new /\ UNCHANGED <<shown, mishaps>>
      BY <1>5, StoreKeeps DEF ImportQuarters
    <2>2. ASSUME NEW t \in covered
          PROVE  /\ Reading(t, "15min", shown[t]) \in Row(DOMAIN shown)
                 /\ Reading(t, "15min", shown[t]).t = t
                 /\ Reading(t, "15min", shown[t]).v = shown[t]
      <3>1. t \in DOMAIN shown /\ "15min" \in Sources /\ shown[t] \in Nat
        BY <1>0 DEF TableInv, TableType
      <3>. QED BY <3>1, ReadingType
    <2>3. \A r \in new : r \in Row(DOMAIN shown) /\ r.v = shown[r.t]
      BY <2>2
    <2>. HIDE DEF new
    <2>. QED BY <1>0, <2>1, <2>3, RowsAdded
  <1>6. ASSUME NEW d \in Exported, ImportDaily(d) PROVE TableInv'
    <2>. DEFINE new == {Reading(At(d, 0), "daily", shown[At(d, 0)])}
    <2>1. rows' \subseteq rows \cup new /\ UNCHANGED <<shown, mishaps>> /\ At(d, 0) \in DOMAIN shown
      BY <1>6, StoreKeeps DEF ImportDaily
    <2>2. \A t \in DOMAIN shown : shown[t] \in Nat
      BY DEF TableInv, TableType
    <2>3. \A r \in new : r \in Row(DOMAIN shown) /\ r.v = shown[r.t]
      <3>1. PICK t \in DOMAIN shown : t = At(d, 0)
        BY <2>1
      <3>2. /\ Reading(t, "daily", shown[t]) \in Row(DOMAIN shown)
            /\ Reading(t, "daily", shown[t]).t = t
            /\ Reading(t, "daily", shown[t]).v = shown[t]
        <4>1. "daily" \in Sources /\ shown[t] \in Nat
          BY <1>0, <2>2
        <4>. QED BY <4>1, ReadingType
      <3>. QED BY <3>1, <3>2
    <2>. HIDE DEF new
    <2>. QED BY <1>0, <2>1, <2>3, RowsAdded
  <1>7. ASSUME NEW r \in rows, NEW c \in Columns, NullReading(r, c) PROVE TableInv'
    <2>. DEFINE new == {[r EXCEPT !.cols = @ \ {c}]}
    <2>1. /\ rows' = (rows \ {r}) \cup new /\ UNCHANGED shown
          /\ mishaps' = mishaps + 1
      BY <1>7 DEF NullReading
    <2>2. r \in Row(DOMAIN shown)
      BY DEF TableInv, TableType
    <2>3. r.v = shown[r.t] \/ r.v = 0
      BY DEF TableInv, RowsAreShown
    <2>4. \A n \in new : n \in Row(DOMAIN shown) /\ n.v = r.v /\ n.t = r.t
      BY <2>2 DEF Row
    <2>5. mishaps' \in Nat /\ mishaps' # 0
      BY <1>0, <2>1
    <2>. HIDE DEF new
    <2>. QED BY <2>1, <2>3, <2>4, <2>5, RowsAdded
  <1>8. CASE UNCHANGED usageVars
    BY <1>8 DEF usageVars, TableInv, TableType, RowsAreShown, Undisturbed, ReadInOrder, ShownRuns,
                Running
  <1>. QED BY <1>1, <1>2, <1>3, <1>4, <1>5, <1>6, <1>7, <1>8 DEF UsageNext

\* The table's rows are readings of what the meter showed then, or of dips; what it
\* shows adds up to the moments it ran since the last new meter (all of UsageNext).
THEOREM TableIsRead == UsageSpec => []TableInv
BY InitTable, NextTable, PTL DEF UsageSpec

-----------------------------------------------------------------------------
(* What follows for the totals. *)

Column(c) == PointsOf(FilterPreferred(rows), c)

\* The points of a column are readings of the meter.
LEMMA PointsAre ==
    ASSUME TableInv, NEW c
    PROVE  /\ Series(Column(c)) /\ DOMAIN Column(c) \subseteq DOMAIN shown
           /\ \A t \in DOMAIN Column(c) : Column(c)[t] = shown[t] \/ Column(c)[t] = 0
           /\ mishaps = 0 => \A t \in DOMAIN Column(c) : Column(c)[t] = shown[t]
  <1>. DEFINE has == {r \in FilterPreferred(rows) : c \in r.cols}
              times == {r.t : r \in has}
              p == Column(c)
  <1>1. p = [t \in times |-> (CHOOSE r \in has : r.t = t).v]
    BY DEF Column, PointsOf
  <1>2. has \subseteq rows
    BY DEF FilterPreferred
  <1>3. \A r \in rows : r.t \in DOMAIN shown /\ r.v \in Nat
    BY DEF TableInv, TableType, Row
  <1>4. ASSUME NEW t \in DOMAIN p
        PROVE  /\ t \in DOMAIN shown /\ p[t] \in Nat /\ (p[t] = shown[t] \/ p[t] = 0)
               /\ mishaps = 0 => p[t] = shown[t]
    <2>. DEFINE r == CHOOSE r \in has : r.t = t
    <2>1. \E x \in has : x.t = t
      BY <1>1, <1>4
    <2>2. r \in has /\ r.t = t
      BY <2>1
    <2>3. p[t] = r.v
      BY <1>1, <1>4
    <2>. HIDE DEF r, has
    <2>4. r \in rows
      BY <1>2, <2>2
    <2>. QED BY <1>3, <2>2, <2>3, <2>4 DEF TableInv, RowsAreShown, Undisturbed
  <1>5. DOMAIN p \subseteq DOMAIN shown
    BY <1>4
  <1>6. Series(p)
    <2>1. DOMAIN p \in SUBSET Moments
      BY <1>5 DEF TableInv, TableType
    <2>2. IsFiniteSet(DOMAIN p) /\ DOMAIN p \subseteq Nat
      BY <2>1, UsageAssumption, FS_Subset
    <2>. QED BY <1>4, <2>2 DEF Series
  <1>. QED BY <1>4, <1>5, <1>6

\* Summing a day's intervals and subtracting its ends agree on every day that is not
\* reported as unverifiable: of two computations of every total, neither is wrong
\* alone (compute_daily_deltas, reconcile_daily_totals).
THEOREM TwoComputationsAgree == UsageSpec => []TotalsReconcile
<1>1. TableInv => TotalsReconcile
  BY PointsAre, SeriesReconcile DEF TotalsReconcile, Column
<1>. QED BY <1>1, TableIsRead, PTL

\* Where no value falls every point is kept, and the intervals join neighbours.
LEMMA RisingIsKept ==
    ASSUME NEW p, Series(p), \A s, t \in DOMAIN p : s < t => p[s] <= p[t]
    PROVE  CleanGlitches(p) = DOMAIN p
  <1>1. ASSUME NEW t \in DOMAIN p, NEW s \in DOMAIN p, s < t
        PROVE  KeptAfter(p, s) <= t
    <2>1. After(p, s) # {}
      BY <1>1 DEF After
    <2>2. /\ KeptAfter(p, s) \in DOMAIN p /\ KeptAfter(p, s) > s
          /\ \/ \A u \in DOMAIN p : u > s => KeptAfter(p, s) <= u
             \/ p[KeptAfter(p, s)] >= p[s]
      BY <2>1, KeptAfterType
    <2>. DEFINE after == After(p, s)
                next == Min(after)
                back == {u \in after : u <= next + Lookahead /\ p[u] >= p[s]}
    <2>3. IsFiniteSet(after) /\ after \subseteq Nat /\ after \subseteq DOMAIN p /\ t \in after
      <3>1. after \subseteq DOMAIN p
        BY DEF After
      <3>. QED BY <1>1, <3>1, FS_Subset DEF Series, After
    <2>4. next \in after /\ \A u \in after : next <= u
      <3>. HIDE DEF after
      <3>. QED BY <2>3, EndsExist DEF Numbers
    <2>5. next \in back /\ \A u \in back : next <= u
      <3>1. next > s /\ next \in DOMAIN p /\ next \in Nat /\ s \in Nat
        BY <2>3, <2>4 DEF After, Series
      <3>2. p[next] >= p[s] /\ next <= next + Lookahead
        BY <3>1 DEF Series, Lookahead, MinutesPerDay
      <3>. QED BY <2>4, <3>2
    <2>6. Min(back) \in back /\ \A u \in back : Min(back) <= u
      <3>1. IsFiniteSet(back) /\ back \subseteq Nat /\ back # {}
        BY <2>3, <2>5, FS_Subset
      <3>. HIDE DEF back
      <3>. QED BY <3>1, EndsExist DEF Numbers
    <2>7. KeptAfter(p, s) = Min(back)
      BY <2>5 DEF KeptAfter
    <2>8. Min(back) <= next /\ next <= t /\ Min(back) \in Nat /\ next \in Nat /\ t \in Nat
      BY <2>3, <2>4, <2>5, <2>6
    <2>. HIDE DEF back, next, after
    <2>. QED BY <2>7, <2>8
  <1>2. CleanGlitches(p) =
            {t \in DOMAIN p : \A s \in CleanGlitches(p) : s < t => KeptAfter(p, s) <= t}
    BY CleanGlitchesIsCleaned DEF Cleaned
  <1>3. CleanGlitches(p) \subseteq DOMAIN p
    BY <1>2
  <1>. QED BY <1>1, <1>2, <1>3

\* Of a series that never falls, a day with a point at both its midnights is charged
\* the difference of these.
LEMMA RisingDay ==
    ASSUME NEW p, Series(p), \A s, t \in DOMAIN p : s < t => p[s] <= p[t],
           NEW d \in Nat, At(d, 0) \in DOMAIN p, At(d + 1, 0) \in DOMAIN p
    PROVE  /\ d \in DOMAIN DailyDeltas(p)
           /\ DailyDeltas(p)[d] = p[At(d + 1, 0)] - p[At(d, 0)]
  <1>. DEFINE lo == At(d, 0)
              hi == At(d + 1, 0)
              own == Own(p, d)
              used == {x \in UsedIntervals(p) : ChargedTo(x) = d}
  <1>1. lo \in Nat /\ hi \in Nat /\ hi = lo + MinutesPerDay /\ MinutesPerDay \in Nat \ {0}
    BY DEF At, MinutesPerDay
  <1>2. DayOf(lo) = d /\ DayOf(hi) = d + 1
    BY DEF At, DayOf, MinutesPerDay
  <1>3. \A t \in Nat : DayOf(t) = d <=> lo <= t /\ t < hi
    <2>. SUFFICES ASSUME NEW t \in Nat PROVE DayOf(t) = d <=> lo <= t /\ t < hi
      OBVIOUS
    <2>1. /\ t \div MinutesPerDay \in Nat /\ (t \div MinutesPerDay) * MinutesPerDay <= t
          /\ t < (t \div MinutesPerDay) * MinutesPerDay + MinutesPerDay
      BY <1>1, Quotient
    <2>2. lo = MinutesPerDay * d
      BY DEF At, MinutesPerDay
    <2>. HIDE DEF lo, hi
    <2>. QED BY <1>1, <2>1, <2>2 DEF DayOf, MinutesPerDay
  <1>. HIDE DEF lo, hi
  <1>4. CleanGlitches(p) = DOMAIN p /\ lo \in DOMAIN p /\ hi \in DOMAIN p /\ hi > lo
    BY <1>1, RisingIsKept DEF lo, hi
  <1>5. \A x \in Intervals(p) : /\ x[1].t \in Nat /\ x[2].t \in Nat /\ x[1].t < x[2].t
                                /\ x[1].v \in Nat /\ x[2].v \in Nat /\ x[1].v <= x[2].v
    BY IntervalsAre
  <1>6. \A x \in own : /\ x \in Intervals(p) /\ lo <= x[1].t /\ x[1].t < hi /\ x[2].t <= hi
    <2>. SUFFICES ASSUME NEW x \in own
                  PROVE  x \in Intervals(p) /\ lo <= x[1].t /\ x[1].t < hi /\ x[2].t <= hi
      OBVIOUS
    <2>1. x \in Intervals(p) /\ DayOf(x[1].t) = d
      BY DEF Own
    <2>2. lo <= x[1].t /\ x[1].t < hi
      BY <1>3, <1>5, <2>1
    <2>3. x[2].t <= hi
      <3>1. /\ x[1].t \in CleanGlitches(p) /\ After(p, x[1].t) # {} /\ x[2].t = KeptAfter(p, x[1].t)
        BY <2>1, IntervalsAre
      <3>. QED BY <1>4, <2>2, <3>1, Chain
    <2>. QED BY <2>1, <2>2, <2>3
  <1>7. PICK a \in own : a[1].t = lo
    <2>1. PICK x \in Intervals(p) : x[1].t = lo
      BY <1>4, IntervalAt
    <2>. QED BY <1>2, <2>1 DEF Own, lo
  <1>8. used = own
    <2>1. own \subseteq UsedIntervals(p)
      <3>. SUFFICES ASSUME NEW x \in own PROVE x \in UsedIntervals(p)
        OBVIOUS
      <3>1. /\ x \in Intervals(p) /\ x[1].v <= x[2].v
            /\ x[2].t - x[1].t <= MinutesPerDay
        BY <1>1, <1>5, <1>6
      <3>2. x[2].t - x[1].t <= MAX_DELTA_SPAN
        BY <1>5, <3>1 DEF MAX_DELTA_SPAN, MinutesPerDay
      <3>. QED BY <3>1, <3>2 DEF UsedIntervals, WithinSpan
    <2>. QED BY <2>1 DEF UsedIntervals, ChargedTo, Own
  <1>. DEFINE first == FirstOf(own)
              last == LastOf(own)
  <1>9. /\ first \in own /\ last \in own
        /\ \A x \in own : first[1].t <= x[1].t /\ x[1].t <= last[1].t
        /\ Charge(own) = last[2].v - first[1].v
    BY <1>7, OwnIsStretch
  <1>. HIDE DEF first, last
  <1>10. first[1].v = p[lo]
    <2>1. first[1].t = lo
      <3>1. first[1].t \in Nat /\ lo <= first[1].t /\ first[1].t <= a[1].t
        BY <1>5, <1>6, <1>7, <1>9
      <3>. QED BY <1>1, <1>7, <3>1
    <2>. QED BY <1>6, <1>9, <2>1, IntervalsAre
  <1>11. last[2].v = p[hi]
    <2>1. last[2].t = hi
      <3>. SUFFICES ASSUME last[2].t < hi PROVE FALSE
        BY <1>1, <1>5, <1>6, <1>9
      <3>1. last \in Intervals(p) /\ last[2].t \in CleanGlitches(p)
        BY <1>6, <1>9, IntervalsAre
      <3>2. PICK n \in Intervals(p) : n[1].t = last[2].t
        BY <1>4, <3>1, IntervalAt
      <3>3. lo <= last[2].t /\ last[1].t < last[2].t /\ last[2].t \in Nat /\ last[1].t \in Nat
        BY <1>1, <1>5, <1>6, <1>9
      <3>4. n \in own
        BY <1>3, <3>2, <3>3 DEF Own
      <3>. QED BY <1>9, <3>2, <3>3, <3>4
    <2>. QED BY <1>6, <1>9, <2>1, IntervalsAre
  <1>12. d \in DOMAIN DailyDeltas(p)
    BY <1>7, <1>8 DEF DailyDeltas
  <1>13. DailyDeltas(p)[d] = Charge(own)
    BY <1>8, <1>12 DEF DailyDeltas, Charge
  <1>. QED BY <1>9, <1>10, <1>11, <1>12, <1>13 DEF lo, hi

\* A day with no reading of the preferred column has no total of that column.
LEMMA NotCharged ==
    ASSUME TableInv, NEW c, NEW d, d \in DOMAIN DailyDeltas(Column(c))
    PROVE  \E r \in FilterPreferred(rows) : DayOf(r.t) = d /\ c \in r.cols
  <1>. DEFINE p == Column(c)
  <1>1. PICK x \in UsedIntervals(p) : DayOf(x[1].t) = d
    BY DEF DailyDeltas, ChargedTo
  <1>2. x[1].t \in DOMAIN p
    BY PointsAre, IntervalsAre DEF UsedIntervals
  <1>. QED BY <1>1, <1>2 DEF Column, PointsOf

\* A day with a reading of its column at both its midnights is charged exactly what the
\* meter ran, whatever mix of sources covers it and its neighbours
\* (filter_preferred_granularity, compute_daily_deltas, rebuild_all).
THEOREM DaysAreExact == UsageSpec => []FullDaysAreExact
<1>1. ASSUME TableInv PROVE FullDaysAreExact
  <2>. SUFFICES ASSUME mishaps = 0, NEW d \in Days, NEW c \in Columns,
                       \E r \in FilterPreferred(rows) : r.t = At(d, 0) /\ c \in r.cols,
                       \E r \in FilterPreferred(rows) : r.t = At(d + 1, 0) /\ c \in r.cols,
                       \/ c = Primary
                       \/ ~\E r \in FilterPreferred(rows) : DayOf(r.t) = d /\ Primary \in r.cols
                PROVE  /\ d \in DOMAIN DailyTotals(rows)
                       /\ DailyTotals(rows)[d] = shown[At(d + 1, 0)] - shown[At(d, 0)]
    BY DEF FullDaysAreExact
  <2>. DEFINE p == Column(c)
  <2>1. At(d, 0) \in DOMAIN p /\ At(d + 1, 0) \in DOMAIN p
    BY DEF Column, PointsOf
  <2>2. Series(p) /\ DOMAIN p \subseteq DOMAIN shown /\ \A t \in DOMAIN p : p[t] = shown[t]
    BY <1>1, PointsAre
  <2>3. \A s, t \in DOMAIN p : s < t => p[s] <= p[t]
    BY <1>1, <2>2 DEF TableInv, Undisturbed
  <2>4. d \in Nat
    BY UsageAssumption, DaysInOrder DEF Days
  <2>5. /\ d \in DOMAIN DailyDeltas(p)
        /\ DailyDeltas(p)[d] = p[At(d + 1, 0)] - p[At(d, 0)]
    <3>. HIDE DEF p
    <3>. QED BY <2>1, <2>2, <2>3, <2>4, RisingDay
  <2>6. \A k : DeltasOf(rows, k) = DailyDeltas(Column(k))
    BY DEF DeltasOf, Column
  <2>7. /\ d \in DOMAIN DailyTotals(rows)
        /\ DailyTotals(rows)[d] = DailyDeltas(p)[d]
    <3>1. CASE c = Primary
      BY <2>5, <2>6, <3>1 DEF DailyTotals
    <3>2. CASE c # Primary
      <4>1. c = Fallback
        BY <3>2 DEF Columns
      <4>2. d \notin DOMAIN DailyDeltas(Column(Primary))
        BY <1>1, <3>2, NotCharged
      <4>. QED BY <2>5, <2>6, <4>1, <4>2 DEF DailyTotals
    <3>. QED BY <3>1, <3>2
  <2>. QED BY <2>1, <2>2, <2>5, <2>7
<1>2. TableInv => FullDaysAreExact
  BY <1>1
<1>. QED BY <1>2, TableIsRead, PTL

-----------------------------------------------------------------------------
(* What the meter ran during an interval. *)

\* The moments charged to the interval x: up to its end, after every kept point before
\* it at which the reading is what the meter showed.
Span(p, x) ==
    {m \in DOMAIN shown :
        /\ x[2].v > 0 /\ shown[m] > 0 /\ m <= x[2].t
        /\ \A k \in CleanGlitches(p) : k <= x[1].t /\ p[k] = shown[k] => k < m}

\* A series of the meter's readings that begins with what it showed, and whose dips
\* are not taken for a new meter.
Readable(p) ==
    /\ Series(p) /\ DOMAIN p \subseteq DOMAIN shown /\ DOMAIN p # {}
    /\ \A t \in DOMAIN p : p[t] = shown[t] \/ p[t] = 0
    /\ p[Min(DOMAIN p)] = shown[Min(DOMAIN p)]
    /\ ~OutlastsLookahead(p)

\* From a point that is a dip back to the last kept one before it that is not, every
\* reading is a zero.
LEMMA DipIsZeros ==
    ASSUME TableInv, NEW p, Readable(p), NEW s \in CleanGlitches(p),
           NEW k \in CleanGlitches(p), k <= s,
           \A x \in CleanGlitches(p) : k <= x /\ x <= s => p[x] # shown[x]
    PROVE  \A x \in DOMAIN p : k <= x /\ x <= s => p[x] = 0
  <1>. DEFINE K == CleanGlitches(p)
  <1>1. K \subseteq DOMAIN p /\ Series(p)
    BY CleanGlitchesIsCleaned DEF Cleaned, Readable
  <1>2. SUFFICES ASSUME NEW x \in DOMAIN p, k <= x, x <= s, p[x] # 0 PROVE FALSE
    OBVIOUS
  <1>. DEFINE upTo == {y \in K : k <= y /\ y <= x}
  <1>3. Numbers(upTo)
    <2>1. upTo \subseteq DOMAIN p /\ k \in upTo
      BY <1>1, <1>2 DEF Series
    <2>. HIDE DEF upTo
    <2>. QED BY <1>1, <2>1, FS_Subset DEF Numbers, Series
  <1>4. PICK l \in upTo : \A y \in upTo : y <= l
    <2>. HIDE DEF upTo
    <2>. QED BY <1>3, EndsExist
  <1>5. l \in DOMAIN p /\ l \in Nat /\ x \in Nat /\ k \in Nat /\ s \in Nat /\ k <= l /\ l <= x
    BY <1>1, <1>2, <1>4 DEF Series
  <1>6. p[l] # shown[l]
    BY <1>2, <1>4, <1>5
  <1>7. p[l] = 0
    BY <1>5, <1>6 DEF Readable
  <1>8. l < x
    BY <1>2, <1>5, <1>7
  <1>9. After(p, l) # {}
    BY <1>8 DEF After
  <1>10. KeptAfter(p, l) \in K /\ KeptAfter(p, l) > l
    BY <1>1, <1>4, <1>9, Chain
  <1>11. KeptAfter(p, l) <= x /\ KeptAfter(p, l) \in Nat
    BY <1>1, <1>5, <1>7, <1>8, <1>9, KeptAfterType DEF Series
  <1>12. KeptAfter(p, l) \in upTo
    BY <1>5, <1>10, <1>11
  <1>. HIDE DEF upTo
  <1>. QED BY <1>4, <1>5, <1>10, <1>11, <1>12

\* An interval is charged no more than what the meter ran in its span.
LEMMA GainIsRun ==
    ASSUME TableInv, NEW p, Readable(p), NEW x \in UsedIntervals(p)
    PROVE  x[2].v - x[1].v \in Int /\ x[2].v - x[1].v <= Cardinality(Span(p, x))
  <1>. DEFINE K == CleanGlitches(p)
              s == x[1].t
              w == x[2].t
              H == {k \in K : k <= s /\ p[k] = shown[k]}
  <1>1. K \subseteq DOMAIN p /\ Series(p)
    BY CleanGlitchesIsCleaned DEF Cleaned, Readable
  <1>2. x \in Intervals(p) /\ x[1].v <= x[2].v /\ w - s <= MAX_DELTA_SPAN
    BY DEF UsedIntervals, WithinSpan
  <1>3. /\ s \in K /\ s \in DOMAIN p /\ s \in Nat /\ x[1].v = p[s] /\ x[1].v \in Nat
        /\ w \in K /\ w \in DOMAIN p /\ w \in Nat /\ x[2].v = p[w] /\ x[2].v \in Nat
        /\ s < w
    BY <1>1, <1>2, IntervalsAre
  <1>. HIDE DEF s, w
  <1>4. Numbers(H)
    <2>1. Min(DOMAIN p) \in K /\ \A t \in DOMAIN p : Min(DOMAIN p) <= t
      BY <1>1, FirstIsKept DEF Readable
    <2>2. Min(DOMAIN p) \in H
      BY <1>3, <2>1 DEF Readable
    <2>3. H \subseteq DOMAIN p
      BY <1>1
    <2>. HIDE DEF H
    <2>. QED BY <1>1, <2>2, <2>3, FS_Subset DEF Numbers, Series
  <1>5. PICK h \in H : \A k \in H : k <= h
    <2>. HIDE DEF H
    <2>. QED BY <1>4, EndsExist
  <1>6. h \in K /\ h \in DOMAIN p /\ h \in Nat /\ h <= s /\ p[h] = shown[h] /\ p[h] \in Nat
    BY <1>1, <1>5 DEF Series
  <1>7. s \in DOMAIN shown /\ w \in DOMAIN shown /\ h \in DOMAIN shown
    BY <1>3, <1>6 DEF Readable
  <1>8. \A t : IsFiniteSet(Running(h, t)) /\ Cardinality(Running(h, t)) \in Nat
    BY RunningFinite DEF TableInv
  <1>9. CASE x[2].v = 0
    <2>1. Span(p, x) = {}
      BY <1>9 DEF Span
    <2>2. Cardinality(Span(p, x)) = 0
      BY <2>1, FS_EmptySet
    <2>. QED BY <1>2, <1>3, <1>9, <2>2
  <1>10. CASE x[2].v # 0
    <2>1. x[2].v = shown[w] /\ x[2].v > 0
      BY <1>3, <1>10 DEF Readable
    <2>2. Span(p, x) = Running(h, w)
      <3>1. \A m \in DOMAIN shown : m \in Nat
        BY UsageAssumption DEF TableInv, TableType
      <3>2. \A m \in DOMAIN shown : (\A k \in H : k < m) <=> h < m
        <4>1. \A k \in H : k \in Nat
          BY <1>4 DEF Numbers
        <4>. HIDE DEF H
        <4>. QED BY <1>5, <3>1, <4>1
      <3>. QED BY <2>1, <3>2 DEF Span, Running, s, w
    <2>3. \/ shown[w] <= Cardinality(Running(h, w))
          \/ shown[w] = shown[h] + Cardinality(Running(h, w))
      BY <1>3, <1>6, <1>7 DEF TableInv, ShownRuns
    <2>4. CASE h = s
      BY <1>3, <1>6, <1>8, <2>1, <2>2, <2>3, <2>4
    <2>5. CASE h # s
      <3>1. h < s /\ s \notin H
        BY <1>3, <1>5, <1>6, <2>5
      <3>2. p[s] # shown[s] /\ x[1].v = 0
        <4>1. p[s] # shown[s]
          BY <1>3, <3>1
        <4>. QED BY <1>3, <4>1 DEF Readable
      <3>3. shown[w] <= Cardinality(Running(h, w))
        <4>. SUFFICES ASSUME ~(shown[w] <= Cardinality(Running(h, w))) PROVE FALSE
          OBVIOUS
        <4>1. shown[w] = shown[h] + Cardinality(Running(h, w))
          BY <2>3
        <4>2. p[h] > 0
          BY <1>6, <1>8, <4>1
        <4>. DEFINE k == KeptAfter(p, h)
        <4>3. s \in After(p, h)
          BY <1>3, <3>1 DEF After
        <4>4. k \in K /\ k > h /\ k <= s
          BY <1>1, <1>3, <1>6, <3>1, <4>3, Chain
        <4>5. k \in DOMAIN p /\ k \in Nat
          BY <1>1, <4>4 DEF Series
        <4>6. \A y \in K : k <= y /\ y <= s => p[y] # shown[y]
          <5>. SUFFICES ASSUME NEW y \in K, k <= y, y <= s, p[y] = shown[y] PROVE FALSE
            OBVIOUS
          <5>1. y <= h /\ y \in Nat
            BY <1>1, <1>5 DEF Series
          <5>. HIDE DEF k
          <5>. QED BY <1>6, <4>4, <4>5, <5>1
        <4>7. \A y \in DOMAIN p : k <= y /\ y <= s => p[y] = 0
          <5>. HIDE DEF k
          <5>. QED BY <1>3, <4>4, <4>6, DipIsZeros
        <4>8. p[k] = 0 /\ p[k] # shown[k]
          BY <1>3, <4>4, <4>5, <4>6, <4>7
        <4>9. \A y \in DOMAIN p : y > h /\ y <= k + Lookahead => p[y] < p[h]
          BY <1>1, <1>6, <4>2, <4>3, <4>8, KeptAfterType
        <4>. HIDE DEF k
        <4>10. ~(s - k > Lookahead - MAX_DELTA_SPAN)
          BY <1>3, <3>2, <4>5, <4>7, <4>8 DEF Readable, OutlastsLookahead
        <4>11. w <= k + Lookahead
          BY <1>2, <1>3, <4>5, <4>10 DEF Lookahead, MAX_DELTA_SPAN, MinutesPerDay, s, w
        <4>12. p[w] < p[h]
          BY <1>3, <1>6, <3>1, <4>9, <4>11
        <4>. QED BY <1>3, <1>6, <1>8, <2>1, <4>1, <4>12
      <3>. QED BY <1>3, <1>8, <2>1, <2>2, <3>2, <3>3
    <2>. QED BY <2>4, <2>5
  <1>. QED BY <1>9, <1>10

\* No moment is in the spans of two intervals.
LEMMA SpansApart ==
    ASSUME TableInv, NEW p, Readable(p), NEW x \in UsedIntervals(p), NEW y \in UsedIntervals(p),
           x # y
    PROVE  Span(p, x) \cap Span(p, y) = {}
  <1>1. ASSUME NEW a \in UsedIntervals(p), NEW b \in UsedIntervals(p), a[1].t < b[1].t
        PROVE  Span(p, a) \cap Span(p, b) = {}
    <2>1. a \in Intervals(p) /\ b \in Intervals(p) /\ Series(p)
      BY DEF UsedIntervals, Readable
    <2>2. a[2].t <= b[1].t
      BY <1>1, <2>1, IntervalsInOrder
    <2>3. /\ a[2].t \in CleanGlitches(p) /\ a[2].t \in DOMAIN p /\ a[2].t \in Nat
          /\ a[2].v = p[a[2].t]
      BY <2>1, IntervalsAre
    <2>. SUFFICES ASSUME NEW m \in Span(p, a), m \in Span(p, b) PROVE FALSE
      OBVIOUS
    <2>4. a[2].v > 0 /\ m <= a[2].t /\ m \in Nat
      BY UsageAssumption DEF Span, TableInv, TableType
    <2>5. p[a[2].t] = shown[a[2].t]
      BY <2>3, <2>4 DEF Readable
    <2>6. a[2].t < m
      BY <2>2, <2>3, <2>5 DEF Span
    <2>. QED BY <2>3, <2>4, <2>6
  <1>2. x[1].t < y[1].t \/ y[1].t < x[1].t
    <2>1. x \in Intervals(p) /\ y \in Intervals(p) /\ Series(p)
      BY DEF UsedIntervals, Readable
    <2>2. x[1].t # y[1].t /\ x[1].t \in Nat /\ y[1].t \in Nat
      BY <2>1, IntervalsInOrder, IntervalsAre
    <2>. QED BY <2>2
  <1>. QED BY <1>1, <1>2

\* The moments at which the meter ran.
RanMoments == {t \in DOMAIN shown : \E s \in DOMAIN shown : s < t /\ shown[t] > 0}

\* Spans are among them.
LEMMA SpanRan ==
    ASSUME TableInv, NEW p, Readable(p), NEW x \in UsedIntervals(p)
    PROVE  Span(p, x) \subseteq RanMoments
  <1>1. x \in Intervals(p) /\ Series(p)
    BY DEF UsedIntervals, Readable
  <1>. DEFINE b == Min(DOMAIN p)
  <1>2. b \in CleanGlitches(p) /\ b <= x[1].t /\ p[b] = shown[b]
    BY <1>1, IntervalsAre, FirstIsKept DEF Readable
  <1>3. b \in DOMAIN shown
    BY <1>1, <1>2, CleanGlitchesIsCleaned DEF Cleaned, Readable
  <1>. HIDE DEF b
  <1>. QED BY <1>2, <1>3 DEF Span, RanMoments

\* What is charged for some of the intervals is no more than what their spans cover.
LEMMA ChargeIsRun ==
    ASSUME TableInv, NEW p, Readable(p), NEW X \in SUBSET UsedIntervals(p)
    PROVE  /\ Charge(X) \in Int
           /\ Charge(X) <= Cardinality({m \in RanMoments : \E x \in X : m \in Span(p, x)})
  <1>. DEFINE f == Gains(X)
              M == [x \in X |-> Span(p, x)]
  <1>1. IsFiniteSet(X) /\ IsFiniteSet(RanMoments)
    <2>1. X \in SUBSET Intervals(p)
      BY DEF UsedIntervals
    <2>2. RanMoments \in SUBSET Moments
      BY DEF RanMoments, TableInv, TableType
    <2>. QED BY <2>1, <2>2, IntervalsFinite, UsageAssumption, FS_Subset DEF Readable
  <1>2. \A x \in X : f[x] \in Int /\ M[x] \subseteq RanMoments /\ f[x] <= Cardinality(M[x])
    BY GainIsRun, SpanRan DEF Gains
  <1>3. \A x, y \in X : x # y => M[x] \cap M[y] = {}
    BY SpansApart
  <1>4. {m \in RanMoments : \E x \in X : m \in M[x]}
            = {m \in RanMoments : \E x \in X : m \in Span(p, x)}
    OBVIOUS
  <1>5. Charge(X) = Total(f, X)
    BY <1>1, ChargeIsTotal
  <1>. HIDE DEF f, M
  <1>6. Total(f, X) <= Cardinality({m \in RanMoments : \E x \in X : m \in M[x]})
    BY <1>1, <1>2, <1>3, TotalOfParts
  <1>7. Total(f, X) \in Int
    BY <1>1, <1>2, TotalType
  <1>. QED BY <1>4, <1>5, <1>6, <1>7

\* And so is what is charged for all the days.
LEMMA DaysAreRun ==
    ASSUME TableInv, NEW p, Readable(p)
    PROVE  Total(DailyDeltas(p), DOMAIN DailyDeltas(p)) <= Cardinality(RanMoments)
  <1>. DEFINE used == UsedIntervals(p)
              D == {ChargedTo(x) : x \in used}
              of(d) == {x \in used : ChargedTo(x) = d}
              f == DailyDeltas(p)
              M == [d \in D |-> {m \in RanMoments : \E x \in of(d) : m \in Span(p, x)}]
              day == [x \in used |-> ChargedTo(x)]
  <1>1. DOMAIN f = D /\ \A d \in D : f[d] = Charge(of(d))
    BY DEF DailyDeltas, Charge
  <1>2. IsFiniteSet(RanMoments) /\ Cardinality(RanMoments) \in Nat
    <2>1. RanMoments \in SUBSET Moments
      BY DEF RanMoments, TableInv, TableType
    <2>. QED BY <2>1, UsageAssumption, FS_Subset, FS_CardinalityType
  <1>3. IsFiniteSet(D)
    <2>1. used \in SUBSET Intervals(p)
      BY DEF UsedIntervals
    <2>2. IsFiniteSet(used)
      BY <2>1, IntervalsFinite, FS_Subset DEF Readable
    <2>3. day \in [used -> D] /\ \A d \in D : \E x \in used : day[x] = d
      OBVIOUS
    <2>. HIDE DEF day, D, used
    <2>4. day \in Surjection(used, D)
      BY <2>3, Fun_IsSurj
    <2>. QED BY <2>2, <2>4, FS_Surjection
  <1>4. ASSUME NEW d \in D
        PROVE  f[d] \in Int /\ M[d] \subseteq RanMoments /\ f[d] <= Cardinality(M[d])
    <2>1. of(d) \in SUBSET used
      OBVIOUS
    <2>2. Charge(of(d)) \in Int /\ Charge(of(d)) <= Cardinality(M[d])
      <3>1. M[d] = {m \in RanMoments : \E x \in of(d) : m \in Span(p, x)}
        OBVIOUS
      <3>. HIDE DEF of, M
      <3>. QED BY <2>1, <3>1, ChargeIsRun
    <2>. QED BY <1>1, <2>2
  <1>5. ASSUME NEW d \in D, NEW e \in D, d # e PROVE M[d] \cap M[e] = {}
    <2>. SUFFICES ASSUME NEW m \in M[d], m \in M[e] PROVE FALSE
      OBVIOUS
    <2>1. PICK x \in of(d), y \in of(e) : m \in Span(p, x) /\ m \in Span(p, y)
      OBVIOUS
    <2>2. x # y /\ x \in used /\ y \in used
      BY <1>5
    <2>. QED BY <2>1, <2>2, SpansApart
  <1>6. {m \in RanMoments : \E d \in D : m \in M[d]} \in SUBSET RanMoments
    OBVIOUS
  <1>. HIDE DEF f, M, D
  <1>7. Total(f, D) <= Cardinality({m \in RanMoments : \E d \in D : m \in M[d]})
    BY <1>2, <1>3, <1>4, <1>5, TotalOfParts
  <1>8. /\ Cardinality({m \in RanMoments : \E d \in D : m \in M[d]}) <= Cardinality(RanMoments)
        /\ Cardinality({m \in RanMoments : \E d \in D : m \in M[d]}) \in Nat
    BY <1>2, <1>6, FS_Subset, FS_CardinalityType
  <1>9. Total(f, D) \in Int
    BY <1>3, <1>4, TotalType
  <1>. QED BY <1>1, <1>2, <1>7, <1>8, <1>9 DEF f

\* No column charges more than the meter ran, for any dips within the look-ahead, any
\* new meters, deleted readings and mix of sources: what an interval after a dip is
\* charged, no other interval is (clean_cumulative_glitches, compute_daily_deltas).
THEOREM NothingIsInvented == UsageSpec => []NoPhantomUsage
<1>1. ASSUME TableInv PROVE NoPhantomUsage
  <2>. SUFFICES ASSUME NEW c \in Columns, DOMAIN Column(c) # {},
                       Column(c)[Min(DOMAIN Column(c))] = shown[Min(DOMAIN Column(c))],
                       ~OutlastsLookahead(Column(c))
                PROVE  MapThenSumSet(LAMBDA d : DeltasOf(rows, c)[d], DOMAIN DeltasOf(rows, c))
                           <= Ran
    BY DEF NoPhantomUsage, Column
  <2>1. Readable(Column(c))
    BY <1>1, PointsAre DEF Readable
  <2>2. Total(DailyDeltas(Column(c)), DOMAIN DailyDeltas(Column(c))) <= Cardinality(RanMoments)
    BY <1>1, <2>1, DaysAreRun
  <2>3. DeltasOf(rows, c) = DailyDeltas(Column(c)) /\ Ran = Cardinality(RanMoments)
    BY DEF DeltasOf, Column, Ran, RanMoments
  <2>. QED BY <2>2, <2>3 DEF Total
<1>2. TableInv => NoPhantomUsage
  BY <1>1
<1>. QED BY <1>2, TableIsRead, PTL

-----------------------------------------------------------------------------
(* Who was at home: the log, and the entry in force in a slot. *)

LogType ==
    /\ IsFiniteSet(log)
    /\ log \subseteq [from : 0..(End - 1), to : 1..End, count : Counts]
    /\ \A e \in log : e.from <= e.to
    /\ \A e, f \in log : e.from = f.from /\ e.to = f.to => e = f

\* No entry ends before it begins, and no two have the same limits (OccupancyNext).
LEMMA LogIsTyped == OccupancySpec => []LogType
<1>1. OccupancyInit => LogType
  BY FS_EmptySet DEF OccupancyInit, LogType
<1>2. LogType /\ [OccupancyNext]_log => LogType'
  <2>. SUFFICES ASSUME LogType, [OccupancyNext]_log PROVE LogType'
    OBVIOUS
  <2>1. ASSUME NEW from \in 0..(End - 1), NEW to \in 1..End, NEW count \in Counts,
               LogEntry(from, to, count)
        PROVE  LogType'
    <3>1. /\ log' = log \cup {[from |-> from, to |-> to, count |-> count]} /\ from <= to
          /\ ~\E e \in log : e.from = from /\ e.to = to
      BY <2>1 DEF LogEntry
    <3>2. IsFiniteSet(log')
      BY <3>1, FS_AddElement DEF LogType
    <3>. QED BY <3>1, <3>2 DEF LogType
  <2>2. ASSUME NEW e \in log, DeleteEntry(e) PROVE LogType'
    <3>1. log' = log \ {e}
      BY <2>2 DEF DeleteEntry
    <3>2. IsFiniteSet(log')
      BY <3>1, FS_RemoveElement DEF LogType
    <3>. QED BY <3>1, <3>2 DEF LogType
  <2>3. CASE UNCHANGED log
    BY <2>3 DEF LogType
  <2>. QED BY <2>1, <2>2, <2>3 DEF OccupancyNext
<1>. QED BY <1>1, <1>2, PTL DEF OccupancySpec

\* The limits are slots of the log.
LEMMA EntriesAre ==
    ASSUME LogType, NEW e \in log
    PROVE  /\ e.from \in Nat /\ e.to \in Nat /\ e.from <= e.to /\ e.to <= End /\ e.count \in Counts
           /\ Length(e) \in Nat /\ Length(e) = e.to - e.from
  <1>1. End \in Nat
    BY OccupancyAssumption DEF End
  <1>. QED BY <1>1 DEF LogType, Length

Best(A) == CHOOSE e \in A : \A f \in A : Prevails(e, f)

\* Of entries that are in force together one prevails, the one no other is more specific than.
LEMMA BestPrevails ==
    ASSUME LogType, NEW A \in SUBSET log, A # {}
    PROVE  /\ Best(A) \in A
           /\ \A e \in A : e = Best(A) <=>
                  ~\E g \in A : Length(g) < Length(e) \/ (Length(g) = Length(e) /\ g.from > e.from)
  <1>. DEFINE R == {q \in A \X A : Prevails(q[1], q[2])}
  <1>1. IsFiniteSet(A)
    BY FS_Subset DEF LogType
  <1>2. \A e \in A : Length(e) \in Nat /\ e.from \in Nat
    BY EntriesAre
  <1>3. \A e, f \in A : <<e, f>> \in R <=> Prevails(e, f)
    OBVIOUS
  <1>4. /\ \A e, f \in A : <<e, f>> \in R \/ <<f, e>> \in R
        /\ \A e, f, g \in A : <<e, f>> \in R /\ <<f, g>> \in R => <<e, g>> \in R
    <2>. HIDE DEF R
    <2>. QED BY <1>2, <1>3 DEF Prevails
  <1>5. PICK b \in A : \A f \in A : <<b, f>> \in R
    <2>. HIDE DEF R
    <2>. QED BY <1>1, <1>4, BestExists
  <1>6. Best(A) \in A /\ \A f \in A : Prevails(Best(A), f)
    BY <1>3, <1>5 DEF Best
  <1>. DEFINE w == Best(A)
  <1>. HIDE DEF w
  <1>7. w \in A /\ w \in log /\ \A f \in A : Prevails(w, f)
    BY <1>6 DEF w
  <1>8. ASSUME NEW e \in A
        PROVE  e = w <=>
                  ~\E g \in A : Length(g) < Length(e) \/ (Length(g) = Length(e) /\ g.from > e.from)
    <2>1. \A g \in A : ~(Length(g) < Length(w) \/ (Length(g) = Length(w) /\ g.from > w.from))
      BY <1>2, <1>7 DEF Prevails
    <2>2. ASSUME ~\E g \in A : Length(g) < Length(e) \/ (Length(g) = Length(e) /\ g.from > e.from)
          PROVE  e = w
      <3>1. ~(Length(w) < Length(e) \/ (Length(w) = Length(e) /\ w.from > e.from))
        BY <1>7, <2>2
      <3>2. Length(w) < Length(e) \/ (Length(w) = Length(e) /\ w.from >= e.from)
        BY <1>7 DEF Prevails
      <3>3. Length(w) = Length(e) /\ w.from = e.from
        BY <1>2, <1>7, <3>1, <3>2
      <3>4. w.to = e.to
        BY <1>7, <3>3, EntriesAre
      <3>. QED BY <1>7, <3>3, <3>4 DEF LogType
    <2>. QED BY <2>1, <2>2
  <1>. QED BY <1>7, <1>8 DEF w

-----------------------------------------------------------------------------
(* The resolved segments. *)

Limits == {e.from : e \in log} \cup {e.to : e \in log}
Pieces == {p \in Limits \X Limits : p[1] < p[2] /\ ~\E c \in Limits : p[1] < c /\ c < p[2]}
Active(p) == {e \in log : e.from <= p[1] /\ e.to >= p[2]}
Segment(p) == [from |-> p[1], to |-> p[2], count |-> Best(Active(p)).count]
Holds(s, x) == s.from <= x /\ x < s.to

\* Limits are slots.
LEMMA LimitsAre == LogType => Limits \subseteq 0..End /\ \A e \in log : e.from \in Limits /\ e.to \in Limits
  <1>. SUFFICES ASSUME LogType
                PROVE  Limits \subseteq 0..End /\ \A e \in log : e.from \in Limits /\ e.to \in Limits
    OBVIOUS
  <1>1. \A e \in log : e.from \in 0..End /\ e.to \in 0..End
    <2>1. End \in Nat
      BY OccupancyAssumption DEF End
    <2>. QED BY <2>1, EntriesAre
  <1>. QED BY <1>1 DEF Limits

\* In a piece the entries in force are those that cover each of its slots.
LEMMA PieceIsCovered ==
    ASSUME LogType, NEW p \in Pieces, NEW x \in Nat, p[1] <= x, x < p[2]
    PROVE  Active(p) = Covering(x)
  <1>1. p[1] \in Nat /\ p[2] \in Nat /\ ~\E c \in Limits : p[1] < c /\ c < p[2]
    BY LimitsAre DEF Pieces
  <1>2. \A e \in log : e.from \in Limits /\ e.to \in Limits /\ e.from \in Nat /\ e.to \in Nat
    BY LimitsAre, EntriesAre
  <1>3. \A e \in log : e.from <= x <=> e.from <= p[1]
    BY <1>1, <1>2
  <1>4. \A e \in log : x < e.to <=> e.to >= p[2]
    BY <1>1, <1>2
  <1>. QED BY <1>3, <1>4 DEF Active, Covering

\* A slot is in one piece at most, ...
LEMMA OnePiece ==
    ASSUME LogType, NEW p \in Pieces, NEW q \in Pieces, NEW x \in Nat,
           p[1] <= x, x < p[2], q[1] <= x, x < q[2]
    PROVE  p = q
  <1>1. /\ p = <<p[1], p[2]>> /\ q = <<q[1], q[2]>>
        /\ p[1] \in Limits /\ p[2] \in Limits /\ q[1] \in Limits /\ q[2] \in Limits
        /\ ~\E c \in Limits : p[1] < c /\ c < p[2]
        /\ ~\E c \in Limits : q[1] < c /\ c < q[2]
    BY DEF Pieces
  <1>2. p[1] \in Nat /\ p[2] \in Nat /\ q[1] \in Nat /\ q[2] \in Nat
    BY <1>1, LimitsAre
  <1>3. p[1] = q[1] /\ p[2] = q[2]
    BY <1>1, <1>2
  <1>. QED BY <1>1, <1>3

\* ... and in one if an entry covers it.
LEMMA SomePiece ==
    ASSUME LogType, NEW x \in Nat, Covering(x) # {}
    PROVE  \E p \in Pieces : p[1] <= x /\ x < p[2]
  <1>1. PICK e \in log : e.from <= x /\ x < e.to
    BY DEF Covering
  <1>2. Limits \subseteq 0..End /\ e.from \in Limits /\ e.to \in Limits /\ End \in Nat
    BY LimitsAre, OccupancyAssumption DEF End
  <1>. DEFINE lower == {c \in Limits : c <= x}
              upper == {c \in Limits : x < c}
  <1>3. /\ lower \subseteq 0..End /\ lower # {} /\ upper \subseteq 0..End /\ upper # {}
        /\ 0 \in Int /\ End \in Int
    <2>1. lower \subseteq 0..End /\ lower # {} /\ upper \subseteq 0..End /\ upper # {}
      BY <1>1, <1>2
    <2>2. 0 \in Int /\ End \in Int
      BY <1>2
    <2>. QED BY <2>1, <2>2
  <1>4. Max(lower) \in lower /\ \A c \in lower : Max(lower) >= c
    <2>. HIDE DEF lower
    <2>. QED BY <1>3, MaxIsLargest
  <1>5. Min(upper) \in upper /\ \A c \in upper : Min(upper) <= c
    <2>. HIDE DEF upper
    <2>. QED BY <1>3, MinIsSmallest
  <1>6. PICK a \in lower, b \in upper : (\A c \in lower : a >= c) /\ \A c \in upper : b <= c
    BY <1>4, <1>5
  <1>7. a \in Limits /\ b \in Limits /\ a \in Nat /\ b \in Nat /\ a <= x /\ x < b
    BY <1>2
  <1>8. ~\E c \in Limits : a < c /\ c < b
    <2>. SUFFICES ASSUME NEW c \in Limits, a < c, c < b PROVE FALSE
      OBVIOUS
    <2>1. c \in Nat
      BY <1>2
    <2>. QED BY <1>6, <1>7, <2>1
  <1>9. <<a, b>> \in Pieces
    BY <1>7, <1>8 DEF Pieces
  <1>. QED BY <1>7, <1>9

\* The counts in force in a slot that is covered.
Specific(y) ==
    {e.count : e \in {f \in Covering(y) :
        ~\E g \in Covering(y) : Length(g) < Length(f) \/ (Length(g) = Length(f) /\ g.from > f.from)}}

\* The resolved segments are those of the pieces.
LEMMA ResolvedAre == Resolved = {Segment(p) : p \in {q \in Pieces : Active(q) # {}}}
  BY DEF Resolved, Pieces, Limits, Active, Segment, Best

\* What a resolved segment says of a slot it holds.
LEMMA ResolvedSlot ==
    ASSUME LogType, NEW s \in Resolved
    PROVE  /\ s.from \in Nat /\ s.to \in Nat /\ s.from < s.to /\ s.to <= End /\ s.count \in Counts
           /\ s = [from |-> s.from, to |-> s.to, count |-> s.count]
           /\ \A x \in Nat : Holds(s, x) => Covering(x) # {} /\ Specific(x) = {s.count}
  <1>1. PICK p \in Pieces : Active(p) # {} /\ s = Segment(p)
    BY ResolvedAre
  <1>2. s.from = p[1] /\ s.to = p[2] /\ s.count = Best(Active(p)).count
    BY <1>1 DEF Segment
  <1>3. p[1] \in Nat /\ p[2] \in Nat /\ p[1] < p[2] /\ p[2] <= End
    <2>1. p[1] \in Limits /\ p[2] \in Limits /\ p[1] < p[2] /\ End \in Nat
      BY OccupancyAssumption DEF Pieces, End
    <2>. QED BY <2>1, LimitsAre
  <1>4. Active(p) \in SUBSET log
    BY DEF Active
  <1>5. Best(Active(p)) \in Active(p)
    BY <1>1, <1>4, BestPrevails
  <1>6. s.count \in Counts
    BY <1>2, <1>4, <1>5, EntriesAre
  <1>7. ASSUME NEW x \in Nat, Holds(s, x)
        PROVE  Covering(x) # {} /\ Specific(x) = {s.count}
    <2>1. Active(p) = Covering(x)
      BY <1>2, <1>7, PieceIsCovered DEF Holds
    <2>2. Covering(x) \in SUBSET log
      BY DEF Covering
    <2>. DEFINE A == Covering(x)
    <2>. HIDE DEF A
    <2>3. /\ Best(A) \in A
          /\ \A e \in A : e = Best(A) <=>
                ~\E g \in A : Length(g) < Length(e) \/ (Length(g) = Length(e) /\ g.from > e.from)
      BY <1>1, <2>1, <2>2, BestPrevails DEF A
    <2>4. {f \in A : ~\E g \in A : Length(g) < Length(f) \/ (Length(g) = Length(f) /\ g.from > f.from)}
            = {Best(A)}
      BY <2>3
    <2>5. Specific(x) = {e.count : e \in {Best(A)}}
      BY <2>4 DEF Specific, A
    <2>. QED BY <1>1, <1>2, <2>1, <2>5 DEF A
  <1>8. s = [from |-> s.from, to |-> s.to, count |-> s.count]
    BY <1>1, <1>2 DEF Segment
  <1>. QED BY <1>2, <1>3, <1>6, <1>7, <1>8

\* Every covered slot is held by one resolved segment.
LEMMA OneResolved ==
    ASSUME LogType, NEW x \in Nat
    PROVE  /\ Covering(x) # {} => \E s \in Resolved : Holds(s, x)
           /\ \A s, t \in Resolved : Holds(s, x) /\ Holds(t, x) => s = t
  <1>1. ASSUME Covering(x) # {} PROVE \E s \in Resolved : Holds(s, x)
    <2>1. PICK p \in Pieces : p[1] <= x /\ x < p[2]
      BY <1>1, SomePiece
    <2>2. Active(p) # {}
      BY <1>1, <2>1, PieceIsCovered
    <2>3. Segment(p) \in Resolved
      BY <2>2, ResolvedAre
    <2>4. Holds(Segment(p), x)
      BY <2>1 DEF Holds, Segment
    <2>. QED BY <2>3, <2>4
  <1>2. ASSUME NEW s \in Resolved, NEW t \in Resolved, Holds(s, x), Holds(t, x) PROVE s = t
    <2>1. PICK p \in Pieces : s = Segment(p)
      BY ResolvedAre
    <2>2. PICK q \in Pieces : t = Segment(q)
      BY ResolvedAre
    <2>3. p[1] <= x /\ x < p[2] /\ q[1] <= x /\ x < q[2]
      BY <1>2, <2>1, <2>2 DEF Holds, Segment
    <2>4. p = q
      BY <2>3, OnePiece
    <2>. QED BY <2>1, <2>2, <2>4
  <1>. QED BY <1>1, <1>2

-----------------------------------------------------------------------------
(* The bridged gaps. *)

Nexts(s) == {t \in Resolved : t.from >= s.to}
Following(s) == CHOOSE t \in Nexts(s) : \A u \in Nexts(s) : t.from <= u.from
Bridging(s) == Nexts(s) # {} /\ Following(s).from > s.to /\ Bridged(Following(s).from - s.to)
Bridge(s) == [from |-> s.to, to |-> Following(s).from, count |-> s.count]

Before(x) == {y \in 0..x : Covering(y) # {}}
Behind(x) == {y \in x..(End - 1) : Covering(y) # {}}

\* A slot that no entry covers, with covered ones at a short distance on both sides.
InGap(x) ==
    /\ Covering(x) = {} /\ Before(x) # {} /\ Behind(x) # {}
    /\ Min(Behind(x)) - Max(Before(x)) - 1 < (BridgeDays + 1) * SlotsPerDay

\* The definitions of the model, with these names.
LEMMA SegmentsAre == Segments = Resolved \cup {Bridge(s) : s \in {r \in Resolved : Bridging(r)}}
  BY DEF Segments, Nexts, Following, Bridging, Bridge

LEMMA AtHomeIs ==
    \A x : AtHome(x) = IF Covering(x) # {} THEN Specific(x)
                       ELSE IF InGap(x) THEN Specific(Max(Before(x))) ELSE {}
  BY DEF AtHome, Specific, Before, Behind, InGap

\* A gap is short if it has no more whole days than may be bridged.
LEMMA ShortGap ==
    ASSUME NEW g \in Nat
    PROVE  Bridged(g) <=> g < (BridgeDays + 1) * SlotsPerDay
  <1>1. SlotsPerDay \in Nat \ {0} /\ BridgeDays \in Nat
    BY OccupancyAssumption
  <1>. DEFINE q == g \div SlotsPerDay
  <1>2. q \in Nat /\ q * SlotsPerDay <= g /\ g < q * SlotsPerDay + SlotsPerDay
    BY <1>1, Quotient
  <1>. HIDE DEF q
  <1>3. q <= BridgeDays => q * SlotsPerDay <= BridgeDays * SlotsPerDay
    BY <1>1, <1>2
  <1>4. q >= BridgeDays + 1 => q * SlotsPerDay >= (BridgeDays + 1) * SlotsPerDay
    BY <1>1, <1>2
  <1>5. (BridgeDays + 1) * SlotsPerDay = BridgeDays * SlotsPerDay + SlotsPerDay
    BY <1>1
  <1>6. q * SlotsPerDay \in Nat /\ BridgeDays * SlotsPerDay \in Nat
    BY <1>1, <1>2
  <1>7. q <= BridgeDays <=> g < (BridgeDays + 1) * SlotsPerDay
    BY <1>1, <1>2, <1>3, <1>4, <1>5, <1>6
  <1>. QED BY <1>7 DEF Bridged, q

\* The segment that follows is the nearest.
LEMMA FollowingIs ==
    ASSUME LogType, NEW s \in Resolved, Nexts(s) # {}
    PROVE  /\ Following(s) \in Resolved /\ Following(s).from >= s.to
           /\ \A t \in Resolved : t.from >= s.to => Following(s).from <= t.from
  <1>. DEFINE froms == {x \in 0..End : \E t \in Nexts(s) : t.from = x}
  <1>1. \A t \in Nexts(s) : t \in Resolved /\ t.from >= s.to /\ t.from \in 0..End
    <2>1. End \in Nat
      BY OccupancyAssumption DEF End
    <2>. QED BY <2>1, ResolvedSlot DEF Nexts
  <1>2. froms # {} /\ froms \subseteq 0..End /\ 0 \in Int /\ End \in Int
    BY <1>1, OccupancyAssumption DEF End
  <1>3. Min(froms) \in froms /\ \A x \in froms : Min(froms) <= x
    <2>. HIDE DEF froms
    <2>. QED BY <1>2, MinIsSmallest
  <1>4. \E t \in Nexts(s) : \A u \in Nexts(s) : t.from <= u.from
    <2>1. PICK t \in Nexts(s) : t.from = Min(froms)
      BY <1>3
    <2>. QED BY <1>1, <1>3, <2>1
  <1>5. Following(s) \in Nexts(s) /\ \A u \in Nexts(s) : Following(s).from <= u.from
    BY <1>4 DEF Following
  <1>. QED BY <1>1, <1>5 DEF Nexts

\* A bridge holds the slots of one gap, and has the count of the slot before it.
LEMMA BridgeSlot ==
    ASSUME LogType, NEW s \in Resolved, Bridging(s)
    PROVE  /\ Bridge(s).from \in Nat /\ Bridge(s).to \in Nat /\ Bridge(s).from < Bridge(s).to
           /\ Bridge(s).to <= End /\ Bridge(s).count \in Counts
           /\ \A x \in Nat : Holds(Bridge(s), x) =>
                  /\ InGap(x) /\ Specific(Max(Before(x))) = {Bridge(s).count}
                  /\ Bridge(s).from = Max(Before(x)) + 1 /\ Bridge(s).to = Min(Behind(x))
  <1>. DEFINE f == Following(s)
  <1>1. /\ s.from \in Nat /\ s.to \in Nat /\ s.from < s.to /\ s.count \in Counts
        /\ \A x \in Nat : Holds(s, x) => Covering(x) # {} /\ Specific(x) = {s.count}
    BY ResolvedSlot
  <1>2. /\ f \in Resolved /\ f.from > s.to /\ Bridged(f.from - s.to)
        /\ \A t \in Resolved : t.from >= s.to => f.from <= t.from
    BY FollowingIs DEF Bridging
  <1>3. /\ f.from \in Nat /\ f.to \in Nat /\ f.from < f.to /\ f.to <= End
        /\ \A x \in Nat : Holds(f, x) => Covering(x) # {}
    BY <1>2, ResolvedSlot
  <1>4. End \in Nat
    BY OccupancyAssumption DEF End
  <1>5. Bridge(s).from = s.to /\ Bridge(s).to = f.from /\ Bridge(s).count = s.count
    BY DEF Bridge
  <1>. HIDE DEF f
  <1>6. ASSUME NEW y \in Nat, s.to <= y, y < f.from
        PROVE  Covering(y) = {}
    <2>. SUFFICES ASSUME Covering(y) # {} PROVE FALSE
      OBVIOUS
    <2>1. PICK r \in Resolved : Holds(r, y)
      BY OneResolved
    <2>2. r.from \in Nat /\ r.to \in Nat /\ r.from <= y /\ y < r.to
      BY <2>1, ResolvedSlot DEF Holds
    <2>3. CASE r.from >= s.to
      BY <1>2, <1>3, <1>6, <2>2, <2>3
    <2>4. CASE r.from < s.to
      <3>1. s.to - 1 \in Nat /\ Holds(r, s.to - 1) /\ Holds(s, s.to - 1)
        BY <1>1, <1>6, <2>2, <2>4 DEF Holds
      <3>2. r = s
        BY <3>1, OneResolved
      <3>. QED BY <1>1, <1>6, <2>2, <3>2
    <2>. QED BY <1>1, <2>2, <2>3, <2>4
  <1>. DEFINE l == s.to - 1
  <1>7. l \in Nat /\ Covering(l) # {} /\ Specific(l) = {s.count}
    BY <1>1 DEF Holds
  <1>8. Covering(f.from) # {}
    BY <1>3 DEF Holds
  <1>9. ASSUME NEW x \in Nat, Holds(Bridge(s), x)
        PROVE  /\ InGap(x) /\ Specific(Max(Before(x))) = {s.count}
               /\ s.to = Max(Before(x)) + 1 /\ f.from = Min(Behind(x))
    <2>1. s.to <= x /\ x < f.from
      BY <1>5, <1>9 DEF Holds
    <2>2. Covering(x) = {}
      BY <1>6, <2>1
    <2>3. Before(x) \subseteq 0..x /\ l \in Before(x) /\ \A y \in Before(x) : y <= l
      <3>1. Before(x) \subseteq 0..x
        BY DEF Before
      <3>2. l \in Before(x)
        BY <1>1, <1>7, <2>1 DEF Before
      <3>3. ASSUME NEW y \in Before(x) PROVE y <= l
        <4>1. y \in Nat /\ y <= x /\ Covering(y) # {}
          BY DEF Before
        <4>2. ~(s.to <= y /\ y < f.from)
          BY <1>6, <4>1
        <4>. QED BY <1>1, <1>3, <2>1, <4>1, <4>2
      <3>. QED BY <3>1, <3>2, <3>3
    <2>4. Behind(x) \subseteq 0..End /\ f.from \in Behind(x) /\ \A y \in Behind(x) : f.from <= y
      <3>1. Behind(x) \subseteq 0..End
        BY <1>4 DEF Behind
      <3>2. f.from \in Behind(x)
        BY <1>3, <1>4, <1>8, <2>1 DEF Behind
      <3>3. ASSUME NEW y \in Behind(x) PROVE f.from <= y
        <4>1. y \in Nat /\ x <= y /\ Covering(y) # {}
          BY <1>4 DEF Behind
        <4>2. ~(s.to <= y /\ y < f.from)
          BY <1>6, <4>1
        <4>. QED BY <1>1, <1>3, <2>1, <4>1, <4>2
      <3>. QED BY <3>1, <3>2, <3>3
    <2>5. Max(Before(x)) = l
      <3>1. Max(Before(x)) \in Before(x) /\ \A y \in Before(x) : Max(Before(x)) >= y
        <4>1. 0 \in Int /\ x \in Int /\ Before(x) # {}
          BY <2>3
        <4>. QED BY <2>3, <4>1, MaxIsLargest
      <3>. QED BY <1>7, <2>3, <3>1
    <2>6. Min(Behind(x)) = f.from
      <3>1. Min(Behind(x)) \in Behind(x) /\ \A y \in Behind(x) : Min(Behind(x)) <= y
        <4>1. 0 \in Int /\ End \in Int /\ Behind(x) # {}
          BY <1>4, <2>4
        <4>. QED BY <2>4, <4>1, MinIsSmallest
      <3>. QED BY <1>3, <2>4, <3>1
    <2>7. f.from - s.to \in Nat /\ f.from - l - 1 = f.from - s.to
      BY <1>1, <1>2, <1>3
    <2>8. f.from - l - 1 < (BridgeDays + 1) * SlotsPerDay
      BY <1>2, <2>7, ShortGap
    <2>9. Before(x) # {} /\ Behind(x) # {}
      BY <2>3, <2>4
    <2>10. InGap(x)
      BY <2>2, <2>5, <2>6, <2>8, <2>9 DEF InGap
    <2>. QED BY <1>1, <1>7, <2>5, <2>6, <2>10
  <1>10. s.to \in Nat /\ f.from \in Nat /\ s.to < f.from /\ f.from <= End
    BY <1>1, <1>2, <1>3, <1>4
  <1>. QED BY <1>1, <1>5, <1>9, <1>10

\* A short gap is bridged.
LEMMA GapIsBridged ==
    ASSUME LogType, NEW x \in Nat, InGap(x)
    PROVE  \E s \in Resolved : Bridging(s) /\ Holds(Bridge(s), x)
  <1>1. End \in Nat /\ Covering(x) = {}
    BY OccupancyAssumption DEF End, InGap
  <1>. DEFINE m == Max(Before(x))
              n == Min(Behind(x))
  <1>2. m \in Before(x) /\ \A y \in Before(x) : m >= y
    <2>1. 0 \in Int /\ x \in Int /\ Before(x) # {} /\ Before(x) \subseteq 0..x
      BY DEF InGap, Before
    <2>. QED BY <2>1, MaxIsLargest
  <1>3. n \in Behind(x) /\ \A y \in Behind(x) : n <= y
    <2>1. 0 \in Int /\ End \in Int /\ Behind(x) # {} /\ Behind(x) \subseteq 0..End
      BY <1>1 DEF InGap, Behind
    <2>. QED BY <2>1, MinIsSmallest
  <1>4. n - m - 1 < (BridgeDays + 1) * SlotsPerDay
    BY DEF InGap
  <1>. HIDE DEF m, n
  <1>5. m \in Nat /\ m < x /\ Covering(m) # {}
    <2>1. m \in 0..x /\ Covering(m) # {}
      BY <1>2 DEF Before
    <2>. QED BY <1>1, <2>1
  <1>6. n \in Nat /\ x < n /\ Covering(n) # {}
    <2>1. n \in x..(End - 1) /\ Covering(n) # {}
      BY <1>3 DEF Behind
    <2>. QED BY <1>1, <2>1
  <1>7. \A y \in Nat : m < y /\ y <= x => Covering(y) = {}
    <2>. SUFFICES ASSUME NEW y \in Nat, m < y, y <= x, Covering(y) # {} PROVE FALSE
      OBVIOUS
    <2>1. y \in Before(x)
      BY DEF Before
    <2>. QED BY <1>2, <1>5, <2>1
  <1>8. \A y \in Nat : x <= y /\ y < n => Covering(y) = {}
    <2>. SUFFICES ASSUME NEW y \in Nat, x <= y, y < n, Covering(y) # {} PROVE FALSE
      OBVIOUS
    <2>1. n <= End - 1
      BY <1>1, <1>3 DEF Behind
    <2>2. y \in Behind(x)
      BY <1>1, <1>6, <2>1 DEF Behind
    <2>. QED BY <1>3, <1>6, <2>2
  <1>9. PICK s \in Resolved : Holds(s, m)
    BY <1>5, OneResolved
  <1>10. PICK t \in Resolved : Holds(t, n)
    BY <1>6, OneResolved
  <1>11. /\ s.from \in Nat /\ s.to \in Nat /\ t.from \in Nat /\ t.to \in Nat
         /\ \A y \in Nat : Holds(s, y) \/ Holds(t, y) => Covering(y) # {}
    BY ResolvedSlot
  <1>12. s.to = m + 1
    <2>. SUFFICES ASSUME s.to > m + 1 PROVE FALSE
      BY <1>5, <1>9, <1>11 DEF Holds
    <2>1. m + 1 \in Nat /\ m < m + 1 /\ m + 1 <= x /\ Holds(s, m + 1)
      BY <1>5, <1>9, <1>11 DEF Holds
    <2>. QED BY <1>7, <1>11, <2>1
  <1>13. t.from = n
    <2>. SUFFICES ASSUME t.from < n PROVE FALSE
      BY <1>6, <1>10, <1>11 DEF Holds
    <2>1. n - 1 \in Nat /\ x <= n - 1 /\ n - 1 < n /\ Holds(t, n - 1)
      BY <1>6, <1>10, <1>11 DEF Holds
    <2>. QED BY <1>8, <1>11, <2>1
  <1>14. t \in Nexts(s)
    BY <1>5, <1>6, <1>12, <1>13 DEF Nexts
  <1>. DEFINE f == Following(s)
  <1>15. /\ f \in Resolved /\ f.from >= s.to /\ f.from <= n
    <2>1. t.from >= s.to
      BY <1>14 DEF Nexts
    <2>. QED BY <1>13, <1>14, <2>1, FollowingIs
  <1>. HIDE DEF f
  <1>16. f.from = n
    <2>1. f.from \in Nat /\ Holds(f, f.from)
      BY <1>15, ResolvedSlot DEF Holds
    <2>2. Covering(f.from) # {}
      BY <1>15, <2>1, ResolvedSlot
    <2>3. ~(m < f.from /\ f.from <= x) /\ ~(x <= f.from /\ f.from < n)
      BY <1>7, <1>8, <2>1, <2>2
    <2>. QED BY <1>5, <1>6, <1>12, <1>15, <2>1, <2>3
  <1>17. Bridging(s)
    <2>1. n - (m + 1) \in Nat /\ n - (m + 1) < (BridgeDays + 1) * SlotsPerDay
      BY <1>4, <1>5, <1>6
    <2>2. Bridged(n - (m + 1))
      BY <2>1, ShortGap
    <2>. QED BY <1>5, <1>6, <1>12, <1>14, <1>16, <2>2 DEF Bridging, f
  <1>18. Holds(Bridge(s), x)
    BY <1>5, <1>6, <1>12, <1>16 DEF Bridge, Holds, f
  <1>. QED BY <1>17, <1>18

\* What a segment says of a slot is what the entries say of it.
LEMMA SegmentSlot ==
    ASSUME LogType, NEW s \in Segments
    PROVE  /\ s.from \in Nat /\ s.to \in Nat /\ s.from < s.to /\ s.to <= End /\ s.count \in Counts
           /\ \A x \in Nat : Holds(s, x) => AtHome(x) = {s.count}
           /\ \A t \in Segments, x \in Nat : Holds(s, x) /\ Holds(t, x) => s = t
  <1>1. CASE s \in Resolved
    <2>1. \A x \in Nat : Holds(s, x) => Covering(x) # {} /\ Specific(x) = {s.count}
      BY <1>1, ResolvedSlot
    <2>2. ASSUME NEW t \in Segments, NEW x \in Nat, Holds(s, x), Holds(t, x) PROVE s = t
      <3>1. Covering(x) # {}
        BY <2>1, <2>2
      <3>2. t \in Resolved
        <4>. SUFFICES ASSUME NEW r \in Resolved, Bridging(r), t = Bridge(r) PROVE FALSE
          BY SegmentsAre
        <4>1. InGap(x)
          BY <2>2, BridgeSlot
        <4>. QED BY <3>1, <4>1 DEF InGap
      <3>. QED BY <1>1, <2>2, <3>2, OneResolved
    <2>. QED BY <1>1, <2>1, <2>2, ResolvedSlot, AtHomeIs
  <1>2. ASSUME NEW r \in Resolved, Bridging(r), s = Bridge(r)
        PROVE  /\ s.from \in Nat /\ s.to \in Nat /\ s.from < s.to /\ s.to <= End /\ s.count \in Counts
               /\ \A x \in Nat : Holds(s, x) => AtHome(x) = {s.count}
               /\ \A t \in Segments, x \in Nat : Holds(s, x) /\ Holds(t, x) => s = t
    <2>1. /\ s.from \in Nat /\ s.to \in Nat /\ s.from < s.to /\ s.to <= End /\ s.count \in Counts
          /\ \A x \in Nat : Holds(s, x) =>
                  /\ InGap(x) /\ Specific(Max(Before(x))) = {s.count}
                  /\ s.from = Max(Before(x)) + 1 /\ s.to = Min(Behind(x))
      BY <1>2, BridgeSlot
    <2>2. \A x \in Nat : Holds(s, x) => AtHome(x) = {s.count}
      <3>1. \A x : InGap(x) => Covering(x) = {}
        BY DEF InGap
      <3>. QED BY <2>1, <3>1, AtHomeIs
    <2>3. ASSUME NEW t \in Segments, NEW x \in Nat, Holds(s, x), Holds(t, x) PROVE s = t
      <3>1. InGap(x) /\ Covering(x) = {}
        BY <2>1, <2>3 DEF InGap
      <3>2. PICK u \in Resolved : Bridging(u) /\ t = Bridge(u)
        <4>1. t \notin Resolved
          BY <2>3, <3>1, ResolvedSlot
        <4>. QED BY <4>1, SegmentsAre
      <3>3. /\ Specific(Max(Before(x))) = {t.count}
            /\ t.from = Max(Before(x)) + 1 /\ t.to = Min(Behind(x))
        BY <2>3, <3>2, BridgeSlot
      <3>4. s.from = t.from /\ s.to = t.to /\ s.count = t.count
        BY <2>1, <2>3, <3>3
      <3>. QED BY <1>2, <3>2, <3>4 DEF Bridge
    <2>. QED BY <2>1, <2>2, <2>3
  <1>. QED BY <1>1, <1>2, SegmentsAre

\* A slot no segment holds is one of which the entries say nothing.
LEMMA SlotHasSegment ==
    ASSUME LogType, NEW x \in Nat, AtHome(x) # {}
    PROVE  \E s \in Segments : Holds(s, x)
  <1>1. CASE Covering(x) # {}
    BY <1>1, OneResolved, SegmentsAre
  <1>2. CASE Covering(x) = {}
    <2>1. InGap(x)
      BY <1>2, AtHomeIs
    <2>. QED BY <2>1, GapIsBridged, SegmentsAre
  <1>. QED BY <1>1, <1>2

-----------------------------------------------------------------------------
(* The slots of a day. *)

Slots(d) == (d * SlotsPerDay)..(d * SlotsPerDay + SlotsPerDay - 1)
Inside(s, d) == {x \in Slots(d) : Holds(s, x)}
HomeWith(d, c) == {x \in Slots(d) : c \in AtHome(x)}

On(d, c) == {s \in Segments : s.count = c /\ Overlap(s, d) > 0}
Held(d, c) == MapThenSumSet(LAMBDA s : Overlap(s, d), On(d, c))

\* The smaller and the larger of two.
LEMMA OfTwo ==
    ASSUME NEW a \in Int, NEW b \in Int
    PROVE  /\ Min({a, b}) = IF a <= b THEN a ELSE b
           /\ Max({a, b}) = IF a >= b THEN a ELSE b
  <1>. DEFINE lo == IF a <= b THEN a ELSE b
              hi == IF a >= b THEN a ELSE b
  <1>1. {a, b} \subseteq lo..hi /\ {a, b} # {} /\ lo \in Int /\ hi \in Int
    OBVIOUS
  <1>2. Min({a, b}) \in {a, b} /\ \A y \in {a, b} : Min({a, b}) <= y
    <2>. HIDE DEF lo, hi
    <2>. QED BY <1>1, MinIsSmallest
  <1>3. Max({a, b}) \in {a, b} /\ \A y \in {a, b} : Max({a, b}) >= y
    <2>. HIDE DEF lo, hi
    <2>. QED BY <1>1, MaxIsLargest
  <1>. QED BY <1>2, <1>3

\* A day has slots of the log.
LEMMA SlotsAre ==
    ASSUME NEW d \in 0..(LogDays - 1)
    PROVE  /\ Slots(d) \subseteq 0..(End - 1) /\ Slots(d) \subseteq Nat /\ IsFiniteSet(Slots(d))
           /\ d * SlotsPerDay \in Nat /\ (d + 1) * SlotsPerDay = d * SlotsPerDay + SlotsPerDay
           /\ SlotsPerDay \in Nat \ {0} /\ End \in Nat
  <1>1. SlotsPerDay \in Nat \ {0} /\ LogDays \in Nat /\ d \in Nat /\ d + 1 <= LogDays
    BY OccupancyAssumption
  <1>2. d * SlotsPerDay \in Nat /\ (d + 1) * SlotsPerDay = d * SlotsPerDay + SlotsPerDay
    BY <1>1
  <1>3. (d + 1) * SlotsPerDay <= LogDays * SlotsPerDay
    BY <1>1
  <1>4. End \in Nat /\ d * SlotsPerDay + SlotsPerDay <= End
    BY <1>1, <1>2, <1>3 DEF End
  <1>5. Slots(d) \subseteq 0..(End - 1) /\ Slots(d) \subseteq Nat
    BY <1>1, <1>2, <1>4 DEF Slots
  <1>6. IsFiniteSet(Slots(d))
    BY <1>1, <1>2, FS_Interval DEF Slots
  <1>. QED BY <1>1, <1>2, <1>4, <1>5, <1>6

\* The overlap of a segment with a day is the number of the day's slots it holds.
LEMMA OverlapIs ==
    ASSUME NEW d \in 0..(LogDays - 1), NEW s, s.from \in Nat, s.to \in Nat, s.from < s.to
    PROVE  Overlap(s, d) = Cardinality(Inside(s, d)) /\ IsFiniteSet(Inside(s, d))
  <1>1. /\ d * SlotsPerDay \in Nat /\ (d + 1) * SlotsPerDay = d * SlotsPerDay + SlotsPerDay
        /\ SlotsPerDay \in Nat \ {0}
    BY SlotsAre
  <1>. DEFINE a == d * SlotsPerDay
              b == a + SlotsPerDay
              lo == IF s.from >= a THEN s.from ELSE a
              hi == IF s.to <= b THEN s.to ELSE b
  <1>2. a \in Int /\ b \in Int /\ lo \in Int /\ hi \in Int /\ hi - 1 \in Int /\ hi - lo \in Int
    BY <1>1
  <1>3. Min({s.to, (d + 1) * SlotsPerDay}) = hi /\ Max({s.from, d * SlotsPerDay}) = lo
    <2>1. s.to \in Int /\ s.from \in Int
      OBVIOUS
    <2>2. Min({s.to, b}) = hi /\ Max({s.from, a}) = lo
      BY <1>2, <2>1, OfTwo
    <2>. QED BY <1>1, <2>2
  <1>4. Overlap(s, d) = IF 0 >= hi - lo THEN 0 ELSE hi - lo
    <2>1. Overlap(s, d) = Max({0, hi - lo})
      BY <1>3 DEF Overlap
    <2>. DEFINE n == hi - lo
    <2>2. n \in Int /\ 0 \in Int
      BY <1>2
    <2>. HIDE DEF n
    <2>3. Max({0, n}) = IF 0 >= n THEN 0 ELSE n
      BY <2>2, OfTwo
    <2>. QED BY <2>1, <2>3 DEF n
  <1>5. Inside(s, d) = lo..(hi - 1)
    <2>1. Slots(d) = a..(b - 1)
      BY <1>1 DEF Slots
    <2>2. ASSUME NEW x PROVE x \in Inside(s, d) <=> x \in lo..(hi - 1)
      <3>1. x \in Inside(s, d) <=> x \in a..(b - 1) /\ s.from <= x /\ x < s.to
        BY <2>1 DEF Inside, Holds
      <3>. HIDE DEF a
      <3>. QED BY <1>1, <1>2, <3>1 DEF lo, hi
    <2>. QED BY <2>2
  <1>. HIDE DEF hi, lo
  <1>6. /\ IsFiniteSet(lo..(hi - 1))
        /\ Cardinality(lo..(hi - 1)) = IF lo > hi - 1 THEN 0 ELSE (hi - 1) - lo + 1
    BY <1>2, FS_Interval
  <1>. QED BY <1>2, <1>4, <1>5, <1>6

\* There are finitely many segments.
LEMMA SegmentsFinite == LogType => IsFiniteSet(Segments)
  <1>. SUFFICES ASSUME LogType PROVE IsFiniteSet(Segments)
    OBVIOUS
  <1>. DEFINE begin == [s \in Segments |-> s.from]
  <1>1. End \in Nat
    BY OccupancyAssumption DEF End
  <1>2. \A s \in Segments : s.from \in 0..End /\ s.from \in Nat /\ Holds(s, s.from)
    BY <1>1, SegmentSlot DEF Holds
  <1>3. begin \in [Segments -> 0..End]
    BY <1>2
  <1>4. \A s, t \in Segments : begin[s] = begin[t] => s = t
    <2>. SUFFICES ASSUME NEW s \in Segments, NEW t \in Segments, s.from = t.from PROVE s = t
      OBVIOUS
    <2>1. Holds(s, s.from) /\ Holds(t, s.from) /\ s.from \in Nat
      BY <1>2
    <2>. QED BY <2>1, SegmentSlot
  <1>. HIDE DEF begin
  <1>5. begin \in Injection(Segments, 0..End)
    BY <1>3, <1>4, Fun_IsInj
  <1>6. IsFiniteSet(0..End)
    BY <1>1, FS_Interval
  <1>. QED BY <1>5, <1>6, FS_Injection

\* What a count holds of a day is the number of its slots with that count at home.
LEMMA HeldIs ==
    ASSUME LogType, NEW d \in 0..(LogDays - 1), NEW c
    PROVE  /\ Held(d, c) = Cardinality(HomeWith(d, c)) /\ Held(d, c) \in Nat
           /\ On(d, c) # {} <=> Held(d, c) > 0
           /\ \A s \in On(d, c) : s.from \in Nat
  <1>. DEFINE on == On(d, c)
              f == [s \in on |-> Overlap(s, d)]
              M == [s \in on |-> Inside(s, d)]
  <1>1. /\ IsFiniteSet(Slots(d)) /\ Slots(d) \subseteq Nat
    BY SlotsAre
  <1>2. \A s \in Segments : s.from \in Nat /\ s.to \in Nat /\ s.from < s.to
    BY SegmentSlot
  <1>3. on \subseteq Segments /\ IsFiniteSet(on)
    <2>1. on \subseteq Segments
      BY DEF On
    <2>. QED BY <2>1, SegmentsFinite, FS_Subset
  <1>4. \A s \in Segments : /\ Overlap(s, d) = Cardinality(Inside(s, d)) /\ IsFiniteSet(Inside(s, d))
                            /\ Overlap(s, d) \in Nat
    <2>1. \A s \in Segments : Overlap(s, d) = Cardinality(Inside(s, d)) /\ IsFiniteSet(Inside(s, d))
      BY <1>2, OverlapIs
    <2>. QED BY <2>1, FS_CardinalityType
  <1>5. Held(d, c) = Total(f, on)
    <2>. DEFINE Adds(g) == g = [z \in SUBSET on |->
                                  IF z = {} THEN 0 ELSE Overlap(First(z), d) + g[z \ {First(z)}]]
                chosen == CHOOSE g : Adds(g)
    <2>1. ASSUME NEW g PROVE Adds(g) <=> Sums(f, on, g)
      <3>1. \A z \in SUBSET on : z # {} => f[First(z)] = Overlap(First(z), d)
        BY FirstIsMember
      <3>. HIDE DEF f, on
      <3>. QED BY <3>1 DEF Sums
    <2>2. \E g : Adds(g)
      <3>. HIDE DEF f, on, Adds
      <3>. QED BY <1>3, <2>1, SumsExist
    <2>3. Held(d, c) = chosen[on]
      BY DEF Held, MapThenSumSet, MapThenFoldSet, First
    <2>4. Adds(chosen)
      <3>. HIDE DEF Adds
      <3>. QED BY <2>2
    <2>5. Sums(f, on, chosen)
      <3>. HIDE DEF Adds, chosen, f, on
      <3>. QED BY <2>1, <2>4
    <2>. HIDE DEF chosen, f, on
    <2>. QED BY <1>3, <2>3, <2>5, TotalIsSums
  <1>6. \A s \in on : M[s] \subseteq Slots(d) /\ f[s] = Cardinality(M[s])
    BY <1>3, <1>4 DEF Inside
  <1>7. \A s, t \in on : s # t => M[s] \cap M[t] = {}
    <2>. SUFFICES ASSUME NEW s \in on, NEW t \in on, s # t, NEW x \in Inside(s, d), x \in Inside(t, d)
                  PROVE  FALSE
      OBVIOUS
    <2>1. Holds(s, x) /\ Holds(t, x) /\ x \in Nat /\ s \in Segments /\ t \in Segments
      BY <1>1, <1>3 DEF Inside
    <2>. QED BY <2>1, SegmentSlot
  <1>8. {x \in Slots(d) : \E s \in on : x \in M[s]} = HomeWith(d, c)
    <2>1. ASSUME NEW x \in Slots(d), NEW s \in on, x \in Inside(s, d) PROVE c \in AtHome(x)
      <3>1. s \in Segments /\ s.count = c /\ Holds(s, x) /\ x \in Nat
        BY <1>1, <2>1 DEF Inside, On
      <3>. QED BY <3>1, SegmentSlot
    <2>2. ASSUME NEW x \in Slots(d), c \in AtHome(x) PROVE \E s \in on : x \in Inside(s, d)
      <3>1. PICK s \in Segments : Holds(s, x)
        BY <1>1, <2>2, SlotHasSegment
      <3>2. s.count = c
        BY <1>1, <2>2, <3>1, SegmentSlot
      <3>3. x \in Inside(s, d)
        BY <3>1 DEF Inside
      <3>4. Cardinality(Inside(s, d)) # 0
        BY <1>4, <3>3, FS_EmptySet
      <3>5. Overlap(s, d) > 0
        BY <1>4, <3>4
      <3>. QED BY <3>2, <3>3, <3>5 DEF On
    <2>. QED BY <2>1, <2>2 DEF HomeWith
  <1>. HIDE DEF f, M
  <1>9. Total(f, on) = Cardinality({x \in Slots(d) : \E s \in on : x \in M[s]})
    <2>. HIDE DEF on
    <2>. QED BY <1>1, <1>3, <1>6, <1>7, TotalOfCover
  <1>10. Held(d, c) = Cardinality(HomeWith(d, c))
    BY <1>5, <1>8, <1>9
  <1>11. IsFiniteSet(HomeWith(d, c)) /\ Cardinality(HomeWith(d, c)) \in Nat
    <2>1. HomeWith(d, c) \in SUBSET Slots(d)
      BY DEF HomeWith
    <2>. QED BY <1>1, <2>1, FS_Subset, FS_CardinalityType
  <1>12. on # {} <=> HomeWith(d, c) # {}
    <2>1. ASSUME NEW s \in on PROVE HomeWith(d, c) # {}
      <3>1. Cardinality(Inside(s, d)) # 0
        BY <1>3, <1>4 DEF On
      <3>2. Inside(s, d) # {}
        BY <3>1, FS_EmptySet
      <3>. QED BY <1>8, <2>1, <3>2 DEF M, Inside
    <2>2. HomeWith(d, c) # {} => on # {}
      BY <1>8
    <2>. QED BY <2>1, <2>2
  <1>13. Held(d, c) > 0 <=> HomeWith(d, c) # {}
    <2>1. Cardinality(HomeWith(d, c)) = 0 <=> HomeWith(d, c) = {}
      BY <1>11, FS_EmptySet
    <2>. QED BY <1>10, <1>11, <2>1
  <1>. QED BY <1>2, <1>3, <1>10, <1>11, <1>12, <1>13

-----------------------------------------------------------------------------
(* The number of the day. *)

Seen(d) == {c \in Counts : On(d, c) # {}}
FirstSeen(d, c) == Min({s.from : s \in On(d, c)})
Prefers(d, b, c) == \/ Held(d, b) > Held(d, c)
                    \/ Held(d, b) = Held(d, c) /\ FirstSeen(d, b) >= FirstSeen(d, c)

\* The definition of the model, with these names.
LEMMA OccupancyIs ==
    OccupancyByDay = [d \in {x \in 0..(LogDays - 1) : Seen(x) # {}} |->
                        CHOOSE b \in Seen(d) : \A c \in Seen(d) : Prefers(d, b, c)]
  BY DEF OccupancyByDay, Seen, On, Held, FirstSeen, Prefers

\* Some count of a day is preferred to every other one.
LEMMA PreferredExists ==
    ASSUME LogType, NEW d \in 0..(LogDays - 1), Seen(d) # {}
    PROVE  \E b \in Seen(d) : \A c \in Seen(d) : Prefers(d, b, c)
  <1>. DEFINE R == {q \in Seen(d) \X Seen(d) : Prefers(d, q[1], q[2])}
              who == [s \in {z \in Segments : z.count \in Seen(d)} |-> s.count]
  <1>1. \A c \in Seen(d) : Held(d, c) \in Nat /\ FirstSeen(d, c) \in Nat
    <2>. SUFFICES ASSUME NEW c \in Seen(d) PROVE Held(d, c) \in Nat /\ FirstSeen(d, c) \in Nat
      OBVIOUS
    <2>. DEFINE froms == {s.from : s \in On(d, c)}
    <2>1. End \in Nat
      BY OccupancyAssumption DEF End
    <2>2. \A s \in On(d, c) : s.from \in 0..End
      BY <2>1, SegmentSlot DEF On
    <2>3. froms \subseteq 0..End /\ froms # {} /\ 0 \in Int /\ End \in Int
      BY <2>1, <2>2 DEF Seen
    <2>4. Min(froms) \in froms
      <3>. HIDE DEF froms
      <3>. QED BY <2>3, MinIsSmallest
    <2>5. FirstSeen(d, c) \in Nat
      BY <2>3, <2>4 DEF FirstSeen
    <2>. QED BY <2>5, HeldIs
  <1>2. IsFiniteSet(Seen(d))
    <2>. DEFINE these == {z \in Segments : z.count \in Seen(d)}
    <2>1. IsFiniteSet(these)
      BY SegmentsFinite, FS_Subset
    <2>2. who \in [these -> Seen(d)]
      OBVIOUS
    <2>3. \A c \in Seen(d) : \E s \in these : who[s] = c
      BY DEF Seen, On
    <2>. HIDE DEF who, these
    <2>4. who \in Surjection(these, Seen(d))
      BY <2>2, <2>3, Fun_IsSurj
    <2>. QED BY <2>1, <2>4, FS_Surjection
  <1>3. \A b, c \in Seen(d) : <<b, c>> \in R <=> Prefers(d, b, c)
    OBVIOUS
  <1>4. /\ \A b, c \in Seen(d) : <<b, c>> \in R \/ <<c, b>> \in R
        /\ \A a, b, c \in Seen(d) : <<a, b>> \in R /\ <<b, c>> \in R => <<a, c>> \in R
    <2>. HIDE DEF R
    <2>. QED BY <1>1, <1>3 DEF Prefers
  <1>5. PICK b \in Seen(d) : \A c \in Seen(d) : <<b, c>> \in R
    <2>. HIDE DEF R
    <2>. QED BY <1>2, <1>4, BestExists
  <1>. QED BY <1>3, <1>5

\* The number of a day is one that prevailed in no fewer of its slots than any other,
\* however the entries nest, overlap and leave gaps, and a day has none just when its
\* slots have none (_resolve_occupancy_overlaps, expand_occupancy_by_day).
THEOREM NumberIsTheMajoritys == OccupancySpec => []MajorityOfTheDay
<1>1. ASSUME LogType PROVE MajorityOfTheDay
  <2>. DEFINE byDay == OccupancyByDay
  <2>. SUFFICES ASSUME NEW d \in 0..(LogDays - 1)
                PROVE  IF d \in DOMAIN byDay
                       THEN /\ Cardinality(HomeWith(d, byDay[d])) > 0
                            /\ \A c \in Counts : Cardinality(HomeWith(d, c))
                                                     <= Cardinality(HomeWith(d, byDay[d]))
                       ELSE \A x \in Slots(d) : AtHome(x) = {}
    <3>. DEFINE atHome == [x \in 0..(End - 1) |-> AtHome(x)]
    <3>1. ASSUME NEW d \in 0..(LogDays - 1)
          PROVE  /\ \A c : {x \in Slots(d) : c \in atHome[x]} = HomeWith(d, c)
                 /\ (\A x \in Slots(d) : AtHome(x) = {}) => \A x \in Slots(d) : atHome[x] = {}
      <4>1. Slots(d) \subseteq 0..(End - 1)
        BY SlotsAre
      <4>. QED BY <4>1 DEF HomeWith
    <3>. HIDE DEF atHome
    <3>. QED BY <3>1 DEF MajorityOfTheDay, Slots, atHome
  <2>1. \A c : /\ Held(d, c) = Cardinality(HomeWith(d, c)) /\ Held(d, c) \in Nat
               /\ On(d, c) # {} <=> Held(d, c) > 0
    BY <1>1, HeldIs
  <2>2. CASE d \in DOMAIN byDay
    <3>1. Seen(d) # {}
      BY <2>2, OccupancyIs
    <3>2. byDay[d] = CHOOSE b \in Seen(d) : \A c \in Seen(d) : Prefers(d, b, c)
      BY <2>2, OccupancyIs
    <3>3. byDay[d] \in Seen(d) /\ \A c \in Seen(d) : Prefers(d, byDay[d], c)
      BY <1>1, <3>1, <3>2, PreferredExists
    <3>. DEFINE b == byDay[d]
    <3>. HIDE DEF b
    <3>4. Held(d, b) > 0
      BY <2>1, <3>3 DEF Seen, b
    <3>5. ASSUME NEW c \in Counts PROVE Held(d, c) <= Held(d, b)
      <4>1. CASE c \in Seen(d)
        BY <2>1, <3>3, <4>1 DEF Prefers, b
      <4>2. CASE c \notin Seen(d)
        BY <2>1, <3>4, <4>2 DEF Seen
      <4>. QED BY <4>1, <4>2
    <3>6. /\ Cardinality(HomeWith(d, b)) > 0
          /\ \A c \in Counts : Cardinality(HomeWith(d, c)) <= Cardinality(HomeWith(d, b))
      BY <2>1, <3>4, <3>5
    <3>. QED BY <2>2, <3>6 DEF b
  <2>3. CASE d \notin DOMAIN byDay
    <3>1. Seen(d) = {}
      BY <2>3, OccupancyIs
    <3>. SUFFICES ASSUME NEW x \in Slots(d), AtHome(x) # {} PROVE FALSE
      BY <2>3
    <3>2. x \in Nat
      BY SlotsAre
    <3>3. PICK s \in Segments : Holds(s, x)
      BY <1>1, <3>2, SlotHasSegment
    <3>4. s.count \in Counts /\ AtHome(x) = {s.count}
      BY <1>1, <3>2, <3>3, SegmentSlot
    <3>5. x \in HomeWith(d, s.count)
      BY <3>4 DEF HomeWith
    <3>6. Cardinality(HomeWith(d, s.count)) # 0
      <4>1. HomeWith(d, s.count) \in SUBSET Slots(d) /\ IsFiniteSet(Slots(d))
        BY SlotsAre DEF HomeWith
      <4>2. IsFiniteSet(HomeWith(d, s.count))
        BY <4>1, FS_Subset
      <4>. QED BY <3>5, <4>2, FS_EmptySet
    <3>7. On(d, s.count) # {}
      BY <2>1, <3>6
    <3>. QED BY <3>1, <3>4, <3>7 DEF Seen
  <2>. QED BY <2>2, <2>3
<1>2. LogType => MajorityOfTheDay
  BY <1>1
<1>. QED BY <1>2, LogIsTyped, PTL
================================================================================
