------------------------------- MODULE SetFacts -------------------------------
(***************************************************************************)
(* Facts about division, finite sets of integers and sums over finite sets *)
(* that the proofs of several components need.                             *)
(*                                                                         *)
(* Induction over a finite set is done without an induction rule: of the   *)
(* sets that would refute a statement one has no refuting proper subset    *)
(* (MinimalSubset), and that one is shown not to refute it.                *)
(***************************************************************************)
EXTENDS Integers, FiniteSets, FiniteSetsExt, FiniteSetTheorems, WellFoundedInduction, TLAPS

-----------------------------------------------------------------------------
(* Division. *)

\* The quotient is the number of whole divisors that fit.
LEMMA Quotient ==
    \A a \in Nat, b \in Nat \ {0} :
        a \div b \in Nat /\ (a \div b) * b <= a /\ a < (a \div b) * b + b
OBVIOUS

\* Who is no larger has no more of them.
LEMMA QuotientGrows == \A a, c \in Nat, b \in Nat \ {0} : a <= c => a \div b <= c \div b
OBVIOUS

\* A multiple has as many as it was made of.
LEMMA QuotientOfMultiple == \A q \in Nat, b \in Nat \ {0} : (q * b) \div b = q
OBVIOUS

\* It is no larger than what is divided.
LEMMA QuotientSmall == \A a \in Nat, b \in Nat \ {0} : a \div b <= a
<1> SUFFICES ASSUME NEW a \in Nat, NEW b \in Nat \ {0}
             PROVE  a \div b <= a
  OBVIOUS
<1> DEFINE q == a \div b
<1>1. q \in Nat /\ q * b <= a
  BY Quotient
<1> HIDE DEF q
<1>2. q * b = q + q * (b - 1) /\ q * (b - 1) \in Nat
  BY <1>1
<1>3. q <= a
  BY <1>1, <1>2
<1>4. QED
  BY <1>3 DEF q


-----------------------------------------------------------------------------
\* A set of integers with a lower and an upper bound has a largest member.
LEMMA MaxIsLargest ==
    ASSUME NEW lo \in Int, NEW hi \in Int, NEW S, S \subseteq lo..hi, S # {}
    PROVE  Max(S) \in S /\ \A y \in S : Max(S) >= y
  <1>. DEFINE Below == {n \in Nat : \E x \in S : n = hi - x}
              R == OpToRel(<, Nat)
  <1>1. Below \subseteq Nat /\ Below # {}
    <2>1. PICK x \in S : TRUE
      OBVIOUS
    <2>2. hi - x \in Nat
      BY <2>1
    <2>. QED BY <2>1, <2>2
  <1>2. \E n \in Below : \A k \in Below : ~(<<k, n>> \in R)
    <2>. HIDE DEF Below
    <2>. QED BY <1>1, NatLessThanWellFounded, WFMin
  <1>3. PICK n \in Below : \A k \in Below : ~(k < n)
    BY <1>1, <1>2 DEF OpToRel
  <1>4. PICK x \in S : n = hi - x
    OBVIOUS
  <1>5. \A y \in S : x >= y
    <2>. SUFFICES ASSUME NEW y \in S PROVE x >= y
      OBVIOUS
    <2>1. hi - y \in Below /\ x \in Int /\ y \in Int
      OBVIOUS
    <2>. HIDE DEF Below
    <2>2. ~(hi - y < hi - x)
      BY <1>3, <1>4, <2>1
    <2>. QED BY <2>1, <2>2
  <1>. QED BY <1>5 DEF Max

\* And a smallest one.
LEMMA MinIsSmallest ==
    ASSUME NEW lo \in Int, NEW hi \in Int, NEW S, S \subseteq lo..hi, S # {}
    PROVE  Min(S) \in S /\ \A y \in S : Min(S) <= y
  <1>. DEFINE Above == {n \in Nat : \E x \in S : n = x - lo}
              R == OpToRel(<, Nat)
  <1>1. Above \subseteq Nat /\ Above # {}
    <2>1. PICK x \in S : TRUE
      OBVIOUS
    <2>2. x - lo \in Nat
      BY <2>1
    <2>. QED BY <2>1, <2>2
  <1>2. \E n \in Above : \A k \in Above : ~(<<k, n>> \in R)
    <2>. HIDE DEF Above
    <2>. QED BY <1>1, NatLessThanWellFounded, WFMin
  <1>3. PICK n \in Above : \A k \in Above : ~(k < n)
    BY <1>1, <1>2 DEF OpToRel
  <1>4. PICK x \in S : n = x - lo
    OBVIOUS
  <1>5. \A y \in S : x <= y
    <2>. SUFFICES ASSUME NEW y \in S PROVE x <= y
      OBVIOUS
    <2>1. y - lo \in Above /\ x \in Int /\ y \in Int
      OBVIOUS
    <2>. HIDE DEF Above
    <2>2. ~(y - lo < x - lo)
      BY <1>3, <1>4, <2>1
    <2>. QED BY <2>1, <2>2
  <1>. QED BY <1>5 DEF Min

-----------------------------------------------------------------------------
\* Of the sets in C one has no proper subset in C.
LEMMA MinimalSubset ==
    ASSUME NEW S, IsFiniteSet(S), NEW C, C \subseteq SUBSET S, C # {}
    PROVE  \E T \in C : \A U \in C : U \subseteq T => U = T
<1>1. IsWellFoundedOn(StrictSubsetOrdering(S), SUBSET S)
  BY FS_StrictSubsetOrderingWellFounded, FS_FiniteSubsetsOfFinite
<1>2. PICK T \in C : \A U \in C : ~(<<U, T>> \in StrictSubsetOrdering(S))
  BY <1>1, WFMin
<1>3. \A U \in C : U \subseteq T => U = T
  BY <1>2 DEF StrictSubsetOrdering
<1>4. QED
  BY <1>3

-----------------------------------------------------------------------------
\* The sum of f over S, as the specifications write it.
Total(f, S) == MapThenSumSet(LAMBDA x : f[x], S)

\* The member of s that is added first.
First(s) == CHOOSE x \in s : TRUE

\* g gives the sum of f over every subset of S.
Sums(f, S, g) ==
    g = [s \in SUBSET S |-> IF s = {} THEN 0 ELSE f[First(s)] + g[s \ {First(s)}]]

\* A set that has members has a first one.
LEMMA FirstIsMember == \A s : s # {} => First(s) \in s
BY DEF First

\* The sums are determined by f, ...
LEMMA SumsUnique ==
    ASSUME NEW S, IsFiniteSet(S), NEW f, NEW S1 \in SUBSET S, NEW S2 \in SUBSET S, NEW g, NEW h,
           Sums(f, S1, g), Sums(f, S2, h)
    PROVE  \A s \in SUBSET (S1 \cap S2) : g[s] = h[s]
<1> DEFINE C == {s \in SUBSET (S1 \cap S2) : g[s] # h[s]}
<1> SUFFICES ASSUME C # {}
             PROVE  FALSE
  OBVIOUS
<1>1. C \subseteq SUBSET S
  OBVIOUS
<1>2. PICK s \in C : \A u \in C : u \subseteq s => u = s
  <2> HIDE DEF C
  <2>1. QED
    BY <1>1, MinimalSubset
<1>3. CASE s = {}
  BY <1>3 DEF Sums
<1>4. CASE s # {}
  <2> DEFINE x == First(s)
             u == s \ {x}
  <2>1. x \in s
    BY <1>4, FirstIsMember
  <2>2. g[u] = h[u]
    BY <1>2, <2>1
  <2>3. g[s] = f[x] + g[u] /\ h[s] = f[x] + h[u]
    BY <1>4 DEF Sums
  <2>4. QED
    BY <2>2, <2>3
<1>5. QED
  BY <1>3, <1>4

\* ... and they exist.
LEMMA SumsExist ==
    ASSUME NEW S, IsFiniteSet(S), NEW f
    PROVE  \E g : Sums(f, S, g)
<1> DEFINE C == {T \in SUBSET S : ~\E g : Sums(f, T, g)}
<1> SUFFICES ASSUME C # {}
             PROVE  FALSE
  OBVIOUS
<1>1. PICK T \in C : \A U \in C : U \subseteq T => U = T
  <2>1. C \subseteq SUBSET S
    OBVIOUS
  <2> HIDE DEF C
  <2>2. QED
    BY <2>1, MinimalSubset
<1> DEFINE chosen(U) == CHOOSE g : Sums(f, U, g)
           upTo(U) == chosen(U)[U]
           G == [s \in SUBSET T |-> IF s = {} THEN 0 ELSE f[First(s)] + upTo(s \ {First(s)})]
<1>2. ASSUME NEW U \in SUBSET T, U # T
      PROVE  Sums(f, U, chosen(U))
  <2>1. \E g : Sums(f, U, g)
    BY <1>1, <1>2
  <2>2. QED
    BY <2>1
<1>3. ASSUME NEW U \in SUBSET T, U # T, U # {}
      PROVE  upTo(U) = f[First(U)] + upTo(U \ {First(U)})
  <2> DEFINE V == U \ {First(U)}
  <2>1. First(U) \in U
    BY <1>3, FirstIsMember
  <2>2. V \in SUBSET T /\ V # T /\ V \in SUBSET U
    BY <2>1
  <2>3. Sums(f, U, chosen(U)) /\ Sums(f, V, chosen(V))
    BY <1>2, <1>3, <2>2
  <2>4. chosen(U)[V] = chosen(V)[V]
    <3> HIDE DEF V, chosen
    <3>1. U \in SUBSET S /\ V \in SUBSET S /\ V \in SUBSET (U \cap V)
      BY <2>2
    <3>2. QED
      BY <2>3, <3>1, SumsUnique
  <2>5. chosen(U)[U] = f[First(U)] + chosen(U)[V]
    <3> HIDE DEF chosen
    <3>1. QED
      BY <1>3, <2>3 DEF Sums
  <2>6. QED
    BY <2>4, <2>5
<1>4. ASSUME NEW U \in SUBSET T, U # T, U = {}
      PROVE  upTo(U) = 0
  <2> HIDE DEF chosen
  <2>1. Sums(f, U, chosen(U))
    BY <1>2, <1>4
  <2>2. QED
    BY <1>4, <2>1 DEF Sums
<1>5. \A U \in SUBSET T : U # T => G[U] = upTo(U)
  <2> HIDE DEF upTo
  <2>1. QED
    BY <1>3, <1>4
<1>6. ASSUME NEW s \in SUBSET T, s # {}
      PROVE  G[s] = f[First(s)] + G[s \ {First(s)}]
  <2> HIDE DEF upTo
  <2>1. First(s) \in s
    BY <1>6, FirstIsMember
  <2>2. s \ {First(s)} \in SUBSET T /\ s \ {First(s)} # T
    BY <2>1
  <2>3. G[s \ {First(s)}] = upTo(s \ {First(s)})
    BY <1>5, <2>2
  <2>4. QED
    BY <1>6, <2>3
<1>7. G = [s \in SUBSET T |-> IF s = {} THEN 0 ELSE f[First(s)] + G[s \ {First(s)}]]
  <2>1. G = [s \in SUBSET T |-> G[s]]
    OBVIOUS
  <2>2. \A s \in SUBSET T : s = {} => G[s] = 0
    OBVIOUS
  <2> HIDE DEF G
  <2>3. \A s \in SUBSET T : G[s] = IF s = {} THEN 0 ELSE f[First(s)] + G[s \ {First(s)}]
    BY <1>6, <2>2
  <2>4. QED
    BY <2>1, <2>3
<1>8. Sums(f, T, G)
  <2> HIDE DEF G
  <2>1. QED
    BY <1>7 DEF Sums
<1>9. QED
  BY <1>8

\* A function that gives the sums over the subsets gives Total.
LEMMA TotalIsSums ==
    ASSUME NEW S, IsFiniteSet(S), NEW f, NEW g, Sums(f, S, g), NEW T \in SUBSET S
    PROVE  Total(f, T) = g[T]
<1> DEFINE h == CHOOSE k : Sums(f, T, k)
<1>1. IsFiniteSet(T)
  BY FS_Subset
<1>2. Sums(f, T, h)
  BY <1>1, SumsExist
<1>3. Total(f, T) = h[T]
  BY DEF Total, MapThenSumSet, MapThenFoldSet, Sums, First
<1>4. QED
  <2> HIDE DEF h
  <2>1. T \in SUBSET (S \cap T) /\ S \in SUBSET S
    OBVIOUS
  <2>2. QED
    BY <1>2, <1>3, <2>1, SumsUnique

\* The sum over no members is 0.
LEMMA TotalOfNone == \A f : Total(f, {}) = 0
<1> TAKE f
<1>1. IsFiniteSet({})
  BY FS_EmptySet
<1>2. PICK g : Sums(f, {}, g)
  BY <1>1, SumsExist
<1>3. Total(f, {}) = g[{}]
  BY <1>1, <1>2, TotalIsSums
<1>4. QED
  BY <1>2, <1>3 DEF Sums

\* The sum is that of the first member and of the others, ...
LEMMA TotalFirst ==
    ASSUME NEW S, IsFiniteSet(S), S # {}, NEW f
    PROVE  First(S) \in S /\ Total(f, S) = f[First(S)] + Total(f, S \ {First(S)})
<1>1. PICK g : Sums(f, S, g)
  BY SumsExist
<1>2. Total(f, S) = g[S] /\ Total(f, S \ {First(S)}) = g[S \ {First(S)}]
  BY <1>1, TotalIsSums
<1>3. QED
  BY <1>1, <1>2, FirstIsMember DEF Sums

\* ... a number, ...
LEMMA TotalType ==
    ASSUME NEW S, IsFiniteSet(S), NEW f, \A x \in S : f[x] \in Int
    PROVE  Total(f, S) \in Int
<1> DEFINE C == {T \in SUBSET S : Total(f, T) \notin Int}
<1> SUFFICES ASSUME C # {}
             PROVE  FALSE
  OBVIOUS
<1>1. PICK T \in C : \A U \in C : U \subseteq T => U = T
  <2>1. C \subseteq SUBSET S
    OBVIOUS
  <2> HIDE DEF C
  <2>2. QED
    BY <2>1, MinimalSubset
<1>2. CASE T = {}
  BY <1>2, TotalOfNone
<1>3. CASE T # {}
  <2>1. IsFiniteSet(T)
    BY FS_Subset
  <2>2. First(T) \in T /\ Total(f, T) = f[First(T)] + Total(f, T \ {First(T)})
    BY <1>3, <2>1, TotalFirst
  <2>3. Total(f, T \ {First(T)}) \in Int
    BY <1>1, <2>2
  <2>4. QED
    BY <2>2, <2>3
<1>4. QED
  BY <1>2, <1>3

\* ... and of any member and of the others: the order does not matter.
LEMMA TotalRemove ==
    ASSUME NEW S, IsFiniteSet(S), NEW f, \A x \in S : f[x] \in Int, NEW a \in S
    PROVE  Total(f, S) = f[a] + Total(f, S \ {a})
<1> DEFINE C == {T \in SUBSET S : \E x \in T : Total(f, T) # f[x] + Total(f, T \ {x})}
<1> SUFFICES ASSUME C # {}
             PROVE  FALSE
  OBVIOUS
<1>1. PICK T \in C : \A U \in C : U \subseteq T => U = T
  <2>1. C \subseteq SUBSET S
    OBVIOUS
  <2> HIDE DEF C
  <2>2. QED
    BY <2>1, MinimalSubset
<1>2. PICK x \in T : Total(f, T) # f[x] + Total(f, T \ {x})
  OBVIOUS
<1> DEFINE c == First(T)
<1>3. IsFiniteSet(T) /\ T # {} /\ T \subseteq S
  BY <1>2, FS_Subset
<1>4. c \in T /\ Total(f, T) = f[c] + Total(f, T \ {c})
  BY <1>3, TotalFirst
<1>5. x # c
  BY <1>2, <1>4
<1>6. Total(f, T \ {c}) = f[x] + Total(f, (T \ {c}) \ {x})
  BY <1>1, <1>4, <1>5
<1>7. Total(f, T \ {x}) = f[c] + Total(f, (T \ {x}) \ {c})
  BY <1>1, <1>4, <1>5
<1>8. (T \ {c}) \ {x} = (T \ {x}) \ {c}
  OBVIOUS
<1>9. f[x] \in Int /\ f[c] \in Int /\ Total(f, (T \ {x}) \ {c}) \in Int
  <2>1. IsFiniteSet((T \ {x}) \ {c})
    BY <1>3, FS_Subset
  <2>2. \A y \in (T \ {x}) \ {c} : f[y] \in Int
    BY <1>3
  <2>3. QED
    BY <1>3, <1>4, <2>1, <2>2, TotalType
<1>10. Total(f, T) = f[c] + (f[x] + Total(f, (T \ {x}) \ {c}))
  BY <1>4, <1>6, <1>8
<1>11. Total(f, T) = f[x] + (f[c] + Total(f, (T \ {x}) \ {c}))
  BY <1>9, <1>10
<1>12. QED
  BY <1>2, <1>7, <1>11

\* A member that was not there adds what it has.
LEMMA TotalAdd ==
    ASSUME NEW S, IsFiniteSet(S), NEW f, NEW a, a \notin S, \A x \in S \cup {a} : f[x] \in Int
    PROVE  Total(f, S \cup {a}) = f[a] + Total(f, S)
<1>1. IsFiniteSet(S \cup {a})
  BY FS_AddElement
<1>2. (S \cup {a}) \ {a} = S
  OBVIOUS
<1>3. QED
  BY <1>1, <1>2, TotalRemove

\* Only what f gives for the members matters.
LEMMA TotalSame ==
    ASSUME NEW S, IsFiniteSet(S), NEW f, NEW g, \A x \in S : f[x] = g[x]
    PROVE  Total(f, S) = Total(g, S)
<1>1. PICK k : Sums(f, S, k)
  BY SumsExist
<1>2. Sums(g, S, k)
  <2>1. \A s \in SUBSET S : s # {} => f[First(s)] = g[First(s)]
    BY FirstIsMember
  <2>2. QED
    BY <1>1, <2>1 DEF Sums
<1>3. QED
  BY <1>1, <1>2, TotalIsSums

\* Who gives no less for each member gives no less in all.
LEMMA TotalMonotonic ==
    ASSUME NEW S, IsFiniteSet(S), NEW f, NEW g,
           \A x \in S : f[x] \in Int /\ g[x] \in Int /\ f[x] <= g[x]
    PROVE  Total(f, S) <= Total(g, S)
<1> DEFINE C == {T \in SUBSET S : ~(Total(f, T) <= Total(g, T))}
<1> SUFFICES ASSUME C # {}
             PROVE  FALSE
  OBVIOUS
<1>1. PICK T \in C : \A U \in C : U \subseteq T => U = T
  <2>1. C \subseteq SUBSET S
    OBVIOUS
  <2> HIDE DEF C
  <2>2. QED
    BY <2>1, MinimalSubset
<1>2. CASE T = {}
  BY <1>2, TotalOfNone
<1>3. CASE T # {}
  <2> DEFINE c == First(T)
             U == T \ {c}
  <2>1. IsFiniteSet(T) /\ T \subseteq S
    BY FS_Subset
  <2>2. c \in T /\ Total(f, T) = f[c] + Total(f, U) /\ Total(g, T) = g[c] + Total(g, U)
    BY <1>3, <2>1, TotalFirst
  <2>3. Total(f, U) <= Total(g, U)
    BY <1>1, <2>2
  <2>4. Total(f, U) \in Int /\ Total(g, U) \in Int
    <3>1. IsFiniteSet(U)
      BY <2>1, FS_Subset
    <3>2. QED
      BY <2>1, <3>1, TotalType
  <2>5. QED
    BY <2>1, <2>2, <2>3, <2>4
<1>4. QED
  BY <1>2, <1>3

\* If g gives no more than f, but for a, where it gives at most d more, then its
\* sum is at most d more.
LEMMA TotalBump ==
    ASSUME NEW S, IsFiniteSet(S), NEW f, NEW g, NEW a \in S, NEW d \in Int,
           \A x \in S : f[x] \in Int /\ g[x] \in Int,
           \A x \in S \ {a} : g[x] <= f[x],
           g[a] <= f[a] + d
    PROVE  Total(g, S) <= Total(f, S) + d
<1>1. IsFiniteSet(S \ {a})
  BY FS_Subset
<1>2. Total(f, S) = f[a] + Total(f, S \ {a}) /\ Total(g, S) = g[a] + Total(g, S \ {a})
  BY TotalRemove
<1>3. Total(g, S \ {a}) <= Total(f, S \ {a})
  BY <1>1, TotalMonotonic
<1>4. Total(f, S \ {a}) \in Int /\ Total(g, S \ {a}) \in Int
  BY <1>1, TotalType
<1>5. QED
  BY <1>2, <1>3, <1>4

\* A part of the members has no more than all of them.
LEMMA TotalOfPart ==
    ASSUME NEW S, IsFiniteSet(S), NEW f, \A x \in S : f[x] \in Nat, NEW T \in SUBSET S
    PROVE  Total(f, T) <= Total(f, S)
<1> DEFINE C == {U \in SUBSET S : ~(Total(f, U \cap T) <= Total(f, U))}
<1>1. SUFFICES C = {}
  <2>1. S \notin C /\ S \cap T = T
    BY <1>1
  <2>2. QED
    BY <2>1
<1> SUFFICES ASSUME C # {}
             PROVE  FALSE
  OBVIOUS
<1>2. PICK U \in C : \A V \in C : V \subseteq U => V = U
  <2>1. C \subseteq SUBSET S
    OBVIOUS
  <2> HIDE DEF C
  <2>2. QED
    BY <2>1, MinimalSubset
<1>3. CASE U = {}
  <2>1. U \cap T = U
    BY <1>3
  <2>2. QED
    BY <1>3, <2>1, TotalOfNone
<1>4. CASE U # {}
  <2> DEFINE c == First(U)
             V == U \ {c}
  <2>1. /\ IsFiniteSet(U) /\ U \subseteq S /\ IsFiniteSet(V)
        /\ IsFiniteSet(U \cap T) /\ IsFiniteSet(V \cap T)
    BY FS_Subset
  <2>2. c \in U /\ Total(f, U) = f[c] + Total(f, V)
    BY <1>4, <2>1, TotalFirst
  <2>3. Total(f, V \cap T) <= Total(f, V)
    BY <1>2, <2>2
  <2>4. Total(f, V \cap T) \in Int /\ Total(f, V) \in Int /\ f[c] \in Nat
    BY <2>1, <2>2, TotalType
  <2>5. CASE c \in T
    <3>1. c \in U \cap T /\ (U \cap T) \ {c} = V \cap T
      BY <2>2, <2>5
    <3>2. Total(f, U \cap T) = f[c] + Total(f, V \cap T)
      BY <2>1, <3>1, TotalRemove
    <3>3. QED
      BY <2>2, <2>3, <2>4, <3>2
  <2>6. CASE c \notin T
    <3>1. U \cap T = V \cap T
      BY <2>6
    <3>2. QED
      BY <2>2, <2>3, <2>4, <3>1
  <2>7. QED
    BY <2>5, <2>6
<1>5. QED
  BY <1>3, <1>4

\* Zeros add up to nothing.
LEMMA TotalOfZeros ==
    ASSUME NEW S, IsFiniteSet(S), NEW f, \A x \in S : f[x] = 0
    PROVE  Total(f, S) = 0
<1> DEFINE h == [s \in SUBSET S |-> 0]
<1>1. Sums(f, S, h)
  <2>1. \A s \in SUBSET S : s # {} => f[First(s)] = 0 /\ s \ {First(s)} \in SUBSET S
    BY FirstIsMember
  <2>2. QED
    BY <2>1 DEF Sums
<1>2. Total(f, S) = h[S]
  BY <1>1, TotalIsSums
<1>3. QED
  BY <1>2

\* A sum of natural numbers is one.
LEMMA TotalNatural ==
    ASSUME NEW S, IsFiniteSet(S), NEW f, \A x \in S : f[x] \in Nat
    PROVE  Total(f, S) \in Nat
<1>1. Total(f, {}) <= Total(f, S)
  BY TotalOfPart
<1>2. Total(f, S) \in Int
  BY TotalType
<1>3. QED
  BY <1>1, <1>2, TotalOfNone

\* Parts that are apart have as many members together as they have one by one.
LEMMA TotalOfCover ==
    ASSUME NEW S, IsFiniteSet(S), NEW f, NEW U, IsFiniteSet(U), NEW M,
           \A x \in S : M[x] \subseteq U /\ f[x] = Cardinality(M[x]),
           \A x, y \in S : x # y => M[x] \cap M[y] = {}
    PROVE  Total(f, S) = Cardinality({u \in U : \E x \in S : u \in M[x]})
<1> DEFINE Cover(T) == {u \in U : \E x \in T : u \in M[x]}
           C == {T \in SUBSET S : Total(f, T) # Cardinality(Cover(T))}
<1> SUFFICES ASSUME C # {}
             PROVE  FALSE
  <2>1. S \in SUBSET S
    OBVIOUS
  <2>2. QED
    BY <2>1
<1>1. PICK T \in C : \A V \in C : V \subseteq T => V = T
  <2>1. C \subseteq SUBSET S
    OBVIOUS
  <2> HIDE DEF C
  <2>2. QED
    BY <2>1, MinimalSubset
<1>2. IsFiniteSet(T) /\ T \subseteq S
  BY FS_Subset
<1>3. \A V : IsFiniteSet(Cover(V)) /\ Cardinality(Cover(V)) \in Nat
  <2>1. \A V : Cover(V) \in SUBSET U
    OBVIOUS
  <2> HIDE DEF Cover
  <2>2. QED
    BY <2>1, FS_Subset, FS_CardinalityType
<1>4. CASE T = {}
  <2>1. Cover(T) = {}
    BY <1>4
  <2>2. Total(f, T) = 0 /\ Cardinality(Cover(T)) = 0
    BY <1>4, <2>1, TotalOfNone, FS_EmptySet
  <2>3. QED
    BY <2>2
<1>5. CASE T # {}
  <2> DEFINE c == First(T)
             V == T \ {c}
  <2>1. c \in T /\ Total(f, T) = f[c] + Total(f, V)
    BY <1>2, <1>5, TotalFirst
  <2>2. Total(f, V) = Cardinality(Cover(V))
    BY <1>1, <2>1
  <2>3. Cover(T) = M[c] \cup Cover(V) /\ M[c] \cap Cover(V) = {}
    <3>1. Cover(T) = M[c] \cup Cover(V)
      BY <1>2, <2>1
    <3>2. \A x \in V : M[c] \cap M[x] = {}
      BY <1>2, <2>1
    <3>3. QED
      BY <3>1, <3>2
  <2>4. IsFiniteSet(M[c]) /\ Cardinality(M[c]) \in Nat /\ f[c] = Cardinality(M[c])
    <3>1. M[c] \in SUBSET U /\ f[c] = Cardinality(M[c])
      BY <1>2, <2>1
    <3>2. QED
      BY <3>1, FS_Subset, FS_CardinalityType
  <2>5. Cardinality(Cover(T)) = Cardinality(M[c]) + Cardinality(Cover(V))
    <3> HIDE DEF Cover, V, c
    <3>1. IsFiniteSet(Cover(V)) /\ Cardinality(Cover(V)) \in Nat
      BY <1>3
    <3>2. Cardinality(M[c] \cap Cover(V)) = 0
      BY <2>3, FS_EmptySet
    <3>3. Cardinality(Cover(T)) =
              Cardinality(M[c]) + Cardinality(Cover(V)) - Cardinality(M[c] \cap Cover(V))
      BY <2>3, <2>4, <3>1, FS_Union
    <3>4. QED
      BY <2>4, <3>1, <3>2, <3>3
  <2> HIDE DEF Cover, V, c
  <2>6. Total(f, T) = Cardinality(Cover(T))
    BY <1>3, <2>1, <2>2, <2>4, <2>5
  <2>7. QED
    BY <2>6
<1>6. QED
  BY <1>4, <1>5

\* If each member's part of U is at least as large as what f gives for it, and the
\* parts are apart, then the sum is no more than what they cover together.
LEMMA TotalOfParts ==
    ASSUME NEW S, IsFiniteSet(S), NEW f, NEW U, IsFiniteSet(U), NEW M,
           \A x \in S : f[x] \in Int /\ M[x] \subseteq U /\ f[x] <= Cardinality(M[x]),
           \A x, y \in S : x # y => M[x] \cap M[y] = {}
    PROVE  Total(f, S) <= Cardinality({u \in U : \E x \in S : u \in M[x]})
<1> DEFINE g == [x \in S |-> Cardinality(M[x])]
<1>1. Total(g, S) = Cardinality({u \in U : \E x \in S : u \in M[x]})
  <2>1. \A x \in S : M[x] \subseteq U /\ g[x] = Cardinality(M[x])
    OBVIOUS
  <2> HIDE DEF g
  <2>2. QED
    BY <2>1, TotalOfCover
<1>2. \A x \in S : f[x] \in Int /\ g[x] \in Int /\ f[x] <= g[x]
  BY FS_Subset, FS_CardinalityType
<1> HIDE DEF g
<1>3. Total(f, S) <= Total(g, S)
  BY <1>2, TotalMonotonic
<1>4. QED
  BY <1>1, <1>3

-----------------------------------------------------------------------------
\* A finite set whose members are ranked, each against each, has one that is first.
LEMMA BestExists ==
    ASSUME NEW S, IsFiniteSet(S), S # {}, NEW R,
           \A x, y \in S : <<x, y>> \in R \/ <<y, x>> \in R,
           \A x, y, z \in S : <<x, y>> \in R /\ <<y, z>> \in R => <<x, z>> \in R
    PROVE  \E b \in S : \A c \in S : <<b, c>> \in R
<1> DEFINE C == {T \in SUBSET S : T # {} /\ ~\E b \in T : \A c \in T : <<b, c>> \in R}
<1> SUFFICES ASSUME C # {}
             PROVE  FALSE
  OBVIOUS
<1>1. PICK T \in C : \A V \in C : V \subseteq T => V = T
  <2>1. C \subseteq SUBSET S
    OBVIOUS
  <2> HIDE DEF C
  <2>2. QED
    BY <2>1, MinimalSubset
<1>2. PICK a \in T : TRUE
  OBVIOUS
<1>3. a \in S /\ T \subseteq S /\ <<a, a>> \in R
  BY <1>2
<1>4. CASE T \ {a} = {}
  <2>1. \A c \in T : c = a
    BY <1>4
  <2>2. QED
    BY <1>2, <1>3, <2>1
<1>5. CASE T \ {a} # {}
  <2>1. T \ {a} \notin C
    <3>1. T \ {a} \subseteq T /\ T \ {a} # T
      OBVIOUS
    <3> HIDE DEF C
    <3>2. QED
      BY <1>1, <3>1
  <2>2. T \ {a} \in SUBSET S
    BY <1>3
  <2>3. PICK b \in T \ {a} : \A c \in T \ {a} : <<b, c>> \in R
    BY <1>5, <2>1, <2>2
  <2>4. CASE <<b, a>> \in R
    <3>1. b \in T /\ \A c \in T : <<b, c>> \in R
      BY <2>3, <2>4
    <3>2. QED
      BY <3>1
  <2>5. CASE <<a, b>> \in R
    <3>1. \A c \in T : <<a, c>> \in R
      BY <1>3, <2>3, <2>5
    <3>2. QED
      BY <1>2, <3>1
  <2>6. QED
    BY <1>3, <2>3, <2>4, <2>5
<1>6. QED
  BY <1>4, <1>5
===============================================================================
