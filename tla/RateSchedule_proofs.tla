------------------------ MODULE RateSchedule_proofs ------------------------
(***************************************************************************)
(* Proofs about RateSchedule, for any number of workers, any calendar and  *)
(* any files.                                                              *)
(*                                                                         *)
(* Two invariants.  IInv holds however requests race: what makes a shrink  *)
(* safe is that rows are only ever appended and never change their start,  *)
(* so the id and the comparison a request read are still good when its     *)
(* UPDATE gets the lock.  SInv adds what holds while requests come one at  *)
(* a time: the table is disjoint at every statement, not only at commits.  *)
(***************************************************************************)
EXTENDS RateSchedule, SequenceTheorems, TLAPS

Rows == [from : Days, to : 1..OpenEnd]

\* u is t after some appends and some shrinks.
Grown(t, u) ==
    /\ Len(t) <= Len(u)
    /\ \A i \in 1..Len(t) : u[i].from = t[i].from

Valid(t) == \A i \in 1..Len(t) : t[i].from <= t[i].to

\* A period is in hand until the file is done.
PeriodInHand ==
    \A w \in Workers :
        pc[w] \in {"match", "found", "read", "shrink", "check", "insert"} => Len(todo[w]) >= 1

\* Only a request in progress holds the write lock.
WriterBusy == \A w \in Workers : writer = w => pc[w] # "idle"

DraftGrown == writer # NoWorker => Grown(rows, draft)

\* A shrink that waits for the lock will find its row, starting before the
\* new period, in whatever table is committed by then.
TargetGood ==
    \A w \in Workers : pc[w] = "shrink" =>
        /\ target[w] \in 1..Len(View(w))
        /\ View(w)[target[w]].from < Head(todo[w]).from

IInv ==
    /\ TypeOK
    /\ PeriodInHand
    /\ WriterBusy
    /\ DraftGrown
    /\ TargetGood
    /\ Valid(rows) /\ Valid(draft)

\* The empty table and idle workers.
LEMMA InitInv == Init => IInv
<1> SUFFICES ASSUME Init PROVE IInv
  OBVIOUS
<1>1. \A S : <<>> \in Seq(S)
  BY EmptySeq
<1>2. Len(<<>>) = 0 /\ 1..0 = {}
  OBVIOUS
<1>3. TypeOK
  <2>1. rows \in Seq([from : Days, to : 1..OpenEnd]) /\ draft \in Seq([from : Days, to : 1..OpenEnd])
    BY <1>1 DEF Init
  <2>2. todo \in [Workers -> Seq(Periods)]
    <3>1. <<>> \in Seq(Periods)
      BY <1>1
    <3> QED  BY <3>1 DEF Init
  <2>3. pc \in [Workers -> {"idle", "match", "found", "read", "shrink", "check", "insert", "commit"}]
    BY DEF Init
  <2>4. source \in [Workers -> {"manual", "import"}] /\ target \in [Workers -> Nat]
    BY DEF Init
  <2>5. requests \in 0..MaxRequests /\ writer \in Workers \cup {NoWorker}
    BY RateAssumption DEF Init
  <2> QED  BY <2>1, <2>2, <2>3, <2>4, <2>5 DEF Init, TypeOK
<1>4. PeriodInHand /\ WriterBusy /\ DraftGrown /\ TargetGood
  BY RateAssumption DEF Init, PeriodInHand, WriterBusy, DraftGrown, TargetGood
<1>5. Valid(rows) /\ Valid(draft)
  BY <1>2 DEF Init, Valid
<1> QED  BY <1>3, <1>4, <1>5 DEF IInv

-----------------------------------------------------------------------------
\* What w reads is a table like the committed one.
LEMMA ViewType ==
    ASSUME TypeOK, Valid(rows), Valid(draft), NEW w \in Workers
    PROVE  View(w) \in Seq(Rows) /\ Valid(View(w))
BY DEF View, TypeOK, Rows

\* A write changes what its worker reads and nobody else's view.
LEMMA WriteView ==
    ASSUME NEW w \in Workers, NEW t, Write(w, t)
    PROVE  View(w)' = t /\ \A v \in Workers \ {w} : View(v)' = View(v)
BY RateAssumption DEF Write, View

\* A request that ends without a commit changes nobody else's view.
LEMMA EndView ==
    ASSUME NEW w \in Workers, End(w), UNCHANGED rows
    PROVE  \A v \in Workers \ {w} : View(v)' = View(v)
BY RateAssumption DEF End, Release, View

\* The period in hand, and the rest of the file.
LEMMA TodoType ==
    ASSUME TypeOK, NEW w \in Workers, Len(todo[w]) >= 1
    PROVE  Head(todo[w]) \in Periods /\ Tail(todo[w]) \in Seq(Periods)
           /\ Len(Tail(todo[w])) = Len(todo[w]) - 1
<1>1. todo[w] \in Seq(Periods) /\ todo[w] # <<>>
  BY DEF TypeOK
<1> QED  BY <1>1, HeadTailProperties

\* A period of a request is a row whose end is not before its start.
LEMMA PeriodRow ==
    ASSUME NEW p \in Periods
    PROVE  p \in Rows /\ p.from <= p.to /\ p.from \in Nat \ {0} /\ p.to \in Nat
BY RateAssumption DEF Periods, Rows, Days, OpenEnd

\* Request, whichever the route.
LEMMA RequestInv ==
    ASSUME IInv, NEW w \in Workers, NEW route \in {"manual", "import"},
           NEW ps \in Seq(Periods), ps # <<>>, NEW first \in {"read", "match"},
           Request(w, route, ps, first)
    PROVE  IInv'
<1>1. TypeOK'
  <2>1. UNCHANGED <<rows, draft, writer, target, repeated>>
    BY DEF Request, table
  <2>2. /\ pc' \in [Workers -> {"idle", "match", "found", "read", "shrink", "check", "insert", "commit"}]
        /\ source' \in [Workers -> {"manual", "import"}]
        /\ todo' \in [Workers -> Seq(Periods)]
    BY DEF IInv, TypeOK, Request
  <2>3. requests' \in 0..MaxRequests /\ raced' \in BOOLEAN
    BY RateAssumption DEF IInv, TypeOK, Request
  <2> QED  BY <2>1, <2>2, <2>3 DEF IInv, TypeOK
<1>2. PeriodInHand'
  BY DEF IInv, TypeOK, Request, table, PeriodInHand
<1>3. WriterBusy' /\ DraftGrown'
  BY DEF IInv, TypeOK, Request, table, WriterBusy, DraftGrown, Grown
<1>4. TargetGood'
  BY DEF IInv, TypeOK, Request, table, TargetGood, View
<1>5. Valid(rows)' /\ Valid(draft)'
  BY DEF IInv, Request, table, Valid
<1> QED  BY <1>1, <1>2, <1>3, <1>4, <1>5 DEF IInv

\* Match only reads, and goes on to update or to reconcile.
LEMMA MatchInv ==
    ASSUME IInv, NEW w \in Workers, Match(w) \/ ReadOpen(w)
    PROVE  IInv'
<1>1. TypeOK'
  <2>1. UNCHANGED <<rows, draft, writer, source, todo, requests, repeated, raced>>
    BY DEF Match, ReadOpen, GoTo, table, history
  <2>2. pc' \in [Workers -> {"idle", "match", "found", "read", "shrink", "check", "insert", "commit"}]
    BY DEF IInv, TypeOK, Match, ReadOpen, GoTo
  <2>3. DOMAIN View(w) \subseteq Nat
    BY ViewType DEF IInv
  <2>4. target' \in [Workers -> Nat]
    BY <2>3 DEF IInv, TypeOK, Match, ReadOpen, GoTo
  <2> QED  BY <2>1, <2>2, <2>4 DEF IInv, TypeOK
<1>2. PeriodInHand'
  BY DEF IInv, TypeOK, Match, ReadOpen, GoTo, PeriodInHand
<1>3. WriterBusy' /\ DraftGrown' /\ Valid(rows)' /\ Valid(draft)'
  BY DEF IInv, TypeOK, Match, ReadOpen, GoTo, table, WriterBusy, DraftGrown, Grown, Valid
<1>4. TargetGood'
  <2>1. ASSUME NEW v \in Workers PROVE View(v)' = View(v) /\ todo'[v] = todo[v]
    BY DEF Match, ReadOpen, GoTo, table, View
  <2>2. ASSUME NEW v \in Workers, v # w \/ Match(w)
        PROVE  pc'[v] = "shrink" => pc[v] = "shrink" /\ target'[v] = target[v]
    BY <2>2 DEF IInv, TypeOK, Match, ReadOpen, GoTo
  <2>3. ASSUME ReadOpen(w), pc'[w] = "shrink"
        PROVE  target'[w] \in DOMAIN View(w) /\ View(w)[target'[w]].from < Head(todo[w]).from
    BY <2>3 DEF IInv, TypeOK, ReadOpen, GoTo, Superseded
  <2>4. DOMAIN View(w) = 1..Len(View(w))
    BY ViewType DEF IInv
  <2> QED  BY <2>1, <2>2, <2>3, <2>4 DEF IInv, TargetGood
<1> QED  BY <1>1, <1>2, <1>3, <1>4 DEF IInv

\* Update takes the write lock and leaves every period as it is.
LEMMA UpdateInv ==
    ASSUME IInv, NEW w \in Workers, Update(w)
    PROVE  IInv'
<1>1. TypeOK'
  BY ViewType, TodoType DEF IInv, TypeOK, Update, Write, Advance, history, Rows, PeriodInHand
<1>2. PeriodInHand'
  BY TodoType DEF IInv, TypeOK, Update, Advance, PeriodInHand
<1>3. WriterBusy'
  BY DEF IInv, TypeOK, Update, Advance, Write, WriterBusy
<1>4. DraftGrown' /\ Valid(rows)' /\ Valid(draft)'
  BY ViewType DEF IInv, TypeOK, Update, Write, DraftGrown, Grown, Valid, View
<1>5. TargetGood'
  BY WriteView DEF IInv, TypeOK, Update, Advance, TargetGood
<1> QED  BY <1>1, <1>2, <1>3, <1>4, <1>5 DEF IInv

\* Shrink cuts the row that was read at the day before the new period:
\* that row starts earlier, in whatever the table has become.
LEMMA ShrinkInv ==
    ASSUME IInv, NEW w \in Workers, Shrink(w)
    PROVE  IInv'
<1> DEFINE p == Head(todo[w])
           t == View(w)
           u == [t EXCEPT ![target[w]].to = p.from - 1]
<1>1. p \in Periods /\ t \in Seq(Rows) /\ Valid(t)
  BY ViewType DEF IInv, TypeOK, Shrink, PeriodInHand
<1>2. target[w] \in 1..Len(t) /\ t[target[w]].from < p.from
  BY DEF IInv, Shrink, TargetGood
<1>3. p.from - 1 \in 1..OpenEnd
  <2>1. t[target[w]] \in Rows
    BY <1>1, <1>2
  <2>2. t[target[w]].from \in 1..MaxDay /\ p.from \in 1..MaxDay
    BY <1>1, <2>1 DEF Periods, Rows, Days
  <2> QED  BY <1>2, <2>2, RateAssumption DEF OpenEnd
<1>4. /\ u \in Seq(Rows) /\ Len(u) = Len(t)
      /\ \A i \in 1..Len(t) : u[i].from = t[i].from
      /\ Valid(u)
  <2>1. t[target[w]] \in Rows /\ u = [t EXCEPT ![target[w]] = [@ EXCEPT !.to = p.from - 1]]
    BY <1>1, <1>2
  <2>2. [t[target[w]] EXCEPT !.to = p.from - 1] \in Rows
    BY <2>1, <1>3 DEF Rows
  <2>3. u \in Seq(Rows) /\ Len(u) = Len(t)
    BY <2>1, <2>2, <1>1, <1>2, ExceptSeq
  <2>4. \A i \in 1..Len(t) :
           u[i] = IF i = target[w] THEN [t[i] EXCEPT !.to = p.from - 1] ELSE t[i]
    BY <2>1, <1>1, <1>2
  <2>5. \A i \in 1..Len(t) : u[i].from = t[i].from
    BY <2>4, <1>1 DEF Rows
  <2>6. \A i \in 1..Len(t) : u[i].to = IF i = target[w] THEN p.from - 1 ELSE t[i].to
    BY <2>4, <1>1 DEF Rows
  <2>7. t[target[w]].from \in Nat /\ p.from \in Nat
    BY <2>1, <1>1, PeriodRow DEF Rows, Days
  <2>8. Valid(u)
    BY <2>3, <2>5, <2>6, <2>7, <1>1, <1>2 DEF Valid
  <2> QED  BY <2>3, <2>5, <2>8
<1>5. TypeOK'
  BY <1>4 DEF IInv, TypeOK, Shrink, Write, history, Rows
<1>6. PeriodInHand' /\ WriterBusy'
  BY DEF IInv, TypeOK, Shrink, Write, PeriodInHand, WriterBusy
<1>7. DraftGrown' /\ Valid(rows)' /\ Valid(draft)'
  <2>1. rows' = rows /\ draft' = u /\ Valid(rows) /\ (t = rows \/ Grown(rows, t))
    BY RateAssumption DEF IInv, Shrink, Write, DraftGrown, View
  <2>2. Grown(rows, u)
    BY <2>1, <1>1, <1>4 DEF IInv, TypeOK, Grown
  <2> QED  BY <2>1, <2>2, <1>4 DEF DraftGrown, Valid, Grown
<1>8. TargetGood'
  BY WriteView DEF IInv, TypeOK, Shrink, TargetGood
<1> QED  BY <1>5, <1>6, <1>7, <1>8 DEF IInv

\* A request ends: by a rejection or a failure, what it wrote is gone.
LEMMA EndInv ==
    ASSUME IInv, NEW w \in Workers, End(w), UNCHANGED rows, UNCHANGED history
    PROVE  IInv'
<1>1. TypeOK'
  BY EmptySeq DEF IInv, TypeOK, End, Release, history
<1>2. PeriodInHand' /\ WriterBusy' /\ DraftGrown' /\ Valid(rows)'
  BY RateAssumption DEF IInv, TypeOK, End, Release, PeriodInHand, WriterBusy, DraftGrown, Grown,
      Valid
<1>3. Valid(draft)'
  BY DEF IInv, End, Release, Valid
<1>4. TargetGood'
  BY EndView DEF IInv, TypeOK, End, TargetGood
<1> QED  BY <1>1, <1>2, <1>3, <1>4 DEF IInv

\* Check only reads: it goes on, skips the period or ends the request.
LEMMA CheckInv ==
    ASSUME IInv, NEW w \in Workers, Check(w)
    PROVE  IInv'
<1>1. CASE GoTo(w, "insert") /\ UNCHANGED table
  <2>1. TypeOK' /\ PeriodInHand' /\ WriterBusy' /\ DraftGrown' /\ Valid(rows)' /\ Valid(draft)'
    BY <1>1 DEF IInv, TypeOK, Check, GoTo, table, history, PeriodInHand, WriterBusy, DraftGrown,
        Grown, Valid
  <2>2. TargetGood'
    BY <1>1 DEF IInv, TypeOK, GoTo, table, TargetGood, View
  <2> QED  BY <2>1, <2>2 DEF IInv
<1>2. CASE End(w) /\ UNCHANGED rows
  BY <1>2, EndInv DEF Check
<1>3. CASE Advance(w) /\ UNCHANGED table
  <2>1. TypeOK' /\ PeriodInHand' /\ WriterBusy' /\ DraftGrown' /\ Valid(rows)' /\ Valid(draft)'
    BY <1>3 DEF IInv, TypeOK, Check, Advance, table, history, PeriodInHand, WriterBusy,
        DraftGrown, Grown, Valid
  <2>2. TargetGood'
    BY <1>3 DEF IInv, TypeOK, Advance, table, TargetGood, View
  <2> QED  BY <2>1, <2>2 DEF IInv
<1> QED  BY <1>1, <1>2, <1>3 DEF Check

\* Insert appends a valid period to what the writer sees.
LEMMA InsertInv ==
    ASSUME IInv, NEW w \in Workers, Insert(w)
    PROVE  IInv'
<1> DEFINE p == Head(todo[w])
           t == View(w)
<1>1. p \in Rows /\ p.from <= p.to /\ t \in Seq(Rows) /\ Valid(t)
  BY ViewType, TodoType, PeriodRow DEF IInv, Insert, PeriodInHand
<1>2. /\ Append(t, p) \in Seq(Rows) /\ Len(Append(t, p)) = Len(t) + 1
      /\ \A i \in 1..Len(t) : Append(t, p)[i] = t[i]
      /\ Append(t, p)[Len(t) + 1] = p
  BY <1>1, AppendProperties
<1>3. Valid(Append(t, p))
  BY <1>1, <1>2 DEF Valid
<1>4. TypeOK'
  BY <1>2, TodoType DEF IInv, TypeOK, Insert, Write, Advance, PeriodInHand, Rows
<1>5. PeriodInHand' /\ WriterBusy'
  BY TodoType DEF IInv, TypeOK, Insert, Write, Advance, PeriodInHand, WriterBusy
<1>6. DraftGrown' /\ Valid(rows)' /\ Valid(draft)'
  <2>1. rows' = rows /\ draft' = Append(t, p) /\ Valid(rows) /\ (t = rows \/ Grown(rows, t))
    BY RateAssumption DEF IInv, Insert, Write, DraftGrown, View
  <2>2. Grown(rows, Append(t, p))
    BY <2>1, <1>1, <1>2 DEF IInv, TypeOK, Grown
  <2> QED  BY <2>1, <2>2, <1>3 DEF DraftGrown, Valid, Grown
<1>7. TargetGood'
  BY WriteView DEF IInv, TypeOK, Insert, Advance, TargetGood
<1> QED  BY <1>4, <1>5, <1>6, <1>7 DEF IInv

\* Commit publishes the view of the worker, which only grew.
LEMMA CommitInv ==
    ASSUME IInv, NEW w \in Workers, Commit(w)
    PROVE  IInv'
<1>1. TypeOK'
  BY ViewType, EmptySeq DEF IInv, TypeOK, Commit, End, Release, history, Rows
<1>2. PeriodInHand' /\ WriterBusy' /\ Valid(rows)' /\ Valid(draft)'
  <2>1. rows' = View(w) /\ Valid(View(w)) /\ (draft' = draft \/ draft' = <<>>)
    BY ViewType DEF IInv, Commit, End, Release
  <2>2. Valid(rows)' /\ Valid(draft)'
    BY <2>1 DEF IInv, Valid
  <2>3. PeriodInHand' /\ WriterBusy'
    BY RateAssumption DEF IInv, TypeOK, Commit, End, Release, PeriodInHand, WriterBusy
  <2> QED  BY <2>2, <2>3
<1>3. CASE writer = w
  <2>1. rows' = draft /\ writer' = NoWorker /\ Grown(rows, draft)
    BY <1>3, RateAssumption DEF IInv, Commit, End, Release, View, DraftGrown
  <2>2. ASSUME NEW v \in Workers, pc'[v] = "shrink" PROVE
           /\ v # w /\ pc[v] = "shrink" /\ target'[v] = target[v] /\ todo'[v] = todo[v]
           /\ View(v) = rows /\ View(v)' = draft
    BY <1>3, <2>1, <2>2, RateAssumption DEF IInv, TypeOK, Commit, End, View
  <2>3. TargetGood'
    <3> SUFFICES ASSUME NEW v \in Workers, pc'[v] = "shrink"
                 PROVE  /\ target'[v] \in 1..Len(View(v)')
                        /\ View(v)'[target'[v]].from < Head(todo'[v]).from
      BY DEF TargetGood
    <3>1. target[v] \in 1..Len(rows) /\ rows[target[v]].from < Head(todo[v]).from
      BY <2>2 DEF IInv, TargetGood
    <3>2. Len(rows) \in Nat /\ Len(draft) \in Nat
      BY DEF IInv, TypeOK
    <3>3. target[v] \in 1..Len(draft) /\ draft[target[v]].from = rows[target[v]].from
      BY <2>1, <3>1, <3>2 DEF Grown
    <3> QED  BY <2>2, <3>1, <3>3
  <2> QED  BY <2>1, <2>3, <1>1, <1>2 DEF IInv, DraftGrown
<1>4. CASE writer # w
  <2>1. rows' = rows /\ writer' = writer /\ draft' = draft
    BY <1>4 DEF Commit, End, Release, View
  <2>2. DraftGrown' /\ TargetGood'
    BY <2>1, RateAssumption DEF IInv, TypeOK, Commit, End, DraftGrown, Grown, TargetGood, View
  <2> QED  BY <2>2, <1>1, <1>2 DEF IInv
<1> QED  BY <1>3, <1>4

\* Every step of every worker keeps the invariant.
LEMMA NextInv == IInv /\ [Next]_vars => IInv'
<1> SUFFICES ASSUME IInv, [Next]_vars PROVE IInv'
  OBVIOUS
<1>1. CASE UNCHANGED vars
  BY <1>1 DEF IInv, TypeOK, PeriodInHand, WriterBusy, DraftGrown, Grown, TargetGood, View, Valid,
      vars, table, request, history
<1>2. ASSUME NEW w \in Workers, NEW p \in Periods, Manual(w, p) PROVE IInv'
  <2>1. <<p>> \in Seq(Periods) /\ <<p>> # <<>>
    OBVIOUS
  <2>2. Request(w, "manual", <<p>>, "read")
    BY <1>2 DEF Manual
  <2> QED  BY <2>1, <2>2, RequestInv
<1>3. ASSUME NEW w \in Workers, NEW f \in Files, Import(w, f) PROVE IInv'
  BY <1>3, RequestInv, FilesAssumption DEF Import
<1>4. ASSUME NEW w \in Workers, Fail(w) PROVE IInv'
  BY <1>4, EndInv DEF Fail
<1> QED
  BY <1>1, <1>2, <1>3, <1>4, MatchInv, UpdateInv, ShrinkInv, CheckInv, InsertInv, CommitInv
  DEF Next

\* The inductive invariant, with any number of requests racing.
THEOREM Invariance == Spec => []IInv
BY InitInv, NextInv, PTL DEF Spec

\* The type invariant: dates stay dates, whatever the shrinking does.
THEOREM TypeCorrect == Spec => []TypeOK
<1>1. IInv => TypeOK
  BY DEF IInv
<1> QED  BY <1>1, Invariance, PTL

\* No committed row ends before it starts, however requests race.
THEOREM RowsStayValid == Spec => []RowsHaveDays
<1>1. IInv => RowsHaveDays
  <2> SUFFICES ASSUME IInv PROVE RowsHaveDays
    OBVIOUS
  <2>1. DOMAIN rows = 1..Len(rows)
    BY DEF IInv, TypeOK
  <2> QED  BY <2>1 DEF IInv, Valid, RowsHaveDays
<1> QED  BY <1>1, Invariance, PTL

-----------------------------------------------------------------------------
(***************************************************************************)
(* One request at a time, and no period entered twice.                     *)
(***************************************************************************)

Serial == ~repeated /\ ~raced

Apart(r, q) == r.to < q.from \/ q.to < r.from

Disjoint(t) == \A i, j \in 1..Len(t) : i # j => Apart(t[i], t[j])

Solo == \A v, w \in Workers : pc[v] # "idle" /\ pc[w] # "idle" => v = w

\* Room was made for an open period: everything ends before it, and nothing
\* but days it will cover was lost.
Room(t, u, p) ==
    /\ p.to = OpenEnd
    /\ \A i \in 1..Len(u) : u[i].to < p.from
    /\ Covered(t) \subseteq Covered(u) \cup (p.from .. p.to)

AtEachStatement(w) ==
    /\ pc[w] # "idle" => Disjoint(View(w))
    /\ pc[w] = "shrink" =>
          View(w)[target[w]].to = OpenEnd /\ Reconciles(w)
    /\ pc[w] = "insert" =>
          \A i \in 1..Len(View(w)) : ~Overlaps(View(w)[i], Head(todo[w]))
    /\ pc[w] # "idle" /\ source[w] = "import" =>
          \/ Covered(rows) \subseteq Covered(View(w))
          \/ pc[w] \in {"check", "insert"} /\ Room(rows, View(w), Head(todo[w]))

SInv == Serial => Solo /\ Disjoint(rows) /\ \A w \in Workers : AtEachStatement(w)

\* A period that clashes with nothing can be added.
LEMMA DisjointAppend ==
    ASSUME NEW t \in Seq(Rows), NEW p \in Periods, Disjoint(t),
           \A i \in 1..Len(t) : ~Overlaps(t[i], p), \A i \in 1..Len(t) : t[i] # p
    PROVE  Disjoint(Append(t, p))
<1>1. p \in Rows
  BY PeriodRow
<1>2. /\ Len(Append(t, p)) = Len(t) + 1
      /\ \A i \in 1..Len(t) : Append(t, p)[i] = t[i]
      /\ Append(t, p)[Len(t) + 1] = p
  BY <1>1, AppendProperties
<1>3. ASSUME NEW i \in 1..Len(t) PROVE Apart(t[i], p)
  <2>1. t[i] \in Rows
    OBVIOUS
  <2>2. t[i].from \in Nat /\ t[i].to \in Nat /\ p.from \in Nat /\ p.to \in Nat
    BY <2>1, PeriodRow, RateAssumption DEF Rows, Days, OpenEnd
  <2> QED  BY <2>2 DEF Overlaps, Apart
<1> QED  BY <1>2, <1>3 DEF Disjoint, Apart

\* Shrinking the open row of a disjoint table keeps it disjoint, and makes
\* room for the period it is shrunk for.
Shrunk(t, i, p) == [t EXCEPT ![i].to = p.from - 1]

\* Once the open row of a disjoint table is shrunk, the new period clashes
\* with nothing, the table is still disjoint, and together they cover it.
LEMMA ShrinkMakesRoom ==
    ASSUME NEW t \in Seq(Rows), NEW p \in Periods, NEW i \in 1..Len(t),
           Disjoint(t), t[i].to = OpenEnd, t[i].from < p.from
    PROVE  /\ Disjoint(Shrunk(t, i, p))
           /\ \A k \in 1..Len(Shrunk(t, i, p)) : Shrunk(t, i, p)[k].to < p.from
           /\ Covered(t) \subseteq Covered(Shrunk(t, i, p)) \cup (p.from .. OpenEnd)
<1> DEFINE u == Shrunk(t, i, p)
<1>1. \A k \in 1..Len(t) : t[k] \in Rows /\ t[k].from \in 1..MaxDay /\ t[k].to \in 1..OpenEnd
  <2>1. \A k \in 1..Len(t) : t[k] \in Rows
    OBVIOUS
  <2> QED  BY <2>1 DEF Rows, Days
<1>2. p.from \in 1..MaxDay
  BY DEF Periods, Days
<1>3. /\ Len(u) = Len(t) /\ DOMAIN u = 1..Len(t) /\ DOMAIN t = 1..Len(t)
      /\ \A k \in 1..Len(t) : u[k] = IF k = i THEN [t[k] EXCEPT !.to = p.from - 1] ELSE t[k]
  BY DEF Shrunk
<1> HIDE DEF u
<1>4. \A k \in 1..Len(t) : u[k].from = t[k].from /\ u[k].to = IF k = i THEN p.from - 1 ELSE t[k].to
  BY <1>1, <1>3 DEF Rows
<1>5. \A k \in 1..Len(t) : u[k].to \in Int /\ u[k].to <= t[k].to
  <2> SUFFICES ASSUME NEW k \in 1..Len(t) PROVE u[k].to \in Int /\ u[k].to <= t[k].to
    OBVIOUS
  <2>1. CASE k = i
    <3>1. u[k].to = p.from - 1 /\ t[k].to = MaxDay + 1
      BY <2>1, <1>4 DEF OpenEnd
    <3> QED  BY <3>1, <1>2, RateAssumption
  <2>2. CASE k # i
    <3>1. u[k].to = t[k].to
      BY <2>2, <1>4
    <3> QED  BY <3>1, <1>1
  <2> QED  BY <2>1, <2>2
<1>6. Disjoint(u)
  <2> SUFFICES ASSUME NEW k \in 1..Len(t), NEW m \in 1..Len(t), k # m PROVE Apart(u[k], u[m])
    BY <1>3 DEF Disjoint
  <2>1. t[k].to < t[m].from \/ t[m].to < t[k].from
    BY DEF Disjoint, Apart
  <2>2. u[k].from = t[k].from /\ u[m].from = t[m].from
    BY <1>4
  <2>3. u[k].to <= t[k].to /\ u[m].to <= t[m].to
    BY <1>5
  <2>4. /\ u[k].to \in Int /\ u[m].to \in Int /\ t[k].to \in Int /\ t[m].to \in Int
        /\ t[k].from \in Int /\ t[m].from \in Int
    BY <1>1, <1>5
  <2> QED  BY <2>1, <2>2, <2>3, <2>4 DEF Apart
<1>7. ASSUME NEW k \in 1..Len(u) PROVE u[k].to < p.from
  <2>1. CASE k = i
    BY <2>1, <1>2, <1>3, <1>4
  <2>2. CASE k # i
    <3>1. t[k].to < t[i].from \/ t[i].to < t[k].from
      BY <2>2, <1>3 DEF Disjoint, Apart
    <3>2. u[k].to = t[k].to /\ t[i].to = MaxDay + 1 /\ t[k].from \in 1..MaxDay
      BY <2>2, <1>1, <1>3, <1>4 DEF OpenEnd
    <3>3. t[k].to \in Nat /\ t[i].from \in Nat
      BY <1>1, <1>3
    <3> QED  BY <3>1, <3>2, <3>3, <1>2, RateAssumption
  <2> QED  BY <2>1, <2>2
<1>8. Covered(t) \subseteq Covered(u) \cup (p.from .. OpenEnd)
  <2> SUFFICES ASSUME NEW d \in 1..OpenEnd, NEW k \in 1..Len(t), t[k].from <= d, d <= t[k].to,
                      ~(p.from <= d)
               PROVE  \E m \in 1..Len(t) : u[m].from <= d /\ d <= u[m].to
    BY <1>2, <1>3, RateAssumption DEF Covered
  <2>1. CASE k = i
    <3>1. u[k].from = t[k].from /\ u[k].to = p.from - 1
      BY <2>1, <1>4
    <3>2. d \in Int
      BY RateAssumption DEF OpenEnd
    <3> QED  BY <3>1, <3>2, <1>2
  <2>2. CASE k # i
    BY <2>2, <1>4
  <2> QED  BY <2>1, <2>2
<1> QED  BY <1>6, <1>7, <1>8 DEF u

\* A table and one more period cover what both did.
LEMMA AppendCovers ==
    ASSUME NEW t \in Seq(Rows), NEW p \in Periods
    PROVE  Covered(t) \cup (p.from .. p.to) \subseteq Covered(Append(t, p))
<1>1. p \in Rows /\ p.from \in Nat \ {0} /\ p.to \in 1..OpenEnd
  BY PeriodRow DEF Rows
<1>2. /\ DOMAIN Append(t, p) = 1..(Len(t) + 1) /\ DOMAIN t = 1..Len(t)
      /\ \A i \in 1..Len(t) : Append(t, p)[i] = t[i]
      /\ Append(t, p)[Len(t) + 1] = p
      /\ Len(t) \in Nat
  BY <1>1, AppendProperties
<1>3. Covered(t) \subseteq Covered(Append(t, p))
  BY <1>2 DEF Covered
<1>4. p.from .. p.to \subseteq Covered(Append(t, p))
  <2> SUFFICES ASSUME NEW d \in p.from .. p.to PROVE d \in Covered(Append(t, p))
    OBVIOUS
  <2>1. d \in 1..OpenEnd /\ p.from <= d /\ d <= p.to
    BY <1>1, RateAssumption DEF OpenEnd
  <2> QED  BY <1>2, <2>1 DEF Covered
<1> QED  BY <1>3, <1>4

\* The serial invariant holds of the empty table.
LEMMA InitSerial == Init => SInv
<1> SUFFICES ASSUME Init PROVE SInv
  OBVIOUS
<1>1. Len(rows) = 0 /\ 1..0 = {}
  BY DEF Init
<1>2. Disjoint(rows)
  BY <1>1 DEF Disjoint
<1>3. \A w \in Workers : pc[w] = "idle"
  BY DEF Init
<1> QED  BY <1>2, <1>3 DEF SInv, Solo, AtEachStatement

\* While one request runs, a step of w is the only thing that happens: what
\* is left to show is w's own part of the invariant.
LEMMA SoloStep ==
    ASSUME IInv, SInv, NEW w \in Workers, pc[w] # "idle",
           \A v \in Workers \ {w} : pc'[v] = pc[v] /\ source'[v] = source[v],
           Serial' => Serial /\ Disjoint(rows)' /\ AtEachStatement(w)'
    PROVE  SInv'
<1> SUFFICES ASSUME Serial' PROVE Solo' /\ Disjoint(rows)' /\ \A v \in Workers : AtEachStatement(v)'
  BY DEF SInv
<1>1. \A v \in Workers \ {w} : pc[v] = "idle" /\ pc'[v] = "idle"
  BY DEF SInv, Solo
<1>2. Solo'
  BY <1>1 DEF Solo
<1>3. \A v \in Workers \ {w} : AtEachStatement(v)'
  BY <1>1 DEF AtEachStatement
<1> QED  BY <1>2, <1>3

\* A request that begins alone is alone; one that does not ends the premise.
LEMMA RequestSerial ==
    ASSUME IInv, SInv, NEW w \in Workers,
           NEW route \in {"manual", "import"}, NEW ps, NEW first \in {"read", "match"},
           Request(w, route, ps, first)
    PROVE  SInv'
<1> SUFFICES ASSUME Serial' PROVE Solo' /\ Disjoint(rows)' /\ \A v \in Workers : AtEachStatement(v)'
  BY DEF SInv
<1>1. Serial /\ \A v \in Workers : pc[v] = "idle"
  BY DEF Request, Serial, IInv, TypeOK
<1>2. /\ pc' = [pc EXCEPT ![w] = first] /\ UNCHANGED <<rows, draft, writer>>
  BY DEF Request, table
<1>3. \A v \in Workers : pc'[v] = IF v = w THEN first ELSE "idle"
  BY <1>1, <1>2 DEF IInv, TypeOK
<1>4. View(w)' = rows /\ rows' = rows
  BY <1>1, <1>2 DEF View, IInv, WriterBusy
<1>5. Disjoint(rows)
  BY <1>1 DEF SInv
<1>6. AtEachStatement(w)'
  BY <1>3, <1>4, <1>5 DEF AtEachStatement, Disjoint
<1>7. \A v \in Workers \ {w} : AtEachStatement(v)'
  BY <1>3 DEF AtEachStatement
<1>8. Solo'
  BY <1>3 DEF Solo
<1> QED  BY <1>4, <1>5, <1>6, <1>7, <1>8 DEF Disjoint

\* What SInv and IInv say of w while it runs.
LEMMA AtWork ==
    ASSUME IInv, SInv, Serial, NEW w \in Workers, pc[w] # "idle"
    PROVE  /\ Disjoint(rows) /\ AtEachStatement(w)
           /\ View(w) \in Seq(Rows) /\ Disjoint(View(w))
BY ViewType DEF IInv, SInv, AtEachStatement

\* Match and the serial invariant.
LEMMA MatchSerial ==
    ASSUME IInv, SInv, NEW w \in Workers, Match(w)
    PROVE  SInv'
<1>1. /\ pc[w] = "match" /\ pc'[w] \in {"found", "read"}
      /\ \A v \in Workers \ {w} : pc'[v] = pc[v]
      /\ UNCHANGED <<rows, draft, writer, source, todo, target, repeated, raced>>
  BY DEF IInv, TypeOK, Match, GoTo, table, history
<1>2. Serial' => Serial /\ Disjoint(rows)' /\ AtEachStatement(w)'
  BY <1>1, AtWork DEF Serial, AtEachStatement, View, Disjoint, Covered
<1> QED  BY <1>1, <1>2, SoloStep

\* Update and the serial invariant.
LEMMA UpdateSerial ==
    ASSUME IInv, SInv, NEW w \in Workers, Update(w)
    PROVE  SInv'
<1>1. /\ pc[w] = "found" /\ pc'[w] \in {"match", "commit"}
      /\ \A v \in Workers \ {w} : pc'[v] = pc[v]
      /\ UNCHANGED <<rows, source, repeated, raced>>
  BY DEF IInv, TypeOK, Update, Write, Advance, history
<1>2. View(w)' = View(w)
  BY WriteView DEF Update
<1>3. Serial' => Serial /\ Disjoint(rows)' /\ AtEachStatement(w)'
  BY <1>1, <1>2, AtWork DEF Serial, AtEachStatement, Disjoint, Covered
<1> QED  BY <1>1, <1>3, SoloStep

\* ReadOpen finds the open row, or finds that nothing has to make room.
LEMMA ReadSerial ==
    ASSUME IInv, SInv, NEW w \in Workers, ReadOpen(w)
    PROVE  SInv'
<1>1. /\ pc[w] = "read" /\ pc'[w] \in {"shrink", "check"}
      /\ \A v \in Workers \ {w} : pc'[v] = pc[v]
      /\ UNCHANGED <<rows, draft, writer, source, todo, repeated, raced>>
  BY DEF IInv, TypeOK, ReadOpen, GoTo, table, history
<1>2. pc'[w] = "shrink" => Reconciles(w) /\ View(w)[target'[w]].to = OpenEnd
  BY DEF IInv, TypeOK, ReadOpen, GoTo, Superseded, IsOpenRow, OpenRows
<1>3. View(w)' = View(w) /\ Reconciles(w)' = Reconciles(w)
  BY <1>1 DEF View, Reconciles
<1>4. Serial' => Serial /\ Disjoint(rows)' /\ AtEachStatement(w)'
  BY <1>1, <1>2, <1>3, AtWork DEF Serial, AtEachStatement, Disjoint, Covered
<1> QED  BY <1>1, <1>4, SoloStep

\* Shrink makes the room that Check and Insert rely on.
LEMMA ShrinkSerial ==
    ASSUME IInv, SInv, NEW w \in Workers, Shrink(w)
    PROVE  SInv'
<1> DEFINE p == Head(todo[w])
           u == Shrunk(View(w), target[w], p)
<1>1. /\ pc[w] = "shrink" /\ pc'[w] = "check"
      /\ \A v \in Workers \ {w} : pc'[v] = pc[v]
      /\ UNCHANGED <<rows, source, todo, repeated, raced>>
      /\ p \in Periods
  BY TodoType DEF IInv, TypeOK, Shrink, Write, history, PeriodInHand
<1>2. View(w)' = u
  BY WriteView DEF Shrink, Shrunk
<1>3. target[w] \in 1..Len(View(w)) /\ View(w)[target[w]].from < p.from
  BY <1>1 DEF IInv, TargetGood
<1>4. ASSUME Serial'
      PROVE  Serial /\ Disjoint(rows)' /\ AtEachStatement(w)'
  <2>1. Serial /\ Disjoint(rows)'
    BY <1>1, <1>4, AtWork DEF Serial, Disjoint
  <2>2. /\ View(w) \in Seq(Rows) /\ Disjoint(View(w))
        /\ View(w)[target[w]].to = OpenEnd /\ Reconciles(w)
        /\ source[w] = "import" => Covered(rows) \subseteq Covered(View(w))
    BY <1>1, <2>1, AtWork DEF AtEachStatement
  <2>3. /\ Disjoint(u)
        /\ \A k \in 1..Len(u) : u[k].to < p.from
        /\ Covered(View(w)) \subseteq Covered(u) \cup (p.from .. OpenEnd)
    <3> HIDE DEF p
    <3> QED  BY <1>1, <1>3, <2>2, ShrinkMakesRoom
  <2>4. source[w] = "import" => Room(rows, u, p)
    BY <2>2, <2>3 DEF Room, Reconciles
  <2>5. Disjoint(View(w))'
    BY <1>2, <2>3 DEF Disjoint
  <2>6. source'[w] = "import" => Room(rows, View(w), Head(todo[w]))'
    BY <1>1, <1>2, <2>4 DEF Room, Covered
  <2> QED  BY <1>1, <2>1, <2>5, <2>6 DEF AtEachStatement
<1> QED  BY <1>1, <1>4, SoloStep

\* A request that ends without a commit leaves a disjoint table behind.
LEMMA EndSerial ==
    ASSUME IInv, SInv, NEW w \in Workers, pc[w] # "idle", End(w),
           UNCHANGED <<repeated, raced>>, Serial => Disjoint(rows)'
    PROVE  SInv'
<1>1. /\ pc'[w] = "idle"
      /\ \A v \in Workers \ {w} : pc'[v] = pc[v] /\ source'[v] = source[v]
  BY DEF IInv, TypeOK, End
<1>2. Serial' => Serial /\ Disjoint(rows)' /\ AtEachStatement(w)'
  BY <1>1 DEF Serial, AtEachStatement
<1> QED  BY <1>1, <1>2, SoloStep

\* Check lets a period pass only if it clashes with no row.
LEMMA CheckSerial ==
    ASSUME IInv, SInv, NEW w \in Workers, Check(w)
    PROVE  SInv'
<1>1. /\ pc[w] = "check" /\ UNCHANGED <<repeated, raced>>
      /\ View(w) \in Seq(Rows) /\ DOMAIN View(w) = 1..Len(View(w))
  BY ViewType DEF IInv, Check, history
<1>2. CASE ~Clash(w) /\ GoTo(w, "insert") /\ UNCHANGED table
  <2>1. /\ pc'[w] = "insert" /\ UNCHANGED <<rows, draft, writer, source, todo>>
        /\ \A v \in Workers \ {w} : pc'[v] = pc[v] /\ source'[v] = source[v]
    BY <1>2 DEF IInv, TypeOK, GoTo, table
  <2>2. \A i \in 1..Len(View(w)) : ~Overlaps(View(w)[i], Head(todo[w]))
    BY <1>1, <1>2 DEF Clash
  <2>3. View(w)' = View(w) /\ Head(todo[w])' = Head(todo[w]) /\ Covered(rows)' = Covered(rows)
    BY <2>1 DEF View, Covered
  <2>4. ASSUME Serial' PROVE Serial /\ Disjoint(rows)' /\ AtEachStatement(w)'
    <3>1. Serial /\ Disjoint(rows)'
      BY <1>1, <2>1, <2>4, AtWork DEF Serial, Disjoint
    <3>2. Disjoint(View(w))'
      BY <1>1, <2>3, <3>1, AtWork DEF Disjoint
    <3>3. \A i \in 1..Len(View(w)') : ~Overlaps(View(w)'[i], Head(todo'[w]))
      BY <2>1, <2>2, <2>3
    <3>4. source'[w] = "import" =>
             Covered(rows)' \subseteq Covered(View(w))' \/ Room(rows, View(w), Head(todo[w]))'
      BY <1>1, <2>1, <2>3, <3>1, AtWork DEF AtEachStatement, Room, Covered
    <3> QED  BY <2>1, <3>1, <3>2, <3>3, <3>4 DEF AtEachStatement
  <2> QED  BY <1>1, <2>1, <2>4, SoloStep
<1>3. CASE End(w) /\ UNCHANGED rows
  BY <1>1, <1>3, EndSerial, AtWork DEF Disjoint
<1>4. CASE Clash(w) /\ source[w] = "import" /\ Advance(w) /\ UNCHANGED table
  <2>1. /\ pc'[w] \in {"match", "commit"} /\ UNCHANGED <<rows, draft, writer, source>>
        /\ \A v \in Workers \ {w} : pc'[v] = pc[v] /\ source'[v] = source[v]
    BY <1>4 DEF IInv, TypeOK, Advance, table
  <2>2. View(w)' = View(w) /\ Covered(rows)' = Covered(rows) /\ Covered(View(w))' = Covered(View(w))
    BY <2>1 DEF View, Covered
  <2>3. ASSUME Serial' PROVE Serial /\ Disjoint(rows)' /\ AtEachStatement(w)'
    <3>1. Serial /\ Disjoint(rows)' /\ Disjoint(View(w))'
      BY <1>1, <2>1, <2>2, <2>3, AtWork DEF Serial, Disjoint
    <3>2. ~Room(rows, View(w), Head(todo[w]))
      <4> SUFFICES ASSUME Room(rows, View(w), Head(todo[w])) PROVE FALSE
        OBVIOUS
      <4>1. PICK i \in 1..Len(View(w)) : Overlaps(View(w)[i], Head(todo[w]))
        BY <1>1, <1>4 DEF Clash
      <4>2. View(w)[i] \in Rows /\ Head(todo[w]) \in Periods
        BY <1>1, TodoType DEF IInv, PeriodInHand
      <4>3. View(w)[i].to \in Nat /\ Head(todo[w]).from \in Nat
        BY <4>2, PeriodRow, RateAssumption DEF Rows, OpenEnd
      <4> QED  BY <4>1, <4>3 DEF Room, Overlaps
    <3>3. Covered(rows) \subseteq Covered(View(w))
      BY <1>1, <1>4, <3>1, <3>2, AtWork DEF AtEachStatement
    <3> QED  BY <2>1, <2>2, <3>1, <3>3 DEF AtEachStatement
  <2> QED  BY <1>1, <2>1, <2>3, SoloStep
<1> QED  BY <1>2, <1>3, <1>4 DEF Check

\* Insert of a period that clashes with nothing, and repeats nothing.
LEMMA InsertSerial ==
    ASSUME IInv, SInv, NEW w \in Workers, Insert(w)
    PROVE  SInv'
<1> DEFINE p == Head(todo[w])
           t == View(w)
<1>1. /\ pc[w] = "insert" /\ pc'[w] \in {"match", "commit"}
      /\ \A v \in Workers \ {w} : pc'[v] = pc[v]
      /\ UNCHANGED <<rows, source, raced>>
      /\ p \in Periods /\ t \in Seq(Rows) /\ DOMAIN t = 1..Len(t)
  BY ViewType, TodoType DEF IInv, TypeOK, Insert, Write, Advance, PeriodInHand
<1>2. View(w)' = Append(t, p)
  BY WriteView DEF Insert
<1>3. ASSUME Serial' PROVE Serial /\ Disjoint(rows)' /\ AtEachStatement(w)'
  <2>1. Serial /\ \A i \in 1..Len(t) : t[i] # p
    <3>1. ~repeated' /\ ~raced' /\ raced' = raced
      BY <1>1, <1>3 DEF Serial
    <3>2. repeated' = (repeated \/ \E i \in DOMAIN t : t[i] = p)
      BY DEF Insert
    <3> HIDE DEF t, p
    <3>3. ~repeated /\ ~\E i \in DOMAIN t : t[i] = p
      BY <3>1, <3>2
    <3> QED  BY <3>1, <3>3, <1>1 DEF Serial
  <2>2. /\ Disjoint(rows) /\ Disjoint(t)
        /\ \A i \in 1..Len(t) : ~Overlaps(t[i], p)
        /\ source[w] = "import" => Covered(rows) \subseteq Covered(t) \/ Room(rows, t, p)
    BY <1>1, <2>1, AtWork DEF AtEachStatement
  <2>3. Disjoint(Append(t, p))
    <3> HIDE DEF t, p
    <3> QED  BY <1>1, <2>1, <2>2, DisjointAppend
  <2>4. Covered(t) \cup (p.from .. p.to) \subseteq Covered(Append(t, p))
    <3> HIDE DEF t, p
    <3> QED  BY <1>1, AppendCovers
  <2>5. source[w] = "import" => Covered(rows) \subseteq Covered(Append(t, p))
    BY <2>2, <2>4 DEF Room
  <2>6. Disjoint(rows)' /\ Disjoint(View(w))'
    BY <1>1, <1>2, <2>2, <2>3 DEF Disjoint
  <2>7. Covered(rows)' = Covered(rows) /\ Covered(View(w))' = Covered(Append(t, p))
    BY <1>1, <1>2 DEF Covered
  <2> QED  BY <1>1, <2>1, <2>5, <2>6, <2>7 DEF AtEachStatement
<1> QED  BY <1>1, <1>3, SoloStep

\* Commit publishes a disjoint table.
LEMMA CommitSerial ==
    ASSUME IInv, SInv, NEW w \in Workers, Commit(w)
    PROVE  SInv'
<1>1. pc[w] = "commit" /\ End(w) /\ rows' = View(w) /\ UNCHANGED <<repeated, raced>>
  BY DEF Commit, history
<1>2. Serial => Disjoint(rows)'
  BY <1>1, AtWork DEF Disjoint
<1> QED  BY <1>1, <1>2, EndSerial

\* Every step keeps the serial invariant.
LEMMA NextSerial == IInv /\ SInv /\ [Next]_vars => SInv'
<1> SUFFICES ASSUME IInv, SInv, [Next]_vars PROVE SInv'
  OBVIOUS
<1>1. CASE UNCHANGED vars
  BY <1>1 DEF SInv, Serial, Solo, Disjoint, AtEachStatement, View, Reconciles, Room, Covered,
      vars, table, request, history
<1>2. ASSUME NEW w \in Workers, NEW p \in Periods, Manual(w, p) PROVE SInv'
  BY <1>2, RequestSerial DEF Manual
<1>3. ASSUME NEW w \in Workers, NEW f \in Files, Import(w, f) PROVE SInv'
  BY <1>3, RequestSerial DEF Import
<1>4. ASSUME NEW w \in Workers, Fail(w) PROVE SInv'
  BY <1>4, EndSerial DEF Fail, history, SInv, Disjoint
<1> QED
  BY <1>1, <1>2, <1>3, <1>4, MatchSerial, UpdateSerial, ReadSerial, ShrinkSerial, CheckSerial,
     InsertSerial, CommitSerial
  DEF Next

\* One rate per day, for requests served one at a time that repeat nothing.
THEOREM OneRate == Spec => []OneRatePerDay
<1>1. IInv /\ SInv => OneRatePerDay
  <2> SUFFICES ASSUME IInv, SInv, Serial PROVE Disjoint(rows) /\ DOMAIN rows = 1..Len(rows)
    BY DEF OneRatePerDay, Serial, Disjoint, Apart
  <2> QED  BY DEF IInv, TypeOK, SInv
<1>2. Spec => [](IInv /\ SInv)
  BY InitInv, NextInv, InitSerial, NextSerial, PTL DEF Spec
<1> QED  BY <1>1, <1>2, PTL

\* Under the same conditions, a file leaves no day without a rate that had one.
THEOREM CoverageKept == Spec => FilesKeepCoverage
<1> DEFINE Kept ==
      \A w \in Workers :
          ~repeated /\ ~raced /\ source[w] = "import" /\ pc[w] = "commit" /\ pc'[w] = "idle"
              => Covered(rows) \subseteq Covered(rows')
<1>1. ASSUME IInv, SInv, [Next]_vars PROVE Kept
  <2> SUFFICES ASSUME NEW w \in Workers, Serial, source[w] = "import", pc[w] = "commit",
                      pc'[w] = "idle"
               PROVE  Covered(rows) \subseteq Covered(rows')
    BY DEF Serial
  <2>1. \A v \in Workers \ {w} : pc[v] = "idle"
    BY <1>1 DEF SInv, Solo
  <2>2. rows' = rows \/ rows' = View(w)
    <3>1. CASE UNCHANGED vars
      BY <3>1 DEF vars, table
    <3>2. ASSUME NEW v \in Workers, Commit(v) PROVE rows' = View(w)
      BY <3>2, <2>1 DEF Commit
    <3> QED
      BY <1>1, <3>1, <3>2 DEF Next, Manual, Import, Request, Match, Update, ReadOpen, Shrink, Check,
          Insert, Fail, Write, table
  <2>3. Covered(rows) \subseteq Covered(View(w))
    BY <1>1, AtWork DEF AtEachStatement
  <2>4. rows' = View(w) => Covered(rows') = Covered(View(w))
    OBVIOUS
  <2> QED  BY <2>2, <2>3, <2>4
<1>2. Spec => [](IInv /\ SInv)
  BY InitInv, NextInv, InitSerial, NextSerial, PTL DEF Spec
<1>3. Spec => [][Kept]_vars
  BY <1>1, <1>2, PTL DEF Spec
<1> QED  BY <1>3 DEF FilesKeepCoverage
=============================================================================
