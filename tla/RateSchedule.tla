---------------------------- MODULE RateSchedule ----------------------------
(***************************************************************************)
(* The rate periods of src/src/app.py: the manual route                    *)
(* (api_settings_rates, and api_settings_gas_rates, its twin over          *)
(* gas_rate_schedule) and the two imports (PDF and CSV), which share       *)
(* _apply_rate_periods.  gunicorn runs two workers, each request on a      *)
(* connection of its own, so the statements of two requests interleave.    *)
(*                                                                         *)
(* SQLite, as src/src/db.py opens it: reads see the last commit (or the    *)
(* connection's own writes); the first write of a transaction takes the    *)
(* write lock and keeps it until the commit, or until the connection is    *)
(* closed, which discards the writes.                                      *)
(*                                                                         *)
(* A table is the sequence of its rows in the order of their ids: no route *)
(* deletes a rate.  A row is its period only; the price it carries decides *)
(* nothing here.                                                           *)
(***************************************************************************)
EXTENDS Integers, Sequences

CONSTANTS
    Workers,      \* the web processes
    NoWorker,     \* "nobody holds the write lock"
    MaxDay,       \* the calendar; OpenEnd is OPEN_ENDED_SENTINEL
    Files,        \* what an imported file may hold: sequences of periods
    MaxRequests   \* bound: requests made

ASSUME RateAssumption ==
    /\ NoWorker \notin Workers
    /\ MaxDay \in Nat \ {0}
    /\ MaxRequests \in Nat

Days == 1..MaxDay
OpenEnd == MaxDay + 1

\* Both routes and the CSV parser refuse a period that ends before it starts.
Periods == {p \in [from : Days, to : 1..OpenEnd] : p.from <= p.to}

ASSUME FilesAssumption == Files \subseteq Seq(Periods) \ {<<>>}

VARIABLES
    rows,      \* the committed table
    draft,     \* the table as the writer sees it
    writer,    \* the worker that holds the write lock
    pc,        \* [w] the statement worker w is at
    source,    \* [w] the route it serves
    todo,      \* [w] the periods it still has to apply, the current one first
    target,    \* [w] the id of the open row it is about to shrink
    requests,  \* history: requests made
    repeated,  \* history: a manual entry repeated an existing period
    raced      \* history: two requests were in progress together

table == <<rows, draft, writer>>
request == <<pc, source, todo, target>>
history == <<requests, repeated, raced>>
vars == <<table, request, history>>

TypeOK ==
    /\ rows \in Seq([from : Days, to : 1..OpenEnd])
    /\ draft \in Seq([from : Days, to : 1..OpenEnd])
    /\ writer \in Workers \cup {NoWorker}
    /\ pc \in [Workers -> {"idle", "match", "found", "read", "shrink", "check", "insert", "commit"}]
    /\ source \in [Workers -> {"manual", "import"}]
    /\ todo \in [Workers -> Seq(Periods)]
    /\ target \in [Workers -> Nat]
    /\ requests \in 0..MaxRequests
    /\ repeated \in BOOLEAN /\ raced \in BOOLEAN

Init ==
    /\ rows = <<>> /\ draft = <<>> /\ writer = NoWorker
    /\ pc = [w \in Workers |-> "idle"]
    /\ source = [w \in Workers |-> "manual"]
    /\ todo = [w \in Workers |-> <<>>]
    /\ target = [w \in Workers |-> 0]
    /\ requests = 0 /\ repeated = FALSE /\ raced = FALSE

-----------------------------------------------------------------------------
\* What w's queries read, and a write of it: w has or gets the write lock.
View(w) == IF writer = w THEN draft ELSE rows

Write(w, t) ==
    /\ writer \in {w, NoWorker}
    /\ writer' = w
    /\ draft' = t
    /\ UNCHANGED rows

Release(w) ==
    /\ writer' = IF writer = w THEN NoWorker ELSE writer
    /\ draft' = IF writer = w THEN <<>> ELSE draft

GoTo(w, s) ==
    /\ pc' = [pc EXCEPT ![w] = s]
    /\ UNCHANGED <<source, todo, target>>

\* The response is sent, or the request dies, and its connection is closed:
\* writes that are not committed are discarded.
End(w) ==
    /\ pc' = [pc EXCEPT ![w] = "idle"]
    /\ source' = [source EXCEPT ![w] = "manual"]
    /\ todo' = [todo EXCEPT ![w] = <<>>]
    /\ target' = [target EXCEPT ![w] = 0]
    /\ Release(w)

\* The current period is dealt with: on to the next one of the file, if any.
Advance(w) ==
    /\ pc' = [pc EXCEPT ![w] = IF Len(todo[w]) > 1 THEN "match" ELSE "commit"]
    /\ todo' = [todo EXCEPT ![w] = Tail(@)]
    /\ UNCHANGED <<source, target>>

Request(w, route, periods, first) ==
    /\ pc[w] = "idle"
    /\ requests < MaxRequests
    /\ requests' = requests + 1
    /\ raced' = (raced \/ \E v \in Workers : pc[v] # "idle")
    /\ pc' = [pc EXCEPT ![w] = first]
    /\ source' = [source EXCEPT ![w] = route]
    /\ todo' = [todo EXCEPT ![w] = periods]
    /\ UNCHANGED <<table, target, repeated>>

Manual(w, p) == Request(w, "manual", <<p>>, "read")
Import(w, f) == Request(w, "import", f, "match")

\* Import: a row with exactly this period is updated in place (its price, not
\* its period), once the write lock is free.
Match(w) ==
    /\ pc[w] = "match"
    /\ GoTo(w, IF \E i \in DOMAIN View(w) : View(w)[i] = Head(todo[w]) THEN "found" ELSE "read")
    /\ UNCHANGED <<table, history>>

Update(w) ==
    /\ pc[w] = "found"
    /\ Write(w, View(w))
    /\ Advance(w)
    /\ UNCHANGED history

\* Mutation of Reconciles: closed periods of a file supersede the open row too.
Reconciles_Closed(w) == TRUE

\* A manual entry always reconciles; a period of a file only if it is open.
Reconciles(w) == source[w] = "manual" \/ Head(todo[w]).to = OpenEnd

\* The rows with the sentinel end; the first one by id is the open row.
OpenRows(t) == {i \in DOMAIN t : t[i].to = OpenEnd}
IsOpenRow(t, i) == i \in OpenRows(t) /\ \A j \in OpenRows(t) : i <= j

\* Mutation of Superseded: an open row that starts on the same day, too.
Superseded_SameDay(t, i, p) == IsOpenRow(t, i) /\ t[i].from <= p.from

Superseded(t, i, p) == IsOpenRow(t, i) /\ t[i].from < p.from

\* _reconcile_open_ended_period, its SELECT: the open row, if it starts
\* before the new period.
ReadOpen(w) ==
    /\ pc[w] = "read"
    /\ \/ \E i \in DOMAIN View(w) :
             /\ Reconciles(w)
             /\ Superseded(View(w), i, Head(todo[w]))
             /\ target' = [target EXCEPT ![w] = i]
             /\ pc' = [pc EXCEPT ![w] = "shrink"]
             /\ UNCHANGED <<source, todo>>
       \/ /\ ~\E i \in DOMAIN View(w) : Reconciles(w) /\ Superseded(View(w), i, Head(todo[w]))
          /\ GoTo(w, "check")
    /\ UNCHANGED <<table, history>>

\* Its UPDATE, by id, of the row it read: the end becomes the day before.
Shrink(w) ==
    /\ pc[w] = "shrink"
    /\ Write(w, [View(w) EXCEPT ![target[w]].to = Head(todo[w]).from - 1])
    /\ pc' = [pc EXCEPT ![w] = "check"]
    /\ target' = [target EXCEPT ![w] = 0]
    /\ UNCHANGED <<source, todo>>
    /\ UNCHANGED history

\* Mutation of Overlaps: an end that is the next period's start is no overlap.
Overlaps_Open(r, p) == r.to > p.from /\ r.from < p.to /\ r # p

\* _overlapping_period: inclusive ends, the same period excepted.
Overlaps(r, p) == r.to >= p.from /\ r.from <= p.to /\ r # p

\* A clash ends a manual request with a 400 (nothing is committed); in a file
\* the period is skipped, and the others still apply.
Clash(w) == \E i \in DOMAIN View(w) : Overlaps(View(w)[i], Head(todo[w]))

Check(w) ==
    /\ pc[w] = "check"
    /\ \/ ~Clash(w) /\ GoTo(w, "insert") /\ UNCHANGED table
       \/ Clash(w) /\ source[w] = "manual" /\ End(w) /\ UNCHANGED rows
       \/ Clash(w) /\ source[w] = "import" /\ Advance(w) /\ UNCHANGED table
    /\ UNCHANGED history

Insert(w) ==
    /\ pc[w] = "insert"
    /\ Write(w, Append(View(w), Head(todo[w])))
    /\ repeated' = (repeated \/ \E i \in DOMAIN View(w) : View(w)[i] = Head(todo[w]))
    /\ Advance(w)
    /\ UNCHANGED <<requests, raced>>

Commit(w) ==
    /\ pc[w] = "commit"
    /\ rows' = View(w)
    /\ End(w)
    /\ UNCHANGED history

\* The request ends in an exception (the lock was not free within 30 seconds,
\* the disk is full) or its worker dies.
Fail(w) ==
    /\ pc[w] # "idle"
    /\ End(w)
    /\ UNCHANGED <<rows, history>>

Next ==
    \E w \in Workers :
        \/ \E p \in Periods : Manual(w, p)
        \/ \E f \in Files : Import(w, f)
        \/ Match(w) \/ Update(w)
        \/ ReadOpen(w) \/ Shrink(w)
        \/ Check(w) \/ Insert(w)
        \/ Commit(w) \/ Fail(w)

Spec == Init /\ [][Next]_vars

-----------------------------------------------------------------------------
(***************************************************************************)
(* Properties                                                              *)
(***************************************************************************)

Covered(t) == {d \in 1..OpenEnd : \E i \in DOMAIN t : t[i].from <= d /\ d <= t[i].to}

\* However requests race, no row is ever shrunk to a period that ends before
\* it starts: rate_for would never find it, and the overlap check neither.
RowsHaveDays == \A i \in DOMAIN rows : rows[i].from <= rows[i].to

\* A day belongs to one row at most, so that rate_for's first match is its
\* only one, as long as requests do not overlap in time and no manual entry
\* repeats an existing period.
OneRatePerDay ==
    ~repeated /\ ~raced =>
        \A i, j \in DOMAIN rows :
            i # j => rows[i].to < rows[j].from \/ rows[j].to < rows[i].from

\* Under the same conditions no file, whatever its periods and whatever the
\* table holds, leaves a day that had a rate without one: it never shrinks
\* the open row and then skips the period it made room for.  (After a
\* repeated entry it can: two open rows of one period, then two files.)
FilesKeepCoverage ==
    [][\A w \in Workers :
          ~repeated /\ ~raced /\ source[w] = "import" /\ pc[w] = "commit" /\ pc'[w] = "idle"
              => Covered(rows) \subseteq Covered(rows')]_vars

\* What _overlapping_period's docstring has it for: partial overlaps, which
\* make the lookup order-dependent, are caught.
NoPartialOverlap ==
    \A i, j \in DOMAIN rows : ~Overlaps(rows[i], rows[j])
=============================================================================
