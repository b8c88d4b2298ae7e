------------------------------ MODULE Occupancy ------------------------------
(***************************************************************************)
(* From the log of who was at home, whose entries may nest, overlap and    *)
(* leave gaps, to one number of people for each day                        *)
(* (src/src/aggregate.py, src/src/app.py).                                 *)
(*                                                                         *)
(* Time is cut into equal slots, so many to a day; entries begin and end   *)
(* at their limits.  Two entries of one and the same interval, between     *)
(* which the order of their rows decides, are not made.                    *)
(***************************************************************************)
EXTENDS Integers, FiniteSets, FiniteSetsExt

CONSTANTS
    LogDays,     \* the days of the log
    SlotsPerDay, \* slots of a day
    Counts,      \* numbers of people
    BridgeDays,  \* OCCUPANCY_BRIDGE_MAX_GAP_DAYS
    MaxEntries   \* bound: entries of the log

ASSUME OccupancyAssumption ==
    /\ LogDays \in Nat /\ SlotsPerDay \in Nat \ {0} /\ BridgeDays \in Nat /\ MaxEntries \in Nat
    /\ Counts \subseteq Nat

End == LogDays * SlotsPerDay

VARIABLE log   \* occupancy_log: [from, to, count], without the slot `to'

OccupancyInit == log = {}

\* POST and DELETE of /api/settings/occupancy.  An entry of no length is taken, too.
LogEntry(from, to, count) ==
    /\ from <= to /\ Cardinality(log) < MaxEntries
    /\ ~\E e \in log : e.from = from /\ e.to = to
    /\ log' = log \cup {[from |-> from, to |-> to, count |-> count]}

DeleteEntry(e) == log' = log \ {e}

OccupancyNext ==
    \/ \E from \in 0..(End - 1), to \in 1..End, count \in Counts : LogEntry(from, to, count)
    \/ \E e \in log : DeleteEntry(e)

OccupancySpec == OccupancyInit /\ [][OccupancyNext]_log

-----------------------------------------------------------------------------
(* _resolve_occupancy_overlaps. *)

Length(e) == e.to - e.from

\* Mutant: the entry that begins later prevails.
Prevails_Later(e, f) == e.from >= f.from
Prevails(e, f) ==
    \/ Length(e) < Length(f)
    \/ Length(e) = Length(f) /\ e.from >= f.from

\* Between two neighbouring limits of entries one entry is in force, or none.
Resolved ==
    LET limits == {e.from : e \in log} \cup {e.to : e \in log}
        pieces == {p \in limits \X limits : p[1] < p[2] /\ ~\E c \in limits : p[1] < c /\ c < p[2]}
        active(p) == {e \in log : e.from <= p[1] /\ e.to >= p[2]}
    IN  {[from |-> p[1], to |-> p[2],
          count |-> (CHOOSE e \in active(p) : \A f \in active(p) : Prevails(e, f)).count]
            : p \in {q \in pieces : active(q) # {}}}

(* expand_occupancy_by_day. *)

\* Whole days, as timedelta.days counts them.
Bridged(gap) == gap \div SlotsPerDay <= BridgeDays

\* A short gap between two segments carries the earlier one's count on.
Segments ==
    LET resolved == Resolved
        next(s) == {t \in resolved : t.from >= s.to}
        following(s) == CHOOSE t \in next(s) : \A u \in next(s) : t.from <= u.from
    IN  resolved \cup
        {[from |-> s.to, to |-> following(s).from, count |-> s.count]
            : s \in {r \in resolved : /\ next(r) # {} /\ following(r).from > r.to
                                      /\ Bridged(following(r).from - r.to)}}

Overlap(s, d) ==
    Max({0, Min({s.to, (d + 1) * SlotsPerDay}) - Max({s.from, d * SlotsPerDay})})

\* The count with most of the day; of two with the same, the one seen first later.
OccupancyByDay ==
    LET segments == Segments
        on(d, c) == {s \in segments : s.count = c /\ Overlap(s, d) > 0}
        seen(d) == {c \in Counts : on(d, c) # {}}
        held(d, c) == MapThenSumSet(LAMBDA s : Overlap(s, d), on(d, c))
        first(d, c) == Min({s.from : s \in on(d, c)})
        prefers(d, b, c) == \/ held(d, b) > held(d, c)
                            \/ held(d, b) = held(d, c) /\ first(d, b) >= first(d, c)
    IN  [d \in {x \in 0..(LogDays - 1) : seen(x) # {}} |->
            CHOOSE b \in seen(d) : \A c \in seen(d) : prefers(d, b, c)]

-----------------------------------------------------------------------------
(* The same, slot by slot. *)

Covering(x) == {e \in log : e.from <= x /\ x < e.to}

\* The people at home in slot x, as a set: of the shortest entry that covers it, or
\* where none does of the last slot before, when the gap is short and has an end.
AtHome(x) ==
    LET shorter(g, f) == Length(g) < Length(f)
        later(g, f) == Length(g) = Length(f) /\ g.from > f.from
        specific(y) == {e.count : e \in {f \in Covering(y) :
                            ~\E g \in Covering(y) : shorter(g, f) \/ later(g, f)}}
        before == {y \in 0..x : Covering(y) # {}}
        after == {y \in x..(End - 1) : Covering(y) # {}}
    IN  IF Covering(x) # {} THEN specific(x)
        ELSE IF /\ before # {} /\ after # {}
                /\ Min(after) - Max(before) - 1 < (BridgeDays + 1) * SlotsPerDay
             THEN specific(Max(before)) ELSE {}

\* A day's number is one that prevailed in no fewer of its slots than any other, and
\* a day has none just when no slot of it is covered or bridged: nested entries are
\* not counted twice and a long silence is not filled (expand_occupancy_by_day).
MajorityOfTheDay ==
    LET byDay == OccupancyByDay
        atHome == [x \in 0..(End - 1) |-> AtHome(x)]
        slots(d) == (d * SlotsPerDay)..(d * SlotsPerDay + SlotsPerDay - 1)
        held(d, c) == Cardinality({x \in slots(d) : c \in atHome[x]})
    IN  \A d \in 0..(LogDays - 1) :
            IF d \in DOMAIN byDay
            THEN /\ held(d, byDay[d]) > 0
                 /\ \A c \in Counts : held(d, c) <= held(d, byDay[d])
            ELSE \A x \in slots(d) : atHome[x] = {}
=============================================================================
