----------------------------- MODULE SolarHistory -----------------------------
(***************************************************************************)
(* The daily production totals of SolarEdge: the poller's top-up           *)
(* (src/src/solaredge_ingest.py, src/src/solaredge_history.py) and the     *)
(* backfill by hand (src/scripts/solaredge_backfill.py), on one database.  *)
(*                                                                         *)
(* A poll's first INSERT opens a write transaction that stays open during  *)
(* its later requests; what it stores is there for others when it commits. *)
(* Days are numbers; which day's total the vendor has published is its     *)
(* choice, and it keeps what it has published.                             *)
(***************************************************************************)
EXTENDS Integers, FiniteSets, FiniteSetsExt

CONSTANTS
    Pollers,     \* runs of solaredge_poll that may overlap
    Nil,         \* no poller
    LastDay,     \* bound: the last day
    MaxSpan,     \* MAX_DAYS_PER_CALL
    MonthLength, \* the days of a month
    MaxFaults    \* bound: polls that die, or fail after they asked

ASSUME HistoryAssumption ==
    /\ Nil \notin Pollers
    /\ LastDay \in Nat /\ MaxFaults \in Nat
    /\ MaxSpan \in Nat \ {0} /\ MonthLength \in 1..MaxSpan

AllDays == 1..LastDay

VARIABLES
    today,      \* the local day
    published,  \* the days whose total the vendor gives
    daily,      \* the days stored, committed
    attempts,   \* the days on which the gap was asked about, committed
    polling,    \* [p] where the run of p is
    writing,    \* the poller whose transaction is open
    stored,     \* the days it has stored in it
    attempted,  \* the attempts it has recorded in it
    windows,    \* the months the running backfill has still to look at
    asked,      \* history: [d] top-up calls answered on day d
    heard,      \* history: days asked for that had no value
    outOfReach, \* history: days the month's limit left out
    since,      \* history: the first day a top-up stored, LastDay + 1 before
    faults

historyVars == <<today, published, daily, attempts, polling, writing, stored, attempted,
                 windows, asked, heard, outOfReach, since, faults>>

HistoryInit ==
    /\ today = 1 /\ published = {} /\ daily = {} /\ attempts = {}
    /\ polling = [p \in Pollers |-> "idle"]
    /\ writing = Nil /\ stored = {} /\ attempted = {}
    /\ windows = {}
    /\ asked = [d \in AllDays |-> 0] /\ heard = {} /\ outOfReach = {}
    /\ since = LastDay + 1 /\ faults = 0

-----------------------------------------------------------------------------
(* The world. *)

\* Runs are short and keep to daylight: none spans midnight.
DayPasses ==
    /\ today < LastDay /\ today' = today + 1
    /\ \A p \in Pollers : polling[p] = "idle"
    /\ windows = {}
    /\ UNCHANGED <<published, daily, attempts, polling, writing, stored, attempted, windows,
                   asked, heard, outOfReach, since, faults>>

Publishes(d) ==
    /\ d < today /\ d \notin published
    /\ published' = published \cup {d}
    /\ UNCHANGED <<today, daily, attempts, polling, writing, stored, attempted, windows,
                   asked, heard, outOfReach, since, faults>>

-----------------------------------------------------------------------------
(* A poll. *)

Moves(p, to) == polling' = [polling EXCEPT ![p] = to]

\* Mutant: the transaction begins only with the day's total.
MayStoreOverview_Unlocked(p) == TRUE
MayStoreOverview(p) == writing = Nil

\* The overview is fetched and stored: the INSERT begins the transaction.
StoresOverview(p) ==
    /\ polling[p] = "idle" /\ MayStoreOverview(p)
    /\ writing' = p /\ stored' = {} /\ attempted' = {}
    /\ Moves(p, "overview")
    /\ UNCHANGED <<today, published, daily, attempts, windows, asked, heard, outOfReach, since, faults>>

Newest(have) == Max(have \cup {0})

GapIsDue == today \notin attempts \cup attempted

Behind == Newest(daily) < today - 1 /\ today > 1

\* Mutant: only yesterday is asked for.
AskFrom_Yesterday(newest) == today - 1
AskFrom(newest) == IF newest = 0 THEN today - 1 ELSE Max({newest + 1, today - MaxSpan})

\* finalise_recent, its one call answered.
Finalises(p) ==
    /\ polling[p] = "overview" /\ Behind /\ GapIsDue
    /\ LET newest == Newest(daily)
           window == AskFrom(newest)..(today - 1)
       IN  /\ stored' = window \cap published
           /\ heard' = heard \cup (window \ published)
           /\ outOfReach' = IF newest = 0 THEN outOfReach
                            ELSE outOfReach \cup (newest + 1)..(today - MaxSpan - 1)
    /\ attempted' = {today}
    /\ asked' = [asked EXCEPT ![today] = @ + 1]
    /\ Moves(p, "asked")
    /\ UNCHANGED <<today, published, daily, attempts, writing, windows, since, faults>>

Commits(p) ==
    /\ \/ polling[p] = "asked"
       \/ polling[p] = "overview" /\ ~(Behind /\ GapIsDue)
    /\ daily' = daily \cup stored
    /\ attempts' = {d \in attempts \cup attempted : attempted = {} \/ d >= today - 7}
    /\ since' = Min(stored \cup {since})
    /\ writing' = Nil /\ stored' = {} /\ attempted' = {}
    /\ Moves(p, "idle")
    /\ UNCHANGED <<today, published, windows, asked, heard, outOfReach, faults>>

\* A request fails before the gap was asked about: finish() rolls back.
Fails(p) ==
    /\ polling[p] = "overview"
    /\ writing' = Nil /\ stored' = {} /\ attempted' = {}
    /\ Moves(p, "idle")
    /\ UNCHANGED <<today, published, daily, attempts, windows, asked, heard, outOfReach, since, faults>>

\* The process dies; SQLite rolls back.
PollDies(p) ==
    /\ polling[p] # "idle"
    /\ faults < MaxFaults /\ faults' = faults + 1
    /\ writing' = Nil /\ stored' = {} /\ attempted' = {}
    /\ Moves(p, "idle")
    /\ UNCHANGED <<today, published, daily, attempts, windows, asked, heard, outOfReach, since>>

-----------------------------------------------------------------------------
(* The backfill. *)

\* The days from the installation to yesterday in months; a window is a set of days.
Months == {{d \in 1..(today - 1) : (d - 1) \div MonthLength = m} : m \in 0..LastDay} \ {{}}

BackfillBegins ==
    /\ windows = {} /\ windows' = Months
    /\ UNCHANGED <<today, published, daily, attempts, polling, writing, stored, attempted,
                   asked, heard, outOfReach, since, faults>>

Earliest == CHOOSE w \in windows : \A v \in windows : Min(w) <= Min(v)

\* A month that is complete costs no call; another is stored and committed.
FillsMonth ==
    /\ windows # {}
    /\ \/ Earliest \subseteq daily /\ UNCHANGED <<daily, heard>>
       \/ /\ ~(Earliest \subseteq daily) /\ writing = Nil
          /\ daily' = daily \cup (Earliest \cap published)
          /\ heard' = heard \cup (Earliest \ published)
    /\ windows' = windows \ {Earliest}
    /\ UNCHANGED <<today, published, attempts, polling, writing, stored, attempted,
                   asked, outOfReach, since, faults>>

\* A limit of the vendor's, a locked database or an interruption: what is stored stays.
BackfillStops ==
    /\ windows # {} /\ windows' = {}
    /\ UNCHANGED <<today, published, daily, attempts, polling, writing, stored, attempted,
                   asked, heard, outOfReach, since, faults>>

HistoryNext ==
    \/ DayPasses \/ BackfillBegins \/ FillsMonth \/ BackfillStops
    \/ \E d \in AllDays : Publishes(d)
    \/ \E p \in Pollers :
        StoresOverview(p) \/ Finalises(p) \/ Commits(p) \/ Fails(p) \/ PollDies(p)

HistorySpec == HistoryInit /\ [][HistoryNext]_historyVars

-----------------------------------------------------------------------------
HistoryTypeOK ==
    /\ today \in {1} \cup AllDays /\ published \subseteq AllDays
    /\ daily \subseteq AllDays /\ attempts \subseteq AllDays
    /\ polling \in [Pollers -> {"idle", "overview", "asked"}]
    /\ writing \in Pollers \cup {Nil}
    /\ stored \subseteq AllDays /\ attempted \subseteq AllDays
    /\ asked \in [AllDays -> Nat] /\ faults \in Nat

\* A gap costs one call a day, however many polls run, overlap and find the vendor
\* has nothing for it, but for a run that dies before its commit (finalise_recent).
AskedOncePerDay == \A d \in AllDays : asked[d] <= 1 + faults

\* The top-up looks at the newest day only, and yet leaves no hole of its own: a
\* day without a total behind a later one was asked for when there was none, or
\* lay beyond the month that one call may cover, whatever a backfill stored
\* meanwhile and wherever it stopped (finalise_recent, backfill).
HolesWereAsked ==
    \A d \in AllDays :
        d >= since /\ d < Newest(daily) /\ d \notin daily => d \in heard \cup outOfReach
=============================================================================
