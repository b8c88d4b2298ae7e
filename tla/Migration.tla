------------------------------ MODULE Migration ------------------------------
(***************************************************************************)
(* init_db (src/src/db.py): every process brings the database up to date   *)
(* when it starts, several start together, and the others write meanwhile. *)
(*                                                                         *)
(* A plain column is added by check-then-ALTER, each in a transaction of   *)
(* its own.  A reading table with the old key is rebuilt in one            *)
(* transaction, on a check made before it.  The UPDATE of the occupancy    *)
(* log then opens the transaction in which every later column is added and *)
(* with which init_db ends.                                                *)
(***************************************************************************)
EXTENDS Integers, FiniteSets

CONSTANTS
    Starters,    \* the processes that call init_db
    Nobody,      \* not a process
    Plain,       \* the columns _migrate adds to one table
    Later,       \* the columns added after the occupancy log
    Minutes,     \* the times of readings
    Granularity, \* their sources
    MaxDeaths    \* bound: processes killed

ASSUME MigrationAssumption ==
    /\ Nobody \notin Starters
    /\ Plain \cap Later = {}
    /\ MaxDeaths \in Nat

VARIABLES
    pc,       \* [p] where in init_db p is
    missing,  \* [p] the columns its last check did not find
    rebuild,  \* [p] whether its check found the old key
    columns,  \* the columns that exist, committed
    keyed,    \* the reading table has the key (time, granularity)
    table,    \* its rows, pairs of time and source
    copy,     \* [p] the table p is building
    lock,     \* the process whose write transaction is open
    deaths

migrationVars == <<pc, missing, rebuild, columns, keyed, table, copy, lock, deaths>>

Steps == {"down", "plain", "rekey", "copied", "occupancy", "later", "ready"}

\* A database of the oldest version.
MigrationInit ==
    /\ pc = [p \in Starters |-> "down"]
    /\ missing = [p \in Starters |-> {}] /\ rebuild = [p \in Starters |-> FALSE]
    /\ columns = {} /\ keyed = FALSE
    /\ table = {} /\ copy = [p \in Starters |-> {}]
    /\ lock = Nobody /\ deaths = 0

Go(p, to) == pc' = [pc EXCEPT ![p] = to]

\* Mutant: no column is looked for before it is added.
NotFound_Unchecked(wanted) == wanted
NotFound(wanted) == wanted \ columns

\* init_db begins: the PRAGMA of _migrate.
Starts(p) ==
    /\ pc[p] = "down"
    /\ missing' = [missing EXCEPT ![p] = NotFound(Plain)]
    /\ Go(p, "plain")
    /\ UNCHANGED <<rebuild, columns, keyed, table, copy, lock, deaths>>

AddsPlain(p) ==
    /\ pc[p] = "plain" /\ lock = Nobody
    /\ \E c \in missing[p] \ columns :
        /\ columns' = columns \cup {c}
        /\ missing' = [missing EXCEPT ![p] = @ \ {c}]
    /\ UNCHANGED <<pc, rebuild, keyed, table, copy, lock, deaths>>

\* "duplicate column name": the process that lost the race dies and is restarted.
LosesTheRace(p) ==
    /\ pc[p] = "plain" /\ lock = Nobody
    /\ missing[p] \cap columns # {}
    /\ Go(p, "down")
    /\ UNCHANGED <<missing, rebuild, columns, keyed, table, copy, lock, deaths>>

\* _has_composite_time_granularity_pk, before BEGIN IMMEDIATE.
LooksAtKey(p) ==
    /\ pc[p] = "plain" /\ missing[p] = {}
    /\ rebuild' = [rebuild EXCEPT ![p] = ~keyed]
    /\ Go(p, "rekey")
    /\ UNCHANGED <<missing, columns, keyed, table, copy, lock, deaths>>

\* Mutant: the rows are read before the transaction begins.
MayCopy_Unlocked(p) == TRUE
MayCopy(p) == lock = Nobody

Copies(p) ==
    /\ pc[p] = "rekey" /\ rebuild[p] /\ MayCopy(p)
    /\ copy' = [copy EXCEPT ![p] = table]
    /\ lock' = IF lock = Nobody THEN p ELSE lock
    /\ Go(p, "copied")
    /\ UNCHANGED <<missing, rebuild, columns, keyed, table, deaths>>

Swaps(p) ==
    /\ pc[p] = "copied" /\ lock \in {p, Nobody}
    /\ table' = copy[p] /\ keyed' = TRUE /\ lock' = Nobody
    /\ rebuild' = [rebuild EXCEPT ![p] = FALSE] /\ copy' = [copy EXCEPT ![p] = {}]
    /\ Go(p, "rekey")
    /\ UNCHANGED <<missing, columns, deaths>>

\* The UPDATE takes the write lock, with or without rows to change.
OpensTheLast(p) ==
    /\ pc[p] = "rekey" /\ ~rebuild[p] /\ lock = Nobody
    /\ lock' = p
    /\ Go(p, "occupancy")
    /\ UNCHANGED <<missing, rebuild, columns, keyed, table, copy, deaths>>

\* The checks and ALTERs that follow, inside the transaction, and its commit.
ChecksLater(p) ==
    /\ pc[p] = "occupancy"
    /\ missing' = [missing EXCEPT ![p] = NotFound(Later)]
    /\ Go(p, "later")
    /\ UNCHANGED <<rebuild, columns, keyed, table, copy, lock, deaths>>

CommitsLast(p) ==
    /\ pc[p] = "later"
    /\ columns' = columns \cup missing[p] /\ missing' = [missing EXCEPT ![p] = {}]
    /\ lock' = Nobody
    /\ Go(p, "ready")
    /\ UNCHANGED <<rebuild, keyed, table, copy, deaths>>

\* get_connection waits 30 seconds for the lock and then raises.
TimesOut(p) ==
    /\ pc[p] \in {"plain", "rekey"} /\ lock \notin {p, Nobody}
    /\ deaths < MaxDeaths /\ deaths' = deaths + 1
    /\ Go(p, "down")
    /\ UNCHANGED <<missing, rebuild, columns, keyed, table, copy, lock>>

\* SQLite rolls back what was not committed.
Dies(p) ==
    /\ pc[p] # "down"
    /\ deaths < MaxDeaths /\ deaths' = deaths + 1
    /\ lock' = IF lock = p THEN Nobody ELSE lock
    /\ copy' = [copy EXCEPT ![p] = {}]
    /\ rebuild' = [rebuild EXCEPT ![p] = FALSE]
    /\ Go(p, "down")
    /\ UNCHANGED <<missing, columns, keyed, table>>

\* A process that is up, or one of the version before that has not been stopped
\* yet, stores a reading: INSERT OR REPLACE on whatever the key is.
Writes(m, g) ==
    /\ lock = Nobody
    /\ table' = {r \in table : keyed \/ r[1] # m} \cup {<<m, g>>}
    /\ UNCHANGED <<pc, missing, rebuild, columns, keyed, copy, lock, deaths>>

Init_db(p) ==
    \/ Starts(p) \/ AddsPlain(p) \/ LosesTheRace(p) \/ LooksAtKey(p) \/ Copies(p)
    \/ Swaps(p) \/ OpensTheLast(p) \/ ChecksLater(p) \/ CommitsLast(p)

MigrationNext ==
    \/ \E p \in Starters : Init_db(p) \/ TimesOut(p) \/ Dies(p)
    \/ \E m \in Minutes, g \in Granularity : Writes(m, g)

\* The supervisor restarts what has died, and a process that can go on does.
MigrationFairness == \A p \in Starters : WF_migrationVars(Init_db(p))

MigrationSpec == MigrationInit /\ [][MigrationNext]_migrationVars /\ MigrationFairness

-----------------------------------------------------------------------------
MigrationTypeOK ==
    /\ pc \in [Starters -> Steps]
    /\ missing \in [Starters -> SUBSET (Plain \cup Later)]
    /\ rebuild \in [Starters -> BOOLEAN] /\ keyed \in BOOLEAN
    /\ columns \subseteq Plain \cup Later
    /\ table \subseteq Minutes \X Granularity
    /\ copy \in [Starters -> SUBSET (Minutes \X Granularity)]
    /\ lock \in Starters \cup {Nobody} /\ deaths \in Nat

\* No reading is lost to a rebuild, whichever processes rebuild, die and write at
\* the same time: a row goes only when a reading of its own minute replaces it
\* under the old key (_migrate_composite_pk).
RowsSurvive ==
    [][\A r \in table : r \in table' \/ (~keyed /\ \E n \in table' : n[1] = r[1])]_migrationVars

\* A process that has come up finds every column and the new key, then and for ever,
\* though others may be migrating still (init_db).
ReadyIsMigrated ==
    \A p \in Starters : pc[p] = "ready" => keyed /\ columns = Plain \cup Later

\* Every start succeeds in the end: the loser of a race, which dies, finds the
\* winner's columns when it is restarted (_migrate, _add_column_once).
EveryStartSucceeds == <>[](\A p \in Starters : pc[p] = "ready")
=============================================================================
