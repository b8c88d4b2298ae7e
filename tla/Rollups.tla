------------------------------ MODULE Rollups ------------------------------
(***************************************************************************)
(* What OmniMeter promises about its daily rollups, without files, devices *)
(* or SQLite's lock: the tables are derived in one piece from readings     *)
(* that were stored (src/src/aggregate.py, rebuild_all), and a rebuild     *)
(* misses nothing that was stored when it began.                           *)
(*                                                                         *)
(* A change is whatever alters the readings: a poll, a file's rows, or the *)
(* deletion of a reading.                                                  *)
(***************************************************************************)
CONSTANTS
    Changes,    \* everything that may be stored
    Builders,   \* the processes that rebuild
    Nothing     \* "no rebuild under way"

VARIABLES
    stored,     \* the changes committed to the reading tables
    derived,    \* the changes the rollups reflect
    since       \* [b] what was stored when b's rebuild began, or Nothing

Init ==
    /\ stored = {}
    /\ derived = {}
    /\ since = [b \in Builders |-> Nothing]

Store ==
    /\ stored \subseteq stored' /\ stored' \subseteq Changes
    /\ UNCHANGED <<derived, since>>

Begin(b) ==
    /\ since[b] = Nothing
    /\ since' = [since EXCEPT ![b] = stored]
    /\ UNCHANGED <<stored, derived>>

Publish(b) ==
    /\ since[b] # Nothing
    /\ since[b] \subseteq derived' /\ derived' \subseteq stored
    /\ since' = [since EXCEPT ![b] = Nothing]
    /\ UNCHANGED stored

\* A crash, or a time-out on the lock.
Abandon(b) ==
    /\ since' = [since EXCEPT ![b] = Nothing]
    /\ UNCHANGED <<stored, derived>>

Next == Store \/ \E b \in Builders : Begin(b) \/ Publish(b) \/ Abandon(b)

Spec == Init /\ [][Next]_<<stored, derived, since>>
=============================================================================
