------------------------------ MODULE Pipeline ------------------------------
(***************************************************************************)
(* How readings reach the dashboard: the poller (src/src/meter_poller.py,  *)
(* meter_ingest.py), the dropzone's timer (ingest_cli.py, ingest.py) and   *)
(* the web routes that import a file or delete a reading (app.py) write    *)
(* the reading tables of one SQLite file, and each of them rebuilds the    *)
(* daily rollups from them (aggregate.py, rebuild_all).                    *)
(*                                                                         *)
(* SQLite, as src/src/db.py opens it: a read outside a transaction sees    *)
(* the last commit, the first write takes the write lock until the commit, *)
(* and whoever waits for it longer than 30 s gets an error.                *)
(*                                                                         *)
(* A file's successive contents are its versions 1, 2, ...; a household    *)
(* writes them in place, by hand or through the upload form, and may still *)
(* be writing when somebody reads: a half-written file is a version too.   *)
(* A change is a poll of a device, a version's rows, or a deletion.        *)
(***************************************************************************)
EXTENDS Integers, FiniteSets

CONSTANTS
    Files,         \* file names, all of an enabled category
    Uploaded,      \* those the household uploads at times, instead of copying them
    LastVersion,   \* bound: [f] the last version of a file
    Unreadable,    \* the <<file, version>> that do not parse
    Rowless,       \* the <<file, version>> with nothing below the header (yet)
    Devices,       \* the meters the poller asks
    MaxPolls,      \* bound: readings of one device
    RebuildEvery,  \* REBUILD_EVERY_N_POLLS
    MaxDeletes,    \* bound: readings deleted by hand
    MaxFaults,     \* bound: crashes and time-outs on the lock
    Nobody,        \* the lock is free
    NoFile,        \* no file is being handled
    Nothing        \* no snapshot, no rebuild

ASSUME PipelineAssumption ==
    /\ LastVersion \in [Files -> Nat]
    /\ MaxPolls \in Nat /\ MaxDeletes \in Nat /\ MaxFaults \in Nat
    /\ RebuildEvery \in Nat \ {0}
    /\ Uploaded \subseteq Files
    /\ Unreadable \subseteq Files \X Nat /\ Rowless \subseteq Files \X Nat
    /\ \A f \in Files : <<f, 0>> \notin Rowless
    /\ Nobody \notin {"poller", "timer", "web"}
    /\ NoFile \notin Files

Processes == {"poller", "timer", "web"}

Polls == [kind : {"poll"}, of : Devices, nr : 1..MaxPolls]
Imports == UNION {[kind : {"file"}, of : {f}, nr : 1..LastVersion[f]] : f \in Files}
Deletes == [kind : {"delete"}, nr : 1..MaxDeletes]
Changes == Polls \cup Imports \cup Deletes

ASSUME NothingAssumption == \A S \in SUBSET Changes : S # Nothing

VARIABLES
    dropzone,   \* [f] the version in imports/, 0 if there is none
    failed,     \* [f] the version in imports/failed/, 0 if there is none
    recorded,   \* [f] the version whose hash ingested_files holds, 0 if none
    readings,   \* the changes committed to the reading tables
    rollups,    \* the changes the committed rollup tables reflect
    writer,     \* the process that holds the write lock
    at,         \* [p] the statement process p is at
    file,       \* [p] the file p handles
    hashed,     \* [p] the version p computed the hash of
    draft,      \* [p] p's uncommitted changes to the reading tables
    listed,     \* the names the timer's scan has still to handle
    fresh,      \* the timer's scan has ingested something
    since,      \* [p] what was committed when p's rebuild began
    seen,       \* [p] what p's rebuild has read
    count,      \* poll_count, modulo RebuildEvery
    polled,     \* history: [d] readings taken of device d
    faults      \* history: crashes and time-outs

disk == <<dropzone, failed>>
database == <<recorded, readings, rollups, writer>>
control == <<at, file, hashed, draft, listed, fresh, since, seen, count>>
vars == <<disk, database, control, polled, faults>>

Init ==
    /\ dropzone = [f \in Files |-> 0] /\ failed = [f \in Files |-> 0]
    /\ recorded = [f \in Files |-> 0]
    /\ readings = {} /\ rollups = {} /\ writer = Nobody
    /\ at = [p \in Processes |-> "idle"]
    /\ file = [p \in Processes |-> NoFile]
    /\ hashed = [p \in Processes |-> 0]
    /\ draft = [p \in Processes |-> {}]
    /\ listed = {} /\ fresh = FALSE
    /\ since = [p \in Processes |-> Nothing]
    /\ seen = [p \in Processes |-> Nothing]
    /\ count = 0
    /\ polled = [d \in Devices |-> 0] /\ faults = 0

-----------------------------------------------------------------------------
(* Transactions. *)

Go(p, label) == at' = [at EXCEPT ![p] = label]

\* The first write waits for the lock; the next ones have it.
Lock(p) == writer \in {Nobody, p} /\ writer' = p

\* The process ends, is killed, or closes its connection: what it wrote is gone.
Forget(p) ==
    /\ writer' = IF writer = p THEN Nobody ELSE writer
    /\ draft' = [draft EXCEPT ![p] = {}]
    /\ since' = [since EXCEPT ![p] = Nothing]
    /\ seen' = [seen EXCEPT ![p] = Nothing]

Publish(p) ==
    /\ readings' = readings \cup draft[p]
    /\ draft' = [draft EXCEPT ![p] = {}]
    /\ writer' = Nobody

-----------------------------------------------------------------------------
(* The poller: every device in turn, one commit, and at every third cycle a *)
(* rebuild.                                                                  *)

\* Every device is asked in turn.  One that is not configured, does not answer,
\* refuses, or answers with nothing known is reported, and the next one is asked;
\* the first row written opens the transaction.
Fetch(answered) ==
    /\ at["poller"] = "idle"
    /\ IF answered = {} THEN UNCHANGED writer ELSE Lock("poller")
    /\ polled' = [d \in Devices |-> IF d \in answered THEN polled[d] + 1 ELSE polled[d]]
    /\ draft' = [draft EXCEPT !["poller"] =
                    {[kind |-> "poll", of |-> d, nr |-> polled'[d]] : d \in answered}]
    /\ Go("poller", "commit")
    /\ UNCHANGED <<disk, recorded, readings, rollups, file, hashed, listed, fresh, since, seen,
                   count, faults>>

\* Mutant: the counter never meets the multiple it is compared with.
RebuildDue_Missed(n) == n = RebuildEvery
RebuildDue(n) == n = 0

PollCommit ==
    /\ at["poller"] = "commit"
    /\ IF draft["poller"] = {} THEN UNCHANGED <<readings, draft, writer>> ELSE Publish("poller")
    /\ count' = (count + 1) % RebuildEvery
    /\ Go("poller", IF RebuildDue(count') THEN "rebuild" ELSE "idle")
    /\ UNCHANGED <<disk, recorded, rollups, file, hashed, listed, fresh, since, seen,
                   polled, faults>>

-----------------------------------------------------------------------------
(* The household: files appear, are overwritten, and go on being written    *)
(* where they have meanwhile been moved to.                                 *)

Newest(f) == IF dropzone[f] > failed[f] THEN dropzone[f] ELSE failed[f]

Put(f) == dropzone' = [dropzone EXCEPT ![f] = Newest(f) + 1]

Drop(f) ==
    /\ Newest(f) < LastVersion[f]
    /\ Put(f)
    /\ UNCHANGED <<failed, database, control, polled, faults>>

WriteOn(f) ==
    /\ failed[f] > dropzone[f] /\ failed[f] < LastVersion[f]
    /\ failed' = [failed EXCEPT ![f] = @ + 1]
    /\ UNCHANGED <<dropzone, database, control, polled, faults>>

-----------------------------------------------------------------------------
(* ingest_file, for the timer's scan and for the upload route. *)

\* What the caller does after a file: the scan takes the next one, the route answers.
After(p) == IF p = "timer" THEN "scan" ELSE "idle"

ScanBegin ==
    /\ at["timer"] = "idle"
    /\ listed' = {f \in Files : dropzone[f] > 0}
    /\ Go("timer", "scan")
    /\ UNCHANGED <<disk, database, file, hashed, draft, fresh, since, seen, count, polled, faults>>

\* main rebuilds only if the scan ingested something.
ScanEnd ==
    /\ at["timer"] = "scan" /\ listed = {}
    /\ Go("timer", IF fresh THEN "rebuild" ELSE "idle")
    /\ fresh' = FALSE
    /\ UNCHANGED <<disk, database, file, hashed, draft, listed, since, seen, count,
                   polled, faults>>

Upload(f) ==
    /\ at["web"] = "idle" /\ f \in Uploaded
    /\ Newest(f) < LastVersion[f]
    /\ Put(f)
    /\ file' = [file EXCEPT !["web"] = f]
    /\ Go("web", "hash")
    /\ UNCHANGED <<failed, database, hashed, draft, listed, fresh, since, seen, count,
                   polled, faults>>

Leave(p) ==
    /\ file' = [file EXCEPT ![p] = NoFile]
    /\ hashed' = [hashed EXCEPT ![p] = 0]

Unchanged(f, v) == recorded[f] = v

Hash(p, f) ==
    /\ LET v == dropzone[f] IN
        IF v > 0 /\ Unchanged(f, v)
        THEN Leave(p) /\ Go(p, After(p))
        ELSE /\ Go(p, IF v = 0 THEN "aside" ELSE "read")
             /\ file' = [file EXCEPT ![p] = f]
             /\ hashed' = [hashed EXCEPT ![p] = v]
    /\ UNCHANGED <<disk, database, draft, fresh, since, seen, count, polled, faults>>

ScanNext(f) ==
    /\ at["timer"] = "scan" /\ f \in listed
    /\ listed' = listed \ {f}
    /\ Hash("timer", f)

UploadHash ==
    /\ at["web"] = "hash"
    /\ Hash("web", file["web"])
    /\ UNCHANGED listed

HasRows(f, v) == v > 0 /\ <<f, v>> \notin Unreadable \cup Rowless

\* The file is opened a second time for its rows.  One without any is left where
\* it is, and not recorded.
Read(p) ==
    /\ at[p] = "read"
    /\ LET v == dropzone[file[p]] IN
        IF HasRows(file[p], v)
        THEN /\ Go(p, "insert")
             /\ draft' = [draft EXCEPT ![p] = {[kind |-> "file", of |-> file[p], nr |-> v]}]
             /\ UNCHANGED <<file, hashed>>
        ELSE /\ UNCHANGED draft
             /\ IF <<file[p], v>> \in Rowless
                THEN Go(p, After(p)) /\ Leave(p)
                ELSE Go(p, "aside") /\ UNCHANGED <<file, hashed>>
    /\ UNCHANGED <<disk, database, listed, fresh, since, seen, count, polled, faults>>

Insert(p) ==
    /\ at[p] = "insert"
    /\ Lock(p)
    /\ Go(p, "record")
    /\ UNCHANGED <<disk, recorded, readings, rollups, file, hashed, draft, listed, fresh,
                   since, seen, count, polled, faults>>

\* Mutant: the ledger remembers what the file holds now, not what was hashed.
Ledger_Current(p) == dropzone[file[p]]
Ledger(p) == hashed[p]

\* The ledger's row takes the file's mtime: stat raises if the file was moved away
\* since it was read.
Record(p) ==
    /\ at[p] = "record"
    /\ IF dropzone[file[p]] = 0
       THEN /\ Go(p, "aside")
            /\ UNCHANGED <<database, draft, fresh, file, hashed>>
       ELSE /\ recorded' = [recorded EXCEPT ![file[p]] = Ledger(p)]
            /\ Publish(p)
            /\ UNCHANGED rollups
            /\ fresh' = (p = "timer" \/ fresh)
            /\ Go(p, IF p = "timer" THEN "scan" ELSE "rebuild")
            /\ Leave(p)
    /\ UNCHANGED <<disk, listed, since, seen, count, polled, faults>>

\* Mutant: the failed file is set aside by copying the version that failed.
Moved_Hashed(p) == hashed[p]
Moved(p) == dropzone[file[p]]

\* Mutant: the failed file stays in imports/, for the next scan to try again.
Remaining_Kept(p) == dropzone[file[p]]
Remaining(p) == 0

\* The except clause: roll back and rename.  If the file is gone, somebody else
\* renamed it first: the rename raises, and the scan or the request ends here.
Aside(p) ==
    /\ at[p] = "aside"
    /\ LET f == file[p] IN
        IF dropzone[f] > 0
        THEN /\ failed' = [failed EXCEPT ![f] = Moved(p)]
             /\ dropzone' = [dropzone EXCEPT ![f] = Remaining(p)]
             /\ Go(p, After(p))
             /\ UNCHANGED <<listed, fresh>>
        ELSE /\ Go(p, "idle")
             /\ UNCHANGED disk
             /\ listed' = IF p = "timer" THEN {} ELSE listed
             /\ fresh' = IF p = "timer" THEN FALSE ELSE fresh
    /\ Forget(p) /\ Leave(p)
    /\ UNCHANGED <<recorded, readings, rollups, count, polled, faults>>

-----------------------------------------------------------------------------
(* rebuild_all, and the deletion of one reading with its own rebuild. *)

Delete ==
    /\ at["web"] = "idle"
    /\ readings \cap Polls # {}
    /\ Lock("web")
    /\ \E n \in 1..MaxDeletes :
        /\ n = Cardinality(readings \cap Deletes) + 1
        /\ draft' = [draft EXCEPT !["web"] = {[kind |-> "delete", nr |-> n]}]
    /\ Go("web", "delete")
    /\ UNCHANGED <<disk, recorded, readings, rollups, file, hashed, listed, fresh, since,
                   seen, count, polled, faults>>

DeleteCommit ==
    /\ at["web"] = "delete"
    /\ Publish("web")
    /\ Go("web", "rebuild")
    /\ UNCHANGED <<disk, recorded, rollups, file, hashed, listed, fresh, since, seen, count,
                   polled, faults>>

\* Mutant: a rebuild sees what others have not committed yet.
Snapshot_Dirty == readings \cup UNION {draft[p] : p \in Processes}
Snapshot == readings

\* Either old live rows are thinned first, which takes the lock, or the readings
\* are read outside any transaction and the lock is taken by the DELETE after it.
RebuildRead(p) ==
    /\ at[p] = "rebuild"
    /\ since' = [since EXCEPT ![p] = readings]
    /\ seen' = [seen EXCEPT ![p] = Snapshot]
    /\ \/ Lock(p)
       \/ UNCHANGED writer
    /\ Go(p, "replace")
    /\ UNCHANGED <<disk, recorded, readings, rollups, file, hashed, draft, listed, fresh,
                   count, polled, faults>>

RebuildReplace(p) ==
    /\ at[p] = "replace"
    /\ writer # p
    /\ Lock(p)
    /\ UNCHANGED <<disk, recorded, readings, rollups, control, polled, faults>>

RebuildCommit(p) ==
    /\ at[p] = "replace"
    /\ writer = p
    /\ rollups' = seen[p]
    /\ Forget(p)
    /\ Go(p, "idle")
    /\ UNCHANGED <<disk, recorded, readings, file, hashed, listed, fresh, count, polled, faults>>

-----------------------------------------------------------------------------
(* Faults. *)

\* 30 s are over.  In ingest_file the error is one like any other; the poller
\* and a rebuild have no handler, and the process or the request ends.
Waits(p) ==
    /\ writer \notin {Nobody, p}
    /\ \/ at[p] \in {"insert", "rebuild", "replace"}
       \/ p = "poller" /\ at[p] = "idle"

\* What a process keeps in memory beside its transaction.
Restart(p) ==
    /\ count' = IF p = "poller" THEN 0 ELSE count
    /\ fresh' = IF p = "timer" THEN FALSE ELSE fresh

TimeOut(p) ==
    /\ Waits(p)
    /\ faults < MaxFaults
    /\ faults' = faults + 1
    /\ IF at[p] = "insert"
       THEN Go(p, "aside") /\ UNCHANGED <<writer, draft, since, seen, count, fresh>>
       ELSE Go(p, "idle") /\ Forget(p) /\ Restart(p)
    /\ UNCHANGED <<disk, recorded, readings, rollups, file, hashed, listed, polled>>

\* compose starts the poller and the timer again; gunicorn its worker.
Crash(p) ==
    /\ at[p] # "idle"
    /\ faults < MaxFaults
    /\ faults' = faults + 1
    /\ Go(p, "idle")
    /\ Forget(p) /\ Leave(p) /\ Restart(p)
    /\ listed' = IF p = "timer" THEN {} ELSE listed
    /\ UNCHANGED <<disk, recorded, readings, rollups, polled>>

-----------------------------------------------------------------------------
Rebuild(p) == RebuildRead(p) \/ RebuildReplace(p) \/ RebuildCommit(p)
Ingest(p) == Read(p) \/ Insert(p) \/ Record(p) \/ Aside(p)

Reads == \E answered \in SUBSET {d \in Devices : polled[d] < MaxPolls} : Fetch(answered)
Scans == ScanBegin \/ ScanEnd \/ \E f \in Files : ScanNext(f)
Serves == UploadHash \/ DeleteCommit
Household == Delete \/ \E f \in Files : Drop(f) \/ WriteOn(f) \/ Upload(f)

Next ==
    \/ Reads \/ PollCommit \/ Scans \/ Serves \/ Household
    \/ \E p \in {"timer", "web"} : Ingest(p)
    \/ \E p \in Processes : Rebuild(p) \/ TimeOut(p) \/ Crash(p)

\* The loops of compose never stop, a request runs to its end, and nobody waits
\* for the lock for ever; households, meters and faults are not fair.
Fairness ==
    /\ SF_vars(Fetch({}) \/ PollCommit \/ Rebuild("poller"))
    /\ SF_vars(Scans \/ Ingest("timer") \/ Rebuild("timer"))
    /\ SF_vars(Serves \/ Ingest("web") \/ Rebuild("web"))

Spec == Init /\ [][Next]_vars
FairSpec == Spec /\ Fairness

-----------------------------------------------------------------------------
(* Correctness. *)

\* A file the scan would skip as unchanged has its rows in the tables, although
\* its hash and its rows are read one after the other, from a file that may be
\* overwritten in between or moved away (ingest_file).
SkippedIsStored ==
    \A f \in Files :
        dropzone[f] > 0 /\ recorded[f] = dropzone[f]
            => [kind |-> "file", of |-> f, nr |-> dropzone[f]] \in readings

\* Whoever wins the race for a file, nothing the household wrote is lost: its
\* newest version is in imports/ or in failed/ (scan_and_ingest, api_import_csv).
NothingVanishes ==
    [][\A f \in Files : dropzone'[f] >= Newest(f) \/ failed'[f] >= Newest(f)]_vars

\* The rollups are the image of what was committed at one moment, no older than
\* the rebuild that wrote them (rebuild_all).
Abstract == INSTANCE Rollups WITH
    Builders <- Processes, stored <- readings, derived <- rollups
ImplementsRollups == Abstract!Spec

\* However rebuilds, imports, crashes and time-outs overtake each other, the
\* rollups reflect everything stored again and again: the poller rebuilds again.
RollupsCatchUp == []<>(readings \subseteq rollups)

\* A file left alone is ingested or set aside in the end, unless it has no rows:
\* no file, and no race for one, blocks the rest of the dropzone for ever.
EveryFileSettles ==
    []<>(\A f \in Files : dropzone[f] \in {0, recorded[f]} \/ <<f, dropzone[f]>> \in Rowless)
=============================================================================
