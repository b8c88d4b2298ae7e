--------------------------- MODULE Pipeline_proofs ---------------------------
(***************************************************************************)
(* Safety of the way from a file or a meter to the rollups, for any number *)
(* of files, versions, devices, polls and faults; and the refinement:      *)
(* however the three processes interleave, the rollup tables are derived   *)
(* from the readings as the module Rollups says.                           *)
(*                                                                         *)
(* Versions of a file only grow, wherever the file is moved.  So the       *)
(* version that was read for its rows is at least the version that was     *)
(* hashed, and if the file still is what was hashed, it is what was read.  *)
(* None of this rests on the write lock: what a rebuild derives is a       *)
(* snapshot of what was committed, and readings are only ever added.       *)
(***************************************************************************)
EXTENDS Pipeline, TLAPS

Labels == {"idle", "commit", "rebuild", "replace", "hash", "scan", "read", "insert", "record",
           "aside", "delete"}

\* A file in imports/ is newer than what was set aside under its name.
DiskOK ==
    /\ dropzone \in [Files -> Nat] /\ failed \in [Files -> Nat]
    /\ \A f \in Files :
        /\ dropzone[f] <= LastVersion[f] /\ failed[f] <= LastVersion[f]
        /\ dropzone[f] > 0 => dropzone[f] > failed[f]

\* A process that handles a file knows which.
ControlOK ==
    /\ at \in [Processes -> Labels]
    /\ file \in [Processes -> Files \cup {NoFile}]
    /\ hashed \in [Processes -> Nat]
    /\ \A p \in Processes :
        at[p] \in {"hash", "read", "insert", "record", "aside"} => file[p] \in Files

StoreOK ==
    /\ recorded \in [Files -> Nat] /\ readings \subseteq Changes
    /\ draft \in [Processes -> SUBSET Changes]
    /\ polled \in [Devices -> 0..MaxPolls]

\* What was hashed was there; what was read is that or a later version.
HashOK ==
    \A p \in Processes :
        at[p] \in {"read", "insert", "record"} => hashed[p] <= Newest(file[p])

DraftOK ==
    \A p \in Processes :
        at[p] \in {"insert", "record"} =>
            \E v \in Nat : /\ draft[p] = {[kind |-> "file", of |-> file[p], nr |-> v]}
                           /\ hashed[p] <= v /\ v <= Newest(file[p])

\* The ledger knows no version that has not been there.
LedgerOK ==
    /\ \A f \in Files : recorded[f] <= Newest(f)
    /\ SkippedIsStored

\* A rebuild is under way just between its read and its commit, and what it has read
\* was committed, all of it, when it began.
RebuildOK ==
    /\ since \in [Processes -> (SUBSET Changes) \cup {Nothing}]
    /\ seen \in [Processes -> (SUBSET Changes) \cup {Nothing}]
    /\ \A p \in Processes :
        /\ at[p] = "replace" =>
            since[p] # Nothing /\ since[p] \subseteq seen[p] /\ seen[p] \subseteq readings
        /\ at[p] # "replace" => since[p] = Nothing

PInv == DiskOK /\ ControlOK /\ StoreOK /\ HashOK /\ DraftOK /\ LedgerOK /\ RebuildOK

-----------------------------------------------------------------------------
\* Nothing there, nothing under way.
LEMMA PipelineInitInv == Init => PInv
  <1>. SUFFICES ASSUME Init PROVE PInv
    OBVIOUS
  <1>. USE PipelineAssumption DEF Init
  <1>1. DiskOK
    BY DEF DiskOK
  <1>2. ControlOK
    BY DEF ControlOK, Labels
  <1>3. StoreOK
    BY DEF StoreOK
  <1>4. HashOK /\ DraftOK
    BY DEF HashOK, DraftOK
  <1>5. LedgerOK
    BY DEF LedgerOK, SkippedIsStored, Newest
  <1>6. RebuildOK
    <2>1. [p \in Processes |-> Nothing] \in [Processes -> (SUBSET Changes) \cup {Nothing}]
      OBVIOUS
    <2>2. \A p \in Processes : since[p] = Nothing /\ at[p] # "replace"
      OBVIOUS
    <2>. QED BY <2>1, <2>2 DEF RebuildOK
  <1>. QED BY <1>1, <1>2, <1>3, <1>4, <1>5, <1>6 DEF PInv

-----------------------------------------------------------------------------
(* The disk. *)

\* Versions grow: a file goes from the dropzone only to failed/, and what comes new is
\* newer than all that was there.
Grows ==
    \A f \in Files :
        /\ Newest(f) <= Newest(f)'
        /\ dropzone'[f] \in {0, dropzone[f]} \/ dropzone'[f] > Newest(f)
        /\ dropzone'[f] >= Newest(f) \/ failed'[f] >= Newest(f)

\* A new version, after the newest.
LEMMA PutGrows ==
    ASSUME DiskOK, NEW f \in Files, Newest(f) < LastVersion[f], Put(f), UNCHANGED failed
    PROVE  DiskOK' /\ Grows
  <1>1. Newest(f) \in Nat /\ LastVersion[f] \in Nat
    BY PipelineAssumption DEF DiskOK, Newest
  <1>2. dropzone' \in [Files -> Nat] /\ \A g \in Files :
            dropzone'[g] = IF g = f THEN Newest(f) + 1 ELSE dropzone[g]
    BY <1>1 DEF Put, DiskOK
  <1>3. DiskOK'
    BY <1>1, <1>2 DEF DiskOK, Newest
  <1>4. Grows
    BY <1>1, <1>2 DEF Grows, DiskOK, Newest
  <1>. QED BY <1>3, <1>4

\* The next version, where the file was moved.
LEMMA WriteOnGrows ==
    ASSUME DiskOK, NEW f \in Files, WriteOn(f)
    PROVE  DiskOK' /\ Grows
  <1>1. LastVersion[f] \in Nat
    BY PipelineAssumption
  <1>2. failed' \in [Files -> Nat] /\ \A g \in Files :
            failed'[g] = IF g = f THEN failed[f] + 1 ELSE failed[g]
    BY DEF WriteOn, DiskOK
  <1>3. dropzone' = dropzone /\ failed[f] > dropzone[f] /\ failed[f] < LastVersion[f]
    BY DEF WriteOn
  <1>4. DiskOK'
    BY <1>1, <1>2, <1>3 DEF DiskOK
  <1>5. Grows
    BY <1>1, <1>2, <1>3 DEF Grows, DiskOK, Newest
  <1>. QED BY <1>4, <1>5

\* A file that is moved stays the newest.
LEMMA AsideGrows ==
    ASSUME DiskOK, NEW p \in Processes, file[p] \in Files, Aside(p)
    PROVE  DiskOK' /\ Grows
  <1>. DEFINE f == file[p]
  <1>1. CASE dropzone[f] > 0
    <2>1. /\ failed' = [failed EXCEPT ![f] = dropzone[f]]
          /\ dropzone' = [dropzone EXCEPT ![f] = 0]
      BY <1>1 DEF Aside, Moved, Remaining
    <2>. HIDE DEF f
    <2>2. f \in Files
      BY DEF f
    <2>3. DiskOK'
      <3>1. dropzone' \in [Files -> Nat] /\ failed' \in [Files -> Nat]
        BY <2>1, <2>2 DEF DiskOK
      <3>2. \A g \in Files : /\ dropzone'[g] = IF g = f THEN 0 ELSE dropzone[g]
                             /\ failed'[g] = IF g = f THEN dropzone[f] ELSE failed[g]
        BY <2>1, <2>2 DEF DiskOK
      <3>. QED BY <2>2, <3>1, <3>2, PipelineAssumption DEF DiskOK
    <2>4. Grows
      BY <1>1, <2>1, <2>2 DEF Grows, DiskOK, Newest
    <2>. QED BY <2>3, <2>4
  <1>2. CASE ~(dropzone[f] > 0)
    <2>1. UNCHANGED disk
      BY <1>2 DEF Aside
    <2>. QED BY <2>1 DEF disk, Grows, DiskOK, Newest
  <1>. QED BY <1>1, <1>2

\* Nothing on the disk.
LEMMA UnchangedGrows ==
    ASSUME DiskOK, UNCHANGED disk
    PROVE  DiskOK' /\ Grows
  BY DEF disk, Grows, DiskOK, Newest

-----------------------------------------------------------------------------
(* The rest: each action, on a disk on which versions grow. *)

\* The rows of a version that was there are a change.
LEMMA RowsAreAChange ==
    ASSUME NEW f \in Files, NEW v \in Nat, v >= 1, v <= LastVersion[f]
    PROVE  [kind |-> "file", of |-> f, nr |-> v] \in Changes
  <1>1. LastVersion[f] \in Nat
    BY PipelineAssumption
  <1>2. [kind |-> "file", of |-> f, nr |-> v] \in [kind : {"file"}, of : {f}, nr : 1..LastVersion[f]]
    BY <1>1
  <1>. QED BY <1>2 DEF Changes, Imports

\* A step that lets a process go on with its file, or takes it out of the code that
\* handles one, keeps what is known of it.
LEMMA HandlingKept ==
    ASSUME DiskOK, DiskOK', ControlOK, HashOK, DraftOK, Grows,
           \A p \in Processes : at'[p] \in {"read", "insert", "record"} =>
               /\ at'[p] = at[p] /\ file'[p] = file[p]
               /\ hashed'[p] = hashed[p] /\ draft'[p] = draft[p]
    PROVE  HashOK' /\ DraftOK'
  <1>1. ASSUME NEW p \in Processes, at'[p] \in {"read", "insert", "record"}
        PROVE  /\ hashed'[p] <= Newest(file[p])'
               /\ at'[p] \in {"insert", "record"} =>
                    \E v \in Nat : /\ draft'[p] = {[kind |-> "file", of |-> file'[p], nr |-> v]}
                                   /\ hashed'[p] <= v /\ v <= Newest(file[p])'
    <2>1. PICK f \in Files : f = file[p]
      BY <1>1 DEF ControlOK
    <2>2. file'[p] = f /\ at'[p] = at[p] /\ hashed'[p] = hashed[p] /\ draft'[p] = draft[p]
          /\ hashed[p] \in Nat
      BY <1>1, <2>1 DEF ControlOK
    <2>3. Newest(f) \in Nat /\ Newest(f)' \in Nat /\ Newest(f) <= Newest(f)'
      BY DEF DiskOK, Newest, Grows
    <2>4. hashed[p] <= Newest(f)
      BY <1>1, <2>1, <2>2 DEF HashOK
    <2>5. at[p] \in {"insert", "record"} =>
            \E v \in Nat : /\ draft[p] = {[kind |-> "file", of |-> f, nr |-> v]}
                           /\ hashed[p] <= v /\ v <= Newest(f)
      BY <2>1 DEF DraftOK
    <2>6. Newest(file[p])' = Newest(f)'
      BY <2>2 DEF Newest
    <2>. QED BY <2>2, <2>3, <2>4, <2>5, <2>6
  <1>. QED BY <1>1 DEF HashOK, DraftOK

\* The ledger, where it is not written.
LEMMA LedgerKept ==
    ASSUME DiskOK, DiskOK', recorded \in [Files -> Nat], LedgerOK, Grows,
           recorded' = recorded, readings \subseteq readings'
    PROVE  LedgerOK'
  <1>1. ASSUME NEW f \in Files
        PROVE  /\ recorded'[f] <= Newest(f)'
               /\ dropzone'[f] > 0 /\ recorded'[f] = dropzone'[f]
                    => [kind |-> "file", of |-> f, nr |-> dropzone'[f]] \in readings'
    <2>1. /\ dropzone[f] \in Nat /\ failed[f] \in Nat /\ recorded[f] \in Nat
          /\ dropzone'[f] \in Nat /\ failed'[f] \in Nat
      BY DEF DiskOK
    <2>2. Newest(f) \in Nat /\ Newest(f)' \in Nat /\ Newest(f) <= Newest(f)'
      BY <2>1 DEF Newest, Grows
    <2>3. recorded[f] <= Newest(f)
      BY DEF LedgerOK
    <2>4. CASE dropzone'[f] = dropzone[f]
      BY <2>1, <2>2, <2>3, <2>4 DEF LedgerOK, SkippedIsStored
    <2>5. CASE dropzone'[f] = 0
      BY <2>1, <2>2, <2>3, <2>5
    <2>6. CASE dropzone'[f] > Newest(f)
      BY <2>1, <2>2, <2>3, <2>6
    <2>. QED BY <2>4, <2>5, <2>6 DEF Grows
  <1>. QED BY <1>1 DEF LedgerOK, SkippedIsStored

\* The poller's readings are changes, of devices it may still ask.
LEMMA FetchInv ==
    ASSUME PInv, NEW answered \in SUBSET {d \in Devices : polled[d] < MaxPolls}, Fetch(answered)
    PROVE  PInv' /\ Grows
  <1>. USE DEF PInv
  <1>0. {[kind |-> "poll", of |-> d, nr |-> polled'[d]] : d \in answered} \subseteq Changes
    <2>. SUFFICES ASSUME NEW d \in answered
                  PROVE  [kind |-> "poll", of |-> d, nr |-> polled'[d]] \in Polls
      BY DEF Changes
    <2>1. polled'[d] = polled[d] + 1 /\ polled[d] \in 0..MaxPolls /\ polled[d] < MaxPolls
      BY DEF Fetch, StoreOK
    <2>2. polled'[d] \in 1..MaxPolls
      BY <2>1, PipelineAssumption
    <2>. QED BY <2>2 DEF Polls
  <1>1. DiskOK' /\ Grows
    BY UnchangedGrows DEF Fetch
  <1>2. ControlOK'
    BY DEF Fetch, Go, ControlOK, Labels
  <1>3. StoreOK'
    <2>1. polled' \in [Devices -> 0..MaxPolls]
      BY PipelineAssumption DEF Fetch, StoreOK
    <2>2. draft' \in [Processes -> SUBSET Changes]
      BY <1>0 DEF Fetch, StoreOK
    <2>. QED BY <2>1, <2>2 DEF Fetch, StoreOK
  <1>4. \A q \in Processes : at'[q] \in {"read", "insert", "record"} =>
            /\ at'[q] = at[q] /\ file'[q] = file[q]
            /\ hashed'[q] = hashed[q] /\ draft'[q] = draft[q]
    BY DEF Fetch, Go, ControlOK, StoreOK
  <1>5. HashOK' /\ DraftOK'
    BY <1>1, <1>4, HandlingKept
  <1>6. LedgerOK'
    <2>1. recorded' = recorded /\ readings \subseteq readings'
      BY DEF Fetch, Go
    <2>. QED BY <1>1, <2>1, LedgerKept DEF StoreOK
  <1>7. RebuildOK'
    BY DEF Fetch, Go, RebuildOK, ControlOK
  <1>. QED BY <1>1, <1>2, <1>3, <1>5, <1>6, <1>7

\* The poller's commit.
LEMMA PollCommitInv ==
    ASSUME PInv, PollCommit
    PROVE  PInv' /\ Grows
  <1>. USE DEF PInv
  <1>1. DiskOK' /\ Grows
    BY UnchangedGrows DEF PollCommit
  <1>2. ControlOK'
    BY DEF PollCommit, Publish, Go, ControlOK, Labels
  <1>3. StoreOK'
    BY DEF PollCommit, Publish, Go, StoreOK, Processes
  <1>4. \A q \in Processes : at'[q] \in {"read", "insert", "record"} =>
            /\ at'[q] = at[q] /\ file'[q] = file[q]
            /\ hashed'[q] = hashed[q] /\ draft'[q] = draft[q]
    BY DEF PollCommit, Publish, Go, ControlOK, StoreOK
  <1>5. HashOK' /\ DraftOK'
    BY <1>1, <1>4, HandlingKept
  <1>6. LedgerOK'
    <2>1. recorded' = recorded /\ readings \subseteq readings'
      BY DEF PollCommit, Publish, Go
    <2>. QED BY <1>1, <2>1, LedgerKept DEF StoreOK
  <1>7. RebuildOK'
    BY DEF PollCommit, Publish, Go, RebuildOK, ControlOK
  <1>. QED BY <1>1, <1>2, <1>3, <1>5, <1>6, <1>7

\* A file appears.
LEMMA DropInv ==
    ASSUME PInv, NEW f \in Files, Drop(f)
    PROVE  PInv' /\ Grows
  <1>. USE DEF PInv
  <1>1. DiskOK' /\ Grows
    BY PutGrows DEF Drop
  <1>2. ControlOK'
    BY DEF Drop, database, control, ControlOK, Labels
  <1>3. StoreOK'
    BY DEF Drop, database, control, StoreOK
  <1>4. \A q \in Processes : at'[q] \in {"read", "insert", "record"} =>
            /\ at'[q] = at[q] /\ file'[q] = file[q]
            /\ hashed'[q] = hashed[q] /\ draft'[q] = draft[q]
    BY DEF Drop, database, control, ControlOK, StoreOK
  <1>5. HashOK' /\ DraftOK'
    BY <1>1, <1>4, HandlingKept
  <1>6. LedgerOK'
    <2>1. recorded' = recorded /\ readings \subseteq readings'
      BY DEF Drop, database, control
    <2>. QED BY <1>1, <2>1, LedgerKept DEF StoreOK
  <1>7. RebuildOK'
    BY DEF Drop, database, control, RebuildOK, ControlOK
  <1>. QED BY <1>1, <1>2, <1>3, <1>5, <1>6, <1>7

\* A file is written on where it was moved.
LEMMA WriteOnInv ==
    ASSUME PInv, NEW f \in Files, WriteOn(f)
    PROVE  PInv' /\ Grows
  <1>. USE DEF PInv
  <1>1. DiskOK' /\ Grows
    BY WriteOnGrows DEF WriteOn
  <1>2. ControlOK'
    BY DEF WriteOn, database, control, ControlOK, Labels
  <1>3. StoreOK'
    BY DEF WriteOn, database, control, StoreOK
  <1>4. \A q \in Processes : at'[q] \in {"read", "insert", "record"} =>
            /\ at'[q] = at[q] /\ file'[q] = file[q]
            /\ hashed'[q] = hashed[q] /\ draft'[q] = draft[q]
    BY DEF WriteOn, database, control, ControlOK, StoreOK
  <1>5. HashOK' /\ DraftOK'
    BY <1>1, <1>4, HandlingKept
  <1>6. LedgerOK'
    <2>1. recorded' = recorded /\ readings \subseteq readings'
      BY DEF WriteOn, database, control
    <2>. QED BY <1>1, <2>1, LedgerKept DEF StoreOK
  <1>7. RebuildOK'
    BY DEF WriteOn, database, control, RebuildOK, ControlOK
  <1>. QED BY <1>1, <1>2, <1>3, <1>5, <1>6, <1>7

\* A file is uploaded.
LEMMA UploadInv ==
    ASSUME PInv, NEW f \in Files, Upload(f)
    PROVE  PInv' /\ Grows
  <1>. USE DEF PInv
  <1>1. DiskOK' /\ Grows
    BY PutGrows DEF Upload
  <1>2. ControlOK'
    BY DEF Upload, database, Go, ControlOK, Labels
  <1>3. StoreOK'
    BY DEF Upload, database, Go, StoreOK
  <1>4. \A q \in Processes : at'[q] \in {"read", "insert", "record"} =>
            /\ at'[q] = at[q] /\ file'[q] = file[q]
            /\ hashed'[q] = hashed[q] /\ draft'[q] = draft[q]
    BY DEF Upload, database, Go, ControlOK, StoreOK
  <1>5. HashOK' /\ DraftOK'
    BY <1>1, <1>4, HandlingKept
  <1>6. LedgerOK'
    <2>1. recorded' = recorded /\ readings \subseteq readings'
      BY DEF Upload, database, Go
    <2>. QED BY <1>1, <2>1, LedgerKept DEF StoreOK
  <1>7. RebuildOK'
    BY DEF Upload, database, Go, RebuildOK, ControlOK
  <1>. QED BY <1>1, <1>2, <1>3, <1>5, <1>6, <1>7

\* A scan begins.
LEMMA ScanBeginInv ==
    ASSUME PInv, ScanBegin
    PROVE  PInv' /\ Grows
  <1>. USE DEF PInv
  <1>1. DiskOK' /\ Grows
    BY UnchangedGrows DEF ScanBegin
  <1>2. ControlOK'
    BY DEF ScanBegin, database, Go, ControlOK, Labels
  <1>3. StoreOK'
    BY DEF ScanBegin, database, Go, StoreOK
  <1>4. \A q \in Processes : at'[q] \in {"read", "insert", "record"} =>
            /\ at'[q] = at[q] /\ file'[q] = file[q]
            /\ hashed'[q] = hashed[q] /\ draft'[q] = draft[q]
    BY DEF ScanBegin, database, Go, ControlOK, StoreOK
  <1>5. HashOK' /\ DraftOK'
    BY <1>1, <1>4, HandlingKept
  <1>6. LedgerOK'
    <2>1. recorded' = recorded /\ readings \subseteq readings'
      BY DEF ScanBegin, database, Go
    <2>. QED BY <1>1, <2>1, LedgerKept DEF StoreOK
  <1>7. RebuildOK'
    BY DEF ScanBegin, database, Go, RebuildOK, ControlOK
  <1>. QED BY <1>1, <1>2, <1>3, <1>5, <1>6, <1>7

\* A scan ends.
LEMMA ScanEndInv ==
    ASSUME PInv, ScanEnd
    PROVE  PInv' /\ Grows
  <1>. USE DEF PInv
  <1>1. DiskOK' /\ Grows
    BY UnchangedGrows DEF ScanEnd
  <1>2. ControlOK'
    BY DEF ScanEnd, database, Go, ControlOK, Labels
  <1>3. StoreOK'
    BY DEF ScanEnd, database, Go, StoreOK
  <1>4. \A q \in Processes : at'[q] \in {"read", "insert", "record"} =>
            /\ at'[q] = at[q] /\ file'[q] = file[q]
            /\ hashed'[q] = hashed[q] /\ draft'[q] = draft[q]
    BY DEF ScanEnd, database, Go, ControlOK, StoreOK
  <1>5. HashOK' /\ DraftOK'
    BY <1>1, <1>4, HandlingKept
  <1>6. LedgerOK'
    <2>1. recorded' = recorded /\ readings \subseteq readings'
      BY DEF ScanEnd, database, Go
    <2>. QED BY <1>1, <2>1, LedgerKept DEF StoreOK
  <1>7. RebuildOK'
    BY DEF ScanEnd, database, Go, RebuildOK, ControlOK
  <1>. QED BY <1>1, <1>2, <1>3, <1>5, <1>6, <1>7

\* A file is set aside, or was by somebody else.
LEMMA AsideInv ==
    ASSUME PInv, NEW p \in Processes, Aside(p)
    PROVE  PInv' /\ Grows
  <1>. USE DEF PInv
  <1>1. DiskOK' /\ Grows
    BY AsideGrows DEF Aside, ControlOK
  <1>2. ControlOK'
    BY DEF Aside, Forget, Leave, After, Go, ControlOK, Labels
  <1>3. StoreOK'
    BY DEF Aside, Forget, Leave, After, Go, StoreOK
  <1>4. \A q \in Processes : at'[q] \in {"read", "insert", "record"} =>
            /\ at'[q] = at[q] /\ file'[q] = file[q]
            /\ hashed'[q] = hashed[q] /\ draft'[q] = draft[q]
    BY DEF Aside, Forget, Leave, After, Go, ControlOK, StoreOK
  <1>5. HashOK' /\ DraftOK'
    BY <1>1, <1>4, HandlingKept
  <1>6. LedgerOK'
    <2>1. recorded' = recorded /\ readings \subseteq readings'
      BY DEF Aside, Forget, Leave, After, Go
    <2>. QED BY <1>1, <2>1, LedgerKept DEF StoreOK
  <1>7. RebuildOK'
    BY DEF Aside, Forget, Leave, After, Go, RebuildOK, ControlOK
  <1>. QED BY <1>1, <1>2, <1>3, <1>5, <1>6, <1>7

\* A reading is deleted.
LEMMA DeleteInv ==
    ASSUME PInv, Delete
    PROVE  PInv' /\ Grows
  <1>. USE DEF PInv
  <1>0. \A n \in 1..MaxDeletes : [kind |-> "delete", nr |-> n] \in Changes
    BY DEF Changes, Deletes
  <1>1. DiskOK' /\ Grows
    BY UnchangedGrows DEF Delete
  <1>2. ControlOK'
    BY DEF Delete, Go, ControlOK, Labels
  <1>3. StoreOK'
    BY <1>0 DEF Delete, Go, StoreOK
  <1>4. \A q \in Processes : at'[q] \in {"read", "insert", "record"} =>
            /\ at'[q] = at[q] /\ file'[q] = file[q]
            /\ hashed'[q] = hashed[q] /\ draft'[q] = draft[q]
    BY DEF Delete, Go, ControlOK, StoreOK
  <1>5. HashOK' /\ DraftOK'
    BY <1>1, <1>4, HandlingKept
  <1>6. LedgerOK'
    <2>1. recorded' = recorded /\ readings \subseteq readings'
      BY DEF Delete, Go
    <2>. QED BY <1>1, <2>1, LedgerKept DEF StoreOK
  <1>7. RebuildOK'
    BY DEF Delete, Go, RebuildOK, ControlOK
  <1>. QED BY <1>1, <1>2, <1>3, <1>5, <1>6, <1>7

\* And committed.
LEMMA DeleteCommitInv ==
    ASSUME PInv, DeleteCommit
    PROVE  PInv' /\ Grows
  <1>. USE DEF PInv
  <1>1. DiskOK' /\ Grows
    BY UnchangedGrows DEF DeleteCommit
  <1>2. ControlOK'
    BY DEF DeleteCommit, Publish, Go, ControlOK, Labels
  <1>3. StoreOK'
    BY DEF DeleteCommit, Publish, Go, StoreOK, Processes
  <1>4. \A q \in Processes : at'[q] \in {"read", "insert", "record"} =>
            /\ at'[q] = at[q] /\ file'[q] = file[q]
            /\ hashed'[q] = hashed[q] /\ draft'[q] = draft[q]
    BY DEF DeleteCommit, Publish, Go, ControlOK, StoreOK
  <1>5. HashOK' /\ DraftOK'
    BY <1>1, <1>4, HandlingKept
  <1>6. LedgerOK'
    <2>1. recorded' = recorded /\ readings \subseteq readings'
      BY DEF DeleteCommit, Publish, Go
    <2>. QED BY <1>1, <2>1, LedgerKept DEF StoreOK
  <1>7. RebuildOK'
    BY DEF DeleteCommit, Publish, Go, RebuildOK, ControlOK
  <1>. QED BY <1>1, <1>2, <1>3, <1>5, <1>6, <1>7

\* A rebuild reads what is committed.
LEMMA RebuildReadInv ==
    ASSUME PInv, NEW p \in Processes, RebuildRead(p)
    PROVE  PInv' /\ Grows
  <1>. USE DEF PInv
  <1>1. DiskOK' /\ Grows
    BY UnchangedGrows DEF RebuildRead
  <1>2. ControlOK'
    BY DEF RebuildRead, Snapshot, Go, ControlOK, Labels
  <1>3. StoreOK'
    BY DEF RebuildRead, Snapshot, Go, StoreOK
  <1>4. \A q \in Processes : at'[q] \in {"read", "insert", "record"} =>
            /\ at'[q] = at[q] /\ file'[q] = file[q]
            /\ hashed'[q] = hashed[q] /\ draft'[q] = draft[q]
    BY DEF RebuildRead, Snapshot, Go, ControlOK, StoreOK
  <1>5. HashOK' /\ DraftOK'
    BY <1>1, <1>4, HandlingKept
  <1>6. LedgerOK'
    <2>1. recorded' = recorded /\ readings \subseteq readings'
      BY DEF RebuildRead, Snapshot, Go
    <2>. QED BY <1>1, <2>1, LedgerKept DEF StoreOK
  <1>7. RebuildOK'
    BY NothingAssumption DEF RebuildRead, Snapshot, Go, RebuildOK, ControlOK, StoreOK
  <1>. QED BY <1>1, <1>2, <1>3, <1>5, <1>6, <1>7

\* It waits for the lock.
LEMMA RebuildReplaceInv ==
    ASSUME PInv, NEW p \in Processes, RebuildReplace(p)
    PROVE  PInv' /\ Grows
  <1>. USE DEF PInv
  <1>1. DiskOK' /\ Grows
    BY UnchangedGrows DEF RebuildReplace
  <1>2. ControlOK'
    BY DEF RebuildReplace, control, ControlOK, Labels
  <1>3. StoreOK'
    BY DEF RebuildReplace, control, StoreOK
  <1>4. \A q \in Processes : at'[q] \in {"read", "insert", "record"} =>
            /\ at'[q] = at[q] /\ file'[q] = file[q]
            /\ hashed'[q] = hashed[q] /\ draft'[q] = draft[q]
    BY DEF RebuildReplace, control, ControlOK, StoreOK
  <1>5. HashOK' /\ DraftOK'
    BY <1>1, <1>4, HandlingKept
  <1>6. LedgerOK'
    <2>1. recorded' = recorded /\ readings \subseteq readings'
      BY DEF RebuildReplace, control
    <2>. QED BY <1>1, <2>1, LedgerKept DEF StoreOK
  <1>7. RebuildOK'
    BY DEF RebuildReplace, control, RebuildOK, ControlOK
  <1>. QED BY <1>1, <1>2, <1>3, <1>5, <1>6, <1>7

\* It commits.
LEMMA RebuildCommitInv ==
    ASSUME PInv, NEW p \in Processes, RebuildCommit(p)
    PROVE  PInv' /\ Grows
  <1>. USE DEF PInv
  <1>1. DiskOK' /\ Grows
    BY UnchangedGrows DEF RebuildCommit
  <1>2. ControlOK'
    BY DEF RebuildCommit, Forget, Go, ControlOK, Labels
  <1>3. StoreOK'
    BY DEF RebuildCommit, Forget, Go, StoreOK
  <1>4. \A q \in Processes : at'[q] \in {"read", "insert", "record"} =>
            /\ at'[q] = at[q] /\ file'[q] = file[q]
            /\ hashed'[q] = hashed[q] /\ draft'[q] = draft[q]
    BY DEF RebuildCommit, Forget, Go, ControlOK, StoreOK
  <1>5. HashOK' /\ DraftOK'
    BY <1>1, <1>4, HandlingKept
  <1>6. LedgerOK'
    <2>1. recorded' = recorded /\ readings \subseteq readings'
      BY DEF RebuildCommit, Forget, Go
    <2>. QED BY <1>1, <2>1, LedgerKept DEF StoreOK
  <1>7. RebuildOK'
    BY DEF RebuildCommit, Forget, Go, RebuildOK, ControlOK
  <1>. QED BY <1>1, <1>2, <1>3, <1>5, <1>6, <1>7

\* A wait for the lock is given up.
LEMMA TimeOutInv ==
    ASSUME PInv, NEW p \in Processes, TimeOut(p)
    PROVE  PInv' /\ Grows
  <1>. USE DEF PInv
  <1>1. DiskOK' /\ Grows
    BY UnchangedGrows DEF TimeOut
  <1>2. ControlOK'
    BY DEF TimeOut, Waits, Forget, Restart, Go, ControlOK, Labels
  <1>3. StoreOK'
    BY DEF TimeOut, Waits, Forget, Restart, Go, StoreOK
  <1>4. \A q \in Processes : at'[q] \in {"read", "insert", "record"} =>
            /\ at'[q] = at[q] /\ file'[q] = file[q]
            /\ hashed'[q] = hashed[q] /\ draft'[q] = draft[q]
    BY DEF TimeOut, Waits, Forget, Restart, Go, ControlOK, StoreOK
  <1>5. HashOK' /\ DraftOK'
    BY <1>1, <1>4, HandlingKept
  <1>6. LedgerOK'
    <2>1. recorded' = recorded /\ readings \subseteq readings'
      BY DEF TimeOut, Waits, Forget, Restart, Go
    <2>. QED BY <1>1, <2>1, LedgerKept DEF StoreOK
  <1>7. RebuildOK'
    <2>1. CASE at[p] = "insert"
      <3>1. at' = [at EXCEPT ![p] = "aside"] /\ UNCHANGED <<since, seen, readings>>
        BY <2>1 DEF TimeOut, Go
      <3>. QED BY <2>1, <3>1 DEF RebuildOK, ControlOK
    <2>2. CASE at[p] # "insert"
      <3>1. /\ at' = [at EXCEPT ![p] = "idle"] /\ readings' = readings
            /\ since' = [since EXCEPT ![p] = Nothing] /\ seen' = [seen EXCEPT ![p] = Nothing]
        BY <2>2 DEF TimeOut, Go, Forget
      <3>. QED BY <3>1 DEF RebuildOK, ControlOK
    <2>. QED BY <2>1, <2>2
  <1>. QED BY <1>1, <1>2, <1>3, <1>5, <1>6, <1>7

\* A process dies.
LEMMA CrashInv ==
    ASSUME PInv, NEW p \in Processes, Crash(p)
    PROVE  PInv' /\ Grows
  <1>. USE DEF PInv
  <1>1. DiskOK' /\ Grows
    BY UnchangedGrows DEF Crash
  <1>2. ControlOK'
    BY DEF Crash, Forget, Leave, Restart, Go, ControlOK, Labels
  <1>3. StoreOK'
    BY DEF Crash, Forget, Leave, Restart, Go, StoreOK
  <1>4. \A q \in Processes : at'[q] \in {"read", "insert", "record"} =>
            /\ at'[q] = at[q] /\ file'[q] = file[q]
            /\ hashed'[q] = hashed[q] /\ draft'[q] = draft[q]
    BY DEF Crash, Forget, Leave, Restart, Go, ControlOK, StoreOK
  <1>5. HashOK' /\ DraftOK'
    BY <1>1, <1>4, HandlingKept
  <1>6. LedgerOK'
    <2>1. recorded' = recorded /\ readings \subseteq readings'
      BY DEF Crash, Forget, Leave, Restart, Go
    <2>. QED BY <1>1, <2>1, LedgerKept DEF StoreOK
  <1>7. RebuildOK'
    BY DEF Crash, Forget, Leave, Restart, Go, RebuildOK, ControlOK
  <1>. QED BY <1>1, <1>2, <1>3, <1>5, <1>6, <1>7

\* A file is hashed: it is skipped, is not there any more, or was there.
LEMMA HashInv ==
    ASSUME PInv, NEW p \in {"timer", "web"}, NEW f \in Files,
           at[p] \in {"scan", "hash"}, Hash(p, f)
    PROVE  PInv' /\ Grows
  <1>. USE DEF PInv
  <1>0. p \in Processes
    BY DEF Processes
  <1>1. DiskOK' /\ Grows
    BY UnchangedGrows DEF Hash
  <1>2. /\ UNCHANGED <<disk, database, draft, fresh, since, seen, count, polled, faults>>
        /\ \/ /\ file' = [file EXCEPT ![p] = NoFile] /\ hashed' = [hashed EXCEPT ![p] = 0]
              /\ at' = [at EXCEPT ![p] = After(p)]
           \/ /\ file' = [file EXCEPT ![p] = f] /\ hashed' = [hashed EXCEPT ![p] = dropzone[f]]
              /\ at' = [at EXCEPT ![p] = IF dropzone[f] = 0 THEN "aside" ELSE "read"]
    BY DEF Hash, Leave, Go
  <1>3. After(p) \in {"scan", "idle"} /\ dropzone[f] \in Nat /\ dropzone[f] <= Newest(f)
    BY DEF After, DiskOK, Newest
  <1>4. ControlOK'
    BY <1>0, <1>2, <1>3 DEF ControlOK, Labels
  <1>5. StoreOK'
    BY <1>2 DEF StoreOK, database
  <1>6. HashOK' /\ DraftOK'
    <2>1. \A g \in Files : Newest(g)' = Newest(g)
      BY <1>2 DEF disk, Newest
    <2>2. ASSUME NEW q \in Processes, at'[q] \in {"read", "insert", "record"}
          PROVE  /\ hashed'[q] <= Newest(file[q])'
                 /\ at'[q] \in {"insert", "record"} =>
                        \E v \in Nat : /\ draft'[q] = {[kind |-> "file", of |-> file'[q], nr |-> v]}
                                       /\ hashed'[q] <= v /\ v <= Newest(file[q])'
      <3>1. PICK g \in Files : g = file'[q]
        BY <1>4, <2>2 DEF ControlOK
      <3>2. Newest(file[q])' = Newest(g)
        BY <2>1, <3>1 DEF Newest
      <3>3. CASE q = p
        <4>1. at'[q] = "read" /\ g = f /\ hashed'[q] = dropzone[f]
          BY <1>0, <1>2, <1>3, <2>2, <3>1, <3>3 DEF ControlOK
        <4>. QED BY <1>3, <3>2, <4>1
      <3>4. CASE q # p
        <4>1. at'[q] = at[q] /\ g = file[q] /\ hashed'[q] = hashed[q] /\ draft'[q] = draft[q]
              /\ file'[q] = g
          BY <1>0, <1>2, <3>1, <3>4 DEF ControlOK
        <4>2. hashed[q] <= Newest(g)
          BY <2>2, <4>1 DEF HashOK
        <4>3. at[q] \in {"insert", "record"} =>
                \E v \in Nat : /\ draft[q] = {[kind |-> "file", of |-> g, nr |-> v]}
                               /\ hashed[q] <= v /\ v <= Newest(g)
          BY <4>1 DEF DraftOK
        <4>. QED BY <3>2, <4>1, <4>2, <4>3
      <3>. QED BY <3>3, <3>4
    <2>. QED BY <2>2 DEF HashOK, DraftOK
  <1>7. LedgerOK'
    <2>1. recorded' = recorded /\ readings \subseteq readings'
      BY <1>2 DEF database
    <2>. QED BY <1>1, <2>1, LedgerKept DEF StoreOK
  <1>8. RebuildOK'
    BY <1>0, <1>2, <1>3 DEF RebuildOK, ControlOK, database
  <1>. QED BY <1>1, <1>4, <1>5, <1>6, <1>7, <1>8

\* A file is given up: nothing is stored, and it is set aside next or left alone.
LEMMA GivenUpInv ==
    ASSUME PInv, NEW p \in Processes, at[p] \in {"read", "record"},
           NEW label \in {"aside", "idle", "scan"}, at' = [at EXCEPT ![p] = label],
           UNCHANGED <<disk, recorded, readings, draft, since, seen, polled>>,
           \/ UNCHANGED <<file, hashed>>
           \/ /\ label # "aside" /\ file' = [file EXCEPT ![p] = NoFile]
              /\ hashed' = [hashed EXCEPT ![p] = 0]
    PROVE  PInv' /\ Grows
  <1>. USE DEF PInv
  <1>1. DiskOK' /\ Grows
    BY UnchangedGrows
  <1>2. ControlOK'
    BY DEF ControlOK, Labels
  <1>3. StoreOK'
    BY DEF StoreOK
  <1>4. HashOK' /\ DraftOK'
    <2>1. \A q \in Processes : at'[q] \in {"read", "insert", "record"} =>
              /\ at'[q] = at[q] /\ file'[q] = file[q]
              /\ hashed'[q] = hashed[q] /\ draft'[q] = draft[q]
      BY DEF ControlOK
    <2>. QED BY <1>1, <2>1, HandlingKept
  <1>5. LedgerOK'
    <2>1. recorded' = recorded /\ readings \subseteq readings'
      OBVIOUS
    <2>. QED BY <1>1, <2>1, LedgerKept DEF StoreOK
  <1>6. RebuildOK'
    BY DEF RebuildOK, ControlOK
  <1>. QED BY <1>1, <1>2, <1>3, <1>4, <1>5, <1>6

\* A file is read: what is there is no older than what was hashed.
LEMMA RowsReadInv ==
    ASSUME PInv, NEW p \in Processes, Read(p), HasRows(file[p], dropzone[file[p]])
    PROVE  PInv' /\ Grows
  <1>. USE DEF PInv
  <1>1. DiskOK' /\ Grows
    BY UnchangedGrows DEF Read
  <1>2. PICK f \in Files : f = file[p]
    BY DEF Read, ControlOK
  <1>3. /\ at[p] = "read" /\ at' = [at EXCEPT ![p] = "insert"] /\ dropzone[f] # 0
        /\ draft' = [draft EXCEPT ![p] = {[kind |-> "file", of |-> f, nr |-> dropzone[f]]}]
        /\ UNCHANGED <<disk, database, file, hashed, listed, fresh, since, seen, count, polled, faults>>
    BY <1>2, PipelineAssumption DEF HasRows, Read, Go, DiskOK
  <1>4. dropzone[f] \in Nat /\ dropzone[f] <= LastVersion[f] /\ LastVersion[f] \in Nat
    BY PipelineAssumption DEF DiskOK
  <1>5. dropzone[f] # 0 => /\ dropzone[f] = Newest(f)
                           /\ [kind |-> "file", of |-> f, nr |-> dropzone[f]] \in Changes
    BY <1>4, RowsAreAChange DEF DiskOK, Newest
  <1>6. ControlOK'
    BY <1>2, <1>3 DEF ControlOK, Labels
  <1>7. StoreOK'
    BY <1>3, <1>5 DEF StoreOK, database
  <1>8. HashOK' /\ DraftOK'
    <2>1. \A g \in Files : Newest(g)' = Newest(g)
      BY <1>3 DEF disk, Newest
    <2>2. ASSUME NEW q \in Processes, at'[q] \in {"read", "insert", "record"}
          PROVE  /\ hashed'[q] <= Newest(file[q])'
                 /\ at'[q] \in {"insert", "record"} =>
                        \E v \in Nat : /\ draft'[q] = {[kind |-> "file", of |-> file'[q], nr |-> v]}
                                       /\ hashed'[q] <= v /\ v <= Newest(file[q])'
      <3>1. PICK g \in Files : g = file[q] /\ file'[q] = g
        BY <1>3, <1>6, <2>2 DEF ControlOK
      <3>2. Newest(file[q])' = Newest(g)
        BY <2>1, <3>1 DEF Newest
      <3>3. CASE q = p
        <4>1. at'[q] = "insert" /\ g = f /\ dropzone[f] # 0 /\ hashed'[q] = hashed[q]
              /\ draft'[q] = {[kind |-> "file", of |-> f, nr |-> dropzone[f]]}
          BY <1>2, <1>3, <2>2, <3>1, <3>3 DEF ControlOK, StoreOK
        <4>2. hashed[q] <= Newest(f)
          BY <1>2, <1>3, <3>3 DEF HashOK
        <4>. QED BY <1>4, <1>5, <3>1, <3>2, <4>1, <4>2
      <3>4. CASE q # p
        <4>1. at'[q] = at[q] /\ hashed'[q] = hashed[q] /\ draft'[q] = draft[q]
          BY <1>3, <3>4 DEF ControlOK, StoreOK
        <4>2. hashed[q] <= Newest(g)
          BY <2>2, <3>1, <4>1 DEF HashOK
        <4>3. at[q] \in {"insert", "record"} =>
                \E v \in Nat : /\ draft[q] = {[kind |-> "file", of |-> g, nr |-> v]}
                               /\ hashed[q] <= v /\ v <= Newest(g)
          BY <3>1 DEF DraftOK
        <4>. QED BY <3>1, <3>2, <4>1, <4>2, <4>3
      <3>. QED BY <3>3, <3>4
    <2>. QED BY <2>2 DEF HashOK, DraftOK
  <1>9. LedgerOK'
    <2>1. recorded' = recorded /\ readings \subseteq readings'
      BY <1>3 DEF database
    <2>. QED BY <1>1, <2>1, LedgerKept DEF StoreOK
  <1>10. RebuildOK'
    BY <1>3 DEF RebuildOK, ControlOK, database
  <1>. QED BY <1>1, <1>6, <1>7, <1>8, <1>9, <1>10

LEMMA ReadInv ==
    ASSUME PInv, NEW p \in Processes, Read(p)
    PROVE  PInv' /\ Grows
  <1>1. CASE HasRows(file[p], dropzone[file[p]])
    BY <1>1, RowsReadInv
  <1>2. CASE ~HasRows(file[p], dropzone[file[p]])
    <2>1. /\ at[p] = "read"
          /\ UNCHANGED <<disk, recorded, readings, draft, since, seen, polled>>
          /\ \/ at' = [at EXCEPT ![p] = "aside"] /\ UNCHANGED <<file, hashed>>
             \/ /\ at' = [at EXCEPT ![p] = After(p)]
                /\ file' = [file EXCEPT ![p] = NoFile] /\ hashed' = [hashed EXCEPT ![p] = 0]
      BY <1>2 DEF Read, Go, Leave, database
    <2>2. After(p) \in {"idle", "scan"}
      BY DEF After
    <2>. QED BY <2>1, <2>2, GivenUpInv
  <1>. QED BY <1>1, <1>2

\* The rows wait for the lock.
LEMMA InsertInv ==
    ASSUME PInv, NEW p \in Processes, Insert(p)
    PROVE  PInv' /\ Grows
  <1>. USE DEF PInv
  <1>1. DiskOK' /\ Grows
    BY UnchangedGrows DEF Insert
  <1>2. /\ at[p] = "insert" /\ at' = [at EXCEPT ![p] = "record"]
        /\ UNCHANGED <<disk, recorded, readings, file, hashed, draft, since, seen, polled>>
    BY DEF Insert, Go
  <1>3. ControlOK'
    BY <1>2 DEF ControlOK, Labels
  <1>4. StoreOK'
    BY <1>2 DEF StoreOK
  <1>5. HashOK' /\ DraftOK'
    <2>1. \A q \in Processes : at'[q] = IF q = p THEN "record" ELSE at[q]
      BY <1>2 DEF ControlOK
    <2>2. \A q \in Processes : Newest(file[q])' = Newest(file[q])
      BY <1>2 DEF disk, Newest
    <2>3. HashOK'
      BY <1>2, <2>1, <2>2 DEF HashOK
    <2>4. DraftOK'
      BY <1>2, <2>1, <2>2 DEF DraftOK
    <2>. QED BY <2>3, <2>4
  <1>6. LedgerOK'
    <2>1. recorded' = recorded /\ readings \subseteq readings'
      BY <1>2
    <2>. QED BY <1>1, <2>1, LedgerKept DEF StoreOK
  <1>7. RebuildOK'
    BY <1>2 DEF RebuildOK, ControlOK
  <1>. QED BY <1>1, <1>3, <1>4, <1>5, <1>6, <1>7

\* The hash goes into the ledger and the rows into the tables: if the file still is what
\* was hashed, it was that as well when it was read.
LEMMA RecordedInv ==
    ASSUME PInv, NEW p \in Processes, Record(p), dropzone[file[p]] # 0
    PROVE  PInv' /\ Grows
  <1>. USE DEF PInv
  <1>1. DiskOK' /\ Grows
    BY UnchangedGrows DEF Record
  <1>2. PICK f \in Files : f = file[p]
    BY DEF Record, ControlOK
  <1>3. /\ at[p] = "record" /\ at' = [at EXCEPT ![p] = IF p = "timer" THEN "scan" ELSE "rebuild"]
        /\ recorded' = [recorded EXCEPT ![f] = hashed[p]]
        /\ readings' = readings \cup draft[p] /\ draft' = [draft EXCEPT ![p] = {}]
        /\ file' = [file EXCEPT ![p] = NoFile] /\ hashed' = [hashed EXCEPT ![p] = 0]
        /\ UNCHANGED <<disk, since, seen, polled>>
    BY <1>2 DEF Record, Publish, Leave, Ledger, Go
  <1>4. hashed[p] \in Nat
    BY DEF ControlOK
  <1>5. ControlOK'
    BY <1>3 DEF ControlOK, Labels
  <1>6. StoreOK'
    BY <1>3, <1>4 DEF StoreOK
  <1>7. HashOK' /\ DraftOK'
    <2>1. \A q \in Processes : at'[q] \in {"read", "insert", "record"} =>
              /\ at'[q] = at[q] /\ file'[q] = file[q]
              /\ hashed'[q] = hashed[q] /\ draft'[q] = draft[q]
      BY <1>3 DEF ControlOK, StoreOK
    <2>. QED BY <1>1, <2>1, HandlingKept
  <1>8. LedgerOK'
    <2>1. PICK v \in Nat : /\ draft[p] = {[kind |-> "file", of |-> f, nr |-> v]}
                          /\ hashed[p] <= v /\ v <= Newest(f)
      BY <1>2, <1>3 DEF DraftOK
    <2>2. ASSUME NEW g \in Files
          PROVE  /\ recorded'[g] <= Newest(g)
                 /\ dropzone[g] > 0 /\ recorded'[g] = dropzone[g]
                      => [kind |-> "file", of |-> g, nr |-> dropzone[g]] \in readings'
      <3>1. CASE g = f
        <4>1. recorded'[g] = hashed[p] /\ dropzone[g] \in Nat
          BY <1>3, <3>1 DEF StoreOK, DiskOK
        <4>2. dropzone[g] > 0 => Newest(g) = dropzone[g]
          BY DEF DiskOK, Newest
        <4>3. Newest(g) \in Nat
          BY DEF DiskOK, Newest
        <4>4. hashed[p] <= Newest(g)
          BY <1>4, <2>1, <3>1, <4>3
        <4>5. dropzone[g] > 0 /\ hashed[p] = dropzone[g] => v = dropzone[g]
          BY <2>1, <3>1, <4>1, <4>2
        <4>. QED BY <1>3, <2>1, <3>1, <4>1, <4>4, <4>5
      <3>2. CASE g # f
        <4>1. recorded'[g] = recorded[g] /\ readings \subseteq readings'
          BY <1>3, <3>2 DEF StoreOK
        <4>. QED BY <4>1 DEF LedgerOK, SkippedIsStored
      <3>. QED BY <3>1, <3>2
    <2>3. dropzone' = dropzone /\ failed' = failed
      BY <1>3 DEF disk
    <2>. QED BY <2>2, <2>3 DEF LedgerOK, SkippedIsStored, Newest
  <1>9. RebuildOK'
    BY <1>3 DEF RebuildOK, ControlOK
  <1>. QED BY <1>1, <1>5, <1>6, <1>7, <1>8, <1>9

LEMMA RecordInv ==
    ASSUME PInv, NEW p \in Processes, Record(p)
    PROVE  PInv' /\ Grows
  <1>1. CASE dropzone[file[p]] # 0
    BY <1>1, RecordedInv
  <1>2. CASE dropzone[file[p]] = 0
    <2>1. /\ at[p] = "record" /\ at' = [at EXCEPT ![p] = "aside"]
          /\ UNCHANGED <<disk, recorded, readings, draft, file, hashed, since, seen, polled>>
      BY <1>2 DEF Record, Go, database
    <2>. QED BY <2>1, GivenUpInv
  <1>. QED BY <1>1, <1>2

-----------------------------------------------------------------------------
(* The invariant. *)

\* Every action keeps the invariant.
LEMMA PipelineNextInv == PInv /\ [Next]_vars => PInv' /\ Grows
  <1>. SUFFICES ASSUME PInv, [Next]_vars PROVE PInv' /\ Grows
    OBVIOUS
  <1>1. CASE Reads
    BY <1>1, FetchInv DEF Reads
  <1>2. CASE PollCommit
    BY <1>2, PollCommitInv
  <1>3. CASE Scans
    <2>1. ASSUME NEW f \in Files, ScanNext(f) PROVE PInv' /\ Grows
      <3>1. at["timer"] = "scan" /\ Hash("timer", f)
        BY <2>1 DEF ScanNext
      <3>. QED BY <3>1, HashInv
    <2>. QED BY <1>3, <2>1, ScanBeginInv, ScanEndInv DEF Scans
  <1>4. CASE Serves
    <2>1. CASE UploadHash
      <3>1. at["web"] = "hash" /\ Hash("web", file["web"]) /\ file["web"] \in Files
        BY <2>1 DEF UploadHash, PInv, ControlOK, Processes
      <3>. QED BY <3>1, HashInv
    <2>. QED BY <1>4, <2>1, DeleteCommitInv DEF Serves
  <1>5. CASE Household
    BY <1>5, DeleteInv, DropInv, WriteOnInv, UploadInv DEF Household
  <1>6. ASSUME NEW p \in {"timer", "web"}, Ingest(p) PROVE PInv' /\ Grows
    <2>1. p \in Processes
      BY DEF Processes
    <2>. QED BY <1>6, <2>1, ReadInv, InsertInv, RecordInv, AsideInv DEF Ingest
  <1>7. ASSUME NEW p \in Processes, Rebuild(p) \/ TimeOut(p) \/ Crash(p) PROVE PInv' /\ Grows
    BY <1>7, RebuildReadInv, RebuildReplaceInv, RebuildCommitInv, TimeOutInv, CrashInv DEF Rebuild
  <1>8. CASE UNCHANGED vars
    <2>1. DiskOK' /\ Grows
      BY <1>8, UnchangedGrows DEF vars, PInv
    <2>2. PInv'
      BY <1>8 DEF vars, disk, database, control, PInv, DiskOK, ControlOK, StoreOK, HashOK, DraftOK,
                  LedgerOK, SkippedIsStored, Newest, RebuildOK
    <2>. QED BY <2>1, <2>2
  <1>. QED BY <1>1, <1>2, <1>3, <1>4, <1>5, <1>6, <1>7, <1>8 DEF Next

\* The invariant holds throughout.
LEMMA PipelineInvariant == Spec => []PInv
  <1>1. PInv /\ [Next]_vars => PInv'
    BY PipelineNextInv
  <1>. QED BY <1>1, PipelineInitInv, PTL DEF Spec

-----------------------------------------------------------------------------
\* For any number of files and versions, a file the scan would skip has its rows in the
\* tables (ingest_file).
THEOREM SkippedAreStored == Spec => []SkippedIsStored
  <1>1. PInv => SkippedIsStored
    BY DEF PInv, LedgerOK
  <1>. QED BY <1>1, PipelineInvariant, PTL

\* No step loses the newest version of a file (scan_and_ingest, api_import_csv).
THEOREM NoFileVanishes == Spec => NothingVanishes
  <1>. DEFINE Stays == \A f \in Files : dropzone'[f] >= Newest(f) \/ failed'[f] >= Newest(f)
  <1>1. PInv /\ [Next]_vars => [Stays]_vars
    BY PipelineNextInv DEF Grows
  <1>. QED BY <1>1, PipelineInvariant, PTL DEF Spec, NothingVanishes

-----------------------------------------------------------------------------
(* The refinement. *)

\* A step that adds readings only.
LEMMA StoreStep ==
    ASSUME PInv, PInv', readings \subseteq readings', UNCHANGED <<rollups, since>>
    PROVE  Abstract!Store
  BY DEF Abstract!Store, PInv, StoreOK

\* A rebuild that ends without a commit.
LEMMA AbandonStep ==
    ASSUME NEW p \in Processes, since' = [since EXCEPT ![p] = Nothing],
           UNCHANGED <<readings, rollups>>
    PROVE  Abstract!Next
  BY DEF Abstract!Next, Abstract!Abandon

\* A rebuild that reads has begun.
LEMMA BeginStep ==
    ASSUME PInv, NEW p \in Processes, RebuildRead(p)
    PROVE  Abstract!Next
  <1>1. since[p] = Nothing
    BY DEF RebuildRead, PInv, RebuildOK
  <1>2. Abstract!Begin(p)
    BY <1>1 DEF RebuildRead, Abstract!Begin
  <1>. QED BY <1>2 DEF Abstract!Next

\* A rebuild that commits.
LEMMA PublishStep ==
    ASSUME PInv, NEW p \in Processes, RebuildCommit(p)
    PROVE  Abstract!Next
  <1>1. since[p] # Nothing /\ since[p] \subseteq seen[p] /\ seen[p] \subseteq readings
    BY DEF RebuildCommit, PInv, RebuildOK
  <1>2. rollups' = seen[p] /\ since' = [since EXCEPT ![p] = Nothing] /\ readings' = readings
    BY DEF RebuildCommit, Forget
  <1>3. Abstract!Publish(p)
    BY <1>1, <1>2 DEF Abstract!Publish
  <1>. QED BY <1>3 DEF Abstract!Next

\* Every step is a step of Rollups, or changes nothing it knows of.
LEMMA EveryStepRefines ==
    PInv /\ PInv' /\ [Next]_vars => [Abstract!Next]_<<readings, rollups, since>>
  <1>. SUFFICES ASSUME PInv, PInv', [Next]_vars
                PROVE  Abstract!Next \/ UNCHANGED <<readings, rollups, since>>
    OBVIOUS
  <1>0. ASSUME readings \subseteq readings', UNCHANGED <<rollups, since>> PROVE Abstract!Next
    BY <1>0, StoreStep DEF Abstract!Next
  <1>1. CASE Reads
    BY <1>1 DEF Reads, Fetch
  <1>2. CASE PollCommit
    BY <1>0, <1>2 DEF PollCommit, Publish
  <1>3. CASE Scans
    BY <1>3 DEF Scans, ScanBegin, ScanEnd, ScanNext, Hash, database
  <1>4. CASE Serves
    <2>1. CASE UploadHash
      BY <2>1 DEF UploadHash, Hash, database
    <2>2. CASE DeleteCommit
      BY <1>0, <2>2 DEF DeleteCommit, Publish
    <2>. QED BY <1>4, <2>1, <2>2 DEF Serves
  <1>5. CASE Household
    BY <1>5 DEF Household, Delete, Drop, WriteOn, Upload, database, control
  <1>6. ASSUME NEW p \in {"timer", "web"}, Ingest(p)
        PROVE  Abstract!Next \/ UNCHANGED <<readings, rollups, since>>
    <2>0. p \in Processes
      BY DEF Processes
    <2>1. CASE Read(p)
      BY <2>1 DEF Read, database
    <2>2. CASE Insert(p)
      BY <2>2 DEF Insert
    <2>3. CASE Record(p)
      BY <1>0, <2>3 DEF Record, Publish, database
    <2>4. CASE Aside(p)
      BY <2>0, <2>4, AbandonStep DEF Aside, Forget
    <2>. QED BY <1>6, <2>1, <2>2, <2>3, <2>4 DEF Ingest
  <1>7. ASSUME NEW p \in Processes, Rebuild(p)
        PROVE  Abstract!Next \/ UNCHANGED <<readings, rollups, since>>
    <2>1. CASE RebuildReplace(p)
      BY <2>1 DEF RebuildReplace, control
    <2>. QED BY <1>7, <2>1, BeginStep, PublishStep DEF Rebuild
  <1>8. ASSUME NEW p \in Processes, TimeOut(p)
        PROVE  Abstract!Next \/ UNCHANGED <<readings, rollups, since>>
    <2>1. CASE at[p] = "insert"
      BY <1>8, <2>1 DEF TimeOut
    <2>2. CASE at[p] # "insert"
      BY <1>8, <2>2, AbandonStep DEF TimeOut, Forget
    <2>. QED BY <2>1, <2>2
  <1>9. ASSUME NEW p \in Processes, Crash(p)
        PROVE  Abstract!Next \/ UNCHANGED <<readings, rollups, since>>
    BY <1>9, AbandonStep DEF Crash, Forget
  <1>10. CASE UNCHANGED vars
    BY <1>10 DEF vars, database, control
  <1>. QED BY <1>1, <1>2, <1>3, <1>4, <1>5, <1>6, <1>7, <1>8, <1>9, <1>10 DEF Next

\* The rollups are derived in one piece from readings that were stored, and miss nothing
\* that was stored when their rebuild began, for any number of files, devices, changes and
\* faults: the three processes implement Rollups (rebuild_all).
THEOREM PipelineImplementsRollups == Spec => ImplementsRollups
  <1>1. Init => Abstract!Init
    BY DEF Init, Abstract!Init
  <1>2. PInv /\ PInv' /\ [Next]_vars => [Abstract!Next]_<<readings, rollups, since>>
    BY EveryStepRefines
  <1>. QED BY <1>1, <1>2, PipelineInvariant, PTL DEF Spec, ImplementsRollups, Abstract!Spec
=============================================================================
