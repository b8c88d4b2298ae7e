----------------------- MODULE SolarEdgeToken_proofs -----------------------
(***************************************************************************)
(* Safety of the token file, for any number of polls, grants, gets, runs   *)
(* and faults.                                                             *)
(*                                                                         *)
(* The properties speak of one process at one point; what makes them hold  *)
(* is the locked section as a whole.  Whoever holds the lock is at one of  *)
(* four steps, and what it read there is still the file until it writes.   *)
(* The file itself is the vendor's live generation, except while a         *)
(* rotation waits to be written or once a fault swallowed one.             *)
(***************************************************************************)
EXTENDS SolarEdgeToken, FiniteSetTheorems, TLAPS

\* A process that is to use a pair, or to store one, has one.
PairHeld ==
    \A p \in Procs :
        pc[p] \in {"posting", "saving", "requesting", "exchanged", "storing", "warning"}
            => pair[p] \in Pairs

\* A get in progress is one of MaxGets, and made one request or, after its
\* 401, two.
Counted ==
    \A p \in Procs :
        /\ pc[p] = "idle" => gets[p] = 0 /\ sent[p] = 0 /\ forced[p] = FALSE
        /\ pc[p] \in {"waiting", "locked", "posting", "saving", "requesting",
                      "exchanged", "storing"} =>
              /\ gets[p] < MaxGets
              /\ sent[p] <= 2 * gets[p] + IF forced[p] THEN 1 ELSE 0

\* The same, for the state of the processes and for everything else.
ProcessOK ==
    /\ pc \in [Procs -> Steps]
    /\ pair \in [Procs -> Pairs \cup {NoPair}]
    /\ forced \in [Procs -> BOOLEAN]
    /\ gets \in [Procs -> 0..MaxGets]
    /\ sent \in [Procs -> 0..(2 * MaxGets)]
    /\ PairHeld /\ Counted

SharedOK ==
    /\ file \in Pairs \cup {NoPair}
    /\ due \in BOOLEAN
    /\ lock \in Procs \cup {Nobody}
    /\ flag \in BOOLEAN /\ warned \in BOOLEAN
    /\ issued \in 0..MaxGrants
    /\ current \in [Grants -> Nat]
    /\ revoked \subseteq Grants /\ ending \subseteq Grants
    /\ runs \in 0..MaxRuns
    /\ faults \in 0..MaxFaults
    /\ lost \subseteq Grants
    /\ alerts \in Nat /\ excuses \in Nat
    /\ warnings \in [Grants -> Nat]

TInv == ProcessOK /\ SharedOK

Holding == {"locked", "posting", "saving", "storing"}

\* The lock is held exactly in the locked sections.
LockHeld == \A p \in Procs : pc[p] \in Holding <=> lock = p

\* Only the authoriser stores a grant.
OnlyAuthoriser == \A p \in Pollers : pc[p] \notin {"exchanged", "storing"}

\* What is about to be posted is the file, ...
Reading == \A p \in Procs : pc[p] = "posting" => file # NoPair /\ pair[p] = file

\* ... and what is about to be saved is its live successor.
Rotated ==
    \A p \in Procs : pc[p] = "saving" =>
        /\ file # NoPair
        /\ pair[p].grant = file.grant
        /\ pair[p].gen = file.gen + 1
        /\ pair[p].gen = current[file.grant]

\* The file is alive unless a rotation of it is unsaved or was lost.
FileKept ==
    file # NoPair =>
        /\ file.grant <= issued
        /\ \/ file.grant \in lost
           \/ file.gen = current[file.grant]
           \/ \E p \in Procs : pc[p] = "saving"

\* A grant that waits to be stored is newer than the one on file.
Fresh ==
    pc[Authoriser] \in {"exchanged", "storing"} =>
        /\ pair[Authoriser].grant = issued
        /\ pair[Authoriser].gen = current[issued]
        /\ file # NoPair => file.grant < issued

Token == /\ LockHeld /\ OnlyAuthoriser
         /\ Reading /\ Rotated /\ FileKept /\ Fresh
         /\ UsedIsSaved

IInv == TInv /\ Token

-----------------------------------------------------------------------------

\* The invariant holds before the first run.
LEMMA InitInv == Init => IInv
<1> USE TokenAssumption, NoPairAssumption DEF Init, Procs
<1>1. ASSUME Init
      PROVE  SharedOK
  <2>1. file \in Pairs \cup {NoPair}
    <3>1. CASE issued = 0
      BY <1>1, <3>1
    <3>2. CASE issued = 1
      <4>1. [grant |-> 1, gen |-> 1] \in Pairs
        BY <1>1, <3>2 DEF Pairs, Grants
      <4>2. QED
        BY <1>1, <3>2, <4>1
    <3>3. QED
      BY <1>1, <3>1, <3>2
  <2>2. /\ issued \in 0..MaxGrants
        /\ current \in [Grants -> Nat]
        /\ warnings \in [Grants -> Nat]
        /\ runs \in 0..MaxRuns /\ faults \in 0..MaxFaults
        /\ alerts \in Nat /\ excuses \in Nat
    BY <1>1
  <2>3. due \in BOOLEAN /\ flag \in BOOLEAN /\ warned \in BOOLEAN
    BY <1>1
  <2>4. /\ lock \in Procs \cup {Nobody}
        /\ revoked \subseteq Grants /\ ending \subseteq Grants /\ lost \subseteq Grants
    BY <1>1
  <2>5. QED
    BY <2>1, <2>2, <2>3, <2>4 DEF SharedOK
<1>2. ASSUME Init
      PROVE  ProcessOK
  BY <1>2 DEF ProcessOK, PairHeld, Counted, Steps
<1>3. ASSUME Init
      PROVE  LockHeld /\ OnlyAuthoriser /\ Reading /\ Rotated /\ Fresh /\ UsedIsSaved
  BY <1>3 DEF LockHeld, OnlyAuthoriser, Holding, Reading, Rotated, Fresh, UsedIsSaved
<1>4. ASSUME Init
      PROVE  FileKept
  BY <1>4 DEF FileKept, Grants
<1>5. QED
  BY <1>1, <1>2, <1>3, <1>4 DEF IInv, TInv, Token

\* A process that has no call on its stack any more leaves every process in order, ...
LEMMA UnwindKeeps ==
    ASSUME NEW p \in Procs, NEW s \in {"idle", "refused"}, ProcessOK, GoTo(p, s), Unwind(p)
    PROVE  ProcessOK'
<1> USE TokenAssumption DEF Unwind, GoTo
<1>1. /\ pc' \in [Procs -> Steps] /\ pair' \in [Procs -> Pairs \cup {NoPair}]
      /\ forced' \in [Procs -> BOOLEAN]
  BY DEF ProcessOK, Steps
<1>2. gets' \in [Procs -> 0..MaxGets] /\ sent' \in [Procs -> 0..(2 * MaxGets)]
  BY DEF ProcessOK
<1>3. PairHeld'
  BY DEF ProcessOK, PairHeld
<1>4. Counted'
  <2> SUFFICES ASSUME NEW q \in Procs
               PROVE  /\ pc'[q] = "idle" => gets'[q] = 0 /\ sent'[q] = 0 /\ forced'[q] = FALSE
                      /\ pc'[q] \in {"waiting", "locked", "posting", "saving", "requesting",
                                     "exchanged", "storing"} =>
                            /\ gets'[q] < MaxGets
                            /\ sent'[q] <= 2 * gets'[q] + IF forced'[q] THEN 1 ELSE 0
    BY DEF Counted
  <2>1. CASE q = p
    BY <2>1 DEF ProcessOK, Counted
  <2>2. CASE q # p
    BY <2>2 DEF ProcessOK, Counted
  <2>3. QED
    BY <2>1, <2>2
<1>5. QED
  BY <1>1, <1>2, <1>3, <1>4 DEF ProcessOK

\* ... and so does the end of a run, ...
LEMMA ExitKeeps ==
    ASSUME NEW p \in Procs, ProcessOK, Exit(p)
    PROVE  ProcessOK'
  BY UnwindKeeps DEF Exit

\* ... and an error, announced or not.
LEMMA RaiseKeeps ==
    ASSUME NEW p \in Procs, NEW e, ProcessOK, Raise(p, e)
    PROVE  ProcessOK'
  BY ExitKeeps, UnwindKeeps DEF Raise

\* Types, the pairs held and the counted requests are kept by every step.
LEMMA NextTyped == TInv /\ [Next]_vars => TInv'
<1> SUFFICES ASSUME TInv, [Next]_vars
             PROVE  TInv'
  OBVIOUS
<1> USE TokenAssumption, NoPairAssumption DEF TInv
<1>1. CASE Expire
  BY <1>1 DEF Expire, ProcessOK, SharedOK, PairHeld, Counted, flags, vendor, process, history
<1>2. ASSUME NEW g \in Grants, Age(g) \/ Revoke(g)
      PROVE  TInv'
  BY <1>2 DEF Age, Revoke, ProcessOK, SharedOK, PairHeld, Counted, disk, flags, process, history
<1>3. ASSUME NEW p \in Procs, Acquire(p)
      PROVE  TInv'
  BY <1>3 DEF Acquire, GoTo, ProcessOK, SharedOK, PairHeld, Counted, Steps, flags, vendor, history
<1>4. ASSUME NEW p \in Procs, Load(p)
      PROVE  TInv'
  <2>1. SharedOK'
    BY <1>4 DEF Load, SharedOK, Release, flags, vendor, history
  <2>2. CASE Raise(p, "auth")
    BY <2>1, <2>2, RaiseKeeps
  <2>3. CASE /\ file # NoPair
             /\ pair' = [pair EXCEPT ![p] = file]
             /\ GoTo(p, "posting") \/ GoTo(p, "requesting")
             /\ UNCHANGED <<forced, gets, sent>>
    BY <1>4, <2>1, <2>3 DEF Load, GoTo, ProcessOK, SharedOK, PairHeld, Counted, Steps
  <2>4. QED
    BY <1>4, <2>2, <2>3 DEF Load
<1>5. ASSUME NEW p \in Procs, Rotate(p)
      PROVE  TInv'
  <2>1. pair[p] \in Pairs /\ pc[p] = "posting"
    BY <1>5 DEF Rotate, ProcessOK, PairHeld
  <2>2. pair[p].grant \in Grants /\ pair[p].gen \in Nat
    BY <2>1 DEF Pairs
  <2>3. SharedOK'
    BY <1>5, <2>2 DEF Rotate, SharedOK, Release, Fault, flags, history
  <2>4. CASE Raise(p, "api")
    BY <2>3, <2>4, RaiseKeeps
  <2>5. CASE /\ pair' = [pair EXCEPT ![p].gen = @ + 1]
             /\ GoTo(p, "saving")
             /\ UNCHANGED <<forced, gets, sent>>
    <3>1. [pair[p] EXCEPT !.gen = @ + 1] \in Pairs
      BY <2>1 DEF Pairs
    <3>2. QED
      BY <2>1, <2>3, <2>5, <3>1 DEF GoTo, ProcessOK, PairHeld, Counted, Steps
  <2>6. QED
    BY <1>5, <2>4, <2>5 DEF Rotate
<1>6. ASSUME NEW p \in Procs, Refuse(p)
      PROVE  TInv'
  <2>1. SharedOK'
    BY <1>6 DEF Refuse, SharedOK, Release, flags, vendor, history
  <2>2. QED
    BY <1>6, <2>1, RaiseKeeps DEF Refuse
<1>7. ASSUME NEW p \in Procs, Save(p)
      PROVE  TInv'
  BY <1>7 DEF Save, Written, Release, GoTo, ProcessOK, SharedOK, PairHeld, Counted, Steps,
              flags, vendor
<1>8. ASSUME NEW p \in Procs, Request(p)
      PROVE  TInv'
  <2>1. SharedOK'
    BY <1>8 DEF Request, SharedOK, disk, flags, vendor, history
  <2>2. CASE Exit(p)
    BY <2>1, <2>2, ExitKeeps
  <2>3. CASE /\ gets' = [gets EXCEPT ![p] = @ + 1]
             /\ sent' = [sent EXCEPT ![p] = @ + 1]
             /\ forced' = [forced EXCEPT ![p] = FALSE]
             /\ pair' = [pair EXCEPT ![p] = NoPair]
             /\ \/ GoTo(p, "done")
                \/ p \in Pollers /\ gets[p] + 1 < MaxGets /\ GoTo(p, "waiting")
    <3>1. gets[p] < MaxGets /\ sent[p] <= 2 * gets[p] + 1
      BY <1>8 DEF Request, ProcessOK, Counted
    <3>2. gets' \in [Procs -> 0..MaxGets] /\ sent' \in [Procs -> 0..(2 * MaxGets)]
      BY <2>3, <3>1 DEF ProcessOK
    <3>3. Counted'
      BY <2>3, <3>1 DEF GoTo, ProcessOK, Counted
    <3>4. QED
      BY <2>1, <2>3, <3>2, <3>3 DEF GoTo, ProcessOK, PairHeld, Steps
  <2>4. CASE /\ Retried(p)
             /\ sent' = [sent EXCEPT ![p] = @ + 1]
             /\ forced' = [forced EXCEPT ![p] = TRUE]
             /\ GoTo(p, "waiting")
             /\ UNCHANGED <<pair, gets>>
    <3>1. gets[p] < MaxGets /\ sent[p] <= 2 * gets[p]
      BY <1>8, <2>4 DEF Request, Retried, ProcessOK, Counted
    <3>2. sent' \in [Procs -> 0..(2 * MaxGets)]
      BY <2>4, <3>1 DEF ProcessOK
    <3>3. Counted'
      BY <2>4, <3>1 DEF GoTo, ProcessOK, Counted
    <3>4. QED
      BY <2>1, <2>4, <3>2, <3>3 DEF GoTo, ProcessOK, PairHeld, Steps
  <2>5. CASE Raise(p, "auth")
    BY <2>1, <2>5, RaiseKeeps
  <2>6. QED
    BY <1>8, <2>2, <2>3, <2>4, <2>5 DEF Request
<1>9. ASSUME NEW p \in Procs, Refused(p) \/ Alert(p) \/ Flag(p)
      PROVE  TInv'
  <2>1. SharedOK'
    <3>1. CASE Refused(p)
      BY <3>1 DEF Refused, SharedOK, disk, flags, vendor, history
    <3>2. CASE Alert(p)
      BY <3>2 DEF Alert, Fault, SharedOK, disk, flags, vendor
    <3>3. CASE Flag(p)
      BY <3>3 DEF Flag, SharedOK, disk, vendor, history
    <3>4. QED
      BY <1>9, <3>1, <3>2, <3>3
  <2>2. CASE Exit(p)
    BY <2>1, <2>2, ExitKeeps
  <2>3. CASE /\ GoTo(p, "alerting") \/ GoTo(p, "flagging")
             /\ UNCHANGED <<pair, forced, gets, sent>>
    BY <2>1, <2>3 DEF GoTo, ProcessOK, PairHeld, Counted, Steps
  <2>4. QED
    BY <1>9, <2>2, <2>3 DEF Refused, Alert, Flag
<1>10. ASSUME NEW p \in Procs, Done(p)
       PROVE  TInv'
  <2>1. SharedOK'
    <3>1. warned' \in BOOLEAN /\ flag' \in BOOLEAN
      BY <1>10 DEF Done
    <3>2. alerts' \in Nat /\ excuses' \in Nat
      BY <1>10 DEF Done, SharedOK
    <3>3. QED
      BY <1>10, <3>1, <3>2 DEF Done, SharedOK, disk, vendor
  <2>2. CASE Exit(p)
    BY <2>1, <2>2, ExitKeeps
  <2>3. CASE /\ Unwarned
             /\ GoTo(p, "warning")
             /\ pair' = [pair EXCEPT ![p] = file]
             /\ UNCHANGED <<forced, gets, sent>>
    BY <2>1, <2>3 DEF Unwarned, Ending, GoTo, ProcessOK, SharedOK, PairHeld, Counted, Steps
  <2>4. QED
    BY <1>10, <2>2, <2>3 DEF Done
<1>11. ASSUME NEW p \in Procs, Warn(p)
       PROVE  TInv'
  <2>1. pair[p].grant \in Grants
    BY <1>11 DEF Warn, ProcessOK, PairHeld, Pairs
  <2>2. SharedOK'
    <3>1. warned' \in BOOLEAN
      BY <1>11 DEF Warn, SharedOK
    <3>2. warnings' \in [Grants -> Nat]
      <4>1. \/ warnings' = warnings
            \/ warnings' = [warnings EXCEPT ![pair[p].grant] = @ + 1]
        BY <1>11 DEF Warn
      <4>2. QED
        BY <2>1, <4>1 DEF SharedOK
    <3>3. faults' \in 0..MaxFaults /\ excuses' \in Nat
      BY <1>11 DEF Warn, Fault, SharedOK
    <3>4. QED
      BY <1>11, <3>1, <3>2, <3>3 DEF Warn, SharedOK, disk, vendor
  <2>3. QED
    BY <1>11, <2>2, ExitKeeps DEF Warn
<1>12. ASSUME NEW p \in Procs, Crash(p)
       PROVE  TInv'
  <2>1. pc[p] = "saving" => pair[p].grant \in Grants
    BY DEF ProcessOK, PairHeld, Pairs
  <2>2. SharedOK'
    BY <1>12, <2>1 DEF Crash, Fault, SharedOK, flags, vendor
  <2>3. QED
    BY <1>12, <2>2, ExitKeeps DEF Crash
<1>13. ASSUME NEW p \in Pollers, NEW d \in BOOLEAN, Poll(p, d)
       PROVE  TInv'
  <2>1. SharedOK'
    BY <1>13 DEF Poll, Began, SharedOK, disk, flags, vendor
  <2>2. /\ p \in Procs
        /\ pc[p] = "idle"
        /\ GoTo(p, "refused") \/ GoTo(p, "waiting") \/ GoTo(p, "done")
        /\ UNCHANGED <<pair, forced, gets, sent>>
    BY <1>13 DEF Poll, Began, Procs
  <2>3. QED
    BY <2>1, <2>2 DEF GoTo, ProcessOK, PairHeld, Counted, Steps
<1>14. ASSUME NEW s \in BOOLEAN, Exchange(s)
       PROVE  TInv'
  <2>1. issued + 1 \in Grants /\ 1..issued \subseteq Grants /\ Authoriser \in Procs
    BY <1>14 DEF Exchange, SharedOK, Grants, Procs
  <2>2. SharedOK'
    BY <1>14, <2>1 DEF Exchange, Began, SharedOK, disk, flags
  <2>3. [grant |-> issued + 1, gen |-> 1] \in Pairs
    BY <2>1 DEF Pairs
  <2>4. ProcessOK'
    BY <1>14, <2>1, <2>3 DEF Exchange, Began, GoTo, ProcessOK, PairHeld, Counted, Steps
  <2>5. QED
    BY <2>2, <2>4
<1>15. CASE Authorised
  <2>1. SharedOK'
    BY <1>15 DEF Authorised, SharedOK, disk, vendor, history
  <2>2. QED
    BY <1>15, <2>1, ExitKeeps DEF Authorised, Procs
<1>16. CASE UNCHANGED vars
  BY <1>16 DEF vars, ProcessOK, SharedOK, PairHeld, Counted, disk, flags, vendor, process, history
<1>17. QED
  BY <1>1, <1>2, <1>3, <1>4, <1>5, <1>6, <1>7, <1>8, <1>9, <1>10, <1>11, <1>12,
     <1>13, <1>14, <1>15, <1>16 DEF Next, Step, Rest

-----------------------------------------------------------------------------

\* A process that moves outside the locked sections disturbs nothing.
LEMMA OutsideKeeps ==
    ASSUME IInv,
           NEW p \in Procs, pc[p] \notin Holding,
           NEW s \in Steps \ (Holding \cup {"requesting", "exchanged"}),
           pc' = [pc EXCEPT ![p] = s],
           \A q \in Procs \ {p} : pair'[q] = pair[q],
           UNCHANGED <<file, lock, issued, current, lost>>
    PROVE  Token'
<1> USE DEF IInv, TInv, Token
<1>1. pc \in [Procs -> Steps]
  BY DEF ProcessOK
<1>2. LockHeld' /\ OnlyAuthoriser'
  BY <1>1 DEF LockHeld, OnlyAuthoriser, Holding, Procs
<1>3. Reading' /\ Rotated' /\ UsedIsSaved'
  BY <1>1 DEF Reading, Rotated, UsedIsSaved, Holding
<1>4. FileKept'
  BY <1>1 DEF FileKept, Holding
<1>5. Fresh'
  BY <1>1 DEF Fresh, Procs, Holding
<1>6. QED
  BY <1>2, <1>3, <1>4, <1>5

\* The lock is given back with nothing written: what rotated meanwhile was
\* the file's grant at most, and then it is known to be lost.
Unwritten(p) ==
    /\ lock' = Nobody
    /\ UNCHANGED <<file, issued>>
    /\ lost \subseteq lost'
    /\ \A g \in Grants : current'[g] = current[g] \/ (file # NoPair /\ g = file.grant)
    /\ file # NoPair => file.grant \in lost' \/ (current' = current /\ pc[p] # "saving")

\* A process that leaves a locked section with nothing written disturbs
\* nothing either.
LEMMA LeaveKeeps ==
    ASSUME IInv,
           NEW p \in Procs, pc[p] \in Holding,
           NEW s \in Steps \ (Holding \cup {"requesting", "exchanged"}),
           pc' = [pc EXCEPT ![p] = s],
           \A q \in Procs \ {p} : pair'[q] = pair[q],
           Unwritten(p)
    PROVE  Token'
<1> USE DEF IInv, TInv, Token, Unwritten
<1>1. /\ pc \in [Procs -> Steps]
      /\ \A q \in Procs : pc[q] \in Holding <=> q = p
  BY DEF ProcessOK, LockHeld
<1>2. Nobody \notin Procs /\ \A q \in Procs : pc'[q] \notin Holding
  BY <1>1, TokenAssumption DEF Procs
<1>3. LockHeld' /\ OnlyAuthoriser'
  BY <1>1, <1>2 DEF LockHeld, OnlyAuthoriser, Holding, Procs
<1>4. Reading' /\ Rotated' /\ UsedIsSaved'
  BY <1>1, <1>2 DEF Reading, Rotated, UsedIsSaved, Holding
<1>5. FileKept'
  BY <1>1 DEF FileKept, Holding
<1>6. Fresh'
  <2> SUFFICES ASSUME pc'[Authoriser] \in {"exchanged", "storing"}
               PROVE  /\ pair'[Authoriser].grant = issued
                      /\ pair'[Authoriser].gen = current'[issued]
                      /\ file # NoPair => file.grant < issued
    BY DEF Fresh
  <2>1. Authoriser \in Procs /\ Authoriser # p /\ pc'[Authoriser] = pc[Authoriser]
    BY <1>1, TokenAssumption DEF Procs, Holding
  <2>2. /\ pair[Authoriser].grant = issued
        /\ pair[Authoriser].gen = current[issued]
        /\ file # NoPair => file.grant < issued
    BY <2>1 DEF Fresh
  <2>3. issued \in Grants
    BY <2>1, <2>2 DEF ProcessOK, PairHeld, Pairs
  <2>4. file # NoPair => file.grant # issued
    BY <2>2, <2>3 DEF SharedOK, Pairs, Grants
  <2>5. QED
    BY <2>1, <2>2, <2>3, <2>4
<1>7. QED
  BY <1>3, <1>4, <1>5, <1>6

\* The end of a run leaves a process idle, and the pairs of the others alone.
LEMMA ExitMoves ==
    ASSUME NEW p \in Procs, Exit(p), ProcessOK
    PROVE  /\ pc' = [pc EXCEPT ![p] = "idle"]
           /\ \A q \in Procs \ {p} : pair'[q] = pair[q]
  BY DEF Exit, Unwind, GoTo, ProcessOK

\* An error leads a poll to the end of its run or to its except clause.
LEMMA RaiseMoves ==
    ASSUME NEW p \in Procs, NEW e, Raise(p, e), ProcessOK
    PROVE  /\ \E s \in {"idle", "refused"} : pc' = [pc EXCEPT ![p] = s]
           /\ \A q \in Procs \ {p} : pair'[q] = pair[q]
  BY DEF Raise, Exit, Unwind, GoTo, ProcessOK

\* The token invariant is kept by every step: what happens outside the lock
\* and what leaves it by an error is settled by the two lemmas, and the rest
\* is the locked section itself.
LEMMA NextToken == IInv /\ [Next]_vars => Token'
<1> SUFFICES ASSUME IInv, [Next]_vars
             PROVE  Token'
  OBVIOUS
<1> USE TokenAssumption, NoPairAssumption
<1>a. /\ TInv /\ Token /\ ProcessOK /\ SharedOK
      /\ Nobody \notin Procs /\ Authoriser \in Procs /\ Authoriser \notin Pollers
      /\ pc \in [Procs -> Steps]
  BY DEF IInv, TInv, ProcessOK, Procs
<1>b. \A p, q \in Procs : pc[p] \in Holding /\ pc[q] \in Holding => p = q
  BY <1>a DEF Token, LockHeld
<1>1. CASE UNCHANGED <<file, lock, issued, current, lost, pc, pair>>
  BY <1>a, <1>1 DEF Token, LockHeld, OnlyAuthoriser, Reading, Rotated, FileKept, Fresh, UsedIsSaved
<1>2. ASSUME NEW p \in Procs, Acquire(p)
      PROVE  Token'
  <2>1. /\ pc[p] \in {"waiting", "exchanged"} /\ lock = Nobody /\ lock' = p
        /\ pc' = [pc EXCEPT ![p] = IF pc[p] = "waiting" THEN "locked" ELSE "storing"]
        /\ UNCHANGED <<file, issued, current, lost, pair>>
    BY <1>2 DEF Acquire, Free, GoTo, vendor, history
  <2>2. \A q \in Procs : pc[q] \notin Holding
    BY <1>a, <2>1 DEF Token, LockHeld
  <2>3. LockHeld' /\ OnlyAuthoriser'
    BY <1>a, <2>1, <2>2 DEF Token, LockHeld, OnlyAuthoriser, Holding
  <2>4. Reading' /\ Rotated' /\ UsedIsSaved'
    BY <1>a, <2>1, <2>2 DEF Token, Reading, Rotated, UsedIsSaved, Holding
  <2>5. FileKept' /\ Fresh'
    BY <1>a, <2>1, <2>2 DEF Token, FileKept, Fresh, Holding
  <2>6. QED
    BY <2>3, <2>4, <2>5 DEF Token
<1>3. ASSUME NEW p \in Procs, Load(p)
      PROVE  Token'
  <2>1. pc[p] = "locked" /\ lock = p /\ UNCHANGED <<file, issued, current, lost>>
    BY <1>3, <1>a DEF Load, Token, LockHeld, Holding, vendor, history
  <2>2. CASE file = NoPair /\ Release /\ Raise(p, "auth")
    <3>1. PICK s \in {"idle", "refused"} : pc' = [pc EXCEPT ![p] = s]
      BY <1>a, <2>2, RaiseMoves
    <3>2. \A q \in Procs \ {p} : pair'[q] = pair[q]
      BY <1>a, <2>2, RaiseMoves
    <3>3. pc[p] \in Holding /\ s \in Steps \ (Holding \cup {"requesting", "exchanged"})
      BY <2>1 DEF Holding, Steps
    <3>4. Unwritten(p)
      BY <2>1, <2>2 DEF Release, Unwritten
    <3>5. QED
      BY <3>1, <3>2, <3>3, <3>4, LeaveKeeps
  <2>3. CASE /\ file # NoPair /\ pair' = [pair EXCEPT ![p] = file]
             /\ GoTo(p, "posting") /\ UNCHANGED lock
    <3>1. LockHeld' /\ OnlyAuthoriser'
      BY <1>a, <2>1, <2>3 DEF GoTo, Token, LockHeld, OnlyAuthoriser, Holding
    <3>2. Reading' /\ Rotated' /\ UsedIsSaved'
      BY <1>a, <2>1, <2>3 DEF GoTo, ProcessOK, Token, Reading, Rotated, UsedIsSaved
    <3>3. FileKept' /\ Fresh'
      BY <1>a, <2>1, <2>3 DEF GoTo, ProcessOK, Token, FileKept, Fresh
    <3>4. QED
      BY <3>1, <3>2, <3>3 DEF Token
  <2>4. CASE /\ file # NoPair /\ pair' = [pair EXCEPT ![p] = file]
             /\ GoTo(p, "requesting") /\ lock' = Nobody
    <3>1. LockHeld' /\ OnlyAuthoriser'
      BY <1>a, <1>b, <2>1, <2>4 DEF GoTo, Token, LockHeld, OnlyAuthoriser, Holding
    <3>2. Reading' /\ Rotated'
      BY <1>a, <2>1, <2>4 DEF GoTo, ProcessOK, Token, Reading, Rotated
    <3>3. UsedIsSaved'
      BY <1>a, <2>1, <2>4 DEF GoTo, ProcessOK, SharedOK, Pairs, Grants, Token, UsedIsSaved
    <3>4. FileKept' /\ Fresh'
      BY <1>a, <2>1, <2>4 DEF GoTo, ProcessOK, Token, FileKept, Fresh
    <3>5. QED
      BY <3>1, <3>2, <3>3, <3>4 DEF Token
  <2>5. QED
    BY <1>3, <2>2, <2>3, <2>4 DEF Load, Release
<1>4. ASSUME NEW p \in Procs, Rotate(p)
      PROVE  Token'
  <2>1. /\ pc[p] = "posting" /\ lock = p
        /\ pair[p] = file /\ file # NoPair /\ file \in Pairs
        /\ file.gen = current[file.grant]
        /\ current' = [current EXCEPT ![file.grant] = @ + 1]
        /\ UNCHANGED <<file, issued>>
    BY <1>4, <1>a DEF Rotate, Alive, SharedOK, Token, LockHeld, Reading, Holding
  <2>2. file.grant \in Grants /\ file.gen \in Nat
    BY <2>1 DEF Pairs
  <2>3. CASE /\ lost' = lost \cup {pair[p].grant} /\ Release /\ Raise(p, "api")
    <3>1. PICK s \in {"idle", "refused"} : pc' = [pc EXCEPT ![p] = s]
      BY <1>a, <2>3, RaiseMoves
    <3>2. \A q \in Procs \ {p} : pair'[q] = pair[q]
      BY <1>a, <2>3, RaiseMoves
    <3>3. pc[p] \in Holding /\ s \in Steps \ (Holding \cup {"requesting", "exchanged"})
      BY <2>1 DEF Holding, Steps
    <3>4. \A g \in Grants : current'[g] = current[g] \/ g = file.grant
      BY <1>a, <2>1 DEF SharedOK
    <3>5. Unwritten(p)
      BY <2>1, <2>3, <3>4 DEF Release, Unwritten
    <3>6. QED
      BY <3>1, <3>2, <3>3, <3>5, LeaveKeeps
  <2>4. CASE /\ pair' = [pair EXCEPT ![p].gen = @ + 1] /\ GoTo(p, "saving")
             /\ UNCHANGED <<lock, lost>>
    <3>1. /\ pair'[p].grant = file.grant /\ pair'[p].gen = file.gen + 1
          /\ current'[file.grant] = file.gen + 1
          /\ \A q \in Procs \ {p} : pair'[q] = pair[q] /\ pc'[q] = pc[q]
          /\ pc'[p] = "saving"
      BY <1>a, <2>1, <2>2, <2>4 DEF GoTo, ProcessOK, SharedOK, Pairs
    <3>2. LockHeld' /\ OnlyAuthoriser'
      BY <1>a, <2>1, <2>4, <3>1 DEF GoTo, Token, LockHeld, OnlyAuthoriser, Holding, Procs
    <3>3. Reading' /\ Rotated' /\ UsedIsSaved'
      BY <1>a, <1>b, <2>1, <3>1 DEF Token, Reading, Rotated, UsedIsSaved, Holding
    <3>4. FileKept'
      BY <1>a, <2>1, <3>1 DEF Token, FileKept
    <3>5. Fresh'
      <4> SUFFICES ASSUME pc'[Authoriser] \in {"exchanged", "storing"}
                   PROVE  /\ pair'[Authoriser].grant = issued
                          /\ pair'[Authoriser].gen = current'[issued]
                          /\ file.grant < issued
        BY <2>1 DEF Fresh
      <4>1. /\ Authoriser # p
            /\ pair[Authoriser].grant = issued
            /\ pair[Authoriser].gen = current[issued]
            /\ file.grant < issued
        BY <1>a, <2>1, <3>1 DEF Token, Fresh
      <4>2. current'[issued] = current[issued]
        BY <2>1, <2>2, <4>1, <1>a DEF SharedOK, Grants
      <4>3. QED
        BY <1>a, <3>1, <4>1, <4>2
    <3>6. QED
      BY <3>2, <3>3, <3>4, <3>5 DEF Token
  <2>5. QED
    BY <1>4, <2>3, <2>4 DEF Rotate, history
<1>5. ASSUME NEW p \in Procs, Refuse(p)
      PROVE  Token'
  <2>1. PICK s \in {"idle", "refused"} : pc' = [pc EXCEPT ![p] = s]
    BY <1>a, <1>5, RaiseMoves DEF Refuse
  <2>2. \A q \in Procs \ {p} : pair'[q] = pair[q]
    BY <1>a, <1>5, RaiseMoves DEF Refuse
  <2>3. pc[p] \in Holding /\ s \in Steps \ (Holding \cup {"requesting", "exchanged"})
    BY <1>5 DEF Refuse, Holding, Steps
  <2>4. Unwritten(p)
    BY <1>5 DEF Refuse, Release, vendor, history, Unwritten
  <2>5. QED
    BY <2>1, <2>2, <2>3, <2>4, LeaveKeeps
<1>6. ASSUME NEW p \in Procs, Save(p)
      PROVE  Token'
  <2>1. /\ pc[p] \in {"saving", "storing"} /\ lock = p
        /\ file' = pair[p] /\ lock' = Nobody
        /\ pc' = [pc EXCEPT ![p] = IF pc[p] = "saving" THEN "requesting" ELSE "waiting"]
        /\ UNCHANGED <<issued, current, pair, lost>>
    BY <1>6, <1>a DEF Save, Written, Release, GoTo, vendor, Token, LockHeld, Holding
  <2>2. /\ pair[p] \in Pairs /\ file' # NoPair
        /\ pair[p].grant \in Grants /\ pair[p].gen \in Nat
    BY <1>a, <2>1 DEF ProcessOK, PairHeld, Pairs
  <2>3. /\ \A q \in Procs : pc'[q] \notin Holding
        /\ \A q \in Procs \ {p} : pc'[q] = pc[q]
    BY <1>a, <1>b, <2>1 DEF Holding
  <2>4. /\ file'.gen = current[file'.grant] /\ file'.grant <= issued
        /\ file # NoPair => \/ file'.grant = file.grant /\ file'.gen = file.gen + 1
                            \/ file.grant < file'.grant
        /\ file # NoPair => file.grant \in Grants /\ file.gen \in Nat
    <3>1. CASE pc[p] = "saving"
      BY <1>a, <2>1, <2>2, <3>1 DEF Token, Rotated, FileKept, SharedOK, Pairs
    <3>2. CASE pc[p] = "storing"
      <4>1. p = Authoriser
        BY <1>a, <3>2 DEF Token, OnlyAuthoriser, Procs
      <4>2. QED
        BY <1>a, <2>1, <2>2, <3>2, <4>1 DEF Token, Fresh, SharedOK, Pairs, Grants
    <3>3. QED
      BY <2>1, <3>1, <3>2
  <2>5. LockHeld' /\ OnlyAuthoriser'
    BY <1>a, <2>1, <2>3 DEF Token, LockHeld, OnlyAuthoriser, Procs
  <2>6. Reading' /\ Rotated'
    BY <2>3 DEF Reading, Rotated, Holding
  <2>7. FileKept'
    BY <2>1, <2>4 DEF FileKept
  <2>8. Fresh'
    <3>1. CASE p = Authoriser
      BY <1>a, <2>1, <3>1 DEF Fresh
    <3>2. CASE p # Authoriser
      <4>1. pc[p] = "saving"
        BY <1>a, <2>1, <3>2 DEF Token, OnlyAuthoriser, Procs
      <4>2. file # NoPair /\ file'.grant = file.grant
        BY <1>a, <2>1, <4>1 DEF Token, Rotated
      <4>3. QED
        BY <1>a, <2>1, <2>3, <3>2, <4>2 DEF Token, Fresh
    <3>3. QED
      BY <3>1, <3>2
  <2>9. UsedIsSaved'
    <3> SUFFICES ASSUME NEW q \in Procs, pc'[q] = "requesting"
                 PROVE  /\ pair[q].grant = file'.grant => pair[q].gen <= file'.gen
                        /\ pair[q].grant <= file'.grant
      BY <2>1, <2>2 DEF UsedIsSaved
    <3>1. CASE q = p
      BY <2>1, <2>2, <3>1 DEF Grants
    <3>2. CASE q # p
      <4>1. /\ pc[q] = "requesting" /\ file # NoPair
            /\ pair[q].grant = file.grant => pair[q].gen <= file.gen
            /\ pair[q].grant <= file.grant
        BY <1>a, <2>3, <3>2 DEF Token, UsedIsSaved
      <4>2. pair[q].grant \in Grants /\ pair[q].gen \in Nat
        BY <1>a, <4>1 DEF ProcessOK, PairHeld, Pairs
      <4>3. QED
        BY <2>1, <2>2, <2>4, <4>1, <4>2 DEF Grants
    <3>3. QED
      BY <3>1, <3>2
  <2>10. QED
    BY <2>5, <2>6, <2>7, <2>8, <2>9 DEF Token
<1>7. ASSUME NEW p \in Procs, Request(p)
      PROVE  Token'
  <2>1. /\ pc[p] = "requesting" /\ UNCHANGED <<file, lock, issued, current, lost>>
    BY <1>7 DEF Request, disk, vendor, history
  <2>2. PICK s \in {"idle", "refused", "waiting", "done"} : pc' = [pc EXCEPT ![p] = s]
    BY <1>a, <1>7, ExitMoves, RaiseMoves DEF Request, GoTo
  <2>3. \A q \in Procs \ {p} : pair'[q] = pair[q]
    BY <1>a, <1>7, ExitMoves, RaiseMoves DEF Request, ProcessOK
  <2>4. QED
    BY <2>1, <2>2, <2>3, OutsideKeeps DEF Holding, Steps
<1>8. ASSUME NEW p \in Procs, Refused(p) \/ Alert(p) \/ Flag(p) \/ Done(p) \/ Warn(p)
      PROVE  Token'
  <2>1. /\ pc[p] \notin Holding /\ UNCHANGED <<file, lock, issued, current, lost>>
    BY <1>8 DEF Refused, Alert, Flag, Done, Warn, disk, vendor, history, Holding
  <2>2. PICK s \in {"idle", "alerting", "flagging", "warning"} : pc' = [pc EXCEPT ![p] = s]
    BY <1>a, <1>8, ExitMoves DEF Refused, Alert, Flag, Done, Warn, GoTo
  <2>3. \A q \in Procs \ {p} : pair'[q] = pair[q]
    BY <1>a, <1>8, ExitMoves DEF Refused, Alert, Flag, Done, Warn, ProcessOK
  <2>4. QED
    BY <2>1, <2>2, <2>3, OutsideKeeps DEF Holding, Steps
<1>9. ASSUME NEW p \in Procs, Crash(p)
      PROVE  Token'
  <2>1. /\ pc' = [pc EXCEPT ![p] = "idle"]
        /\ \A q \in Procs \ {p} : pair'[q] = pair[q]
        /\ UNCHANGED <<file, issued, current>>
    BY <1>9, <1>a, ExitMoves DEF Crash, vendor
  <2>2. CASE pc[p] \in Holding
    <3>1. lock' = Nobody /\ lost \subseteq lost'
      BY <1>9, <1>a, <2>2 DEF Crash, Token, LockHeld
    <3>2. file # NoPair => file.grant \in lost' \/ pc[p] # "saving"
      BY <1>9, <1>a DEF Crash, Token, Rotated
    <3>3. "idle" \in Steps \ (Holding \cup {"requesting", "exchanged"})
      BY DEF Holding, Steps
    <3>4. Unwritten(p)
      BY <2>1, <3>1, <3>2 DEF Unwritten
    <3>5. QED
      BY <2>1, <2>2, <3>3, <3>4, LeaveKeeps
  <2>3. CASE pc[p] \notin Holding
    <3>1. UNCHANGED <<lock, lost>>
      BY <1>9, <1>a, <2>3 DEF Crash, Token, LockHeld, Holding
    <3>2. QED
      BY <2>1, <2>3, <3>1, OutsideKeeps DEF Holding, Steps
  <2>4. QED
    BY <2>2, <2>3
<1>10. ASSUME NEW p \in Pollers, NEW d \in BOOLEAN, Poll(p, d)
       PROVE  Token'
  <2>1. /\ p \in Procs /\ pc[p] = "idle"
        /\ UNCHANGED <<file, lock, issued, current, lost, pair>>
    BY <1>10 DEF Poll, Began, Procs, disk, vendor
  <2>2. PICK s \in {"refused", "waiting", "done"} : pc' = [pc EXCEPT ![p] = s]
    BY <1>10 DEF Poll, GoTo
  <2>3. QED
    BY <2>1, <2>2, OutsideKeeps DEF Holding, Steps
<1>11. ASSUME NEW s \in BOOLEAN, Exchange(s)
       PROVE  Token'
  <2>1. /\ pc[Authoriser] = "idle" /\ issued < MaxGrants /\ issued' = issued + 1
        /\ current' = [current EXCEPT ![issued + 1] = 1]
        /\ pair' = [pair EXCEPT ![Authoriser] = [grant |-> issued + 1, gen |-> 1]]
        /\ pc' = [pc EXCEPT ![Authoriser] = "exchanged"]
        /\ UNCHANGED <<file, lock, lost>>
    BY <1>11 DEF Exchange, Began, GoTo, disk
  <2>2. /\ issued \in Nat /\ issued + 1 \in Grants /\ pair \in [Procs -> Pairs \cup {NoPair}]
        /\ current \in [Grants -> Nat]
    BY <1>a, <2>1 DEF SharedOK, ProcessOK, Grants
  <2>3. file # NoPair => file.grant \in Grants /\ file.grant <= issued
    BY <1>a DEF Token, FileKept, SharedOK, Pairs
  <2>4. LockHeld' /\ OnlyAuthoriser'
    BY <1>a, <2>1 DEF Token, LockHeld, OnlyAuthoriser, Holding, Procs
  <2>5. Reading' /\ Rotated' /\ UsedIsSaved'
    BY <1>a, <2>1, <2>2, <2>3 DEF Token, Reading, Rotated, UsedIsSaved, Grants
  <2>6. FileKept'
    BY <1>a, <2>1, <2>2, <2>3 DEF Token, FileKept, Grants
  <2>7. Fresh'
    BY <1>a, <2>1, <2>2, <2>3 DEF Fresh, Grants
  <2>8. QED
    BY <2>4, <2>5, <2>6, <2>7 DEF Token
<1>12. CASE Authorised
  BY <1>a, <1>12, ExitMoves, OutsideKeeps
  DEF Authorised, disk, vendor, history, Holding, Steps
<1>13. QED
  BY <1>1, <1>2, <1>3, <1>4, <1>5, <1>6, <1>7, <1>8, <1>9, <1>10, <1>11, <1>12
  DEF Next, Step, Rest, Expire, Age, Revoke, vars, disk, vendor, process, history

\* The inductive invariant, from which everything below follows.
LEMMA Invariance == Spec => []IInv
<1>1. IInv /\ [Next]_vars => IInv'
  BY NextTyped, NextToken DEF IInv
<1>2. QED
  BY <1>1, InitInv, PTL DEF Spec

-----------------------------------------------------------------------------

\* Type correctness, with it the bound on the requests of one run: two for
\* each get.
THEOREM TypeCorrect == Spec => []TypeOK
<1>1. IInv => TypeOK
  BY DEF IInv, TInv, ProcessOK, SharedOK, TypeOK
<1>2. QED
  BY <1>1, Invariance, PTL

\* However polls and an authorisation overlap, the token that is posted is
\* alive, unless a fault swallowed a rotation of its grant.
THEOREM NoRace == Spec => []NoRaceKillsTheGrant
<1>1. IInv => NoRaceKillsTheGrant
  <2> SUFFICES ASSUME IInv, NEW p \in Procs, pc[p] = "posting", pair[p].grant \notin lost
               PROVE  pair[p].gen = current[pair[p].grant]
    BY DEF NoRaceKillsTheGrant
  <2>1. file # NoPair /\ pair[p] = file
    BY DEF IInv, Token, Reading
  <2>2. \A q \in Procs : pc[q] # "saving"
    BY DEF IInv, Token, LockHeld, Holding
  <2>3. QED
    BY <2>1, <2>2 DEF IInv, Token, FileKept
<1>2. QED
  BY <1>1, Invariance, PTL

\* No access token is used before the pair it came with is on file.
THEOREM UsedPairsAreSaved == Spec => []UsedIsSaved
<1>1. IInv => UsedIsSaved
  BY DEF IInv, Token
<1>2. QED
  BY <1>1, Invariance, PTL

\* No step takes the file back: what is saved is a rotation of it or a newer grant.
LEMMA StepMovesOn ==
    ASSUME IInv, [Next]_vars, file # NoPair
    PROVE  /\ file' # NoPair
           /\ file'.grant >= file.grant
           /\ file'.grant = file.grant => file'.gen >= file.gen
<1>1. file \in Pairs /\ file.grant \in Grants /\ file.gen \in Nat
  BY DEF IInv, TInv, SharedOK, Pairs
<1>2. CASE UNCHANGED file
  BY <1>1, <1>2 DEF Grants
<1>3. ASSUME NEW p \in Procs, Save(p)
      PROVE  /\ file' # NoPair
             /\ file'.grant >= file.grant
             /\ file'.grant = file.grant => file'.gen >= file.gen
  <2>1. /\ file' = pair[p] /\ pair[p] \in Pairs /\ pair[p] # NoPair
        /\ pair[p].grant \in Grants /\ pair[p].gen \in Nat
    BY <1>3, NoPairAssumption DEF Save, Written, IInv, TInv, ProcessOK, PairHeld, Pairs
  <2>2. CASE pc[p] = "saving"
    BY <1>1, <2>1, <2>2 DEF IInv, Token, Rotated, Grants
  <2>3. CASE pc[p] = "storing"
    <3>1. p = Authoriser
      BY <2>3 DEF IInv, Token, OnlyAuthoriser, Procs
    <3>2. QED
      BY <1>1, <2>1, <2>3, <3>1 DEF IInv, Token, Fresh, Grants
  <2>4. QED
    BY <1>3, <2>2, <2>3 DEF Save
<1>4. UNCHANGED file \/ \E p \in Procs : Save(p)
  BY DEF Next, Step, Rest, Expire, Age, Revoke, Acquire, Load, Rotate, Refuse, Request,
         Refused, Alert, Flag, Done, Warn, Crash, Poll, Exchange, Authorised, vars, disk
<1>5. QED
  BY <1>2, <1>3, <1>4

\* No write undoes an authorisation or a later refresh.
THEOREM FileNeverGoesBack == Spec => FileMovesOn
  BY Invariance, StepMovesOn, PTL DEF Spec, FileMovesOn

-----------------------------------------------------------------------------
(***************************************************************************)
(* The alert-once flags.                                                   *)
(*                                                                         *)
(* Every run that begins while another is in progress brings an excuse,    *)
(* and announces at most once: its announcement, or the flag it clears, is *)
(* paid for.  Of the runs in progress only one, f, has brought none.  The  *)
(* account says that one announcement beyond the excuses is all there is,  *)
(* and that after it the flag is there, or f is about to write it.         *)
(***************************************************************************)

\* Runs other than f that have not used their excuse: they are not at one of the
\* steps of out, where it has been used or cannot be.
Creditors(f, out) == {p \in Procs \ {f} : pc[p] \notin out}
Owed(f, out) == Cardinality(Creditors(f, out))

\* No failure is announced any more: nothing runs, it has been, or the poll succeeded.
Spent == {"idle", "flagging", "warning"}

AlertAccount(f) ==
    /\ IsFiniteSet(Creditors(f, Spent)) /\ Owed(f, Spent) <= excuses
    /\ \/ alerts + Owed(f, Spent) <= excuses
       \/ /\ alerts + Owed(f, Spent) <= excuses + 1
          /\ flag \/ pc[f] = "flagging"
          /\ pc[f] # "alerting"
          /\ f = Authoriser => pc[f] \in {"idle", "exchanged", "storing"}

AlertsPaid == \E f \in Procs : AlertAccount(f)

\* The warning about g has been given, or is not due any more.
ToldOf(g) == /\ file # NoPair /\ g \in ending
             /\ file.grant > g \/ (file.grant = g /\ warned)

WarningAccount(g, f) ==
    /\ IsFiniteSet(Creditors(f, {"idle"}))
    /\ \/ warnings[g] + Owed(f, {"idle"}) <= excuses
       \/ /\ warnings[g] + Owed(f, {"idle"}) <= excuses + 1
          /\ ToldOf(g)
          /\ ~(pc[f] = "warning" /\ pair[f].grant = g)

WarningsPaid == \A g \in Grants : \E f \in Procs : WarningAccount(g, f)

\* A warning is about a grant that is ending, no newer than the file's.
WarnsOfEnding ==
    \A p \in Procs : pc[p] = "warning" =>
        file # NoPair /\ pair[p].grant <= file.grant /\ pair[p].grant \in ending

-----------------------------------------------------------------------------

\* A step of p owes or frees one excuse at most.
LEMMA OwedMoves ==
    ASSUME NEW f \in Procs, NEW p \in Procs, NEW s, NEW out,
           pc \in [Procs -> Steps], pc' = [pc EXCEPT ![p] = s],
           IsFiniteSet(Creditors(f, out))
    PROVE  /\ IsFiniteSet(Creditors(f, out)') /\ Owed(f, out) \in Nat /\ Owed(f, out)' \in Nat
           /\ p = f => Owed(f, out)' = Owed(f, out)
           /\ pc[p] \notin out => Owed(f, out)' <= Owed(f, out)
           /\ s \in out => Owed(f, out)' <= Owed(f, out)
           /\ pc[p] \notin out /\ s \in out /\ p # f => Owed(f, out)' = Owed(f, out) - 1
           /\ Owed(f, out)' <= Owed(f, out) + 1
<1> DEFINE C == Creditors(f, out)
           D == Creditors(f, out)'
<1>1. \A q \in Procs : pc'[q] = IF q = p THEN s ELSE pc[q]
  OBVIOUS
<1>2. /\ p = f => D = C
      /\ p # f /\ pc[p] \in out /\ s \in out => D = C
      /\ p # f /\ pc[p] \notin out /\ s \notin out => D = C
      /\ p # f /\ pc[p] \notin out /\ s \in out => D = C \ {p} /\ p \in C
      /\ p # f /\ pc[p] \in out /\ s \notin out => D = C \cup {p} /\ p \notin C
  BY <1>1 DEF Creditors
<1> HIDE DEF C, D
<1>3. /\ IsFiniteSet(C \ {p}) /\ Cardinality(C) \in Nat
      /\ p \in C => Cardinality(C \ {p}) = Cardinality(C) - 1
      /\ IsFiniteSet(C \cup {p})
      /\ p \notin C => Cardinality(C \cup {p}) = Cardinality(C) + 1
  BY FS_RemoveElement, FS_AddElement, FS_CardinalityType DEF C
<1>4. IsFiniteSet(C) /\ Owed(f, out) = Cardinality(C) /\ Owed(f, out)' = Cardinality(D)
  BY DEF C, D, Owed
<1>5. /\ IsFiniteSet(D)
      /\ \/ Cardinality(D) = Cardinality(C)
         \/ Cardinality(D) = Cardinality(C) - 1 /\ p \in C
         \/ Cardinality(D) = Cardinality(C) + 1 /\ pc[p] \in out /\ s \notin out
      /\ p = f => Cardinality(D) = Cardinality(C)
      /\ pc[p] \notin out /\ s \in out /\ p # f => Cardinality(D) = Cardinality(C) - 1
  <2>1. CASE D = C
    BY <1>2, <1>3, <1>4, <2>1
  <2>2. CASE D # C
    BY <1>2, <1>3, <1>4, <2>2
  <2>3. QED
    BY <2>1, <2>2
<1>6. p \in C => Cardinality(C) - 1 \in Nat
  <2>1. IsFiniteSet(C \ {p}) => Cardinality(C \ {p}) \in Nat
    BY FS_CardinalityType
  <2>2. QED
    BY <1>3, <2>1
<1>7. QED
  BY <1>3, <1>4, <1>5, <1>6 DEF D

\* When nothing else runs nothing is owed.
LEMMA NothingOwed ==
    ASSUME NEW p \in Procs, NEW s, NEW out, "idle" \in out,
           pc \in [Procs -> Steps], pc' = [pc EXCEPT ![p] = s],
           \A q \in Procs : pc[q] = "idle"
    PROVE  IsFiniteSet(Creditors(p, out)') /\ Owed(p, out)' = 0
<1>1. Creditors(p, out)' = {}
  BY DEF Creditors
<1>2. QED
  BY <1>1, FS_EmptySet DEF Owed

\* A step that announces nothing and clears no flag costs nothing, ...
LEMMA QuietPaid ==
    ASSUME TInv, AlertsPaid, NEW p \in Procs, NEW s \in Steps,
           pc' = [pc EXCEPT ![p] = s], pc[p] \notin Spent,
           s = "alerting" => ~flag,
           p = Authoriser => /\ s # "flagging"
                             /\ pc[p] \in {"exchanged", "storing"} => s \in {"idle", "storing"},
           UNCHANGED <<flag, alerts, excuses>>
    PROVE  AlertsPaid'
<1>1. PICK f \in Procs : AlertAccount(f)
  BY DEF AlertsPaid
<1>2. /\ IsFiniteSet(Creditors(f, Spent)') /\ Owed(f, Spent) \in Nat /\ Owed(f, Spent)' \in Nat
      /\ Owed(f, Spent)' <= Owed(f, Spent)
  BY <1>1, OwedMoves DEF TInv, ProcessOK, AlertAccount
<1>3. alerts \in Nat /\ excuses \in Nat
  BY DEF TInv, SharedOK
<1>4. pc'[f] = (IF f = p THEN s ELSE pc[f])
  BY DEF TInv, ProcessOK
<1>5. CASE alerts + Owed(f, Spent) <= excuses
  BY <1>1, <1>2, <1>3, <1>5 DEF AlertsPaid, AlertAccount
<1>6. CASE /\ alerts + Owed(f, Spent) <= excuses + 1
           /\ flag \/ pc[f] = "flagging"
           /\ pc[f] # "alerting"
           /\ f = Authoriser => pc[f] \in {"idle", "exchanged", "storing"}
  <2>1. /\ flag' \/ pc'[f] = "flagging"
        /\ pc'[f] # "alerting"
        /\ f = Authoriser => pc'[f] \in {"idle", "exchanged", "storing"}
    BY <1>4, <1>6 DEF Spent
  <2>2. /\ alerts' + Owed(f, Spent)' <= excuses' + 1 /\ Owed(f, Spent)' <= excuses'
    BY <1>1, <1>2, <1>3, <1>6 DEF AlertAccount
  <2>3. QED
    BY <1>2, <2>1, <2>2 DEF AlertsPaid, AlertAccount
<1>7. QED
  BY <1>1, <1>5, <1>6 DEF AlertAccount

\* ... and a fault pays for what it hides.
LEMMA FaultPaid ==
    ASSUME TInv, AlertsPaid, NEW p \in Procs, pc' = [pc EXCEPT ![p] = "idle"],
           excuses' = excuses + 1,
           \/ alerts' = alerts
           \/ pc[p] = "alerting" /\ alerts' = alerts + 1
    PROVE  AlertsPaid'
<1>1. PICK f \in Procs : AlertAccount(f)
  BY DEF AlertsPaid
<1>2. /\ IsFiniteSet(Creditors(f, Spent)') /\ Owed(f, Spent) \in Nat /\ Owed(f, Spent)' \in Nat
      /\ Owed(f, Spent)' <= Owed(f, Spent)
      /\ pc[p] = "alerting" /\ p # f => Owed(f, Spent)' = Owed(f, Spent) - 1
  BY <1>1, OwedMoves DEF TInv, ProcessOK, AlertAccount, Spent
<1>3. alerts \in Nat /\ excuses \in Nat
  BY DEF TInv, SharedOK
<1>4. alerts' + Owed(f, Spent)' <= excuses' /\ Owed(f, Spent)' <= excuses'
  <2>1. CASE p # f \/ alerts' = alerts
    BY <1>1, <1>2, <1>3, <2>1 DEF AlertAccount
  <2>2. CASE p = f /\ pc[p] = "alerting" /\ alerts' = alerts + 1
    BY <1>1, <1>2, <1>3, <2>2 DEF AlertAccount
  <2>3. QED
    BY <2>1, <2>2
<1>5. QED
  BY <1>2, <1>4 DEF AlertsPaid, AlertAccount

\* What clears the flag, or follows a success, is a run that had not used its excuse.
LEMMA ClearedPaid ==
    ASSUME TInv, AlertsPaid, NEW p \in Procs, NEW s \in Spent,
           pc' = [pc EXCEPT ![p] = s], pc[p] = "done",
           \/ alerts' = 0 /\ excuses' \in {excuses, excuses + 1}
           \/ alerts' = alerts /\ excuses' = excuses + (IF flag THEN 1 ELSE 0)
           \/ alerts' = alerts /\ excuses' = excuses /\ p = Authoriser
    PROVE  AlertsPaid'
<1>1. PICK f \in Procs : AlertAccount(f)
  BY DEF AlertsPaid
<1>2. /\ IsFiniteSet(Creditors(f, Spent)') /\ Owed(f, Spent) \in Nat /\ Owed(f, Spent)' \in Nat
      /\ Owed(f, Spent)' <= Owed(f, Spent)
      /\ p # f => Owed(f, Spent)' = Owed(f, Spent) - 1
  BY <1>1, OwedMoves DEF TInv, ProcessOK, AlertAccount, Spent
<1>3. alerts \in Nat /\ excuses \in Nat
  BY DEF TInv, SharedOK
<1>4. alerts' + Owed(f, Spent)' <= excuses' /\ Owed(f, Spent)' <= excuses'
  <2>1. CASE alerts' = 0
    BY <1>1, <1>2, <1>3, <2>1 DEF AlertAccount
  <2>2. CASE p # f /\ alerts' = alerts
    BY <1>1, <1>2, <1>3, <2>2 DEF AlertAccount
  <2>3. CASE p = f /\ alerts' = alerts
    BY <1>1, <1>2, <1>3, <2>3 DEF AlertAccount
  <2>4. QED
    BY <2>1, <2>2, <2>3
<1>5. QED
  BY <1>2, <1>4 DEF AlertsPaid, AlertAccount

\* A run that begins alone is the one without an excuse; another brings its own.
LEMMA BegunPaid ==
    ASSUME TInv, AlertsPaid, NEW p \in Procs, Began(p),
           NEW s \in {"refused", "waiting", "done", "exchanged"},
           pc' = [pc EXCEPT ![p] = s], p = Authoriser => s = "exchanged",
           UNCHANGED <<flag, alerts>>
    PROVE  AlertsPaid'
<1>1. PICK f \in Procs : AlertAccount(f)
  BY DEF AlertsPaid
<1>2. alerts \in Nat /\ excuses \in Nat /\ pc[p] = "idle" /\ pc \in [Procs -> Steps]
  BY DEF TInv, SharedOK, ProcessOK, Began
<1>3. CASE \E q \in Procs : pc[q] # "idle"
  <2>1. excuses' = excuses + 1
    BY <1>3 DEF Began
  <2>2. /\ IsFiniteSet(Creditors(f, Spent)') /\ Owed(f, Spent) \in Nat /\ Owed(f, Spent)' \in Nat
        /\ Owed(f, Spent)' <= Owed(f, Spent) + 1
    BY <1>1, <1>2, OwedMoves DEF AlertAccount
  <2>3. pc'[f] = (IF f = p THEN s ELSE pc[f])
    BY <1>2
  <2>4. Owed(f, Spent)' <= excuses'
    BY <1>1, <1>2, <2>1, <2>2 DEF AlertAccount
  <2>5. CASE alerts + Owed(f, Spent) <= excuses
    BY <1>2, <2>1, <2>2, <2>4, <2>5 DEF AlertsPaid, AlertAccount
  <2>6. CASE /\ alerts + Owed(f, Spent) <= excuses + 1
             /\ flag \/ pc[f] = "flagging"
             /\ pc[f] # "alerting"
             /\ f = Authoriser => pc[f] \in {"idle", "exchanged", "storing"}
    <3>1. /\ flag' \/ pc'[f] = "flagging"
          /\ pc'[f] # "alerting"
          /\ f = Authoriser => pc'[f] \in {"idle", "exchanged", "storing"}
      BY <1>2, <2>3, <2>6
    <3>2. alerts' + Owed(f, Spent)' <= excuses' + 1
      BY <1>2, <2>1, <2>2, <2>6
    <3>3. QED
      BY <2>2, <2>4, <3>1, <3>2 DEF AlertsPaid, AlertAccount
  <2>7. QED
    BY <1>1, <2>5, <2>6 DEF AlertAccount
<1>4. CASE \A q \in Procs : pc[q] = "idle"
  <2>1. excuses' = excuses
    BY <1>2, <1>4 DEF Began
  <2>2. IsFiniteSet(Creditors(p, Spent)') /\ Owed(p, Spent)' = 0
    BY <1>2, <1>4, NothingOwed DEF Spent
  <2>3. Owed(f, Spent) \in Nat
    BY <1>1, FS_CardinalityType DEF AlertAccount, Owed
  <2>4. pc'[p] = s
    BY <1>2
  <2>5. \/ alerts <= excuses
        \/ alerts <= excuses + 1 /\ flag
    BY <1>1, <1>2, <1>4, <2>3 DEF AlertAccount
  <2>6. QED
    BY <1>2, <2>1, <2>2, <2>4, <2>5 DEF AlertsPaid, AlertAccount
<1>5. QED
  BY <1>3, <1>4

\* An announcement accepted is the first since the flag was cleared, or paid for; its flag follows.
LEMMA AlertPaid ==
    ASSUME TInv, AlertsPaid, NEW p \in Procs, pc[p] = "alerting",
           pc' = [pc EXCEPT ![p] = "flagging"], alerts' = alerts + 1, UNCHANGED <<flag, excuses>>,
           p # Authoriser
    PROVE  AlertsPaid'
<1>1. PICK f \in Procs : AlertAccount(f)
  BY DEF AlertsPaid
<1>2. /\ IsFiniteSet(Creditors(f, Spent)') /\ Owed(f, Spent) \in Nat /\ Owed(f, Spent)' \in Nat
      /\ p = f => Owed(f, Spent)' = Owed(f, Spent)
      /\ p # f => Owed(f, Spent)' = Owed(f, Spent) - 1
  BY <1>1, OwedMoves DEF TInv, ProcessOK, AlertAccount, Spent
<1>3. alerts \in Nat /\ excuses \in Nat
  BY DEF TInv, SharedOK
<1>4. pc'[f] = (IF f = p THEN "flagging" ELSE pc[f])
  BY DEF TInv, ProcessOK
<1>5. Owed(f, Spent)' <= excuses'
  BY <1>1, <1>2, <1>3 DEF AlertAccount
<1>6. CASE p = f
  <2>1. alerts' + Owed(f, Spent)' <= excuses' + 1
    BY <1>1, <1>2, <1>3, <1>6 DEF AlertAccount
  <2>2. QED
    BY <1>2, <1>4, <1>5, <1>6, <2>1 DEF AlertsPaid, AlertAccount
<1>7. CASE p # f
  <2>1. alerts' + Owed(f, Spent)' = alerts + Owed(f, Spent)
    BY <1>2, <1>3, <1>7
  <2>2. QED
    BY <1>1, <1>2, <1>4, <1>5, <1>7, <2>1 DEF AlertsPaid, AlertAccount
<1>8. QED
  BY <1>6, <1>7

\* Neither does the end of a run that has announced or warned.
LEMMA SpentPaid ==
    ASSUME TInv, AlertsPaid, NEW p \in Procs, pc[p] \in {"flagging", "warning"},
           pc' = [pc EXCEPT ![p] = "idle"], UNCHANGED <<alerts, excuses>>,
           flag' = (flag \/ pc[p] = "flagging")
    PROVE  AlertsPaid'
<1>1. PICK f \in Procs : AlertAccount(f)
  BY DEF AlertsPaid
<1>2. /\ IsFiniteSet(Creditors(f, Spent)') /\ Owed(f, Spent) \in Nat /\ Owed(f, Spent)' \in Nat
      /\ Owed(f, Spent)' <= Owed(f, Spent)
  BY <1>1, OwedMoves DEF TInv, ProcessOK, AlertAccount, Spent
<1>3. alerts \in Nat /\ excuses \in Nat
  BY DEF TInv, SharedOK
<1>4. pc'[f] = (IF f = p THEN "idle" ELSE pc[f])
  BY DEF TInv, ProcessOK
<1>5. Owed(f, Spent)' <= excuses' /\ alerts' + Owed(f, Spent)' <= alerts + Owed(f, Spent)
  BY <1>1, <1>2, <1>3 DEF AlertAccount
<1>6. CASE alerts + Owed(f, Spent) <= excuses
  BY <1>1, <1>2, <1>3, <1>5, <1>6 DEF AlertsPaid, AlertAccount
<1>7. CASE /\ alerts + Owed(f, Spent) <= excuses + 1
           /\ flag \/ pc[f] = "flagging"
           /\ pc[f] # "alerting"
           /\ f = Authoriser => pc[f] \in {"idle", "exchanged", "storing"}
  <2>1. flag' \/ pc'[f] = "flagging"
    <3>1. CASE f = p /\ pc[f] = "flagging"
      BY <3>1
    <3>2. CASE f # p /\ pc[f] = "flagging"
      BY <1>4, <3>2
    <3>3. CASE flag
      BY <3>3
    <3>4. QED
      BY <1>7, <3>1, <3>2, <3>3
  <2>2. /\ pc'[f] # "alerting"
        /\ f = Authoriser => pc'[f] \in {"idle", "exchanged", "storing"}
    BY <1>4, <1>7
  <2>3. alerts' + Owed(f, Spent)' <= excuses' + 1
    BY <1>2, <1>3, <1>5, <1>7
  <2>4. QED
    BY <1>2, <1>5, <2>1, <2>2, <2>3 DEF AlertsPaid, AlertAccount
<1>8. QED
  BY <1>1, <1>6, <1>7 DEF AlertAccount

\* A grant stored starts the account afresh.
LEMMA StoredPaid ==
    ASSUME TInv, AlertsPaid, NEW p \in Procs, pc[p] = "storing",
           pc' = [pc EXCEPT ![p] = "waiting"], alerts' = 0, UNCHANGED excuses
    PROVE  AlertsPaid'
<1>1. PICK f \in Procs : AlertAccount(f)
  BY DEF AlertsPaid
<1>2. /\ IsFiniteSet(Creditors(f, Spent)') /\ Owed(f, Spent) \in Nat /\ Owed(f, Spent)' \in Nat
      /\ Owed(f, Spent)' <= Owed(f, Spent)
  BY <1>1, OwedMoves DEF TInv, ProcessOK, AlertAccount, Spent
<1>3. excuses \in Nat
  BY DEF TInv, SharedOK
<1>4. QED
  BY <1>1, <1>2, <1>3 DEF AlertsPaid, AlertAccount

\* The authorisation announces nothing.
Apart == pc[Authoriser] \notin {"refused", "alerting", "flagging", "warning"}

\* It keeps to its steps.
LEMMA NextApart == TInv /\ Apart /\ [Next]_vars => Apart'
<1> SUFFICES ASSUME TInv, Apart, [Next]_vars
             PROVE  Apart'
  OBVIOUS
<1>1. ASSUME NEW p \in Procs, Acquire(p) \/ Step(p) \/ Crash(p)
      PROVE  Apart'
  <2>1. CASE p # Authoriser
    <3>1. PICK s : pc' = [pc EXCEPT ![p] = s]
      BY <1>1 DEF Acquire, Step, Load, Rotate, Refuse, Save, Request, Refused, Alert, Flag, Done,
                  Warn, Crash, GoTo, Raise, Exit
    <3>2. QED
      BY <2>1, <3>1 DEF TInv, ProcessOK, Apart, Procs
  <2>2. CASE p = Authoriser
    BY <1>1, <2>2, TokenAssumption
    DEF Acquire, Step, Load, Rotate, Refuse, Save, Request, Refused, Alert, Flag, Done,
        Warn, Crash, GoTo, Raise, Exit, TInv, ProcessOK, Apart, Procs
  <2>3. QED
    BY <2>1, <2>2
<1>2. ASSUME NEW p \in Pollers, NEW daylight \in BOOLEAN, Poll(p, daylight)
      PROVE  Apart'
  BY <1>2, TokenAssumption DEF Poll, GoTo, TInv, ProcessOK, Apart, Procs
<1>3. ASSUME NEW superseded \in BOOLEAN, Exchange(superseded)
      PROVE  Apart'
  BY <1>3 DEF Exchange, GoTo, TInv, ProcessOK, Apart, Procs
<1>4. CASE Authorised
  BY <1>4 DEF Authorised, Exit, GoTo, TInv, ProcessOK, Apart, Procs
<1>5. CASE UNCHANGED pc
  BY <1>5 DEF Apart
<1>6. QED
  BY <1>1, <1>2, <1>3, <1>4, <1>5 DEF Next, Expire, Age, Revoke, Rest, vars, process

\* Every announcement is the first, or paid for, whatever step is taken.
LEMMA NextPaid == TInv /\ Apart /\ AlertsPaid /\ [Next]_vars => AlertsPaid'
<1> SUFFICES ASSUME TInv, Apart, AlertsPaid, [Next]_vars
             PROVE  AlertsPaid'
  OBVIOUS
<1>a. CASE UNCHANGED <<pc, flag, alerts, excuses>>
  BY <1>a DEF AlertsPaid, AlertAccount, Owed, Creditors
<1>b. ASSUME NEW p \in Procs, NEW s \in {"idle", "refused"},
             pc[p] \in {"locked", "posting", "requesting", "refused", "alerting"},
             pc' = [pc EXCEPT ![p] = s], UNCHANGED <<flag, alerts, excuses>>
      PROVE  AlertsPaid'
  BY <1>b, QuietPaid DEF Steps, Spent
<1>1. ASSUME NEW p \in Procs, Acquire(p)
      PROVE  AlertsPaid'
  <2>1. PICK s \in {"locked", "storing"} : /\ pc' = [pc EXCEPT ![p] = s]
                                           /\ pc[p] = "exchanged" => s = "storing"
    BY <1>1 DEF Acquire, GoTo
  <2>2. pc[p] \in {"waiting", "exchanged"} /\ UNCHANGED <<flag, alerts, excuses>>
    BY <1>1 DEF Acquire, flags, history
  <2>3. QED
    BY <2>1, <2>2, QuietPaid DEF Steps, Spent
<1>2. ASSUME NEW p \in Procs, Load(p)
      PROVE  AlertsPaid'
  <2>1. pc[p] = "locked" /\ UNCHANGED <<flag, alerts, excuses>>
    BY <1>2 DEF Load, flags, history
  <2>2. PICK s \in {"idle", "refused", "posting", "requesting"} : pc' = [pc EXCEPT ![p] = s]
    BY <1>2, RaiseMoves DEF Load, GoTo, TInv
  <2>3. QED
    BY <2>1, <2>2, QuietPaid DEF Steps, Spent
<1>3. ASSUME NEW p \in Procs, Rotate(p)
      PROVE  AlertsPaid'
  <2>1. pc[p] = "posting" /\ UNCHANGED <<flag, alerts>>
    BY <1>3 DEF Rotate, flags, history
  <2>2. CASE GoTo(p, "saving") /\ UNCHANGED excuses
    BY <2>1, <2>2, QuietPaid DEF GoTo, Steps, Spent
  <2>3. CASE Fault /\ Raise(p, "api")
    BY <2>1, <2>3, FaultPaid DEF Fault, Raise, Exit, GoTo
  <2>4. QED
    BY <1>3, <2>2, <2>3 DEF Rotate, history
<1>4. ASSUME NEW p \in Procs, Refuse(p)
      PROVE  AlertsPaid'
  <2>1. pc[p] = "posting" /\ UNCHANGED <<flag, alerts, excuses>>
    BY <1>4 DEF Refuse, flags, history
  <2>2. PICK s \in {"idle", "refused"} : pc' = [pc EXCEPT ![p] = s]
    BY <1>4, RaiseMoves DEF Refuse, TInv
  <2>3. QED
    BY <1>b, <2>1, <2>2
<1>5. ASSUME NEW p \in Procs, Save(p)
      PROVE  AlertsPaid'
  <2>1. CASE pc[p] = "saving"
    <3>1. pc' = [pc EXCEPT ![p] = "requesting"] /\ UNCHANGED <<flag, alerts, excuses>>
      BY <1>5, <2>1 DEF Save, GoTo, flags
    <3>2. QED
      BY <2>1, <3>1, QuietPaid DEF Steps, Spent
  <2>2. CASE pc[p] = "storing"
    BY <1>5, <2>2, StoredPaid DEF Save, GoTo
  <2>3. QED
    BY <1>5, <2>1, <2>2 DEF Save
<1>6. ASSUME NEW p \in Procs, Request(p)
      PROVE  AlertsPaid'
  <2>1. pc[p] = "requesting" /\ UNCHANGED <<flag, alerts, excuses>>
    BY <1>6 DEF Request, flags, history
  <2>2. PICK s \in {"idle", "refused", "waiting", "done"} : pc' = [pc EXCEPT ![p] = s]
    BY <1>6 DEF Request, GoTo, Raise, Exit
  <2>3. QED
    BY <2>1, <2>2, QuietPaid DEF Steps, Spent
<1>7. ASSUME NEW p \in Procs, Refused(p)
      PROVE  AlertsPaid'
  <2>1. pc[p] = "refused" /\ UNCHANGED <<flag, alerts, excuses>>
    BY <1>7 DEF Refused, flags, history
  <2>2. CASE Exit(p)
    BY <1>b, <2>1, <2>2 DEF Exit, GoTo
  <2>3. CASE ~flag /\ GoTo(p, "alerting")
    BY <2>1, <2>3, QuietPaid DEF GoTo, Steps, Spent
  <2>4. QED
    BY <1>7, <2>2, <2>3 DEF Refused, Quiet
<1>8. ASSUME NEW p \in Procs, Alert(p)
      PROVE  AlertsPaid'
  <2>1. pc[p] = "alerting" /\ UNCHANGED flag /\ p # Authoriser
    BY <1>8 DEF Alert, flags, Apart
  <2>2. CASE alerts' = alerts + 1 /\ GoTo(p, "flagging") /\ UNCHANGED excuses
    BY <2>1, <2>2, AlertPaid DEF GoTo
  <2>3. CASE Exit(p) /\ UNCHANGED <<alerts, excuses>>
    BY <1>b, <2>1, <2>3 DEF Exit, GoTo
  <2>4. CASE alerts' = alerts + 1 /\ Fault /\ Exit(p)
    BY <2>1, <2>4, FaultPaid DEF Fault, Exit, GoTo
  <2>5. QED
    BY <1>8, <2>2, <2>3, <2>4 DEF Alert
<1>9. ASSUME NEW p \in Procs, Flag(p)
      PROVE  AlertsPaid'
  BY <1>9, SpentPaid DEF Flag, Exit, GoTo, history
<1>10. ASSUME NEW p \in Procs, Done(p)
       PROVE  AlertsPaid'
  <2>1. PICK s \in Spent : pc' = [pc EXCEPT ![p] = s]
    BY <1>10 DEF Done, Exit, GoTo, Spent
  <2>2. /\ pc[p] = "done" /\ gets[p] \in Nat
        /\ alerts' = IF gets[p] > 0 THEN 0 ELSE alerts
        /\ excuses' = excuses + IF gets[p] = 0 /\ flag THEN 1 ELSE 0
    BY <1>10 DEF Done, TInv, ProcessOK
  <2>3. alerts \in Nat /\ excuses \in Nat
    BY DEF TInv, SharedOK
  <2>4. \/ alerts' = 0 /\ excuses' \in {excuses, excuses + 1}
        \/ alerts' = alerts /\ excuses' = excuses + (IF flag THEN 1 ELSE 0)
    BY <2>2, <2>3
  <2>5. QED
    BY <2>1, <2>2, <2>4, ClearedPaid
<1>11. ASSUME NEW p \in Procs, Warn(p)
       PROVE  AlertsPaid'
  <2>1. pc[p] = "warning" /\ pc' = [pc EXCEPT ![p] = "idle"] /\ UNCHANGED <<flag, alerts>>
    BY <1>11 DEF Warn, Exit, GoTo
  <2>2. CASE UNCHANGED excuses
    <3>1. flag \in BOOLEAN
      BY DEF TInv, SharedOK
    <3>2. QED
      BY <2>1, <2>2, <3>1, SpentPaid
  <2>3. CASE Fault
    BY <2>1, <2>3, FaultPaid DEF Fault
  <2>4. QED
    BY <1>11, <2>2, <2>3 DEF Warn
<1>12. ASSUME NEW p \in Procs, Crash(p)
       PROVE  AlertsPaid'
  BY <1>12, FaultPaid DEF Crash, Fault, Exit, GoTo
<1>13. ASSUME NEW p \in Pollers, NEW daylight \in BOOLEAN, Poll(p, daylight)
       PROVE  AlertsPaid'
  <2>1. p \in Procs /\ p # Authoriser /\ Began(p) /\ UNCHANGED <<flag, alerts>>
    BY <1>13, TokenAssumption DEF Poll, Procs, flags
  <2>2. PICK s \in {"refused", "waiting", "done"} : pc' = [pc EXCEPT ![p] = s]
    BY <1>13 DEF Poll, GoTo
  <2>3. QED
    BY <2>1, <2>2, BegunPaid
<1>14. ASSUME NEW superseded \in BOOLEAN, Exchange(superseded)
       PROVE  AlertsPaid'
  BY <1>14, BegunPaid DEF Exchange, GoTo, Procs, flags
<1>15. CASE Authorised
  <2>1. Authoriser \in Procs /\ pc[Authoriser] = "done" /\ UNCHANGED <<alerts, excuses>>
    BY <1>15 DEF Authorised, Procs, history
  <2>2. pc' = [pc EXCEPT ![Authoriser] = "idle"] /\ "idle" \in Spent
    BY <1>15 DEF Authorised, Exit, GoTo, Spent
  <2>3. QED
    BY <2>1, <2>2, ClearedPaid
<1>16. QED
  BY <1>a, <1>1, <1>2, <1>3, <1>4, <1>5, <1>6, <1>7, <1>8, <1>9, <1>10, <1>11, <1>12, <1>13,
     <1>14, <1>15
  DEF Next, Step, Expire, Age, Revoke, Rest, vars, flags, process, history

-----------------------------------------------------------------------------

\* A run goes on or ends without a warning, and a run that is to warn is about the file's
\* grant, which nobody was told of.
GoesOn(p, s) ==
    /\ pc[p] # "idle" /\ pc' = [pc EXCEPT ![p] = s]
    /\ \A q \in Procs \ {p} : pair'[q] = pair[q]
    /\ UNCHANGED warnings /\ excuses' \in {excuses, excuses + 1}
    /\ s = "warning" => Unwarned /\ pair'[p] = file /\ UNCHANGED file

\* A run begins.
Starts(p, s) ==
    /\ Began(p) /\ pc' = [pc EXCEPT ![p] = s] /\ s # "warning"
    /\ \A q \in Procs \ {p} : pair'[q] = pair[q]
    /\ UNCHANGED warnings

\* That is all there is, for the warnings.
LEMMA WarningSteps ==
    ASSUME TInv, [Next]_vars
    PROVE  \/ UNCHANGED <<pc, pair, warnings, excuses>>
           \/ \E p \in Procs : Warn(p)
           \/ \E p \in Procs, s \in Steps : GoesOn(p, s) \/ Starts(p, s)
<1> USE DEF TInv
<1>1. ASSUME NEW p \in Procs, Acquire(p) \/ Load(p) \/ Rotate(p) \/ Refuse(p) \/ Save(p)
      PROVE  \E s \in Steps : GoesOn(p, s)
  <2>1. /\ pc[p] # "idle" /\ UNCHANGED warnings
        /\ excuses' \in {excuses, excuses + 1}
    BY <1>1 DEF Acquire, Load, Rotate, Refuse, Save, Fault, history
  <2>2. \A q \in Procs \ {p} : pair'[q] = pair[q]
    BY <1>1, ExitMoves, RaiseMoves DEF Acquire, Load, Rotate, Refuse, Save, ProcessOK
  <2>3. \E s \in Steps \ {"warning"} : pc' = [pc EXCEPT ![p] = s]
    BY <1>1, RaiseMoves DEF Acquire, Load, Rotate, Refuse, Save, GoTo, Steps
  <2>4. QED
    BY <2>1, <2>2, <2>3 DEF GoesOn
<1>2. ASSUME NEW p \in Procs, Request(p) \/ Refused(p) \/ Alert(p) \/ Flag(p) \/ Crash(p)
      PROVE  \E s \in Steps : GoesOn(p, s)
  <2>1. /\ pc[p] # "idle" /\ UNCHANGED warnings
        /\ excuses' \in {excuses, excuses + 1}
    BY <1>2 DEF Request, Refused, Alert, Flag, Crash, Fault, history
  <2>2. \A q \in Procs \ {p} : pair'[q] = pair[q]
    BY <1>2, ExitMoves, RaiseMoves DEF Request, Refused, Alert, Flag, Crash, ProcessOK
  <2>3. \E s \in Steps \ {"warning"} : pc' = [pc EXCEPT ![p] = s]
    BY <1>2, ExitMoves, RaiseMoves DEF Request, Refused, Alert, Flag, Crash, GoTo, Steps
  <2>4. QED
    BY <2>1, <2>2, <2>3 DEF GoesOn
<1>3. ASSUME NEW p \in Procs, Done(p)
      PROVE  \E s \in Steps : GoesOn(p, s)
  <2>1. pc[p] = "done" /\ UNCHANGED <<warnings, file>>
    BY <1>3 DEF Done, disk
  <2>2. excuses' \in {excuses, excuses + 1}
    BY <1>3 DEF Done, SharedOK
  <2>3. CASE Exit(p)
    BY <2>1, <2>2, <2>3, ExitMoves DEF GoesOn, Steps
  <2>4. CASE Unwarned /\ GoTo(p, "warning") /\ pair' = [pair EXCEPT ![p] = file]
    BY <2>1, <2>2, <2>4 DEF GoesOn, Steps, GoTo, ProcessOK
  <2>5. QED
    BY <1>3, <2>3, <2>4 DEF Done
<1>4. ASSUME NEW p \in Pollers, NEW d \in BOOLEAN, Poll(p, d)
      PROVE  p \in Procs /\ \E s \in Steps : Starts(p, s)
  BY <1>4 DEF Poll, GoTo, Steps, Procs, Starts
<1>5. ASSUME NEW d \in BOOLEAN, Exchange(d)
      PROVE  \E p \in Procs, s \in Steps : Starts(p, s)
  BY <1>5 DEF Exchange, GoTo, Steps, Procs, Starts, ProcessOK
<1>6. CASE Authorised
  BY <1>6, ExitMoves DEF Authorised, GoesOn, Steps, Procs, history
<1>7. QED
  BY <1>1, <1>2, <1>3, <1>4, <1>5, <1>6
  DEF Next, Step, Expire, Age, Revoke, Rest, vars, process, history

\* Nobody revives a grant that is ending.
LEMMA EndingStays == [Next]_vars => ending \subseteq ending'
  BY DEF Next, Step, Expire, Age, Revoke, Acquire, Load, Rotate, Refuse, Save, Request, Refused,
         Alert, Flag, Done, Warn, Crash, Poll, Exchange, Authorised, Rest, vars, vendor

\* Warnings stay about grants that are ending, ...
LEMMA NextWarned ==
    ASSUME IInv, IInv', WarnsOfEnding, [Next]_vars
    PROVE  WarnsOfEnding'
<1>1. /\ file \in Pairs \cup {NoPair} /\ file' \in Pairs \cup {NoPair}
      /\ pc \in [Procs -> Steps]
      /\ \A p \in Procs : pc[p] = "warning" => pair[p] \in Pairs
  BY DEF IInv, TInv, SharedOK, ProcessOK, PairHeld
<1>2. file # NoPair => file' # NoPair /\ file'.grant >= file.grant
  BY StepMovesOn
<1>3. file # NoPair => file.grant \in Grants /\ file'.grant \in Grants
  BY <1>1, <1>2 DEF Pairs
<1>4. SUFFICES ASSUME NEW q \in Procs, pc'[q] = "warning"
               PROVE  file' # NoPair /\ pair'[q].grant <= file'.grant /\ pair'[q].grant \in ending'
  BY DEF WarnsOfEnding
<1>5. CASE pc[q] = "warning" /\ pair'[q] = pair[q]
  <2>1. file # NoPair /\ pair[q].grant <= file.grant /\ pair[q].grant \in ending
    BY <1>5 DEF WarnsOfEnding
  <2>2. pair[q].grant \in Grants
    BY <1>1, <1>5 DEF Pairs
  <2>3. QED
    BY <1>2, <1>3, <1>5, <2>1, <2>2, EndingStays DEF Grants
<1>6. CASE Unwarned /\ pair'[q] = file /\ UNCHANGED file
  BY <1>3, <1>6, EndingStays DEF Unwarned, Ending, Grants
<1>7. CASE UNCHANGED <<pc, pair, warnings, excuses>>
  BY <1>4, <1>5, <1>7
<1>8. ASSUME NEW p \in Procs, Warn(p)
      PROVE  pc[q] = "warning" /\ pair'[q] = pair[q]
  BY <1>1, <1>4, <1>8, ExitMoves DEF Warn, IInv, TInv
<1>9. ASSUME NEW p \in Procs, NEW s \in Steps, GoesOn(p, s) \/ Starts(p, s)
      PROVE  \/ pc[q] = "warning" /\ pair'[q] = pair[q]
             \/ Unwarned /\ pair'[q] = file /\ UNCHANGED file
  BY <1>1, <1>4, <1>9 DEF GoesOn, Starts
<1>10. QED
  BY <1>5, <1>6, <1>7, <1>8, <1>9, WarningSteps DEF IInv

\* ... and one that has been given is not due again.
LEMMA ToldStays ==
    ASSUME IInv, IInv', [Next]_vars, NEW g \in Grants, ToldOf(g)
    PROVE  ToldOf(g)'
<1>1. file # NoPair /\ file' # NoPair /\ file'.grant >= file.grant /\ g \in ending'
  BY StepMovesOn, EndingStays DEF ToldOf
<1>2. file.grant \in Nat /\ file'.grant \in Nat /\ g \in Nat
  <2>1. file \in Pairs \cup {NoPair} /\ file' \in Pairs \cup {NoPair}
    BY DEF IInv, TInv, SharedOK
  <2>2. \A t \in Pairs : t.grant \in Grants
    BY DEF Pairs
  <2>3. \A h \in Grants : h \in Nat
    BY DEF Grants
  <2>4. QED
    BY <1>1, <2>1, <2>2, <2>3
<1>3. file.grant = g /\ warned => warned'
  BY DEF Next, Step, Expire, Age, Revoke, Acquire, Load, Rotate, Refuse, Save, Request, Refused,
         Alert, Flag, Done, Warn, Crash, Poll, Exchange, Authorised, Rest, vars, flags, ToldOf,
         Ending
<1>4. file.grant > g \/ (file.grant = g /\ warned)
  BY DEF ToldOf
<1>5. file'.grant > g \/ (file'.grant = g /\ warned')
  BY <1>1, <1>2, <1>3, <1>4
<1>6. QED
  BY <1>1, <1>5 DEF ToldOf

\* A warning accepted is the first about its grant, or paid for.
LEMMA WarnPaid ==
    ASSUME IInv, IInv', WarnsOfEnding, [Next]_vars, NEW g \in Grants, NEW f \in Procs,
           WarningAccount(g, f), NEW p \in Procs, Warn(p)
    PROVE  WarningAccount(g, f)'
<1> DEFINE owed == Owed(f, {"idle"})
           owed2 == Owed(f, {"idle"})'
<1>1. /\ pc[p] = "warning" /\ pc' = [pc EXCEPT ![p] = "idle"]
      /\ \A q \in Procs \ {p} : pair'[q] = pair[q]
      /\ UNCHANGED <<file, ending>>
  BY ExitMoves DEF Warn, Exit, GoTo, disk, vendor, IInv, TInv
<1>2. /\ IsFiniteSet(Creditors(f, {"idle"})') /\ owed \in Nat /\ owed2 \in Nat
      /\ p = f => owed2 = owed
      /\ p # f => owed2 = owed - 1
  BY <1>1, OwedMoves DEF IInv, TInv, ProcessOK, WarningAccount
<1> HIDE DEF owed, owed2
<1>3. /\ warnings \in [Grants -> Nat] /\ excuses \in Nat /\ pair[p] \in Pairs
      /\ pc \in [Procs -> Steps]
  BY <1>1 DEF IInv, TInv, SharedOK, ProcessOK, PairHeld
<1>4. /\ pair[p].grant \in Grants
      /\ file # NoPair /\ pair[p].grant <= file.grant /\ pair[p].grant \in ending
  BY <1>1, <1>3 DEF WarnsOfEnding, Pairs
<1>5. \/ UNCHANGED <<warnings, excuses>>
      \/ warnings' = [warnings EXCEPT ![pair[p].grant] = @ + 1] /\ warned' /\ UNCHANGED excuses
      \/ warnings' = [warnings EXCEPT ![pair[p].grant] = @ + 1] /\ excuses' = excuses + 1
  BY DEF Warn, Fault
<1>6. pc'[f] = "warning" => p # f /\ pc[f] = "warning" /\ pair'[f] = pair[f]
  BY <1>1, <1>3
<1>7. CASE warnings[g] + owed <= excuses
  <2>1. CASE p # f \/ pair[p].grant # g \/ excuses' = excuses + 1 \/ UNCHANGED <<warnings, excuses>>
    <3>1. warnings'[g] + owed2 <= excuses'
      BY <1>2, <1>3, <1>4, <1>5, <1>7, <2>1
    <3>2. QED
      BY <1>2, <3>1 DEF WarningAccount, owed2
  <2>2. CASE p = f /\ pair[p].grant = g /\ warned' /\ UNCHANGED excuses
    <3>1. ToldOf(g)'
      <4>1. file.grant \in Nat /\ g \in Nat
        BY <1>4 DEF IInv, TInv, SharedOK, Pairs, Grants
      <4>2. QED
        BY <1>1, <1>4, <2>2, <4>1 DEF ToldOf
    <3>2. warnings'[g] + owed2 <= excuses' + 1
      BY <1>2, <1>3, <1>4, <1>5, <1>7, <2>2
    <3>3. QED
      BY <1>2, <1>6, <2>2, <3>1, <3>2 DEF WarningAccount, owed2
  <2>3. QED
    BY <1>5, <2>1, <2>2
<1>8. CASE /\ warnings[g] + owed <= excuses + 1
           /\ ToldOf(g)
           /\ ~(pc[f] = "warning" /\ pair[f].grant = g)
  <2>1. warnings'[g] + owed2 <= excuses' + 1
    BY <1>1, <1>2, <1>3, <1>4, <1>5, <1>8
  <2>2. ToldOf(g)' /\ ~(pc'[f] = "warning" /\ pair'[f].grant = g)
    BY <1>6, <1>8, ToldStays
  <2>3. QED
    BY <1>2, <2>1, <2>2 DEF WarningAccount, owed2
<1>9. QED
  BY <1>7, <1>8 DEF WarningAccount, owed

\* A run that goes on or ends costs nothing.
LEMMA GoesOnPaid ==
    ASSUME IInv, IInv', [Next]_vars, NEW g \in Grants, NEW f \in Procs,
           WarningAccount(g, f), NEW p \in Procs, NEW s \in Steps, GoesOn(p, s)
    PROVE  WarningAccount(g, f)'
<1>1. /\ pc[p] # "idle" /\ pc' = [pc EXCEPT ![p] = s] /\ UNCHANGED warnings
      /\ \A q \in Procs \ {p} : pair'[q] = pair[q]
      /\ excuses' \in {excuses, excuses + 1}
  BY DEF GoesOn
<1>2. /\ IsFiniteSet(Creditors(f, {"idle"})')
      /\ Owed(f, {"idle"}) \in Nat /\ Owed(f, {"idle"})' \in Nat
      /\ Owed(f, {"idle"})' <= Owed(f, {"idle"})
  BY <1>1, OwedMoves DEF IInv, TInv, ProcessOK, WarningAccount
<1>3. warnings[g] \in Nat /\ warnings'[g] = warnings[g] /\ excuses \in Nat
  BY <1>1 DEF IInv, TInv, SharedOK
<1>4. CASE warnings[g] + Owed(f, {"idle"}) <= excuses
  <2>1. warnings'[g] + Owed(f, {"idle"})' <= excuses'
    BY <1>1, <1>2, <1>3, <1>4
  <2>2. QED
    BY <1>2, <2>1 DEF WarningAccount
<1>5. CASE /\ warnings[g] + Owed(f, {"idle"}) <= excuses + 1
           /\ ToldOf(g)
           /\ ~(pc[f] = "warning" /\ pair[f].grant = g)
  <2>1. warnings'[g] + Owed(f, {"idle"})' <= excuses' + 1
    BY <1>1, <1>2, <1>3, <1>5
  <2>2. ~(pc'[f] = "warning" /\ pair'[f].grant = g)
    <3>1. CASE f = p
      <4>1. s = "warning" => pair'[f] = file /\ file # NoPair /\ ~warned
        BY <3>1 DEF GoesOn, Unwarned, Ending
      <4>2. file # NoPair => file.grant \in Nat /\ g \in Nat
        BY DEF IInv, TInv, SharedOK, Pairs, Grants
      <4>3. pc'[f] = s
        BY <1>1, <3>1 DEF IInv, TInv, ProcessOK
      <4>4. file.grant = g => warned
        BY <1>5, <4>2 DEF ToldOf
      <4>5. QED
        BY <4>1, <4>3, <4>4
    <3>2. CASE f # p
      BY <1>1, <1>5, <3>2
    <3>3. QED
      BY <3>1, <3>2
  <2>3. QED
    BY <1>2, <1>5, <2>1, <2>2, ToldStays DEF WarningAccount
<1>6. QED
  BY <1>4, <1>5 DEF WarningAccount

\* Nor does one that begins: alone it is the one without an excuse.
LEMMA StartsPaid ==
    ASSUME IInv, IInv', [Next]_vars, NEW g \in Grants, NEW f \in Procs,
           WarningAccount(g, f), NEW p \in Procs, NEW s \in Steps, Starts(p, s)
    PROVE  \E h \in Procs : WarningAccount(g, h)'
<1>1. /\ pc[p] = "idle" /\ pc' = [pc EXCEPT ![p] = s] /\ UNCHANGED warnings /\ s # "warning"
      /\ \A q \in Procs \ {p} : pair'[q] = pair[q]
      /\ pc \in [Procs -> Steps]
  BY DEF Starts, Began, IInv, TInv, ProcessOK
<1>2. /\ IsFiniteSet(Creditors(f, {"idle"})')
      /\ Owed(f, {"idle"}) \in Nat /\ Owed(f, {"idle"})' \in Nat
      /\ Owed(f, {"idle"})' <= Owed(f, {"idle"}) + 1
  BY <1>1, OwedMoves DEF WarningAccount
<1>3. warnings[g] \in Nat /\ warnings'[g] = warnings[g] /\ excuses \in Nat
  BY <1>1 DEF IInv, TInv, SharedOK
<1>4. CASE \E q \in Procs : pc[q] # "idle"
  <2>1. excuses' = excuses + 1
    BY <1>4 DEF Starts, Began
  <2>2. CASE warnings[g] + Owed(f, {"idle"}) <= excuses
    <3>1. warnings'[g] + Owed(f, {"idle"})' <= excuses'
      BY <1>2, <1>3, <2>1, <2>2
    <3>2. QED
      BY <1>2, <3>1 DEF WarningAccount
  <2>3. CASE /\ warnings[g] + Owed(f, {"idle"}) <= excuses + 1
             /\ ToldOf(g)
             /\ ~(pc[f] = "warning" /\ pair[f].grant = g)
    <3>1. warnings'[g] + Owed(f, {"idle"})' <= excuses' + 1
      BY <1>2, <1>3, <2>1, <2>3
    <3>2. ~(pc'[f] = "warning" /\ pair'[f].grant = g)
      BY <1>1, <2>3
    <3>3. QED
      BY <1>2, <2>3, <3>1, <3>2, ToldStays DEF WarningAccount
  <2>4. QED
    BY <2>2, <2>3 DEF WarningAccount
<1>5. CASE \A q \in Procs : pc[q] = "idle"
  <2>1. excuses' = excuses
    BY <1>3, <1>5 DEF Starts, Began
  <2>2. IsFiniteSet(Creditors(p, {"idle"})') /\ Owed(p, {"idle"})' = 0
    BY <1>1, <1>5, NothingOwed
  <2>3. pc'[p] # "warning"
    BY <1>1
  <2>4. CASE warnings[g] <= excuses
    <3>1. warnings'[g] + Owed(p, {"idle"})' <= excuses'
      BY <1>3, <2>1, <2>2, <2>4
    <3>2. QED
      BY <2>2, <3>1 DEF WarningAccount
  <2>5. CASE warnings[g] <= excuses + 1 /\ ToldOf(g)
    <3>1. warnings'[g] + Owed(p, {"idle"})' <= excuses' + 1
      BY <1>3, <2>1, <2>2, <2>5
    <3>2. QED
      BY <2>2, <2>3, <2>5, <3>1, ToldStays DEF WarningAccount
  <2>6. QED
    BY <1>2, <1>3, <2>4, <2>5 DEF WarningAccount
<1>6. QED
  BY <1>4, <1>5

\* The flags and what they hold back, with the token's invariant.
FlagInv == IInv /\ Apart /\ AlertsPaid /\ WarnsOfEnding /\ WarningsPaid

\* Nothing announced, nothing owed.
LEMMA FlagInitInv == Init => FlagInv
<1> SUFFICES ASSUME Init
             PROVE  FlagInv
  OBVIOUS
<1>1. Authoriser \in Procs /\ \A p \in Procs : pc[p] = "idle"
  BY DEF Init, Procs
<1>2. \A out : "idle" \in out => Creditors(Authoriser, out) = {}
  BY <1>1 DEF Creditors
<1>3. \A out : "idle" \in out => IsFiniteSet(Creditors(Authoriser, out)) /\ Owed(Authoriser, out) = 0
  BY <1>2, FS_EmptySet DEF Owed
<1>4. AlertsPaid
  <2>1. IsFiniteSet(Creditors(Authoriser, Spent)) /\ Owed(Authoriser, Spent) = 0
    BY <1>3 DEF Spent
  <2>2. QED
    BY <1>1, <2>1 DEF Init, AlertsPaid, AlertAccount
<1>5. WarningsPaid
  <2>1. IsFiniteSet(Creditors(Authoriser, {"idle"})) /\ Owed(Authoriser, {"idle"}) = 0
    BY <1>3
  <2>2. QED
    BY <1>1, <2>1 DEF Init, WarningsPaid, WarningAccount
<1>6. QED
  BY <1>1, <1>4, <1>5, InitInv DEF FlagInv, Apart, WarnsOfEnding

\* Every step keeps the accounts.
LEMMA FlagNextInv == FlagInv /\ [Next]_vars => FlagInv'
<1> SUFFICES ASSUME FlagInv, [Next]_vars
             PROVE  FlagInv'
  OBVIOUS
<1> USE DEF FlagInv
<1>1. IInv'
  BY NextTyped, NextToken DEF IInv
<1>2. WarningsPaid'
  <2> SUFFICES ASSUME NEW g \in Grants
               PROVE  \E h \in Procs : WarningAccount(g, h)'
    BY DEF WarningsPaid
  <2>1. PICK f \in Procs : WarningAccount(g, f)
    BY DEF WarningsPaid
  <2>2. CASE UNCHANGED <<pc, pair, warnings, excuses>>
    <3>1. ToldOf(g) => ToldOf(g)'
      BY <1>1, ToldStays
    <3>2. WarningAccount(g, f)'
      BY <2>1, <2>2, <3>1 DEF WarningAccount, Creditors, Owed
    <3>3. QED
      BY <3>2
  <2>3. QED
    BY <1>1, <2>1, <2>2, WarnPaid, GoesOnPaid, StartsPaid, WarningSteps DEF IInv
<1>3. QED
  BY <1>1, <1>2, NextApart, NextPaid, NextWarned DEF IInv

\* The accounts hold in every state.
LEMMA FlagInvariance == Spec => []FlagInv
  BY FlagInitInv, FlagNextInv, PTL DEF Spec

\* A failure of the authorisation is announced once until access works again, but for
\* faults, overlapping runs and skipped runs (solaredge_poll.main's flag file).
THEOREM AnnouncedOnce == Spec => []AlertsExcused
<1>1. FlagInv => AlertsExcused
  <2> SUFFICES ASSUME FlagInv
               PROVE  AlertsExcused
    OBVIOUS
  <2>1. PICK f \in Procs : AlertAccount(f)
    BY DEF FlagInv, AlertsPaid
  <2>2. Owed(f, Spent) \in Nat /\ alerts \in Nat /\ excuses \in Nat
    BY <2>1, FS_CardinalityType DEF AlertAccount, Owed, FlagInv, IInv, TInv, SharedOK
  <2>3. QED
    BY <2>1, <2>2 DEF AlertAccount, AlertsExcused
<1>2. QED
  BY <1>1, FlagInvariance, PTL

\* The end of a grant is announced once, with the same exceptions (_warn_if_grant_ending).
THEOREM WarnedOnce == Spec => []WarningsExcused
<1>1. FlagInv => WarningsExcused
  <2> SUFFICES ASSUME FlagInv, NEW g \in Grants
               PROVE  warnings[g] <= 1 + excuses
    BY DEF WarningsExcused
  <2>1. PICK f \in Procs : WarningAccount(g, f)
    BY DEF FlagInv, WarningsPaid
  <2>2. Owed(f, {"idle"}) \in Nat /\ warnings[g] \in Nat /\ excuses \in Nat
    BY <2>1, FS_CardinalityType DEF WarningAccount, Owed, FlagInv, IInv, TInv, SharedOK
  <2>3. QED
    BY <2>1, <2>2 DEF WarningAccount
<1>2. QED
  BY <1>1, FlagInvariance, PTL
=============================================================================
