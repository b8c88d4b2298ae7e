--------------------------- MODULE SolarEdgeToken ---------------------------
(***************************************************************************)
(* Access to the SolarEdge API: the token file and its lock                *)
(* (src/src/solaredge_client.py), the poll that uses it and its two        *)
(* alert-once flag files (src/scripts/solaredge_poll.py), and the          *)
(* authorisation that replaces it (src/scripts/solaredge_authorize.py).    *)
(*                                                                         *)
(* The vendor's refresh token rotates at every refresh and the old one is  *)
(* dead at once, so what the file holds is worth as much as its last       *)
(* write.  Polls may overlap: the compose service loops, and an operator   *)
(* may poll or authorise at any moment.  A process may die anywhere, and   *)
(* any answer may be lost.                                                 *)
(*                                                                         *)
(* A pair is the grant it belongs to and its generation, the number of     *)
(* rotations so far.  Of time only what the code asks is kept: the pair on *)
(* file is within REFRESH_MARGIN_S of its end (due), or its grant within   *)
(* EXPIRY_WARN_DAYS of its own (ending).                                   *)
(***************************************************************************)
EXTENDS Integers, FiniteSets

CONSTANTS
    Pollers,     \* processes that may run solaredge_poll
    Authoriser,  \* the process that may run solaredge_authorize
    Nobody,      \* "the lock is free"
    NoPair,      \* "no token file"
    MaxGrants,   \* bound: authorisations
    MaxEnded,    \* bound: grants withdrawn, and grants that are ending
    MaxGets,     \* client.get calls of one poll: overview, power, energy
    MaxRuns,     \* bound: runs started
    MaxFaults    \* bound: processes that die, and answers lost

ASSUME TokenAssumption ==
    /\ Authoriser \notin Pollers
    /\ Nobody \notin Pollers \cup {Authoriser}
    /\ MaxGrants \in Nat
    /\ MaxEnded \in Nat
    /\ MaxGets \in Nat \ {0}
    /\ MaxRuns \in Nat
    /\ MaxFaults \in Nat

Procs == Pollers \cup {Authoriser}
Grants == 1..MaxGrants
Pairs == [grant : Grants, gen : Nat]

ASSUME NoPairAssumption == NoPair \notin Pairs

VARIABLES
    file,     \* the token pair on disk
    due,      \* it is too close to its expiry to be used
    lock,     \* who holds the lock file
    flag,     \* solaredge_auth_alerted exists
    warned,   \* solaredge_expiry_warned exists
    issued,   \* vendor: grants issued so far
    current,  \* vendor: [g] the generation whose refresh token is alive
    revoked,  \* vendor: grants that ended or were withdrawn
    ending,   \* grants with few days left
    pc,       \* [p] where p is
    pair,     \* [p] the pair p holds
    forced,   \* [p] the present get has had its 401
    gets,     \* [p] client.get calls finished
    sent,     \* [p] requests_made, while p's gets go on
    runs,     \* runs started
    faults,   \* history: faults so far
    lost,     \* history: grants that lost a rotation to a fault
    alerts,   \* history: alerts since a poll last succeeded or a grant was stored
    warnings, \* history: [g] expiry warnings delivered
    excuses   \* history: faults, overlapping runs, and skipped runs that cleared the flag

disk == <<file, due, lock>>
flags == <<flag, warned>>
vendor == <<issued, current, revoked, ending>>
process == <<pc, pair, forced, gets, sent>>
history == <<runs, faults, lost, alerts, warnings, excuses>>
vars == <<disk, flags, vendor, process, history>>

Steps == {"idle", "waiting", "locked", "posting", "saving", "requesting",
          "refused", "alerting", "flagging", "done", "warning", "exchanged", "storing"}

TypeOK ==
    /\ file \in Pairs \cup {NoPair}
    /\ due \in BOOLEAN
    /\ lock \in Procs \cup {Nobody}
    /\ flag \in BOOLEAN /\ warned \in BOOLEAN
    /\ issued \in 0..MaxGrants
    /\ current \in [Grants -> Nat]
    /\ revoked \subseteq Grants /\ ending \subseteq Grants
    /\ pc \in [Procs -> Steps]
    /\ pair \in [Procs -> Pairs \cup {NoPair}]
    /\ forced \in [Procs -> BOOLEAN]
    /\ gets \in [Procs -> 0..MaxGets]
    /\ sent \in [Procs -> 0..(2 * MaxGets)]
    /\ runs \in 0..MaxRuns
    /\ faults \in 0..MaxFaults
    /\ lost \subseteq Grants
    /\ alerts \in Nat /\ excuses \in Nat
    /\ warnings \in [Grants -> Nat]

\* Nothing is running; the site was authorised before, or never.
Init ==
    /\ due = FALSE /\ lock = Nobody
    /\ flag = FALSE /\ warned = FALSE
    /\ issued \in {0, 1} /\ issued <= MaxGrants
    /\ current = [g \in Grants |-> IF g <= issued THEN 1 ELSE 0]
    /\ file = IF issued = 0 THEN NoPair ELSE [grant |-> 1, gen |-> 1]
    /\ revoked = {} /\ ending = {}
    /\ pc = [p \in Procs |-> "idle"]
    /\ pair = [p \in Procs |-> NoPair]
    /\ forced = [p \in Procs |-> FALSE]
    /\ gets = [p \in Procs |-> 0]
    /\ sent = [p \in Procs |-> 0]
    /\ runs = 0 /\ faults = 0 /\ lost = {} /\ alerts = 0 /\ excuses = 0
    /\ warnings = [g \in Grants |-> 0]

-----------------------------------------------------------------------------
(***************************************************************************)
(* The vendor and the clock.                                               *)
(***************************************************************************)

Expire ==
    /\ due = FALSE /\ file # NoPair
    /\ due' = TRUE
    /\ UNCHANGED <<file, lock, flags, vendor, process, history>>

CanEnd(g) == g <= issued /\ Cardinality(revoked) + Cardinality(ending) < MaxEnded

Age(g) ==
    /\ CanEnd(g)
    /\ ending' = ending \cup {g}
    /\ UNCHANGED <<disk, flags, issued, current, revoked, process, history>>

Revoke(g) ==
    /\ CanEnd(g)
    /\ revoked' = revoked \cup {g}
    /\ UNCHANGED <<disk, flags, issued, current, ending, process, history>>

Alive(t) == t.grant \notin revoked /\ t.gen = current[t.grant]

Fault ==
    /\ faults < MaxFaults
    /\ faults' = faults + 1
    /\ excuses' = excuses + 1

-----------------------------------------------------------------------------
(***************************************************************************)
(* The client: access_token and get.                                       *)
(***************************************************************************)

GoTo(p, s) == pc' = [pc EXCEPT ![p] = s]

\* Mutation of Free: the lock is not exclusive (fcntl missing).
Free_Always(p) == TRUE

Free(p) == lock = Nobody

\* Mutation of Release: a way out of access_token that keeps the lock.
Release_Forgotten == lock' = lock

\* The end of "with store.locked()", also when an exception leaves it.
Release == lock' = Nobody

\* p has no call of the client on its stack any more, and makes no more requests.
Unwind(p) ==
    /\ pair' = [pair EXCEPT ![p] = NoPair]
    /\ forced' = [forced EXCEPT ![p] = FALSE]
    /\ gets' = [gets EXCEPT ![p] = 0]
    /\ sent' = [sent EXCEPT ![p] = 0]

\* The run of p is over: record_run, and the process exits.
Exit(p) == GoTo(p, "idle") /\ Unwind(p)

\* The except clauses of the two scripts: an authorisation error is the
\* poll's to announce; anything else ends the run, flags as they are.
Raise(p, error) ==
    IF error = "auth" /\ p \in Pollers
    THEN GoTo(p, "refused") /\ Unwind(p)
    ELSE Exit(p)

\* access_token: take the lock, ...
Acquire(p) ==
    /\ pc[p] \in {"waiting", "exchanged"}
    /\ Free(p)
    /\ lock' = p
    /\ GoTo(p, IF pc[p] = "waiting" THEN "locked" ELSE "storing")
    /\ UNCHANGED <<file, due, flags, vendor, pair, forced, gets, sent, history>>

\* ... read the pair, and use it as it is or refresh it with the lock held.
Load(p) ==
    /\ pc[p] = "locked"
    /\ \/ file = NoPair /\ Release /\ Raise(p, "auth")
       \/ /\ file # NoPair
          /\ pair' = [pair EXCEPT ![p] = file]
          /\ IF forced[p] \/ due
             THEN GoTo(p, "posting") /\ UNCHANGED lock
             ELSE GoTo(p, "requesting") /\ Release
          /\ UNCHANGED <<forced, gets, sent>>
    /\ UNCHANGED <<file, due, flags, vendor, history>>

\* _refresh_locked, the POST.  A token that is alive is rotated, and the
\* answer arrives, or is lost or unreadable.
Rotate(p) ==
    /\ pc[p] = "posting" /\ Alive(pair[p])
    /\ current' = [current EXCEPT ![pair[p].grant] = @ + 1]
    /\ \/ /\ pair' = [pair EXCEPT ![p].gen = @ + 1]
          /\ GoTo(p, "saving")
          /\ UNCHANGED <<lock, forced, gets, sent, history>>
       \/ /\ Fault
          /\ lost' = lost \cup {pair[p].grant}
          /\ Release /\ Raise(p, "api")
          /\ UNCHANGED <<runs, alerts, warnings>>
    /\ UNCHANGED <<file, due, flags, issued, revoked, ending>>

\* _post_token: a 400, whatever it is for, reads as a lost authorisation; so a
\* dead token is answered, and a live one may be.  Any other status, or a
\* request that never got there, is an error of the API.
Refuse(p) ==
    /\ pc[p] = "posting"
    /\ Release
    /\ \E error \in {"auth", "api"} : Raise(p, error)
    /\ UNCHANGED <<file, due, flags, vendor, history>>

\* Mutation of Written: the pair is kept in memory only.
Written_Nothing(p) == file

Written(p) == pair[p]

\* TokenStore.save, an atomic replace, and the end of the locked section: of
\* a refresh, or of exchange_code.
Save(p) ==
    /\ pc[p] \in {"saving", "storing"}
    /\ file' = Written(p)
    /\ due' = FALSE
    /\ Release
    /\ GoTo(p, IF pc[p] = "saving" THEN "requesting" ELSE "waiting")
    /\ alerts' = IF pc[p] = "saving" THEN alerts ELSE 0
    /\ UNCHANGED <<flags, vendor, pair, forced, gets, sent, runs, faults, lost, warnings, excuses>>

\* Mutation of Retried: every 401 is answered with a forced refresh.
Retried_Always(p) == TRUE

\* One forced refresh, then give up.
Retried(p) == ~forced[p]

\* _request and _parse: a 200 ends this get, and the run goes on to its next
\* one or is done; a 401 (at any time: a token may expire early) is retried
\* once, then it is the poll's to announce; a rate limit, an error or no
\* answer ends the run.  A request counts, whatever comes back.
Request(p) ==
    /\ pc[p] = "requesting"
    /\ \/ /\ pair[p].grant \notin revoked
          /\ gets' = [gets EXCEPT ![p] = @ + 1]
          /\ sent' = [sent EXCEPT ![p] = @ + 1]
          /\ forced' = [forced EXCEPT ![p] = FALSE]
          /\ pair' = [pair EXCEPT ![p] = NoPair]
          /\ \/ GoTo(p, "done")
             \/ p \in Pollers /\ gets[p] + 1 < MaxGets /\ GoTo(p, "waiting")
       \/ /\ Retried(p)
          /\ sent' = [sent EXCEPT ![p] = @ + 1]
          /\ forced' = [forced EXCEPT ![p] = TRUE]
          /\ GoTo(p, "waiting")
          /\ UNCHANGED <<pair, gets>>
       \/ ~Retried(p) /\ Raise(p, "auth")
       \/ Exit(p)
    /\ UNCHANGED <<disk, flags, vendor, history>>

-----------------------------------------------------------------------------
(***************************************************************************)
(* solaredge_poll.main.                                                    *)
(***************************************************************************)

Began(p) ==
    /\ pc[p] = "idle"
    /\ runs < MaxRuns
    /\ runs' = runs + 1
    /\ excuses' = excuses + IF \E q \in Procs : pc[q] # "idle" THEN 1 ELSE 0

\* The file is looked at without the lock first.  Outside daylight poll_once
\* returns without a call, which main treats like a success.
Poll(p, daylight) ==
    /\ Began(p)
    /\ GoTo(p, IF file = NoPair THEN "refused" ELSE IF daylight THEN "waiting" ELSE "done")
    /\ UNCHANGED <<disk, flags, vendor, pair, forced, gets, sent, faults, lost, alerts, warnings>>

\* Mutation of Quiet: the flag is never looked at.
Quiet_Never == FALSE

Quiet == flag

\* SolarEdgeAuthError: alert unless the flag is there.
Refused(p) ==
    /\ pc[p] = "refused"
    /\ IF Quiet THEN Exit(p)
       ELSE GoTo(p, "alerting") /\ UNCHANGED <<pair, forced, gets, sent>>
    /\ UNCHANGED <<disk, flags, vendor, history>>

\* send_message, and the flag only if it was accepted (a lost answer counts
\* as failed).
Alert(p) ==
    /\ pc[p] = "alerting"
    /\ \/ /\ alerts' = alerts + 1
          /\ GoTo(p, "flagging")
          /\ UNCHANGED <<pair, forced, gets, sent, faults, excuses>>
       \/ Exit(p) /\ UNCHANGED <<alerts, faults, excuses>>
       \/ alerts' = alerts + 1 /\ Fault /\ Exit(p)
    /\ UNCHANGED <<disk, flags, vendor, runs, lost, warnings>>

Flag(p) ==
    /\ pc[p] = "flagging"
    /\ flag' = TRUE
    /\ Exit(p)
    /\ UNCHANGED <<disk, warned, vendor, history>>

\* The grant on file has few days left.
Ending == file # NoPair /\ file.grant \in ending

\* Mutation of Unwarned: its flag is never looked at.
Unwarned_Again == Ending

\* ... and nobody has been told yet.
Unwarned == Ending /\ ~warned

\* poll_once returned: the flag is removed, the run recorded, and
\* _warn_if_grant_ending looks at the file (again without the lock).
Done(p) ==
    /\ pc[p] = "done" /\ p \in Pollers
    /\ flag' = FALSE
    /\ alerts' = IF gets[p] > 0 THEN 0 ELSE alerts
    /\ excuses' = excuses + IF gets[p] = 0 /\ flag THEN 1 ELSE 0
    /\ warned' = (warned /\ Ending)
    /\ IF Unwarned
       THEN /\ GoTo(p, "warning")
            /\ pair' = [pair EXCEPT ![p] = file]
            /\ UNCHANGED <<forced, gets, sent>>
       ELSE Exit(p)
    /\ UNCHANGED <<disk, vendor, runs, faults, lost, warnings>>

\* Its message, and its flag once it was accepted.
Warn(p) ==
    /\ pc[p] = "warning"
    /\ \/ /\ warnings' = [warnings EXCEPT ![pair[p].grant] = @ + 1]
          /\ warned' = TRUE
          /\ UNCHANGED <<faults, excuses>>
       \/ UNCHANGED <<warned, warnings, faults, excuses>>
       \/ /\ warnings' = [warnings EXCEPT ![pair[p].grant] = @ + 1]
          /\ Fault
          /\ UNCHANGED warned
    /\ Exit(p)
    /\ UNCHANGED <<disk, flag, vendor, runs, lost, alerts>>

-----------------------------------------------------------------------------
(***************************************************************************)
(* solaredge_authorize.main.                                               *)
(***************************************************************************)

\* The callback has come and exchange_code posts its code, without the lock:
\* the vendor issues a new grant (and may end the earlier ones).
Exchange(superseded) ==
    /\ Began(Authoriser)
    /\ issued < MaxGrants
    /\ issued' = issued + 1
    /\ current' = [current EXCEPT ![issued + 1] = 1]
    /\ revoked' = revoked \cup IF superseded THEN 1..issued ELSE {}
    /\ pair' = [pair EXCEPT ![Authoriser] = [grant |-> issued + 1, gen |-> 1]]
    /\ GoTo(Authoriser, "exchanged")
    /\ UNCHANGED <<disk, flags, ending, forced, gets, sent, faults, lost, alerts, warnings>>

\* The verifying call answered: the alert flag is re-armed.
Authorised ==
    /\ pc[Authoriser] = "done"
    /\ flag' = FALSE
    /\ Exit(Authoriser)
    /\ UNCHANGED <<disk, warned, vendor, history>>

-----------------------------------------------------------------------------
\* A process dies (or a write of its own fails): its lock is gone with it, and
\* so is a rotation that was not on file yet.
Crash(p) ==
    /\ pc[p] # "idle"
    /\ Fault
    /\ lock' = IF lock = p THEN Nobody ELSE lock
    /\ lost' = IF pc[p] = "saving" THEN lost \cup {pair[p].grant} ELSE lost
    /\ Exit(p)
    /\ UNCHANGED <<file, due, flags, vendor, runs, alerts, warnings>>

\* The bound on runs is reached; the service itself polls for ever.
Rest ==
    /\ runs = MaxRuns /\ \A p \in Procs : pc[p] = "idle"
    /\ UNCHANGED vars

Step(p) ==
    \/ Load(p) \/ Rotate(p) \/ Refuse(p) \/ Save(p) \/ Request(p)
    \/ Refused(p) \/ Alert(p) \/ Flag(p) \/ Done(p) \/ Warn(p)

Next ==
    \/ Expire
    \/ \E g \in Grants : Age(g) \/ Revoke(g)
    \/ \E p \in Procs : Acquire(p) \/ Step(p) \/ Crash(p)
    \/ \E p \in Pollers, daylight \in BOOLEAN : Poll(p, daylight)
    \/ \E superseded \in BOOLEAN : Exchange(superseded)
    \/ Authorised
    \/ Rest

Spec == Init /\ [][Next]_vars

\* Every call has a timeout, a running process goes on, and a process that
\* waits for the lock is not passed over for ever.
Fairness ==
    /\ \A p \in Procs : WF_vars(Step(p)) /\ SF_vars(Acquire(p))
    /\ WF_vars(Authorised)

FairSpec == Spec /\ Fairness

-----------------------------------------------------------------------------
(***************************************************************************)
(* Properties                                                              *)
(***************************************************************************)

\* Two processes never refresh from the same refresh token: one that is
\* about to be posted is the live one, however polls and an authorisation
\* overlap, unless a fault swallowed a rotation of that grant.
NoRaceKillsTheGrant ==
    \A p \in Procs :
        pc[p] = "posting" /\ pair[p].grant \notin lost
            => pair[p].gen = current[pair[p].grant]

\* A new pair is on file before its access token is used: of the grant on
\* file, no process uses a later generation than the file's.
UsedIsSaved ==
    \A p \in Procs :
        pc[p] = "requesting" => /\ file # NoPair
                                /\ pair[p].grant = file.grant => pair[p].gen <= file.gen
                                /\ pair[p].grant <= file.grant

\* A refresh in progress never undoes an authorisation, nor a refresh a later
\* one: the file only moves on.
FileMovesOn ==
    [][file # NoPair =>
          /\ file' # NoPair
          /\ file'.grant >= file.grant
          /\ file'.grant = file.grant => file'.gen >= file.gen]_vars

\* An authorisation failure is announced once until access works again: more
\* alerts only come from faults, overlapping runs, or skipped runs.
AlertsExcused == alerts <= 1 + excuses

\* A grant that is ending is announced once, under the same conditions.
WarningsExcused == \A g \in Grants : warnings[g] <= 1 + excuses

\* Every run ends: whoever waits for the lock gets it in the end.
EveryRunEnds == \A p \in Procs : pc[p] # "idle" ~> pc[p] = "idle"
=============================================================================
