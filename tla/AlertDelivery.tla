--------------------------- MODULE AlertDelivery ---------------------------
(***************************************************************************)
(* The delivery of alerts: src/src/alert_delivery.py, with the callers     *)
(* that drive it (runaway_detector.maybe_notify inside meter_poller, and   *)
(* health_monitor.maybe_notify inside scripts/health_check.py), Telegram's *)
(* possible answers, and the acknowledge route of the web process.         *)
(*                                                                         *)
(* An episode is a row of alert_episodes.  What its detector computes from *)
(* the meter is the environment here (signal); RunawayDetector computes    *)
(* it.  One notification is four steps of its caller, because the code     *)
(* reads the row, talks to the network for up to five seconds, and only    *)
(* then updates and commits: an acknowledgement may land, or the process   *)
(* may die, between any two of them.                                       *)
(*                                                                         *)
(* Time passes in quarters of an hour, the grain of BACKOFF_MINUTES; a     *)
(* send (at most REQUEST_TIMEOUT_SECONDS = 5) takes no time at this grain. *)
(***************************************************************************)
EXTENDS Integers

CONSTANTS
    Episodes,   \* rows of alert_episodes
    Callers,    \* the processes that notify: meter_poller, health_check
    Owner,      \* [Episodes -> Callers], who notifies for an episode
    Via,        \* [Episodes -> Kinds], the gate (or layer) that opens it
    NoEpisode,  \* "no notification in progress"
    MaxSends,   \* bound: messages delivered for one episode
    MaxFaults   \* bound: crashes and answers lost on the way back

Kinds == {"G", "T2-night", "T2-away", "health"}

ASSUME DeliveryAssumption ==
    /\ Owner \in [Episodes -> Callers]
    /\ Via \in [Episodes -> Kinds]
    /\ NoEpisode \notin Episodes
    /\ MaxSends \in Nat
    /\ MaxFaults \in Nat

VARIABLES
    signal,        \* [e] what e's detector would conclude if it ran now
    status,        \* [e] "none" (no row), "open", "ended" (ended_at set)
    acknowledged,  \* [e] acknowledged_at is set
    alert_count,   \* [e] alert_count
    age,           \* [e] minutes since last_alerted_at, counted until e is due
    notify_status, \* [e] notify_status
    at,            \* [c] where caller c is in a notification
    ep,            \* [c] the episode it notifies for
    answer,        \* [c] what send_message returned
    delivered,     \* [e] history: messages that reached the household
    late,          \* [e] history: those delivered after the acknowledgement
    silence,       \* [e] history: minutes since the last of them, counted up to Peace
    faults         \* history: crashes and lost answers so far

row == <<status, acknowledged, alert_count, age, notify_status>>
call == <<at, ep, answer>>
history == <<delivered, late, silence, faults>>
vars == <<signal, row, call, history>>

Signals == {"met", "lapsed", "over"}
Answers == {"sent", "failed", "disabled"}

\* Mutation of Interval: the last entry of the table goes on for ever.
Interval_NoDefault(n) == IF n = 0 THEN 0 ELSE IF n = 1 THEN 15 ELSE 30

\* BACKOFF_MINUTES and BACKOFF_DEFAULT_MINUTES.
Interval(n) == IF n = 0 THEN 0 ELSE IF n = 1 THEN 15 ELSE IF n = 2 THEN 30 ELSE 60

\* is_due: a count of zero is always due.
Due(e) == alert_count[e] = 0 \/ age[e] >= Interval(alert_count[e])

\* What a household is promised after its n-th message: minutes without another.
Peace(n) == CASE n = 0 -> 0 [] n = 1 -> 15 [] n = 2 -> 30 [] OTHER -> 60

TypeOK ==
    /\ signal \in [Episodes -> Signals]
    /\ status \in [Episodes -> {"none", "open", "ended"}]
    /\ acknowledged \in [Episodes -> BOOLEAN]
    /\ alert_count \in [Episodes -> Nat]
    /\ age \in [Episodes -> Nat]
    /\ notify_status \in [Episodes -> Answers \cup {"none"}]
    /\ at \in [Callers -> {"idle", "returned", "sending", "answered"}]
    /\ ep \in [Callers -> Episodes \cup {NoEpisode}]
    /\ answer \in [Callers -> Answers \cup {"none"}]
    /\ delivered \in [Episodes -> Nat]
    /\ late \in [Episodes -> Nat]
    /\ silence \in [Episodes -> Nat]
    /\ faults \in 0..MaxFaults

Init ==
    /\ signal = [e \in Episodes |-> "over"]
    /\ status = [e \in Episodes |-> "none"]
    /\ acknowledged = [e \in Episodes |-> FALSE]
    /\ alert_count = [e \in Episodes |-> 0]
    /\ age = [e \in Episodes |-> 0]
    /\ notify_status = [e \in Episodes |-> "none"]
    /\ at = [c \in Callers |-> "idle"]
    /\ ep = [c \in Callers |-> NoEpisode]
    /\ answer = [c \in Callers |-> "none"]
    /\ delivered = [e \in Episodes |-> 0]
    /\ late = [e \in Episodes |-> 0]
    /\ silence = [e \in Episodes |-> 0]
    /\ faults = 0

-----------------------------------------------------------------------------
(***************************************************************************)
(* The environment: the condition behind an episode comes and goes.        *)
(***************************************************************************)

\* Only a Tier 1 run can continue with none of its gates satisfied any more
\* ("lapsed"), and only a Tier 2 row can be met again once ended: the others
\* are keyed on an instant that does not come back.
Change(e, s) ==
    /\ s # signal[e]
    /\ s = "lapsed" => Via[e] = "G" /\ status[e] = "open"
    /\ s = "met" => status[e] # "ended" \/ Via[e] \in {"T2-night", "T2-away"}
    /\ signal' = [signal EXCEPT ![e] = s]
    /\ UNCHANGED <<row, call, history>>

Tick ==
    /\ \A c \in Callers : at[c] \notin {"sending", "answered"}
    /\ age' = [e \in Episodes |-> IF Due(e) THEN age[e] ELSE age[e] + 15]
    /\ silence' = [e \in Episodes |->
                      IF silence[e] < Peace(delivered[e]) THEN silence[e] + 15 ELSE silence[e]]
    /\ UNCHANGED <<signal, status, acknowledged, alert_count, notify_status, call, delivered, late, faults>>

-----------------------------------------------------------------------------
(***************************************************************************)
(* A caller's cycle: evaluate one detector, then notify for what it        *)
(* returned.                                                               *)
(***************************************************************************)

\* Mutation of Returned: only a newly opened episode is returned.
Returned_NewOnly(e) == signal[e] = "met" /\ status[e] = "none"

\* The episodes a detector opens or keeps, and returns: those whose condition
\* holds in this cycle.
Returned(e) == signal[e] = "met"

\* check_water / check_water_background / check_health: opens, keeps, resumes
\* or closes the row and commits; an episode whose gate is satisfied now is
\* returned to be notified.  A lapsed run keeps its row open and returns None.
Evaluate(e) ==
    LET c == Owner[e] IN
    /\ at[c] = "idle"
    /\ \/ /\ Returned(e)
          /\ status' = [status EXCEPT ![e] = "open"]
          /\ at' = [at EXCEPT ![c] = "returned"]
          /\ ep' = [ep EXCEPT ![c] = e]
       \/ /\ signal[e] = "over"
          /\ status[e] = "open"
          /\ status' = [status EXCEPT ![e] = "ended"]
          /\ UNCHANGED <<at, ep>>
    /\ UNCHANGED <<signal, acknowledged, alert_count, age, notify_status, answer, history>>

\* Mutations of Refused: the acknowledgement, or the T2-night exception, forgotten.
Refused_NotAcknowledged(e) ==
    (Via[e] = "T2-night" /\ alert_count[e] >= 1) \/ status[e] = "ended" \/ ~Due(e)
Refused_NightEscalates(e) == acknowledged[e] \/ status[e] = "ended" \/ ~Due(e)

\* maybe_notify and the head of notify: the row is read and either refused
\* (T2-night speaks once; acknowledged, ended or not yet due) or sent.
Refused(e) ==
    \/ Via[e] = "T2-night" /\ alert_count[e] >= 1
    \/ acknowledged[e]
    \/ status[e] = "ended"
    \/ ~Due(e)

Notify(c) ==
    /\ at[c] = "returned"
    /\ IF Refused(ep[c])
       THEN /\ at' = [at EXCEPT ![c] = "idle"]
            /\ ep' = [ep EXCEPT ![c] = NoEpisode]
       ELSE /\ at' = [at EXCEPT ![c] = "sending"]
            /\ UNCHANGED ep
    /\ UNCHANGED <<signal, row, answer, history>>

\* A message reaches the household.
Deliver(e) ==
    /\ delivered[e] < MaxSends
    /\ delivered' = [delivered EXCEPT ![e] = @ + 1]
    /\ late' = [late EXCEPT ![e] = IF acknowledged[e] THEN @ + 1 ELSE @]
    /\ silence' = [silence EXCEPT ![e] = 0]

Fault ==
    /\ faults < MaxFaults
    /\ faults' = faults + 1

\* send_message: accepted by Telegram; refused, or not reachable; accepted but
\* the answer lost to the timeout, which the code sees as "failed"; or not
\* attempted because alerting is disabled or not configured.
Send(c, a) ==
    /\ at[c] = "sending"
    /\ at' = [at EXCEPT ![c] = "answered"]
    /\ answer' = [answer EXCEPT ![c] = a]
    /\ \/ a = "sent" /\ Deliver(ep[c]) /\ UNCHANGED faults
       \/ a \in {"failed", "disabled"} /\ UNCHANGED history
       \/ a = "failed" /\ Deliver(ep[c]) /\ Fault
    /\ UNCHANGED <<signal, row, ep>>

\* Mutation of NextCount: every attempt counts.
NextCount_EveryAttempt(n, a) == n + 1

\* alert_count after an attempt that ended with answer a.
NextCount(n, a) == IF a = "sent" THEN n + 1 ELSE n

\* The tail of notify: only a successful send advances the schedule.  The
\* UPDATE increments the row's own count, and is not conditional on the row
\* still being open and unacknowledged.
Record(c) ==
    LET e == ep[c] IN
    /\ at[c] = "answered"
    /\ alert_count' = [alert_count EXCEPT ![e] = NextCount(@, answer[c])]
    /\ age' = [age EXCEPT ![e] = IF answer[c] = "sent" THEN 0 ELSE @]
    /\ notify_status' = [notify_status EXCEPT ![e] = answer[c]]
    /\ at' = [at EXCEPT ![c] = "idle"]
    /\ ep' = [ep EXCEPT ![c] = NoEpisode]
    /\ answer' = [answer EXCEPT ![c] = "none"]
    /\ UNCHANGED <<signal, status, acknowledged, history>>

\* The process dies (or its UPDATE meets a locked database and the exception
\* ends the cycle) with a notification in progress; it starts again idle.  A
\* request already on the wire may still be delivered.
Crash(c) ==
    /\ at[c] # "idle"
    /\ Fault
    /\ \/ UNCHANGED <<delivered, late, silence>>
       \/ at[c] = "sending" /\ Deliver(ep[c])
    /\ at' = [at EXCEPT ![c] = "idle"]
    /\ ep' = [ep EXCEPT ![c] = NoEpisode]
    /\ answer' = [answer EXCEPT ![c] = "none"]
    /\ UNCHANGED <<signal, row>>

\* api_alerts_acknowledge -> record_dismissal, in the web process: any row,
\* open or ended.  The gate nudge it may carry is RunawayDetector's Dismiss.
Acknowledge(e) ==
    /\ status[e] # "none"
    /\ acknowledged' = [acknowledged EXCEPT ![e] = TRUE]
    /\ UNCHANGED <<signal, status, alert_count, age, notify_status, call, history>>

-----------------------------------------------------------------------------
Next ==
    \/ Tick
    \/ \E e \in Episodes :
          \/ \E s \in Signals : Change(e, s)
          \/ Evaluate(e)
          \/ Acknowledge(e)
    \/ \E c \in Callers :
          \/ Notify(c)
          \/ \E a \in Answers : Send(c, a)
          \/ Record(c)
          \/ Crash(c)

Spec == Init /\ [][Next]_vars

\* The poll loop and the hourly check run every detector in every cycle, a
\* send always ends (it has a timeout), and Telegram is not down for ever.
Fairness ==
    /\ \A e \in Episodes : SF_vars(Evaluate(e))
    /\ \A c \in Callers :
          /\ WF_vars(Notify(c))
          /\ WF_vars(\E a \in Answers : Send(c, a))
          /\ SF_vars(Send(c, "sent"))
          /\ WF_vars(Record(c))

FairSpec == Spec /\ Fairness

-----------------------------------------------------------------------------
(***************************************************************************)
(* Properties                                                              *)
(***************************************************************************)

\* A message of e accepted by Telegram whose count is not written yet.
Uncounted(e) ==
    IF at[Owner[e]] = "answered" /\ ep[Owner[e]] = e /\ answer[Owner[e]] = "sent"
    THEN 1 ELSE 0

\* The alert count is never ahead of the messages that really arrived, and
\* lags behind only by the one being recorded and by the faults so far: what
\* "only a successful send advances the schedule" means to the household.
CountBacked ==
    \A e \in Episodes :
        /\ alert_count[e] + Uncounted(e) <= delivered[e]
        /\ delivered[e] <= alert_count[e] + Uncounted(e) + faults

\* After an acknowledgement the household hears at most the one message that
\* was already past notify's check, however long the leak goes on.
AckSilences == \A e \in Episodes : late[e] <= 1

\* An overnight background leak is announced once: more than one message can
\* only come from crashes or lost answers, and the count never passes one.
NightOnce ==
    \A e \in Episodes : Via[e] = "T2-night" =>
        alert_count[e] <= 1 /\ delivered[e] <= 1 + faults

\* Unless a message arrived that was not counted, the household is left in
\* peace for a quarter of an hour after the first message about an episode,
\* for half an hour after the second, and then for an hour each time,
\* whatever is sent, refused or evaluated in between.
Spaced ==
    [][\A e \in Episodes :
          delivered'[e] > delivered[e] /\ delivered[e] = alert_count[e]
             => silence[e] >= Peace(delivered[e])]_vars

\* While its condition holds, an open episode that has never been announced
\* is announced, or somebody acknowledges it: a send that fails is repeated.
FirstAlertArrives ==
    \A e \in Episodes :
        (status[e] = "open" /\ alert_count[e] = 0 /\ signal[e] = "met")
            ~> (alert_count[e] > 0 \/ acknowledged[e] \/ signal[e] # "met")

\* What maybe_notify's docstring says: a failed send is never lost.  It says
\* nothing of the run ending, or lapsing, before the next cycle.
FailedSendNeverLost ==
    \A e \in Episodes :
        (notify_status[e] = "failed" /\ ~acknowledged[e])
            ~> (delivered[e] > 0 \/ acknowledged[e])
=============================================================================
