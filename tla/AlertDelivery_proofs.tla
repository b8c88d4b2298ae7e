------------------------ MODULE AlertDelivery_proofs ------------------------
(***************************************************************************)
(* Safety of the delivery of alerts, for any number of episodes, callers,  *)
(* messages and faults.                                                    *)
(*                                                                         *)
(* Neither CountBacked nor AckSilences is inductive: both depend on where  *)
(* a notification in progress stands (a message on its way out may be one  *)
(* the household hears late, or one whose count is not written yet), and   *)
(* on a caller only ever notifying for its own episodes.                   *)
(***************************************************************************)
EXTENDS AlertDelivery, TLAPS

InFlight(e) == at[Owner[e]] \in {"sending", "answered"} /\ ep[Owner[e]] = e

\* A caller notifies only for an episode it owns, and holds an answer exactly
\* between Telegram's reply and the commit.
CallsOwn ==
    \A c \in Callers :
        /\ at[c] # "idle" => ep[c] \in Episodes /\ Owner[ep[c]] = c
        /\ at[c] = "answered" => answer[c] \in Answers

\* No further late message is on its way once one was heard.
AckBarrier ==
    \A e \in Episodes :
        /\ ~acknowledged[e] => late[e] = 0
        /\ acknowledged[e] /\ late[e] > 0
             => ~(at[Owner[e]] = "sending" /\ ep[Owner[e]] = e)

\* The only message of an overnight episode is sent when none was counted.
NightBarrier ==
    \A e \in Episodes : Via[e] = "T2-night" =>
        /\ alert_count[e] <= 1
        /\ InFlight(e) => alert_count[e] = 0

\* A message about to leave is due: notify checked it, and nothing else writes
\* the row's count or last_alerted_at meanwhile.
DueBarrier ==
    \A c \in Callers : at[c] = "sending" => Due(ep[c])

\* What notify reads as the age of the last message is no more than the silence the
\* household has had, as long as all it heard was counted.
HeardBarrier ==
    \A e \in Episodes : delivered[e] = alert_count[e] =>
        silence[e] >= age[e] \/ silence[e] >= Peace(delivered[e])

IInv == TypeOK /\ CallsOwn /\ CountBacked /\ AckSilences /\ AckBarrier
        /\ NightBarrier /\ DueBarrier /\ HeardBarrier

\* The invariant holds before the first cycle.
LEMMA InitInv == Init => IInv
  BY DeliveryAssumption
  DEF Init, IInv, TypeOK, CallsOwn, CountBacked, AckSilences, AckBarrier,
      NightBarrier, DueBarrier, HeardBarrier, InFlight, Uncounted, Answers, Signals

\* Every step keeps it: one case per action of a caller, of the
\* environment and of the web process.
LEMMA NextInv == IInv /\ [Next]_vars => IInv'
<1> SUFFICES ASSUME IInv, [Next]_vars
             PROVE  IInv'
  OBVIOUS
<1> USE DeliveryAssumption DEF IInv, TypeOK, row, call, history
<1>1. CASE Tick
  <2>1. HeardBarrier'
    BY <1>1 DEF Tick, HeardBarrier, Peace
  <2>2. QED
    BY <1>1, <2>1 DEF Tick, CallsOwn, CountBacked, AckSilences, AckBarrier,
                      NightBarrier, DueBarrier, Due, InFlight, Uncounted
<1>2. ASSUME NEW e \in Episodes, NEW s \in Signals, Change(e, s)
      PROVE  IInv'
  BY <1>2 DEF Change, CallsOwn, CountBacked, AckSilences, AckBarrier,
              NightBarrier, DueBarrier, HeardBarrier, Due, InFlight, Uncounted
<1>3. ASSUME NEW e \in Episodes, Evaluate(e)
      PROVE  IInv'
  BY <1>3 DEF Evaluate, Returned, CallsOwn, CountBacked, AckSilences, AckBarrier,
              NightBarrier, DueBarrier, HeardBarrier, Due, InFlight, Uncounted
<1>4. ASSUME NEW e \in Episodes, Acknowledge(e)
      PROVE  IInv'
  BY <1>4 DEF Acknowledge, CallsOwn, CountBacked, AckSilences, AckBarrier,
              NightBarrier, DueBarrier, HeardBarrier, Due, InFlight, Uncounted
<1>5. ASSUME NEW c \in Callers, Notify(c)
      PROVE  IInv'
  BY <1>5 DEF Notify, Refused, CallsOwn, CountBacked, AckSilences, AckBarrier,
              NightBarrier, DueBarrier, HeardBarrier, Due, InFlight, Uncounted
<1>6. ASSUME NEW c \in Callers, NEW a \in Answers, Send(c, a)
      PROVE  IInv'
  <2>1. ep[c] \in Episodes /\ Owner[ep[c]] = c
    BY <1>6 DEF Send, CallsOwn
  <2>2. TypeOK'
    BY <1>6, <2>1 DEF Send, Deliver, Fault
  <2>3. CallsOwn'
    BY <1>6 DEF Send, CallsOwn
  <2>4. CountBacked'
    BY <1>6, <2>1 DEF Send, Deliver, Fault, Answers, CountBacked, Uncounted
  <2>5. AckSilences' /\ AckBarrier'
    BY <1>6, <2>1 DEF Send, Deliver, Fault, AckSilences, AckBarrier
  <2>6. NightBarrier' /\ DueBarrier'
    BY <1>6, <2>1 DEF Send, NightBarrier, InFlight, DueBarrier, Due
  <2>7. HeardBarrier'
    BY <1>6, <2>1 DEF Send, Deliver, CountBacked, Uncounted, HeardBarrier, Peace
  <2>8. QED
    BY <2>2, <2>3, <2>4, <2>5, <2>6, <2>7
<1>7. ASSUME NEW c \in Callers, Record(c)
      PROVE  IInv'
  <2>1. ep[c] \in Episodes /\ Owner[ep[c]] = c /\ answer[c] \in Answers
    BY <1>7 DEF Record, NextCount, CallsOwn
  <2>2. TypeOK'
    BY <1>7, <2>1 DEF Record, NextCount
  <2>3. CallsOwn'
    BY <1>7 DEF Record, NextCount, CallsOwn
  <2>4. CountBacked'
    BY <1>7, <2>1 DEF Record, NextCount, CountBacked, Uncounted
  <2>5. AckSilences' /\ AckBarrier'
    BY <1>7, <2>1 DEF Record, NextCount, AckSilences, AckBarrier
  <2>6. NightBarrier'
    BY <1>7, <2>1 DEF Record, NextCount, NightBarrier, InFlight
  <2>7. DueBarrier'
    BY <1>7, <2>1 DEF Record, NextCount, CallsOwn, DueBarrier, Due
  <2>8. HeardBarrier'
    BY <1>7, <2>1 DEF Record, NextCount, HeardBarrier
  <2>9. QED
    BY <2>2, <2>3, <2>4, <2>5, <2>6, <2>7, <2>8
<1>8. ASSUME NEW c \in Callers, Crash(c)
      PROVE  IInv'
  <2>1. ep[c] \in Episodes /\ Owner[ep[c]] = c
    BY <1>8 DEF Crash, CallsOwn
  <2>2. TypeOK'
    BY <1>8, <2>1 DEF Crash, Deliver, Fault
  <2>3. CallsOwn' /\ NightBarrier' /\ DueBarrier'
    BY <1>8 DEF Crash, CallsOwn, NightBarrier, InFlight, DueBarrier, Due
  <2>4. CountBacked'
    BY <1>8, <2>1 DEF Crash, Deliver, Fault, CountBacked, Uncounted
  <2>5. AckSilences' /\ AckBarrier'
    BY <1>8, <2>1 DEF Crash, Deliver, Fault, AckSilences, AckBarrier
  <2>6. HeardBarrier'
    BY <1>8, <2>1 DEF Crash, Deliver, CountBacked, Uncounted, HeardBarrier, Peace
  <2>7. QED
    BY <2>2, <2>3, <2>4, <2>5, <2>6
<1>9. CASE UNCHANGED vars
  BY <1>9 DEF vars, CallsOwn, CountBacked, AckSilences, AckBarrier,
              NightBarrier, DueBarrier, HeardBarrier, Due, InFlight, Uncounted
<1>10. QED
  BY <1>1, <1>2, <1>3, <1>4, <1>5, <1>6, <1>7, <1>8, <1>9 DEF Next

\* The inductive invariant, from which everything below follows.
LEMMA Invariance == Spec => []IInv
  BY InitInv, NextInv, PTL DEF Spec

-----------------------------------------------------------------------------

\* Type correctness of the delivery state.
THEOREM TypeCorrect == Spec => []TypeOK
<1>1. IInv => TypeOK
  BY DEF IInv
<1>2. QED
  BY <1>1, Invariance, PTL

\* The alert count written by notify is backed by messages that arrived, and
\* lags behind them by no more than the one being recorded and the faults.
THEOREM CountIsBacked == Spec => []CountBacked
<1>1. IInv => CountBacked
  BY DEF IInv
<1>2. QED
  BY <1>1, Invariance, PTL

\* After the acknowledge route has committed, at most the one message already
\* past notify's check is still heard.
THEOREM AcknowledgementSilences == Spec => []AckSilences
<1>1. IInv => AckSilences
  BY DEF IInv
<1>2. QED
  BY <1>1, Invariance, PTL

\* maybe_notify's exception for T2-night: one counted alert, and a second
\* message only for a crash or a lost answer.
THEOREM NightSpeaksOnce == Spec => []NightOnce
<1>1. IInv => NightOnce
  <2> SUFFICES ASSUME IInv, NEW e \in Episodes, Via[e] = "T2-night"
               PROVE  alert_count[e] <= 1 /\ delivered[e] <= 1 + faults
    BY DEF NightOnce
  <2>1. alert_count[e] <= 1 /\ alert_count[e] + Uncounted(e) <= 1
    BY DEF IInv, TypeOK, NightBarrier, InFlight, Uncounted
  <2>2. delivered[e] <= alert_count[e] + Uncounted(e) + faults
    BY DEF IInv, CountBacked
  <2>3. /\ alert_count[e] \in Nat /\ delivered[e] \in Nat /\ faults \in Nat
        /\ Uncounted(e) \in {0, 1}
    BY DeliveryAssumption DEF IInv, TypeOK, Uncounted
  <2>4. QED
    BY <2>1, <2>2, <2>3
<1>2. QED
  BY <1>1, Invariance, PTL

\* As long as every message was counted, the household is left in peace for the time
\* that goes with the number it has had: a send begins only when the episode is due,
\* what is due is measured from the last message, and nothing moves it before the next
\* one leaves.
THEOREM SendsAreSpaced == Spec => Spaced
<1> DEFINE Apart == \A e \in Episodes :
                       delivered'[e] > delivered[e] /\ delivered[e] = alert_count[e]
                          => silence[e] >= Peace(delivered[e])
<1>1. IInv /\ [Next]_vars => Apart
  <2> SUFFICES ASSUME IInv, [Next]_vars, NEW e \in Episodes,
                      delivered'[e] > delivered[e], delivered[e] = alert_count[e]
               PROVE  silence[e] >= Peace(delivered[e])
    OBVIOUS
  <2>1. delivered[e] \in Nat /\ silence[e] \in Nat /\ age[e] \in Nat
    BY DEF IInv, TypeOK
  <2>2. PICK c \in Callers : (\E a \in Answers : Send(c, a)) \/ Crash(c)
    BY <2>1 DEF Next, vars, row, call, history, Tick, Change, Evaluate, Acknowledge,
                Notify, Record
  <2>3. at[c] = "sending" /\ ep[c] = e
    BY <2>1, <2>2 DEF IInv, TypeOK, Send, Crash, Deliver, history
  <2>4. delivered[e] = 0 \/ age[e] >= Interval(delivered[e])
    BY <2>1, <2>3 DEF IInv, DueBarrier, Due
  <2>5. \A n \in Nat : Interval(n) = Peace(n) /\ Peace(n) \in Nat /\ Peace(0) = 0
    BY DEF Interval, Peace
  <2>6. QED
    BY <2>1, <2>4, <2>5 DEF IInv, HeardBarrier
<1>2. QED
  BY <1>1, Invariance, PTL DEF Spec, Spaced
=============================================================================
