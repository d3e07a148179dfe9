-------------------------- MODULE EntLastChangeProofs --------------------------
(***************************************************************************)
(* For every throttle period: a change that poll_entLastChangeTime         *)
(* suppresses is always covered by a registered alarm.                     *)
(***************************************************************************)
EXTENDS EntLastChange, TLAPS

\* The alarms that are not due yet: exactly one, and only while the throttle
\* period of the trap it came with is running.
AlarmInv ==
    \A t \in 1 .. Period : alarms[t] = IF t = Period - sinceTrap THEN 1 ELSE 0

\* Inductive: the invariant asked for does not say where the alarm of the next
\* suppressed change would come from; AlarmInv does.
IInv == TypeOK /\ AlarmInv /\ SuppressedIsCovered

LEMMA InitIInv == Init => IInv
<1> SUFFICES ASSUME Init PROVE IInv
  OBVIOUS
<1> USE PeriodAssumption DEF Init
<1>1. alarms \in [0 .. Period -> 0 .. MaxLate]
  OBVIOUS
<1>2. sinceTrap \in 0 .. Period
  OBVIOUS
<1>3. TypeOK
  BY <1>1, <1>2, Zenon DEF TypeOK
<1>4. AlarmInv /\ SuppressedIsCovered
  BY DEF AlarmInv, SuppressedIsCovered
<1> QED BY <1>3, <1>4 DEF IInv

\* A trap is only sent when the period is over, so no other alarm is registered
\* for the slot that its own alarm takes.
LEMMA SendIInv ==
    ASSUME IInv, sinceTrap = Period,
           NEW change \in BOOLEAN, NEW left \in [0 .. Period -> 0 .. MaxLate],
           \A t \in 1 .. Period : left[t] = alarms[t],
           send(change, left), changedNow' \in BOOLEAN, quiet' \in BOOLEAN
    PROVE  IInv'
<1> USE PeriodAssumption DEF IInv
<1>1. \A t \in 1 .. Period : left[t] = 0
  BY DEF AlarmInv, TypeOK
<1>2. alarms' \in [0 .. Period -> 0 .. MaxLate]
  <2>1. left[Period] + 1 \in 0 .. MaxLate
    BY <1>1
  <2>2. alarms' = [left EXCEPT ![Period] = left[Period] + 1]
    BY DEF send
  <2> QED BY <2>1, <2>2
<1>3. TypeOK'
  <2>1. sinceTrap' \in 0 .. Period
    BY DEF send
  <2>2. newer' \in BOOLEAN /\ pending' \in BOOLEAN
    BY Zenon DEF send
  <2> QED BY <1>2, <2>1, <2>2, Zenon DEF TypeOK
<1>4. AlarmInv'
  BY <1>1 DEF send, AlarmInv
<1>5. SuppressedIsCovered'
  BY DEF send, SuppressedIsCovered
<1> QED BY <1>3, <1>4, <1>5

LEMMA NextIInv == IInv /\ [Next]_vars => IInv'
<1> SUFFICES ASSUME IInv, [Next]_vars PROVE IInv'
  OBVIOUS
<1> USE PeriodAssumption
<1>1. CASE configChanged
  <2>1. CASE sinceTrap = Period
    BY <1>1, <2>1, SendIInv, Zenon DEF configChanged, IInv, TypeOK
  <2>2. CASE sinceTrap # Period
    <3>1. TypeOK'
      BY <1>1, <2>2 DEF configChanged, IInv, TypeOK
    <3>2. AlarmInv'
      BY <1>1, <2>2 DEF configChanged, IInv, AlarmInv
    <3>3. alarms[Period - sinceTrap] = 1
      BY <2>2 DEF IInv, AlarmInv, TypeOK
    <3>4. SuppressedIsCovered'
      BY <1>1, <2>2, <3>3 DEF configChanged, IInv, TypeOK, SuppressedIsCovered
    <3> QED BY <3>1, <3>2, <3>4 DEF IInv
  <2> QED BY <2>1, <2>2
<1>2. CASE alarm_entLastChangeTime
  <2> DEFINE left == [alarms EXCEPT ![0] = @ - 1]
  <2>1. /\ left \in [0 .. Period -> 0 .. MaxLate]
        /\ \A t \in 1 .. Period : left[t] = alarms[t]
    BY <1>2 DEF alarm_entLastChangeTime, IInv, TypeOK
  <2>2. CASE sinceTrap = Period /\ newer
    <3>1. send(changedNow, left) /\ UNCHANGED <<changedNow, quiet>>
      BY <1>2, <2>2 DEF alarm_entLastChangeTime
    <3> HIDE DEF left
    <3> QED BY <2>1, <2>2, <3>1, SendIInv DEF IInv, TypeOK
  <2>3. CASE ~(sinceTrap = Period /\ newer)
    <3>1. alarms' = left /\ UNCHANGED <<sinceTrap, pending, newer, changedNow, quiet>>
      BY <1>2, <2>3 DEF alarm_entLastChangeTime
    <3> HIDE DEF left
    <3>2. TypeOK' /\ AlarmInv'
      BY <2>1, <3>1 DEF IInv, TypeOK, AlarmInv
    <3>3. SuppressedIsCovered'
      BY <2>1, <2>3, <3>1 DEF IInv, TypeOK, SuppressedIsCovered
    <3> QED BY <3>2, <3>3 DEF IInv
  <2> QED BY <2>2, <2>3
<1>3. CASE Tick
  <2>1. TypeOK'
    <3>1. alarms' \in [0 .. Period -> 0 .. MaxLate]
      BY <1>3 DEF Tick, IInv, TypeOK
    <3>2. sinceTrap' \in 0 .. Period
      BY <1>3 DEF Tick, IInv, TypeOK
    <3> QED BY <1>3, <3>1, <3>2, Zenon DEF Tick, IInv, TypeOK
  <2>2. AlarmInv'
    <3> SUFFICES ASSUME NEW t \in 1 .. Period
                 PROVE  alarms'[t] = IF t = Period - sinceTrap' THEN 1 ELSE 0
      BY DEF AlarmInv
    <3>1. CASE t < Period
      BY <1>3, <3>1 DEF Tick, IInv, TypeOK, AlarmInv
    <3>2. CASE t = Period
      BY <1>3, <3>2 DEF Tick, IInv, TypeOK, AlarmInv
    <3> QED BY <3>1, <3>2
  <2>3. SuppressedIsCovered'
    BY <1>3, <2>2 DEF Tick, IInv, TypeOK, AlarmInv, SuppressedIsCovered
  <2> QED BY <2>1, <2>2, <2>3 DEF IInv
<1>4. CASE Settle
  BY <1>4 DEF Settle, IInv, TypeOK, AlarmInv, SuppressedIsCovered
<1>5. CASE UNCHANGED vars
  BY <1>5 DEF vars, IInv, TypeOK, AlarmInv, SuppressedIsCovered
<1> QED BY <1>1, <1>2, <1>3, <1>4, <1>5 DEF Next

LEMMA SpecIInv == Spec => []IInv
  BY InitIInv, NextIInv, PTL DEF Spec

\* Type correctness, which here says that the alarms of one trap at a time can
\* be waiting and that late ones stay within their bound.
THEOREM TypeCorrect == Spec => []TypeOK
  BY SpecIInv, PTL DEF IInv

\* poll_entLastChangeTime: for every length of the throttle period, a
\* suppressed change is marked as such and an alarm that will find the period
\* over is registered.
THEOREM SuppressedCovered == Spec => []SuppressedIsCovered
  BY SpecIInv, PTL DEF IInv
================================================================================
