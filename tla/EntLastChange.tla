----------------------------- MODULE EntLastChange -----------------------------
(***************************************************************************)
(* entLastChangeTime.c: configChanged records the time of a change of the  *)
(* entity tables and sends an entConfigChange trap, at most one in         *)
(* Period.  A change inside that time is left to an alarm registered with  *)
(* the trap.                                                               *)
(*                                                                         *)
(* Times are kept relative to the present: the code only compares them.    *)
(* Alarms and clock readings are the agent library's.                      *)
(***************************************************************************)
EXTENDS Integers

CONSTANTS Period,  \* TRAP_THROTTLE_PERIOD, in ticks of the clock's resolution
          MaxLate  \* bound: alarms that are due and wait for the main loop

ASSUME PeriodAssumption == Period \in Nat \ {0} /\ MaxLate \in Nat \ {0}

VARIABLES sinceTrap,   \* ticks since trapLastIssued, Period standing for more
          changedNow,  \* entLastChangeTime is the present tick
          newer,       \* entLastChangeTime is not before trapLastIssued
          alarms,      \* alarms by the ticks they have left
          pending,     \* history: a change that no trap has followed
          quiet        \* no further change will come

vars == <<sinceTrap, changedNow, newer, alarms, pending, quiet>>

Init ==
    /\ sinceTrap = Period /\ newer = TRUE /\ changedNow = TRUE
    /\ alarms = [t \in 0 .. Period |-> 0]
    /\ pending = FALSE /\ quiet = FALSE

\* Planted bug: no alarm is registered with a trap.
Bug_send(change, left) ==
    /\ sinceTrap' = 0
    /\ newer' \in IF change THEN BOOLEAN ELSE {FALSE}
    /\ pending' = FALSE
    /\ alarms' = left

\* send_entConfigChange_trap, the marker and the alarm, in
\* poll_entLastChangeTime.  The marker may still read the tick of the change.
send(change, left) ==
    /\ sinceTrap' = 0
    /\ newer' \in IF change THEN BOOLEAN ELSE {FALSE}
    /\ pending' = FALSE
    /\ alarms' = [left EXCEPT ![Period] = @ + 1]

configChanged ==
    /\ ~quiet
    /\ changedNow' = TRUE
    /\ IF sinceTrap = Period
       THEN send(TRUE, alarms)
       ELSE newer' = TRUE /\ pending' = TRUE /\ UNCHANGED <<sinceTrap, alarms>>
    /\ UNCHANGED quiet

\* Planted bug: the alarm sends a trap without looking for a change.
Bug_alarm_entLastChangeTime ==
    /\ alarms[0] > 0
    /\ IF sinceTrap = Period
       THEN send(changedNow, [alarms EXCEPT ![0] = @ - 1])
       ELSE /\ alarms' = [alarms EXCEPT ![0] = @ - 1]
            /\ UNCHANGED <<sinceTrap, pending, newer>>
    /\ UNCHANGED <<changedNow, quiet>>

\* The alarm polls, and is gone.
alarm_entLastChangeTime ==
    /\ alarms[0] > 0
    /\ IF sinceTrap = Period /\ newer
       THEN send(changedNow, [alarms EXCEPT ![0] = @ - 1])
       ELSE /\ alarms' = [alarms EXCEPT ![0] = @ - 1]
            /\ UNCHANGED <<sinceTrap, pending, newer>>
    /\ UNCHANGED <<changedNow, quiet>>

\* External: the clock moves on; due alarms wait for the agent's main loop.
Tick ==
    /\ alarms[0] + alarms[1] <= MaxLate
    /\ sinceTrap' = IF sinceTrap < Period THEN sinceTrap + 1 ELSE Period
    /\ changedNow' = FALSE
    /\ alarms' = [t \in 0 .. Period |->
                    IF t = 0 THEN alarms[0] + alarms[1]
                    ELSE IF t < Period THEN alarms[t + 1] ELSE 0]
    /\ UNCHANGED <<newer, pending, quiet>>

Settle == ~quiet /\ quiet' = TRUE
          /\ UNCHANGED <<sinceTrap, changedNow, newer, alarms, pending>>

Next == configChanged \/ alarm_entLastChangeTime \/ Tick \/ Settle

\* The clock runs, and the main loop of the agent runs alarms that are due.
Spec == Init /\ [][Next]_vars /\ WF_vars(Tick) /\ WF_vars(alarm_entLastChangeTime)

TypeOK ==
    /\ sinceTrap \in 0 .. Period
    /\ changedNow \in BOOLEAN /\ newer \in BOOLEAN
    /\ alarms \in [0 .. Period -> 0 .. MaxLate]
    /\ pending \in BOOLEAN /\ quiet \in BOOLEAN

\* "If anything was suppressed, a trap will be sent": while a change waits, the
\* markers show it and an alarm that will find the throttle period over is
\* still registered.
SuppressedIsCovered ==
    pending => /\ newer
               /\ IF sinceTrap < Period THEN alarms[Period - sinceTrap] > 0
                                        ELSE alarms[0] > 0

\* Every change of the tables is followed by a trap, however the change falls
\* between traps, ticks and alarms.
EveryChangeReported == pending ~> ~pending

\* When the tables stop changing, the traps stop: an alarm that resends does
\* not keep itself alive.
TrapsCease == quiet ~> (~pending /\ \A t \in 0 .. Period : alarms[t] = 0)
================================================================================
