------------------------------- MODULE Alarms -------------------------------
(***************************************************************************)
(* The alarms and counters of the FreeOSEK kernel: SetRelAlarm,            *)
(* SetAbsAlarm and CancelAlarm called by tasks that preempt each other,    *)
(* and the system tick, which increments counter 0, expires the alarms of  *)
(* that counter and, through the alarms whose action is INCREMENT, the     *)
(* counters they drive.                                                    *)
(*                                                                         *)
(* The tick is one critical section.  Its nested calls of IncrementCounter *)
(* and IncrementAlarm are the steps between two states with work = <<>>;   *)
(* no task runs in between.  What the other actions of an alarm do, to     *)
(* activate a task or set an event, is in module Kernel.                   *)
(***************************************************************************)
EXTENDS Naturals, Sequences

CONSTANTS
  ALARMS_COUNT,     \* number of alarms of the OIL configuration
  COUNTERS_COUNT,   \* number of counters; counter 0 is the system tick
  AlarmRef,         \* [Counters -> Seq(Alarms)], the alarms of a counter
  IncrementAction,  \* the counter an alarm of action INCREMENT increments
  MaxAllowedValue,  \* [Counters -> Nat \ {0}]
  MinCycle,         \* [Counters -> Nat \ {0}]
  AutoStartAlarm,   \* the <<time, cycle>> of the alarms StartOS sets
  Callers,          \* the priorities of the tasks that call the services
  Preemtive,        \* those that a task of higher priority preempts
  TickValues        \* the <<time, cycle>> that callers pass

Alarms == 0 .. ALARMS_COUNT - 1
Counters == 0 .. COUNTERS_COUNT - 1
HasAlarm(c, a) == \E i \in 1 .. Len(AlarmRef[c]) : AlarmRef[c][i] = a
Counter(a) == CHOOSE c \in Counters : HasAlarm(c, a)

\* Every alarm belongs to one counter, which lists it once.
ASSUME AlarmsAssumption ==
  /\ ALARMS_COUNT \in Nat \ {0}
  /\ COUNTERS_COUNT \in Nat \ {0}
  /\ AlarmRef \in [Counters -> Seq(Alarms)]
  /\ \A a \in Alarms : \E c \in Counters :
        /\ HasAlarm(c, a)
        /\ \A d \in Counters \ {c} : ~HasAlarm(d, a)
  /\ \A c \in Counters : \A i, j \in 1 .. Len(AlarmRef[c]) :
        AlarmRef[c][i] = AlarmRef[c][j] => i = j
  /\ DOMAIN IncrementAction \subseteq Alarms
  /\ \A a \in DOMAIN IncrementAction :
        IncrementAction[a] \in Counters
  /\ MaxAllowedValue \in [Counters -> Nat \ {0}]
  /\ MinCycle \in [Counters -> Nat \ {0}]
  /\ DOMAIN AutoStartAlarm \subseteq Alarms
  /\ \A a \in DOMAIN AutoStartAlarm : AutoStartAlarm[a] \in Nat \X Nat
  /\ Callers \subseteq Nat
  /\ Preemtive \subseteq Callers
  /\ TickValues \subseteq Nat \X Nat

VARIABLES
  alarmState,      \* AlarmsVar[a].AlarmState
  alarmTime,       \* AlarmsVar[a].AlarmTime
  alarmCycleTime,  \* AlarmsVar[a].AlarmCycleTime
  counterTime,     \* CountersVar[c].Time
  call,            \* the service of each caller that is past its checks
  work,            \* the calls the tick still has to make, the next one first
  hooked,          \* the ErrorHook was called (and never returns)
  halted           \* it was called by the tick

alarmVars == <<alarmState, alarmTime, alarmCycleTime>>
vars == <<alarmVars, counterTime, call, work, hooked, halted>>

None == <<"none">>
Shutdown == <<"shutdown">>

TypeOK ==
  /\ alarmState \in [Alarms -> {0, 1}]
  /\ alarmTime \in [Alarms -> Nat]
  /\ alarmCycleTime \in [Alarms -> Nat]
  /\ counterTime \in [Counters -> Nat]
  /\ \A c \in Counters : counterTime[c] < MaxAllowedValue[c]
  /\ call \in [Callers -> {None, Shutdown}
                 \cup ({"SetRelAlarm", "SetAbsAlarm"} \X Alarms \X Nat \X Nat)
                 \cup ({"CancelAlarm"} \X Alarms)]
  /\ work \in Seq(({"counter"} \X Counters \X Nat) \cup ({"alarm"} \X Alarms \X Nat))
  /\ hooked \in BOOLEAN /\ halted \in BOOLEAN

\* As StartOS leaves them, with the alarms of the application mode set.
Init ==
  /\ alarmState = [a \in Alarms |-> IF a \in DOMAIN AutoStartAlarm THEN 1 ELSE 0]
  /\ alarmTime = [a \in Alarms |->
                    IF a \in DOMAIN AutoStartAlarm THEN AutoStartAlarm[a][1] ELSE 0]
  /\ alarmCycleTime = [a \in Alarms |->
                         IF a \in DOMAIN AutoStartAlarm THEN AutoStartAlarm[a][2] ELSE 0]
  /\ counterTime = [c \in Counters |-> 0]
  /\ call = [k \in Callers |-> None]
  /\ work = <<>>
  /\ hooked = FALSE
  /\ halted = FALSE

(***************************************************************************)
(* Services                                                                *)
(***************************************************************************)
\* A task runs when none of higher priority is inside a service, and begins
\* one when none of lower priority, not preemptable, is.
Runs(k) ==
  /\ ~halted /\ work = <<>>
  /\ \A j \in Callers : j > k => call[j] = None

Begins(k) ==
  /\ Runs(k) /\ call[k] = None
  /\ \A j \in Callers \ Preemtive : j < k => call[j] = None

\* The checks pass, or the ErrorHook is called unless it is already running.
Checked(k, status, service) ==
  /\ call' = [call EXCEPT ![k] = IF status = "E_OK" THEN service
                                 ELSE IF hooked THEN None ELSE Shutdown]
  /\ hooked' = (hooked \/ status # "E_OK")
  /\ UNCHANGED <<alarmVars, counterTime, work, halted>>

\* SetRelAlarm and SetAbsAlarm check alike, with the interrupts enabled ...
SetAlarmStatus(a, time, cycle) ==
  IF a \notin Alarms THEN "E_OS_ID"
  ELSE IF \/ time > MaxAllowedValue[Counter(a)]
          \/ /\ cycle # 0
             /\ cycle \notin MinCycle[Counter(a)] .. MaxAllowedValue[Counter(a)]
    THEN "E_OS_VALUE"
  ELSE IF alarmState[a] # 0 THEN "E_OS_STATE" ELSE "E_OK"

SetRelAlarm(k, a, increment, cycle) ==
  /\ Begins(k)
  /\ Checked(k, SetAlarmStatus(a, increment, cycle), <<"SetRelAlarm", a, increment, cycle>>)

SetAbsAlarm(k, a, start, cycle) ==
  /\ Begins(k)
  /\ Checked(k, SetAlarmStatus(a, start, cycle), <<"SetAbsAlarm", a, start, cycle>>)

CancelAlarm(k, a) ==
  /\ Begins(k)
  /\ Checked(k, IF a \notin Alarms THEN "E_OS_ID"
                ELSE IF alarmState[a] = 0 THEN "E_OS_NOFUNC" ELSE "E_OK",
             <<"CancelAlarm", a>>)

\* ... and set the alarm in a critical section, in whatever state it is now.
SetAlarm(k, service, time) ==
  /\ Runs(k) /\ call[k][1] = service
  /\ alarmState' = [alarmState EXCEPT ![call[k][2]] = 1]
  /\ alarmTime' = [alarmTime EXCEPT ![call[k][2]] = time]
  /\ alarmCycleTime' = [alarmCycleTime EXCEPT ![call[k][2]] = call[k][4]]
  /\ call' = [call EXCEPT ![k] = None]
  /\ UNCHANGED <<counterTime, work, hooked, halted>>

SetRelAlarmSet(k) == SetAlarm(k, "SetRelAlarm", call[k][3])

\* The time of an absolute alarm is taken from the counter, but counts down
\* like a relative one.
SetAbsAlarmSet(k) == SetAlarm(k, "SetAbsAlarm", counterTime[Counter(call[k][2])] + call[k][3])

\* CancelAlarm has no critical section at all.
CancelAlarmClear(k) ==
  /\ Runs(k) /\ call[k][1] = "CancelAlarm"
  /\ alarmState' = [alarmState EXCEPT ![call[k][2]] = 0]
  /\ call' = [call EXCEPT ![k] = None]
  /\ UNCHANGED <<alarmTime, alarmCycleTime, counterTime, work, hooked, halted>>

(***************************************************************************)
(* The system tick                                                         *)
(***************************************************************************)
SysTick ==
  /\ ~halted /\ work = <<>>
  /\ work' = <<<<"counter", 0, 1>>>>
  /\ UNCHANGED <<alarmVars, counterTime, call, hooked, halted>>

\* Fault: the counter wraps one tick late.
WrappedLate(c, time) ==
  IF time > MaxAllowedValue[c] THEN time % MaxAllowedValue[c] ELSE time

Wrapped(c, time) == time % MaxAllowedValue[c]

AlarmCalls(c, n) == [i \in 1 .. Len(AlarmRef[c]) |-> <<"alarm", AlarmRef[c][i], n>>]

IncrementCounter ==
  /\ ~halted /\ work # <<>> /\ Head(work)[1] = "counter"
  /\ LET c == Head(work)[2]
         n == Head(work)[3]
     IN /\ counterTime' = [counterTime EXCEPT ![c] = Wrapped(c, @ + n)]
        /\ work' = AlarmCalls(c, n) \o Tail(work)
  /\ UNCHANGED <<alarmVars, call, hooked, halted>>

\* How many times an increment by n expires alarm a: of the loop that adds the
\* cycle time for as long as the alarm's time is not beyond n.
AlarmCount(a, n) ==
  IF alarmTime[a] > n THEN 0
  ELSE IF alarmCycleTime[a] = 0 THEN 1
  ELSE 1 + (n - alarmTime[a]) \div alarmCycleTime[a]

AlarmTimeAfter(a, n) ==
  IF alarmTime[a] <= n /\ alarmCycleTime[a] = 0 THEN 0
  ELSE alarmTime[a] + AlarmCount(a, n) * alarmCycleTime[a] - n

\* Fault: a single increment for all the expirations.
CallsOfOneExpiration(a, count) ==
  IF a \in DOMAIN IncrementAction /\ count > 0
    THEN <<<<"counter", IncrementAction[a], 1>>>> ELSE <<>>

CallsOfExpirations(a, count) ==
  IF a \in DOMAIN IncrementAction /\ count > 0
    THEN <<<<"counter", IncrementAction[a], count>>>> ELSE <<>>

IncrementAlarm ==
  /\ ~halted /\ work # <<>> /\ Head(work)[1] = "alarm"
  /\ LET a == Head(work)[2]
         n == Head(work)[3]
     IN IF alarmState[a] = 0
          THEN work' = Tail(work) /\ UNCHANGED alarmVars
          ELSE /\ alarmTime' = [alarmTime EXCEPT ![a] = AlarmTimeAfter(a, n)]
               /\ alarmState' = [alarmState EXCEPT ![a] =
                    IF alarmTime[a] <= n /\ alarmCycleTime[a] = 0 THEN 0 ELSE @]
               /\ work' = CallsOfExpirations(a, AlarmCount(a, n)) \o Tail(work)
               /\ UNCHANGED alarmCycleTime
  /\ UNCHANGED <<counterTime, call, hooked, halted>>

\* The task activated, or signalled, by an alarm that expires refuses it, and
\* the tick is stopped in the ErrorHook.
AlarmActionError ==
  /\ ~halted /\ ~hooked /\ work # <<>> /\ Head(work)[1] = "alarm"
  /\ LET a == Head(work)[2]
     IN /\ a \notin DOMAIN IncrementAction
        /\ alarmState[a] = 1 /\ AlarmCount(a, Head(work)[3]) > 0
  /\ hooked' = TRUE
  /\ halted' = TRUE
  /\ UNCHANGED <<alarmVars, counterTime, call, work>>

\* The tick halted in ShutdownOS.
Halted == halted /\ UNCHANGED vars

Next ==
  \/ \E k \in Callers, a \in 0 .. ALARMS_COUNT, p \in TickValues :
        SetRelAlarm(k, a, p[1], p[2]) \/ SetAbsAlarm(k, a, p[1], p[2])
  \/ \E k \in Callers, a \in 0 .. ALARMS_COUNT : CancelAlarm(k, a)
  \/ \E k \in Callers : SetRelAlarmSet(k) \/ SetAbsAlarmSet(k) \/ CancelAlarmClear(k)
  \/ SysTick
  \/ IncrementCounter
  \/ IncrementAlarm
  \/ AlarmActionError
  \/ Halted

Spec == Init /\ [][Next]_vars
=============================================================================
