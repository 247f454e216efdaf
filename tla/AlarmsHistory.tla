--------------------------- MODULE AlarmsHistory ---------------------------
(***************************************************************************)
(* Alarms with a record of what was asked of each alarm and of how often   *)
(* it has expired, to compare the countdown the code makes with the time   *)
(* that passes.  The history is only written, never read, by the steps,    *)
(* but for the bound on the time an alarm is observed.                     *)
(***************************************************************************)
EXTENDS Alarms

CONSTANT MaxSeen   \* bound: an alarm is observed for that many increments

VARIABLES
  request,   \* what each alarm was last set to, unless it was cancelled
  seen,      \* the increments its counter is due since then
  fired      \* its expirations since then

historyVars == <<request, seen, fired>>
historyAndVars == <<vars, historyVars>>

NoRequest == [set |-> FALSE]
Request(time, cycle, start) ==
  [set |-> TRUE, time |-> time, cycle |-> cycle, start |-> start]

HInit ==
  /\ Init
  /\ request = [a \in Alarms |-> IF alarmState[a] = 1
                                   THEN Request(alarmTime[a], alarmCycleTime[a], {})
                                   ELSE NoRequest]
  /\ seen = [a \in Alarms |-> 0]
  /\ fired = [a \in Alarms |-> 0]

\* Alarm a begins anew.
Requested(a, r) ==
  /\ request' = [request EXCEPT ![a] = r]
  /\ seen' = [seen EXCEPT ![a] = 0]
  /\ fired' = [fired EXCEPT ![a] = 0]

HSetRelAlarm(k) ==
  /\ SetRelAlarmSet(k)
  /\ Requested(call[k][2], Request(call[k][3], call[k][4], {}))

HSetAbsAlarm(k) ==
  /\ SetAbsAlarmSet(k)
  /\ LET a == call[k][2]
     IN Requested(a, Request(counterTime[Counter(a)] + call[k][3], call[k][4], {call[k][3]}))

HCancelAlarm(k) == CancelAlarmClear(k) /\ Requested(call[k][2], NoRequest)

\* An alarm whose time counts: it is cyclic or has still to expire.
Counts(a) == request[a].set /\ (request[a].cycle # 0 \/ fired[a] = 0)

\* The alarms of counter c are due n more increments.
SeenAfter(c, n) ==
  [a \in Alarms |-> IF HasAlarm(c, a) /\ Counts(a) THEN seen[a] + n ELSE seen[a]]

HSysTick ==
  /\ \A a \in Alarms : seen[a] < MaxSeen
  /\ SysTick
  /\ seen' = SeenAfter(0, 1)
  /\ UNCHANGED <<request, fired>>

HIncrementAlarm ==
  /\ IncrementAlarm
  /\ LET a == Head(work)[2]
         count == IF alarmState[a] = 1 THEN AlarmCount(a, Head(work)[3]) ELSE 0
     IN /\ fired' = [fired EXCEPT ![a] = @ + count]
        /\ seen' = IF a \in DOMAIN IncrementAction
                     THEN SeenAfter(IncrementAction[a], count) ELSE seen
  /\ UNCHANGED request

\* The bound is reached: the system tick stops.
ObservationEnds ==
  /\ \E a \in Alarms : seen[a] >= MaxSeen
  /\ work = <<>>
  /\ UNCHANGED historyAndVars

HNext ==
  \/ \E k \in Callers, a \in 0 .. ALARMS_COUNT, p \in TickValues :
        (SetRelAlarm(k, a, p[1], p[2]) \/ SetAbsAlarm(k, a, p[1], p[2]))
          /\ UNCHANGED historyVars
  \/ \E k \in Callers, a \in 0 .. ALARMS_COUNT : CancelAlarm(k, a) /\ UNCHANGED historyVars
  \/ \E k \in Callers : HSetRelAlarm(k) \/ HSetAbsAlarm(k) \/ HCancelAlarm(k)
  \/ HSysTick
  \/ IncrementCounter /\ UNCHANGED historyVars
  \/ HIncrementAlarm
  \/ AlarmActionError /\ UNCHANGED historyVars
  \/ Halted /\ UNCHANGED historyVars
  \/ ObservationEnds

HSpec == HInit /\ [][HNext]_historyAndVars

\* How often an alarm is to have expired.
Due(increments, time, cycle) ==
  IF increments = 0 \/ increments < time THEN 0
  ELSE IF cycle = 0 THEN 1 ELSE 1 + (increments - time) \div cycle

\* Between two ticks every alarm has expired exactly as often as the time since
\* it was set calls for: no increment is lost or counted twice, neither by a
\* counter that another alarm increments several times within one tick, nor by
\* an alarm set, cancelled or set again between two ticks; one cancelled does
\* not expire; and the AlarmTime that GetAlarm returns is the time left until
\* the next expiration.
FiresOnTime ==
  work = <<>> =>
    \A a \in Alarms :
       LET r == request[a]
       IN IF r.set
            THEN /\ fired[a] = Due(seen[a], r.time, r.cycle)
                 /\ alarmState[a] = 1 <=> Counts(a)
                 /\ Counts(a) => alarmTime[a] + seen[a] = r.time + fired[a] * r.cycle
            ELSE fired[a] = 0

\* os.h on SetAbsAlarm: "When Start ticks are reached", the alarm acts: at its
\* first expiration its counter stands at the start value it was given.
AbsAlarmAtStart ==
  [][\A a \in Alarms :
       (request[a].set /\ fired[a] = 0 /\ fired'[a] = 1) =>
          \A start \in request[a].start \ {0} :
             counterTime[Counter(a)] = start % MaxAllowedValue[Counter(a)]]_historyAndVars
=============================================================================
