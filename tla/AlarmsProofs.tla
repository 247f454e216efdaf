---------------------------- MODULE AlarmsProofs ----------------------------
(***************************************************************************)
(* Proofs about the alarms, for every OIL configuration of alarms and      *)
(* counters, any number of callers of any priorities and any values they   *)
(* pass.                                                                   *)
(*                                                                         *)
(* What a tick still owes an alarm lies in the calls of IncrementCounter   *)
(* and IncrementAlarm that it has yet to make.  The inductive invariant    *)
(* takes it away from the increments seen: at every step of the tick, and  *)
(* not only between two ticks, the time left to an alarm and the           *)
(* increments it has been given make up its request.                       *)
(***************************************************************************)
EXTENDS AlarmsHistory, Integers, TLAPS

(***************************************************************************)
(* Arithmetic                                                              *)
(***************************************************************************)
LEMMA DivMod ==
  ASSUME NEW x \in Nat, NEW c \in Nat \ {0}
  PROVE  /\ x \div c \in Nat
         /\ x % c \in 0 .. c - 1
         /\ x = (x \div c) * c + (x % c)
OBVIOUS

LEMMA QuotientIsUnique ==
  ASSUME NEW p \in Int, NEW q \in Int, NEW c \in Nat \ {0},
         NEW r \in 0 .. c - 1, NEW s \in 0 .. c - 1,
         p * c + r = q * c + s
  PROVE  p = q
OBVIOUS

LEMMA Distributes ==
  ASSUME NEW p \in Int, NEW q \in Int, NEW c \in Int
  PROVE  (p + q) * c = p * c + q * c
OBVIOUS

LEMMA ProductIsNat ==
  ASSUME NEW p \in Nat, NEW c \in Nat
  PROVE  /\ p * c \in Nat
         /\ p > 0 => p * c >= c
OBVIOUS

\* The loop that adds the cycle to the time of an alarm, until the time is
\* beyond n, ends with no more than a cycle left.
LEMMA CycleAdded ==
  ASSUME NEW left \in Nat, NEW cycle \in Nat \ {0}, NEW n \in Nat, left <= n
  PROVE  /\ 1 + (n - left) \div cycle \in Nat \ {0}
         /\ left + (1 + (n - left) \div cycle) * cycle - n \in 1 .. cycle
<1> DEFINE x == n - left
           count == x \div cycle
           rest == x % cycle
<1>1. x \in Nat
  OBVIOUS
<1>2. count \in Nat /\ rest \in 0 .. cycle - 1 /\ x = count * cycle + rest
  <2> HIDE DEF x
  <2> QED
    BY <1>1, DivMod
<1>3. (1 + count) * cycle = cycle + count * cycle /\ count * cycle \in Nat
  <2>1. (1 + count) * cycle = 1 * cycle + count * cycle
    BY <1>2, Distributes
  <2> QED
    BY <2>1, <1>2, ProductIsNat
<1>4. left + (1 + count) * cycle - n = cycle - rest
  <2> HIDE DEF count, rest
  <2> QED
    BY <1>2, <1>3
<1> HIDE DEF rest
<1> QED
  BY <1>2, <1>4

(***************************************************************************)
(* The configuration, and the types                                        *)
(***************************************************************************)
LEMMA CounterOfAlarm ==
  ASSUME NEW a \in Alarms
  PROVE  Counter(a) \in Counters /\ HasAlarm(Counter(a), a)
BY AlarmsAssumption DEF Counter

LEMMA SystemCounter == 0 \in Counters
BY AlarmsAssumption DEF Counters

LEMMA RefType ==
  ASSUME NEW c \in Counters
  PROVE  /\ AlarmRef[c] \in Seq(Alarms)
         /\ Len(AlarmRef[c]) \in Nat
         /\ \A i \in 1 .. Len(AlarmRef[c]) : AlarmRef[c][i] \in Alarms
BY AlarmsAssumption

\* The calls a tick makes; none of them is for no increment.
Calls == ({"counter"} \X Counters \X Nat) \cup ({"alarm"} \X Alarms \X Nat)
DueCalls == {w \in Calls : w[3] > 0}

LEMMA AlarmCallsType ==
  ASSUME NEW c \in Counters, NEW n \in Nat
  PROVE  /\ AlarmCalls(c, n) \in Seq(Calls)
         /\ n > 0 => AlarmCalls(c, n) \in Seq(DueCalls)
         /\ Len(AlarmCalls(c, n)) = Len(AlarmRef[c])
         /\ \A i \in 1 .. Len(AlarmRef[c]) : AlarmCalls(c, n)[i] = <<"alarm", AlarmRef[c][i], n>>
<1>1. \A i \in 1 .. Len(AlarmRef[c]) : <<"alarm", AlarmRef[c][i], n>> \in Calls
  BY RefType DEF Calls
<1>2. n > 0 => \A i \in 1 .. Len(AlarmRef[c]) : <<"alarm", AlarmRef[c][i], n>> \in DueCalls
  BY <1>1 DEF DueCalls
<1> QED
  BY <1>1, <1>2, RefType DEF AlarmCalls

LEMMA ExpirationCallsType ==
  ASSUME NEW a \in Alarms, NEW n \in Nat
  PROVE  CallsOfExpirations(a, n) \in Seq(DueCalls)
<1>1. CASE a \in DOMAIN IncrementAction /\ n > 0
  <2>1. <<"counter", IncrementAction[a], n>> \in DueCalls
    BY <1>1, AlarmsAssumption DEF DueCalls, Calls
  <2> QED
    BY <1>1, <2>1 DEF CallsOfExpirations
<1>2. CASE ~(a \in DOMAIN IncrementAction /\ n > 0)
  BY <1>2 DEF CallsOfExpirations
<1> QED
  BY <1>1, <1>2

\* The alarm counts down over the expirations: its time does not go below 0,
\* and does not go beyond its cycle.
LEMMA AlarmTimeType ==
  ASSUME NEW a \in Alarms, NEW n \in Nat, TypeOK
  PROVE  /\ AlarmCount(a, n) \in Nat
         /\ AlarmTimeAfter(a, n) \in Nat
<1> DEFINE left == alarmTime[a]
           cycle == alarmCycleTime[a]
<1>1. left \in Nat /\ cycle \in Nat
  BY DEF TypeOK
<1>2. CASE left > n
  <2>1. AlarmCount(a, n) = 0
    BY <1>2 DEF AlarmCount
  <2>2. AlarmTimeAfter(a, n) = left + 0 * cycle - n
    BY <1>1, <1>2, <2>1 DEF AlarmTimeAfter
  <2> QED
    BY <1>1, <1>2, <2>1, <2>2
<1>3. CASE left <= n /\ cycle = 0
  BY <1>1, <1>3 DEF AlarmCount, AlarmTimeAfter
<1>4. CASE left <= n /\ cycle # 0
  <2>1. /\ AlarmCount(a, n) = 1 + (n - left) \div cycle
        /\ AlarmTimeAfter(a, n) = left + (1 + (n - left) \div cycle) * cycle - n
    BY <1>1, <1>4 DEF AlarmCount, AlarmTimeAfter
  <2>2. AlarmCount(a, n) \in Nat \ {0} /\ AlarmTimeAfter(a, n) \in 1 .. cycle
    <3> HIDE DEF left, cycle
    <3> QED
      BY <1>1, <1>4, <2>1, CycleAdded
  <2> QED
    BY <1>1, <2>2
<1> QED
  BY <1>1, <1>2, <1>3, <1>4

(***************************************************************************)
(* Types                                                                   *)
(***************************************************************************)
Services == {None, Shutdown}
              \cup ({"SetRelAlarm", "SetAbsAlarm"} \X Alarms \X Nat \X Nat)
              \cup ({"CancelAlarm"} \X Alarms)

\* The caller that is past its checks names an alarm, and its values are times.
LEMMA CallType ==
  ASSUME TypeOK, NEW k \in Callers
  PROVE  /\ call[k] \in Services
         /\ call[k][1] \in {"SetRelAlarm", "SetAbsAlarm"} =>
              call[k][2] \in Alarms /\ call[k][3] \in Nat /\ call[k][4] \in Nat
         /\ call[k][1] = "CancelAlarm" => call[k][2] \in Alarms
<1>1. call[k] \in Services
  BY DEF TypeOK, Services
<1>2. None[1] = "none" /\ Shutdown[1] = "shutdown"
  BY DEF None, Shutdown
<1> QED
  BY <1>1, <1>2 DEF Services

\* The next call of the tick.
LEMMA WorkType ==
  ASSUME TypeOK, work # <<>>
  PROVE  /\ work \in Seq(Calls) /\ Head(work) \in Calls /\ Tail(work) \in Seq(Calls)
         /\ Head(work)[1] = "counter" =>
              Head(work)[2] \in Counters /\ Head(work)[3] \in Nat
         /\ Head(work)[1] = "alarm" =>
              Head(work)[2] \in Alarms /\ Head(work)[3] \in Nat
<1>1. work \in Seq(Calls)
  BY DEF TypeOK, Calls
<1>2. Head(work) \in Calls /\ Tail(work) \in Seq(Calls)
  BY <1>1
<1> QED
  BY <1>1, <1>2 DEF Calls

LEMMA TypeInit == Init => TypeOK
<1> SUFFICES ASSUME Init PROVE TypeOK
  OBVIOUS
<1>1. alarmState \in [Alarms -> {0, 1}]
  BY DEF Init
<1>2. alarmTime \in [Alarms -> Nat] /\ alarmCycleTime \in [Alarms -> Nat]
  BY AlarmsAssumption DEF Init
<1>3. counterTime \in [Counters -> Nat] /\ \A c \in Counters : counterTime[c] < MaxAllowedValue[c]
  BY AlarmsAssumption DEF Init
<1>4. call \in [Callers -> Services]
  BY DEF Init, Services
<1>5. work \in Seq(Calls) /\ hooked \in BOOLEAN /\ halted \in BOOLEAN
  <2>1. <<>> \in Seq(Calls)
    OBVIOUS
  <2> QED
    BY <2>1 DEF Init
<1> QED
  BY <1>1, <1>2, <1>3, <1>4, <1>5 DEF TypeOK, Services, Calls

\* The checks of the services.
LEMMA CheckedType ==
  ASSUME TypeOK, NEW k \in Callers, NEW status, NEW service,
         status = "E_OK" => service \in Services,
         Checked(k, status, service)
  PROVE  TypeOK'
<1>1. call' \in [Callers -> Services]
  BY DEF TypeOK, Checked, Services
<1>2. hooked' \in BOOLEAN
  BY DEF TypeOK, Checked
<1> QED
  BY <1>1, <1>2 DEF TypeOK, Checked, Services, alarmVars

LEMMA ServiceType ==
  ASSUME TypeOK, NEW k \in Callers, NEW a \in 0 .. ALARMS_COUNT, NEW time \in Nat, NEW cycle \in Nat,
         SetRelAlarm(k, a, time, cycle) \/ SetAbsAlarm(k, a, time, cycle) \/ CancelAlarm(k, a)
  PROVE  TypeOK'
<1>1. SetAlarmStatus(a, time, cycle) = "E_OK" =>
        /\ <<"SetRelAlarm", a, time, cycle>> \in Services
        /\ <<"SetAbsAlarm", a, time, cycle>> \in Services
  BY DEF SetAlarmStatus, Services
<1>2. CASE SetRelAlarm(k, a, time, cycle)
  BY <1>1, <1>2, CheckedType DEF SetRelAlarm
<1>3. CASE SetAbsAlarm(k, a, time, cycle)
  BY <1>1, <1>3, CheckedType DEF SetAbsAlarm
<1>4. CASE CancelAlarm(k, a)
  <2> DEFINE status == IF a \notin Alarms THEN "E_OS_ID"
                       ELSE IF alarmState[a] = 0 THEN "E_OS_NOFUNC" ELSE "E_OK"
  <2>1. Checked(k, status, <<"CancelAlarm", a>>)
    BY <1>4 DEF CancelAlarm
  <2>2. status = "E_OK" => <<"CancelAlarm", a>> \in Services
    BY DEF Services
  <2> HIDE DEF status
  <2> QED
    BY <2>1, <2>2, CheckedType
<1> QED
  BY <1>2, <1>3, <1>4

LEMMA SetAlarmType ==
  ASSUME TypeOK, NEW k \in Callers, NEW service \in {"SetRelAlarm", "SetAbsAlarm"},
         NEW time \in Nat, SetAlarm(k, service, time)
  PROVE  TypeOK'
<1>1. call[k][2] \in Alarms /\ call[k][4] \in Nat
  BY CallType DEF SetAlarm
<1>2. /\ alarmState' \in [Alarms -> {0, 1}]
      /\ alarmTime' \in [Alarms -> Nat]
      /\ alarmCycleTime' \in [Alarms -> Nat]
  BY <1>1 DEF TypeOK, SetAlarm
<1>3. call' \in [Callers -> Services]
  BY DEF TypeOK, SetAlarm, Services
<1> QED
  BY <1>2, <1>3 DEF TypeOK, SetAlarm, Services

LEMMA SetType ==
  ASSUME TypeOK, NEW k \in Callers, SetRelAlarmSet(k) \/ SetAbsAlarmSet(k)
  PROVE  TypeOK'
<1>1. CASE SetRelAlarmSet(k)
  <2>1. call[k][3] \in Nat
    BY <1>1, CallType DEF SetRelAlarmSet, SetAlarm
  <2> QED
    BY <1>1, <2>1, SetAlarmType DEF SetRelAlarmSet
<1>2. CASE SetAbsAlarmSet(k)
  <2>1. call[k][2] \in Alarms /\ call[k][3] \in Nat
    BY <1>2, CallType DEF SetAbsAlarmSet, SetAlarm
  <2>2. counterTime[Counter(call[k][2])] \in Nat
    BY <2>1, CounterOfAlarm DEF TypeOK
  <2>3. counterTime[Counter(call[k][2])] + call[k][3] \in Nat
    BY <2>1, <2>2
  <2> QED
    BY <1>2, <2>3, SetAlarmType DEF SetAbsAlarmSet
<1> QED
  BY <1>1, <1>2

LEMMA CancelType ==
  ASSUME TypeOK, NEW k \in Callers, CancelAlarmClear(k)
  PROVE  TypeOK'
<1>1. alarmState' \in [Alarms -> {0, 1}]
  BY CallType DEF TypeOK, CancelAlarmClear
<1>2. call' \in [Callers -> Services]
  BY DEF TypeOK, CancelAlarmClear, Services
<1> QED
  BY <1>1, <1>2 DEF TypeOK, CancelAlarmClear, Services

LEMMA TickType ==
  ASSUME TypeOK, SysTick \/ IncrementCounter \/ IncrementAlarm \/ AlarmActionError
  PROVE  TypeOK'
<1>1. CASE SysTick
  <2>1. <<"counter", 0, 1>> \in Calls
    BY SystemCounter DEF Calls
  <2>2. work' \in Seq(Calls)
    BY <1>1, <2>1 DEF SysTick
  <2> QED
    BY <1>1, <2>2 DEF TypeOK, SysTick, Calls, alarmVars
<1>2. CASE IncrementCounter
  <2> DEFINE c == Head(work)[2]
             n == Head(work)[3]
             time == Wrapped(c, counterTime[c] + n)
  <2>1. c \in Counters /\ n \in Nat /\ Tail(work) \in Seq(Calls)
    BY <1>2, WorkType DEF IncrementCounter
  <2>2. counterTime' = [counterTime EXCEPT ![c] = time] /\ work' = AlarmCalls(c, n) \o Tail(work)
    BY <1>2 DEF IncrementCounter
  <2>3. time \in Nat /\ time < MaxAllowedValue[c]
    <3>1. counterTime[c] + n \in Nat /\ MaxAllowedValue[c] \in Nat \ {0}
      BY <2>1, AlarmsAssumption DEF TypeOK
    <3>2. (counterTime[c] + n) % MaxAllowedValue[c] \in 0 .. MaxAllowedValue[c] - 1
      <4> HIDE DEF c, n
      <4> QED
        BY <3>1, DivMod
    <3> QED
      BY <3>1, <3>2 DEF Wrapped
  <2> HIDE DEF c, n, time
  <2>4. work' \in Seq(Calls)
    BY <2>1, <2>2, AlarmCallsType
  <2>5. counterTime' \in [Counters -> Nat]
        /\ \A d \in Counters : counterTime'[d] < MaxAllowedValue[d]
    BY <2>1, <2>2, <2>3 DEF TypeOK
  <2> QED
    BY <1>2, <2>4, <2>5 DEF TypeOK, IncrementCounter, Calls, alarmVars
<1>3. CASE IncrementAlarm
  <2> DEFINE a == Head(work)[2]
             n == Head(work)[3]
             count == AlarmCount(a, n)
  <2>1. a \in Alarms /\ n \in Nat /\ Tail(work) \in Seq(Calls)
    BY <1>3, WorkType DEF IncrementAlarm
  <2>2. CASE alarmState[a] = 0
    BY <1>3, <2>1, <2>2 DEF TypeOK, IncrementAlarm, Calls, alarmVars
  <2>3. CASE alarmState[a] # 0
    <3>1. /\ \E time \in Nat : alarmTime' = [alarmTime EXCEPT ![a] = time]
          /\ \E state \in {0, 1} : alarmState' = [alarmState EXCEPT ![a] = state]
          /\ work' = CallsOfExpirations(a, count) \o Tail(work)
          /\ count \in Nat
      BY <1>3, <2>1, <2>3, AlarmTimeType DEF TypeOK, IncrementAlarm
    <3>2. UNCHANGED <<alarmCycleTime, counterTime, call, hooked, halted>>
      BY <1>3, <2>3 DEF IncrementAlarm
    <3>3. Seq(DueCalls) \subseteq Seq(Calls)
      BY DEF DueCalls
    <3> HIDE DEF a, n, count
    <3>4. work' \in Seq(Calls)
      BY <2>1, <3>1, <3>3, ExpirationCallsType
    <3> QED
      BY <2>1, <3>1, <3>2, <3>4 DEF TypeOK, Calls
  <2> QED
    BY <2>2, <2>3
<1>4. CASE AlarmActionError
  BY <1>4 DEF TypeOK, AlarmActionError, alarmVars
<1> QED
  BY <1>1, <1>2, <1>3, <1>4

LEMMA TypeStep ==
  ASSUME TypeOK, [Next]_vars
  PROVE  TypeOK'
<1>1. ASSUME NEW k \in Callers, NEW a \in 0 .. ALARMS_COUNT, NEW p \in TickValues,
             SetRelAlarm(k, a, p[1], p[2]) \/ SetAbsAlarm(k, a, p[1], p[2])
      PROVE  TypeOK'
  <2>1. p[1] \in Nat /\ p[2] \in Nat
    BY AlarmsAssumption
  <2> QED
    BY <1>1, <2>1, ServiceType
<1>2. ASSUME NEW k \in Callers, NEW a \in 0 .. ALARMS_COUNT, CancelAlarm(k, a)
      PROVE  TypeOK'
  BY <1>2, ServiceType
<1>3. ASSUME NEW k \in Callers, SetRelAlarmSet(k) \/ SetAbsAlarmSet(k) \/ CancelAlarmClear(k)
      PROVE  TypeOK'
  BY <1>3, SetType, CancelType
<1>4. CASE SysTick \/ IncrementCounter \/ IncrementAlarm \/ AlarmActionError
  BY <1>4, TickType
<1>5. CASE Halted \/ UNCHANGED vars
  BY <1>5 DEF Halted, vars, alarmVars, TypeOK
<1> QED
  BY <1>1, <1>2, <1>3, <1>4, <1>5 DEF Next

\* The types of os_internal.h's AlarmsVar and CountersVar: an alarm's time does
\* not pass below 0 however far an increment goes beyond it, and every counter
\* stays below its MaxAllowedValue.
THEOREM TypeCorrect == Spec => []TypeOK
<1> QED
  BY TypeInit, TypeStep, PTL DEF Spec

(***************************************************************************)
(* The history only watches                                                *)
(***************************************************************************)
LEMMA HistoryStep == [HNext]_historyAndVars => [Next]_vars
<1> SUFFICES ASSUME [HNext]_historyAndVars PROVE [Next]_vars
  OBVIOUS
<1>1. CASE HNext
  BY <1>1 DEF HNext, HSetRelAlarm, HSetAbsAlarm, HCancelAlarm, HSysTick, HIncrementAlarm,
              ObservationEnds, Next, historyAndVars
<1>2. CASE UNCHANGED historyAndVars
  BY <1>2 DEF historyAndVars
<1> QED
  BY <1>1, <1>2

\* What is proved of Spec holds of the alarms observed: the history variables
\* take no step away, and add none.
THEOREM HistoryImplementsAlarms == HSpec => Spec
<1>1. HInit => Init
  BY DEF HInit
<1> QED
  BY <1>1, HistoryStep, PTL DEF HSpec, Spec

(***************************************************************************)
(* What the tick still owes                                                *)
(***************************************************************************)
\* The increments a call brings to alarm a.
Brings(a, w) ==
  IF w[1] = "counter" THEN (IF HasAlarm(w[2], a) THEN w[3] ELSE 0)
  ELSE IF w[2] = a THEN w[3] ELSE 0

\* sums[i] is what the last i calls bring.
PartialSums(a, calls, sums) ==
  /\ sums \in [Nat -> Nat]
  /\ sums[0] = 0
  /\ \A i \in 1 .. Len(calls) : sums[i] = sums[i - 1] + Brings(a, calls[Len(calls) + 1 - i])

\* The calls bring m increments to alarm a.
Owes(a, calls, m) == \E sums : PartialSums(a, calls, sums) /\ sums[Len(calls)] = m

LEMMA BringsType ==
  ASSUME NEW a, NEW w \in Calls
  PROVE  Brings(a, w) \in Nat
BY DEF Calls, Brings

LEMMA OwesNothing ==
  ASSUME NEW a
  PROVE  /\ Owes(a, <<>>, 0)
         /\ \A m : Owes(a, <<>>, m) => m = 0
<1>1. Len(<<>>) = 0
  OBVIOUS
<1>2. PartialSums(a, <<>>, [i \in Nat |-> 0]) /\ [i \in Nat |-> 0][0] = 0
  BY <1>1 DEF PartialSums
<1>3. Owes(a, <<>>, 0)
  BY <1>1, <1>2 DEF Owes
<1>4. \A m : Owes(a, <<>>, m) => m = 0
  BY <1>1 DEF Owes, PartialSums
<1> QED
  BY <1>3, <1>4

\* The first call is made.
LEMMA OwesTail ==
  ASSUME NEW a, NEW calls \in Seq(Calls), calls # <<>>, NEW m, Owes(a, calls, m)
  PROVE  \E left \in Nat : Owes(a, Tail(calls), left) /\ m = left + Brings(a, Head(calls))
<1> DEFINE len == Len(calls)
           rest == Tail(calls)
<1>1. PICK sums : PartialSums(a, calls, sums) /\ sums[len] = m
  BY DEF Owes
<1>2. /\ len \in Nat \ {0} /\ Len(rest) = len - 1
      /\ \A i \in 1 .. len - 1 : rest[len - i] = calls[len + 1 - i]
      /\ Head(calls) = calls[len + 1 - len]
  OBVIOUS
<1> HIDE DEF len, rest
<1>3. /\ sums \in [Nat -> Nat] /\ sums[0] = 0
      /\ \A i \in 1 .. len : sums[i] = sums[i - 1] + Brings(a, calls[len + 1 - i])
  BY <1>1 DEF PartialSums, len
<1>4. PartialSums(a, rest, sums)
  <2>1. ASSUME NEW i \in 1 .. Len(rest)
        PROVE  sums[i] = sums[i - 1] + Brings(a, rest[Len(rest) + 1 - i])
    <3>1. i \in 1 .. len - 1 /\ i \in 1 .. len /\ Len(rest) + 1 - i = len - i
      BY <1>2, <2>1
    <3> QED
      BY <3>1, <1>2, <1>3
  <2> QED
    BY <2>1, <1>3 DEF PartialSums
<1>5. sums[len - 1] \in Nat
  BY <1>2, <1>3
<1>6. sums[len] = sums[len - 1] + Brings(a, Head(calls))
  BY <1>2, <1>3
<1>7. Owes(a, rest, sums[len - 1])
  BY <1>2, <1>4 DEF Owes
<1> QED
  BY <1>1, <1>5, <1>6, <1>7 DEF rest

\* A sequence of calls is put before those there are.  The sums of the longer
\* one begin like those of the shorter one.
LEMMA OwesMore ==
  ASSUME NEW a, NEW calls \in Seq(Calls), NEW more \in Seq(Calls), NEW m, Owes(a, calls, m),
         NEW f \in [0 .. Len(more) -> Nat], f[0] = 0,
         \A i \in 1 .. Len(more) : f[i] = f[i - 1] + Brings(a, more[Len(more) + 1 - i])
  PROVE  m \in Nat /\ Owes(a, more \o calls, m + f[Len(more)])
<1> DEFINE len == Len(calls)
           new == Len(more)
           all == more \o calls
<1>1. PICK sums : PartialSums(a, calls, sums) /\ sums[len] = m
  BY DEF Owes
<1> DEFINE longer == [i \in Nat |-> IF i <= len THEN sums[i]
                                    ELSE IF i <= len + new THEN m + f[i - len] ELSE 0]
<1>2. /\ len \in Nat /\ new \in Nat /\ Len(all) = len + new
      /\ \A i \in 1 .. len : all[len + new + 1 - i] = calls[len + 1 - i]
      /\ \A i \in 1 .. new : all[new + 1 - i] = more[new + 1 - i]
  OBVIOUS
<1>3. /\ sums \in [Nat -> Nat] /\ sums[0] = 0
      /\ \A i \in 1 .. len : sums[i] = sums[i - 1] + Brings(a, calls[len + 1 - i])
  BY <1>1 DEF PartialSums
<1> HIDE DEF len, all
<1>4. m \in Nat /\ sums[len] = m
  BY <1>1, <1>2, <1>3
<1>5. longer \in [Nat -> Nat] /\ longer[0] = 0
  <2>1. ASSUME NEW i \in Nat
        PROVE  longer[i] \in Nat
    <3>1. CASE i <= len
      BY <3>1, <1>3
    <3>2. CASE ~(i <= len) /\ i <= len + new
      <4>1. i - len \in 0 .. new
        BY <3>2, <1>2
      <4>2. f[i - len] \in Nat
        BY <4>1
      <4>3. longer[i] = m + f[i - len]
        BY <3>2
      <4> HIDE DEF longer
      <4> QED
        BY <4>2, <4>3, <1>4
    <3>3. CASE ~(i <= len) /\ ~(i <= len + new)
      BY <3>3
    <3> QED
      BY <3>1, <3>2, <3>3
  <2>2. longer[0] = 0
    BY <1>2, <1>3
  <2> QED
    BY <2>1, <2>2
<1>6. ASSUME NEW i \in 1 .. len
      PROVE  longer[i] = longer[i - 1] + Brings(a, all[len + new + 1 - i])
  BY <1>2, <1>3
<1>7. ASSUME NEW i \in len + 1 .. len + new
      PROVE  longer[i] = longer[i - 1] + Brings(a, all[len + new + 1 - i])
  <2> DEFINE j == i - len
  <2>1. j \in 1 .. new /\ j - 1 \in 0 .. new /\ i - 1 \in Nat /\ i \in Nat
        /\ len + new + 1 - i = new + 1 - j /\ ~(i <= len) /\ i <= len + new
    BY <1>2
  <2>2. longer[i] = m + f[j]
    BY <2>1
  <2>3. longer[i - 1] = m + f[j - 1]
    <3>1. CASE j = 1
      BY <3>1, <2>1, <1>2, <1>3, <1>4
    <3>2. CASE j # 1
      <4>1. (i - 1) - len = j - 1 /\ ~(i - 1 <= len) /\ i - 1 <= len + new /\ i - 1 \in Nat
        BY <3>2, <2>1, <1>2
      <4>2. longer[i - 1] = m + f[(i - 1) - len]
        <5> HIDE DEF j
        <5> QED
          BY <4>1
      <4> QED
        BY <4>1, <4>2
    <3> QED
      BY <3>1, <3>2
  <2>4. f[j] = f[j - 1] + Brings(a, more[new + 1 - j]) /\ f[j - 1] \in Nat
    BY <2>1
  <2>5. Brings(a, more[new + 1 - j]) \in Nat
    BY <2>1, BringsType
  <2>6. all[len + new + 1 - i] = more[new + 1 - j]
    BY <2>1, <1>2
  <2> HIDE DEF j, longer, new
  <2> QED
    BY <2>2, <2>3, <2>4, <2>5, <2>6, <1>4
<1>8. longer[len + new] = m + f[new]
  <2>1. CASE new = 0
    BY <2>1, <1>2, <1>4
  <2>2. CASE new # 0
    BY <2>2, <1>2
  <2> QED
    BY <2>1, <2>2
<1> HIDE DEF longer, new
<1>9. PartialSums(a, all, longer)
  <2>1. ASSUME NEW i \in 1 .. Len(all)
        PROVE  longer[i] = longer[i - 1] + Brings(a, all[Len(all) + 1 - i])
    BY <2>1, <1>2, <1>6, <1>7
  <2> QED
    BY <2>1, <1>5 DEF PartialSums
<1> QED
  BY <1>2, <1>4, <1>8, <1>9 DEF Owes, all, new

LEMMA OwesOneMore ==
  ASSUME NEW a, NEW calls \in Seq(Calls), NEW w \in Calls, NEW m, Owes(a, calls, m)
  PROVE  m \in Nat /\ Owes(a, <<w>> \o calls, m + Brings(a, w))
<1> DEFINE f == [i \in 0 .. 1 |-> IF i = 0 THEN 0 ELSE Brings(a, w)]
<1>1. Brings(a, w) \in Nat
  BY BringsType
<1>2. <<w>> \in Seq(Calls) /\ Len(<<w>>) = 1 /\ <<w>>[1] = w
  OBVIOUS
<1>3. f \in [0 .. 1 -> Nat] /\ f[0] = 0 /\ f[1] = Brings(a, w)
  BY <1>1
<1> HIDE DEF f
<1>4. \A i \in 1 .. 1 : f[i] = f[i - 1] + Brings(a, <<w>>[1 + 1 - i])
  BY <1>1, <1>2, <1>3
<1>5. m \in Nat /\ Owes(a, <<w>> \o calls, m + f[1])
  <2> DEFINE more == <<w>>
  <2>1. /\ more \in Seq(Calls) /\ f \in [0 .. Len(more) -> Nat]
        /\ \A i \in 1 .. Len(more) : f[i] = f[i - 1] + Brings(a, more[Len(more) + 1 - i])
    BY <1>2, <1>3, <1>4
  <2> HIDE DEF more
  <2>2. m \in Nat /\ Owes(a, more \o calls, m + f[Len(more)])
    BY <2>1, <1>3, OwesMore
  <2> QED
    BY <2>2, <1>2 DEF more
<1> QED
  BY <1>3, <1>5

\* A counter lists an alarm once at most: its calls of IncrementAlarm bring to
\* each alarm what its increment brings.
LEMMA OwesItsAlarms ==
  ASSUME NEW a, NEW calls \in Seq(Calls), NEW c \in Counters, NEW n \in Nat, NEW m,
         Owes(a, calls, m)
  PROVE  m \in Nat /\ Owes(a, AlarmCalls(c, n) \o calls, m + Brings(a, <<"counter", c, n>>))
<1> DEFINE ref == AlarmRef[c]
           len == Len(ref)
           more == AlarmCalls(c, n)
           Later(i) == \E j \in len + 1 - i .. len : ref[j] = a
           f == [i \in 0 .. len |-> IF Later(i) THEN n ELSE 0]
<1>1. /\ len \in Nat /\ more \in Seq(Calls) /\ Len(more) = len
      /\ \A i \in 1 .. len : more[i] = <<"alarm", ref[i], n>>
  BY RefType, AlarmCallsType
<1>2. \A i, j \in 1 .. len : ref[i] = ref[j] => i = j
  BY AlarmsAssumption
<1>3. HasAlarm(c, a) <=> \E j \in 1 .. len : ref[j] = a
  BY DEF HasAlarm
<1> HIDE DEF len, more, ref
<1>4. f \in [0 .. len -> Nat] /\ f[0] = 0
  BY <1>1
<1>5. f[len] = Brings(a, <<"counter", c, n>>)
  <2>1. Later(len) <=> HasAlarm(c, a)
    BY <1>1, <1>3
  <2> QED
    BY <2>1, <1>1 DEF Brings
<1>6. ASSUME NEW i \in 1 .. len
      PROVE  f[i] = f[i - 1] + Brings(a, more[len + 1 - i])
  <2> DEFINE k == len + 1 - i
  <2>1. k \in 1 .. len /\ i \in 0 .. len /\ i - 1 \in 0 .. len /\ len + 1 - (i - 1) = k + 1
    BY <1>1
  <2>2. f[i] = (IF Later(i) THEN n ELSE 0) /\ f[i - 1] = (IF Later(i - 1) THEN n ELSE 0)
    BY <2>1
  <2>3. Brings(a, more[k]) = IF ref[k] = a THEN n ELSE 0
    BY <2>1, <1>1 DEF Brings
  <2>4. Later(i) <=> ref[k] = a \/ Later(i - 1)
    BY <2>1, <1>1
  <2>5. ~(ref[k] = a /\ Later(i - 1))
    BY <2>1, <1>1, <1>2
  <2> HIDE DEF f, Later, k
  <2>6. f[i] = f[i - 1] + Brings(a, more[k])
    BY <2>2, <2>3, <2>4, <2>5
  <2> QED
    BY <2>6 DEF k
<1> HIDE DEF f
<1>7. m \in Nat /\ Owes(a, more \o calls, m + f[len])
  <2>1. /\ f \in [0 .. Len(more) -> Nat]
        /\ \A i \in 1 .. Len(more) : f[i] = f[i - 1] + Brings(a, more[Len(more) + 1 - i])
    BY <1>1, <1>4, <1>6
  <2>2. m \in Nat /\ Owes(a, more \o calls, m + f[Len(more)])
    BY <2>1, <1>1, <1>4, OwesMore
  <2> QED
    BY <2>2, <1>1
<1> QED
  BY <1>5, <1>7 DEF more

(***************************************************************************)
(* The countdown of one alarm                                              *)
(***************************************************************************)
\* An alarm set to (time, cycle) that has been given so many increments has
\* expired count times, and has left to go what AlarmTime holds.
Countdown(left, given, count, time, cycle) ==
  /\ left + given = time + count * cycle
  /\ given = 0 => count = 0
  /\ given > 0 => left > 0
  /\ count > 0 => left <= cycle

\* An increment that does not reach the next expiration.
LEMMA CountdownGoesOn ==
  ASSUME NEW left \in Nat, NEW given \in Nat, NEW count \in Nat, NEW time \in Nat, NEW cycle \in Nat,
         NEW n \in Nat \ {0}, n < left, Countdown(left, given, count, time, cycle)
  PROVE  Countdown(left - n, given + n, count, time, cycle)
<1>1. count * cycle \in Nat
  BY ProductIsNat
<1> QED
  BY <1>1 DEF Countdown

\* One that reaches it, and maybe some more, of a cyclic alarm.
LEMMA CountdownExpires ==
  ASSUME NEW left \in Nat, NEW given \in Nat, NEW count \in Nat, NEW time \in Nat,
         NEW cycle \in Nat \ {0}, NEW n \in Nat \ {0}, left <= n, NEW more \in Nat \ {0},
         left + more * cycle - n \in 1 .. cycle, Countdown(left, given, count, time, cycle)
  PROVE  Countdown(left + more * cycle - n, given + n, count + more, time, cycle)
<1>1. count * cycle \in Nat /\ more * cycle \in Nat
  BY ProductIsNat
<1>2. (count + more) * cycle = count * cycle + more * cycle
  BY Distributes
<1> QED
  BY <1>1, <1>2 DEF Countdown

\* A countdown says how often the alarm has expired.
LEMMA CountdownIsDue ==
  ASSUME NEW left \in Nat, NEW given \in Nat, NEW count \in Nat, NEW time \in Nat, NEW cycle \in Nat,
         cycle = 0 => count = 0, Countdown(left, given, count, time, cycle)
  PROVE  count = Due(given, time, cycle)
<1>1. count * cycle \in Nat /\ (count > 0 => count * cycle >= cycle)
  BY ProductIsNat
<1>2. CASE given = 0 \/ given < time
  <2>1. count = 0
    BY <1>1, <1>2 DEF Countdown
  <2> QED
    BY <1>2, <2>1 DEF Due
<1>3. CASE ~(given = 0 \/ given < time)
  <2>1. left > 0
    BY <1>3 DEF Countdown
  <2>2. count > 0 /\ cycle > 0
    BY <1>1, <1>3, <2>1 DEF Countdown
  <2> DEFINE x == given - time
             q == x \div cycle
  <2>3. x \in Nat /\ cycle \in Nat \ {0}
    BY <1>3, <2>2
  <2>4. q \in Nat /\ x % cycle \in 0 .. cycle - 1 /\ x = q * cycle + (x % cycle)
    <3> HIDE DEF x
    <3> QED
      BY <2>3, DivMod
  <2>5. (count - 1) * cycle = count * cycle - cycle
    <3>1. (count + (-1)) * cycle = count * cycle + (-1) * cycle
      BY Distributes
    <3> QED
      BY <3>1
  <2>6. x = (count - 1) * cycle + (cycle - left) /\ cycle - left \in 0 .. cycle - 1
    BY <1>1, <2>1, <2>2, <2>5 DEF Countdown
  <2>7. q = count - 1
    <3> HIDE DEF q, x
    <3> QED
      BY <2>3, <2>4, <2>6, QuotientIsUnique
  <2>8. Due(given, time, cycle) = 1 + q
    BY <1>3, <2>2 DEF Due
  <2> HIDE DEF q
  <2> QED
    BY <2>7, <2>8
<1> QED
  BY <1>2, <1>3

(***************************************************************************)
(* The inductive invariant                                                 *)
(***************************************************************************)
Requests == {NoRequest} \cup [set : {TRUE}, time : Nat, cycle : Nat, start : SUBSET Nat]

Counting(r, count) == r.set /\ (r.cycle # 0 \/ count = 0)

\* What has been seen and is not owed any more was counted down.
Waits(a, r, increments, count, left, calls) ==
  \E m \in Nat : /\ Owes(a, calls, m)
                 /\ m <= increments
                 /\ Countdown(left, increments - m, count, r.time, r.cycle)

\* An alarm that was not set, or was cancelled, one that waits for its next
\* expiration, and one that was to expire once and did.
Fine(a, r, increments, count, state, left, cycle, calls) ==
  /\ ~r.set => state = 0 /\ count = 0
  /\ Counting(r, count) => /\ state = 1
                           /\ cycle = r.cycle
                           /\ Waits(a, r, increments, count, left, calls)
  /\ r.set /\ ~Counting(r, count) => /\ state = 0 /\ count = 1
                                     /\ increments > 0 /\ increments >= r.time

AlarmFine(a) ==
  Fine(a, request[a], seen[a], fired[a], alarmState[a], alarmTime[a], alarmCycleTime[a], work)

AlarmsInv ==
  /\ TypeOK
  /\ work \in Seq(DueCalls)
  /\ request \in [Alarms -> Requests]
  /\ seen \in [Alarms -> Nat]
  /\ fired \in [Alarms -> Nat]
  /\ \A a \in Alarms : AlarmFine(a)

LEMMA FinePrimed ==
  ASSUME NEW a,
         Fine(a, request'[a], seen'[a], fired'[a], alarmState'[a], alarmTime'[a],
              alarmCycleTime'[a], work')
  PROVE  AlarmFine(a)'
BY DEF AlarmFine, Fine, Counting, Waits, Owes, PartialSums, Brings, HasAlarm, Countdown

LEMMA RequestFields ==
  /\ ~NoRequest.set /\ NoRequest \in Requests
  /\ \A t, c \in Nat, S \in SUBSET Nat :
        LET r == Request(t, c, S)
        IN r \in Requests /\ r.set /\ r.time = t /\ r.cycle = c
  /\ \A r \in Requests : r.set \in BOOLEAN /\ (r.set => r.time \in Nat /\ r.cycle \in Nat)
<1>1. ~NoRequest.set /\ NoRequest \in Requests
  BY DEF NoRequest, Requests
<1>2. ASSUME NEW t \in Nat, NEW c \in Nat, NEW S \in SUBSET Nat
      PROVE  LET r == Request(t, c, S)
             IN r \in Requests /\ r.set /\ r.time = t /\ r.cycle = c
  BY DEF Request, Requests
<1>3. ASSUME NEW r \in Requests
      PROVE  r.set \in BOOLEAN /\ (r.set => r.time \in Nat /\ r.cycle \in Nat)
  <2>1. CASE r = NoRequest
    <3>1. r.set = FALSE
      BY <2>1 DEF NoRequest
    <3> QED
      BY <3>1
  <2>2. CASE r \in [set : {TRUE}, time : Nat, cycle : Nat, start : SUBSET Nat]
    BY <2>2
  <2> QED
    BY <2>1, <2>2 DEF Requests
<1> QED
  BY <1>1, <1>2, <1>3

\* An alarm just set, and one just cancelled.
LEMMA FineWhenSet ==
  ASSUME NEW a, NEW t \in Nat, NEW c \in Nat, NEW S \in SUBSET Nat
  PROVE  Fine(a, Request(t, c, S), 0, 0, 1, t, c, <<>>)
<1> DEFINE r == Request(t, c, S)
<1>1. r.set /\ r.time = t /\ r.cycle = c
  BY RequestFields
<1> HIDE DEF r
<1>2. Countdown(t, 0 - 0, 0, r.time, r.cycle)
  BY <1>1, ProductIsNat DEF Countdown
<1>3. Waits(a, r, 0, 0, t, <<>>)
  BY <1>2, OwesNothing DEF Waits
<1>4. Fine(a, r, 0, 0, 1, t, c, <<>>)
  BY <1>1, <1>3 DEF Fine, Counting
<1> QED
  BY <1>4 DEF r

LEMMA FineWhenCancelled ==
  ASSUME NEW a, NEW left, NEW cycle, NEW calls
  PROVE  Fine(a, NoRequest, 0, 0, 0, left, cycle, calls)
BY RequestFields DEF Fine, Counting

\* The calls still owe what they owed, with what was put to them, but for what
\* the first of them brings.
Passed(a, calls, later, up) ==
  \A m : Owes(a, calls, m) =>
     \E m2 \in Nat : m \in Nat /\ Owes(a, later, m2) /\ m + up = m2 + Brings(a, Head(calls))

\* A call that is none of IncrementAlarm for this alarm leaves it what is left.
LEMMA FineOfOthers ==
  ASSUME NEW a, NEW r \in Requests, NEW increments \in Nat, NEW count \in Nat, NEW state,
         NEW left \in Nat, NEW cycle, NEW calls, NEW later, NEW up \in Nat,
         Fine(a, r, increments, count, state, left, cycle, calls),
         Brings(a, Head(calls)) = 0, Passed(a, calls, later, up)
  PROVE  Fine(a, r, IF Counting(r, count) THEN increments + up ELSE increments, count,
              state, left, cycle, later)
<1>1. CASE Counting(r, count)
  <2>1. PICK m \in Nat : /\ Owes(a, calls, m) /\ m <= increments
                         /\ Countdown(left, increments - m, count, r.time, r.cycle)
    BY <1>1 DEF Fine, Waits
  <2>2. PICK m2 \in Nat : Owes(a, later, m2) /\ m + up = m2 + Brings(a, Head(calls))
    BY <2>1 DEF Passed
  <2>3. m2 = m + up /\ m2 <= increments + up /\ (increments + up) - m2 = increments - m
    BY <2>1, <2>2
  <2>4. Waits(a, r, increments + up, count, left, later)
    BY <2>1, <2>2, <2>3 DEF Waits
  <2> QED
    BY <1>1, <2>4 DEF Fine, Counting
<1>2. CASE ~Counting(r, count)
  BY <1>2 DEF Fine
<1> QED
  BY <1>1, <1>2

\* The alarm waits, and the call brings it n increments.
LEMMA FineWhenGiven ==
  ASSUME NEW a, NEW r \in Requests, NEW increments \in Nat, NEW count \in Nat,
         NEW left \in Nat, NEW calls, NEW later, NEW up \in Nat, NEW n \in Nat \ {0},
         Waits(a, r, increments, count, left, calls),
         Brings(a, Head(calls)) = n, Passed(a, calls, later, up)
  PROVE  \E m2, given \in Nat :
           /\ Owes(a, later, m2)
           /\ m2 <= increments + up
           /\ (increments + up) - m2 = given + n
           /\ given <= increments
           /\ Countdown(left, given, count, r.time, r.cycle)
<1>1. PICK m \in Nat : /\ Owes(a, calls, m) /\ m <= increments
                       /\ Countdown(left, increments - m, count, r.time, r.cycle)
  BY DEF Waits
<1>2. PICK m2 \in Nat : Owes(a, later, m2) /\ m + up = m2 + n
  BY <1>1 DEF Passed
<1>3. /\ increments - m \in Nat /\ m2 <= increments + up
      /\ (increments + up) - m2 = (increments - m) + n
      /\ increments - m <= increments
  BY <1>1, <1>2
<1> QED
  BY <1>1, <1>2, <1>3

LEMMA FineGoesOn ==
  ASSUME NEW a, NEW r \in Requests, NEW increments \in Nat, NEW count \in Nat,
         NEW left \in Nat, NEW calls, NEW later, NEW up \in Nat, NEW n \in Nat \ {0},
         Counting(r, count), Waits(a, r, increments, count, left, calls),
         Brings(a, Head(calls)) = n, Passed(a, calls, later, up), n < left
  PROVE  Fine(a, r, increments + up, count, 1, left - n, r.cycle, later)
<1>1. r.time \in Nat /\ r.cycle \in Nat
  BY RequestFields DEF Counting
<1>2. PICK m2 \in Nat, given \in Nat :
         /\ Owes(a, later, m2) /\ m2 <= increments + up
         /\ (increments + up) - m2 = given + n
         /\ Countdown(left, given, count, r.time, r.cycle)
  BY FineWhenGiven
<1>3. Countdown(left - n, given + n, count, r.time, r.cycle)
  BY <1>1, <1>2, CountdownGoesOn
<1>4. Waits(a, r, increments + up, count, left - n, later)
  BY <1>2, <1>3 DEF Waits
<1> QED
  BY <1>4 DEF Fine, Counting

LEMMA FineExpires ==
  ASSUME NEW a, NEW r \in Requests, NEW increments \in Nat, NEW count \in Nat,
         NEW left \in Nat, NEW calls, NEW later, NEW up \in Nat, NEW n \in Nat \ {0},
         Counting(r, count), Waits(a, r, increments, count, left, calls),
         Brings(a, Head(calls)) = n, Passed(a, calls, later, up), left <= n, r.cycle # 0
  PROVE  LET more == 1 + (n - left) \div r.cycle
         IN Fine(a, r, increments + up, count + more, 1, left + more * r.cycle - n, r.cycle, later)
<1> DEFINE more == 1 + (n - left) \div r.cycle
           after == left + more * r.cycle - n
<1>1. r.time \in Nat /\ r.cycle \in Nat \ {0}
  BY RequestFields DEF Counting
<1>2. PICK m2 \in Nat, given \in Nat :
         /\ Owes(a, later, m2) /\ m2 <= increments + up
         /\ (increments + up) - m2 = given + n
         /\ Countdown(left, given, count, r.time, r.cycle)
  BY FineWhenGiven
<1>3. more \in Nat \ {0} /\ after \in 1 .. r.cycle
  BY <1>1, CycleAdded
<1> HIDE DEF more
<1>4. Countdown(after, given + n, count + more, r.time, r.cycle)
  BY <1>1, <1>2, <1>3, CountdownExpires
<1> HIDE DEF after
<1>5. Waits(a, r, increments + up, count + more, after, later)
  BY <1>2, <1>4 DEF Waits
<1>6. Counting(r, count + more)
  BY <1>1 DEF Counting
<1>7. Fine(a, r, increments + up, count + more, 1, after, r.cycle, later)
  BY <1>5, <1>6 DEF Fine, Counting
<1> QED
  BY <1>7 DEF more, after

LEMMA FineExpiresOnce ==
  ASSUME NEW a, NEW r \in Requests, NEW increments \in Nat, NEW count \in Nat,
         NEW left \in Nat, NEW calls, NEW later, NEW up \in Nat, NEW n \in Nat \ {0},
         Counting(r, count), Waits(a, r, increments, count, left, calls),
         Brings(a, Head(calls)) = n, Passed(a, calls, later, up), left <= n, r.cycle = 0
  PROVE  Fine(a, r, increments + up, count + 1, 0, 0, 0, later)
<1>1. r.time \in Nat /\ r.set /\ count = 0
  BY RequestFields DEF Counting
<1>2. PICK m2 \in Nat, given \in Nat :
         /\ m2 <= increments + up /\ (increments + up) - m2 = given + n
         /\ Countdown(left, given, count, r.time, r.cycle)
  BY FineWhenGiven
<1>3. left + given = r.time
  BY <1>1, <1>2 DEF Countdown
<1>4. increments + up > 0 /\ increments + up >= r.time
  BY <1>1, <1>2, <1>3
<1> QED
  BY <1>1, <1>4 DEF Fine, Counting

\* The calls owe the same as before.
LEMMA FineWithSameOwed ==
  ASSUME NEW a, NEW r, NEW increments, NEW count, NEW state, NEW left, NEW cycle,
         NEW calls, NEW later, \A m : Owes(a, calls, m) => Owes(a, later, m),
         Fine(a, r, increments, count, state, left, cycle, calls)
  PROVE  Fine(a, r, increments, count, state, left, cycle, later)
BY DEF Fine, Waits

LEMMA PassedTail ==
  ASSUME NEW a, NEW calls \in Seq(Calls), calls # <<>>
  PROVE  Passed(a, calls, Tail(calls), 0)
<1>1. Head(calls) \in Calls
  OBVIOUS
<1>2. Brings(a, Head(calls)) \in Nat
  BY <1>1, BringsType
<1> QED
  BY <1>2, OwesTail DEF Passed

LEMMA PassedOneMore ==
  ASSUME NEW a, NEW calls \in Seq(Calls), calls # <<>>, NEW w \in Calls
  PROVE  Passed(a, calls, <<w>> \o Tail(calls), Brings(a, w))
<1>1. Head(calls) \in Calls /\ Tail(calls) \in Seq(Calls)
  OBVIOUS
<1>2. Brings(a, Head(calls)) \in Nat /\ Brings(a, w) \in Nat
  BY <1>1, BringsType
<1> SUFFICES ASSUME NEW m, Owes(a, calls, m)
             PROVE  \E m2 \in Nat : /\ m \in Nat /\ Owes(a, <<w>> \o Tail(calls), m2)
                                    /\ m + Brings(a, w) = m2 + Brings(a, Head(calls))
  BY DEF Passed
<1>3. PICK rest \in Nat : Owes(a, Tail(calls), rest) /\ m = rest + Brings(a, Head(calls))
  BY OwesTail
<1>4. Owes(a, <<w>> \o Tail(calls), rest + Brings(a, w))
  BY <1>1, <1>3, OwesOneMore
<1>5. /\ rest + Brings(a, w) \in Nat /\ m \in Nat
      /\ m + Brings(a, w) = (rest + Brings(a, w)) + Brings(a, Head(calls))
  BY <1>2, <1>3
<1> QED
  BY <1>4, <1>5

(***************************************************************************)
(* The steps                                                               *)
(***************************************************************************)
\* What the steps of a service that is only begun leave as it is.
LEMMA AlarmsUntouched ==
  ASSUME AlarmsInv, TypeOK', UNCHANGED <<alarmVars, work, historyVars>>
  PROVE  AlarmsInv'
<1>1. ASSUME NEW a \in Alarms
      PROVE  AlarmFine(a)'
  <2>1. Fine(a, request[a], seen[a], fired[a], alarmState[a], alarmTime[a], alarmCycleTime[a], work)
    BY DEF AlarmsInv, AlarmFine
  <2> QED
    BY <2>1, FinePrimed DEF alarmVars, historyVars
<1> QED
  BY <1>1 DEF AlarmsInv, historyVars

LEMMA AlarmsInit == HInit => AlarmsInv
<1> SUFFICES ASSUME HInit PROVE AlarmsInv
  OBVIOUS
<1>1. TypeOK
  BY TypeInit DEF HInit
<1>2. work = <<>> /\ seen \in [Alarms -> Nat] /\ fired \in [Alarms -> Nat]
  BY DEF HInit, Init
<1>3. \A a \in Alarms : alarmTime[a] \in Nat /\ alarmCycleTime[a] \in Nat /\ alarmState[a] \in {0, 1}
  BY <1>1 DEF TypeOK
<1>4. ASSUME NEW a \in Alarms
      PROVE  request[a] \in Requests /\ AlarmFine(a)
  <2>1. seen[a] = 0 /\ fired[a] = 0
    BY DEF HInit
  <2>2. CASE alarmState[a] = 1
    <3>1. request[a] = Request(alarmTime[a], alarmCycleTime[a], {})
      BY <2>2 DEF HInit
    <3>2. {} \in SUBSET Nat
      OBVIOUS
    <3>3. Fine(a, request[a], 0, 0, 1, alarmTime[a], alarmCycleTime[a], <<>>)
      BY <3>1, <3>2, <1>3, FineWhenSet
    <3> QED
      BY <3>1, <3>2, <3>3, <1>2, <1>3, <2>1, <2>2, RequestFields DEF AlarmFine
  <2>3. CASE alarmState[a] # 1
    <3>1. request[a] = NoRequest /\ alarmState[a] = 0
      BY <2>3, <1>3 DEF HInit
    <3> QED
      BY <3>1, <1>2, <2>1, FineWhenCancelled, RequestFields DEF AlarmFine
  <2> QED
    BY <2>2, <2>3
<1>5. request \in [Alarms -> Requests]
  BY <1>4 DEF HInit
<1>6. work \in Seq(DueCalls)
  <2>1. <<>> \in Seq(DueCalls)
    OBVIOUS
  <2> QED
    BY <2>1, <1>2
<1> QED
  BY <1>1, <1>2, <1>4, <1>5, <1>6 DEF AlarmsInv

\* The alarm a service sets or cancels begins anew, with nothing owed to it.
LEMMA AlarmsRequested ==
  ASSUME AlarmsInv, TypeOK', work = <<>>, work' = work, NEW b \in Alarms, NEW r \in Requests,
         Requested(b, r), NEW state, NEW left, NEW cycle, Fine(b, r, 0, 0, state, left, cycle, <<>>),
         alarmState' = [alarmState EXCEPT ![b] = state],
         alarmTime' = [alarmTime EXCEPT ![b] = left],
         alarmCycleTime' = [alarmCycleTime EXCEPT ![b] = cycle]
  PROVE  AlarmsInv'
<1>1. /\ request' \in [Alarms -> Requests] /\ seen' \in [Alarms -> Nat] /\ fired' \in [Alarms -> Nat]
      /\ request'[b] = r /\ seen'[b] = 0 /\ fired'[b] = 0
  BY DEF AlarmsInv, Requested
<1>2. alarmState'[b] = state /\ alarmTime'[b] = left /\ alarmCycleTime'[b] = cycle
  BY DEF AlarmsInv, TypeOK
<1>3. ASSUME NEW a \in Alarms
      PROVE  AlarmFine(a)'
  <2>1. CASE a = b
    BY <2>1, <1>1, <1>2, FinePrimed
  <2>2. CASE a # b
    <3>1. /\ request'[a] = request[a] /\ seen'[a] = seen[a] /\ fired'[a] = fired[a]
          /\ alarmState'[a] = alarmState[a] /\ alarmTime'[a] = alarmTime[a]
          /\ alarmCycleTime'[a] = alarmCycleTime[a]
      BY <2>2 DEF AlarmsInv, TypeOK, Requested
    <3>2. Fine(a, request[a], seen[a], fired[a], alarmState[a], alarmTime[a], alarmCycleTime[a], work)
      BY DEF AlarmsInv, AlarmFine
    <3> QED
      BY <3>1, <3>2, FinePrimed
  <2> QED
    BY <2>1, <2>2
<1> QED
  BY <1>1, <1>3 DEF AlarmsInv

LEMMA AlarmsSet ==
  ASSUME AlarmsInv, TypeOK', NEW k \in Callers, NEW service \in {"SetRelAlarm", "SetAbsAlarm"},
         NEW time \in Nat, NEW start \in SUBSET Nat, SetAlarm(k, service, time),
         Requested(call[k][2], Request(time, call[k][4], start))
  PROVE  AlarmsInv'
<1>1. call[k][2] \in Alarms /\ call[k][4] \in Nat
  BY CallType DEF SetAlarm, AlarmsInv
<1>2. Fine(call[k][2], Request(time, call[k][4], start), 0, 0, 1, time, call[k][4], <<>>)
  BY <1>1, FineWhenSet
<1>3. Request(time, call[k][4], start) \in Requests
  BY <1>1, RequestFields
<1>4. work = <<>> /\ work' = work
  BY DEF SetAlarm, Runs
<1> QED
  BY <1>1, <1>2, <1>3, <1>4, AlarmsRequested DEF SetAlarm

LEMMA AlarmsServices ==
  ASSUME AlarmsInv, TypeOK', NEW k \in Callers, HSetRelAlarm(k) \/ HSetAbsAlarm(k) \/ HCancelAlarm(k)
  PROVE  AlarmsInv'
<1>1. CASE HSetRelAlarm(k)
  <2>1. SetAlarm(k, "SetRelAlarm", call[k][3]) /\ call[k][3] \in Nat
    BY <1>1, CallType DEF HSetRelAlarm, SetRelAlarmSet, SetAlarm, AlarmsInv
  <2>2. Requested(call[k][2], Request(call[k][3], call[k][4], {}))
    BY <1>1 DEF HSetRelAlarm
  <2> QED
    BY <2>1, <2>2, AlarmsSet
<1>2. CASE HSetAbsAlarm(k)
  <2> DEFINE time == counterTime[Counter(call[k][2])] + call[k][3]
  <2>1. SetAlarm(k, "SetAbsAlarm", time)
    BY <1>2 DEF HSetAbsAlarm, SetAbsAlarmSet
  <2>2. call[k][2] \in Alarms /\ call[k][3] \in Nat
    BY <2>1, CallType DEF SetAlarm, AlarmsInv
  <2>3. counterTime[Counter(call[k][2])] \in Nat
    BY <2>2, CounterOfAlarm DEF AlarmsInv, TypeOK
  <2>4. time \in Nat /\ {call[k][3]} \in SUBSET Nat
    BY <2>2, <2>3
  <2>5. Requested(call[k][2], Request(time, call[k][4], {call[k][3]}))
    BY <1>2 DEF HSetAbsAlarm
  <2> HIDE DEF time
  <2> QED
    BY <2>1, <2>4, <2>5, AlarmsSet
<1>3. CASE HCancelAlarm(k)
  <2>1. PICK b \in Alarms : b = call[k][2]
    BY <1>3, CallType DEF HCancelAlarm, CancelAlarmClear, AlarmsInv
  <2>2. /\ alarmState' = [alarmState EXCEPT ![b] = 0]
        /\ work = <<>> /\ work' = work /\ Requested(b, NoRequest)
    BY <1>3, <2>1 DEF HCancelAlarm, CancelAlarmClear, Runs
  <2>3. /\ alarmTime' = [alarmTime EXCEPT ![b] = alarmTime[b]]
        /\ alarmCycleTime' = [alarmCycleTime EXCEPT ![b] = alarmCycleTime[b]]
    BY <1>3 DEF HCancelAlarm, CancelAlarmClear, AlarmsInv, TypeOK
  <2>4. Fine(b, NoRequest, 0, 0, 0, alarmTime[b], alarmCycleTime[b], <<>>)
    BY FineWhenCancelled
  <2>5. NoRequest \in Requests
    BY RequestFields
  <2> QED
    BY <2>2, <2>3, <2>4, <2>5, AlarmsRequested
<1> QED
  BY <1>1, <1>2, <1>3

\* SeenAfter says of an alarm what its increments are after those of a counter.
LEMMA SeenAfterIs ==
  ASSUME AlarmsInv, NEW c \in Counters, NEW n \in Nat
  PROVE  /\ SeenAfter(c, n) \in [Alarms -> Nat]
         /\ \A a \in Alarms :
              SeenAfter(c, n)[a] = IF Counting(request[a], fired[a])
                                     THEN seen[a] + Brings(a, <<"counter", c, n>>) ELSE seen[a]
<1>1. \A a \in Alarms : seen[a] \in Nat
  BY DEF AlarmsInv
<1> QED
  BY <1>1 DEF SeenAfter, Counting, Counts, Brings

LEMMA AlarmsTick ==
  ASSUME AlarmsInv, TypeOK', HSysTick
  PROVE  AlarmsInv'
<1> DEFINE w == <<"counter", 0, 1>>
<1>1. /\ work = <<>> /\ work' = <<w>> /\ UNCHANGED alarmVars
      /\ seen' = SeenAfter(0, 1) /\ UNCHANGED <<request, fired>>
  BY DEF HSysTick, SysTick
<1>2. w \in Calls /\ w \in DueCalls /\ <<w>> \in Seq(DueCalls)
  <2>1. w \in Calls /\ w \in DueCalls
    BY SystemCounter DEF Calls, DueCalls
  <2> QED
    BY <2>1
<1>3. seen' \in [Alarms -> Nat]
  BY <1>1, SystemCounter, SeenAfterIs
<1>4. ASSUME NEW a \in Alarms
      PROVE  AlarmFine(a)'
  <2>1. Fine(a, request[a], seen[a], fired[a], alarmState[a], alarmTime[a], alarmCycleTime[a], <<>>)
    BY <1>1 DEF AlarmsInv, AlarmFine
  <2>2. /\ seen[a] \in Nat /\ fired[a] \in Nat /\ alarmTime[a] \in Nat /\ request[a] \in Requests
    BY DEF AlarmsInv, TypeOK
  <2>3. seen'[a] = IF Counting(request[a], fired[a]) THEN seen[a] + Brings(a, w) ELSE seen[a]
    BY <1>1, SystemCounter, SeenAfterIs
  <2>4. Brings(a, w) \in Nat
    BY <1>2, BringsType
  <2>5. Owes(a, <<w>>, Brings(a, w))
    <3>1. <<>> \in Seq(Calls) /\ <<w>> \o <<>> = <<w>>
      OBVIOUS
    <3>2. Owes(a, <<w>> \o <<>>, 0 + Brings(a, w))
      BY <3>1, <1>2, OwesNothing, OwesOneMore
    <3> QED
      BY <3>1, <3>2, <2>4
  <2> HIDE DEF w
  <2>6. Fine(a, request[a], seen'[a], fired[a], alarmState[a], alarmTime[a], alarmCycleTime[a], <<w>>)
    <3>1. CASE Counting(request[a], fired[a])
      <4>1. PICK m \in Nat : /\ Owes(a, <<>>, m)
                             /\ Countdown(alarmTime[a], seen[a] - m, fired[a],
                                          request[a].time, request[a].cycle)
        BY <2>1, <3>1 DEF Fine, Waits
      <4>2. m = 0
        BY <4>1, OwesNothing
      <4>3. Brings(a, w) <= seen'[a] /\ seen'[a] - Brings(a, w) = seen[a] - m
        BY <2>2, <2>3, <2>4, <3>1, <4>2
      <4>4. Waits(a, request[a], seen'[a], fired[a], alarmTime[a], <<w>>)
        BY <2>4, <2>5, <4>1, <4>3 DEF Waits
      <4> QED
        BY <2>1, <3>1, <4>4 DEF Fine, Counting
    <3>2. CASE ~Counting(request[a], fired[a])
      BY <2>1, <2>3, <3>2 DEF Fine
    <3> QED
      BY <3>1, <3>2
  <2> QED
    BY <1>1, <2>6, FinePrimed DEF alarmVars
<1> QED
  BY <1>1, <1>2, <1>3, <1>4 DEF AlarmsInv

LEMMA AlarmsCounter ==
  ASSUME AlarmsInv, TypeOK', IncrementCounter, UNCHANGED historyVars
  PROVE  AlarmsInv'
<1> DEFINE c == Head(work)[2]
           n == Head(work)[3]
<1>1. /\ work # <<>> /\ work' = AlarmCalls(c, n) \o Tail(work) /\ UNCHANGED alarmVars
      /\ Head(work)[1] = "counter"
  BY DEF IncrementCounter
<1>2. /\ work \in Seq(Calls) /\ Tail(work) \in Seq(Calls) /\ c \in Counters /\ n \in Nat
      /\ Head(work) \in Calls
  BY <1>1, WorkType DEF AlarmsInv
<1>3. Head(work) \in DueCalls /\ Tail(work) \in Seq(DueCalls) /\ n > 0
  <2>1. Head(work) \in DueCalls /\ Tail(work) \in Seq(DueCalls)
    BY <1>1 DEF AlarmsInv
  <2> QED
    BY <2>1 DEF DueCalls
<1>4. Head(work) = <<"counter", c, n>>
  BY <1>1, <1>2 DEF Calls
<1> HIDE DEF c, n
<1>5. work' \in Seq(DueCalls)
  BY <1>1, <1>2, <1>3, AlarmCallsType
<1>6. ASSUME NEW a \in Alarms
      PROVE  AlarmFine(a)'
  <2>1. Fine(a, request[a], seen[a], fired[a], alarmState[a], alarmTime[a], alarmCycleTime[a], work)
    BY DEF AlarmsInv, AlarmFine
  <2>2. ASSUME NEW m, Owes(a, work, m)
        PROVE  Owes(a, work', m)
    <3>1. PICK left \in Nat : Owes(a, Tail(work), left) /\ m = left + Brings(a, <<"counter", c, n>>)
      <4>1. \E left \in Nat : Owes(a, Tail(work), left) /\ m = left + Brings(a, Head(work))
        BY <1>1, <1>2, <2>2, OwesTail
      <4> QED
        BY <4>1, <1>4
    <3> QED
      BY <3>1, <1>1, <1>2, OwesItsAlarms
  <2>3. Fine(a, request[a], seen[a], fired[a], alarmState[a], alarmTime[a], alarmCycleTime[a], work')
    BY <2>1, <2>2, FineWithSameOwed
  <2> QED
    BY <1>1, <2>3, FinePrimed DEF alarmVars, historyVars
<1> QED
  BY <1>5, <1>6 DEF AlarmsInv, historyVars

\* Every call of IncrementAlarm, with the expirations it makes and the counter
\* these increment.
LEMMA AlarmsExpire ==
  ASSUME AlarmsInv, TypeOK', HIncrementAlarm
  PROVE  AlarmsInv'
<1> DEFINE b == Head(work)[2]
           n == Head(work)[3]
           count == IF alarmState[b] = 1 THEN AlarmCount(b, n) ELSE 0
           w == <<"counter", IncrementAction[b], count>>
           drives == b \in DOMAIN IncrementAction /\ count > 0
           Up(a) == IF drives THEN Brings(a, w) ELSE 0
<1>1. /\ IncrementAlarm /\ work # <<>> /\ Head(work)[1] = "alarm"
      /\ fired' = [fired EXCEPT ![b] = @ + count] /\ UNCHANGED request
      /\ seen' = IF b \in DOMAIN IncrementAction THEN SeenAfter(IncrementAction[b], count) ELSE seen
  BY DEF HIncrementAlarm, IncrementAlarm
<1>2. /\ work \in Seq(Calls) /\ Tail(work) \in Seq(Calls) /\ b \in Alarms /\ n \in Nat
      /\ Head(work) \in Calls
  BY <1>1, WorkType DEF AlarmsInv
<1>3. Head(work) \in DueCalls /\ Tail(work) \in Seq(DueCalls) /\ n > 0
  <2>1. Head(work) \in DueCalls /\ Tail(work) \in Seq(DueCalls)
    BY <1>1 DEF AlarmsInv
  <2> QED
    BY <2>1 DEF DueCalls
<1>4. Head(work) = <<"alarm", b, n>>
  BY <1>1, <1>2 DEF Calls
<1>5. alarmState[b] \in {0, 1} /\ count \in Nat
  BY <1>2, AlarmTimeType DEF AlarmsInv, TypeOK
<1>6. work' = CallsOfExpirations(b, count) \o Tail(work)
  <2>1. CASE alarmState[b] = 0
    <3>1. work' = Tail(work) /\ count = 0
      BY <1>1, <2>1 DEF IncrementAlarm
    <3>2. CallsOfExpirations(b, count) = <<>>
      BY <3>1 DEF CallsOfExpirations
    <3> HIDE DEF b, n, count
    <3> QED
      BY <3>1, <3>2, <1>2
  <2>2. CASE alarmState[b] = 1
    BY <1>1, <2>2 DEF IncrementAlarm
  <2> QED
    BY <1>5, <2>1, <2>2
<1>7. drives => w \in Calls /\ IncrementAction[b] \in Counters
  BY <1>2, <1>5, AlarmsAssumption DEF Calls
<1>8. work' = IF drives THEN <<w>> \o Tail(work) ELSE Tail(work)
  <2>1. CallsOfExpirations(b, count) = IF drives THEN <<w>> ELSE <<>>
    BY <1>5 DEF CallsOfExpirations
  <2> HIDE DEF b, n, count, w, drives
  <2> QED
    BY <1>2, <1>6, <2>1
<1>9. work' \in Seq(DueCalls)
  <2> HIDE DEF b, n, count
  <2> QED
    BY <1>2, <1>3, <1>5, <1>6, ExpirationCallsType
<1>10. ASSUME NEW a \in Alarms
       PROVE  Up(a) \in Nat /\ Passed(a, work, work', Up(a))
  <2> HIDE DEF w, drives
  <2> QED
    BY <1>1, <1>2, <1>7, <1>8, BringsType, PassedTail, PassedOneMore
<1>11. ASSUME NEW a \in Alarms
       PROVE  seen'[a] = IF Counting(request[a], fired[a]) THEN seen[a] + Up(a) ELSE seen[a]
  <2>1. seen[a] \in Nat
    BY DEF AlarmsInv
  <2>2. CASE drives
    BY <2>2, <1>1, <1>5, <1>7, SeenAfterIs
  <2>3. CASE ~drives
    <3>1. seen'[a] = seen[a]
      <4>1. CASE b \notin DOMAIN IncrementAction
        BY <4>1, <1>1
      <4>2. CASE b \in DOMAIN IncrementAction
        <5>1. count = 0 /\ IncrementAction[b] \in Counters
          BY <4>2, <2>3, <1>5, AlarmsAssumption
        <5>2. Brings(a, <<"counter", IncrementAction[b], 0>>) = 0
          BY DEF Brings
        <5> HIDE DEF b, count
        <5> QED
          BY <4>2, <5>1, <5>2, <1>1, <2>1, SeenAfterIs
      <4> QED
        BY <4>1, <4>2
    <3> QED
      BY <2>1, <2>3, <3>1
  <2> QED
    BY <2>2, <2>3
<1>12. seen' \in [Alarms -> Nat] /\ fired' \in [Alarms -> Nat]
  <2>1. fired' \in [Alarms -> Nat]
    BY <1>1, <1>2, <1>5 DEF AlarmsInv
  <2>2. seen' \in [Alarms -> Nat]
    BY <1>1, <1>5, SeenAfterIs, AlarmsAssumption DEF AlarmsInv
  <2> QED
    BY <2>1, <2>2
<1>13. \A a \in Alarms : Brings(a, Head(work)) = IF a = b THEN n ELSE 0
  BY <1>4 DEF Brings
<1> HIDE DEF Up, w, drives
<1>14. \A a \in Alarms :
         /\ Fine(a, request[a], seen[a], fired[a], alarmState[a], alarmTime[a], alarmCycleTime[a], work)
         /\ seen[a] \in Nat /\ fired[a] \in Nat /\ alarmTime[a] \in Nat /\ request[a] \in Requests
  BY DEF AlarmsInv, AlarmFine, TypeOK
\* The alarms that are not this one.
<1>15. ASSUME NEW a \in Alarms, a # b
       PROVE  AlarmFine(a)'
  <2>1. Fine(a, request[a], IF Counting(request[a], fired[a]) THEN seen[a] + Up(a) ELSE seen[a],
             fired[a], alarmState[a], alarmTime[a], alarmCycleTime[a], work')
    BY <1>10, <1>13, <1>14, <1>15, FineOfOthers
  <2>2. Fine(a, request[a], seen'[a], fired[a], alarmState[a], alarmTime[a], alarmCycleTime[a], work')
    BY <2>1, <1>11
  <2>3. /\ alarmState'[a] = alarmState[a] /\ alarmTime'[a] = alarmTime[a]
        /\ alarmCycleTime'[a] = alarmCycleTime[a]
    BY <1>1, <1>15 DEF IncrementAlarm, alarmVars, AlarmsInv, TypeOK
  <2>4. fired'[a] = fired[a] /\ request'[a] = request[a]
    BY <1>1, <1>15 DEF AlarmsInv
  <2> QED
    BY <2>2, <2>3, <2>4, FinePrimed
\* This one, when it does not count.
<1>16. ASSUME NEW a \in Alarms, a = b, alarmState[b] = 0
       PROVE  AlarmFine(a)'
  <2>1. ~Counting(request[b], fired[b])
    BY <1>2, <1>14, <1>16 DEF Fine
  <2>2. Fine(b, request[b], seen[b], fired[b], 0, alarmTime[b], alarmCycleTime[b], work')
    BY <2>1, <1>2, <1>14, <1>16 DEF Fine
  <2>3. UNCHANGED alarmVars /\ count = 0
    BY <1>1, <1>16 DEF IncrementAlarm
  <2>4. fired'[b] = fired[b] /\ request'[b] = request[b] /\ seen'[b] = seen[b]
    <3>1. fired'[b] = fired[b] + 0
      BY <1>1, <1>2, <2>3 DEF AlarmsInv
    <3> QED
      BY <3>1, <1>1, <1>2, <1>11, <1>14, <2>1
  <2> QED
    BY <2>2, <2>3, <2>4, <1>16, FinePrimed DEF alarmVars
\* When it does.
<1>17. ASSUME NEW a \in Alarms, a = b, alarmState[b] = 1
       PROVE  AlarmFine(a)'
  <2> DEFINE r == request[b]
             left == alarmTime[b]
  <2>1. Counting(r, fired[b]) /\ alarmCycleTime[b] = r.cycle
        /\ Waits(b, r, seen[b], fired[b], left, work)
    BY <1>2, <1>14, <1>17 DEF Fine
  <2>2. /\ fired'[b] = fired[b] + AlarmCount(b, n) /\ seen'[b] = seen[b] + Up(b) /\ request'[b] = r
        /\ alarmCycleTime'[b] = r.cycle
        /\ alarmTime'[b] = AlarmTimeAfter(b, n)
        /\ alarmState'[b] = IF left <= n /\ r.cycle = 0 THEN 0 ELSE 1
    <3>1. fired'[b] = fired[b] + count /\ count = AlarmCount(b, n)
      BY <1>1, <1>2, <1>17 DEF AlarmsInv
    <3>2. seen'[b] = seen[b] + Up(b)
      BY <1>2, <1>11, <2>1
    <3>3. /\ alarmTime' = [alarmTime EXCEPT ![b] = AlarmTimeAfter(b, n)]
          /\ alarmState' = [alarmState EXCEPT ![b] =
               IF alarmTime[b] <= n /\ alarmCycleTime[b] = 0 THEN 0 ELSE alarmState[b]]
          /\ UNCHANGED alarmCycleTime
      BY <1>1, <1>17 DEF IncrementAlarm
    <3>4. alarmTime'[b] = AlarmTimeAfter(b, n)
          /\ alarmState'[b] = IF left <= n /\ r.cycle = 0 THEN 0 ELSE 1
      BY <3>3, <2>1, <1>2, <1>17 DEF AlarmsInv, TypeOK
    <3> QED
      BY <3>1, <3>2, <3>3, <3>4, <2>1, <1>1
  <2>3. b \in Alarms /\ n \in Nat \ {0} /\ Brings(b, Head(work)) = n /\ left \in Nat
        /\ r \in Requests /\ Up(b) \in Nat /\ Passed(b, work, work', Up(b))
        /\ seen[b] \in Nat /\ fired[b] \in Nat /\ r.cycle \in Nat
    BY <1>2, <1>3, <1>10, <1>13, <1>14, <2>1, RequestFields DEF Counting
  <2>4. CASE n < left
    <3>1. AlarmCount(b, n) = 0 /\ AlarmTimeAfter(b, n) = left - n
      <4>1. AlarmCount(b, n) = 0
        BY <2>4 DEF AlarmCount
      <4>2. AlarmTimeAfter(b, n) = left + 0 * r.cycle - n
        BY <4>1, <2>1, <2>3, <2>4 DEF AlarmTimeAfter
      <4> QED
        BY <4>1, <4>2, <2>3
    <3>2. Fine(b, r, seen[b] + Up(b), fired[b], 1, left - n, r.cycle, work')
      <4> HIDE DEF r, left, b, n
      <4> QED
        BY <2>1, <2>3, <2>4, FineGoesOn
    <3>3. fired'[b] = fired[b] /\ alarmState'[b] = 1
      BY <2>2, <2>3, <2>4, <3>1
    <3> QED
      BY <3>1, <3>2, <3>3, <2>2, <1>17, FinePrimed
  <2>5. CASE left <= n /\ r.cycle # 0
    <3>1. AlarmCount(b, n) = 1 + (n - left) \div r.cycle
      BY <2>1, <2>3, <2>5 DEF AlarmCount
    <3>2. AlarmTimeAfter(b, n) = left + (1 + (n - left) \div r.cycle) * r.cycle - n
      BY <3>1, <2>1, <2>5 DEF AlarmTimeAfter
    <3>3. Fine(b, r, seen[b] + Up(b), fired[b] + (1 + (n - left) \div r.cycle), 1,
               left + (1 + (n - left) \div r.cycle) * r.cycle - n, r.cycle, work')
      <4> HIDE DEF r, left, b, n
      <4> QED
        BY <2>1, <2>3, <2>5, FineExpires
    <3> QED
      BY <3>1, <3>2, <3>3, <2>2, <2>5, <1>17, FinePrimed
  <2>6. CASE left <= n /\ r.cycle = 0
    <3>1. AlarmCount(b, n) = 1 /\ AlarmTimeAfter(b, n) = 0
      BY <2>1, <2>3, <2>6 DEF AlarmCount, AlarmTimeAfter
    <3>2. Fine(b, r, seen[b] + Up(b), fired[b] + 1, 0, 0, 0, work')
      <4> HIDE DEF r, left, b, n
      <4> QED
        BY <2>1, <2>3, <2>6, FineExpiresOnce
    <3> QED
      BY <3>1, <3>2, <2>2, <2>6, <1>17, FinePrimed
  <2> QED
    BY <2>3, <2>4, <2>5, <2>6
<1>18. \A a \in Alarms : AlarmFine(a)'
  BY <1>5, <1>15, <1>16, <1>17
<1> QED
  BY <1>1, <1>9, <1>12, <1>18 DEF AlarmsInv

LEMMA AlarmsStep ==
  ASSUME AlarmsInv, [HNext]_historyAndVars
  PROVE  AlarmsInv'
<1>1. TypeOK'
  BY HistoryStep, TypeStep DEF AlarmsInv
<1>2. ASSUME NEW k \in Callers, NEW a, NEW time, NEW cycle,
             SetRelAlarm(k, a, time, cycle) \/ SetAbsAlarm(k, a, time, cycle) \/ CancelAlarm(k, a),
             UNCHANGED historyVars
      PROVE  AlarmsInv'
  <2>1. UNCHANGED <<alarmVars, work>>
    BY <1>2 DEF SetRelAlarm, SetAbsAlarm, CancelAlarm, Checked
  <2> QED
    BY <1>1, <1>2, <2>1, AlarmsUntouched
<1>3. ASSUME NEW k \in Callers, HSetRelAlarm(k) \/ HSetAbsAlarm(k) \/ HCancelAlarm(k)
      PROVE  AlarmsInv'
  BY <1>1, <1>3, AlarmsServices
<1>4. CASE HSysTick
  BY <1>1, <1>4, AlarmsTick
<1>5. CASE IncrementCounter /\ UNCHANGED historyVars
  BY <1>1, <1>5, AlarmsCounter
<1>6. CASE HIncrementAlarm
  BY <1>1, <1>6, AlarmsExpire
<1>7. CASE (AlarmActionError \/ Halted) /\ UNCHANGED historyVars
  <2>1. UNCHANGED <<alarmVars, work>>
    BY <1>7 DEF AlarmActionError, Halted, vars
  <2> QED
    BY <1>1, <1>7, <2>1, AlarmsUntouched
<1>8. CASE ObservationEnds \/ UNCHANGED historyAndVars
  <2>1. UNCHANGED <<alarmVars, work, historyVars>>
    BY <1>8 DEF ObservationEnds, historyAndVars, vars
  <2> QED
    BY <1>1, <2>1, AlarmsUntouched
<1> QED
  BY <1>2, <1>3, <1>4, <1>5, <1>6, <1>7, <1>8 DEF HNext

\* The inductive invariant: at every step, of a tick too.
THEOREM AlarmsInvariant == HSpec => []AlarmsInv
<1> QED
  BY AlarmsInit, AlarmsStep, PTL DEF HSpec

\* Every alarm has expired as often as the time since it was set calls for, and
\* GetAlarm tells the time that is left: for any tree of counters that alarms
\* drive, whatever services preempt each other between the ticks, and however
\* long the alarms are observed.
THEOREM AlarmsFireOnTime == HSpec => []FiresOnTime
<1>1. ASSUME AlarmsInv
      PROVE  FiresOnTime
  <2> SUFFICES ASSUME work = <<>>, NEW a \in Alarms
               PROVE  LET r == request[a]
                      IN IF r.set
                           THEN /\ fired[a] = Due(seen[a], r.time, r.cycle)
                                /\ alarmState[a] = 1 <=> Counts(a)
                                /\ Counts(a) => alarmTime[a] + seen[a] = r.time + fired[a] * r.cycle
                           ELSE fired[a] = 0
    BY DEF FiresOnTime
  <2> DEFINE r == request[a]
  <2>1. Fine(a, r, seen[a], fired[a], alarmState[a], alarmTime[a], alarmCycleTime[a], <<>>)
    BY <1>1 DEF AlarmsInv, AlarmFine
  <2>2. seen[a] \in Nat /\ fired[a] \in Nat /\ alarmTime[a] \in Nat /\ r \in Requests
    BY <1>1 DEF AlarmsInv, TypeOK
  <2>3. Counts(a) <=> Counting(r, fired[a])
    BY DEF Counts, Counting
  <2>4. CASE ~r.set
    BY <2>1, <2>4 DEF Fine
  <2>5. CASE r.set /\ Counting(r, fired[a])
    <3>1. r.time \in Nat /\ r.cycle \in Nat
      BY <2>2, <2>5, RequestFields
    <3>2. PICK m \in Nat : /\ Owes(a, <<>>, m)
                           /\ Countdown(alarmTime[a], seen[a] - m, fired[a], r.time, r.cycle)
      BY <2>1, <2>5 DEF Fine, Waits
    <3>3. m = 0
      BY <3>2, OwesNothing
    <3>4. Countdown(alarmTime[a], seen[a], fired[a], r.time, r.cycle)
      <4>1. seen[a] - 0 = seen[a]
        BY <2>2
      <4> QED
        BY <3>2, <3>3, <4>1
    <3>5. r.cycle = 0 => fired[a] = 0
      BY <2>5 DEF Counting
    <3>6. fired[a] = Due(seen[a], r.time, r.cycle)
      <4> HIDE DEF r
      <4> QED
        BY <2>2, <3>1, <3>4, <3>5, CountdownIsDue
    <3>7. alarmTime[a] + seen[a] = r.time + fired[a] * r.cycle
      BY <3>4 DEF Countdown
    <3>8. alarmState[a] = 1
      BY <2>1, <2>5 DEF Fine
    <3> QED
      BY <2>3, <2>5, <3>6, <3>7, <3>8
  <2>6. CASE r.set /\ ~Counting(r, fired[a])
    <3>1. alarmState[a] = 0 /\ fired[a] = 1 /\ seen[a] > 0 /\ seen[a] >= r.time
      BY <2>1, <2>6 DEF Fine
    <3>2. r.cycle = 0 /\ r.time \in Nat
      BY <2>2, <2>6, RequestFields DEF Counting
    <3>3. Due(seen[a], r.time, r.cycle) = 1
      BY <2>2, <3>1, <3>2 DEF Due
    <3> QED
      BY <2>3, <2>6, <3>1, <3>3
  <2> QED
    BY <2>4, <2>5, <2>6
<1> QED
  BY <1>1, AlarmsInvariant, PTL
=============================================================================
