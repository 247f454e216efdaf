SPECIFICATION HSpec
CONSTANTS
  ALARMS_COUNT = 2
  COUNTERS_COUNT = 2
  AlarmRef <- CascadeAlarmRef
  IncrementAction <- CascadeIncrementAction
  MaxAllowedValue <- CascadeMaxAllowedValue
  MinCycle <- CascadeMinCycle
  AutoStartAlarm <- CascadeAutoStartAlarm
  Callers = {1, 2}
  Preemtive = {1}
  TickValues <- CascadeTickValues
  MaxSeen = 4
INVARIANTS
  TypeOK
  FiresOnTime
