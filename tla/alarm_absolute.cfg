SPECIFICATION HSpec
CONSTANTS
  ALARMS_COUNT = 1
  COUNTERS_COUNT = 1
  AlarmRef <- SingleAlarmRef
  IncrementAction <- SingleIncrementAction
  MaxAllowedValue <- SingleMaxAllowedValue
  MinCycle <- SingleMinCycle
  AutoStartAlarm <- SingleAutoStartAlarm
  Callers = {1, 2}
  Preemtive = {1}
  TickValues <- SingleTickValues
  MaxSeen = 5
PROPERTIES
  AbsAlarmAtStart
