SPECIFICATION FairSpec
CONSTANTS
  TASKS_COUNT = 3
  READYLISTS_COUNT = 3
  RESOURCES_COUNT = 1
  Events = {"POSIXE"}
  StaticPriority <- PanelStaticPriority
  MaxActivations <- PanelMaxActivations
  Extended = {0, 1, 2}
  Preemtive = {1}
  ResourcesMask <- PanelResourcesMask
  EventsMask <- PanelEventsMask
  ResourcesPriority <- PanelResourcesPriority
  AutoStart <- PanelAutoStart
  IsrActivates = {1, 2}
  IsrSetsEvents = {0, 1}
INVARIANTS
  TypeOK
  CeilingProtects
  NoLostWakeup
  IndicesValid
PROPERTIES
  SwitchPicksHighest
  NonPreemtiveKeepsCpu
  InversionEnds
  ReadyEndsIdle
