SPECIFICATION Spec
CONSTANTS
  TASKS_COUNT = 4
  READYLISTS_COUNT = 3
  RESOURCES_COUNT = 2
  Events = {"e"}
  StaticPriority <- MixedStaticPriority
  MaxActivations <- MixedMaxActivations
  Extended = {2}
  Preemtive = {0, 1, 2, 3}
  ResourcesMask <- MixedResourcesMask
  EventsMask <- MixedEventsMask
  ResourcesPriority <- MixedResourcesPriority
  AutoStart <- MixedAutoStart
  IsrActivates = {1, 3}
  IsrSetsEvents = {2}
INVARIANTS
  CeilingProtects
  RunningIsHead
  EntriesMatchActivations
  ReadyListFits
  OneRunning
  ResourceExclusion
