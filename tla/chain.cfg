SPECIFICATION ChainSpec
CONSTANTS
  TASKS_COUNT = 3
  READYLISTS_COUNT = 2
  RESOURCES_COUNT = 1
  Events = {"e"}
  StaticPriority <- ChainStaticPriority
  MaxActivations <- ChainMaxActivations
  Extended = {1}
  Preemtive = {0, 1}
  ResourcesMask <- ChainResourcesMask
  EventsMask <- ChainEventsMask
  ResourcesPriority <- ChainResourcesPriority
  AutoStart <- ChainAutoStart
  IsrActivates = {1, 2}
  IsrSetsEvents = {1}
INVARIANTS
  CeilingProtects
  RunningIsHead
PROPERTIES
  SelfChainKeepsActivations
