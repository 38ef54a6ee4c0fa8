\* Three nodes, two slots and the beginning of a second cycle.
CONSTANTS
  NNodes = 3
  Routes <- MCRoutes
  SlotTime = 2
  CycleTime = 4
  QueueSize = 1
  MaxNow = 4
  MaxPackets = 2
  Undefined = Undefined
SPECIFICATION FairSpec
INVARIANTS
  NoLoopInSlot
  InOrderInSlot
PROPERTIES
  EveryPacketEnds
  NodesKeepPromise
