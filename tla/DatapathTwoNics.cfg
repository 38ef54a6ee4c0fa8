\* Two NIC queues share four destinations.
CONSTANTS
  NDest = 4
  Self = 2
  NNic = 2
  NVeth = 2
  QueueSize = 2
  Burst = 2
  NSlots = 1
  Route <- MCRoute
  MaxPackets = 2
  Undefined = Undefined
SPECIFICATION FairSpec
INVARIANTS
  SoleConsumer
  FlowOrder
PROPERTIES
  GoesRound
