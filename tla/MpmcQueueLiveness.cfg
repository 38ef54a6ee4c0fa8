\* Two producers and the single polling consumer every queue of the emulator has.
CONSTANTS
  p1 = p1
  p2 = p2
  c1 = c1
  None = None
  Producers = {p1, p2}
  Consumers = {c1}
  Size = 2
  MaxPushes = 2
SPECIFICATION FairSpec
INVARIANTS
  SoleConsumerSeesWork
PROPERTIES
  EveryPacketPulled
  PushesProgress
