\* One NIC queue, as the emulator is started by default, and two slots.
CONSTANTS
  NDest = 3
  Self = 2
  NNic = 1
  NVeth = 1
  QueueSize = 2
  Burst = 2
  NSlots = 2
  Route <- MCRoute
  MaxPackets = 3
  Undefined = Undefined
SPECIFICATION FairSpec
INVARIANTS
  TypeOK
  HeadersRouted
  NothingLost
PROPERTIES
  KeepsPromise
