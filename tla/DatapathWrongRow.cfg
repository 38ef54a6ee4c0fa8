\* Two NIC queues: the second thread's index of a queue is not its number.
CONSTANTS
  NDest = 4
  Self = 2
  NNic = 2
  NVeth = 1
  QueueSize = 2
  Burst = 2
  NSlots = 1
  Route <- MCRoute
  MaxPackets = 2
  Undefined = Undefined
SPECIFICATION Spec
INVARIANT
  HeadersRouted
CHECK_DEADLOCK FALSE
