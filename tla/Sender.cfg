\* Rings of a few entries; the completion ring takes the device's two
\* descriptors and one burst of two.  Two destinations, so four queues.
CONSTANTS
  FillSize = 3
  RxSize = 2
  TxSize = 2
  CompSize = 4
  HwLimit = 2
  Burst = 2
  NDest = 2
  QueueSize = 1
SPECIFICATION SenderSpec
INVARIANTS
  RefillNeverWaits
  NeverWedged
PROPERTIES
  BurstSubmitted
  EveryQueueServed
