\* One port whose receiving thread drops packets while its sending thread runs.
CONSTANTS
  NPorts = 1
  NSlabs = 5
  SlabSize = 1
  FillSize = 1
  Burst = 1
  BurstTx = 1
  TxSize = 1
  CompSize = 1
  HwLimit = 1
  Senders = {0}
  Droppers = {0}
  MaxLost = 0
  Watchable = {3}
SPECIFICATION Spec
INVARIANTS
  EmptySlabGuaranteed
CHECK_DEADLOCK FALSE
