\* Two ports contend for a pool of five slabs of two buffers; packets flow
\* from port 1, which drops what overflows, and from port 0 out of port 0.
\* Five slabs are too few for neither ever to starve: the system may stop.
CONSTANTS
  NPorts = 2
  NSlabs = 5
  SlabSize = 2
  FillSize = 1
  Burst = 1
  BurstTx = 1
  TxSize = 1
  CompSize = 2
  HwLimit = 1
  Senders = {0}
  Droppers = {1}
  MaxLost = 1
  Watchable = {0, 1, 2, 3, 4, 5, 6, 7, 8, 9}
SPECIFICATION Spec
INVARIANTS
  TypeOK
  SlabsApart
  EmptySlabGuaranteed
  BuffersConserved
CHECK_DEADLOCK FALSE
