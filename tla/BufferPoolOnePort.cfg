\* One port and the four slabs it needs, three buffers in each; rings of one
\* and two entries, and one packet that may be lost.  No property of the run
\* is about a buffer of its own: the one told apart is forfeited at once.
CONSTANTS
  NPorts = 1
  NSlabs = 4
  SlabSize = 3
  FillSize = 1
  Burst = 2
  BurstTx = 1
  TxSize = 1
  CompSize = 2
  HwLimit = 1
  Senders = {0}
  Droppers = {}
  MaxLost = 1
  Watchable = {6}
SPECIFICATION FairSpec
INVARIANTS
  NoPortStarves
PROPERTIES
  PortRefilled
