\* Two producers and two consumers on a ring of two cells, four laps.
CONSTANTS
  p1 = p1
  p2 = p2
  c1 = c1
  c2 = c2
  None = None
  Producers = {p1, p2}
  Consumers = {c1, c2}
  Size = 2
  MaxPushes = 3
SPECIFICATION Spec
SYMMETRY Symmetry
INVARIANTS
  TypeOK
  CellExclusive
  Bounded
  RingInv
PROPERTIES
  PushFullJustified
  PullEmptyJustified
  RetriesJustified
  KeepsPromise
