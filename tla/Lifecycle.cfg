\* Two NIC queues and one namespace, two runs one after the other, each from
\* worker files of up to two lines.
CONSTANTS
  NNic = 2
  NVeth = 1
  MaxRuns = 2
  Ips = {11, 12}
  Macs = {m1, m2}
  MaxLines = 2
  Rows = 2
  Cols = 2
  RouteFile <- MCRouteFile
  Initial = 1
  None = None
  Garbage = Garbage
SPECIFICATION FairSpec
INVARIANTS
  LifecycleTypeOK
  NothingDangling
  RedirectsToOwnPort
  OneThreadPerSide
  EndLeavesNothing
  TablesRight
PROPERTY
  RunEnds
\* After MaxRuns runs nobody starts the emulator again.
CHECK_DEADLOCK FALSE
