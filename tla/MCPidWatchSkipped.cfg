\* The callbacks of a load that failed are still called.
SPECIFICATION Spec
CONSTANTS
  Main = main
  Watchers = {w1, w2}
  Nobody = Nobody
  MaxBurst = 1
  MaxLoads = 2
SYMMETRY
  WatcherSymmetry
PROPERTY
  SkippedStaysSilent
\* A cancelled daemon may run out of steps, and goroutines may wait for each other for ever.
CHECK_DEADLOCK FALSE
