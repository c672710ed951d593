\* A handler that stops a watcher may never return.
SPECIFICATION FairSpec
CONSTANTS
  Main = main
  Watchers = {w1}
  Nobody = Nobody
  MaxBurst = 1
  MaxLoads = 1
PROPERTY
  HandlerBounded
\* A cancelled daemon may run out of steps, and goroutines may wait for each other for ever.
CHECK_DEADLOCK FALSE
